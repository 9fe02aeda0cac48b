--------------------------- MODULE DocumentProofs ---------------------------
(***************************************************************************)
(* The rows of a document, for any number of writers, bodies, retries and  *)
(* passes: one live version, and the refinement of VersionedDocument       *)
(* (DocumentVersions).  And its chunks, for every set of contents, chunks  *)
(* and claim loops (CustomIngest).                                         *)
(***************************************************************************)
EXTENDS DocumentVersions, CustomIngest, TLAPS

\* A sequence with one entry appended.
LEMMA OneAppended ==
  ASSUME NEW T, NEW s \in Seq(T), NEW h \in T
  PROVE  LET new == Append(s, h) IN
         /\ new \in Seq(T) /\ Len(new) = Len(s) + 1
         /\ \A i \in 1 .. Len(s) : new[i] = s[i]
         /\ new[Len(s) + 1] = h
OBVIOUS

\* A sequence with one entry replaced.
LEMMA OneReplaced ==
  ASSUME NEW T, NEW s \in Seq(T), NEW j \in 1 .. Len(s), NEW h \in T
  PROVE  LET new == [s EXCEPT ![j] = h] IN
         /\ new \in Seq(T) /\ Len(new) = Len(s)
         /\ \A i \in 1 .. Len(s) : new[i] = IF i = j THEN h ELSE s[i]
OBVIOUS

\* What an open transaction knows of the table at each of its statements.
VrKnows(w) ==
  /\ vrPc[w] = "idle" => vrClosed[w] = 0 /\ vrOpened[w] = 0 /\ vrEdited[w] = 0
  /\ vrPc[w] \in {"read", "max", "coalesce", "close"} => vrClosed[w] = 0
  /\ vrPc[w] # "done" => vrOpened[w] = 0 /\ vrEdited[w] = 0 /\ ~vrWrote[w]
  /\ vrPc[w] # "idle" => vrItem[w].mode \in VrModesOf(vrKind)
  /\ vrPc[w] = "max" => vrLive = {}
  /\ vrPc[w] = "coalesce" => vrKind = "session" /\ vrSeen[w] \in vrLive
  /\ vrPc[w] = "close" => vrSeen[w] \in 1 .. VrTop
  /\ vrClosed[w] # 0 => vrClosed[w] \in vrLive
  /\ vrPc[w] = "insert" =>
       \/ vrSlot[w] \in 1 .. VrTop /\ vrClosed[w] = 0
       \/ vrSlot[w] = VrTop + 1 /\ vrLive \subseteq {vrClosed[w]}
  /\ vrPc[w] = "done" =>
       \/ /\ vrWrote[w] /\ vrOpened[w] = VrTop + 1 /\ vrEdited[w] = 0
          /\ vrLive \subseteq {vrClosed[w]}
       \/ /\ vrWrote[w] /\ vrOpened[w] = 0 /\ vrClosed[w] = 0
          /\ vrEdited[w] \in vrLive /\ vrKind = "session"
       \/ ~vrWrote[w] /\ vrOpened[w] = 0 /\ vrClosed[w] = 0 /\ vrEdited[w] = 0

\* Two writers never both hold the live row, nor both the session lock.
VrExclusive ==
  \A u, w \in VrWriters : u # w =>
    /\ vrClosed[u] = 0 \/ vrClosed[w] = 0
    /\ vrKind # "plain" => vrPc[u] = "idle" \/ vrPc[w] = "idle"

\* The inductive invariant.
VrInductive ==
  /\ VrTypeOK
  /\ OneLiveVersion
  /\ vrKind = "plain" => vrLive # {}
  /\ vrLive # {} => vrIndex = VrServes(vrHist[VrTop])
  /\ \A w \in VrWriters : VrKnows(w)
  /\ VrExclusive

\* A writer at rest holds some row as its item; there is one.
LEMMA NoItemIsARow == VrNoItem \in VrRows
<1>1. PICK b \in VrBodies : TRUE
  BY Zenon, VrBodiesExist
<1>2. [body |-> b, mode |-> "plain"] \in VrRows
  BY Zenon, <1>1 DEF VrRows, VrModes
<1> QED BY Zenon, <1>2 DEF VrNoItem

\* The invariant holds initially, when a plain document has its first row.
LEMMA InitInductive ==
  ASSUME VrBorn["plain"] = {"born"}, VrInit
  PROVE  VrInductive
<1>0. vrHist = <<>> \/ \E b \in VrBodies, m \in VrModes :
                           vrHist = <<[body |-> b, mode |-> m]>>
  BY VrKindsKnown DEF VrInit, VrModesOf, VrModes
<1>a. ASSUME vrHist = <<>>
      PROVE  /\ vrHist \in Seq(VrRows) /\ Len(vrHist) = 0 /\ vrLive = {}
             /\ vrIndex = "nothing" /\ vrKind # "plain"
  <2>1. Len(vrHist) = 0 /\ vrLive = {} /\ vrIndex = "nothing"
    BY <1>a DEF VrInit
  <2>2. vrHist \in Seq(VrRows)
    BY <1>a
  <2>3. vrKind # "plain"
    BY <1>a DEF VrInit
  <2> QED BY Zenon, <2>1, <2>2, <2>3
<1>b. ASSUME NEW b \in VrBodies, NEW m \in VrModes,
             vrHist = <<[body |-> b, mode |-> m]>>
      PROVE  /\ vrHist \in Seq(VrRows) /\ Len(vrHist) = 1 /\ vrLive = {1}
             /\ vrIndex = VrServes(vrHist[1])
             /\ vrIndex \in VrBodies \cup {"nothing"}
  <2>1. vrHist \in Seq(VrRows) /\ Len(vrHist) = 1 /\ vrHist # <<>>
        /\ vrHist[1] = [body |-> b, mode |-> m]
    BY <1>b DEF VrRows
  <2>2. vrLive = {1} /\ vrIndex = VrServes(vrHist[1])
    BY <2>1 DEF VrInit
  <2>3. VrServes(vrHist[1]) \in VrBodies \cup {"nothing"}
    BY <2>1 DEF VrServes
  <2> QED BY Zenon, <2>1, <2>2, <2>3
<1>1. VrTypeOK
  <2>1. vrHist \in Seq(VrRows) /\ vrLive \subseteq 1 .. Len(vrHist)
        /\ vrIndex \in VrBodies \cup {"nothing"}
    BY Zenon, <1>0, <1>b, <1>a DEF VrInit
  <2> QED BY <2>1, NoItemIsARow DEF VrInit, VrTypeOK
<1>2. OneLiveVersion
  BY Zenon, <1>0, <1>a, <1>b DEF OneLiveVersion, VrTop, VrInit
<1>3. vrKind = "plain" => vrLive # {}
  BY Zenon, <1>0, <1>a, <1>b
<1>4. vrLive # {} => vrIndex = VrServes(vrHist[VrTop])
  BY Zenon, <1>0, <1>a, <1>b DEF VrTop
<1>5. \A w \in VrWriters : VrKnows(w)
  BY Zenon DEF VrInit, VrKnows
<1>6. VrExclusive
  BY Zenon DEF VrInit, VrExclusive
<1> QED BY Zenon, <1>1, <1>2, <1>3, <1>4, <1>5, <1>6 DEF VrInductive

\* A step that leaves the table alone and moves one writer keeps the
\* invariant if it keeps what that writer knows, and the exclusions.
LEMMA WriterStep ==
  ASSUME VrInductive, NEW w \in VrWriters,
         UNCHANGED <<vrKind, vrTable>>, VrTypeOK',
         \A u \in VrWriters \ {w} :
           /\ vrPc'[u] = vrPc[u] /\ vrItem'[u] = vrItem[u]
           /\ vrSeen'[u] = vrSeen[u] /\ vrSlot'[u] = vrSlot[u]
           /\ vrClosed'[u] = vrClosed[u] /\ vrOpened'[u] = vrOpened[u]
           /\ vrEdited'[u] = vrEdited[u] /\ vrWrote'[u] = vrWrote[u],
         VrKnows(w)', VrExclusive'
  PROVE  VrInductive'
<1>1. OneLiveVersion' /\ VrTop' = VrTop
  BY Zenon DEF VrInductive, OneLiveVersion, VrTop, vrTable
<1>2. vrKind' = "plain" => vrLive' # {}
  BY Zenon DEF VrInductive, vrTable
<1>3. vrLive' # {} => vrIndex' = VrServes(vrHist[VrTop])'
  BY Zenon DEF VrInductive, VrServes, VrTop, vrTable
<1>4. ASSUME NEW u \in VrWriters PROVE VrKnows(u)'
  <2>1. CASE u = w
    BY Zenon, <2>1
  <2>2. CASE u # w
    BY Zenon, <2>2, <1>1, VrKnows(u) DEF VrInductive, VrKnows, VrModesOf, vrTable
  <2> QED BY Zenon, <2>1, <2>2
<1> QED BY Zenon, <1>1, <1>2, <1>3, <1>4 DEF VrInductive

\* A writer that takes an item has read nothing yet.
LEMMA BeginKeeps ==
  ASSUME VrInductive, NEW w \in VrWriters, NEW item \in VrRows,
         VrBegin(w, item)
  PROVE  VrInductive'
<1> USE DEF VrInductive
<1>1. VrTypeOK'
  BY SMTT(30) DEF VrTypeOK, VrBegin, vrTable
<1>2. VrKnows(w)'
  BY Zenon DEF VrTypeOK, VrBegin, VrKnows, VrModesOf, VrBusy, vrTable
<1>3. VrExclusive'
  BY Zenon DEF VrTypeOK, VrBegin, VrExclusive, VrLockFree, VrSerial, VrBusy
<1> HIDE DEF VrInductive
<1> QED BY Zenon, <1>1, <1>2, <1>3, WriterStep DEF VrBegin, VrInductive, VrTypeOK

\* What the SELECT of the live version returns is what the writer now knows.
LEMMA ReadLiveKeeps ==
  ASSUME VrInductive, NEW w \in VrWriters, VrReadLive(w)
  PROVE  VrInductive'
<1> USE DEF VrInductive
<1>0. VrKnows(w) /\ VrTypeOK /\ VrTop \in Nat /\ vrLive \subseteq 1 .. VrTop
  BY SMTT(30) DEF VrTypeOK, VrTop
<1>1. VrTypeOK'
  BY SMTT(30), <1>0 DEF VrTypeOK, VrReadLive, vrTable, VrAfterRead, VrSees
<1>2. VrKnows(w)'
  <2>1. PICK seen \in IF VrSees(w) = {} THEN {0} ELSE VrSees(w) :
          /\ vrSeen' = [vrSeen EXCEPT ![w] = seen]
          /\ vrPc' = [vrPc EXCEPT ![w] =
                        IF VrAfterRead(w, seen) = "noop" THEN "done"
                        ELSE VrAfterRead(w, seen)]
    BY Zenon DEF VrReadLive
  <2>2. VrSees(w) = vrLive
    BY <1>0 DEF VrKnows, VrReadLive, VrSees
  <2>3. vrSeen'[w] = seen /\ vrPc'[w] = IF VrAfterRead(w, seen) = "noop" THEN "done"
                                      ELSE VrAfterRead(w, seen)
    BY Zenon, <2>1 DEF VrTypeOK
  <2>4. CASE seen = 0
    <3>1. VrAfterRead(w, seen) = "max" /\ vrLive = {}
      BY <2>1, <2>2, <2>4, <1>0 DEF VrAfterRead
    <3> QED BY Zenon, <3>1, <2>3, <1>0 DEF VrTypeOK, VrReadLive, VrKnows, VrModesOf, vrTable
  <2>5. CASE seen # 0
    <3>1. seen \in vrLive /\ seen \in 1 .. VrTop
      BY Zenon, <2>1, <2>2, <2>5, <1>0
    <3>2. VrAfterRead(w, seen) \in {"noop", "coalesce", "close"}
      BY Zenon, <2>5 DEF VrAfterRead
    <3>3. VrAfterRead(w, seen) = "coalesce" => vrItem[w].mode = "partial"
      BY Zenon, <2>5 DEF VrAfterRead
    <3>4. vrItem[w].mode \in VrModesOf(vrKind) /\ vrKind \in {"plain", "session", "unit"}
      BY Zenon, <1>0, VrKindsKnown DEF VrKnows, VrReadLive, VrTypeOK
    <3>5. VrAfterRead(w, seen) = "coalesce" => vrKind = "session"
      BY Zenon, <3>3, <3>4 DEF VrModesOf
    <3>6. vrLive' = vrLive /\ VrTop' = VrTop /\ vrKind' = vrKind
      BY Zenon DEF VrReadLive, vrTable, VrTop
    <3> HIDE DEF VrAfterRead
    <3> QED BY Zenon, <3>1, <3>2, <3>4, <3>5, <3>6, <2>3, <1>0
            DEF VrTypeOK, VrReadLive, VrKnows, VrModesOf
  <2> QED BY Zenon, <2>4, <2>5
<1>3. VrExclusive'
  BY ZenonT(30), <1>0 DEF VrTypeOK, VrReadLive, VrExclusive
<1> HIDE DEF VrInductive
<1> QED BY Zenon, <1>1, <1>2, <1>3, WriterStep DEF VrReadLive, VrInductive, VrTypeOK, vrTable

\* An edit in place leaves the versions and their liveness alone.
LEMMA CoalesceKeeps ==
  ASSUME VrInductive, NEW w \in VrWriters, VrCoalesce(w)
  PROVE  VrInductive'
<1> USE DEF VrInductive
<1>0. VrKnows(w) /\ VrTypeOK /\ VrTop \in Nat /\ vrLive \subseteq 1 .. VrTop
  BY DEF VrTypeOK, VrTop
<1>1. VrTypeOK'
  BY Zenon, <1>0 DEF VrTypeOK, VrCoalesce, vrTable, VrSees
<1>2. VrKnows(w)'
  BY <1>0 DEF VrTypeOK, VrCoalesce, VrKnows, VrModesOf, VrTop, vrTable, VrSees
<1>3. VrExclusive'
  BY Zenon, <1>0 DEF VrTypeOK, VrCoalesce, VrExclusive, VrKnows
<1> HIDE DEF VrInductive
<1> QED BY Zenon, <1>1, <1>2, <1>3, WriterStep DEF VrCoalesce, VrInductive, VrTypeOK, vrTable

\* A writer that closes the live row holds it until its transaction ends.
LEMMA CloseKeeps ==
  ASSUME VrInductive, NEW w \in VrWriters, VrClose(w)
  PROVE  VrInductive'
<1> USE DEF VrInductive
<1>0. VrKnows(w) /\ VrTypeOK /\ VrTop \in Nat /\ vrLive \subseteq 1 .. VrTop
  BY DEF VrTypeOK, VrTop
<1>1. VrTypeOK'
  BY SMTT(30), <1>0 DEF VrTypeOK, VrClose, vrTable
<1>2. VrKnows(w)'
  <2>1. vrLive' = vrLive /\ VrTop' = VrTop /\ vrKind' = vrKind
    BY Zenon DEF VrClose, vrTable, VrTop
  <2>2. /\ vrPc'[w] = "insert" /\ vrSlot'[w] = vrSeen[w] + 1
        /\ vrClosed'[w] = IF vrSeen[w] \in vrLive THEN vrSeen[w] ELSE 0
        /\ vrItem'[w] = vrItem[w] /\ vrOpened'[w] = 0 /\ vrEdited'[w] = 0
        /\ ~vrWrote'[w] /\ vrSeen[w] \in 1 .. VrTop
        /\ vrItem[w].mode \in VrModesOf(vrKind)
    BY Zenon, <1>0 DEF VrClose, VrTypeOK, VrKnows
  <2>3. vrLive \subseteq {VrTop}
    BY Zenon DEF OneLiveVersion
  <2>4. \/ vrSlot'[w] \in 1 .. VrTop /\ vrClosed'[w] = 0
        \/ vrSlot'[w] = VrTop + 1 /\ vrLive \subseteq {vrClosed'[w]}
    <3>1. CASE vrSeen[w] = VrTop
      BY Zenon, <3>1, <2>2, <2>3, <1>0
    <3>2. CASE vrSeen[w] # VrTop
      BY <3>2, <2>2, <2>3, <1>0
    <3> QED BY Zenon, <3>1, <3>2
  <2> QED BY Zenon, <2>1, <2>2, <2>4 DEF VrKnows, VrModesOf
<1>3. VrExclusive'
  BY ZenonT(30), <1>0 DEF VrTypeOK, VrClose, VrExclusive, VrKnows, OneLiveVersion, VrFree
<1> HIDE DEF VrInductive
<1> QED BY Zenon, <1>1, <1>2, <1>3, WriterStep DEF VrClose, VrInductive, VrTypeOK, vrTable

\* The number a writer picks next is above every one it sees.
LEMMA ReadMaxKeeps ==
  ASSUME VrInductive, NEW w \in VrWriters, VrReadMax(w)
  PROVE  VrInductive'
<1> USE DEF VrInductive
<1>0. VrKnows(w) /\ VrTypeOK /\ VrTop \in Nat /\ vrLive \subseteq 1 .. VrTop
  BY DEF VrTypeOK, VrTop
<1>1. VrTypeOK'
  BY <1>0 DEF VrTypeOK, VrReadMax, vrTable, VrTop
<1>2. VrKnows(w)'
  BY Zenon, <1>0 DEF VrTypeOK, VrReadMax, VrKnows, VrModesOf, VrTop, vrTable
<1>3. VrExclusive'
  BY Zenon, <1>0 DEF VrTypeOK, VrReadMax, VrExclusive, VrKnows
<1> HIDE DEF VrInductive
<1> QED BY Zenon, <1>1, <1>2, <1>3, WriterStep DEF VrReadMax, VrInductive, VrTypeOK, vrTable

\* A version inserted under a free number stays its writer's own until the
\* commit.
LEMMA VersionInsertKeeps ==
  ASSUME VrInductive, NEW w \in VrWriters, VrInsert(w)
  PROVE  VrInductive'
<1> USE DEF VrInductive
<1>0. VrKnows(w) /\ VrTypeOK /\ VrTop \in Nat /\ vrLive \subseteq 1 .. VrTop
  BY DEF VrTypeOK, VrTop
<1>1. VrTypeOK'
  BY Zenon, <1>0 DEF VrTypeOK, VrInsert, vrTable
<1>2. VrKnows(w)'
  <2>1. vrLive' = vrLive /\ VrTop' = VrTop /\ vrKind' = vrKind
    BY Zenon DEF VrInsert, vrTable, VrTop
  <2>2. /\ vrPc'[w] = "done" /\ vrOpened'[w] = vrSlot[w] /\ vrEdited'[w] = 0
        /\ vrWrote'[w] /\ vrClosed'[w] = vrClosed[w] /\ vrItem'[w] = vrItem[w]
        /\ vrItem[w].mode \in VrModesOf(vrKind)
    BY Zenon, <1>0 DEF VrInsert, VrTypeOK, VrKnows
  <2>3. /\ vrSlot[w] = VrTop + 1 /\ vrLive \subseteq {vrClosed[w]}
        /\ vrClosed[w] # 0 => vrClosed[w] \in vrLive
    BY <1>0 DEF VrInsert, VrKnows
  <2> QED BY Zenon, <2>1, <2>2, <2>3 DEF VrKnows, VrModesOf
<1>3. VrExclusive'
  BY Zenon, <1>0 DEF VrTypeOK, VrInsert, VrExclusive, VrKnows
<1> HIDE DEF VrInductive
<1> QED BY Zenon, <1>1, <1>2, <1>3, WriterStep DEF VrInsert, VrInductive, VrTypeOK, vrTable

\* A taken number sends the writer back to read, holding what it held.
LEMMA ConflictKeeps ==
  ASSUME VrInductive, NEW w \in VrWriters, VrConflict(w)
  PROVE  VrInductive'
<1> USE DEF VrInductive
<1>0. VrKnows(w) /\ VrTypeOK /\ VrTop \in Nat /\ vrLive \subseteq 1 .. VrTop
  BY DEF VrTypeOK, VrTop
<1>1. VrTypeOK'
  BY SMTT(30), <1>0 DEF VrTypeOK, VrConflict, vrTable
<1>2. VrKnows(w)'
  <2>1. vrLive' = vrLive /\ VrTop' = VrTop /\ vrKind' = vrKind
    BY Zenon DEF VrConflict, vrTable, VrTop
  <2>2. vrClosed[w] = 0 /\ vrOpened[w] = 0 /\ vrEdited[w] = 0 /\ ~vrWrote[w]
        /\ vrItem[w].mode \in VrModesOf(vrKind)
    BY <1>0 DEF VrConflict, VrKnows, VrTypeOK
  <2>3. vrPc'[w] = "read"
    BY Zenon DEF VrConflict, VrTypeOK
  <2> QED BY Zenon, <2>1, <2>2, <2>3 DEF VrConflict, VrKnows, VrModesOf
<1>3. VrExclusive'
  BY Zenon, <1>0 DEF VrTypeOK, VrConflict, VrExclusive, VrKnows
<1> HIDE DEF VrInductive
<1> QED BY Zenon, <1>1, <1>2, <1>3, WriterStep DEF VrConflict, VrInductive, VrTypeOK, vrTable

\* A writer that has used up its retries ends without a trace.
LEMMA ExhaustedKeeps ==
  ASSUME VrInductive, NEW w \in VrWriters, VrExhausted(w)
  PROVE  VrInductive'
<1> USE DEF VrInductive
<1>0. VrKnows(w) /\ VrTypeOK /\ VrTop \in Nat /\ vrLive \subseteq 1 .. VrTop
  BY DEF VrTypeOK, VrTop
<1>1. VrTypeOK'
  BY Zenon, <1>0, NoItemIsARow DEF VrTypeOK, VrExhausted, vrTable, VrRest
<1>2. VrKnows(w)'
  BY Zenon, <1>0 DEF VrTypeOK, VrExhausted, VrKnows, VrModesOf, VrTop, vrTable, VrRest
<1>3. VrExclusive'
  BY ZenonT(30), <1>0 DEF VrTypeOK, VrExhausted, VrExclusive, VrKnows, VrRest
<1> HIDE DEF VrInductive
<1> QED BY Zenon, <1>1, <1>2, <1>3, WriterStep DEF VrExhausted, VrInductive, VrTypeOK, vrTable, VrRest

\* A transaction that fails ends without a trace.
LEMMA RollbackKeeps ==
  ASSUME VrInductive, NEW w \in VrWriters, VrRollback(w)
  PROVE  VrInductive'
<1> USE DEF VrInductive
<1>0. VrKnows(w) /\ VrTypeOK /\ VrTop \in Nat /\ vrLive \subseteq 1 .. VrTop
  BY DEF VrTypeOK, VrTop
<1>1. VrTypeOK'
  BY Zenon, <1>0, NoItemIsARow DEF VrTypeOK, VrRollback, vrTable, VrRest
<1>2. VrKnows(w)'
  BY Zenon, <1>0 DEF VrTypeOK, VrRollback, VrKnows, VrModesOf, VrTop, vrTable, VrRest
<1>3. VrExclusive'
  BY ZenonT(30), <1>0 DEF VrTypeOK, VrRollback, VrExclusive, VrKnows, VrRest
<1> HIDE DEF VrInductive
<1> QED BY Zenon, <1>1, <1>2, <1>3, WriterStep DEF VrRollback, VrInductive, VrTypeOK, vrTable, VrRest

\* What a writer that is about to commit knows.
LEMMA CommitKnows ==
  ASSUME VrInductive, NEW w \in VrWriters, VrCommit(w)
  PROVE  VrKnows(w) /\ VrTypeOK /\ VrTop \in Nat /\ vrLive \subseteq 1 .. VrTop
         /\ vrLive \subseteq {VrTop} /\ vrPc[w] = "done" /\ vrItem[w] \in VrRows
         /\ vrKind' = vrKind
<1>1. VrKnows(w) /\ VrTypeOK /\ vrLive \subseteq 1 .. VrTop
      /\ vrLive \subseteq {VrTop} /\ vrItem[w] \in VrRows
      /\ vrHist \in Seq(VrRows)
  BY Zenon DEF VrInductive, VrTypeOK, VrTop, OneLiveVersion
<1>2. VrTop \in Nat
  BY <1>1 DEF VrTop
<1>3. vrPc[w] = "done" /\ vrKind' = vrKind
  BY Zenon DEF VrCommit
<1> QED BY Zenon, <1>1, <1>2, <1>3

\* A commit changes the table under the other writers: for a plain document
\* they hold nothing, because the committing one held the live row; for the
\* others no second writer is at work.
LEMMA CommitKeeps ==
  ASSUME VrInductive, NEW w \in VrWriters, VrCommit(w)
  PROVE  VrInductive'
<1> USE DEF VrInductive
<1>0. VrKnows(w) /\ VrTypeOK /\ VrTop \in Nat /\ vrLive \subseteq 1 .. VrTop
      /\ vrLive \subseteq {VrTop} /\ vrPc[w] = "done" /\ vrItem[w] \in VrRows
      /\ vrKind' = vrKind
  BY Zenon, CommitKnows
<1>1. /\ VrKnows(w)' 
      /\ vrPc'[w] = "idle" /\ vrClosed'[w] = 0
  BY Zenon, <1>0 DEF VrCommit, VrRest, VrTypeOK, VrKnows
<1>2. \A u \in VrWriters \ {w} :
        /\ vrPc'[u] = vrPc[u] /\ vrItem'[u] = vrItem[u]
        /\ vrSeen'[u] = vrSeen[u] /\ vrSlot'[u] = vrSlot[u]
        /\ vrClosed'[u] = vrClosed[u] /\ vrOpened'[u] = vrOpened[u]
        /\ vrEdited'[u] = vrEdited[u] /\ vrWrote'[u] = vrWrote[u]
  BY Zenon DEF VrCommit, VrRest, VrTypeOK
<1>3. VrServes(vrItem[w]) \in VrBodies \cup {"nothing"}
  BY Zenon, <1>0 DEF VrServes, VrRows
<1>4. VrExclusive'
  BY <1>0, <1>1, <1>2 DEF VrExclusive
<1>5. /\ vrPc' \in [VrWriters -> {"idle", "read", "max", "coalesce", "close",
                                  "insert", "done"}]
      /\ vrItem' \in [VrWriters -> VrRows]
      /\ vrSeen' \in [VrWriters -> Nat] /\ vrSlot' \in [VrWriters -> Nat]
      /\ vrTried' \in [VrWriters -> Nat] /\ vrClosed' \in [VrWriters -> Nat]
      /\ vrOpened' \in [VrWriters -> Nat] /\ vrEdited' \in [VrWriters -> Nat]
      /\ vrWrote' \in [VrWriters -> BOOLEAN]
      /\ vrKind' \in VrKinds /\ vrBegun' \in Nat
  BY Zenon, NoItemIsARow DEF VrCommit, VrRest, VrTypeOK
<1>6. CASE vrWrote[w] /\ vrOpened[w] = VrTop + 1
  <2>1. vrEdited[w] = 0 /\ vrLive \subseteq {vrClosed[w]} /\ vrOpened[w] # 0
    BY <1>0, <1>6 DEF VrKnows
  <2>2. vrHist' = Append(vrHist, vrItem[w]) /\ vrLive' = {VrTop + 1}
        /\ vrIndex' = VrServes(vrItem[w])
    BY Zenon, <2>1, <1>0, <1>6 DEF VrCommit
  <2>3. vrHist' \in Seq(VrRows) /\ VrTop' = VrTop + 1
        /\ vrHist'[VrTop + 1] = vrItem[w]
    BY <2>2, <1>0, OneAppended DEF VrTypeOK, VrTop
  <2>4. VrTypeOK'
    <3>1. vrLive' \subseteq 1 .. VrTop'
      BY <2>2, <2>3, <1>0
    <3>2. vrIndex' \in VrBodies \cup {"nothing"}
      BY Zenon, <2>2, <1>3
    <3> QED BY Zenon, <3>1, <3>2, <1>5, <2>3 DEF VrTypeOK, VrTop
  <2>5. OneLiveVersion' /\ vrLive' # {}
    BY Zenon, <2>2, <2>3 DEF OneLiveVersion
  <2>6. vrIndex' = VrServes(vrHist[VrTop])'
    BY Zenon, <2>2, <2>3 DEF VrServes
  <2>7. ASSUME NEW u \in VrWriters PROVE VrKnows(u)'
    <3>1. CASE u = w
      BY Zenon, <3>1, <1>1
    <3>2. CASE u # w /\ vrKind # "plain"
      <4>1. vrPc[u] = "idle"
        BY ZenonT(30), <3>2, <1>0 DEF VrExclusive
      <4> QED BY Zenon, <4>1, <3>2, <1>2, <1>0, VrKnows(u) DEF VrKnows
    <3>3. CASE u # w /\ vrKind = "plain"
      <4>0. PICK v \in vrLive : TRUE
        BY Zenon, <3>3
      <4>1. vrLive = {VrTop} /\ vrClosed[w] = VrTop /\ VrTop # 0
        <5> HIDE DEF VrInductive
        <5>1. v = VrTop /\ v = vrClosed[w] /\ v \in 1 .. VrTop
          BY Zenon, <4>0, <1>0, <2>1
        <5>2. vrLive = {VrTop}
          BY Zenon, <5>1, <4>0, <1>0, Zenon
        <5>3. VrTop # 0
          BY <5>1, <1>0
        <5> QED BY Zenon, <5>1, <5>2, <5>3
      <4>2. vrClosed[u] = 0
        BY Zenon, <4>1, <3>3 DEF VrExclusive
      <4>3. vrPc[u] # "coalesce" /\ vrPc[u] # "max"
        BY Zenon, <3>3, <4>1 DEF VrKnows
      <4>4. vrPc[u] = "insert" => vrSlot[u] \in 1 .. VrTop
        BY Zenon, <4>1, <4>2 DEF VrKnows
      <4>5. vrPc[u] = "done" =>
              ~vrWrote[u] /\ vrOpened[u] = 0 /\ vrEdited[u] = 0
        BY Zenon, <4>1, <4>2, <3>3 DEF VrKnows
      <4>6. vrPc[u] = "close" => vrSeen[u] \in 1 .. VrTop
        BY Zenon DEF VrKnows
      <4>7. 1 .. VrTop \subseteq 1 .. VrTop'
        BY <2>3, <1>0
      <4>8. /\ vrPc'[u] = vrPc[u] /\ vrItem'[u] = vrItem[u]
            /\ vrSeen'[u] = vrSeen[u] /\ vrSlot'[u] = vrSlot[u]
            /\ vrClosed'[u] = 0 /\ vrOpened'[u] = vrOpened[u]
            /\ vrEdited'[u] = vrEdited[u] /\ vrWrote'[u] = vrWrote[u]
        BY Zenon, <1>2, <3>3, <4>2
      <4>9. /\ vrPc[u] = "close" => vrSeen[u] \in 1 .. VrTop'
            /\ vrPc[u] = "insert" => vrSlot[u] \in 1 .. VrTop'
        BY Zenon, <4>4, <4>6, <4>7
      <4>10. /\ vrPc[u] # "done" =>
                  vrOpened[u] = 0 /\ vrEdited[u] = 0 /\ ~vrWrote[u]
             /\ vrPc[u] # "idle" => vrItem[u].mode \in VrModesOf(vrKind)
        BY Zenon DEF VrKnows
      <4> HIDE DEF VrInductive
      <4> QED BY Zenon, <4>3, <4>5, <4>8, <4>9, <4>10, <1>0 DEF VrKnows
    <3> QED BY Zenon, <3>1, <3>2, <3>3
  <2> QED BY Zenon, <2>4, <2>5, <2>6, <2>7, <1>4
<1>7. CASE vrWrote[w] /\ vrOpened[w] # VrTop + 1
  <2>1. vrOpened[w] = 0 /\ vrClosed[w] = 0 /\ vrEdited[w] \in vrLive
        /\ vrKind = "session"
    BY Zenon, <1>0, <1>7 DEF VrKnows
  <2>2. vrEdited[w] = VrTop /\ VrTop # 0 /\ VrTop \in 1 .. Len(vrHist)
    <3> HIDE DEF VrInductive
    <3>1. vrEdited[w] = VrTop /\ VrTop \in 1 .. VrTop
      BY Zenon, <2>1, <1>0
    <3> QED BY <3>1, <1>0 DEF VrTop
  <2>3. vrHist' = [vrHist EXCEPT ![VrTop] = vrItem[w]] /\ vrLive' = vrLive
        /\ vrIndex' = VrServes(vrItem[w])
    BY Zenon, <2>1, <2>2, <1>7, <1>0 DEF VrCommit
  <2>4. vrHist' \in Seq(VrRows) /\ Len(vrHist') = Len(vrHist)
        /\ vrHist'[VrTop] = vrItem[w]
    BY <2>2, <2>3, <1>0, OneReplaced DEF VrTypeOK
  <2>5. VrTop' = VrTop
    BY Zenon, <2>4 DEF VrTop
  <2>6. VrTypeOK'
    BY Zenon, <1>3, <1>5, <2>3, <2>4, <1>0 DEF VrTypeOK
  <2>7. OneLiveVersion' /\ vrKind' # "plain"
    BY Zenon, <2>3, <2>5, <2>1, <1>0 DEF OneLiveVersion
  <2>8. vrIndex' = VrServes(vrHist[VrTop])'
    BY Zenon, <2>3, <2>4, <2>5 DEF VrServes
  <2>9. ASSUME NEW u \in VrWriters PROVE VrKnows(u)'
    <3>1. CASE u = w
      BY <3>1, <1>1
    <3>2. CASE u # w
      <4>1. vrPc[u] = "idle"
        BY Zenon, <3>2, <1>0, <2>1 DEF VrExclusive
      <4> QED BY Zenon, <4>1, <3>2, <1>2, <1>0, VrKnows(u) DEF VrKnows
    <3> QED BY Zenon, <3>1, <3>2
  <2> QED BY Zenon, <2>6, <2>7, <2>8, <2>9, <1>4
<1>8. CASE ~vrWrote[w]
  <2>1. vrOpened[w] = 0 /\ vrClosed[w] = 0 /\ vrEdited[w] = 0
    BY Zenon, <1>0, <1>8 DEF VrKnows
  <2>2. vrHist' = vrHist /\ vrLive' = vrLive /\ vrIndex' = vrIndex
    BY <2>1, <1>8, <1>0 DEF VrCommit
  <2>3. VrTypeOK'
    BY Zenon, <1>5, <2>2, <1>0 DEF VrTypeOK
  <2>4. UNCHANGED <<vrKind, vrTable>>
    BY Zenon, <2>2, <1>0 DEF vrTable
  <2> HIDE DEF VrInductive
  <2> QED BY Zenon, <2>3, <2>4, <1>1, <1>2, <1>4, WriterStep
<1> QED BY Zenon, <1>6, <1>7, <1>8

\* Retiring a unit pulls the live row from under a writer that has read it
\* but holds no row of it yet.
LEMMA RetireKeeps ==
  ASSUME VrInductive, VrRetire
  PROVE  VrInductive'
<1> USE DEF VrInductive
<1>1. VrTypeOK'
  BY Zenon DEF VrTypeOK, VrRetire, vrTxn
<1>2. OneLiveVersion' /\ vrKind' # "plain" /\ vrLive' = {} /\ VrTop' = VrTop
      /\ vrKind = "unit" /\ vrKind' = vrKind
  BY Zenon DEF VrRetire, OneLiveVersion, VrTop
<1>3. VrExclusive'
  BY Zenon DEF VrRetire, VrExclusive, vrTxn
<1>4. ASSUME NEW u \in VrWriters PROVE VrKnows(u)'
  <2>1. vrClosed[u] = 0 /\ vrLive # {}
    BY Zenon, VrKnows(u) DEF VrRetire, VrKnows
  <2>2. vrPc[u] # "coalesce" /\ vrPc[u] # "max"
    BY Zenon, <1>2, <2>1, VrKnows(u) DEF VrKnows
  <2>3. 0 \notin vrLive
    BY DEF VrTypeOK
  <2>4. vrPc[u] = "insert" => vrSlot[u] \in 1 .. VrTop
    BY Zenon, <2>1, <2>3, VrKnows(u) DEF VrKnows
  <2>5. vrPc[u] = "done" =>
          ~vrWrote[u] /\ vrOpened[u] = 0 /\ vrEdited[u] = 0
    BY Zenon, <1>2, <2>1, <2>3, VrKnows(u) DEF VrKnows
  <2> QED BY Zenon, <1>2, <2>1, <2>2, <2>4, <2>5, VrKnows(u)
          DEF VrKnows, VrRetire, vrTxn, VrModesOf
<1> QED BY Zenon, <1>1, <1>2, <1>3, <1>4

\* Every step keeps the invariant.
LEMMA NextKeeps ==
  ASSUME VrInductive, [VrNext]_vrVars
  PROVE  VrInductive'
<1>1. CASE VrRetire
  BY Zenon, <1>1, RetireKeeps
<1>2. ASSUME NEW w \in VrWriters, VrStep(w) PROVE VrInductive'
  BY Zenon, <1>2, BeginKeeps, ReadLiveKeeps, CoalesceKeeps, CloseKeeps, ReadMaxKeeps,
     VersionInsertKeeps, ConflictKeeps, ExhaustedKeeps, CommitKeeps, RollbackKeeps
     DEF VrStep
<1>3. CASE UNCHANGED vrVars
  <2>1. VrTypeOK' /\ VrExclusive' /\ OneLiveVersion' /\ VrTop' = VrTop
    BY Zenon, <1>3 DEF VrInductive, VrTypeOK, VrExclusive, OneLiveVersion, VrTop,
                vrVars, vrTable, vrTxn
  <2>2. \A w \in VrWriters : VrKnows(w)'
    <3>1. /\ vrPc' = vrPc /\ vrItem' = vrItem /\ vrSeen' = vrSeen /\ vrSlot' = vrSlot
          /\ vrClosed' = vrClosed /\ vrOpened' = vrOpened /\ vrEdited' = vrEdited
          /\ vrWrote' = vrWrote /\ vrKind' = vrKind /\ vrLive' = vrLive
      BY Zenon, <1>3 DEF vrVars, vrTable, vrTxn
    <3> SUFFICES ASSUME NEW w \in VrWriters, VrKnows(w) PROVE VrKnows(w)'
      BY Zenon DEF VrInductive
    <3> QED BY Zenon, <2>1, <3>1 DEF VrKnows, VrModesOf
  <2> QED BY Zenon, <1>3, <2>1, <2>2 DEF VrInductive, VrServes, VrTop, vrVars, vrTable
<1> QED BY Zenon, <1>1, <1>2, <1>3 DEF VrNext

\* However many writers, retries and passes there are, _upsert_document
\* leaves at most one live version and it is the newest, provided a plain
\* document already exists when its writers first race.
THEOREM LiveVersionIsUnique ==
  ASSUME VrBorn["plain"] = {"born"}
  PROVE  VrSpec => []OneLiveVersion
<1>1. VrInit => VrInductive
  BY Zenon, InitInductive
<1>2. VrInductive /\ [VrNext]_vrVars => VrInductive'
  BY Zenon, NextKeeps
<1>3. VrInductive => OneLiveVersion
  BY Zenon DEF VrInductive
<1> QED BY <1>1, <1>2, <1>3, PTL DEF VrSpec

-----------------------------------------------------------------------------
\* Each commit is one step of the abstract document, or none.
LEMMA CommitRefines ==
  ASSUME VrInductive, NEW w \in VrWriters, VrCommit(w)
  PROVE  [Abstract!VdNext]_(Abstract!vdVars)
<1>0. VrKnows(w) /\ VrTypeOK /\ VrTop \in Nat /\ vrLive \subseteq 1 .. VrTop
      /\ vrLive \subseteq {VrTop} /\ vrPc[w] = "done" /\ vrItem[w] \in VrRows
  BY Zenon, CommitKnows
<1>1. CASE vrWrote[w] /\ vrOpened[w] = VrTop + 1
  <2>1. vrOpened[w] # 0 /\ vrEdited[w] = 0
    BY <1>0, <1>1 DEF VrKnows
  <2>2. vrHist' = Append(vrHist, vrItem[w]) /\ vrOpened[w] \in vrLive'
        /\ vrIndex' = VrServes(vrItem[w])
    BY Zenon, <2>1, <1>1, <1>0 DEF VrCommit
  <2>3. Abstract!Publish(vrItem[w])
    BY Zenon, <2>2 DEF Abstract!Publish
  <2> QED BY Zenon, <2>3, <1>0 DEF Abstract!VdNext
<1>2. CASE vrWrote[w] /\ vrOpened[w] # VrTop + 1
  <2>1. vrOpened[w] = 0 /\ vrClosed[w] = 0 /\ vrEdited[w] \in vrLive
    BY Zenon, <1>0, <1>2 DEF VrKnows
  <2>2. vrEdited[w] = VrTop /\ vrEdited[w] # 0
    <3>1. vrEdited[w] \in {VrTop} /\ vrEdited[w] \in 1 .. VrTop
      BY Zenon, <2>1, <1>0, Zenon
    <3> QED BY <3>1, <1>0
  <2>3. vrHist' = [vrHist EXCEPT ![VrTop] = vrItem[w]] /\ vrLive' = vrLive
        /\ vrIndex' = VrServes(vrItem[w])
    BY Zenon, <2>1, <2>2, <1>2, <1>0 DEF VrCommit
  <2>4. Abstract!Amend(vrItem[w])
    BY Zenon, <2>1, <2>3 DEF Abstract!Amend, VrTop
  <2> QED BY Zenon, <2>4, <1>0 DEF Abstract!VdNext
<1>3. CASE ~vrWrote[w]
  <2>1. vrOpened[w] = 0 /\ vrClosed[w] = 0 /\ vrEdited[w] = 0
    BY Zenon, <1>0, <1>3 DEF VrKnows
  <2>2. vrHist' = vrHist /\ vrLive' = vrLive /\ vrIndex' = vrIndex
    BY <2>1, <1>3, <1>0 DEF VrCommit, VrTypeOK
  <2> QED BY Zenon, <2>2 DEF Abstract!vdVars
<1> QED BY Zenon, <1>1, <1>2, <1>3

\* Every step is a step of the abstract document or leaves it as it is.
LEMMA StepRefines ==
  ASSUME VrInductive, [VrNext]_vrVars
  PROVE  [Abstract!VdNext]_(Abstract!vdVars)
<1>1. CASE VrRetire
  <2>1. vrLive # {} /\ vrLive' = {} /\ vrHist' = vrHist /\ vrIndex' = vrIndex
    BY Zenon, <1>1 DEF VrRetire
  <2>2. Abstract!Close
    BY Zenon, <2>1 DEF Abstract!Close
  <2> QED BY Zenon, <2>2 DEF Abstract!VdNext
<1>2. ASSUME NEW w \in VrWriters, VrStep(w)
      PROVE  [Abstract!VdNext]_(Abstract!vdVars)
  <2>1. CASE VrCommit(w)
    BY Zenon, <2>1, CommitRefines
  <2>2. CASE ~VrCommit(w)
    <3>1. vrHist' = vrHist /\ vrLive' = vrLive /\ vrIndex' = vrIndex
      BY Zenon, <1>2, <2>2 DEF VrStep, VrBegin, VrReadLive, VrCoalesce, VrClose,
         VrReadMax, VrInsert, VrConflict, VrExhausted, VrRollback, vrTable
    <3> QED BY Zenon, <3>1 DEF Abstract!vdVars
  <2> QED BY Zenon, <2>1, <2>2
<1>3. CASE UNCHANGED vrVars
  BY Zenon, <1>3 DEF vrVars, vrTable, Abstract!vdVars
<1> QED BY Zenon, <1>1, <1>2, <1>3 DEF VrNext

\* The version rows implement the document the schema promises: every
\* commit publishes, amends or does nothing, whatever the interleaving.
THEOREM RowsImplementDocument ==
  ASSUME VrBorn["plain"] = {"born"}
  PROVE  VrSpec => ImplementsDocument
<1>1. VrInit => VrInductive
  BY InitInductive
<1>2. VrInductive /\ [VrNext]_vrVars => VrInductive'
  BY NextKeeps
<1>3. VrInductive => Abstract!VdInit
  <2> SUFFICES ASSUME VrInductive PROVE Abstract!VdInit
    BY Zenon
  <2>1. vrLive # {} => vrHist # <<>>
    <3>1. vrLive \subseteq 1 .. Len(vrHist)
      BY Zenon DEF VrInductive, VrTypeOK
    <3>2. vrHist = <<>> => Len(vrHist) = 0
      OBVIOUS
    <3>3. 1 .. 0 = {}
      OBVIOUS
    <3> QED BY Zenon, <3>1, <3>2, <3>3
  <2> QED BY Zenon, <2>1 DEF VrInductive, VrTypeOK, VrTop, Abstract!VdInit
<1>4. VrInductive /\ [VrNext]_vrVars => [Abstract!VdNext]_(Abstract!vdVars)
  BY Zenon, StepRefines
<1> QED BY <1>1, <1>2, <1>3, <1>4, PTL
        DEF VrSpec, ImplementsDocument, Abstract!VdSpec

-----------------------------------------------------------------------------
(***************************************************************************)
(* The chunks of a pushed document.  First, what a step may change: every  *)
(* variable keeps its shape, and a step is a plan, an application, or one  *)
(* that touches neither the document nor what the passes have planned.     *)
(* Then three facts carry the theorems: a row's entry never changes once   *)
(* its id is handed out (Struct), a plan made on the live version names    *)
(* exactly the live chunks it reuses (PlanInv), and a delete that has      *)
(* passed the lock is at or below the sequence stamp (DeleteInv).          *)
(***************************************************************************)
USE CustomIngestAssumption

(***************************************************************************)
(* The type invariant is inductive.                                        *)
(***************************************************************************)
LEMMA TypeInit == Init => TypeOK
  BY DEF Init, TypeOK, Steps, Statuses, Stages, Ids, Entries, Clients

(* A row under a fresh id keeps the queue's columns in shape. *)
LEMMA InsertType ==
    ASSUME TypeOK, NEW e \in Entries, InsertRow(e)
    PROVE  /\ status' \in [Ids -> Statuses]
           /\ entry' \in [Ids -> Entries]
           /\ nextId' \in 1..(MaxRows + 1)
<1>1. status' \in [Ids -> Statuses] /\ entry' \in [Ids -> Entries]
  BY Zenon DEF TypeOK, InsertRow, Statuses
<1>2. nextId' \in 1..(MaxRows + 1)
  BY DEF TypeOK, InsertRow, Ids
<1> QED BY Zenon, <1>1, <1>2

(* Every step keeps the shape of the variables. *)
LEMMA TypeStep == TypeOK /\ [Next]_vars => TypeOK'
<1> SUFFICES ASSUME TypeOK, [Next]_vars PROVE TypeOK'
  BY Zenon
<1> USE DEF TypeOK, Steps, Statuses, Stages, sourceVars, doorVars, queueVars,
            planVars, passVars, docVars, chunkVars
<1>1. ASSUME NEW e \in Entries, Change(e) PROVE TypeOK'
  BY <1>1 DEF Change, Request, Clients
<1>2. CASE Reconcile
  BY Zenon, <1>2 DEF Reconcile, Request, Clients
<1>3. ASSUME NEW c \in Clients, DoorStep(c) PROVE TypeOK'
  <2>1. CASE EnqueueNew(c)
    <3>1. push[c] \in Entries /\ InsertRow(push[c])
      BY Zenon, <2>1 DEF EnqueueNew
    <3> QED BY Zenon, <2>1, <3>1, InsertType DEF EnqueueNew, Answer, Entries
  <2>2. CASE EnqueueConflict(c)
    BY Zenon, <2>2 DEF EnqueueConflict
  <2>3. CASE CheckLive(c)
    BY <2>3 DEF CheckLive, Answer, Entries
  <2>4. CASE Retire(c)
    BY <2>4 DEF Retire, Answer, Entries
  <2>5. CASE Reenqueue(c)
    <3>1. CASE Enqueued(push[c])
      BY Zenon, <3>1, <2>5 DEF Reenqueue, Answer, Entries
    <3>2. CASE ~Enqueued(push[c])
      <4>1. push[c] \in Entries /\ InsertRow(push[c])
        BY Zenon, <3>2, <2>5 DEF Reenqueue
      <4> QED BY Zenon, <3>2, <2>5, <4>1, InsertType DEF Reenqueue, Answer, Entries
    <3> QED BY Zenon, <3>1, <3>2
  <2> QED BY Zenon, <1>3, <2>1, <2>2, <2>3, <2>4, <2>5 DEF DoorStep
<1>4. ASSUME NEW c \in Clients, PushFails(c) PROVE TypeOK'
  BY <1>4 DEF PushFails, Fault
<1>5. ASSUME NEW c \in Clients, PushUnanswered(c) PROVE TypeOK'
  <2>1. push[c] \in Entries /\ InsertRow(push[c])
    BY Zenon, <1>5 DEF PushUnanswered
  <2>2. faults' \in 0..MaxFaults
    BY <1>5 DEF PushUnanswered, Fault
  <2> QED BY Zenon, <1>5, <2>1, <2>2, InsertType DEF PushUnanswered
<1>6. ASSUME NEW w \in Workers, WorkerStep(w) PROVE TypeOK'
  <2>1. ASSUME NEW q \in Ids, Claim(w, q) PROVE TypeOK'
    BY Zenon, <2>1 DEF Claim
  <2>2. CASE Plan(w)
    <3>1. ChunksOf[entry[row[w]]] \subseteq Chunks
      BY Zenon, <2>2 DEF Plan
    <3> QED BY <2>2, <3>1 DEF Plan
  <2>3. CASE Apply(w)
    <3>1. row[w] \in Ids /\ entry[row[w]] \in Entries /\ Added(w) \subseteq Chunks
      BY Zenon, <2>3 DEF Apply, Added
    <3>2. CASE AdmitOrderedWrite(row[w]) /\ ~Unchanged(entry[row[w]])
      <4>1. ver' \in Nat /\ live' \in Entries /\ seq' \in 0..MaxRows /\ base' \in Nat
        BY SMTT(30), <2>3, <3>1, <3>2 DEF Apply, Ids
      <4>2. open' \in SUBSET Chunks /\ failed' \in SUBSET Chunks
        BY SMTT(30), <2>3, <3>1, <3>2 DEF Apply, ApplyChunkPlan
      <4>3. first' \in [Chunks -> Nat]
        BY <2>3, <3>1, <3>2 DEF Apply, ApplyChunkPlan
      <4>4. Open \in Nat
        BY SMTT(30) DEF Open
      <4>5. last' \in [Chunks -> Nat]
        BY <2>3, <3>1, <3>2, <4>4 DEF Apply, ApplyChunkPlan
      <4>6. /\ UNCHANGED <<sourceVars, doorVars, queueVars, faults, row, planVars>>
            /\ stage' \in [Workers -> Stages]
            /\ \A v \in Workers : stage'[v] # "idle" => row'[v] \in Ids
        BY ZenonT(30), <2>3 DEF Apply
      <4> QED BY Zenon, <4>1, <4>2, <4>3, <4>5, <4>6
    <3>3. CASE ~(AdmitOrderedWrite(row[w]) /\ ~Unchanged(entry[row[w]]))
      BY <2>3, <3>3 DEF Apply
    <3> QED BY Zenon, <3>2, <3>3
  <2>4. CASE MarkDone(w)
    BY Zenon, <2>4 DEF MarkDone, SetStatus, Idle
  <2> QED BY Zenon, <1>6, <2>1, <2>2, <2>3, <2>4 DEF WorkerStep
<1>7. ASSUME NEW w \in Workers, NEW s \in {"pending", "dlq"}, OnError(w, s) PROVE TypeOK'
  BY <1>7 DEF OnError, SetStatus, Idle, Fault
<1>8. ASSUME NEW w \in Workers, Die(w) PROVE TypeOK'
  BY <1>8 DEF Die, Idle, Fault
<1>9. ASSUME NEW q \in Ids, Reclaim(q) PROVE TypeOK'
  BY Zenon, <1>9 DEF Reclaim
<1>10. ASSUME NEW q \in Ids, Lapse(q) PROVE TypeOK'
  BY <1>10 DEF Lapse, Fault
<1>11. CASE UNCHANGED vars
  BY Zenon, <1>11 DEF vars
<1> HIDE DEF TypeOK, Steps, Statuses, Stages, sourceVars, doorVars, queueVars,
             planVars, passVars, docVars, chunkVars
<1> QED BY Zenon, <1>1, <1>2, <1>3, <1>4, <1>5, <1>6, <1>7, <1>8, <1>9, <1>10, <1>11 DEF Next

(* Every variable keeps its shape. *)
THEOREM TypeCorrect == Spec => []TypeOK
  BY TypeInit, TypeStep, PTL DEF Spec

-----------------------------------------------------------------------------
(* What a step may change *)

(* An id that has been handed out keeps its entry. *)
EntriesKept ==
    /\ nextId <= nextId'
    /\ \A q \in Ids : q < nextId => entry'[q] = entry[q]

(* A pass that has planned or applied after the step had done so before. *)
PassKept(w) ==
    /\ stage'[w] # "idle" /\ stage[w] # "idle" => row'[w] = row[w]
    /\ stage'[w] = "applied" => stage[w] = "applied"
    /\ stage'[w] = "planned" =>
         /\ stage[w] = "planned"
         /\ reused'[w] = reused[w]
         /\ unembedded'[w] = unembedded[w]
         /\ planned'[w] = planned[w]

(* A row reads done after the step only if it did, or an applied pass says so. *)
DoneKept ==
    \A q \in Ids : status'[q] = "done" =>
        status[q] = "done" \/ \E w \in Workers : stage[w] = "applied" /\ row[w] = q

(* The step of a pass other than a plan or an application, or no pass's. *)
Quiet ==
    /\ UNCHANGED <<docVars, chunkVars>>
    /\ \A w \in Workers : PassKept(w)

(* A fresh row changes no entry handed out before and finishes nothing. *)
LEMMA InsertKeeps ==
    ASSUME TypeOK, NEW e \in Entries, InsertRow(e)
    PROVE  /\ EntriesKept
           /\ \A q \in Ids : status'[q] = "done" => status[q] = "done"
  BY DEF TypeOK, InsertRow, EntriesKept, Ids

(* Every step is quiet, a plan or an application. *)
LEMMA StepKinds ==
    ASSUME TypeOK, [Next]_vars
    PROVE  /\ EntriesKept
           /\ DoneKept
           /\ \/ Quiet
              \/ \E w \in Workers : Plan(w)
              \/ \E w \in Workers : Apply(w)
<1> DEFINE Goal == /\ EntriesKept
                   /\ DoneKept
                   /\ \/ Quiet
                      \/ \E w \in Workers : Plan(w)
                      \/ \E w \in Workers : Apply(w)
<1> USE DEF sourceVars, doorVars, queueVars, planVars, passVars
<1>a. ASSUME UNCHANGED <<entry, nextId>> PROVE EntriesKept
  BY <1>a DEF TypeOK, EntriesKept
<1>b. ASSUME UNCHANGED <<passVars, docVars, chunkVars>> PROVE Quiet
  BY Zenon, <1>b DEF Quiet, PassKept
<1>c. ASSUME UNCHANGED status PROVE DoneKept
  BY Zenon, <1>c DEF DoneKept
<1>1. ASSUME NEW e \in Entries, Change(e) PROVE Goal
  BY Zenon, <1>1, <1>a, <1>b, <1>c DEF Change, Request
<1>2. ASSUME Reconcile PROVE Goal
  BY Zenon, <1>2, <1>a, <1>b, <1>c DEF Reconcile, Request
<1>3. ASSUME NEW c \in Clients, DoorStep(c) PROVE Goal
  <2>0. push[c] \in Entries
    BY Zenon DEF TypeOK
  <2>1. CASE EnqueueNew(c)
    BY Zenon, <2>0, <2>1, <1>b, InsertKeeps DEF EnqueueNew, DoneKept
  <2>2. CASE EnqueueConflict(c)
    BY Zenon, <2>2, <1>a, <1>b, <1>c DEF EnqueueConflict
  <2>3. CASE CheckLive(c)
    BY Zenon, <2>3, <1>a, <1>b, <1>c DEF CheckLive
  <2>4. CASE Retire(c)
    <3>1. DoneKept
      BY <2>4 DEF Retire, DoneKept, TypeOK
    <3> QED BY Zenon, <2>4, <3>1, <1>a, <1>b DEF Retire
  <2>5. CASE Reenqueue(c)
    BY Zenon, <2>0, <2>5, <1>a, <1>b, <1>c, InsertKeeps DEF Reenqueue, DoneKept
  <2> QED BY Zenon, <1>3, <2>1, <2>2, <2>3, <2>4, <2>5 DEF DoorStep
<1>4. ASSUME NEW c \in Clients, PushFails(c) PROVE Goal
  BY Zenon, <1>4, <1>a, <1>b, <1>c DEF PushFails
<1>5. ASSUME NEW c \in Clients, PushUnanswered(c) PROVE Goal
  <2>1. push[c] \in Entries
    BY DEF TypeOK
  <2> QED BY Zenon, <1>5, <2>1, <1>b, InsertKeeps DEF PushUnanswered, DoneKept
<1>6. ASSUME NEW w \in Workers, WorkerStep(w) PROVE Goal
  <2>1. ASSUME NEW q \in Ids, Claim(w, q) PROVE Goal
    <3>1. DoneKept
      BY Zenon, <2>1 DEF Claim, DoneKept, TypeOK
    <3>2. Quiet
      BY <2>1 DEF Claim, Quiet, PassKept, TypeOK, Stages
    <3> QED BY Zenon, <2>1, <3>1, <3>2, <1>a DEF Claim
  <2>2. CASE Plan(w)
    BY Zenon, <2>2, <1>a, <1>c DEF Plan
  <2>3. CASE Apply(w)
    BY Zenon, <2>3, <1>a, <1>c DEF Apply
  <2>4. CASE MarkDone(w)
    <3>1. DoneKept
      BY Zenon, <2>4 DEF MarkDone, SetStatus, DoneKept, TypeOK
    <3>2. Quiet
      BY Zenon, <2>4 DEF MarkDone, Idle, Quiet, PassKept, TypeOK
    <3> QED BY Zenon, <2>4, <3>1, <3>2, <1>a DEF MarkDone
  <2> QED BY Zenon, <1>6, <2>1, <2>2, <2>3, <2>4 DEF WorkerStep
<1>7. ASSUME NEW w \in Workers, NEW s \in {"pending", "dlq"}, OnError(w, s) PROVE Goal
  <2>1. DoneKept
    BY Zenon, <1>7 DEF OnError, SetStatus, DoneKept, TypeOK
  <2>2. Quiet
    BY <1>7 DEF OnError, Idle, Quiet, PassKept, TypeOK
  <2> QED BY Zenon, <1>7, <2>1, <2>2, <1>a DEF OnError
<1>8. ASSUME NEW w \in Workers, Die(w) PROVE Goal
  <2>1. Quiet
    BY Zenon, <1>8 DEF Die, Idle, Quiet, PassKept, TypeOK
  <2> QED BY Zenon, <1>8, <2>1, <1>a, <1>c DEF Die
<1>9. ASSUME NEW q \in Ids, Reclaim(q) \/ Lapse(q) PROVE Goal
  <2>1. DoneKept
    BY <1>9 DEF Reclaim, Lapse, DoneKept, TypeOK
  <2> QED BY Zenon, <1>9, <2>1, <1>a, <1>b DEF Reclaim, Lapse
<1>10. ASSUME UNCHANGED vars PROVE Goal
  BY Zenon, <1>10, <1>a, <1>b, <1>c DEF vars
<1> HIDE DEF Goal
<1>11. Goal
  BY Zenon, <1>1, <1>2, <1>3, <1>4, <1>5, <1>6, <1>7, <1>8, <1>9, <1>10 DEF Next
<1> QED BY Zenon, <1>11 DEF Goal

-----------------------------------------------------------------------------
Pieces(w) == ChunksOf[entry[row[w]]]

(* Rows and passes have ids that have been handed out. *)
Numbering ==
    /\ \A q \in Ids : status[q] # "absent" => q < nextId
    /\ \A w \in Workers : stage[w] # "idle" => row[w] < nextId

(* So has the live version, which is its row's entry. *)
Struct ==
    /\ seq < nextId
    /\ seq # 0 => live = entry[seq]
    /\ ver <= seq

(* A plan covers its row's pieces, and is exact while its base is live. *)
PlanInv ==
    \A w \in Workers : stage[w] = "planned" =>
        /\ reused[w] \subseteq Pieces(w)
        /\ unembedded[w] \subseteq Pieces(w)
        /\ planned[w] <= ver
        /\ planned[w] = ver => reused[w] = Pieces(w) \cap open

(* Open chunks have open ranges, the others end below the live version. *)
MarkInv ==
    \A c \in Chunks :
        /\ c \in open => first[c] # 0 /\ last[c] = Open
        /\ c \notin open => first[c] = 0 \/ last[c] < ver
        /\ first[c] <= ver

(* A delete past the lock is at or below the stamp. *)
DeleteInv ==
    /\ \A w \in Workers :
         stage[w] = "applied" /\ entry[row[w]] = Deleted => row[w] <= seq
    /\ \A q \in Ids : status[q] = "done" /\ entry[q] = Deleted => q <= seq

-----------------------------------------------------------------------------
USE CustomIngestAssumption

(* The invariants, one at a time *)

(* The supporting invariants hold before the first push. *)
LEMMA InvInit == Init => Numbering /\ Struct /\ PlanInv /\ MarkInv /\ DeleteInv
  BY DEF Init, Numbering, Struct, PlanInv, MarkInv, DeleteInv, Ids

(* An application that opens a version, spelt out. *)
Opens(w) ==
    /\ Apply(w)
    /\ seq < row[w]
    /\ ver' = ver + 1
    /\ live' = entry[row[w]]
    /\ seq' = row[w]
    /\ base' = planned[w]
    /\ ApplyChunkPlan(w)

(* An application opens a version, or writes nothing; a delete that writes nothing is stale. *)
LEMMA ApplyKinds ==
    ASSUME TypeOK, NEW w \in Workers, Apply(w)
    PROVE  \/ Opens(w)
           \/ /\ UNCHANGED <<docVars, chunkVars>>
              /\ entry[row[w]] = Deleted => row[w] <= seq
<1>1. row[w] \in Ids /\ seq \in 0..MaxRows
  BY Zenon DEF Apply, TypeOK, Stages
<1>2. CASE AdmitOrderedWrite(row[w]) /\ ~Unchanged(entry[row[w]])
  BY Zenon, <1>2 DEF Apply, Opens, AdmitOrderedWrite
<1>3. CASE ~(AdmitOrderedWrite(row[w]) /\ ~Unchanged(entry[row[w]]))
  <2>1. UNCHANGED <<docVars, chunkVars>>
    BY Zenon, <1>3 DEF Apply
  <2>2. entry[row[w]] = Deleted => ~Unchanged(entry[row[w]])
    BY Zenon DEF Unchanged
  <2>3. entry[row[w]] = Deleted => ~AdmitOrderedWrite(row[w])
    BY Zenon, <1>3, <2>2
  <2>4. ~AdmitOrderedWrite(row[w]) => row[w] <= seq
    BY <1>1 DEF AdmitOrderedWrite, Ids
  <2> QED BY Zenon, <2>1, <2>3, <2>4
<1> QED BY Zenon, <1>2, <1>3

(* Plan and Apply touch the pass of their own loop alone. *)
LEMMA OthersKept ==
    ASSUME TypeOK, NEW w \in Workers, Plan(w) \/ Apply(w),
           NEW v \in Workers, v # w
    PROVE  PassKept(v) /\ stage'[v] = stage[v] /\ row'[v] = row[v]
  BY DEF Plan, Apply, PassKept, TypeOK, planVars

(* Ids stay handed out: claims, replays and retirements name old rows. *)
LEMMA NumberStep ==
    ASSUME TypeOK, Numbering, [Next]_vars
    PROVE  Numbering'
<1> DEFINE Goal == Numbering'
<1> USE DEF sourceVars, doorVars, queueVars, planVars, passVars
<1>t. /\ status \in [Ids -> Statuses] /\ stage \in [Workers -> Stages]
      /\ row \in [Workers -> Ids \cup {NoRow}]
      /\ \A w \in Workers : stage[w] # "idle" => row[w] \in Ids
  BY Zenon DEF TypeOK
<1>a. ASSUME UNCHANGED <<status, nextId, stage, row>> PROVE Numbering'
  BY Zenon, <1>a DEF Numbering
<1>c. ASSUME UNCHANGED nextId,
             \A q \in Ids : status'[q] # "absent" => status[q] # "absent",
             \A w \in Workers : stage'[w] # "idle" => stage[w] # "idle" /\ row'[w] = row[w]
      PROVE  Numbering'
  BY Zenon, <1>c DEF Numbering
<1>b. ASSUME NEW e \in Entries, InsertRow(e), UNCHANGED <<stage, row>> PROVE Numbering'
  <2>1. \A q \in Ids : status'[q] # "absent" => q < nextId'
    BY <1>b DEF InsertRow, Numbering, TypeOK, Ids
  <2>2. \A w \in Workers : stage'[w] # "idle" => row'[w] < nextId'
    <3> SUFFICES ASSUME NEW w \in Workers, stage[w] # "idle" PROVE row[w] < nextId + 1
      BY Zenon, <1>b DEF InsertRow
    <3>1. row[w] \in Ids /\ row[w] < nextId /\ nextId \in 1..(MaxRows + 1)
      BY Zenon DEF Numbering, TypeOK
    <3> QED BY <3>1 DEF Ids
  <2> QED BY Zenon, <2>1, <2>2 DEF Numbering
<1>d. ASSUME NEW w \in Workers, stage[w] # "idle", Idle(w), UNCHANGED nextId,
             \A q \in Ids : status'[q] # "absent" => status[q] # "absent" \/ q = row[w]
      PROVE  Numbering'
  <2>1. \A v \in Workers : stage'[v] # "idle" => stage[v] # "idle" /\ row'[v] = row[v]
    BY Zenon, <1>d, <1>t DEF Idle
  <2>2. row[w] < nextId
    BY Zenon, <1>d DEF Numbering
  <2> QED BY Zenon, <1>d, <2>1, <2>2 DEF Numbering
<1>1. ASSUME NEW e \in Entries, Change(e) PROVE Goal
  BY Zenon, <1>1, <1>a DEF Change, Request
<1>2. ASSUME Reconcile PROVE Goal
  BY Zenon, <1>2, <1>a DEF Reconcile, Request
<1>3. ASSUME NEW c \in Clients, DoorStep(c) PROVE Goal
  <2>0. push[c] \in Entries
    BY Zenon DEF TypeOK
  <2>1. CASE EnqueueNew(c)
    BY Zenon, <2>0, <2>1, <1>b DEF EnqueueNew
  <2>2. CASE EnqueueConflict(c)
    BY Zenon, <2>2, <1>a DEF EnqueueConflict
  <2>3. CASE CheckLive(c)
    BY Zenon, <2>3, <1>a DEF CheckLive
  <2>4. CASE Retire(c)
    <3>1. ASSUME NEW q \in Ids, status'[q] # "absent" PROVE status[q] # "absent"
      BY <2>4, <3>1 DEF Retire, Retirable
    <3> QED BY Zenon, <2>4, <3>1, <1>c DEF Retire
  <2>5. CASE Reenqueue(c)
    BY Zenon, <2>0, <2>5, <1>a, <1>b DEF Reenqueue
  <2> QED BY <1>3, <2>1, <2>2, <2>3, <2>4, <2>5 DEF DoorStep
<1>4. ASSUME NEW c \in Clients, PushFails(c) PROVE Goal
  BY Zenon, <1>4, <1>a DEF PushFails
<1>5. ASSUME NEW c \in Clients, PushUnanswered(c) PROVE Goal
  <2>1. push[c] \in Entries
    BY DEF TypeOK
  <2> QED BY Zenon, <1>5, <2>1, <1>b DEF PushUnanswered
<1>6. ASSUME NEW w \in Workers, WorkerStep(w) PROVE Goal
  <2>1. ASSUME NEW q \in Ids, Claim(w, q) PROVE Goal
    BY Zenon, <2>1, <1>t DEF Claim, Numbering
  <2>2. CASE Plan(w)
    <3>1. \A v \in Workers : stage'[v] # "idle" => stage[v] # "idle"
      BY Zenon, <2>2, <1>t DEF Plan
    <3> QED BY Zenon, <2>2, <3>1, <1>c DEF Plan
  <2>3. CASE Apply(w)
    <3>1. \A v \in Workers : stage'[v] # "idle" => stage[v] # "idle"
      BY Zenon, <2>3, <1>t DEF Apply
    <3> QED BY Zenon, <2>3, <3>1, <1>c DEF Apply
  <2>4. CASE MarkDone(w)
    <3>1. \A q \in Ids : status'[q] # "absent" => status[q] # "absent" \/ q = row[w]
      BY Zenon, <2>4, <1>t DEF MarkDone, SetStatus
    <3> QED BY Zenon, <2>4, <3>1, <1>d DEF MarkDone
  <2> QED BY Zenon, <1>6, <2>1, <2>2, <2>3, <2>4 DEF WorkerStep
<1>7. ASSUME NEW w \in Workers, NEW s \in {"pending", "dlq"}, OnError(w, s) PROVE Goal
  <2>1. \A q \in Ids : status'[q] # "absent" => status[q] # "absent" \/ q = row[w]
    BY Zenon, <1>7, <1>t DEF OnError, SetStatus
  <2> QED BY Zenon, <1>7, <2>1, <1>d DEF OnError
<1>8. ASSUME NEW w \in Workers, Die(w) PROVE Goal
  BY Zenon, <1>8, <1>d DEF Die
<1>9. ASSUME NEW q \in Ids, Reclaim(q) \/ Lapse(q) PROVE Goal
  <2>1. \A p \in Ids : status'[p] # "absent" => status[p] # "absent"
    BY Zenon, <1>9, <1>t DEF Reclaim, Lapse
  <2> QED BY Zenon, <1>9, <2>1, <1>c DEF Reclaim, Lapse
<1>10. ASSUME UNCHANGED vars PROVE Goal
  BY Zenon, <1>10, <1>a DEF vars
<1> HIDE DEF Goal
<1>11. Goal
  BY <1>1, <1>2, <1>3, <1>4, <1>5, <1>6, <1>7, <1>8, <1>9, <1>10 DEF Next
<1> QED BY Zenon, <1>11 DEF Goal

(* The live version stays the entry of the row that stamped it. *)
LEMMA StructStep ==
    ASSUME TypeOK, Numbering, Struct, [Next]_vars
    PROVE  Struct'
<1>0. EntriesKept /\ seq \in 0..MaxRows /\ ver \in Nat /\ nextId \in 1..(MaxRows + 1)
  BY Zenon, StepKinds DEF TypeOK
<1>n. nextId' \in 1..(MaxRows + 1)
  BY Zenon, TypeStep DEF TypeOK
<1>1. CASE UNCHANGED docVars
  <2>1. seq # 0 => seq \in Ids /\ entry'[seq] = entry[seq]
    BY <1>0 DEF Struct, EntriesKept, Ids
  <2> QED BY <1>0, <1>n, <1>1, <2>1 DEF docVars, Struct, EntriesKept
<1>2. ASSUME NEW w \in Workers, Opens(w) PROVE Struct'
  <2>1. row[w] \in Ids /\ row[w] < nextId
    BY Zenon, <1>2 DEF Opens, Apply, TypeOK, Stages, Numbering
  <2>2. entry'[row[w]] = entry[row[w]] /\ nextId' = nextId
    BY Zenon, <1>2 DEF Opens, Apply, queueVars
  <2>3. seq' = row[w] /\ live' = entry[row[w]] /\ ver' = ver + 1 /\ seq < row[w]
    BY Zenon, <1>2 DEF Opens
  <2>4. row[w] \in Nat /\ ver <= seq
    BY <2>1 DEF Ids, Struct
  <2>5. ver' <= seq'
    BY <1>0, <2>3, <2>4
  <2> QED BY Zenon, <2>1, <2>2, <2>3, <2>5 DEF Struct
<1>3. ASSUME NEW w \in Workers, Plan(w) PROVE UNCHANGED docVars
  BY Zenon, <1>3 DEF Plan
<1>4. UNCHANGED docVars \/ \E w \in Workers : Opens(w)
  BY Zenon, <1>3, StepKinds, ApplyKinds DEF Quiet
<1> QED BY Zenon, <1>1, <1>2, <1>4

(* What a kept plan is about does not change. *)
LEMMA KeptPlan ==
    ASSUME TypeOK, Numbering, EntriesKept,
           NEW v \in Workers, PassKept(v), stage'[v] = "planned"
    PROVE  /\ stage[v] = "planned"
           /\ Pieces(v)' = Pieces(v)
<1>1. stage[v] = "planned" /\ row'[v] = row[v]
  BY Zenon DEF PassKept
<1>2. row[v] \in Ids /\ row[v] < nextId
  BY Zenon, <1>1 DEF TypeOK, Numbering
<1> QED BY Zenon, <1>1, <1>2 DEF EntriesKept, Pieces

(* A plan stays exact until another application opens a version. *)
LEMMA PlanStep ==
    ASSUME TypeOK, Numbering, PlanInv, [Next]_vars
    PROVE  PlanInv'
<1>0. EntriesKept /\ ver \in Nat
  BY Zenon, StepKinds DEF TypeOK
<1>1. ASSUME NEW v \in Workers, PassKept(v), stage'[v] = "planned",
             UNCHANGED <<ver, open>> \/ ver' = ver + 1
      PROVE  /\ reused'[v] \subseteq Pieces(v)'
             /\ unembedded'[v] \subseteq Pieces(v)'
             /\ planned'[v] <= ver'
             /\ planned'[v] = ver' => reused'[v] = Pieces(v)' \cap open'
  <2>1. stage[v] = "planned" /\ Pieces(v)' = Pieces(v)
    BY Zenon, <1>0, <1>1, KeptPlan
  <2>2. /\ reused'[v] = reused[v] /\ unembedded'[v] = unembedded[v]
        /\ planned'[v] = planned[v]
    BY Zenon, <1>1 DEF PassKept
  <2>3. /\ reused[v] \subseteq Pieces(v) /\ unembedded[v] \subseteq Pieces(v)
        /\ planned[v] <= ver
        /\ planned[v] = ver => reused[v] = Pieces(v) \cap open
    BY Zenon, <2>1 DEF PlanInv
  <2>4. planned[v] \in Nat
    BY Zenon DEF TypeOK
  <2>5. planned'[v] <= ver' /\ (planned'[v] = ver' => UNCHANGED <<ver, open>>)
    BY <1>0, <1>1, <2>2, <2>3, <2>4
  <2> QED BY Zenon, <2>1, <2>2, <2>3, <2>5
<1>2. CASE Quiet
  BY Zenon, <1>1, <1>2 DEF Quiet, docVars, chunkVars, PlanInv
<1>3. ASSUME NEW w \in Workers, Plan(w) PROVE PlanInv'
  <2>1. UNCHANGED <<ver, open>>
    BY Zenon, <1>3 DEF Plan, docVars, chunkVars
  <2>2. /\ Pieces(w)' = Pieces(w)
        /\ reused'[w] = Pieces(w) \cap open
        /\ unembedded'[w] \subseteq Pieces(w)
        /\ planned'[w] = ver
    BY <1>3 DEF Plan, Pieces, queueVars, TypeOK
  <2>3. \A v \in Workers : v # w => PassKept(v)
    BY Zenon, <1>3, OthersKept
  <2>4. ASSUME NEW v \in Workers, stage'[v] = "planned", v # w
        PROVE  /\ reused'[v] \subseteq Pieces(v)'
               /\ unembedded'[v] \subseteq Pieces(v)'
               /\ planned'[v] <= ver'
               /\ planned'[v] = ver' => reused'[v] = Pieces(v)' \cap open'
    BY Zenon, <1>1, <2>1, <2>3, <2>4
  <2>5. planned'[w] <= ver'
    BY <1>0, <2>1, <2>2
  <2> QED BY <2>1, <2>2, <2>4, <2>5 DEF PlanInv
<1>4. ASSUME NEW w \in Workers, Apply(w) PROVE PlanInv'
  <2>1. UNCHANGED <<ver, open>> \/ ver' = ver + 1
    BY Zenon, <1>4, ApplyKinds DEF Opens, docVars, chunkVars
  <2>2. stage'[w] # "planned"
    BY Zenon, <1>4 DEF Apply, TypeOK
  <2>3. \A v \in Workers : v # w => PassKept(v)
    BY Zenon, <1>4, OthersKept
  <2> QED BY Zenon, <1>1, <2>1, <2>2, <2>3 DEF PlanInv
<1> QED BY Zenon, <1>2, <1>3, <1>4, StepKinds

(* The chunks change only where a version is opened. *)
LEMMA WriteKinds ==
    ASSUME TypeOK, [Next]_vars
    PROVE  \/ UNCHANGED <<docVars, chunkVars>>
           \/ \E w \in Workers : Opens(w)
<1>1. ASSUME NEW w \in Workers, Plan(w) PROVE UNCHANGED <<docVars, chunkVars>>
  BY Zenon, <1>1 DEF Plan
<1> QED BY Zenon, <1>1, StepKinds, ApplyKinds DEF Quiet

(* A version's number is below the open end of a range. *)
LEMMA BelowOpen ==
    ASSUME TypeOK, Struct
    PROVE  ver \in Nat /\ ver < Open /\ Open \in Nat
<1>1. ver \in Nat /\ seq \in 0..MaxRows /\ nextId \in 1..(MaxRows + 1)
  BY Zenon DEF TypeOK
<1>2. ver <= seq /\ seq < nextId
  BY Zenon DEF Struct
<1> QED BY <1>1, <1>2 DEF Open

(* Opening a version moves both liveness markers of every chunk together. *)
LEMMA MarkStep ==
    ASSUME TypeOK, Struct, MarkInv, [Next]_vars
    PROVE  MarkInv'
<1>1. CASE UNCHANGED <<docVars, chunkVars>>
  BY Zenon, <1>1 DEF docVars, chunkVars, MarkInv, Open
<1>2. ASSUME NEW w \in Workers, Opens(w) PROVE MarkInv'
  <2> SUFFICES ASSUME NEW c \in Chunks
               PROVE  /\ c \in open' => first'[c] # 0 /\ last'[c] = Open
                      /\ c \notin open' => first'[c] = 0 \/ last'[c] < ver'
                      /\ first'[c] <= ver'
    BY Zenon DEF MarkInv, Open
  <2>1. ver \in Nat /\ ver < Open /\ Open \in Nat
    BY Zenon, BelowOpen
  <2>2. first[c] \in Nat /\ last[c] \in Nat
    BY Zenon DEF TypeOK
  <2>3. ver' = ver + 1
    BY Zenon, <1>2 DEF Opens
  <2>4. /\ open' = (open \cap Kept(w)) \cup Added(w)
        /\ first'[c] = IF c \in Added(w) /\ first[c] = 0 THEN ver + 1 ELSE first[c]
        /\ last'[c] = IF c \in Added(w) THEN Open
                      ELSE IF c \in open \ Kept(w) /\ last[c] > ver THEN ver ELSE last[c]
    BY Zenon, <1>2 DEF Opens, ApplyChunkPlan
  <2>5. /\ c \in open => first[c] # 0 /\ last[c] = Open
        /\ c \notin open => first[c] = 0 \/ last[c] < ver
        /\ first[c] <= ver
    BY DEF MarkInv
  <2>6. /\ first[c] <= ver + 1 /\ ver + 1 <= ver + 1 /\ ver + 1 # 0
        /\ ver < ver + 1 /\ Open > ver
        /\ last[c] < ver => last[c] < ver + 1
    BY <2>1, <2>2, <2>5
  <2>7. CASE c \in Added(w)
    BY Zenon, <2>3, <2>4, <2>5, <2>6, <2>7
  <2>8. CASE c \notin Added(w) /\ c \in open
    <3>1. first'[c] = first[c] /\ first[c] # 0
      BY Zenon, <2>4, <2>5, <2>8
    <3>2. c \in open' => last'[c] = Open
      BY Zenon, <2>4, <2>5, <2>8
    <3>3. c \notin open' => last'[c] = ver
      BY Zenon, <2>4, <2>5, <2>6, <2>8
    <3> QED BY Zenon, <2>3, <2>6, <3>1, <3>2, <3>3
  <2>9. CASE c \notin Added(w) /\ c \notin open
    <3>1. c \notin open' /\ first'[c] = first[c] /\ last'[c] = last[c]
      BY Zenon, <2>4, <2>9
    <3> QED BY Zenon, <2>3, <2>5, <2>6, <2>9, <3>1
  <2> QED BY Zenon, <2>7, <2>8, <2>9
<1> QED BY Zenon, <1>1, <1>2, WriteKinds

(* What an opening application leaves served is what its entry holds. *)
LEMMA ServedStep ==
    ASSUME TypeOK, PlanInv, NothingStaleServed, FreshPlanIsServed, [Next]_vars
    PROVE  NothingStaleServed' /\ FreshPlanIsServed'
<1>1. CASE UNCHANGED <<docVars, chunkVars>>
  BY ZenonT(30), <1>1 DEF docVars, chunkVars, NothingStaleServed, FreshPlanIsServed, LiveIsServed
<1>2. ASSUME NEW w \in Workers, Opens(w)
      PROVE  NothingStaleServed' /\ FreshPlanIsServed'
  <2>1. /\ reused[w] \subseteq Pieces(w)
        /\ unembedded[w] \subseteq Pieces(w)
        /\ planned[w] = ver => reused[w] = Pieces(w) \cap open
    BY Zenon, <1>2 DEF Opens, Apply, PlanInv
  <2>2. /\ open' = (open \cap Kept(w)) \cup Added(w)
        /\ failed' = failed \cup unembedded[w]
        /\ ver' = ver + 1 /\ base' = planned[w]
        /\ ChunksOf[live'] = Pieces(w)
    BY Zenon, <1>2 DEF Opens, ApplyChunkPlan, Pieces
  <2>3. /\ Added(w) = Pieces(w) \ (reused[w] \cup unembedded[w])
        /\ Kept(w) = reused[w] \cup unembedded[w] \cup Added(w)
    BY Zenon DEF Added, Kept, Pieces
  <2>4. NothingStaleServed'
    BY <2>1, <2>2, <2>3 DEF NothingStaleServed
  <2>5. base' + 1 = ver' => planned[w] = ver
    BY <2>2 DEF TypeOK
  <2>6. planned[w] = ver => Pieces(w) \subseteq open' \cup failed'
    BY <2>1, <2>2, <2>3
  <2> QED BY <2>2, <2>4, <2>5, <2>6 DEF FreshPlanIsServed, LiveIsServed
<1> QED BY Zenon, <1>1, <1>2, WriteKinds

(* A delete that passes the lock is at or below the stamp from then on. *)
LEMMA DeleteStep ==
    ASSUME TypeOK, Numbering, DeleteInv, [Next]_vars
    PROVE  DeleteInv'
<1>0. EntriesKept /\ DoneKept /\ seq \in 0..MaxRows
  BY Zenon, StepKinds DEF TypeOK
<1>1. seq <= seq' /\ seq' \in 0..MaxRows
  <2>1. seq' \in 0..MaxRows
    BY Zenon, TypeStep DEF TypeOK
  <2>2. ASSUME NEW w \in Workers, Opens(w) PROVE seq <= seq'
    <3>1. row[w] \in Ids
      BY Zenon, <2>2 DEF Opens, Apply, TypeOK
    <3> QED BY <1>0, <2>2, <3>1 DEF Opens, Ids
  <2>3. CASE UNCHANGED <<docVars, chunkVars>>
    BY <1>0, <2>3 DEF docVars
  <2> QED BY <2>1, <2>2, <2>3, WriteKinds
<1>2. ASSUME NEW v \in Workers, stage[v] = "applied", entry'[row[v]] = Deleted
      PROVE  row[v] <= seq'
  <2>1. row[v] \in Ids /\ row[v] < nextId
    BY SMTT(30), <1>2 DEF TypeOK, Numbering
  <2>2. row[v] <= seq
    BY <1>0, <1>2, <2>1 DEF EntriesKept, DeleteInv
  <2> QED BY SMTT(30), <1>0, <1>1, <2>1, <2>2 DEF Ids
<1>3. \A q \in Ids : status'[q] = "done" /\ entry'[q] = Deleted => q <= seq'
  <2> SUFFICES ASSUME NEW q \in Ids, status'[q] = "done", entry'[q] = Deleted
               PROVE  q <= seq'
    BY Zenon
  <2>1. CASE status[q] = "done"
    <3>1. q <= seq
      BY Zenon, <1>0, <2>1 DEF Numbering, EntriesKept, DeleteInv
    <3> QED BY <1>0, <1>1, <3>1 DEF Ids
  <2>2. ASSUME NEW v \in Workers, stage[v] = "applied", row[v] = q PROVE q <= seq'
    BY Zenon, <1>2, <2>2
  <2> QED BY Zenon, <1>0, <2>1, <2>2 DEF DoneKept
<1>4. ASSUME NEW v \in Workers, PassKept(v), stage'[v] = "applied",
             entry'[row'[v]] = Deleted
      PROVE  row'[v] <= seq'
  BY Zenon, <1>2, <1>4 DEF PassKept
<1>5. CASE Quiet
  BY ZenonT(30), <1>3, <1>4, <1>5 DEF Quiet, DeleteInv
<1>6. ASSUME NEW w \in Workers, Plan(w) PROVE DeleteInv'
  <2>1. stage'[w] # "applied"
    BY <1>6 DEF Plan, TypeOK
  <2>2. \A v \in Workers : v # w => PassKept(v)
    BY <1>6, OthersKept
  <2> QED BY <1>3, <1>4, <2>1, <2>2 DEF DeleteInv
<1>7. ASSUME NEW w \in Workers, Apply(w) PROVE DeleteInv'
  <2>1. row' = row /\ entry' = entry /\ row[w] \in Ids
    BY <1>7 DEF Apply, queueVars, TypeOK
  <2>2. entry'[row'[w]] = Deleted => row'[w] <= seq'
    <3>1. CASE Opens(w)
      BY <2>1, <3>1 DEF Opens, Ids
    <3>2. CASE UNCHANGED <<docVars, chunkVars>> /\ (entry[row[w]] = Deleted => row[w] <= seq)
      BY Zenon, <2>1, <3>2 DEF docVars
    <3> QED BY SMTT(30), <1>7, <3>1, <3>2, ApplyKinds
  <2>3. \A v \in Workers : v # w => PassKept(v)
    BY <1>7, OthersKept
  <2> QED BY <1>3, <1>4, <2>2, <2>3 DEF DeleteInv
<1> QED BY <1>5, <1>6, <1>7, StepKinds

-----------------------------------------------------------------------------
(* The invariants together. *)
IInv ==
    /\ TypeOK /\ Numbering /\ Struct /\ PlanInv /\ MarkInv /\ DeleteInv
    /\ NothingStaleServed /\ FreshPlanIsServed

(* The conjunction is inductive. *)
LEMMA Inductive == Spec => []IInv
<1>1. Init => IInv
  <2>1. Init => NothingStaleServed /\ FreshPlanIsServed
    BY DEF Init, NothingStaleServed, FreshPlanIsServed
  <2> QED BY Zenon, <2>1, TypeInit, InvInit DEF IInv
<1>2. IInv /\ [Next]_vars => IInv'
  BY Zenon, TypeStep, NumberStep, StructStep, PlanStep, MarkStep, ServedStep, DeleteStep DEF IInv
<1> QED BY <1>1, <1>2, PTL DEF Spec

(***************************************************************************)
(* No chunk the live version does not contain is live, in whatever order   *)
(* the passes plan, die, are replayed and get to the lock                  *)
(* (_plan_chunks, _apply_chunk_plan).                                      *)
(***************************************************************************)
THEOREM StaleChunksClosed == Spec => []NothingStaleServed
<1>1. IInv => NothingStaleServed
  BY Zenon DEF IInv
<1> QED BY <1>1, Inductive, PTL

(***************************************************************************)
(* A version whose plan was diffed against its predecessor is served       *)
(* whole: every chunk of it is live or recorded as failed.                 *)
(***************************************************************************)
THEOREM FreshPlansServe == Spec => []FreshPlanIsServed
<1>1. IInv => FreshPlanIsServed
  BY Zenon DEF IInv
<1> QED BY <1>1, Inductive, PTL

(***************************************************************************)
(* valid_to and the version range of a chunk never disagree, so the two    *)
(* ways queries filter for live chunks return the same ones.               *)
(***************************************************************************)
THEOREM LivenessMarkersAgree == Spec => []MarkersAgree
<1>1. IInv => MarkersAgree
  <2> SUFFICES ASSUME IInv, NEW c \in Chunks
               PROVE  c \in open <=> first[c] # 0 /\ first[c] <= ver /\ ver <= last[c]
    BY DEF MarkersAgree
  <2>1. ver \in Nat /\ ver < Open /\ Open \in Nat /\ first[c] \in Nat /\ last[c] \in Nat
    <3>1. TypeOK /\ Struct
      BY Zenon DEF IInv
    <3> QED BY <3>1, BelowOpen DEF TypeOK
  <2>2. /\ c \in open => first[c] # 0 /\ last[c] = Open
        /\ c \notin open => first[c] = 0 \/ last[c] < ver
        /\ first[c] <= ver
    BY Zenon DEF IInv, MarkInv
  <2> QED BY <2>1, <2>2
<1> QED BY <1>1, Inductive, PTL

(***************************************************************************)
(* No row older than a finished delete brings the document back, whatever  *)
(* replays, reclaims and retries there are (_admit_ordered_write).         *)
(***************************************************************************)
THEOREM DeletesStick == Spec => []DeleteSticks
<1>1. IInv => DeleteSticks
  <2> SUFFICES ASSUME IInv, NEW q \in Ids,
                      status[q] = "done", entry[q] = Deleted, seq <= q
               PROVE  live = Deleted
    BY ZenonT(30) DEF DeleteSticks
  <2>1. q <= seq /\ seq \in 0..MaxRows
    BY DEF IInv, DeleteInv, TypeOK
  <2>2. seq = q /\ seq # 0
    BY <2>1 DEF Ids
  <2> QED BY Zenon, <2>2 DEF IInv, Struct
<1> QED BY <1>1, Inductive, PTL

=============================================================================
