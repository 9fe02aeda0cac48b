----------------------------- MODULE DoorProofs -----------------------------
(***************************************************************************)
(* What comes in, and by whose leave: the upload route of agent sessions   *)
(* and its receipts (SessionReceipts), the tokens of the devices           *)
(* (DeviceTokens), and the tokens of the connected sources (Tokens).       *)
(*                                                                         *)
(* The chain of receipts is not inductive by itself: a commit extends it   *)
(* rightly only because what the locked pass found is still so.  The       *)
(* strengthening says that: the request in its transaction holds the lock  *)
(* (Holder), carries a batch of its own door (Carrying), and its batch is  *)
(* still admissible (Admitted).                                            *)
(***************************************************************************)
EXTENDS SessionReceipts, DeviceTokens, Tokens, TLAPS

\* The request inside its write transaction holds the session lock.
Holder == \A q \in Requests : stage[q] = "storing" <=> lock = q

\* A request carries a batch of the door it came through.
Asking == {"ask_deleted", "ask_stream", "ask_legacy", "ask_receipt",
           "scrubbed", "storing"}
Carrying == \A q \in Requests :
    /\ stage[q] \in Asking => body[q] \in Stored
    /\ stage[q] = "legacy" => body[q] \in Legacy

\* What the locked pass found still holds when its transaction commits.
Admissible(b) ==
    /\ IF stream = NoStream THEN queue = <<>> /\ b.seq = 0 /\ b.from = 0
       ELSE /\ Owner(b, stream) /\ stream.protocol = b.protocol
            /\ Continues(b, stream)
    /\ \A p \in receipts : p.seq # b.seq
    /\ ~SnapshotBroken(b)
Admitted == \A q \in Requests : stage[q] = "storing" =>
    ~deleted /\ body[q] \in objects /\ Admissible(body[q])

\* The promises that are invariants.
Kept == /\ ReceiptChain /\ QueueFollowsReceipts
        /\ QueuedIsStored /\ SnapshotCertified

IInv == TypeOK /\ Holder /\ Carrying /\ Admitted /\ Kept

-----------------------------------------------------------------------------
\* Whoever is in the locked transaction holds the lock, with a batch of its
\* own door.
LEMMA HolderStep ==
  TypeOK /\ Holder /\ Carrying /\ [Next]_vars => Holder' /\ Carrying'
<1>. SUFFICES ASSUME TypeOK, Holder, Carrying, [Next]_vars
              PROVE  Holder' /\ Carrying'
  BY Zenon
<1>. USE ReceiptsAssumption
<1>1. ASSUME NEW q \in Requests, NEW b \in Batches, Receive(q, b)
      PROVE  Holder' /\ Carrying'
    BY Zenon, <1>1 DEF TypeOK, Holder, Carrying, Asking, Stages, Legacy, Receive
<1>2. ASSUME NEW q \in Requests, AskDeleted(q) PROVE Holder' /\ Carrying'
    BY <1>2 DEF TypeOK, Holder, Carrying, Asking, Stages, Legacy, AskDeleted,
      Answer, Goto
<1>3. ASSUME NEW q \in Requests, AskStream(q) PROVE Holder' /\ Carrying'
    BY Zenon, <1>3 DEF TypeOK, Holder, Carrying, Asking, Stages, Legacy, AskStream
<1>4. ASSUME NEW q \in Requests, AskLegacy(q) PROVE Holder' /\ Carrying'
    BY <1>4 DEF TypeOK, Holder, Carrying, Asking, Stages, Legacy, AskLegacy,
      Answer
<1>5. ASSUME NEW q \in Requests, AskReceipt(q) PROVE Holder' /\ Carrying'
    BY <1>5 DEF TypeOK, Holder, Carrying, Asking, Stages, Legacy, AskReceipt,
      Answer
<1>6. ASSUME NEW q \in Requests, Store(q) PROVE Holder' /\ Carrying'
    BY <1>6 DEF TypeOK, Holder, Carrying, Asking, Stages, Legacy, Store,
      Answer, Goto
<1>7. ASSUME NEW q \in Requests, Commit(q) PROVE Holder' /\ Carrying'
    BY Zenon, <1>7 DEF TypeOK, Holder, Carrying, Asking, Stages, Legacy, Commit,
      Answer
<1>8. ASSUME NEW q \in Requests, AcceptLegacy(q) PROVE Holder' /\ Carrying'
    BY ZenonT(30), <1>8 DEF TypeOK, Holder, Carrying, Asking, Stages, Legacy,
      AcceptLegacy, Answer
<1>9. ASSUME NEW q \in Requests, Crash(q) PROVE Holder' /\ Carrying'
    BY Zenon, <1>9 DEF TypeOK, Holder, Carrying, Asking, Stages, Legacy, Crash,
      Answer
<1>10. ASSUME RecordDeletion PROVE Holder' /\ Carrying'
    BY Zenon, <1>10 DEF TypeOK, Holder, Carrying, Asking, Stages, Legacy,
      RecordDeletion
<1>11. ASSUME EraseSession PROVE Holder' /\ Carrying'
    BY Zenon, <1>11 DEF TypeOK, Holder, Carrying, Asking, Stages, Legacy,
      EraseSession
<1>12. CASE UNCHANGED vars
    BY Zenon, <1>12 DEF vars, tables, TypeOK, Holder, Carrying, Asking, Stages,
      Legacy
<1>. QED
  BY Zenon, <1>1, <1>2, <1>3, <1>4, <1>5, <1>6, <1>7, <1>8, <1>9, <1>10, <1>11, <1>12
    DEF Next, Step

\* The row a commit writes has the shape of a stream row.
LEMMA CommittedRow ==
  ASSUME TypeOK, Carrying, NEW q \in Requests, Commit(q)
  PROVE  stream' \in StreamRows
<1>1. body[q] \in Stored /\ body[q] \in Batches /\ WellFormed(body[q])
  BY Zenon, ReceiptsAssumption DEF Commit, Carrying, Asking, Stored
<1>2. stream = NoStream \/ stream \in StreamRows
  BY Zenon DEF TypeOK
<1>3. CASE stream = NoStream
  BY Zenon, <1>1, <1>3 DEF Commit, Advanced, StreamRows, WellFormed
<1>4. CASE stream # NoStream
  BY Zenon, <1>1, <1>2, <1>4 DEF Commit, Advanced, StreamRows, WellFormed
<1>. QED  BY Zenon, <1>3, <1>4

\* Every step keeps the shape of the variables.
LEMMA TypeStep ==
  TypeOK /\ Carrying /\ Admitted /\ [Next]_vars => TypeOK'
<1>. SUFFICES ASSUME TypeOK, Carrying, Admitted, [Next]_vars
              PROVE  TypeOK'
  BY Zenon
<1>. USE ReceiptsAssumption
<1>1. ASSUME NEW q \in Requests, NEW b \in Batches, Receive(q, b)
      PROVE  TypeOK'
    BY Zenon, <1>1 DEF TypeOK, Stages, tables, Carrying, Asking, Stored, Receive
<1>2. ASSUME NEW q \in Requests, AskDeleted(q) PROVE TypeOK'
    BY Zenon, <1>2 DEF TypeOK, Stages, tables, Carrying, Asking, Stored, AskDeleted,
      Answer, Goto
<1>3. ASSUME NEW q \in Requests, AskStream(q) PROVE TypeOK'
    BY Zenon, <1>3 DEF TypeOK, Stages, tables, Carrying, Asking, Stored, AskStream
<1>4. ASSUME NEW q \in Requests, AskLegacy(q) PROVE TypeOK'
    BY Zenon, <1>4 DEF TypeOK, Stages, tables, Carrying, Asking, Stored, AskLegacy,
      Answer
<1>5. ASSUME NEW q \in Requests, AskReceipt(q) PROVE TypeOK'
    BY Zenon, <1>5 DEF TypeOK, Stages, tables, Carrying, Asking, Stored, AskReceipt,
      Answer
<1>6. ASSUME NEW q \in Requests, Store(q) PROVE TypeOK'
    BY Zenon, <1>6 DEF TypeOK, Stages, tables, Carrying, Asking, Stored, Store,
      Answer, Goto
<1>7. ASSUME NEW q \in Requests, Commit(q) PROVE TypeOK'
  <2>1. body[q] \in Stored /\ body[q] \in Batches /\ WellFormed(body[q])
    BY Zenon, <1>7 DEF Commit, Carrying, Asking, Stored
  <2>2. stream' \in StreamRows
    BY Zenon, <1>7, CommittedRow
  <2>3. queue' \in Seq(Batches) /\ receipts' \subseteq Stored
    BY <1>7, <2>1 DEF Commit, TypeOK
  <2>4. /\ stage' \in [Requests -> Stages]
        /\ body' \in [Requests -> Batches \cup {NoBatch}]
    BY Zenon, <1>7 DEF Commit, Answer, TypeOK, Stages
  <2>. QED  BY Zenon, <1>7, <2>2, <2>3, <2>4 DEF Commit, TypeOK
<1>8. ASSUME NEW q \in Requests, AcceptLegacy(q) PROVE TypeOK'
  <2>1. body[q] \in Batches
    BY Zenon, <1>8 DEF AcceptLegacy, Carrying, Legacy
  <2>2. queue' \in Seq(Batches) /\ objects' \subseteq Batches
    BY SMTT(30), <1>8, <2>1 DEF AcceptLegacy, TypeOK
  <2>. QED  BY Zenon, <1>8, <2>2 DEF AcceptLegacy, Answer, TypeOK, Stages
<1>9. ASSUME NEW q \in Requests, Crash(q) PROVE TypeOK'
    BY Zenon, <1>9 DEF TypeOK, Stages, tables, Carrying, Asking, Stored, Crash,
      Answer
<1>10. ASSUME RecordDeletion PROVE TypeOK'
    BY Zenon, <1>10 DEF TypeOK, Stages, tables, Carrying, Asking, Stored,
      RecordDeletion
<1>11. ASSUME EraseSession PROVE TypeOK'
    BY <1>11 DEF TypeOK, Stages, tables, Carrying, Asking, Stored,
      EraseSession
<1>12. CASE UNCHANGED vars
    BY Zenon, <1>12 DEF vars, tables, TypeOK, Stages, tables, Carrying, Asking,
      Stored
<1>. QED
  BY Zenon, <1>1, <1>2, <1>3, <1>4, <1>5, <1>6, <1>7, <1>8, <1>9, <1>10, <1>11, <1>12
    DEF Next, Step

\* The locked pass admits what continues the stream.
LEMMA StoreIsAdmissible ==
  ASSUME NEW b, NEW cfg, Settle(b, cfg) = "store"
  PROVE  ~deleted /\ Admissible(b)
<1>1. ~deleted
  BY Zenon DEF Settle
<1>2. ASSUME NEW s, StreamAnswer(b, s) = "store"
      PROVE  /\ Owner(b, s) /\ s.protocol = b.protocol /\ Continues(b, s)
             /\ \A p \in receipts : p.seq # b.seq
             /\ ~SnapshotBroken(b)
  BY Zenon, <1>2 DEF StreamAnswer
<1>3. CASE stream # NoStream
  BY Zenon, <1>1, <1>2, <1>3 DEF Settle, Admissible
<1>4. CASE stream = NoStream
  <2>1. queue = <<>> /\ StreamAnswer(b, Fresh(b)) = "store"
    BY Zenon, <1>1, <1>4 DEF Settle, OpenAnswer
  <2>2. Continues(b, Fresh(b)) => b.seq = 0 /\ b.from = 0
    BY DEF Continues, Fresh
  <2>. QED  BY Zenon, <1>1, <1>2, <1>4, <2>1, <2>2 DEF Admissible
<1>. QED  BY Zenon, <1>3, <1>4

\* What the locked pass found admissible is so until its commit.
LEMMA AdmittedStep ==
  TypeOK /\ Holder /\ Carrying /\ Admitted /\ [Next]_vars => Admitted'
<1>. SUFFICES ASSUME TypeOK, Holder, Carrying, Admitted, [Next]_vars
              PROVE  Admitted'
  BY Zenon
<1>. USE ReceiptsAssumption
<1>1. ASSUME NEW q \in Requests, NEW b \in Batches, Receive(q, b)
      PROVE  Admitted'
    BY Zenon, <1>1 DEF TypeOK, Stages, tables, Admitted, Admissible, Holder, Receive
<1>2. ASSUME NEW q \in Requests, AskDeleted(q) PROVE Admitted'
    BY <1>2 DEF TypeOK, Stages, tables, Admitted, Admissible, Holder,
      AskDeleted, Answer, Goto
<1>3. ASSUME NEW q \in Requests, AskStream(q) PROVE Admitted'
    BY Zenon, <1>3 DEF TypeOK, Stages, tables, Admitted, Admissible, Holder,
      AskStream
<1>4. ASSUME NEW q \in Requests, AskLegacy(q) PROVE Admitted'
    BY <1>4 DEF TypeOK, Stages, tables, Admitted, Admissible, Holder,
      AskLegacy, Answer
<1>5. ASSUME NEW q \in Requests, AskReceipt(q) PROVE Admitted'
    BY <1>5 DEF TypeOK, Stages, tables, Admitted, Admissible, Holder,
      AskReceipt, Answer
<1>6. ASSUME NEW q \in Requests, Store(q) PROVE Admitted'
  <2>1. PICK cfg \in Settings :
          \/ /\ Settle(body[q], cfg) = "store"
             /\ Goto(q, "storing") /\ objects' = objects \cup {body[q]}
          \/ Answer(q, Settle(body[q], cfg)) /\ UNCHANGED objects
    BY Zenon, <1>6 DEF Store
  <2>2. /\ UNCHANGED <<tables, deleted>>
        /\ \A p \in Requests : stage[p] # "storing"
    BY Zenon, <1>6 DEF Store, Holder
  <2>3. CASE Answer(q, Settle(body[q], cfg))
    BY Zenon, <2>2, <2>3 DEF Admitted, Answer, TypeOK
  <2>4. CASE /\ Settle(body[q], cfg) = "store"
             /\ Goto(q, "storing") /\ objects' = objects \cup {body[q]}
    <3>1. ~deleted /\ Admissible(body[q])
      BY Zenon, <2>4, StoreIsAdmissible
    <3>. QED  BY Zenon, <2>2, <2>4, <3>1 DEF Admitted, Admissible, Goto, TypeOK,
      tables
  <2>. QED  BY Zenon, <2>1, <2>3, <2>4
<1>7. ASSUME NEW q \in Requests, Commit(q) PROVE Admitted'
    BY <1>7 DEF TypeOK, Stages, tables, Admitted, Admissible, Holder, Commit,
      Answer
<1>8. ASSUME NEW q \in Requests, AcceptLegacy(q) PROVE Admitted'
    BY <1>8 DEF TypeOK, Stages, tables, Admitted, Admissible, Holder,
      AcceptLegacy, Answer
<1>9. ASSUME NEW q \in Requests, Crash(q) PROVE Admitted'
    BY Zenon, <1>9 DEF TypeOK, Stages, tables, Admitted, Admissible, Holder, Crash,
      Answer
<1>10. ASSUME RecordDeletion PROVE Admitted'
    BY Zenon, <1>10 DEF TypeOK, Stages, tables, Admitted, Admissible, Holder,
      RecordDeletion
<1>11. ASSUME EraseSession PROVE Admitted'
    BY Zenon, <1>11 DEF TypeOK, Stages, tables, Admitted, Admissible, Holder,
      EraseSession
<1>12. CASE UNCHANGED vars
    BY Zenon, <1>12 DEF vars, tables, TypeOK, Stages, tables, Admitted, Admissible,
      Holder
<1>. QED
  BY Zenon, <1>1, <1>2, <1>3, <1>4, <1>5, <1>6, <1>7, <1>8, <1>9, <1>10, <1>11, <1>12
    DEF Next, Step

\* So a commit extends the chain, and the queue follows it.
LEMMA ChainStep == IInv /\ [Next]_vars => Kept'
<1>. SUFFICES ASSUME IInv, [Next]_vars
              PROVE  Kept'
  BY Zenon
<1>. USE ReceiptsAssumption
<1>1. ASSUME NEW q \in Requests, NEW b \in Batches, Receive(q, b) PROVE Kept'
    BY Zenon, <1>1 DEF IInv, Kept, ReceiptChain, QueueFollowsReceipts,
      QueuedIsStored, SnapshotCertified, tables, Receive
<1>2. ASSUME NEW q \in Requests, AskDeleted(q) PROVE Kept'
    BY Zenon, <1>2 DEF IInv, Kept, ReceiptChain, QueueFollowsReceipts,
      QueuedIsStored, SnapshotCertified, tables, AskDeleted, Answer, Goto
<1>3. ASSUME NEW q \in Requests, AskStream(q) PROVE Kept'
    BY Zenon, <1>3 DEF IInv, Kept, ReceiptChain, QueueFollowsReceipts,
      QueuedIsStored, SnapshotCertified, tables, AskStream
<1>4. ASSUME NEW q \in Requests, AskLegacy(q) PROVE Kept'
    BY Zenon, <1>4 DEF IInv, Kept, ReceiptChain, QueueFollowsReceipts,
      QueuedIsStored, SnapshotCertified, tables, AskLegacy, Answer
<1>5. ASSUME NEW q \in Requests, AskReceipt(q) PROVE Kept'
    BY Zenon, <1>5 DEF IInv, Kept, ReceiptChain, QueueFollowsReceipts,
      QueuedIsStored, SnapshotCertified, tables, AskReceipt, Answer
<1>6. ASSUME NEW q \in Requests, Store(q) PROVE Kept'
    BY Zenon, <1>6 DEF IInv, Kept, ReceiptChain, QueueFollowsReceipts,
      QueuedIsStored, SnapshotCertified, tables, Store, Answer, Goto
<1>7. ASSUME NEW q \in Requests, Commit(q) PROVE Kept'
  <2>. DEFINE b == body[q]
  <2>1. b \in Stored /\ WellFormed(b)
    BY Zenon, <1>7 DEF IInv, Kept, Commit, Carrying, Asking, Stored
  <2>2. b \in objects /\ Admissible(b)
    BY Zenon, <1>7 DEF IInv, Kept, Commit, Admitted
  <2>3. /\ stream' = Advanced(b) /\ receipts' = receipts \cup {b}
        /\ queue' = Append(queue, b) /\ objects' = objects
    BY Zenon, <1>7 DEF Commit
  <2>4. /\ /\ stream'.last = b.seq
        /\ stream'.to = b.to
        /\ stream'.prefix = b.prefix
        /\ stream'.finalized = b.finalize /\ stream'.snap = b.snap
    BY Zenon, <2>3 DEF Advanced
  <2>6. stream' # NoStream
    BY Zenon, <1>7, CommittedRow DEF IInv
  <2>7. \A p \in receipts : p.seq \in Nat /\ p.from \in Nat /\ p.to \in Nat
    BY Zenon DEF IInv, Kept, TypeOK, Stored, WellFormed
  <2>8. b.seq \in Nat /\ b.from \in Nat /\ b.to \in Nat
    BY Zenon, <2>1 DEF WellFormed
  <2>9. stream # NoStream => /\ stream.last \in Nat /\ stream.to \in Nat
                             /\ b.seq = stream.last + 1 /\ b.from = stream.to
    BY Zenon, <2>2 DEF IInv, Kept, TypeOK, StreamRows, Admissible, Continues
  <2>10. stream = NoStream => /\ queue = <<>> /\ receipts = {}
                              /\ b.seq = 0 /\ b.from = 0
    BY Zenon, <2>2 DEF IInv, Kept, Admissible, ReceiptChain
  <2>. HIDE DEF b
  <2>11. ReceiptChain'
    BY SMTT(30), <2>3, <2>4, <2>6, <2>7, <2>8, <2>9, <2>10 DEF IInv, Kept, ReceiptChain
  <2>12. QueueFollowsReceipts'
    BY SMTT(30), <2>3, <2>4, <2>6, <2>8, <2>9, <2>10 DEF IInv, Kept, TypeOK,
      QueueFollowsReceipts
  <2>13. QueuedIsStored'
    BY SMTT(30), <2>2, <2>3 DEF IInv, Kept, TypeOK, QueuedIsStored
  <2>14. SnapshotCertified'
    BY Zenon, <2>2, <2>4 DEF SnapshotCertified, Admissible, SnapshotBroken
  <2>. QED  BY Zenon, <2>11, <2>12, <2>13, <2>14 DEF Kept
<1>8. ASSUME NEW q \in Requests, AcceptLegacy(q) PROVE Kept'
  <2>1. CASE LegacyAnswer = "store"
    <3>1. stream = NoStream /\ stream' = NoStream /\ receipts' = receipts
      BY Zenon, <1>8, <2>1 DEF AcceptLegacy, LegacyAnswer
    <3>2. queue' = Append(queue, body[q]) /\ objects' = objects \cup {body[q]}
      BY Zenon, <1>8, <2>1 DEF AcceptLegacy
    <3>3. body[q] \in Legacy /\ queue \in Seq(Batches)
      BY Zenon, <1>8 DEF IInv, Kept, TypeOK, AcceptLegacy, Carrying
    <3>4. ReceiptChain' /\ SnapshotCertified'
      BY Zenon, <3>1 DEF IInv, Kept, ReceiptChain, SnapshotCertified
    <3>5. QueueFollowsReceipts'
      BY <3>1, <3>2, <3>3 DEF IInv, Kept, QueueFollowsReceipts
    <3>6. QueuedIsStored'
      BY SMTT(30), <3>2, <3>3 DEF IInv, Kept, QueuedIsStored
    <3>. QED  BY Zenon, <3>4, <3>5, <3>6 DEF Kept
  <2>2. CASE LegacyAnswer # "store"
    BY SMTT(30), <1>8, <2>2 DEF AcceptLegacy, IInv, Kept, ReceiptChain,
      QueueFollowsReceipts, QueuedIsStored, SnapshotCertified, tables
  <2>. QED  BY Zenon, <2>1, <2>2
<1>9. ASSUME NEW q \in Requests, Crash(q) PROVE Kept'
    BY Zenon, <1>9 DEF IInv, Kept, ReceiptChain, QueueFollowsReceipts,
      QueuedIsStored, SnapshotCertified, tables, Crash, Answer
<1>10. ASSUME RecordDeletion PROVE Kept'
    BY Zenon, <1>10 DEF IInv, Kept, ReceiptChain, QueueFollowsReceipts,
      QueuedIsStored, SnapshotCertified, tables, RecordDeletion
<1>11. ASSUME EraseSession PROVE Kept'
  BY SMTT(30), <1>11 DEF EraseSession, Kept, ReceiptChain, QueueFollowsReceipts,
               QueuedIsStored, SnapshotCertified
<1>12. CASE UNCHANGED vars
    BY Zenon, <1>12 DEF vars, tables, IInv, Kept, ReceiptChain, QueueFollowsReceipts,
      QueuedIsStored, SnapshotCertified, tables
<1>. QED
  BY Zenon, <1>1, <1>2, <1>3, <1>4, <1>5, <1>6, <1>7, <1>8, <1>9, <1>10, <1>11, <1>12
    DEF Next, Step

\* The invariant holds before the first upload.
LEMMA InitHolds == Init => IInv
<1>. SUFFICES ASSUME Init PROVE IInv
  BY Zenon
<1>. USE ReceiptsAssumption
<1>1. TypeOK
  <2>1. deleted \in BOOLEAN
    BY Zenon DEF Init
  <2>2. /\ queue \in Seq(Batches)
        /\ objects \subseteq Batches
        /\ receipts \subseteq Stored
    BY DEF Init
  <2>3. /\ stage \in [Requests -> Stages]
        /\ body \in [Requests -> Batches \cup {NoBatch}]
    BY Zenon DEF Init, Stages
  <2>4. lock \in Requests \cup {NoRequest} /\ stream = NoStream
    BY Zenon DEF Init
  <2>. QED  BY Zenon, <2>1, <2>2, <2>3, <2>4 DEF TypeOK
<1>2. Holder /\ Carrying /\ Admitted
  BY Zenon DEF Init, Holder, Carrying, Asking, Admitted
<1>3. /\ ReceiptChain
      /\ QueueFollowsReceipts
      /\ QueuedIsStored
      /\ SnapshotCertified
  BY DEF Init, ReceiptChain, QueueFollowsReceipts, QueuedIsStored,
    SnapshotCertified
<1>. QED  BY Zenon, <1>1, <1>2, <1>3 DEF IInv, Kept

\* The invariant holds in every reachable state.
LEMMA Inductive == Spec => []IInv
<1>1. IInv /\ [Next]_vars => IInv'
  BY Zenon, HolderStep, TypeStep, AdmittedStep, ChainStep DEF IInv
<1>. QED  BY InitHolds, <1>1, PTL DEF Spec

\* The receipts of a session form one gap-free chain that the stream row
\* agrees with, for any batches clients send, in any order and any number of
\* times, and for handlers that die anywhere (_settle under the session lock).
THEOREM ReceiptsFormAChain == Spec => []ReceiptChain
<1>1. IInv => ReceiptChain
  BY Zenon DEF IInv, Kept
<1>. QED  BY Inductive, <1>1, PTL

\* The queue row lists the receipted batches in order, each once, or
\* protocol-1 batches only: the fence between the two doors holds both ways.
THEOREM QueueIsTheChain == Spec => []QueueFollowsReceipts
<1>1. IInv => QueueFollowsReceipts
  BY Zenon DEF IInv, Kept
<1>. QED  BY Inductive, <1>1, PTL

\* Every key of the queue row names a stored object (accept writes the object
\* before its transaction commits).
THEOREM QueuedBatchesAreStored == Spec => []QueuedIsStored
<1>1. IInv => QueuedIsStored
  BY Zenon DEF IInv, Kept
<1>. QED  BY Inductive, <1>1, PTL

\* A finalized stream that declared a snapshot holds exactly that snapshot.
THEOREM SnapshotsAreCertified == Spec => []SnapshotCertified
<1>1. IInv => SnapshotCertified
  BY Zenon DEF IInv, Kept
<1>. QED  BY Inductive, <1>1, PTL

\* An open stream keeps its id and protocol, and its cursor never moves back.
THEOREM StreamsStayPinned == Spec => StreamPinned
<1>. DEFINE Pinned ==
       stream # NoStream /\ stream' # NoStream =>
         /\ stream'.id = stream.id /\ stream'.protocol = stream.protocol
         /\ stream'.to >= stream.to /\ stream'.last >= stream.last
         /\ \A b \in receipts' \ receipts : b.stream = stream.id
<1>1. IInv /\ [Next]_vars => Pinned
  <2>. SUFFICES ASSUME IInv, [Next]_vars, stream # NoStream, stream' # NoStream
                PROVE  Pinned
    BY Zenon
  <2>0. stream.to \in Nat /\ stream.last \in Nat
    BY Zenon DEF IInv, Kept, TypeOK, StreamRows
  <2>1. ASSUME UNCHANGED <<stream, receipts>> PROVE Pinned
    BY SMTT(30), <2>0, <2>1
  <2>2. ASSUME NEW q \in Requests, Commit(q) PROVE Pinned
    <3>1. body[q] \in Stored /\ WellFormed(body[q])
      BY Zenon, <2>2, ReceiptsAssumption DEF IInv, Kept, Commit, Carrying, Asking,
        Stored
    <3>2. /\ Owner(body[q], stream) /\ stream.protocol = body[q].protocol
          /\ Continues(body[q], stream)
      BY Zenon, <2>2 DEF IInv, Kept, Commit, Admitted, Admissible
    <3>3. stream' = Advanced(body[q]) /\ receipts' = receipts \cup {body[q]}
      BY Zenon, <2>2 DEF Commit
    <3>4. /\ stream'.id = stream.id /\ stream'.protocol = stream.protocol
          /\ stream'.last = body[q].seq /\ stream'.to = body[q].to
      BY Zenon, <3>3 DEF Advanced
    <3>. QED  BY SMTT(30), <2>0, <3>1, <3>2, <3>3, <3>4 DEF Owner, Continues, WellFormed
  <2>3. ASSUME NEW q \in Requests,
               \/ AskDeleted(q) \/ AskStream(q)
               \/ AskLegacy(q) \/ AskReceipt(q)
               \/ Store(q) \/ AcceptLegacy(q) \/ Crash(q)
               \/ \E b \in Batches : Receive(q, b)
        PROVE  UNCHANGED <<stream, receipts>>
    BY Zenon, <2>3 DEF AskDeleted, AskStream, AskLegacy, AskReceipt, Store,
      AcceptLegacy,
                Crash, Receive, tables
  <2>4. ASSUME RecordDeletion PROVE UNCHANGED <<stream, receipts>>
    BY Zenon, <2>4 DEF RecordDeletion, tables
  <2>5. ~EraseSession
    BY Zenon DEF EraseSession
  <2>6. CASE UNCHANGED vars
    BY Zenon, <2>1, <2>6 DEF vars, tables
  <2>. HIDE DEF Pinned
  <2>. QED  BY Zenon, <2>1, <2>2, <2>3, <2>4, <2>5, <2>6 DEF Next, Step
<1>. QED  BY Inductive, <1>1, PTL DEF Spec, StreamPinned

\* After the deletion of the session is recorded no request adds an object, a
\* batch, a receipt or a stream.
THEOREM DeletionClosesTheDoor == Spec => DeletedTakesNothing
<1>. DEFINE Closed ==
       deleted => /\ objects' \subseteq objects
                  /\ receipts' \subseteq receipts
                  /\ Len(queue') <= Len(queue)
                  /\ stream = NoStream => stream' = NoStream
<1>1. IInv /\ [Next]_vars => Closed
  <2>. SUFFICES ASSUME IInv, [Next]_vars, deleted PROVE Closed
    BY Zenon
  <2>0. Len(queue) \in Nat
    BY DEF IInv, Kept, TypeOK
  <2>1. ASSUME UNCHANGED <<tables, objects>> PROVE Closed
    BY SMTT(30), <2>0, <2>1 DEF tables
  <2>2. ASSUME NEW q \in Requests PROVE ~Commit(q)
    BY Zenon DEF IInv, Kept, Admitted, Commit
  <2>3. ASSUME NEW q \in Requests, Store(q)
        PROVE  UNCHANGED <<tables, objects>>
    <3>1. \A cfg : Settle(body[q], cfg) = "deleted"
      BY Zenon DEF Settle
    <3>. QED  BY Zenon, <2>3, <3>1 DEF Store, tables
  <2>4. ASSUME NEW q \in Requests, AcceptLegacy(q)
        PROVE  UNCHANGED <<tables, objects>>
    BY Zenon, <2>4 DEF AcceptLegacy, LegacyAnswer, tables
  <2>5. ASSUME NEW q \in Requests,
               \/ AskDeleted(q) \/ AskStream(q)
               \/ AskLegacy(q) \/ AskReceipt(q)
               \/ Crash(q) \/ \E b \in Batches : Receive(q, b)
        PROVE  UNCHANGED <<tables, objects>>
    BY Zenon, <2>5 DEF AskDeleted, AskStream, AskLegacy, AskReceipt, Crash, Receive,
      tables
  <2>6. ASSUME RecordDeletion PROVE UNCHANGED <<tables, objects>>
    BY Zenon, <2>6 DEF RecordDeletion
  <2>7. ASSUME EraseSession PROVE Closed
    BY <2>0, <2>7 DEF EraseSession
  <2>8. CASE UNCHANGED vars
    BY Zenon, <2>1, <2>8 DEF vars
  <2>. HIDE DEF Closed
  <2>. QED  BY Zenon, <2>1, <2>2, <2>3, <2>4, <2>5, <2>6, <2>7, <2>8 DEF Next, Step
<1>. QED  BY Inductive, <1>1, PTL DEF Spec, DeletedTakesNothing

-----------------------------------------------------------------------------
(***************************************************************************)
(* The tokens of a device.  A revoked device could be let in again by a    *)
(* promotion that read its row before; the strengthening says that no two  *)
(* rows share a hash (DvTable) and what a promotion under way may move     *)
(* (DvPromoting).                                                          *)
(***************************************************************************)

\* A row has a hash, and no two rows have the same.
DvTable ==
    /\ dvHash \in [DvSources -> 0 .. dvPaired] /\ dvPaired \in Nat
    /\ dvStatus \in [DvSources -> {"none", "active", "revoked"}]
    /\ \A s \in DvSources : dvHash[s] = 0 <=> dvStatus[s] = "none"
    /\ \A s, t \in DvSources : dvHash[s] = dvHash[t] /\ dvHash[s] # 0 => s = t

\* A promotion that is under way moves the default row to another source.
DvPromoting ==
    dvSeen # DvNone => /\ dvSeen.source = DvDefault
                       /\ dvSeen.want \in DvSources \ {DvDefault}

DvIInv == DvTable /\ DvPromoting /\ RevokedDeviceIsRefused

\* A step that leaves the rows and the promotion as they are.
LEMMA DvSame ==
  ASSUME DvIInv, UNCHANGED <<dvHash, dvStatus, dvPaired, dvSeen, dvRevoked>>
  PROVE  DvIInv'
BY Zenon DEF DvIInv, DvTable, DvPromoting, RevokedDeviceIsRefused, DvActive

\* Every step of the registry keeps its invariant.
LEMMA DvStep == DvIInv /\ [DvNext]_dvVars => DvIInv'
<1>. SUFFICES ASSUME DvIInv, [DvNext]_dvVars
              PROVE  DvIInv'
  BY Zenon
<1>1. ASSUME NEW s \in DvSources, DvRegister(s) PROVE DvIInv'
  <2>1. DvTable'
    BY <1>1 DEF DvIInv, DvTable, DvRegister
  <2>. QED  BY Zenon, <1>1, <2>1 DEF DvIInv, DvRegister, DvPromoting, RevokedDeviceIsRefused
<1>2. CASE DvMap
  BY Zenon, <1>2, DvSame DEF DvMap
<1>3. ASSUME NEW h \in 1 .. dvPaired, NEW want \in DvSources \cup {"none"}, DvVerify(h, want)
      PROVE  DvIInv'
  <2>1. UNCHANGED <<dvHash, dvStatus, dvPaired, dvRevoked>>
    BY Zenon, <1>3 DEF DvVerify
  <2>2. \/ UNCHANGED dvSeen
        \/ \E s \in DvRows : /\ DvPromotes(s, want)
                             /\ dvSeen' = [hash |-> h, source |-> s, want |-> want]
    BY Zenon, <1>3 DEF DvVerify
  <2>3. DvPromoting'
    BY <2>2 DEF DvIInv, DvPromoting, DvPromotes, DvRows
  <2>. QED  BY Zenon, <2>1, <2>3 DEF DvIInv, DvTable, RevokedDeviceIsRefused, DvActive
<1>4. CASE DvReconcile
  <2>. DEFINE s == dvSeen.source
            w == dvSeen.want
  <2>1. dvSeen' = DvNone /\ UNCHANGED <<dvPaired, dvRevoked>>
    BY Zenon, <1>4 DEF DvReconcile
  <2>2. CASE UNCHANGED <<dvHash, dvStatus>>
    BY Zenon, <2>1, <2>2 DEF DvIInv, DvTable, DvPromoting, RevokedDeviceIsRefused, DvActive
  <2>3. CASE /\ s \in DvRows /\ w \notin DvRows
             /\ dvHash' = [dvHash EXCEPT ![w] = dvHash[s], ![s] = 0]
             /\ dvStatus' = [dvStatus EXCEPT ![w] = dvStatus[s], ![s] = "none"]
    <3>1. s = DvDefault /\ w \in DvSources \ {DvDefault}
      BY Zenon, <1>4 DEF DvReconcile, DvIInv, DvPromoting
    <3>2. s \in DvSources
      BY Zenon, <2>3 DEF DvRows
    <3>. HIDE DEF s, w
    <3>3. DvTable'
      BY Zenon, <2>1, <2>3, <3>1, <3>2 DEF DvIInv, DvTable, DvRows
    <3>4. RevokedDeviceIsRefused'
      BY Zenon, <2>1, <2>3, <3>1, <3>2 DEF DvIInv, DvTable, RevokedDeviceIsRefused, DvActive
    <3>. QED  BY Zenon, <2>1, <3>3, <3>4 DEF DvIInv, DvPromoting
  <2>. QED  BY Zenon, <1>4, <2>2, <2>3 DEF DvReconcile
<1>5. CASE DvRevoke
  <2>1. DvTable'
    BY Zenon, <1>5 DEF DvIInv, DvTable, DvRevoke, DvRows
  <2>2. RevokedDeviceIsRefused'
    BY Zenon, <1>5 DEF RevokedDeviceIsRefused, DvRevoke, DvActive
  <2>. QED  BY Zenon, <1>5, <2>1, <2>2 DEF DvIInv, DvRevoke, DvPromoting
<1>6. CASE DvHeartbeat
  BY Zenon, <1>6, DvSame DEF DvHeartbeat
<1>7. CASE UNCHANGED dvVars
  BY Zenon, <1>7, DvSame DEF dvVars
<1>. QED  BY Zenon, <1>1, <1>2, <1>3, <1>4, <1>5, <1>6, <1>7 DEF DvNext

\* It holds in every reachable state.
LEMMA DvInductive == DvSpec => []DvIInv
<1>1. DvInit => DvIInv
  BY DEF DvInit, DvIInv, DvTable, DvPromoting, RevokedDeviceIsRefused
<1>. QED  BY <1>1, DvStep, PTL DEF DvSpec

\* revoke_device_token: a revoked device stays refused under each of its
\* hashes, whichever sources the promotions of verify_device_token moved its
\* rows to, until it registers again.
THEOREM RevokedDevicesAreRefused == DvSpec => []RevokedDeviceIsRefused
<1>1. DvIInv => RevokedDeviceIsRefused
  BY Zenon DEF DvIInv
<1>. QED  BY DvInductive, <1>1, PTL

\* verify_device_token: only the default row is ever moved to another source.
THEOREM SourcesAreLocked == DvSpec => SourceIsLocked
<1>. DEFINE Locked == \A s, t \in DvSources :
              (s # DvDefault /\ dvHash[s] # 0 /\ dvHash'[t] = dvHash[s]) => t = s
<1>1. DvIInv /\ [DvNext]_dvVars => [Locked]_dvHash
  <2>. SUFFICES ASSUME DvIInv, DvNext, dvHash' # dvHash
                PROVE  Locked
    BY Zenon DEF dvVars
  <2>1. ASSUME NEW s \in DvSources, DvRegister(s) PROVE Locked
    BY <2>1 DEF DvIInv, DvTable, DvRegister
  <2>2. CASE DvReconcile
    <3>1. /\ dvSeen.source = DvDefault /\ dvSeen.want \in DvSources \ {DvDefault}
          /\ dvHash' = [dvHash EXCEPT ![dvSeen.want] = dvHash[dvSeen.source],
                                      ![dvSeen.source] = 0]
          /\ dvSeen.source \in DvRows /\ dvSeen.want \notin DvRows
      BY Zenon, <2>2 DEF DvReconcile, DvIInv, DvPromoting
    <3>. QED  BY Zenon, <3>1 DEF DvIInv, DvTable, DvRows
  <2>. QED  BY Zenon, <2>1, <2>2 DEF DvNext, DvMap, DvVerify, DvRevoke, DvHeartbeat
<1>. QED  BY DvInductive, <1>1, PTL DEF DvSpec, SourceIsLocked

-----------------------------------------------------------------------------
(* The tokens of the connected sources. *)

USE TkAssumption

(* The shape of the variables the argument is about. *)
TkTypeOK ==
    /\ tkGen \in [TkCustomers -> Nat]
    /\ tkStatus \in [TkCustomers -> {"none", "active", "auth_failed"}]
    /\ tkPc \in [TkCustomers -> {"idle", "check", "select", "insert"}]
    /\ tkTok \in [TkCustomers -> Nat]
    /\ tkR.todo \subseteq TkCustomers

TkOwnersOK == tkIssued \in Nat /\ tkOwner \in Seq(TkCustomers) /\ Len(tkOwner) = tkIssued

(* Token g was issued to c. *)
TkOwns(c, g) == g \in 1..tkIssued /\ tkOwner[g] = c

(* A token that is not accepted was lost with a reason. *)
TkGood(g) == g \in tkAccepted \cup tkLost

(* A row holds a token of its own customer, and an active one holds some. *)
TkRowsOwn ==
    \A c \in TkCustomers : /\ tkGen[c] # 0 => TkOwns(c, tkGen[c])
                           /\ tkStatus[c] = "active" => tkGen[c] # 0

(* What an install is about to save is new, and nobody else has it. *)
TkInstalls ==
    \A c \in TkCustomers : tkPc[c] = "check" =>
        /\ TkOwns(c, tkTok[c]) /\ TkGood(tkTok[c])
        /\ tkTok[c] # tkGen[c]
        /\ tkR.pc \in {"exchange", "save"} => tkR.tok # tkTok[c]

(* What the refresh cron is about to exchange, or to save. *)
TkRefreshes ==
    tkR.pc \in {"exchange", "save"} =>
        /\ tkR.c \in TkCustomers /\ TkOwns(tkR.c, tkR.tok)
        /\ tkR.pc = "save" => TkGood(tkR.tok) /\ TkOwns(tkR.c, tkR.old)

TkIInv == TkTypeOK /\ TkOwnersOK /\ TkRowsOwn /\ TkInstalls /\ TkRefreshes /\ LostTokenHasReason

(* The provider issues a token: it is new, and nobody else's. *)
LEMMA TkIssued ==
    ASSUME TkOwnersOK, NEW c \in TkCustomers, TkIssue(c)
    PROVE  /\ TkOwnersOK' /\ tkIssued' = tkIssued + 1 /\ tkIssued \in Nat
           /\ tkOwner'[tkIssued + 1] = c
           /\ \A g \in 1..tkIssued : tkOwner'[g] = tkOwner[g]
BY DEF TkOwnersOK, TkIssue

(***************************************************************************)
(* A step that moves no token keeps the invariant: the provider and the    *)
(* rows' tokens stay, an install goes on with the token it has or leaves   *)
(* the check, and the refresh cron stays or goes to another target without *)
(* forgetting a rotation it was about to save.                             *)
(***************************************************************************)
LEMMA TkQuiet ==
    ASSUME TkIInv, TkTypeOK', UNCHANGED <<tkProvider, tkGen, tkStatus>>,
           \A g \in tkLost : g \in tkLost',
           \A d \in TkCustomers : tkPc'[d] = "check" => tkPc[d] = "check" /\ tkTok'[d] = tkTok[d],
           \/ tkR' = tkR
           \/ /\ tkR'.pc \notin {"exchange", "save"}
              /\ tkR.pc = "save" => tkR.old \in tkLost'
    PROVE  TkIInv'
<1>1. TkOwnersOK' /\ TkRowsOwn'
  BY Zenon DEF TkIInv, TkOwnersOK, TkRowsOwn, TkOwns, tkProvider
<1>2. TkInstalls' /\ TkRefreshes'
  BY SMTT(30) DEF TkIInv, TkInstalls, TkRefreshes, TkOwns, TkGood, tkProvider
<1>3. LostTokenHasReason'
  BY Zenon DEF TkIInv, LostTokenHasReason, tkProvider
<1>. QED  BY Zenon, <1>1, <1>2, <1>3 DEF TkIInv

(* The steps of an install that save nothing keep the invariant. *)
LEMMA TkInstallSteps ==
    ASSUME TkIInv, NEW c \in TkCustomers,
           TkCheck(c) \/ TkSelect(c) \/ TkInsert(c) \/ TkFinish(c) \/ TkInstallDies(c)
    PROVE  TkIInv'
<1>1. UNCHANGED <<tkProvider, tkRow, tkR, tkLost>>
  BY Zenon DEF TkCheck, TkSelect, TkInsert, TkFinish, TkInstallDies, TkElse
<1>2. \/ tkPc' = tkPc /\ tkTok' = tkTok
      \/ TkReset(c, "refused") \/ TkReset(c, "none") \/ TkReset(c, "unmapped") \/ TkReset(c, "connected")
      \/ tkPc' = [tkPc EXCEPT ![c] = "insert"] /\ tkTok' = tkTok
      \/ tkPc' = [tkPc EXCEPT ![c] = "select"] /\ tkTok' = tkTok
  BY Zenon DEF TkCheck, TkSelect, TkInsert, TkFinish, TkInstallDies
<1>3. \/ tkPc' = tkPc /\ tkTok' = tkTok
      \/ tkPc' = [tkPc EXCEPT ![c] = "idle"] /\ tkTok' = [tkTok EXCEPT ![c] = 0]
      \/ tkPc' = [tkPc EXCEPT ![c] = "insert"] /\ tkTok' = tkTok
      \/ tkPc' = [tkPc EXCEPT ![c] = "select"] /\ tkTok' = tkTok
  BY Zenon, <1>2 DEF TkReset
<1>4. TkTypeOK'
  BY SMTT(60), <1>1, <1>3 DEF TkIInv, TkTypeOK, tkRow
<1>5. ASSUME NEW d \in TkCustomers, tkPc'[d] = "check" PROVE tkPc[d] = "check" /\ tkTok'[d] = tkTok[d]
  BY ZenonT(30), <1>3, <1>5 DEF TkIInv, TkTypeOK
<1>. QED  BY Zenon, <1>1, <1>4, <1>5, TkQuiet DEF tkRow

(* Time, and the end of a tenancy, keep the invariant. *)
LEMMA TkWorldSteps ==
    ASSUME TkIInv, NEW c \in TkCustomers, TkAge(c) \/ TkHold(c)
    PROVE  TkIInv'
<1>1. UNCHANGED <<tkProvider, tkGen, tkStatus, tkPc, tkTok, tkR, tkLost>>
  BY Zenon DEF TkAge, TkHold, tkRow, tkInstall, tkPast
<1>2. TkTypeOK'
  BY Zenon, <1>1 DEF TkIInv, TkTypeOK
<1>. QED  BY Zenon, <1>1, <1>2, TkQuiet

(* The refresh cron between two targets keeps the invariant. *)
LEMMA TkCronSteps ==
    ASSUME TkIInv, TkList \/ TkMark \/ TkRefreshEnds \/ TkRefreshDies
    PROVE  TkIInv'
<1>1. /\ UNCHANGED <<tkProvider, tkGen, tkStatus, tkPc, tkTok>>
      /\ \A g \in tkLost : g \in tkLost'
  BY Zenon DEF TkList, TkMark, TkRefreshEnds, TkRefreshDies, TkRefreshElse, TkCronElse, tkRow, tkInstall
<1>2. /\ tkR'.pc \notin {"exchange", "save"} /\ tkR'.todo \subseteq TkCustomers
      /\ tkR.pc = "save" => tkR.old \in tkLost'
  BY SMTT(60) DEF TkIInv, TkTypeOK, TkList, TkMark, TkRefreshEnds, TkRefreshDies, TkNextTarget, TkLoop, TkIdle,
         TkTurn
<1>3. TkTypeOK'
  BY Zenon, <1>1, <1>2 DEF TkIInv, TkTypeOK
<1>. QED  BY Zenon, <1>1, <1>2, <1>3, TkQuiet

(* The health cron moves no token, and takes rows out of active only. *)
LEMMA TkProbeStep ==
    ASSUME TkIInv, TkProbe
    PROVE  TkIInv'
<1>1. /\ UNCHANGED <<tkProvider, tkR, tkLost, tkInstall, tkGen>>
      /\ tkStatus' \in [TkCustomers -> {"none", "active", "auth_failed"}]
      /\ \A c \in TkCustomers : tkStatus'[c] = "active" => tkStatus[c] = "active"
  BY DEF TkIInv, TkTypeOK, TkProbe, TkProbeList, TkProbeLoad, TkVerify, TkFlag, TkProbeEnds,
         TkProbeElse, TkCronElse, tkRow
<1>. QED  BY ZenonT(30), <1>1 DEF TkIInv, TkTypeOK, TkOwnersOK, TkRowsOwn, TkInstalls, TkRefreshes,
         LostTokenHasReason, TkOwns, TkGood, tkProvider, tkInstall

(* The code is exchanged: the install holds a token nobody else has. *)
LEMMA TkExchangeStep ==
    ASSUME TkIInv, NEW c \in TkCustomers, TkExchange(c)
    PROVE  TkIInv'
<1> USE DEF TkIInv
<1>1. /\ TkOwnersOK' /\ tkIssued' = tkIssued + 1 /\ tkIssued \in Nat
      /\ tkOwner'[tkIssued + 1] = c
      /\ \A g \in 1..tkIssued : tkOwner'[g] = tkOwner[g]
  BY Zenon, TkIssued DEF TkExchange
<1>2. /\ tkPc' = [tkPc EXCEPT ![c] = "check"] /\ tkTok' = [tkTok EXCEPT ![c] = tkIssued + 1]
      /\ tkAccepted' = tkAccepted \cup {tkIssued + 1}
      /\ UNCHANGED <<tkGen, tkStatus, tkR, tkLost>>
  BY Zenon, <1>1 DEF TkExchange, TkElse, tkRow
<1>3. TkTypeOK'
  BY SMTT(60), <1>1, <1>2 DEF TkTypeOK
<1>4. TkRowsOwn' /\ TkRefreshes' /\ LostTokenHasReason'
  BY SMTT(60), <1>1, <1>2 DEF TkRowsOwn, TkRefreshes, LostTokenHasReason, TkOwns, TkGood
<1>5. ASSUME NEW d \in TkCustomers, tkPc'[d] = "check"
      PROVE  /\ TkOwns(d, tkTok[d])' /\ TkGood(tkTok[d])'
             /\ tkTok'[d] # tkGen'[d]
             /\ tkR'.pc \in {"exchange", "save"} => tkR'.tok # tkTok'[d]
  <2>1. CASE d = c
    <3>1. tkTok'[c] = tkIssued + 1
      BY Zenon, <1>2 DEF TkTypeOK
    <3>2. tkGen[c] # tkIssued + 1
      BY SMTT(60), <1>1 DEF TkRowsOwn, TkOwns, TkTypeOK
    <3>3. tkR.pc \in {"exchange", "save"} => tkR.tok # tkIssued + 1
      BY <1>1 DEF TkRefreshes, TkOwns
    <3>. QED  BY SMTT(30), <1>1, <1>2, <2>1, <3>1, <3>2, <3>3 DEF TkOwns, TkGood
  <2>2. CASE d # c
    BY SMTT(60), <1>1, <1>2, <1>5, <2>2 DEF TkTypeOK, TkInstalls, TkOwns, TkGood
  <2>. QED  BY Zenon, <2>1, <2>2
<1>6. TkInstalls'
  BY Zenon, <1>5 DEF TkInstalls
<1>. QED  BY Zenon, <1>1, <1>3, <1>4, <1>6

(* An install saves the token it holds. *)
LEMMA TkSaveStep ==
    ASSUME TkIInv, NEW c \in TkCustomers, TkSave(c)
    PROVE  TkIInv'
<1> USE DEF TkIInv
<1>1. TkTypeOK'
  BY Zenon DEF TkSave, TkElse, TkSaveRow, TkTypeOK
<1>2. TkOwnersOK' /\ TkRowsOwn'
  BY SMTT(60) DEF TkSave, TkElse, TkSaveRow, tkProvider, TkTypeOK, TkOwnersOK, TkRowsOwn, TkInstalls, TkOwns
<1>3. TkInstalls' /\ TkRefreshes'
  BY ZenonT(30) DEF TkSave, TkElse, TkSaveRow, tkProvider, TkTypeOK, TkInstalls, TkRefreshes, TkOwns, TkGood
<1>4. LostTokenHasReason'
  BY ZenonT(30) DEF TkSave, TkElse, TkSaveRow, tkProvider, TkTypeOK, TkInstalls, LostTokenHasReason, TkGood
<1>. QED  BY Zenon, <1>1, <1>2, <1>3, <1>4

(* A disconnect leaves no token in the row. *)
LEMMA TkDisconnectStep ==
    ASSUME TkIInv, NEW c \in TkCustomers, TkDisconnect(c)
    PROVE  TkIInv'
<1> USE DEF TkIInv
<1>1. TkTypeOK'
  BY Zenon DEF TkDisconnect, TkTypeOK
<1>2. TkOwnersOK' /\ TkRowsOwn'
  BY Zenon DEF TkDisconnect, tkProvider, TkTypeOK, TkOwnersOK, TkRowsOwn, TkOwns
<1>3. TkInstalls' /\ TkRefreshes'
  BY ZenonT(30) DEF TkDisconnect, TkInstalling, tkProvider, TkTypeOK, TkInstalls, TkRefreshes, TkOwns, TkGood
<1>4. LostTokenHasReason'
  BY Zenon DEF TkDisconnect, tkProvider, TkTypeOK, LostTokenHasReason
<1>. QED  BY <1>1, <1>2, <1>3, <1>4

(* A grant withdrawn at the provider is a reason. *)
LEMMA TkRevokeStep ==
    ASSUME TkIInv, NEW c \in TkCustomers, TkRevoke(c)
    PROVE  TkIInv'
<1> USE DEF TkIInv
<1>1. TkTypeOK' /\ TkOwnersOK' /\ TkRowsOwn'
  BY Zenon DEF TkRevoke, tkRow, tkInstall, TkTypeOK, TkOwnersOK, TkRowsOwn, TkOwns
<1>2. \A g : TkGood(g) => TkGood(g)'
  BY Zenon DEF TkRevoke, TkGood
<1>3. TkInstalls' /\ TkRefreshes'
  BY Zenon, <1>2 DEF TkRevoke, tkRow, tkInstall, TkInstalls, TkRefreshes, TkOwns
<1>4. LostTokenHasReason'
  BY Zenon DEF TkRevoke, tkRow, LostTokenHasReason
<1>. QED  BY Zenon, <1>1, <1>3, <1>4

(* The refresh cron reads the token of its next target, or passes it over. *)
LEMMA TkLoadStep ==
    ASSUME TkIInv, TkLoad
    PROVE  TkIInv'
<1>1. UNCHANGED <<tkProvider, tkGen, tkStatus, tkPc, tkTok, tkLost>> /\ tkR.pc = "loop"
  BY Zenon DEF TkLoad, TkRefreshElse, TkCronElse, tkInstall
<1>2. PICK c \in TkCustomers :
        \/ tkR' = TkLoop(tkR.todo \ {c})
        \/ tkStatus[c] = "active" /\ tkR' = TkTurn("exchange", tkR.todo \ {c}, c, tkGen[c])
  BY ZenonT(30) DEF TkIInv, TkTypeOK, TkLoad
<1>3. TkTypeOK'
  BY SMTT(60), <1>1, <1>2 DEF TkIInv, TkTypeOK, TkLoop, TkTurn
<1>4. CASE tkR' = TkLoop(tkR.todo \ {c})
  BY Zenon, <1>1, <1>3, <1>4, TkQuiet DEF TkLoop, TkTurn
<1>5. CASE tkStatus[c] = "active" /\ tkR' = TkTurn("exchange", tkR.todo \ {c}, c, tkGen[c])
  <2>1. tkR'.pc = "exchange" /\ tkR'.c = c /\ tkR'.tok = tkGen[c]
    BY Zenon, <1>5 DEF TkTurn
  <2>2. TkOwns(c, tkGen[c])
    BY Zenon, <1>1, <1>5 DEF TkIInv, TkRowsOwn
  <2>3. TkRefreshes'
    BY Zenon, <1>1, <2>1, <2>2 DEF TkRefreshes, TkOwns, tkProvider
  <2>4. ASSUME NEW d \in TkCustomers, tkPc[d] = "check" PROVE tkGen[c] # tkTok[d]
    BY SMTT(30), <2>2, <2>4 DEF TkIInv, TkInstalls, TkOwns
  <2>5. TkInstalls'
    BY SMTT(30), <1>1, <2>1, <2>4 DEF TkIInv, TkInstalls, TkOwns, TkGood, tkProvider
  <2>6. TkOwnersOK' /\ TkRowsOwn' /\ LostTokenHasReason'
    BY Zenon, <1>1 DEF TkIInv, TkOwnersOK, TkRowsOwn, TkOwns, LostTokenHasReason, tkProvider
  <2>. QED  BY Zenon, <1>3, <2>3, <2>5, <2>6 DEF TkIInv
<1>. QED  BY Zenon, <1>2, <1>4, <1>5

(* A rotation takes the old token away, and the cron holds the new one. *)
LEMMA TkRefreshCallStep ==
    ASSUME TkIInv, TkRefreshCall
    PROVE  TkIInv'
<1>1. /\ UNCHANGED <<tkGen, tkStatus, tkPc, tkTok>> /\ tkR.pc = "exchange"
      /\ tkR.c \in TkCustomers /\ TkOwns(tkR.c, tkR.tok)
  BY Zenon DEF TkIInv, TkRefreshes, TkRefreshCall, TkRefreshElse, TkCronElse, tkRow, tkInstall
<1>2. CASE UNCHANGED <<tkProvider, tkLost>> /\ tkR' = TkTurn("mark", tkR.todo, tkR.c, tkR.tok)
  <2>1. tkR'.pc = "mark" /\ TkTypeOK'
    BY Zenon, <1>1, <1>2 DEF TkTurn, TkIInv, TkTypeOK
  <2>. QED  BY Zenon, <1>1, <1>2, <2>1, TkQuiet
<1>3. CASE /\ TkIssue(tkR.c)
           /\ tkAccepted' = (tkAccepted \ {tkR.tok}) \cup {tkIssued'}
           /\ \/ tkR' = TkRotated(tkIssued') /\ tkLost' = tkLost
              \/ /\ tkR' = TkTurn("mark", tkR.todo, tkR.c, tkR.tok)
                 /\ tkLost' = tkLost \cup {tkR.tok}
  <2>1. /\ TkOwnersOK' /\ tkIssued' = tkIssued + 1 /\ tkIssued \in Nat
        /\ tkOwner'[tkIssued + 1] = tkR.c
        /\ \A g \in 1..tkIssued : tkOwner'[g] = tkOwner[g]
    BY Zenon, <1>1, <1>3, TkIssued DEF TkIInv
  <2>2. \A d, g : TkOwns(d, g) => TkOwns(d, g)' /\ g # tkIssued + 1
    BY SMTT(30), <2>1 DEF TkOwns
  <2>3. \/ /\ tkR'.pc = "save" /\ tkR'.c = tkR.c /\ tkR'.tok = tkIssued + 1 /\ tkR'.old = tkR.tok
           /\ tkLost' = tkLost
        \/ tkR'.pc = "mark" /\ tkLost' = tkLost \cup {tkR.tok}
    BY SMTT(60), <1>3, <2>1 DEF TkRotated, TkTurn
  <2>4. TkTypeOK'
    BY SMTT(60), <1>1, <1>3 DEF TkIInv, TkTypeOK, TkRotated, TkTurn
  <2>5. TkRowsOwn'
    BY Zenon, <1>1, <2>2 DEF TkIInv, TkRowsOwn
  <2>6. \A g : TkGood(g) /\ g # tkR.tok => TkGood(g)'
    BY Zenon, <1>3 DEF TkGood
  <2>7. TkRefreshes'
    <3>1. CASE tkR'.pc = "save"
      <4>1. tkR'.c = tkR.c /\ tkR'.tok = tkIssued + 1 /\ tkR'.old = tkR.tok
        BY Zenon, <2>3, <3>1
      <4>2. TkOwns(tkR.c, tkR.tok)'
        BY SMTT(30), <2>1, <4>1 DEF TkOwns
      <4>3. TkGood(tkR.tok)'
        BY Zenon, <1>3, <2>1, <4>1 DEF TkGood
      <4>4. TkOwns(tkR.c, tkR.old)'
        BY SMTT(30), <1>1, <2>1, <4>1 DEF TkOwns
      <4>. QED  BY Zenon, <1>1, <4>1, <4>2, <4>3, <4>4 DEF TkRefreshes
    <3>2. CASE tkR'.pc = "mark"
      BY Zenon, <3>2 DEF TkRefreshes
    <3>. QED  BY Zenon, <2>3, <3>1, <3>2
  <2>8. ASSUME NEW d \in TkCustomers, tkPc[d] = "check"
        PROVE  tkTok[d] # tkR.tok /\ TkOwns(d, tkTok[d]) /\ TkGood(tkTok[d])
    BY Zenon, <1>1, <2>8 DEF TkIInv, TkInstalls
  <2>9. TkInstalls'
    BY SMTT(30), <1>1, <2>2, <2>3, <2>6, <2>8 DEF TkIInv, TkInstalls, TkOwns, TkGood
  <2>10. LostTokenHasReason'
    BY Zenon, <1>1, <1>3, <2>3 DEF TkIInv, LostTokenHasReason
  <2>. QED  BY Zenon, <2>1, <2>4, <2>5, <2>7, <2>9, <2>10 DEF TkIInv
<1>. QED  BY Zenon, <1>2, <1>3 DEF TkRefreshCall, TkFault

(* The new token goes into the row of the customer it was issued to. *)
LEMMA TkSaveRefreshedStep ==
    ASSUME TkIInv, TkSaveRefreshed
    PROVE  TkIInv'
<1> USE DEF TkIInv
<1>1. /\ UNCHANGED <<tkProvider, tkPc, tkTok, tkLost>> /\ tkR.pc = "save" /\ tkR'.pc = "loop"
      /\ tkR'.todo \subseteq TkCustomers
      /\ tkR.c \in TkCustomers /\ TkOwns(tkR.c, tkR.tok) /\ TkGood(tkR.tok) /\ TkOwns(tkR.c, tkR.old)
  BY ZenonT(30) DEF TkTypeOK, TkRefreshes, TkSaveRefreshed, TkRefreshElse, TkCronElse, tkInstall, TkNextTarget,
         TkLoop, TkTurn
<1>2. /\ tkGen' = [tkGen EXCEPT ![tkR.c] = tkR.tok]
      /\ tkStatus' = [tkStatus EXCEPT ![tkR.c] = "active"]
      /\ tkR.tok \in Nat /\ tkR.tok # 0
  BY SMTT(60), <1>1 DEF TkSaveRefreshed, TkSaveRow, TkOwns, TkOwnersOK
<1>3. TkTypeOK'
  BY Zenon, <1>1, <1>2 DEF TkTypeOK
<1>4. TkOwnersOK' /\ TkRowsOwn'
  BY ZenonT(30), <1>1, <1>2 DEF TkTypeOK, TkOwnersOK, TkRowsOwn, TkOwns, tkProvider
<1>5. TkInstalls' /\ TkRefreshes'
  BY ZenonT(30), <1>1, <1>2 DEF TkTypeOK, TkInstalls, TkRefreshes, TkOwns, TkGood, tkProvider
<1>6. ASSUME NEW d \in TkCustomers, d # tkR.c, tkGen[d] = tkR.old PROVE FALSE
  BY SMTT(60), <1>1, <1>6 DEF TkRowsOwn, TkOwns, TkOwnersOK
<1>7. LostTokenHasReason'
  BY Zenon, <1>1, <1>2, <1>6 DEF TkTypeOK, LostTokenHasReason, TkGood, tkProvider
<1>. QED  BY Zenon, <1>3, <1>4, <1>5, <1>7

(* Every step keeps the invariant. *)
LEMMA TkInductive == TkIInv /\ [TkNext]_tkVars => TkIInv'
<1>1. ASSUME TkIInv, UNCHANGED tkVars PROVE TkIInv'
  <2>1. UNCHANGED <<tkProvider, tkGen, tkStatus, tkPc, tkTok, tkR, tkLost>>
    BY Zenon, <1>1 DEF tkVars, tkRow, tkInstall, tkPast
  <2>. QED  BY Zenon, <1>1, <2>1, TkQuiet DEF TkIInv, TkTypeOK
<1>2. ASSUME TkIInv, TkNext PROVE TkIInv'
  BY Zenon, <1>2, TkExchangeStep, TkSaveStep, TkInstallSteps, TkDisconnectStep, TkWorldSteps, TkRevokeStep,
     TkCronSteps, TkLoadStep, TkRefreshCallStep, TkSaveRefreshedStep, TkProbeStep
     DEF TkNext, TkCron
<1>. QED  BY Zenon, <1>1, <1>2

(***************************************************************************)
(* An active row holds a token the provider accepts, unless the grant was  *)
(* withdrawn or the answer of a rotation was lost before save_token, or    *)
(* the rotation is under way: for any number of customers, installs,       *)
(* disconnects, cron cycles and faults (LostTokenHasReason).               *)
(***************************************************************************)
THEOREM LostTokensHaveReasons == TkSpec => []LostTokenHasReason
<1>1. TkInit => TkTypeOK
  BY SMTT(60) DEF TkInit, TkTypeOK, TkIdle, TkTurn, TkNobody
<1>2. TkInit => TkOwnersOK
  BY SMTT(30) DEF TkInit, TkOwnersOK, TkNobody
<1>3. TkInit => TkIInv
  BY SMTT(60), <1>1, <1>2 DEF TkInit, TkIInv, TkRowsOwn, TkInstalls, TkRefreshes, LostTokenHasReason,
         TkOwns, TkGood, TkIdle, TkTurn, TkNobody
<1>4. TkIInv => LostTokenHasReason
  BY Zenon DEF TkIInv
<1>. QED  BY <1>3, <1>4, TkInductive, PTL DEF TkSpec

=============================================================================
