-------------------------- MODULE DocumentVersions --------------------------
(***************************************************************************)
(* One document's version rows (engine/ingest/normalizer.py                *)
(* _upsert_document) under concurrent write transactions.  Each SQL        *)
(* statement is a step.  A transaction reads committed rows and its own    *)
(* (READ COMMITTED); an UPDATE or INSERT that meets a row another open     *)
(* transaction wrote waits for it and then looks again.  There is no       *)
(* unique index on live rows: the primary key is (customer, doc, version). *)
(*                                                                         *)
(* Three kinds of document: "plain" (Slack, Linear, Notion...: writers are *)
(* not serialised), "session" (a coding-agent transcript: every writer     *)
(* holds the session lock; unfinished passes are updated in place) and     *)
(* "unit" (a document mined from a session: same lock, and a later pass    *)
(* that no longer emits it retires it WITHOUT the lock).                   *)
(*                                                                         *)
(* The chunk plan is one step, at the commit: its inner reads and writes   *)
(* are in CustomIngest.  GitHub's ordering check is in GitHubEvents.       *)
(***************************************************************************)
EXTENDS Naturals, Sequences, FiniteSets

CONSTANTS VrWriters,   \* worker slots
          VrBodies,    \* content hashes
          VrKinds,     \* the kinds of document an instance starts from
          VrBorn,      \* per kind: is the document "born" or "absent" at first
          VrRetries,   \* _UPSERT_DOC_MAX_RETRIES
          VrPasses     \* bound: write transactions begun

ASSUME VrBodiesExist == VrBodies # {}
ASSUME VrKindsKnown == VrKinds \subseteq {"plain", "session", "unit"}
ASSUME VrRetriesPositive == VrRetries \in Nat \ {0}

VARIABLES vrKind,      \* the kind of document
          vrHist,      \* committed version rows, version = index
          vrLive,      \* versions whose valid_to IS NULL
          vrIndex,     \* the body whose chunk plan was applied last
          vrPc,        \* per writer: the statement it is at
          vrItem,      \* per writer: the Document it writes
          vrSeen,      \* per writer: existing["version"], 0 for none
          vrSlot,      \* per writer: next_version
          vrTried,     \* per writer: attempts that met ON CONFLICT
          vrClosed,    \* per writer: the row its open transaction closed
          vrOpened,    \* per writer: the row its open transaction inserted
          vrEdited,    \* per writer: the row it updated in place
          vrWrote,     \* per writer: what _upsert_document returned
          vrBegun      \* write transactions begun so far

vrTable == <<vrHist, vrLive, vrIndex>>
vrTxn == <<vrPc, vrItem, vrSeen, vrSlot, vrTried, vrClosed, vrOpened,
           vrEdited, vrWrote>>
vrVars == <<vrKind, vrTable, vrTxn, vrBegun>>

VrModes == {"plain", "gone", "partial", "final"}
\* A row says its body and the mode of the pass that wrote it.
VrRows == [body : VrBodies, mode : VrModes]

\* The passes a kind of document gets: a transcript is either unfinished
\* (coalesce_into_live) or session_complete; only sources delete.
VrModesOf(kind) ==
  CASE kind = "plain"   -> {"plain", "gone"}
    [] kind = "session" -> {"partial", "final"}
    [] kind = "unit"    -> {"plain"}

VrServes(row) == IF row.mode = "gone" THEN "nothing" ELSE row.body

VrSerial == vrKind # "plain"
VrBusy(w) == vrPc[w] # "idle"
VrTop == Len(vrHist)

\* A row no other open transaction has written.
VrFree(w, v) ==
  \A u \in VrWriters \ {w} : v \notin {vrClosed[u], vrEdited[u]}

\* A slot with no transaction open carries nothing over from the last one.
VrNoItem == CHOOSE r \in VrRows : TRUE

VrInit ==
  /\ vrKind \in VrKinds
  /\ vrHist \in {<<>>} \cup {<<[body |-> b, mode |-> m]>> :
                             b \in VrBodies, m \in VrModesOf(vrKind)}
  /\ (IF vrHist = <<>> THEN "absent" ELSE "born") \in VrBorn[vrKind]
  /\ vrLive = 1 .. Len(vrHist)
  /\ vrIndex = IF vrHist = <<>> THEN "nothing" ELSE VrServes(vrHist[1])
  /\ vrPc = [w \in VrWriters |-> "idle"]
  /\ vrItem = [w \in VrWriters |-> VrNoItem]
  /\ vrSeen = [w \in VrWriters |-> 0]
  /\ vrSlot = [w \in VrWriters |-> 0]
  /\ vrTried = [w \in VrWriters |-> 0]
  /\ vrClosed = [w \in VrWriters |-> 0]
  /\ vrOpened = [w \in VrWriters |-> 0]
  /\ vrEdited = [w \in VrWriters |-> 0]
  /\ vrWrote = [w \in VrWriters |-> FALSE]
  /\ vrBegun = 0

-----------------------------------------------------------------------------
\* What a transaction leaves behind when it ends.
VrRest(w) ==
  /\ vrPc' = [vrPc EXCEPT ![w] = "idle"]
  /\ vrItem' = [vrItem EXCEPT ![w] = VrNoItem]
  /\ vrSeen' = [vrSeen EXCEPT ![w] = 0]
  /\ vrSlot' = [vrSlot EXCEPT ![w] = 0]
  /\ vrTried' = [vrTried EXCEPT ![w] = 0]
  /\ vrClosed' = [vrClosed EXCEPT ![w] = 0]
  /\ vrOpened' = [vrOpened EXCEPT ![w] = 0]
  /\ vrEdited' = [vrEdited EXCEPT ![w] = 0]
  /\ vrWrote' = [vrWrote EXCEPT ![w] = FALSE]

\* refuse_deleted_sessions: the advisory lock, held to the end.
VrLockFree(w) == VrSerial => \A u \in VrWriters : ~VrBusy(u)

\* Phase B opens: with_tenant, and the session lock where there is one.
VrBegin(w, item) ==
  /\ ~VrBusy(w) /\ vrBegun < VrPasses
  /\ item.mode \in VrModesOf(vrKind)
  /\ VrLockFree(w)
  /\ vrPc' = [vrPc EXCEPT ![w] = "read"]
  /\ vrItem' = [vrItem EXCEPT ![w] = item]
  /\ vrBegun' = vrBegun + 1
  /\ UNCHANGED <<vrKind, vrTable, vrSeen, vrSlot, vrTried, vrClosed,
                 vrOpened, vrEdited, vrWrote>>

\* The live rows a transaction sees: the committed ones and its own.
VrSees(w) == vrLive \ {vrClosed[w]}

\* Which statement follows the read of the live row.
VrAfterRead(w, seen) ==
  LET row == vrHist[seen] IN
  CASE seen = 0 -> "max"
    [] seen # 0 /\ row.body = vrItem[w].body /\ vrItem[w].mode # "gone" -> "noop"
    [] seen # 0 /\ ~(row.body = vrItem[w].body /\ vrItem[w].mode # "gone")
         /\ vrItem[w].mode = "partial" /\ row.mode # "final" -> "coalesce"
    [] OTHER -> "close"

\* SELECT ... WHERE valid_to IS NULL LIMIT 1: any one of them.
VrReadLive(w) ==
  /\ vrPc[w] = "read"
  /\ \E seen \in IF VrSees(w) = {} THEN {0} ELSE VrSees(w) :
       /\ vrSeen' = [vrSeen EXCEPT ![w] = seen]
       /\ vrPc' = [vrPc EXCEPT ![w] =
                     IF VrAfterRead(w, seen) = "noop" THEN "done"
                     ELSE VrAfterRead(w, seen)]
  /\ UNCHANGED <<vrKind, vrTable, vrItem, vrSlot, vrTried, vrClosed,
                 vrOpened, vrEdited, vrWrote, vrBegun>>

\* UPDATE ... WHERE version = seen AND valid_to IS NULL.  The rows it
\* matched are not counted: it reports a write even when it matched none.
VrCoalesce(w) ==
  /\ vrPc[w] = "coalesce" /\ VrFree(w, vrSeen[w])
  /\ vrEdited' = [vrEdited EXCEPT ![w] =
                    IF vrSeen[w] \in VrSees(w) THEN vrSeen[w] ELSE 0]
  /\ vrWrote' = [vrWrote EXCEPT ![w] = TRUE]
  /\ vrPc' = [vrPc EXCEPT ![w] = "done"]
  /\ UNCHANGED <<vrKind, vrTable, vrItem, vrSeen, vrSlot, vrTried,
                 vrClosed, vrOpened, vrBegun>>

\* Variant: the next version is opened without closing the last.
VrCloseNothing(w) ==
  /\ vrPc[w] = "close"
  /\ vrSlot' = [vrSlot EXCEPT ![w] = vrSeen[w] + 1]
  /\ vrPc' = [vrPc EXCEPT ![w] = "insert"]
  /\ UNCHANGED <<vrKind, vrTable, vrItem, vrSeen, vrTried, vrClosed,
                 vrOpened, vrEdited, vrWrote, vrBegun>>

\* UPDATE ... SET valid_to: no row when another writer closed it first.
VrClose(w) ==
  /\ vrPc[w] = "close" /\ VrFree(w, vrSeen[w])
  /\ vrClosed' = [vrClosed EXCEPT ![w] =
                    IF vrSeen[w] \in vrLive THEN vrSeen[w] ELSE @]
  /\ vrSlot' = [vrSlot EXCEPT ![w] = vrSeen[w] + 1]
  /\ vrPc' = [vrPc EXCEPT ![w] = "insert"]
  /\ UNCHANGED <<vrKind, vrTable, vrItem, vrSeen, vrTried, vrOpened,
                 vrEdited, vrWrote, vrBegun>>

\* SELECT MAX(version): a second statement, so it may see rows the first
\* one did not.
VrReadMax(w) ==
  /\ vrPc[w] = "max"
  /\ vrSlot' = [vrSlot EXCEPT ![w] = VrTop + 1]
  /\ vrPc' = [vrPc EXCEPT ![w] = "insert"]
  /\ UNCHANGED <<vrKind, vrTable, vrItem, vrSeen, vrTried, vrClosed,
                 vrOpened, vrEdited, vrWrote, vrBegun>>

\* INSERT waits for another open transaction's row of the same version.
VrSlotFree(w) == \A u \in VrWriters \ {w} : vrOpened[u] # vrSlot[w]

\* INSERT ... RETURNING 1: the slot was free.
VrInsert(w) ==
  /\ vrPc[w] = "insert" /\ VrSlotFree(w)
  /\ vrSlot[w] > VrTop
  /\ vrOpened' = [vrOpened EXCEPT ![w] = vrSlot[w]]
  /\ vrWrote' = [vrWrote EXCEPT ![w] = TRUE]
  /\ vrPc' = [vrPc EXCEPT ![w] = "done"]
  /\ UNCHANGED <<vrKind, vrTable, vrItem, vrSeen, vrSlot, vrTried,
                 vrClosed, vrEdited, vrBegun>>

\* Variant: the swallowed INSERT reads as done.
VrConflictIsDone(w) ==
  /\ vrPc[w] = "insert" /\ VrSlotFree(w)
  /\ vrSlot[w] <= VrTop
  /\ vrWrote' = [vrWrote EXCEPT ![w] = TRUE]
  /\ vrPc' = [vrPc EXCEPT ![w] = "done"]
  /\ UNCHANGED <<vrKind, vrTable, vrItem, vrSeen, vrSlot, vrTried,
                 vrClosed, vrOpened, vrEdited, vrBegun>>

\* ON CONFLICT DO NOTHING: look again from the top.
VrConflict(w) ==
  /\ vrPc[w] = "insert" /\ VrSlotFree(w)
  /\ vrSlot[w] <= VrTop
  /\ vrTried[w] + 1 < VrRetries
  /\ vrTried' = [vrTried EXCEPT ![w] = @ + 1]
  /\ vrPc' = [vrPc EXCEPT ![w] = "read"]
  /\ UNCHANGED <<vrKind, vrTable, vrItem, vrSeen, vrSlot, vrClosed,
                 vrOpened, vrEdited, vrWrote, vrBegun>>

\* _UpsertDocumentRaceExhausted is transient: the transaction rolls back.
VrExhausted(w) ==
  /\ vrPc[w] = "insert" /\ VrSlotFree(w)
  /\ vrSlot[w] <= VrTop
  /\ vrTried[w] + 1 >= VrRetries
  /\ VrRest(w)
  /\ UNCHANGED <<vrKind, vrTable, vrBegun>>

\* _apply_chunk_plan for a document that was written, and COMMIT.
VrCommit(w) ==
  /\ vrPc[w] = "done"
  /\ vrHist' = CASE vrOpened[w] # 0 -> Append(vrHist, vrItem[w])
                 [] vrEdited[w] # 0 -> [vrHist EXCEPT ![vrEdited[w]] = vrItem[w]]
                 [] OTHER -> vrHist
  /\ vrLive' = (vrLive \ {vrClosed[w]}) \cup ({vrOpened[w]} \ {0})
  /\ vrIndex' = IF vrWrote[w] THEN VrServes(vrItem[w]) ELSE vrIndex
  /\ VrRest(w)
  /\ UNCHANGED <<vrKind, vrBegun>>

\* The worker dies, a statement times out, Postgres breaks a deadlock, or a
\* permanent error rolls the document back to its savepoint.
VrRollback(w) ==
  /\ VrBusy(w)
  /\ VrRest(w)
  /\ UNCHANGED <<vrKind, vrTable, vrBegun>>

\* _retire_orphaned_children: a transaction of its own, no session lock.
\* The unit's chunks are left as they are.
VrRetire ==
  /\ vrKind = "unit" /\ vrLive # {}
  /\ \A w \in VrWriters : {vrClosed[w], vrEdited[w]} \cap vrLive = {}
  /\ vrLive' = {}
  /\ UNCHANGED <<vrKind, vrHist, vrIndex, vrTxn, vrBegun>>

VrStep(w) ==
  \/ \E item \in VrRows : VrBegin(w, item)
  \/ VrReadLive(w) \/ VrCoalesce(w) \/ VrClose(w) \/ VrReadMax(w)
  \/ VrInsert(w) \/ VrConflict(w) \/ VrExhausted(w)
  \/ VrCommit(w) \/ VrRollback(w)

VrNext == VrRetire \/ \E w \in VrWriters : VrStep(w)

VrSpec == VrInit /\ [][VrNext]_vrVars

-----------------------------------------------------------------------------
VrTypeOK ==
  /\ vrKind \in VrKinds
  /\ vrBegun \in Nat
  /\ vrHist \in Seq(VrRows)
  /\ vrLive \subseteq 1 .. Len(vrHist)
  /\ vrIndex \in VrBodies \cup {"nothing"}
  /\ vrPc \in [VrWriters -> {"idle", "read", "max", "coalesce", "close",
                             "insert", "done"}]
  /\ vrItem \in [VrWriters -> VrRows]
  /\ vrSeen \in [VrWriters -> Nat] /\ vrSlot \in [VrWriters -> Nat]
  /\ vrTried \in [VrWriters -> Nat] /\ vrClosed \in [VrWriters -> Nat]
  /\ vrOpened \in [VrWriters -> Nat] /\ vrEdited \in [VrWriters -> Nat]
  /\ vrWrote \in [VrWriters -> BOOLEAN]

\* However the statements of several writers interleave, a document has at
\* most one row with valid_to IS NULL and it is the newest version: every
\* read of the engine that says "valid_to IS NULL" relies on it, and no
\* index enforces it.  It holds for session documents because of the lock,
\* and for the others only once the document exists.
OneLiveVersion == vrLive \subseteq {VrTop}

\* The abstract document this one implements: a history that grows at its
\* end or is amended at its last version, and an index that holds what that
\* version says.
Abstract == INSTANCE VersionedDocument
              WITH Rows <- VrRows, Contents <- VrServes, history <- vrHist,
                   live <- (vrLive # {}), served <- vrIndex

\* Every commit of _upsert_document and _apply_chunk_plan publishes one
\* version, amends the live one, or changes nothing: a write that reports
\* success is never lost and the index never serves an older version.
ImplementsDocument == Abstract!VdSpec
=============================================================================
