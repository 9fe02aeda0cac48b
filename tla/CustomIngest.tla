---------------------------- MODULE CustomIngest ----------------------------
(***************************************************************************)
(* Custom ingest of one document: the push door                            *)
(* (engine/ingest/custom_ingest_routes.py), the queue rows it writes, and  *)
(* the passes that plan the document's chunks and apply the row under the  *)
(* per-document advisory lock (engine/ingest/normalizer.py).               *)
(*                                                                         *)
(* Documents share no lock, queue key or chunk, so one document is         *)
(* modelled.  A push is represented by the end state it asks for: a        *)
(* content, or Deleted.  Two pushes of the same entry have the same        *)
(* content hash, hence the same queue key.  The row lifecycle is the one   *)
(* of module IngestionQueue with its attempt budget left open: a failing   *)
(* pass returns its row to the line or dead-letters it.                    *)
(***************************************************************************)
EXTENDS Integers

CONSTANTS
    Contents,   \* the bodies the source can hold
    Deleted,    \* the tombstone entry
    Chunks,     \* chunk content hashes
    ChunksOf,   \* the chunks each entry is cut into
    Workers,    \* claim loops, over all worker processes
    Relay,      \* the client that pushes every change of the source
    Reconciler, \* the client that pushes again what the index lacks
    NoRow,      \* what an idle claim loop holds
    EmbedFails, \* may the embedder return a chunk without a vector
    MaxRows,    \* bound: queue ids handed out
    MaxChanges, \* bound: changes of the source
    MaxFaults   \* bound: failed requests and passes, deaths and lapses

Entries == Contents \cup {Deleted}
Clients == {Relay, Reconciler}
Ids == 1..MaxRows

ASSUME CustomIngestAssumption ==
    /\ MaxRows \in Nat \ {0}
    /\ MaxChanges \in Nat
    /\ MaxFaults \in Nat
    /\ EmbedFails \in BOOLEAN
    /\ Deleted \notin Contents
    /\ NoRow \notin Ids
    /\ ChunksOf \in [Entries -> SUBSET Chunks]
    /\ ChunksOf[Deleted] = {}

(* LIVE_CHUNK_LAST_SEEN, the open end of a live chunk's version range. *)
Open == MaxRows + 1

VARIABLES
    (* the source of truth, and its two clients' requests at the door *)
    desired, changes,
    at,       \* the next step of a client's request, "none" without one
    push,     \* the entry it carries
    (* ingestion_queue, by queue_id *)
    status, entry, nextId,
    faults,   \* how many things have gone wrong
    (* the passes *)
    stage, row,
    reused,   \* _ChunkPlan.reused_content_hashes
    unembedded, \* _ChunkPlan.failed_pieces
    planned,  \* history: the document version the plan was diffed against
    (* documents: the version whose valid_to is NULL, 0 for no document *)
    ver, live,
    seq,      \* metadata[_CI_QUEUE_SEQ_KEY]
    base,     \* history: the version its chunk plan was diffed against
    (* chunks and failed_chunks *)
    open,     \* the chunks whose valid_to is NULL
    first, last, failed

sourceVars == <<desired, changes>>
doorVars == <<at, push>>
queueVars == <<status, entry, nextId>>
planVars == <<reused, unembedded, planned>>
passVars == <<stage, row, planVars>>
docVars == <<ver, live, seq, base>>
chunkVars == <<open, first, last, failed>>
vars == <<sourceVars, doorVars, queueVars, faults, passVars, docVars, chunkVars>>

Steps == {"none", "insert", "check", "retire", "reinsert"}
Statuses == {"absent", "pending", "processing", "done", "dlq", "retired"}
Stages == {"idle", "claimed", "planned", "applied"}

Init ==
    /\ desired = Deleted /\ changes = 0
    /\ at = [c \in Clients |-> "none"]
    /\ push = [c \in Clients |-> Deleted]
    /\ status = [q \in Ids |-> "absent"]
    /\ entry = [q \in Ids |-> Deleted]
    /\ nextId = 1 /\ faults = 0
    /\ stage = [w \in Workers |-> "idle"]
    /\ row = [w \in Workers |-> NoRow]
    /\ reused = [w \in Workers |-> {}]
    /\ unembedded = [w \in Workers |-> {}]
    /\ planned = [w \in Workers |-> 0]
    /\ ver = 0 /\ live = Deleted /\ seq = 0 /\ base = 0
    /\ open = {} /\ failed = {}
    /\ first = [c \in Chunks |-> 0]
    /\ last = [c \in Chunks |-> 0]

(* One more thing goes wrong. *)
Fault ==
    /\ faults < MaxFaults
    /\ faults' = faults + 1

-----------------------------------------------------------------------------
(* The source of truth and its clients *)

Request(c, e) ==
    /\ at[c] = "none"
    /\ at' = [at EXCEPT ![c] = "insert"]
    /\ push' = [push EXCEPT ![c] = e]
    /\ UNCHANGED <<queueVars, faults, passVars, docVars, chunkVars>>

(* The source changes and its relay pushes the change, one at a time. *)
Change(e) ==
    /\ changes < MaxChanges
    /\ e # desired
    /\ desired' = e
    /\ changes' = changes + 1
    /\ Request(Relay, e)

(***************************************************************************)
(* One diff cycle of the reconciler: the enumeration endpoint reports the  *)
(* live version's content hash and tombstone flag, and what differs from   *)
(* the source is pushed again.                                             *)
(***************************************************************************)
Reconcile ==
    /\ live # desired
    /\ Request(Reconciler, desired)
    /\ UNCHANGED sourceVars

-----------------------------------------------------------------------------
(* The door: each step is a statement on a connection of its own *)

Answer(c) ==
    /\ at' = [at EXCEPT ![c] = "none"]
    /\ push' = [push EXCEPT ![c] = Deleted]

(* The dedupe key holds the content hash: one row per entry at a time. *)
Enqueued(e) ==
    \E q \in Ids : entry[q] = e /\ status[q] \in {"pending", "processing", "done", "dlq"}

(* _ENQUEUE_SQL where no row has the key: a row under a fresh queue_id. *)
InsertRow(e) ==
    /\ nextId \in Ids
    /\ status' = [status EXCEPT ![nextId] = "pending"]
    /\ entry' = [entry EXCEPT ![nextId] = e]
    /\ nextId' = nextId + 1

EnqueueNew(c) ==
    /\ at[c] = "insert"
    /\ ~Enqueued(push[c])
    /\ InsertRow(push[c])
    /\ Answer(c)
    /\ UNCHANGED <<sourceVars, faults, passVars, docVars, chunkVars>>

(* ON CONFLICT DO NOTHING: a dedupe hit. *)
EnqueueConflict(c) ==
    /\ at[c] = "insert"
    /\ Enqueued(push[c])
    /\ at' = [at EXCEPT ![c] = "check"]
    /\ UNCHANGED <<sourceVars, push, queueVars, faults, passVars, docVars, chunkVars>>

(* Without a document live is Deleted: there is nothing left to delete. *)
LiveStateMatches(e) == live = e

(* Variant: a dedupe hit is answered without a look at the live version. *)
AnswerDuplicate(c) ==
    /\ at[c] = "check"
    /\ Answer(c)
    /\ UNCHANGED <<sourceVars, queueVars, faults, passVars, docVars, chunkVars>>

CheckLive(c) ==
    /\ at[c] = "check"
    /\ IF LiveStateMatches(push[c])
       THEN Answer(c)
       ELSE at' = [at EXCEPT ![c] = "retire"] /\ UNCHANGED push
    /\ UNCHANGED <<sourceVars, queueVars, faults, passVars, docVars, chunkVars>>

Retirable(q, e) == entry[q] = e /\ status[q] \in {"done", "dlq"}

(* The DELETE of the terminal row; rows in flight are left to converge. *)
Retire(c) ==
    /\ at[c] = "retire"
    /\ IF \E q \in Ids : Retirable(q, push[c])
       THEN /\ status' = [q \in Ids |->
                 IF Retirable(q, push[c]) THEN "retired" ELSE status[q]]
            /\ at' = [at EXCEPT ![c] = "reinsert"]
            /\ UNCHANGED push
       ELSE Answer(c) /\ UNCHANGED status
    /\ UNCHANGED <<sourceVars, entry, nextId, faults, passVars, docVars, chunkVars>>

(* The fresh row, unless an identical push got there between the two. *)
Reenqueue(c) ==
    /\ at[c] = "reinsert"
    /\ IF Enqueued(push[c])
       THEN UNCHANGED queueVars
       ELSE InsertRow(push[c])
    /\ Answer(c)
    /\ UNCHANGED <<sourceVars, faults, passVars, docVars, chunkVars>>

(* The request ends in an error between two statements; the client retries. *)
PushFails(c) ==
    /\ at[c] \in {"check", "retire", "reinsert"}
    /\ Fault
    /\ at' = [at EXCEPT ![c] = "insert"]
    /\ UNCHANGED <<sourceVars, push, queueVars, passVars, docVars, chunkVars>>

(* The row is in but the answer is lost: the client sends the push again. *)
PushUnanswered(c) ==
    /\ at[c] \in {"insert", "reinsert"}
    /\ ~Enqueued(push[c])
    /\ Fault
    /\ InsertRow(push[c])
    /\ at' = [at EXCEPT ![c] = "insert"]
    /\ UNCHANGED <<sourceVars, push, passVars, docVars, chunkVars>>

-----------------------------------------------------------------------------
(* The passes *)

Claim(w, q) ==
    /\ stage[w] = "idle"
    /\ status[q] = "pending"
    /\ status' = [status EXCEPT ![q] = "processing"]
    /\ stage' = [stage EXCEPT ![w] = "claimed"]
    /\ row' = [row EXCEPT ![w] = q]
    /\ UNCHANGED <<sourceVars, doorVars, entry, nextId, faults, planVars, docVars, chunkVars>>

(***************************************************************************)
(* _plan_chunks: the live chunks are read in a short transaction that is   *)
(* closed before the embedder is called for the chunks not among them.     *)
(***************************************************************************)
Plan(w) ==
    /\ stage[w] = "claimed"
    /\ LET pieces == ChunksOf[entry[row[w]]]
       IN  /\ reused' = [reused EXCEPT ![w] = pieces \cap open]
           /\ \E lost \in SUBSET (pieces \ open) :
                /\ lost # {} => EmbedFails
                /\ unembedded' = [unembedded EXCEPT ![w] = lost]
    /\ planned' = [planned EXCEPT ![w] = ver]
    /\ stage' = [stage EXCEPT ![w] = "planned"]
    /\ UNCHANGED <<sourceVars, doorVars, queueVars, faults, row, docVars, chunkVars>>

Added(w) == ChunksOf[entry[row[w]]] \ (reused[w] \cup unembedded[w])
Kept(w) == reused[w] \cup unembedded[w] \cup Added(w)

(* Variant: step 3 is left out. *)
ApplyWithoutRetiring(w) ==
    /\ open' = open \cup Added(w)
    /\ first' = [c \in Chunks |-> IF c \in Added(w) /\ first[c] = 0 THEN ver + 1 ELSE first[c]]
    /\ last' = [c \in Chunks |-> IF c \in Added(w) THEN Open ELSE last[c]]
    /\ failed' = failed \cup unembedded[w]

(* Variant: a chunk that was stored before is not reopened. *)
ApplyWithoutRevival(w) ==
    LET fresh == {c \in Added(w) : first[c] = 0}
    IN  /\ open' = (open \cap Kept(w)) \cup fresh
        /\ first' = [c \in Chunks |-> IF c \in fresh THEN ver + 1 ELSE first[c]]
        /\ last' = [c \in Chunks |->
             IF c \in fresh THEN Open ELSE IF c \in open \ Kept(w) THEN ver ELSE last[c]]
        /\ failed' = failed \cup unembedded[w]

(***************************************************************************)
(* _apply_chunk_plan for the version after ver: a reused chunk is written  *)
(* only where it is live, an added one is inserted or reopened, and every  *)
(* live chunk the version does not keep is closed, its range capped.       *)
(***************************************************************************)
ApplyChunkPlan(w) ==
    /\ open' = (open \cap Kept(w)) \cup Added(w)
    /\ first' = [c \in Chunks |-> IF c \in Added(w) /\ first[c] = 0 THEN ver + 1 ELSE first[c]]
    /\ last' = [c \in Chunks |->
         IF c \in Added(w) THEN Open
         ELSE IF c \in open \ Kept(w) /\ last[c] > ver THEN ver ELSE last[c]]
    /\ failed' = failed \cup unembedded[w]

(* Variant: rows apply in whatever order their passes get to the lock. *)
AdmitAny(q) == TRUE

(* _admit_ordered_write: an equal or newer row has not been applied. *)
AdmitOrderedWrite(q) == seq < q

(* _upsert_document: the live version already has this content. *)
Unchanged(e) == ver # 0 /\ live = e /\ e # Deleted

(***************************************************************************)
(* The write transaction of _persist, one at a time under the document's   *)
(* advisory lock.  A stale row and an unchanged content write nothing, the *)
(* sequence stamp included.                                                *)
(***************************************************************************)
Apply(w) ==
    /\ stage[w] = "planned"
    /\ LET q == row[w]
           e == entry[q]
       IN  IF AdmitOrderedWrite(q) /\ ~Unchanged(e)
           THEN /\ ver' = ver + 1
                /\ live' = e
                /\ seq' = q
                /\ base' = planned[w]
                /\ ApplyChunkPlan(w)
           ELSE UNCHANGED <<docVars, chunkVars>>
    /\ stage' = [stage EXCEPT ![w] = "applied"]
    /\ UNCHANGED <<sourceVars, doorVars, queueVars, faults, row, planVars>>

Idle(w) ==
    /\ stage' = [stage EXCEPT ![w] = "idle"]
    /\ row' = [row EXCEPT ![w] = NoRow]
    /\ reused' = [reused EXCEPT ![w] = {}]
    /\ unembedded' = [unembedded EXCEPT ![w] = {}]
    /\ planned' = [planned EXCEPT ![w] = 0]

(* An UPDATE by queue_id: a retired row is no longer there to be found. *)
SetStatus(q, s) ==
    status' = [status EXCEPT ![q] = IF @ = "retired" THEN @ ELSE s]

(* The version of a one-shot row never moves: the commit always finds it. *)
MarkDone(w) ==
    /\ stage[w] = "applied"
    /\ SetStatus(row[w], "done")
    /\ Idle(w)
    /\ UNCHANGED <<sourceVars, doorVars, entry, nextId, faults, docVars, chunkVars>>

(* The pass raises before or after its write: retry or dead-letter. *)
OnError(w, s) ==
    /\ stage[w] # "idle"
    /\ Fault
    /\ SetStatus(row[w], s)
    /\ Idle(w)
    /\ UNCHANGED <<sourceVars, doorVars, entry, nextId, docVars, chunkVars>>

(* The worker process dies; its row stays "processing". *)
Die(w) ==
    /\ stage[w] # "idle"
    /\ Fault
    /\ Idle(w)
    /\ UNCHANGED <<sourceVars, doorVars, queueVars, docVars, chunkVars>>

(* The reclaim loop returns a row whose pass is gone to the line. *)
Reclaim(q) ==
    /\ status[q] = "processing"
    /\ \A w \in Workers : row[w] # q
    /\ status' = [status EXCEPT ![q] = "pending"]
    /\ UNCHANGED <<sourceVars, doorVars, entry, nextId, faults, passVars, docVars, chunkVars>>

(* Or one whose pass is alive but has missed its heartbeats. *)
Lapse(q) ==
    /\ status[q] = "processing"
    /\ \E w \in Workers : row[w] = q
    /\ Fault
    /\ status' = [status EXCEPT ![q] = "pending"]
    /\ UNCHANGED <<sourceVars, doorVars, entry, nextId, passVars, docVars, chunkVars>>

-----------------------------------------------------------------------------
DoorStep(c) ==
    \/ EnqueueNew(c)
    \/ EnqueueConflict(c)
    \/ CheckLive(c)
    \/ Retire(c)
    \/ Reenqueue(c)

WorkerStep(w) ==
    \/ \E q \in Ids : Claim(w, q)
    \/ Plan(w)
    \/ Apply(w)
    \/ MarkDone(w)

Next ==
    \/ \E e \in Entries : Change(e)
    \/ Reconcile
    \/ \E c \in Clients : DoorStep(c) \/ PushFails(c) \/ PushUnanswered(c)
    \/ \E w \in Workers :
         \/ WorkerStep(w)
         \/ \E s \in {"pending", "dlq"} : OnError(w, s)
         \/ Die(w)
    \/ \E q \in Ids : Reclaim(q) \/ Lapse(q)

Spec == Init /\ [][Next]_vars

(***************************************************************************)
(* Fairness.  Requests run to their answer, the reconciler diffs for ever, *)
(* the claim loops poll and their passes run, the reclaim loop ticks; and  *)
(* faults are finitely many (MaxFaults), so weak fairness is enough.       *)
(***************************************************************************)
Fairness ==
    /\ WF_vars(Reconcile)
    /\ \A c \in Clients : WF_vars(DoorStep(c))
    /\ \A w \in Workers : WF_vars(WorkerStep(w))
    /\ \A q \in Ids : WF_vars(Reclaim(q))

FairSpec == Spec /\ Fairness

-----------------------------------------------------------------------------
(* Every variable keeps its shape. *)
TypeOK ==
    /\ desired \in Entries /\ changes \in 0..MaxChanges
    /\ at \in [Clients -> Steps]
    /\ push \in [Clients -> Entries]
    /\ status \in [Ids -> Statuses]
    /\ entry \in [Ids -> Entries]
    /\ nextId \in 1..(MaxRows + 1)
    /\ faults \in 0..MaxFaults
    /\ stage \in [Workers -> Stages]
    /\ row \in [Workers -> Ids \cup {NoRow}]
    /\ \A w \in Workers : stage[w] # "idle" => row[w] \in Ids
    /\ reused \in [Workers -> SUBSET Chunks]
    /\ unembedded \in [Workers -> SUBSET Chunks]
    /\ planned \in [Workers -> Nat]
    /\ ver \in Nat /\ live \in Entries /\ seq \in 0..MaxRows /\ base \in Nat
    /\ open \in SUBSET Chunks /\ failed \in SUBSET Chunks
    /\ first \in [Chunks -> Nat]
    /\ last \in [Chunks -> Nat]

(***************************************************************************)
(* Nothing the live version does not contain is served: no chunk of an     *)
(* older version, of a deleted document or of a rival pass stays live      *)
(* (step 3 of _apply_chunk_plan retires by the kept set).                  *)
(***************************************************************************)
NothingStaleServed == open \subseteq ChunksOf[live]

(***************************************************************************)
(* The two liveness markers of a chunk agree: it is open exactly when the  *)
(* live version lies in its [first_seen, last_seen] range, which is what   *)
(* the version join of a query without the valid_to predicate reads.       *)
(***************************************************************************)
MarkersAgree ==
    \A c \in Chunks :
        c \in open <=> first[c] # 0 /\ first[c] <= ver /\ ver <= last[c]

(***************************************************************************)
(* All of the live version is served: each of its chunks is live, or is    *)
(* recorded in failed_chunks (_apply_chunk_plan applies the whole plan).   *)
(***************************************************************************)
LiveIsServed == ChunksOf[live] \subseteq open \cup failed

(***************************************************************************)
(* The same whenever the plan was diffed against the version it replaced,  *)
(* that is, when no other pass wrote the document between _plan_chunks and *)
(* the write transaction.                                                  *)
(***************************************************************************)
FreshPlanIsServed == base + 1 = ver => LiveIsServed

(***************************************************************************)
(* A finished delete is undone by newer rows only: no older push still in  *)
(* line, replayed or reclaimed brings the document back                    *)
(* (_admit_ordered_write; a tombstone always stamps its sequence).         *)
(***************************************************************************)
DeleteSticks ==
    \A q \in Ids :
        status[q] = "done" /\ entry[q] = Deleted /\ seq <= q => live = Deleted

(***************************************************************************)
(* Once the source stops changing, the index comes to hold its state for   *)
(* good: no dedupe hit, stale skip, dead letter or failed request leaves   *)
(* it apart for ever (_retire_and_reenqueue and the reconciler's diff).    *)
(***************************************************************************)
Converges == <>[](live = desired)

=============================================================================
