--------------------------- MODULE SessionReceipts ---------------------------
(***************************************************************************)
(* The upload door of one agent session (kb/session_receipts.py): batches  *)
(* of protocol 2 and 3 are accepted once, in order, into the session's one *)
(* stream; protocol-1 batches are fenced off from it.  A request asks for  *)
(* its answer twice: first without the session lock, to spare a refused    *)
(* batch the scrub, then under the lock that the write transaction holds.  *)
(*                                                                         *)
(* A batch stands for its canonical payload, so two batches have the same  *)
(* body_sha256 exactly when they are equal.  The byte, line and event      *)
(* cursors move together and are one number here.  A prefix digest is a    *)
(* value of its own: the server compares prefixes and never computes them. *)
(* The stored object's key is content-addressed: it is the batch.          *)
(***************************************************************************)
EXTENDS Integers, Sequences, FiniteSets

CONSTANTS
    Requests,   \* request handlers that can be running at once
    Batches,    \* the payloads clients send, each passing validate_payload
    MaxLegacy,  \* bound: protocol-1 batches appended to the queue row
    NoStream, NoSnap, NoRequest, NoBatch,
    EmptyHash   \* sha256 of no bytes

(* What validate_payload lets through. *)
WellFormed(b) ==
    /\ b.protocol \in {2, 3}
    /\ b.seq \in Nat /\ b.from \in Nat /\ b.to \in Nat
    /\ b.from <= b.to
    /\ b.finalize \in BOOLEAN
    /\ b.finalize => b.from = b.to
    /\ b.snap # NoSnap => b.snap.to \in Nat /\ b.snap.to >= b.to

(* Batches of the receipted protocols, and what session_streams holds. *)
Stored == {b \in Batches : b.protocol # 1}
Legacy == Batches \ Stored

StreamRows ==
    [id : {b.stream : b \in Stored}, protocol : {2, 3}, last : Nat, to : Nat,
     prefix : {b.prefix : b \in Stored}, finalized : BOOLEAN, snap : {b.snap : b \in Stored}]

ASSUME ReceiptsAssumption ==
    /\ MaxLegacy \in Nat
    /\ NoRequest \notin Requests
    /\ NoBatch \notin Batches
    /\ NoStream \notin StreamRows
    /\ \A b \in Batches : b.protocol = 1 \/ WellFormed(b)

VARIABLES
    stream,     \* the session_streams row, or NoStream
    receipts,   \* the session_batch_receipts rows
    queue,      \* payload_s3_keys of the ingestion_queue row, <<>> for no row
    objects,    \* the raw objects in storage
    deleted,    \* is the session in session_deletions
    lock,       \* the request inside its write transaction, or NoRequest
    stage,      \* where each request is
    body,       \* the batch of each request
    seen,       \* the stream row as the request's unlocked read found it
    answer      \* the last answer of each request

tables == <<stream, receipts, queue>>
vars == <<tables, objects, deleted, lock, stage, body, seen, answer>>

Stages == {"idle", "ask_deleted", "ask_stream", "ask_legacy", "ask_receipt",
           "scrubbed", "legacy", "storing"}

Init ==
    /\ stream = NoStream
    /\ receipts = {}
    /\ queue = <<>>
    /\ objects = {}
    /\ deleted = FALSE
    /\ lock = NoRequest
    /\ stage = [q \in Requests |-> "idle"]
    /\ body = [q \in Requests |-> NoBatch]
    /\ seen = [q \in Requests |-> NoStream]
    /\ answer = [q \in Requests |-> "none"]

-----------------------------------------------------------------------------
(* What the door answers: _settle, from reads alone *)

(***************************************************************************)
(* The rollout settings at the time of a read: may this customer start     *)
(* protocol 3 (protocol3_enabled), and is SESSION_PROTOCOL2_NEW_STREAMS    *)
(* on.  Operators change them at any time.                                 *)
(***************************************************************************)
Settings == [p3 : BOOLEAN, p2 : BOOLEAN]

(* Protocol 2 is retired only while protocol 3 can take its place. *)
Protocol2Retired(cfg) == ~cfg.p2 /\ cfg.p3

(* The first batch of a session that has no stream. *)
OpenAnswer(b, cfg) ==
    IF queue # <<>> THEN "legacy"
    ELSE IF b.seq # 0 THEN "unknown_stream"
    ELSE IF b.protocol = 3 /\ ~cfg.p3 THEN "protocol3_not_enabled"
    ELSE IF b.protocol = 2 /\ Protocol2Retired(cfg) THEN "protocol2_retired"
    ELSE "open"

(* The row _settle assumes, and accept inserts, for a new stream. *)
Fresh(b) ==
    [id |-> b.stream, protocol |-> b.protocol, last |-> -1, to |-> 0,
     prefix |-> EmptyHash, finalized |-> FALSE, snap |-> NoSnap]

Continues(b, s) == b.seq = s.last + 1 /\ b.from = s.to

SnapshotChanged(b, s) == s.snap # NoSnap /\ ~s.finalized /\ b.snap # s.snap

SnapshotBroken(b) ==
    /\ b.snap # NoSnap
    /\ \/ b.finalize /\ b.to # b.snap.to
       \/ b.to = b.snap.to /\ b.prefix # b.snap.prefix

Owner(b, s) == s.id = b.stream

(* Variant: only the sequence number has to continue the stream. *)
ContinuesBySeq(b, s) ==
    IF ~Owner(b, s) THEN "other_stream"
    ELSE IF s.protocol # b.protocol THEN "protocol_mismatch"
    ELSE IF \E p \in receipts : p.seq = b.seq THEN
        IF b \in receipts THEN "duplicate" ELSE "different_content"
    ELSE IF b.seq # s.last + 1 THEN "not_next"
    ELSE IF b.finalize /\ b.prefix # s.prefix THEN "prefix_differs"
    ELSE IF SnapshotChanged(b, s) \/ SnapshotBroken(b) THEN "snapshot"
    ELSE "store"

(* A batch for the stream row s. *)
StreamAnswer(b, s) ==
    IF ~Owner(b, s) THEN "other_stream"
    ELSE IF s.protocol # b.protocol THEN "protocol_mismatch"
    ELSE IF \E p \in receipts : p.seq = b.seq THEN
        IF b \in receipts THEN "duplicate" ELSE "different_content"
    ELSE IF ~Continues(b, s) THEN "not_next"
    ELSE IF b.finalize /\ b.prefix # s.prefix THEN "prefix_differs"
    ELSE IF SnapshotChanged(b, s) \/ SnapshotBroken(b) THEN "snapshot"
    ELSE "store"

Settle(b, cfg) ==
    IF deleted THEN "deleted"
    ELSE IF stream # NoStream THEN StreamAnswer(b, stream)
    ELSE IF OpenAnswer(b, cfg) # "open" THEN OpenAnswer(b, cfg)
    ELSE StreamAnswer(b, Fresh(b))

-----------------------------------------------------------------------------
(* One request *)

Answer(q, a) ==
    /\ stage' = [stage EXCEPT ![q] = "idle"]
    /\ answer' = [answer EXCEPT ![q] = a]
    /\ body' = [body EXCEPT ![q] = NoBatch]
    /\ seen' = [seen EXCEPT ![q] = NoStream]

Goto(q, s) ==
    /\ stage' = [stage EXCEPT ![q] = s]
    /\ UNCHANGED <<answer, body, seen>>

(***************************************************************************)
(* A client sends, or sends again, any batch.  While its source is         *)
(* disconnected the request ends here and leaves no trace.                 *)
(***************************************************************************)
Receive(q, b) ==
    /\ stage[q] = "idle"
    /\ stage' = [stage EXCEPT ![q] = IF b \in Stored THEN "ask_deleted" ELSE "legacy"]
    /\ body' = [body EXCEPT ![q] = b]
    /\ answer' = [answer EXCEPT ![q] = "none"]
    /\ UNCHANGED <<tables, objects, deleted, lock, seen>>

(* The unlocked pass is a series of reads, each of what is committed then. *)
AskDeleted(q) ==
    /\ stage[q] = "ask_deleted"
    /\ IF deleted THEN Answer(q, "deleted") ELSE Goto(q, "ask_stream")
    /\ UNCHANGED <<tables, objects, deleted, lock>>

AskStream(q) ==
    /\ stage[q] = "ask_stream"
    /\ seen' = [seen EXCEPT ![q] = stream]
    /\ stage' = [stage EXCEPT ![q] =
         IF stream = NoStream THEN "ask_legacy" ELSE "ask_receipt"]
    /\ UNCHANGED <<tables, objects, deleted, lock, body, answer>>

AskLegacy(q) ==
    /\ stage[q] = "ask_legacy"
    /\ \E cfg \in Settings :
         LET a == OpenAnswer(body[q], cfg)
         IN  IF a # "open" THEN Answer(q, a)
             ELSE /\ seen' = [seen EXCEPT ![q] = Fresh(body[q])]
                  /\ stage' = [stage EXCEPT ![q] = "ask_receipt"]
                  /\ UNCHANGED <<body, answer>>
    /\ UNCHANGED <<tables, objects, deleted, lock>>

AskReceipt(q) ==
    /\ stage[q] = "ask_receipt"
    /\ LET a == StreamAnswer(body[q], seen[q])
       IN  IF a = "store"
           THEN /\ stage' = [stage EXCEPT ![q] = "scrubbed"]
                /\ seen' = [seen EXCEPT ![q] = NoStream]
                /\ UNCHANGED <<body, answer>>
           ELSE Answer(q, a)
    /\ UNCHANGED <<tables, objects, deleted, lock>>

(* Take the session lock, ask again, and write the object. *)
Store(q) ==
    /\ stage[q] = "scrubbed"
    /\ lock = NoRequest
    /\ \E cfg \in Settings :
         LET a == Settle(body[q], cfg)
         IN  IF a = "store" THEN /\ Goto(q, "storing")
                                 /\ lock' = q
                                 /\ objects' = objects \cup {body[q]}
             ELSE Answer(q, a) /\ UNCHANGED <<lock, objects>>
    /\ UNCHANGED <<tables, deleted>>

(* The stream row after batch b. *)
Advanced(b) ==
    [id |-> IF stream = NoStream THEN b.stream ELSE stream.id,
     protocol |-> IF stream = NoStream THEN b.protocol ELSE stream.protocol,
     last |-> b.seq, to |-> b.to, prefix |-> b.prefix,
     finalized |-> b.finalize, snap |-> b.snap]

(* Queue row, receipt and stream row commit together and free the lock. *)
Commit(q) ==
    /\ stage[q] = "storing"
    /\ queue' = Append(queue, body[q])
    /\ receipts' = receipts \cup {body[q]}
    /\ stream' = Advanced(body[q])
    /\ lock' = NoRequest
    /\ Answer(q, "accepted")
    /\ UNCHANGED <<objects, deleted>>

(* Variant: the protocol-1 door does not look for a stream. *)
LegacyAnswerUnfenced == IF deleted THEN "deleted" ELSE "store"

LegacyAnswer ==
    IF deleted THEN "deleted"
    ELSE IF stream # NoStream THEN "upgrade"
    ELSE "store"

(* accept_legacy: object and queue row, under the same lock. *)
AcceptLegacy(q) ==
    /\ stage[q] = "legacy"
    /\ lock = NoRequest
    /\ IF LegacyAnswer = "store"
       THEN /\ Len(queue) < MaxLegacy
            /\ objects' = objects \cup {body[q]}
            /\ queue' = Append(queue, body[q])
            /\ Answer(q, "accepted")
       ELSE Answer(q, LegacyAnswer) /\ UNCHANGED <<objects, queue>>
    /\ UNCHANGED <<stream, receipts, deleted, lock>>

(* The handler dies: its transaction rolls back, what it stored stays. *)
Crash(q) ==
    /\ stage[q] # "idle"
    /\ Answer(q, "none")
    /\ lock' = IF lock = q THEN NoRequest ELSE lock
    /\ UNCHANGED <<tables, objects, deleted>>

-----------------------------------------------------------------------------
(* Around the door *)

(* record_sessions: the deletion is recorded under the session lock. *)
RecordDeletion ==
    /\ ~deleted
    /\ lock = NoRequest
    /\ deleted' = TRUE
    /\ UNCHANGED <<tables, objects, lock, stage, body, seen, answer>>

(* The erase that follows a recorded deletion takes rows and objects away. *)
EraseSession ==
    /\ deleted
    /\ lock = NoRequest
    /\ stream' = NoStream /\ receipts' = {} /\ queue' = <<>>
    /\ objects' = {}
    /\ UNCHANGED <<deleted, lock, stage, body, seen, answer>>

Step(q) ==
    \/ AskDeleted(q) \/ AskStream(q) \/ AskLegacy(q) \/ AskReceipt(q)
    \/ Store(q) \/ Commit(q) \/ AcceptLegacy(q)

Next ==
    \/ \E q \in Requests : (\E b \in Batches : Receive(q, b)) \/ Step(q) \/ Crash(q)
    \/ RecordDeletion \/ EraseSession

Spec == Init /\ [][Next]_vars

(* Handlers run; a request waiting for the lock gets it in its turn. *)
FairSpec == Spec /\ \A q \in Requests : SF_vars(Step(q))

-----------------------------------------------------------------------------

(* Every variable keeps its shape. *)
TypeOK ==
    /\ stream = NoStream \/ stream \in StreamRows
    /\ receipts \subseteq Stored
    /\ queue \in Seq(Batches)
    /\ objects \subseteq Batches
    /\ deleted \in BOOLEAN
    /\ lock \in Requests \cup {NoRequest}
    /\ stage \in [Requests -> Stages]
    /\ body \in [Requests -> Batches \cup {NoBatch}]

(***************************************************************************)
(* The receipts of a session form one gap-free chain: sequence numbers 0   *)
(* to last_seq, each once, each batch starting where the one before it     *)
(* ended, and the stream row agrees with the last (_settle's cursor check  *)
(* with concurrent retries, crashes and rejected batches).                 *)
(***************************************************************************)
ReceiptChain ==
    IF stream = NoStream THEN receipts = {}
    ELSE /\ \A n \in 0..stream.last : \E b \in receipts : b.seq = n
         /\ \A b \in receipts : b.seq <= stream.last
         /\ \A b, c \in receipts :
              /\ b.seq = c.seq => b = c
              /\ c.seq = b.seq + 1 => c.from = b.to
         /\ \A b \in receipts :
              /\ b.seq = 0 => b.from = 0
              /\ b.seq = stream.last =>
                   stream.to = b.to /\ stream.prefix = b.prefix

(***************************************************************************)
(* What the worker reads is what was acknowledged: the queue row of a      *)
(* session with a stream lists the receipted batches in sequence order,    *)
(* each once, and nothing of a protocol-1 producer; a session without one  *)
(* lists protocol-1 batches only (the two-way fence of _legacy_exists and  *)
(* reject_legacy_writer).                                                  *)
(***************************************************************************)
QueueFollowsReceipts ==
    IF stream = NoStream THEN \A i \in DOMAIN queue : queue[i] \in Legacy
    ELSE /\ Len(queue) = stream.last + 1
         /\ \A i \in DOMAIN queue : queue[i] \in receipts /\ queue[i].seq = i - 1

(***************************************************************************)
(* Every key in the queue row names a stored object, whatever crashed      *)
(* between the object write and the commit (accept writes the object       *)
(* before its transaction commits).                                        *)
(***************************************************************************)
QueuedIsStored == \A i \in DOMAIN queue : queue[i] \in objects

(***************************************************************************)
(* A finalized stream that declared a historical snapshot has accepted     *)
(* exactly that snapshot: its cursor is at the snapshot's end and its      *)
(* prefix digest is the snapshot's (the snapshot checks of _settle).       *)
(***************************************************************************)
SnapshotCertified ==
    stream # NoStream /\ stream.finalized /\ stream.snap # NoSnap
        => stream.to = stream.snap.to /\ stream.prefix = stream.snap.prefix

(***************************************************************************)
(* An open stream is pinned: no batch changes its id or its protocol or    *)
(* moves its cursor back, whatever the settings become (accept).           *)
(***************************************************************************)
StreamPinned ==
    [][stream # NoStream /\ stream' # NoStream =>
         /\ stream'.id = stream.id /\ stream'.protocol = stream.protocol
         /\ stream'.to >= stream.to /\ stream'.last >= stream.last
         /\ \A b \in receipts' \ receipts : b.stream = stream.id]_vars

(***************************************************************************)
(* Once a deletion is recorded no request in flight stores an object or    *)
(* adds a batch, a receipt or a stream (refuse_deleted under the lock).    *)
(***************************************************************************)
DeletedTakesNothing ==
    [][deleted => /\ objects' \subseteq objects
                  /\ receipts' \subseteq receipts
                  /\ Len(queue') <= Len(queue)
                  /\ stream = NoStream => stream' = NoStream]_vars

=============================================================================
