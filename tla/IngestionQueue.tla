--------------------------- MODULE IngestionQueue ---------------------------
(***************************************************************************)
(* The ingestion queue (table ingestion_queue) and the worker loops that   *)
(* drain it: engine/ingest/worker.py, the enqueue doors of                 *)
(* kb/ingestion_app.py and kb/session_receipts.py, the reclaim loop and    *)
(* the dead-letter replay of kb/admin_routes.py.                           *)
(*                                                                         *)
(* A row's payload_s3_keys array only ever grows at its end, so it is      *)
(* represented by its length: a pass that captured length n read exactly   *)
(* the first n keys.  The live document a pass writes is represented by    *)
(* the number of keys it was built from.  Wall-clock heartbeats are        *)
(* abstracted to "null", "fresh" (younger than the reclaim threshold) and  *)
(* "stale".                                                                *)
(***************************************************************************)
EXTENDS Integers

CONSTANTS
    Sessions,        \* coalescing rows: one per agent session
    Events,          \* one-shot rows of the other connectors
    Workers,         \* claim loops, over all worker processes
    MaxAttempts,     \* Settings.worker_max_attempts
    MaxKeys,         \* bound: batches a producer sends for one row
    HeartbeatLapses, \* may a live pass go a whole threshold without a heartbeat
    LostAcks,        \* may a commit's acknowledgement be lost with its connection
    NoClaim          \* what an idle claim loop holds

ASSUME QueueAssumption ==
    /\ MaxAttempts \in Nat \ {0}
    /\ MaxKeys \in Nat \ {0}
    /\ HeartbeatLapses \in BOOLEAN
    /\ LostAcks \in BOOLEAN
    /\ Sessions \cap Events = {}

VARIABLES
    (* the columns of ingestion_queue *)
    status,    \* "absent" before the row's INSERT
    version,   \* bumped by every batch, compared by every commit
    attempts,  \* claims so far, saturating at MaxAttempts
    keys,      \* length of payload_s3_keys
    error,     \* the error column, by its kind
    heartbeat, \* heartbeat_at
    (* the claim loops *)
    stage,     \* where the pass of loop w is, "idle" when it has none
    claim,     \* the row as _claim_one returned it
    (* the documents table, and history *)
    doc,       \* keys folded into the live document, 0 for none
    reached    \* history: the longest prefix any document write has held

rowVars == <<status, version, attempts, keys, error, heartbeat>>
passVars == <<stage, claim>>
docVars == <<doc, reached>>
vars == <<rowVars, passVars, docVars>>

Rows == Sessions \cup Events

Statuses == {"absent", "pending", "processing", "done", "dlq"}
Errors == {"null", "skipped", "transient", "permanent", "reclaimed"}
Heartbeats == {"null", "fresh", "stale"}
Stages == {"idle", "normalizing", "persisted", "skipping", "failing",
           "failing_permanent", "failing_again", "releasing", "releasing_again"}

Claims == [row : Rows, version : Nat, keys : 0..MaxKeys, attempts : 0..MaxAttempts]

(* attempts is only ever compared with MaxAttempts: it saturates there. *)
Bump(n) == IF n < MaxAttempts THEN n + 1 ELSE n

(* A claim loop runs a heartbeat task for as long as it holds a row. *)
HeldBy(r) == {w \in Workers : stage[w] # "idle" /\ claim[w].row = r}

Init ==
    /\ status = [r \in Rows |-> "absent"]
    /\ version = [r \in Rows |-> 0]
    /\ attempts = [r \in Rows |-> 0]
    /\ keys = [r \in Rows |-> 0]
    /\ error = [r \in Rows |-> "null"]
    /\ heartbeat = [r \in Rows |-> "null"]
    /\ stage = [w \in Workers |-> "idle"]
    /\ claim = [w \in Workers |-> NoClaim]
    /\ doc = [r \in Rows |-> 0]
    /\ reached = [r \in Rows |-> 0]

-----------------------------------------------------------------------------
(* Producers *)

(***************************************************************************)
(* The session-keyed UPSERT: append the key, bump version, and put the row *)
(* back in line unless a worker is on it.  attempts and the heartbeat are  *)
(* not part of the SET list.                                               *)
(***************************************************************************)
EnqueueSession(r) ==
    /\ keys[r] < MaxKeys
    /\ status' = [status EXCEPT ![r] = IF @ = "processing" THEN @ ELSE "pending"]
    /\ version' = [version EXCEPT ![r] = @ + 1]
    /\ keys' = [keys EXCEPT ![r] = @ + 1]
    /\ error' = [error EXCEPT ![r] = "null"]
    /\ UNCHANGED <<attempts, heartbeat, passVars, docVars>>

(***************************************************************************)
(* The one-shot INSERT, at the column default version 0: ON CONFLICT DO    *)
(* NOTHING drops every redelivery.                                         *)
(***************************************************************************)
EnqueueEvent(r) ==
    /\ status[r] = "absent"
    /\ status' = [status EXCEPT ![r] = "pending"]
    /\ keys' = [keys EXCEPT ![r] = 1]
    /\ UNCHANGED <<version, attempts, error, heartbeat, passVars, docVars>>

(* The operator returns a dead-lettered row to the line with a new budget. *)
ReplayDLQ(r) ==
    /\ status[r] = "dlq"
    /\ status' = [status EXCEPT ![r] = "pending"]
    /\ attempts' = [attempts EXCEPT ![r] = 0]
    /\ error' = [error EXCEPT ![r] = "null"]
    /\ heartbeat' = [heartbeat EXCEPT ![r] = "null"]
    /\ UNCHANGED <<version, keys, passVars, docVars>>

-----------------------------------------------------------------------------
(* One claim loop *)

(***************************************************************************)
(* Claim a pending row.  Which one is left open: the claim order (priority *)
(* tier, then enqueued_at) skips rows another transaction has locked.      *)
(* The captured version and keys are those of the claimed row.             *)
(***************************************************************************)
Claim(w, r) ==
    /\ stage[w] = "idle"
    /\ status[r] = "pending"
    /\ stage' = [stage EXCEPT ![w] = "normalizing"]
    /\ claim' = [claim EXCEPT ![w] =
         [row |-> r, version |-> version[r], keys |-> keys[r],
          attempts |-> Bump(attempts[r])]]
    /\ status' = [status EXCEPT ![r] = "processing"]
    /\ attempts' = [attempts EXCEPT ![r] = Bump(@)]
    /\ heartbeat' = [heartbeat EXCEPT ![r] = "fresh"]
    /\ UNCHANGED <<version, keys, error, docVars>>

(* The loop moves on to its next claim. *)
Idle(w) ==
    /\ stage' = [stage EXCEPT ![w] = "idle"]
    /\ claim' = [claim EXCEPT ![w] = NoClaim]

(***************************************************************************)
(* The normalizer's write transaction: the live document becomes the one   *)
(* built from the captured keys, whatever is live at that moment.          *)
(***************************************************************************)
Persist(w) ==
    /\ stage[w] = "normalizing"
    /\ LET r == claim[w].row
           n == claim[w].keys
       IN  /\ doc' = [doc EXCEPT ![r] = n]
           /\ reached' = [reached EXCEPT ![r] = IF n > @ THEN n ELSE @]
    /\ stage' = [stage EXCEPT ![w] = "persisted"]
    /\ UNCHANGED <<rowVars, claim>>

(* DuplicateEventIgnored or UnsupportedEventType: nothing to write. *)
Ignore(w) ==
    /\ stage[w] = "normalizing"
    /\ stage' = [stage EXCEPT ![w] = "skipping"]
    /\ UNCHANGED <<rowVars, claim, docVars>>

(***************************************************************************)
(* The pass raises.  A PrbeError carries its own transient flag, any other *)
(* exception counts as transient.  It can raise before the document write  *)
(* commits, or (as transient) after it, when the finishing statement       *)
(* fails.                                                                  *)
(***************************************************************************)
Raise(w, kind) ==
    /\ \/ stage[w] = "normalizing"
       \/ stage[w] \in {"persisted", "skipping"} /\ kind = "failing"
    /\ stage' = [stage EXCEPT ![w] = kind]
    /\ UNCHANGED <<rowVars, claim, docVars>>

(* Variant: the finishing UPDATE checks the status and not the version. *)
StatusHeld(w) == status[claim[w].row] = "processing"

(* The finishing UPDATE is a compare-and-set on the captured version only. *)
VersionHeld(w) == version[claim[w].row] = claim[w].version

(* The release after a missed compare-and-set, guarded on the status only. *)
Release(r) ==
    IF status[r] = "processing"
    THEN /\ status' = [status EXCEPT ![r] = "pending"]
         /\ heartbeat' = [heartbeat EXCEPT ![r] = "null"]
         /\ UNCHANGED <<version, attempts, keys, error>>
    ELSE UNCHANGED rowVars

(* _mark_done and _mark_skipped: one transaction, hit or miss. *)
Commit(w, reason) ==
    LET r == claim[w].row
    IN  IF VersionHeld(w)
        THEN /\ status' = [status EXCEPT ![r] = "done"]
             /\ error' = [error EXCEPT ![r] = reason]
             /\ UNCHANGED <<version, attempts, keys, heartbeat>>
        ELSE Release(r)

MarkDone(w) ==
    /\ stage[w] = "persisted"
    /\ Commit(w, "null")
    /\ Idle(w)
    /\ UNCHANGED docVars

MarkSkipped(w) ==
    /\ stage[w] = "skipping"
    /\ Commit(w, "skipped")
    /\ Idle(w)
    /\ UNCHANGED docVars

(***************************************************************************)
(* The finishing transaction commits but its acknowledgement is lost with  *)
(* the connection: the pass sees an exception and takes the error path.    *)
(***************************************************************************)
MarkDoneUnacknowledged(w) ==
    /\ LostAcks
    /\ stage[w] = "persisted"
    /\ Commit(w, "null")
    /\ stage' = [stage EXCEPT ![w] = "failing"]
    /\ UNCHANGED <<claim, docVars>>

ErrorKind(w) == IF stage[w] = "failing_permanent" THEN "permanent" ELSE "transient"

Dead(w) == ErrorKind(w) = "permanent" \/ claim[w].attempts >= MaxAttempts

(* _on_error: dead-letter or retry, by the same compare-and-set. *)
OnError(w) ==
    /\ stage[w] \in {"failing", "failing_permanent", "failing_again"}
    /\ LET r == claim[w].row
       IN  IF VersionHeld(w)
           THEN /\ status' = [status EXCEPT ![r] = IF Dead(w) THEN "dlq" ELSE "pending"]
                /\ heartbeat' = [heartbeat EXCEPT ![r] = IF Dead(w) THEN @ ELSE "null"]
                /\ error' = [error EXCEPT ![r] = ErrorKind(w)]
                /\ Idle(w)
                /\ UNCHANGED <<version, attempts, keys>>
           ELSE /\ stage' = [stage EXCEPT ![w] =
                      IF @ = "failing_again" THEN "releasing_again" ELSE "releasing"]
                /\ UNCHANGED <<rowVars, claim>>
    /\ UNCHANGED <<docVars>>

(* The release of _on_error is a second statement, on its own connection. *)
OnErrorRelease(w) ==
    /\ stage[w] \in {"releasing", "releasing_again"}
    /\ Release(claim[w].row)
    /\ Idle(w)
    /\ UNCHANGED <<docVars>>

(* _on_error itself raises: _claim_tick calls it once more, as transient. *)
OnErrorRaises(w) ==
    /\ stage[w] \in {"failing", "failing_permanent", "releasing"}
    /\ stage' = [stage EXCEPT ![w] = "failing_again"]
    /\ UNCHANGED <<rowVars, claim, docVars>>

(***************************************************************************)
(* The pass ends without touching the row: the process is killed, the task *)
(* cancelled by a shutdown, or the database out of reach on both tries of  *)
(* _on_error.  The row stays "processing" and its heartbeat stops.         *)
(***************************************************************************)
Abandon(w) ==
    /\ stage[w] # "idle"
    /\ Idle(w)
    /\ UNCHANGED <<rowVars, docVars>>

-----------------------------------------------------------------------------
(* Heartbeats, time and the reclaim loop *)

(* The heartbeat UPDATE names the queue id alone: no status, no owner. *)
Heartbeat(w) ==
    /\ stage[w] # "idle"
    /\ heartbeat' = [heartbeat EXCEPT ![claim[w].row] = "fresh"]
    /\ UNCHANGED <<status, version, attempts, keys, error, passVars, docVars>>

(***************************************************************************)
(* A whole reclaim threshold passes without a heartbeat on row r.  With    *)
(* prompt heartbeats that cannot happen while a pass holds the row.        *)
(***************************************************************************)
GoStale(r) ==
    /\ heartbeat[r] = "fresh"
    /\ HeartbeatLapses \/ HeldBy(r) = {}
    /\ heartbeat' = [heartbeat EXCEPT ![r] = "stale"]
    /\ UNCHANGED <<status, version, attempts, keys, error, passVars, docVars>>

(* Variant: a row at its budget is not reclaimed. *)
StuckWithinBudget(r) ==
    status[r] = "processing" /\ heartbeat[r] = "stale" /\ attempts[r] < MaxAttempts

Stuck(r) == status[r] = "processing" /\ heartbeat[r] = "stale"

(* One UPDATE returns every stuck row to the line. *)
ReclaimOnce ==
    /\ \E r \in Rows : Stuck(r)
    /\ status' = [r \in Rows |-> IF Stuck(r) THEN "pending" ELSE status[r]]
    /\ heartbeat' = [r \in Rows |-> IF Stuck(r) THEN "null" ELSE heartbeat[r]]
    /\ error' = [r \in Rows |-> IF Stuck(r) THEN "reclaimed" ELSE error[r]]
    /\ UNCHANGED <<version, attempts, keys, passVars, docVars>>

-----------------------------------------------------------------------------
WorkerStep(w) ==
    \/ \E r \in Rows : Claim(w, r)
    \/ Persist(w)
    \/ Ignore(w)
    \/ \E kind \in {"failing", "failing_permanent"} : Raise(w, kind)
    \/ MarkDone(w)
    \/ MarkSkipped(w)
    \/ MarkDoneUnacknowledged(w)
    \/ OnError(w)
    \/ OnErrorRelease(w)
    \/ OnErrorRaises(w)
    \/ Abandon(w)
    \/ Heartbeat(w)

Next ==
    \/ \E r \in Sessions : EnqueueSession(r)
    \/ \E r \in Events : EnqueueEvent(r)
    \/ \E r \in Rows : ReplayDLQ(r) \/ GoStale(r)
    \/ \E w \in Workers : WorkerStep(w)
    \/ ReclaimOnce

Spec == Init /\ [][Next]_vars

(***************************************************************************)
(* Fairness.  Every claim loop polls and every pass runs to its end unless *)
(* it is abandoned; the reclaim loop ticks for ever and clocks advance.    *)
(* Strong fairness on the finishing statements of a row says that not      *)
(* every pass over it is abandoned: a row whose processing kills the       *)
(* worker each time is returned to the line for ever (ReclaimOnce does not *)
(* look at attempts).                                                      *)
(***************************************************************************)
Finish(w) == MarkDone(w) \/ MarkSkipped(w) \/ OnError(w) \/ OnErrorRelease(w)

Fairness ==
    /\ \A r \in Rows : /\ SF_vars(\E w \in Workers : Claim(w, r))
                       /\ SF_vars(\E w \in Workers : Persist(w) /\ claim[w].row = r)
                       /\ SF_vars(\E w \in Workers : Finish(w) /\ claim[w].row = r)
                       /\ WF_vars(GoStale(r))
    /\ WF_vars(ReclaimOnce)

FairSpec == Spec /\ Fairness

-----------------------------------------------------------------------------
(* Every variable keeps its shape. *)
TypeOK ==
    /\ status \in [Rows -> Statuses]
    /\ version \in [Rows -> Nat]
    /\ attempts \in [Rows -> 0..MaxAttempts]
    /\ keys \in [Rows -> 0..MaxKeys]
    /\ error \in [Rows -> Errors]
    /\ heartbeat \in [Rows -> Heartbeats]
    /\ stage \in [Workers -> Stages]
    /\ claim \in [Workers -> Claims \cup {NoClaim}]
    /\ \A w \in Workers : stage[w] # "idle" => claim[w] \in Claims
    /\ doc \in [Rows -> 0..MaxKeys]
    /\ reached \in [Rows -> 0..MaxKeys]

(* The row reads done, and not because the pass skipped it. *)
Indexed(r) == status[r] = "done" /\ error[r] = "null"

(***************************************************************************)
(* No batch is lost: a row that reads done without a skip reason has had   *)
(* every key of its payload array in a committed document write, however   *)
(* many batches landed during the pass (version compare-and-set of         *)
(* Worker._mark_done against the UPSERT of _enqueue).                      *)
(***************************************************************************)
DoneCoversPayload == \A r \in Rows : Indexed(r) => reached[r] = keys[r]

(***************************************************************************)
(* The live document of a finished row is the one built from the whole     *)
(* payload array: no older pass has written over it since                  *)
(* (Normalizer._persist does not order writes of the session sources).     *)
(***************************************************************************)
DoneDocumentIsCurrent == \A r \in Rows : Indexed(r) => doc[r] = keys[r]

(***************************************************************************)
(* At most one pass is on a row at any time (the claim's FOR UPDATE SKIP   *)
(* LOCKED, the UPSERT that leaves a processing row alone, the reclaim).    *)
(***************************************************************************)
OneClaimant ==
    \A w1, w2 \in Workers :
        stage[w1] # "idle" /\ stage[w2] # "idle" /\ claim[w1].row = claim[w2].row
            => w1 = w2

(***************************************************************************)
(* A processing row always carries a heartbeat: _reclaim_once skips rows   *)
(* whose heartbeat_at is NULL, so one without would be stuck for ever.     *)
(***************************************************************************)
ProcessingIsReclaimable ==
    \A r \in Rows : status[r] = "processing" => heartbeat[r] # "null"

(***************************************************************************)
(* A finished row leaves "done" only because a new batch bumped its        *)
(* version: no error path, release or reclaim resurrects or dead-letters   *)
(* a row another path has finished.                                        *)
(***************************************************************************)
DoneLeavesByNewBatch ==
    [][\A r \in Rows :
         status[r] = "done" /\ status'[r] # "done" => version'[r] > version[r]]_vars

(***************************************************************************)
(* The queue drains: a row in line is eventually finished or dead-lettered *)
(* (claim loops, reclaim loop and the release after a missed compare-and-  *)
(* set of _mark_done together leave no row behind).                        *)
(***************************************************************************)
Drains ==
    \A r \in Rows : status[r] = "pending" ~> status[r] \in {"done", "dlq"}

=============================================================================
