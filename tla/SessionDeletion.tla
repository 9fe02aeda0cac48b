--------------------------- MODULE SessionDeletion ---------------------------
(***************************************************************************)
(* Erasing one captured session (kb/session_deletion.py) while the writers *)
(* of that session run: the upload doors and the idle sweep, a worker's    *)
(* mining pass with its late sweep (engine/ingest/worker.py), the reclaim  *)
(* loop and an operator's legal hold.                                      *)
(*                                                                         *)
(* A key of Keys is a protocol-1 batch in a date folder shared with other  *)
(* sessions: it is found through the rows that name it, through the        *)
(* deletion's key journal, or by a deep scan.  Folder stands for all the   *)
(* objects under the session's own prefixes, which a listing finds.  The   *)
(* queue row's version is the set of keys it has collected.                *)
(***************************************************************************)
EXTENDS Naturals, FiniteSets

CONSTANTS
    Keys, Folder,
    Workers,    \* passes over the session that can be alive at once
    Runs,       \* deletion requests and background runs alive at once
    Faults,     \* which kinds of fault this instance has
    MaxFaults   \* bound: how many of them happen

FaultKinds == {"storage", "check", "worker_dies", "run_fails", "run_dies", "upload_dies", "hold"}

ASSUME DeletionAssumption ==
    /\ Folder \notin Keys
    /\ Faults \subseteq FaultKinds
    /\ MaxFaults \in Nat

VARIABLES
    row,        \* the ingestion_queue row; settled is done or dead-lettered
    keys,       \* the keys named by the session's queue row and receipts
    docs,       \* are there documents, chunks, graph rows
    event,      \* is there an ingestion_events row
    objects,    \* the raw objects in storage
    tomb,       \* status of the session_deletions row, "none" without one
    journal,    \* its pending_keys
    hold,       \* the tenant's legal hold
    faults,     \* faults so far
    stage,      \* per worker: where its pass is
    held,       \* per worker: the keys it claimed (the captured version)
    failing,    \* per worker: the pass ends in an error
    step,       \* per run: where it is
    round,      \* per run: 1, or 2 after the in-flight grace
    again,      \* per run: a pass was in flight in round 1
    saw,        \* per run: its inventory found the events row
    todo,       \* per run: keys it deletes, then those it saw deleted
    dirty,      \* per run: a delete failed or own objects were left
    verdict     \* per run: the status it will write

rowVars == <<row, keys, docs, event>>
tombVars == <<tomb, journal>>
passVars == <<stage, held, failing>>
roundVars == <<round, again, saw, todo, dirty>>
runVars == <<step, roundVars, verdict>>
vars == <<rowVars, objects, tombVars, hold, faults, passVars, runVars>>

AllKeys == Keys \cup {Folder}

Init ==
    /\ row = "none" /\ keys = {} /\ docs = FALSE /\ event = FALSE
    /\ objects = {}
    /\ tomb = "none" /\ journal = {}
    /\ hold = FALSE
    /\ faults = 0
    /\ stage = [w \in Workers |-> "idle"]
    /\ held = [w \in Workers |-> {}]
    /\ failing = [w \in Workers |-> FALSE]
    /\ step = [r \in Runs |-> "idle"]
    /\ round = [r \in Runs |-> 1]
    /\ again = [r \in Runs |-> FALSE]
    /\ saw = [r \in Runs |-> FALSE]
    /\ todo = [r \in Runs |-> {}]
    /\ dirty = [r \in Runs |-> FALSE]
    /\ verdict = [r \in Runs |-> "pending"]

Fault(kind) ==
    /\ kind \in Faults
    /\ faults < MaxFaults
    /\ faults' = faults + 1

Recorded == tomb # "none"

(***************************************************************************)
(* A run in the middle of its row transaction holds the session lock and   *)
(* the lock of the session_deletions row.  Every other transaction that    *)
(* takes one of them is a single step here.                                *)
(***************************************************************************)
Locked == \E r \in Runs : step[r] = "drop"

-----------------------------------------------------------------------------
(* The writers' doors: accept, accept_legacy, the idle sweep's _end_one *)

(***************************************************************************)
(* Under the session lock a writer asks for the deletion, stores its       *)
(* object and enqueues it.  A row being processed stays so.                *)
(***************************************************************************)
Upload(k) ==
    /\ ~Locked /\ ~Recorded
    /\ k \notin keys
    /\ objects' = objects \cup {k}
    /\ keys' = keys \cup {k}
    /\ row' = IF row = "processing" THEN row ELSE "pending"
    /\ UNCHANGED <<docs, event, tombVars, hold, faults, passVars, runVars>>

(* The writer dies between its object and its commit. *)
UploadDies(k) ==
    /\ ~Locked /\ ~Recorded
    /\ k \notin keys
    /\ Fault("upload_dies")
    /\ objects' = objects \cup {k}
    /\ UNCHANGED <<rowVars, tombVars, hold, passVars, runVars>>

-----------------------------------------------------------------------------
(* A worker's pass over the session *)

Claim(w) ==
    /\ stage[w] = "idle"
    /\ row = "pending"
    /\ row' = "processing"
    /\ stage' = [stage EXCEPT ![w] = "check"]
    /\ held' = [held EXCEPT ![w] = keys]
    /\ UNCHANGED <<keys, docs, event, objects, tombVars, hold, faults, failing, runVars>>

(* _deleted_session is best effort: an error answers "not deleted". *)
CheckDeleted(w) ==
    /\ stage[w] = "check"
    /\ \/ /\ stage' = [stage EXCEPT ![w] = IF Recorded THEN "end" ELSE "mining"]
          /\ UNCHANGED faults
       \/ /\ Recorded /\ Fault("check")
          /\ stage' = [stage EXCEPT ![w] = "mining"]
    /\ UNCHANGED <<rowVars, objects, tombVars, hold, held, failing, runVars>>

(* Extraction answers and the trajectory are saved without the lock. *)
Mine(w) ==
    /\ stage[w] = "mining"
    /\ Folder \notin objects
    /\ objects' = objects \cup {Folder}
    /\ UNCHANGED <<rowVars, tombVars, hold, faults, passVars, runVars>>

(* Variant: the write transaction does not ask for the deletion. *)
PersistUnfenced(w) ==
    /\ stage[w] = "mining"
    /\ ~Locked
    /\ stage' = [stage EXCEPT ![w] = "end"]
    /\ docs' = TRUE
    /\ UNCHANGED <<row, keys, event, objects, tombVars, hold, faults, held, failing, runVars>>

(* Documents are written under the session lock, or refused. *)
Persist(w) ==
    /\ stage[w] = "mining"
    /\ ~Locked
    /\ stage' = [stage EXCEPT ![w] = IF Recorded THEN "sweep" ELSE "end"]
    /\ docs' = (docs \/ ~Recorded)
    /\ UNCHANGED <<row, keys, event, objects, tombVars, hold, faults, held, failing, runVars>>

(* A pass that fails otherwise asks again (_sweep_if_deleted). *)
PassFails(w) ==
    /\ stage[w] = "mining"
    /\ failing' = [failing EXCEPT ![w] = TRUE]
    /\ \/ /\ stage' = [stage EXCEPT ![w] = IF Recorded THEN "sweep" ELSE "end"]
          /\ UNCHANGED faults
       \/ /\ Recorded /\ Fault("check")
          /\ stage' = [stage EXCEPT ![w] = "end"]
    /\ UNCHANGED <<rowVars, objects, tombVars, hold, held, runVars>>

(* _sweep_deleted: own objects go, unless a hold makes them evidence. *)
SweepDeleted(w) ==
    /\ stage[w] = "sweep"
    /\ \/ /\ hold
          /\ stage' = [stage EXCEPT ![w] = "keep"]
          /\ UNCHANGED <<objects, faults>>
       \/ /\ ~hold
          /\ stage' = [stage EXCEPT ![w] = "end"]
          /\ objects' = objects \ {Folder}
          /\ UNCHANGED faults
       \/ /\ ~hold /\ Fault("storage")
          /\ stage' = [stage EXCEPT ![w] = "reopen"]
          /\ UNCHANGED objects
    /\ UNCHANGED <<rowVars, tombVars, hold, held, failing, runVars>>

(* reopen_deletion: what the sweep left is handed to /resume. *)
ReopenDeletion(w) ==
    /\ stage[w] \in {"keep", "reopen"}
    /\ ~Locked
    /\ tomb' = IF stage[w] = "keep" \/ tomb = "held" THEN "held" ELSE "failed"
    /\ stage' = [stage EXCEPT ![w] = "end"]
    /\ UNCHANGED <<rowVars, objects, journal, hold, faults, held, failing, runVars>>

EndPass(w) ==
    /\ stage' = [stage EXCEPT ![w] = "idle"]
    /\ held' = [held EXCEPT ![w] = {}]
    /\ failing' = [failing EXCEPT ![w] = FALSE]

VersionHeld(w) == row # "none" /\ keys = held[w]

(* A row that moved under the pass goes back to the queue. *)
Released == IF row = "processing" THEN "pending" ELSE row

(***************************************************************************)
(* _mark_done and _mark_skipped: the row and its audit event, if the row   *)
(* is still what was claimed.  Neither takes the session lock.             *)
(***************************************************************************)
MarkPass(w) ==
    /\ stage[w] = "end" /\ ~failing[w]
    /\ IF VersionHeld(w) THEN row' = "settled" /\ event' = TRUE
       ELSE row' = Released /\ UNCHANGED event
    /\ EndPass(w)
    /\ UNCHANGED <<keys, docs, objects, tombVars, hold, faults, runVars>>

(* _on_error: retry or dead-letter. *)
OnError(w) ==
    /\ stage[w] = "end" /\ failing[w]
    /\ IF VersionHeld(w) THEN row' \in {"pending", "settled"} ELSE row' = Released
    /\ EndPass(w)
    /\ UNCHANGED <<keys, docs, event, objects, tombVars, hold, faults, runVars>>

(* Killed, or cancelled: a cancelled pass first sweeps, as PassFails does. *)
WorkerDies(w) ==
    /\ stage[w] # "idle"
    /\ Fault("worker_dies")
    /\ EndPass(w)
    /\ UNCHANGED <<rowVars, objects, tombVars, hold, runVars>>

(* The heartbeat lapsed, whether or not the pass is alive. *)
ReclaimOnce ==
    /\ row = "processing"
    /\ row' = "pending"
    /\ UNCHANGED <<keys, docs, event, objects, tombVars, hold, faults, passVars, runVars>>

-----------------------------------------------------------------------------
(* One deletion request and its background run *)

GotoStep(r, s) == step' = [step EXCEPT ![r] = s]

(* Give up, or end, with status s. *)
Conclude(r, s) ==
    /\ GotoStep(r, "finish")
    /\ verdict' = [verdict EXCEPT ![r] = s]

(* delete_sessions: a hold refuses the request. *)
DeleteSessions(r) ==
    /\ step[r] = "idle"
    /\ ~hold
    /\ GotoStep(r, "record")
    /\ UNCHANGED <<rowVars, objects, tombVars, hold, faults, passVars, roundVars, verdict>>

(* record_sessions, then the run, with or without a deep scan. *)
RecordSessions(r) ==
    /\ step[r] = "record"
    /\ ~Locked
    /\ tomb' = "pending"
    /\ journal' = journal \cup (keys \cap Keys)
    /\ row' = IF row = "pending" THEN "settled" ELSE row
    /\ \E s \in {"scan", "erase"} : GotoStep(r, s)
    /\ UNCHANGED <<keys, docs, event, objects, hold, faults, passVars, roundVars, verdict>>

(* Variant: only a request that looks stalled is run again. *)
ResumePendingOnly(r) ==
    /\ step[r] = "idle"
    /\ ~hold /\ ~Locked
    /\ tomb = "pending"
    /\ \E s \in {"scan", "erase"} : GotoStep(r, s)
    /\ UNCHANGED <<rowVars, objects, tombVars, hold, faults, passVars, roundVars, verdict>>

(* resume_deletion: any session of the request that is not done. *)
ResumeDeletion(r) ==
    /\ step[r] = "idle"
    /\ ~hold /\ ~Locked
    /\ tomb \in {"pending", "failed", "held"}
    /\ tomb' = "pending"
    /\ \E s \in {"scan", "erase"} : GotoStep(r, s)
    /\ UNCHANGED <<rowVars, objects, journal, hold, faults, passVars, roundVars, verdict>>

(* The deep scan finds every batch by name and journals it first. *)
DeepScan(r) ==
    /\ step[r] = "scan"
    /\ ~Locked
    /\ journal' = journal \cup (objects \cap Keys)
    /\ GotoStep(r, "erase")
    /\ UNCHANGED <<rowVars, objects, tomb, hold, faults, passVars, roundVars, verdict>>

EraseSession(r) ==
    /\ step[r] = "erase"
    /\ IF hold THEN Conclude(r, "held") ELSE GotoStep(r, "rows") /\ UNCHANGED verdict
    /\ UNCHANGED <<rowVars, objects, tombVars, hold, faults, passVars, roundVars>>

(***************************************************************************)
(* _journal_and_delete_rows, first half: take the locks, read the hold     *)
(* again (FOR SHARE: none can be placed until the commit) and what is      *)
(* there.                                                                  *)
(***************************************************************************)
Inventory(r) ==
    /\ step[r] = "rows"
    /\ ~Locked
    /\ IF hold
       THEN Conclude(r, "held") /\ UNCHANGED <<saw, todo, again>>
       ELSE /\ GotoStep(r, "drop")
            /\ saw' = [saw EXCEPT ![r] = event]
            /\ todo' = [todo EXCEPT ![r] = journal \cup (keys \cap Keys)]
            /\ again' = [again EXCEPT ![r] = row = "processing" /\ round[r] = 1]
            /\ UNCHANGED verdict
    /\ UNCHANGED <<rowVars, objects, tombVars, hold, faults, passVars, round, dirty>>

(* Second half: journal the keys and remove the rows that were found. *)
DeleteRows(r) ==
    /\ step[r] = "drop"
    /\ journal' = todo[r]
    /\ row' = "none" /\ keys' = {} /\ docs' = FALSE
    /\ event' = (event /\ ~saw[r])
    /\ GotoStep(r, "objects")
    /\ UNCHANGED <<objects, tomb, hold, faults, passVars, roundVars, verdict>>

CheckHold(r) ==
    /\ step[r] = "objects"
    /\ IF hold THEN Conclude(r, "held") ELSE GotoStep(r, "delete") /\ UNCHANGED verdict
    /\ UNCHANGED <<rowVars, objects, tombVars, hold, faults, passVars, roundVars>>

(***************************************************************************)
(* _delete_objects: journaled keys and own prefixes.  bad is what storage  *)
(* failed to delete.                                                       *)
(***************************************************************************)
DeleteObjects(r) ==
    /\ step[r] = "delete"
    /\ \E bad \in SUBSET (todo[r] \cup {Folder}) :
         /\ IF bad = {} THEN UNCHANGED faults ELSE Fault("storage")
         /\ objects' = objects \ ((todo[r] \cup {Folder}) \ bad)
         /\ todo' = [todo EXCEPT ![r] = @ \ bad]
         /\ dirty' = [dirty EXCEPT ![r] = bad # {}]
    /\ GotoStep(r, "list")
    /\ UNCHANGED <<rowVars, tombVars, hold, passVars, round, again, saw, verdict>>

(* What is left under the session's own prefixes. *)
ListObjects(r) ==
    /\ step[r] = "list"
    /\ dirty' = [dirty EXCEPT ![r] = @ \/ Folder \in objects]
    /\ GotoStep(r, "clear")
    /\ UNCHANGED <<rowVars, objects, tombVars, hold, faults, passVars, round, again, saw, todo, verdict>>

(* Variant: the journal is emptied, failed keys included. *)
ClearWholeJournal(r) ==
    /\ step[r] = "clear"
    /\ ~Locked
    /\ journal' = {}
    /\ round' = [round EXCEPT ![r] = IF again[r] THEN 2 ELSE @]
    /\ GotoStep(r, IF again[r] THEN "rows" ELSE "verify")
    /\ UNCHANGED <<rowVars, objects, tomb, hold, faults, passVars, again, saw, todo, dirty, verdict>>

(* _clear_journal, then once more if a pass was in flight. *)
ClearJournal(r) ==
    /\ step[r] = "clear"
    /\ ~Locked
    /\ journal' = journal \ todo[r]
    /\ round' = [round EXCEPT ![r] = IF again[r] THEN 2 ELSE @]
    /\ GotoStep(r, IF again[r] THEN "rows" ELSE "verify")
    /\ UNCHANGED <<rowVars, objects, tomb, hold, faults, passVars, again, saw, todo, dirty, verdict>>

Residue == row # "none" \/ keys # {} \/ docs \/ event

(* Variant: only the objects are verified. *)
VerifyObjectsOnly(r) ==
    /\ step[r] = "verify"
    /\ Conclude(r, IF dirty[r] THEN "failed" ELSE "done")
    /\ UNCHANGED <<rowVars, objects, tombVars, hold, faults, passVars, roundVars>>

Verify(r) ==
    /\ step[r] = "verify"
    /\ Conclude(r, IF Residue \/ dirty[r] THEN "failed" ELSE "done")
    /\ UNCHANGED <<rowVars, objects, tombVars, hold, faults, passVars, roundVars>>

ForgetRun(r) ==
    /\ GotoStep(r, "idle")
    /\ round' = [round EXCEPT ![r] = 1]
    /\ again' = [again EXCEPT ![r] = FALSE]
    /\ saw' = [saw EXCEPT ![r] = FALSE]
    /\ todo' = [todo EXCEPT ![r] = {}]
    /\ dirty' = [dirty EXCEPT ![r] = FALSE]
    /\ verdict' = [verdict EXCEPT ![r] = "pending"]

Finish(r) ==
    /\ step[r] = "finish"
    /\ ~Locked
    /\ tomb' = verdict[r]
    /\ ForgetRun(r)
    /\ UNCHANGED <<rowVars, objects, journal, hold, faults, passVars>>

Erasing == {"erase", "rows", "drop", "objects", "delete", "list", "clear", "verify"}

(* An error or a shutdown inside erase_session still writes a status. *)
RunFails(r) ==
    /\ step[r] \in Erasing
    /\ Fault("run_fails")
    /\ Conclude(r, "failed")
    /\ UNCHANGED <<rowVars, objects, tombVars, hold, passVars, roundVars>>

(* The pod is gone; an open transaction rolls back. *)
RunDies(r) ==
    /\ step[r] # "idle"
    /\ Fault("run_dies")
    /\ ForgetRun(r)
    /\ UNCHANGED <<rowVars, objects, tombVars, hold, passVars>>

-----------------------------------------------------------------------------
(* The operator's hold.  Placing one waits for a row transaction. *)

PlaceHold ==
    /\ ~hold /\ ~Locked
    /\ Fault("hold")
    /\ hold' = TRUE
    /\ UNCHANGED <<rowVars, objects, tombVars, passVars, runVars>>

ReleaseHold ==
    /\ hold
    /\ hold' = FALSE
    /\ UNCHANGED <<rowVars, objects, tombVars, faults, passVars, runVars>>

PassStep(w) ==
    \/ Claim(w) \/ CheckDeleted(w) \/ Persist(w) \/ SweepDeleted(w)
    \/ ReopenDeletion(w) \/ MarkPass(w) \/ OnError(w)

RunStep(r) ==
    \/ RecordSessions(r) \/ DeepScan(r) \/ EraseSession(r) \/ Inventory(r)
    \/ DeleteRows(r) \/ CheckHold(r) \/ DeleteObjects(r) \/ ListObjects(r)
    \/ ClearJournal(r) \/ Verify(r) \/ Finish(r)

Next ==
    \/ \E k \in AllKeys : Upload(k) \/ UploadDies(k)
    \/ \E w \in Workers : PassStep(w) \/ Mine(w) \/ PassFails(w) \/ WorkerDies(w)
    \/ \E r \in Runs : \/ DeleteSessions(r) \/ ResumeDeletion(r) \/ RunStep(r)
                       \/ RunFails(r) \/ RunDies(r)
    \/ ReclaimOnce \/ PlaceHold \/ ReleaseHold

Spec == Init /\ [][Next]_vars

(***************************************************************************)
(* Passes and runs proceed, the session lock is granted in turn, a hold is *)
(* released in the end, and the operator resumes what is not done: the     *)
(* code resumes nothing by itself.                                         *)
(***************************************************************************)
FairSpec ==
    /\ Spec
    /\ \A w \in Workers : SF_vars(PassStep(w))
    /\ SF_vars(\E r \in Runs : RunStep(r) \/ ResumeDeletion(r))
    /\ WF_vars(ReleaseHold)

-----------------------------------------------------------------------------
(* Every variable keeps its shape. *)
TypeOK ==
    /\ row \in {"none", "pending", "processing", "settled"}
    /\ keys \subseteq AllKeys /\ objects \subseteq AllKeys /\ journal \subseteq Keys
    /\ docs \in BOOLEAN /\ event \in BOOLEAN /\ hold \in BOOLEAN
    /\ tomb \in {"none", "pending", "done", "failed", "held"}
    /\ faults \in 0..MaxFaults
    /\ stage \in [Workers -> {"idle", "check", "mining", "sweep", "keep", "reopen", "end"}]
    /\ held \in [Workers -> SUBSET AllKeys]
    /\ failing \in [Workers -> BOOLEAN]
    /\ step \in [Runs -> {"idle", "record", "scan", "finish"} \cup Erasing]
    /\ round \in [Runs -> {1, 2}]
    /\ again \in [Runs -> BOOLEAN] /\ saw \in [Runs -> BOOLEAN] /\ dirty \in [Runs -> BOOLEAN]
    /\ todo \in [Runs -> SUBSET Keys]
    /\ verdict \in [Runs -> {"pending", "done", "failed", "held"}]

(***************************************************************************)
(* A deletion that reads done has no row left: no queue row, document or   *)
(* audit event, whatever a worker committed between the inventory and the  *)
(* deletes, and none comes back later (_residue, the write fence).         *)
(***************************************************************************)
DoneHasNoRows == tomb = "done" => ~Residue

(***************************************************************************)
(* An object that can be found stays findable: as long as it exists, a row *)
(* or the journal still names it, through row deletes, failed deletes,     *)
(* crashes and concurrent runs (_journal_and_delete_rows, _clear_journal). *)
(***************************************************************************)
StaysFindable ==
    [][\A k \in Keys \cap objects \cap objects' :
         k \in keys \cup journal => k \in keys' \cup journal']_vars

(***************************************************************************)
(* Once the deletion is recorded no writer adds a row, a document or a     *)
(* batch (refuse_deleted_sessions under the session lock).                 *)
(***************************************************************************)
NothingComesBack ==
    [][Recorded => /\ row = "none" => row' = "none"
                   /\ keys' \subseteq keys
                   /\ docs' => docs
                   /\ objects' \cap Keys \subseteq objects]_vars

(***************************************************************************)
(* Under a legal hold no row of the session is deleted, however long ago   *)
(* the run looked (read_legal_hold with FOR SHARE).                        *)
(***************************************************************************)
HoldKeepsRows ==
    [][hold => /\ row # "none" => row' # "none"
               /\ keys \subseteq keys'
               /\ docs => docs'
               /\ event => event']_vars

(***************************************************************************)
(* Own objects behind a done status are on their way out: a pass that is   *)
(* still alive will sweep them or reopen the deletion ("a sweep that does  *)
(* not finish re-opens the deletion for /resume rather than leaving the    *)
(* objects behind a `done` status").                                       *)
(***************************************************************************)
DoneIsSwept ==
    tomb = "done" /\ Folder \in objects
        => \E w \in Workers : stage[w] \in {"mining", "sweep", "keep", "reopen"}

(***************************************************************************)
(* A recorded deletion is completed, after any bounded number of crashes,  *)
(* storage errors and holds, if it is resumed (run_deletion, /resume).     *)
(***************************************************************************)
Completes == Recorded ~> (tomb = "done" /\ journal \cap objects = {})

=============================================================================
