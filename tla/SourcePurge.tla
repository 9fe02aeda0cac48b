----------------------------- MODULE SourcePurge -----------------------------
(***************************************************************************)
(* Removing a whole source (engine/ingest/purge.py, kb/purge_routes.py) for*)
(* GitHub, whose purge has a durable gate, against the producers of the    *)
(* legacy lane: webhooks, history (kb/backfill_runner.py), connecting and  *)
(* adopting the installation, and the worker that projects queue rows.     *)
(*                                                                         *)
(* One installation and one history event; the webhook is another event.   *)
(* An event stands for its queue row, its document and everything joined to*)
(* the document.  A raw object is named by its event and the claim that    *)
(* put it (0 for a webhook).                                               *)
(***************************************************************************)
EXTENDS Integers, FiniteSets

CONSTANTS SpRuns,        \* the purge runs that may be started
          SpRunners,     \* processes that run history
          SpMaxRounds,   \* _MAX_VERIFY_ROUNDS
          SpEvents       \* requests, crashes, stalls and errors (bound)

VARIABLES spGate,        \* github_source_gates.purge_in_progress
          spToken,       \* an active legacy token exists
          spInst,        \* "none", "legacy", "managed" or "revoked" (managed, inactive)
          spBack,        \* backfill_state: [status, claim]; claim 0 is NULL
          spClaims,      \* how many claims were made (their timestamps)
          spRows,        \* event -> [status, key] of its queue row
          spRaw,         \* raw objects
          spDocs,        \* events with a document
          spHook,        \* where the webhook's request is
          spRunner,      \* runner -> [step, claim]
          spWorker,      \* where the projecting worker is
          spRun,         \* purge run -> where it is
          spGone,        \* a purge was verified and nothing was asked for since
          spEventsLeft

spLane == <<spToken, spInst, spBack, spClaims>>
spData == <<spRows, spRaw, spDocs>>
spProc == <<spHook, spRunner, spWorker>>
spVars == <<spGate, spLane, spData, spProc, spRun, spGone, spEventsLeft>>

SpHookEvent == "webhook"
SpPast == "history"
SpIds == {SpHookEvent, SpPast}
SpNoRow == [status |-> "none", key |-> <<SpPast, 0>>]
SpIdle == [step |-> "idle", claim |-> 0]
SpIdleRun == [phase |-> "idle", listed |-> FALSE, round |-> 0, errors |-> FALSE, residue |-> FALSE]

\* Legacy work that must drain before the installation is taken under control.
SpLegacyWork == \/ \E e \in SpIds : spRows[e].status \in {"pending", "processing"}
                \/ spBack.status \in {"pending", "running"}
SpManaged == spInst \in {"managed", "revoked"}

\* A legacy connection whose history is waiting.
SpInit ==
    /\ spGate = FALSE /\ spGone = FALSE
    /\ spToken = TRUE /\ spInst = "legacy"
    /\ spBack = [status |-> "pending", claim |-> 0] /\ spClaims = 0
    /\ spRows = [e \in SpIds |-> SpNoRow] /\ spRaw = {} /\ spDocs = {}
    /\ spHook = "idle"
    /\ spRunner = [r \in SpRunners |-> SpIdle]
    /\ spWorker = [step |-> "idle", event |-> SpPast]
    /\ spRun = [p \in SpRuns |-> SpIdleRun]
    /\ spEventsLeft = SpEvents

SpEvent == spEventsLeft > 0 /\ spEventsLeft' = spEventsLeft - 1

-----------------------------------------------------------------------------
(* Connecting, adopting and disconnecting one installation.  Every one holds *)
(* the adoption lock.                                                        *)

\* seed_github_installation: a legacy connection also renews the token.
SpConnect ==
    \E protocol \in {1, 2} :
      /\ SpEvent /\ ~spGate
      /\ protocol = 2 /\ ~SpManaged => ~SpLegacyWork
      /\ spInst' = IF protocol = 2 \/ SpManaged THEN "managed" ELSE "legacy"
      /\ spToken' = (spToken \/ protocol = 1)
      /\ spGone' = FALSE
      /\ UNCHANGED <<spGate, spBack, spClaims, spData, spProc, spRun>>

\* enqueue_backfill: whatever history is there restarts from nothing.
SpEnqueueBackfill ==
    /\ SpEvent /\ ~spGate /\ ~SpManaged
    /\ spBack' = [status |-> "pending", claim |-> 0]
    /\ spGone' = FALSE
    /\ UNCHANGED <<spGate, spToken, spInst, spClaims, spData, spProc, spRun>>

\* patch_sync of an installation not yet managed: 409 while legacy work is left.
SpAdopt ==
    /\ SpEvent /\ spInst = "legacy" /\ ~SpLegacyWork
    /\ spInst' = "managed"
    /\ UNCHANGED <<spGate, spToken, spBack, spClaims, spData, spProc, spRun, spGone>>

\* purge of one installation: its binding row stays, revoked and managed, and the
\* unbound legacy documents are preserved.
SpDisconnect ==
    /\ SpEvent /\ spInst # "none"
    /\ spInst = "legacy" => ~SpLegacyWork
    /\ spInst' = "revoked" /\ spToken' = FALSE
    /\ UNCHANGED <<spGate, spBack, spClaims, spData, spProc, spRun, spGone>>

-----------------------------------------------------------------------------
(* The webhook of an installation that was not managed when it arrived.      *)

\* ON CONFLICT DO NOTHING.
SpInsert(e, key) == [spRows EXCEPT ![e] = IF @.status = "none"
                                          THEN [status |-> "pending", key |-> key] ELSE @]

SpHookPut ==
    /\ spHook = "idle" /\ ~SpManaged
    /\ spRaw' = spRaw \cup {<<SpHookEvent, 0>>}
    /\ spHook' = "admit"
    /\ UNCHANGED <<spGate, spLane, spRows, spDocs, spRunner, spWorker, spRun, spGone, spEventsLeft>>

\* Variant: the event is queued without a look at the gate.
SpHookAdmitUngated ==
    /\ spHook = "admit"
    /\ spHook' = "done"
    /\ spRows' = SpInsert(SpHookEvent, <<SpHookEvent, 0>>)
    /\ UNCHANGED <<spGate, spLane, spRaw, spDocs, spRunner, spWorker, spRun, spGone, spEventsLeft>>

\* enqueue_legacy_webhook: refused by the gate, without a token, and for an
\* installation managed by now (its own lane takes it, without this object).
SpHookAdmit ==
    LET refused == spGate \/ SpManaged \/ ~spToken
    IN  /\ spHook = "admit"
        /\ spHook' = IF refused THEN "discard" ELSE "done"
        /\ spRows' = IF refused THEN spRows ELSE SpInsert(SpHookEvent, <<SpHookEvent, 0>>)
        /\ UNCHANGED <<spGate, spLane, spRaw, spDocs, spRunner, spWorker, spRun, spGone, spEventsLeft>>

SpHookDiscard ==
    /\ spHook = "discard"
    /\ spRaw' = spRaw \ {<<SpHookEvent, 0>>}
    /\ spHook' = "done"
    /\ UNCHANGED <<spGate, spLane, spRows, spDocs, spRunner, spWorker, spRun, spGone, spEventsLeft>>

-----------------------------------------------------------------------------
(* History: claim_pending_backfill and run_backfill.                         *)

SpStep(r, step) == spRunner' = [spRunner EXCEPT ![r].step = step]
SpStop(r) == spRunner' = [spRunner EXCEPT ![r] = SpIdle]

\* Writes fenced on (status='running' AND started_at = claim_token).
SpOwns(claim) == spBack.status = "running" /\ claim # 0 /\ spBack.claim = claim
SpMark(claim, status) == IF SpOwns(claim) THEN [spBack EXCEPT !.status = status] ELSE spBack

\* Under the gate a pending history is terminalized without starting.
SpClaim(r) ==
    /\ spRunner[r].step = "idle" /\ spBack.status = "pending"
    /\ \/ /\ spGate
          /\ spBack' = [spBack EXCEPT !.status = "failed"]
          /\ UNCHANGED <<spClaims, spRunner>>
       \/ /\ ~spGate
          /\ spClaims' = spClaims + 1
          /\ spBack' = [status |-> "running", claim |-> spClaims + 1]
          /\ SpStep(r, "load")
    /\ UNCHANGED <<spGate, spToken, spInst, spData, spHook, spWorker, spRun, spGone, spEventsLeft>>

\* _load_resume_state and _load_token: without a token the claim just read fails.
SpLoad(r) ==
    /\ spRunner[r].step = "load"
    /\ IF spToken THEN SpStep(r, "mark") /\ UNCHANGED spBack
       ELSE SpStop(r) /\ spBack' = SpMark(spBack.claim, "failed")
    /\ UNCHANGED <<spGate, spToken, spInst, spClaims, spData, spHook, spWorker, spRun, spGone,
                   spEventsLeft>>

\* _mark_running: whatever row is there is flipped, and its claim adopted or made.
SpMarkRunning(r) ==
    /\ spRunner[r].step = "mark"
    /\ \/ /\ spBack.status = "none"
          /\ SpStop(r) /\ UNCHANGED <<spBack, spClaims>>
       \/ /\ spBack.status # "none"
          /\ LET claim == IF spBack.claim = 0 THEN spClaims + 1 ELSE spBack.claim
             IN  /\ spBack' = [status |-> "running", claim |-> claim]
                 /\ spRunner' = [spRunner EXCEPT ![r] = [step |-> "event", claim |-> claim]]
                 /\ spClaims' = IF spBack.claim = 0 THEN claim ELSE spClaims
    /\ UNCHANGED <<spGate, spToken, spInst, spData, spHook, spWorker, spRun, spGone, spEventsLeft>>

\* The event's is_source_connected check.
SpCheck(r) ==
    /\ spRunner[r].step = "event"
    /\ SpStep(r, IF spGate \/ ~spToken THEN "halt" ELSE "put")
    /\ UNCHANGED <<spGate, spLane, spData, spHook, spWorker, spRun, spGone, spEventsLeft>>

\* Not connected: a purge is acknowledged by failing; a mere disconnect leaves the
\* row as it is.
SpHalt(r) ==
    /\ spRunner[r].step = "halt"
    /\ SpStop(r)
    /\ spBack' = IF spGate THEN SpMark(spRunner[r].claim, "failed") ELSE spBack
    /\ UNCHANGED <<spGate, spToken, spInst, spClaims, spData, spHook, spWorker, spRun, spGone,
                   spEventsLeft>>

\* _github_claim_payload_key: the object is private to the claim.
SpKey(r) == <<SpPast, spRunner[r].claim>>

SpPut(r) ==
    /\ spRunner[r].step = "put"
    /\ spRaw' = spRaw \cup {SpKey(r)}
    /\ SpStep(r, "flush")
    /\ UNCHANGED <<spGate, spLane, spRows, spDocs, spHook, spWorker, spRun, spGone, spEventsLeft>>

\* The flush's transaction: gate open, a token, and the claim still owned.
SpAdmits(r) == ~spGate /\ spToken /\ SpOwns(spRunner[r].claim)

\* The objects to clean up are chosen here, by what the queue references now.
SpFlush(r) ==
    LET admitted == SpAdmits(r)
        rows == IF admitted THEN SpInsert(SpPast, SpKey(r)) ELSE spRows
        referenced == rows[SpPast].status # "none" /\ rows[SpPast].key = SpKey(r)
    IN  /\ spRunner[r].step = "flush"
        /\ spRows' = rows
        /\ SpStep(r, IF admitted THEN IF referenced THEN "done" ELSE "drop"
                     ELSE IF referenced THEN "refused" ELSE "droprefused")
        /\ UNCHANGED <<spGate, spLane, spRaw, spDocs, spHook, spWorker, spRun, spGone, spEventsLeft>>

SpDrop(r) ==
    /\ spRunner[r].step \in {"drop", "droprefused"}
    /\ spRaw' = spRaw \ {SpKey(r)}
    /\ SpStep(r, IF spRunner[r].step = "drop" THEN "done" ELSE "refused")
    /\ UNCHANGED <<spGate, spLane, spRows, spDocs, spHook, spWorker, spRun, spGone, spEventsLeft>>

\* _mark_done, or _mark_failed for a refused flush.
SpEnd(r) ==
    /\ spRunner[r].step \in {"done", "refused"}
    /\ spBack' = SpMark(spRunner[r].claim, IF spRunner[r].step = "done" THEN "complete" ELSE "failed")
    /\ SpStop(r)
    /\ UNCHANGED <<spGate, spToken, spInst, spClaims, spData, spHook, spWorker, spRun, spGone,
                   spEventsLeft>>

\* The provider fails the history, perhaps for its credentials.
SpProviderFails(r) ==
    /\ spRunner[r].step = "event" /\ SpEvent
    /\ spBack' = SpMark(spRunner[r].claim, "failed")
    /\ \E auth \in BOOLEAN : spToken' = (spToken /\ ~(auth /\ SpOwns(spRunner[r].claim)))
    /\ SpStop(r)
    /\ UNCHANGED <<spGate, spInst, spClaims, spData, spHook, spWorker, spRun, spGone>>

\* A shutdown releases the claim (_release_for_resume); a crash does not.
SpInterrupt(r) ==
    /\ spRunner[r].step # "idle" /\ SpEvent
    /\ SpStop(r)
    /\ \/ UNCHANGED spBack
       \/ /\ SpOwns(spRunner[r].claim)
          /\ spBack' = [status |-> "pending", claim |-> 0]
    /\ UNCHANGED <<spGate, spToken, spInst, spClaims, spData, spHook, spWorker, spRun, spGone>>

\* _reclaim_once: a running history whose heartbeat is stale; one that is only
\* stalled costs an event.
SpReap ==
    /\ spBack.status = "running"
    /\ IF \A r \in SpRunners : spRunner[r].step = "idle" THEN UNCHANGED spEventsLeft ELSE SpEvent
    /\ spBack' = [status |-> "pending", claim |-> 0]
    /\ UNCHANGED <<spGate, spToken, spInst, spClaims, spData, spProc, spRun, spGone>>

-----------------------------------------------------------------------------
(* The worker that projects a legacy row: admission reads the row, the       *)
(* document commits later.                                                   *)

SpWorkClaim ==
    \E e \in SpIds :
      /\ spWorker.step = "idle" /\ spRows[e].status = "pending"
      /\ spRows' = [spRows EXCEPT ![e].status = "processing"]
      /\ spWorker' = [step |-> "claimed", event |-> e]
      /\ UNCHANGED <<spGate, spLane, spRaw, spDocs, spHook, spRunner, spRun, spGone, spEventsLeft>>

\* admit_projection for protocol 1: the row must still be there.
SpWorkAdmit ==
    LET gone == spRows[spWorker.event].status = "none"
    IN  /\ spWorker.step = "claimed"
        /\ spWorker' = [spWorker EXCEPT !.step = IF gone THEN "idle" ELSE "admitted"]
        /\ UNCHANGED <<spGate, spLane, spData, spHook, spRunner, spRun, spGone, spEventsLeft>>

SpWorkCommit ==
    /\ spWorker.step = "admitted"
    /\ spDocs' = spDocs \cup {spWorker.event}
    /\ spRows' = [e \in SpIds |-> IF e = spWorker.event /\ spRows[e].status # "none"
                                 THEN [spRows[e] EXCEPT !.status = "done"] ELSE spRows[e]]
    /\ spWorker' = [spWorker EXCEPT !.step = "idle"]
    /\ UNCHANGED <<spGate, spLane, spRaw, spHook, spRunner, spRun, spGone, spEventsLeft>>

-----------------------------------------------------------------------------
(* purge_source.                                                             *)

SpTo(p, phase) == spRun' = [spRun EXCEPT ![p].phase = phase]

\* start_purge refuses nothing; _close_gate's first transaction.
SpPurgeStart(p) ==
    /\ spRun[p].phase = "idle"
    /\ spGate' = TRUE
    /\ spRun' = [spRun EXCEPT ![p].phase = "wait", ![p].listed = spInst # "none"]
    /\ UNCHANGED <<spLane, spData, spProc, spGone, spEventsLeft>>

\* A running history leaves `running` first; one that does not in time fails the
\* purge, which leaves the gate closed.
SpPurgeWait(p) ==
    /\ spRun[p].phase = "wait"
    /\ SpTo(p, IF spBack.status = "running" THEN "failed" ELSE "close")
    /\ UNCHANGED <<spGate, spLane, spData, spProc, spGone, spEventsLeft>>

\* The installations listed are purged, legacy work or not.
SpPurgeClose(p) ==
    /\ spRun[p].phase = "close"
    /\ spInst' = IF spRun[p].listed THEN "revoked" ELSE spInst
    /\ spToken' = (spToken /\ ~spRun[p].listed)
    /\ SpTo(p, "tokens")
    /\ UNCHANGED <<spGate, spBack, spClaims, spData, spProc, spGone, spEventsLeft>>

SpPurgeTokens(p) ==
    /\ spRun[p].phase = "tokens"
    /\ spToken' = FALSE
    /\ SpTo(p, "cascade")
    /\ UNCHANGED <<spGate, spInst, spBack, spClaims, spData, spProc, spGone, spEventsLeft>>

\* _run_cascade: one transaction.
SpCascade(p) ==
    /\ spRun[p].phase = "cascade"
    /\ spRows' = [e \in SpIds |-> SpNoRow]
    /\ spDocs' = {}
    /\ spBack' = [status |-> "none", claim |-> 0]
    /\ SpTo(p, "sweep")
    /\ UNCHANGED <<spGate, spToken, spInst, spClaims, spRaw, spProc, spGone, spEventsLeft>>

\* _sweep_r2: an object the store fails to delete is an error, never forgotten.
SpSweep(p) ==
    /\ spRun[p].phase = "sweep"
    /\ \/ /\ spRaw' = {}
          /\ SpTo(p, "count")
          /\ UNCHANGED spEventsLeft
       \/ /\ spRaw # {} /\ SpEvent
          /\ spRun' = [spRun EXCEPT ![p].phase = "count", ![p].errors = TRUE]
          /\ UNCHANGED spRaw
    /\ UNCHANGED <<spGate, spLane, spRows, spDocs, spProc, spGone>>

\* _count_residue.
SpCount(p) ==
    /\ spRun[p].phase = "count"
    /\ spRun' = [spRun EXCEPT
         ![p].phase = "countraw", ![p].round = @ + 1,
         ![p].residue = \/ spDocs # {} \/ spBack.status # "none"
                        \/ \E e \in SpIds : spRows[e].status # "none"]
    /\ UNCHANGED <<spGate, spLane, spData, spProc, spGone, spEventsLeft>>

\* _count_r2_residue and the round's decision.
SpCountRaw(p) ==
    LET left == spRun[p].residue \/ spRaw # {}
    IN  /\ spRun[p].phase = "countraw"
        /\ SpTo(p, IF left /\ spRun[p].round < SpMaxRounds THEN "cascade"
                   ELSE IF left \/ spRun[p].errors THEN "failed" ELSE "verified")
        /\ UNCHANGED <<spGate, spLane, spData, spProc, spGone, spEventsLeft>>

\* The gate opens for a verified purge only; then its receipt is written.
SpPurgeVerified(p) ==
    /\ spRun[p].phase = "verified"
    /\ spGate' = FALSE
    /\ spGone' = TRUE
    /\ SpTo(p, "done")
    /\ UNCHANGED <<spLane, spData, spProc, spEventsLeft>>

\* _run_and_record: a shutdown ends the purge where it is.
SpPurgeCrash(p) ==
    /\ spRun[p].phase \notin {"idle", "done", "failed"} /\ SpEvent
    /\ SpTo(p, "failed")
    /\ UNCHANGED <<spGate, spLane, spData, spProc, spGone>>

\* A failed purge is asked for again.
SpPurgeAgain(p) ==
    /\ spRun[p].phase = "failed" /\ SpEvent
    /\ spRun' = [spRun EXCEPT ![p] = SpIdleRun]
    /\ UNCHANGED <<spGate, spLane, spData, spProc, spGone>>

SpNext ==
    \/ SpConnect \/ SpEnqueueBackfill \/ SpAdopt \/ SpDisconnect
    \/ SpHookPut \/ SpHookAdmit \/ SpHookDiscard
    \/ \E r \in SpRunners :
         \/ SpClaim(r) \/ SpLoad(r) \/ SpMarkRunning(r) \/ SpCheck(r) \/ SpHalt(r) \/ SpPut(r)
         \/ SpFlush(r) \/ SpDrop(r) \/ SpEnd(r) \/ SpProviderFails(r) \/ SpInterrupt(r)
    \/ SpReap
    \/ SpWorkClaim \/ SpWorkAdmit \/ SpWorkCommit
    \/ \E p \in SpRuns :
         \/ SpPurgeStart(p) \/ SpPurgeWait(p) \/ SpPurgeClose(p) \/ SpPurgeTokens(p)
         \/ SpCascade(p) \/ SpSweep(p) \/ SpCount(p) \/ SpCountRaw(p)
         \/ SpPurgeVerified(p) \/ SpPurgeCrash(p) \/ SpPurgeAgain(p)

SpSpec == SpInit /\ [][SpNext]_spVars

-----------------------------------------------------------------------------
\* _close_gate, "rather than producing a false verified receipt": once a purge is
\* verified, and until something is connected or asked for again, no producer that
\* was under way leaves a queue row, a history or a token behind.
VerifiedPurgeHolds ==
    spGone => /\ \A e \in SpIds : spRows[e].status = "none"
              /\ spBack.status = "none" /\ ~spToken

=============================================================================
