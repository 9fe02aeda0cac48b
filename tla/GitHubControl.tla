---------------------------- MODULE GitHubControl ----------------------------
(***************************************************************************)
(* Installation control of GitHub (kb/github_control.py, its routes, its   *)
(* worker and its scoped purge): live settings, history jobs, the          *)
(* installation's queue rows and the bindings that keep documents visible. *)
(*                                                                         *)
(* One installation.  A repository stands for its one document and its one *)
(* history event; gcElsewhere says whether another installation binds the  *)
(* document.  Revision and generation always move together and are one     *)
(* number.  A lease is named by the worker whose step took it; when the    *)
(* worker dies its lease becomes "lost", one that nobody holds.            *)
(***************************************************************************)
EXTENDS Integers, Sequences, FiniteSets

CONSTANTS GcRepos, GcWorkers,
          GcMaxQueue, GcMaxHistory,   \* MAX_INSTALLATION_QUEUE, MAX_HISTORY_QUEUE
          GcMaxAttempts,              \* the attempts of a row or a job (5)
          GcLiveRepos,                \* the repositories with a live event (bound)
          GcEvents                    \* requests, provider changes and faults (bound)

VARIABLES gcInst,       \* [active, sync, scope, gen]
          gcWalker,     \* history_lease_id of the installation
          gcAccess,     \* the repositories the installation can read
          gcJobs,       \* github_backfill_jobs, oldest first
          gcRows,       \* <<job or 0, repository>> -> queue row
          gcLive, gcHistory, gcBound, \* repositories whose binding has the flag; bound at all
          gcElsewhere,  \* repository -> "none", "inactive" or "present" binding
          gcNative,     \* repositories with an unbound legacy document
          gcVisible,    \* repositories whose document is live
          gcSlot,       \* worker -> the step it is in
          gcRequests,   \* requests between their check and their transaction
          gcReceipts,   \* accepted retries
          gcNotices,    \* repositories whose removal the provider has yet to announce
          gcEventsLeft

gcDocs == <<gcLive, gcHistory, gcBound, gcVisible>>
gcEnv  == <<gcAccess, gcNotices, gcElsewhere, gcNative>>
gcVars == <<gcInst, gcWalker, gcEnv, gcJobs, gcRows, gcDocs, gcSlot, gcRequests, gcReceipts,
            gcEventsLeft>>

GcNone == "none"
GcLost == "lost"
GcActive == {"queued", "running", "cancel_requested"}
GcOutstanding == {"v2_pending", "v2_processing"}

ASSUME GcAssumption ==
    /\ IsFiniteSet(GcRepos) /\ GcRepos # {}
    /\ GcLiveRepos \subseteq GcRepos
    /\ {GcMaxQueue, GcMaxHistory, GcMaxAttempts, GcEvents} \subseteq Nat
    /\ GcNone \notin GcWorkers /\ GcLost \notin GcWorkers

GcIdle == [step |-> "idle", key |-> <<0, GcNone>>, outcome |-> GcNone, job |-> 0, room |-> 0]

GcJob(kind, scope, gen, key) ==
    [kind |-> kind, scope |-> scope, gen |-> gen, key |-> key, state |-> "queued",
     lease |-> GcNone, left |-> scope, enumerated |-> FALSE, attempts |-> 0, retries |-> 0,
     cut |-> {}]
\* cut: repositories whose membership was taken away since the job was created.

\* What is written to a job, ...
GcStopped(job, state) == [job EXCEPT !.state = state, !.lease = GcNone]
GcStarted(job, w) == [job EXCEPT !.state = "running", !.lease = w,
                                 !.attempts = IF @ = 0 THEN 1 ELSE @]
GcPassed(job, r) == [job EXCEPT !.left = @ \ {r}]
GcEnumerated(job) == [job EXCEPT !.lease = GcNone, !.enumerated = TRUE]
GcAgain(job) == [job EXCEPT !.state = "queued", !.lease = GcNone, !.attempts = @ + 1,
                            !.retries = @ + 1, !.enumerated = FALSE, !.left = job.scope]
GcCut(job, repos) == [job EXCEPT !.cut = @ \cup repos]

\* ... to a queue row: a row that has ended has its envelope erased; ...
GcEnded(row, status) == [row EXCEPT !.status = status, !.payload = FALSE, !.lease = GcNone]
GcPending(row) == [row EXCEPT !.status = "v2_pending", !.lease = GcNone]
GcTaken(row, w) == [row EXCEPT !.status = "v2_processing", !.lease = w, !.attempts = @ + 1]
GcRenewed(row, gen) == [row EXCEPT !.gen = gen]

\* ... and to either when the process that leased it is gone.
GcOrphan(leased, w) == [leased EXCEPT !.lease = IF @ = w THEN GcLost ELSE @]

\* Of these rows, the outstanding ones are canceled.
GcCancelRows(rows, keys) ==
    [k \in DOMAIN rows |-> IF k \in keys /\ rows[k].status \in GcOutstanding
                           THEN GcEnded(rows[k], "v2_canceled") ELSE rows[k]]
GcRowsOf(jobs) == {k \in DOMAIN gcRows : k[1] \in jobs}

\* A managed installation: live sync on with its catch-up queued; live sync off
\* with an explicit backfill queued, failed, or asked for twice with one key; or
\* disconnected by a purge.
GcInit ==
    /\ \E start \in {"synced", "queued", "failed", "asked", "purged"} :
         LET synced == start = "synced"
             job == GcJob(IF synced THEN "catchup" ELSE "backfill", GcRepos, 1,
                          IF synced THEN 1 ELSE 0)
         IN  /\ gcInst = [active |-> start # "purged", sync |-> synced,
                          scope |-> IF synced THEN GcRepos ELSE {}, gen |-> 1]
             /\ gcJobs = CASE start = "asked" -> << >>
                          [] start = "failed" -> <<GcStopped(job, "failed")>>
                          [] start = "purged" -> <<GcStopped(job, "canceled")>>
                          [] OTHER -> <<job>>
             /\ gcRequests = IF start # "asked" THEN {}
                             ELSE {[kind |-> "backfill", scope |-> scope, sync |-> FALSE, gen |-> 1] :
                                     scope \in {GcRepos, GcLiveRepos}}
    /\ gcWalker = GcNone
    /\ gcAccess = GcRepos
    /\ gcRows = [k \in {} |-> k]
    /\ gcLive = {} /\ gcHistory = {} /\ gcBound = {}
    /\ \E first \in GcRepos, how \in {"inactive", "present"} :
         /\ first = CHOOSE r \in GcRepos : TRUE
         /\ how = "present" => gcInst.active /\ gcRequests = {}
         /\ gcElsewhere = [r \in GcRepos |-> IF r = first THEN how ELSE GcNone]
         /\ gcNative \in {{}} \cup (IF how = "inactive" /\ gcInst.sync THEN {GcRepos \ {first}} ELSE {})
    /\ gcVisible = gcNative \cup {r \in GcRepos : gcElsewhere[r] = "present"}
    /\ gcSlot = [w \in GcWorkers |-> GcIdle]
    /\ gcReceipts = {}
    /\ gcNotices = {} /\ gcEventsLeft = GcEvents

-----------------------------------------------------------------------------
(* Bindings and visibility.                                                 *)

GcBoundElsewhere(r) == gcElsewhere[r] # GcNone
GcRepresented(r, live, history) == r \in live \cup history \/ gcElsewhere[r] = "present"

\* retire_unrepresented_documents among the candidates.
GcRetire(candidates, live, history) ==
    gcVisible \ {r \in candidates : ~GcRepresented(r, live, history)}

\* Variant: the live membership stays.
GcRemoveHistoryOnly(repos, history) ==
    /\ gcHistory' = IF history THEN gcHistory \ repos ELSE gcHistory
    /\ gcVisible' = GcRetire(repos \cap gcBound, gcLive, gcHistory')
    /\ UNCHANGED <<gcLive, gcBound>>

\* remove_repository_membership, from the live lane and maybe from history.
GcRemoveMembership(repos, history) ==
    /\ gcLive' = gcLive \ repos
    /\ gcHistory' = IF history THEN gcHistory \ repos ELSE gcHistory
    /\ gcVisible' = GcRetire(repos \cap gcBound, gcLive', gcHistory')
    /\ UNCHANGED gcBound

-----------------------------------------------------------------------------
(* Queue admission.                                                         *)

GcOutstandingRows == {k \in DOMAIN gcRows : gcRows[k].status \in GcOutstanding}

\* enqueue_event for job j (0: live): what the installation and the job permit.
GcPermits(j, r) ==
    /\ gcInst.active
    /\ r \in (IF j = 0 THEN gcInst.scope ELSE gcJobs[j].scope)
    /\ IF j = 0 THEN gcInst.sync
       ELSE /\ gcJobs[j].state \in {"queued", "running"}
            /\ gcJobs[j].kind = "catchup" => gcInst.sync /\ gcJobs[j].gen = gcInst.gen

\* GitHubQueueCapacityReached: history leaves slots to live.
GcFull(j) == Cardinality(GcOutstandingRows) >= IF j = 0 THEN GcMaxQueue ELSE GcMaxHistory

GcAccepts(j, r) == GcPermits(j, r) /\ <<j, r>> \notin DOMAIN gcRows
GcNewRow(j, r) ==
    [k \in DOMAIN gcRows \cup {<<j, r>>} |->
       IF k = <<j, r>> THEN [status |-> "v2_pending", gen |-> gcInst.gen, lease |-> GcNone,
                             attempts |-> 0, payload |-> TRUE]
       ELSE gcRows[k]]

\* enqueue_live: a webhook of the installation; when the queue is full it is
\* answered 503 and redelivered.
GcWebhook(r) ==
    /\ GcAccepts(0, r) /\ ~GcFull(0)
    /\ gcRows' = GcNewRow(0, r)
    /\ UNCHANGED <<gcInst, gcWalker, gcEnv, gcJobs, gcDocs, gcSlot, gcRequests, gcReceipts, gcEventsLeft>>

-----------------------------------------------------------------------------
(* Requests and provider changes.                                           *)

GcSettings(active, sync, scope, gen) ==
    [active |-> active, sync |-> sync, scope |-> scope, gen |-> gen]

GcEvent == gcEventsLeft > 0 /\ gcEventsLeft' = gcEventsLeft - 1
GcFreeWalker(leases) == gcWalker' = IF gcWalker \in leases THEN GcNone ELSE gcWalker

\* patch_sync and start_backfill up to validate_scope: settings are read and the
\* provider is asked outside any lock.
GcAsk ==
    \E scope \in SUBSET GcRepos, sync \in BOOLEAN, kind \in {"patch", "backfill"} :
      /\ GcEvent
      /\ gcInst.active
      /\ CASE kind = "patch" ->
                /\ sync => scope # {}
                /\ sync \/ scope # gcInst.scope => scope \subseteq gcAccess
           [] kind = "backfill" ->
                /\ scope # {} /\ scope \subseteq gcAccess /\ ~sync
                /\ \A j \in DOMAIN gcJobs : gcJobs[j].key # 0
      /\ gcRequests' = gcRequests \cup
           {[kind |-> kind, scope |-> scope, sync |-> sync, gen |-> gcInst.gen]}
      /\ UNCHANGED <<gcInst, gcWalker, gcEnv, gcJobs, gcRows, gcDocs, gcSlot, gcReceipts>>

\* The transaction of patch_sync: live work and catch-ups of the old generation
\* end, deselected repositories leave the live lane, and a catch-up starts.
GcPatch(q) ==
    LET gen   == gcInst.gen + 1
        stale == {j \in DOMAIN gcJobs : gcJobs[j].kind = "catchup" /\ gcJobs[j].state \in GcActive}
        jobs  == [j \in DOMAIN gcJobs |->
                    IF j \in stale THEN GcStopped(gcJobs[j], "canceled") ELSE gcJobs[j]]
    IN  /\ gcInst' = GcSettings(TRUE, q.sync, q.scope, gen)
        /\ gcJobs' = IF q.sync THEN Append(jobs, GcJob("catchup", q.scope, gen, gen)) ELSE jobs
        /\ GcFreeWalker({gcJobs[j].lease : j \in stale} \ {GcNone})
        /\ gcRows' = GcCancelRows(gcRows, {k \in DOMAIN gcRows :
                                             k[1] = 0 \/ gcJobs[k[1]].kind = "catchup"})
        /\ GcRemoveMembership(gcInst.scope \ q.scope, FALSE)

\* create_job for start_backfill: one idempotency key (0) is used by all.
GcStartBackfill(q) ==
    /\ gcJobs' = IF \E j \in DOMAIN gcJobs : gcJobs[j].key = 0 THEN gcJobs
                 ELSE Append(gcJobs, GcJob("backfill", q.scope, gcInst.gen, 0))
    /\ UNCHANGED <<gcInst, gcWalker, gcRows, gcDocs>>

\* The request's transaction, under the installation's row lock: refused when
\* the installation is gone or a patch's revision has moved.
GcCommit(q) ==
    /\ IF ~gcInst.active \/ (q.kind = "patch" /\ q.gen # gcInst.gen)
       THEN UNCHANGED <<gcInst, gcWalker, gcJobs, gcRows, gcDocs>>
       ELSE IF q.kind = "patch" THEN GcPatch(q) ELSE GcStartBackfill(q)
    /\ gcRequests' = gcRequests \ {q}
    /\ UNCHANGED <<gcEnv, gcSlot, gcReceipts, gcEventsLeft>>

\* The writes of cancel_job.
GcCancelJob(j) ==
    /\ gcJobs' = [gcJobs EXCEPT ![j] = GcStopped(@, "canceled")]
    /\ GcFreeWalker({gcJobs[j].lease} \ {GcNone})
    /\ gcRows' = GcCancelRows(gcRows, GcRowsOf({j}))

GcCancel(j) ==
    /\ GcEvent
    /\ gcInst.active /\ gcJobs[j].state \in GcActive
    /\ GcCancelJob(j)
    /\ UNCHANGED <<gcInst, gcEnv, gcDocs, gcSlot, gcRequests, gcReceipts>>

\* retry_backfill: traversal restarts from the scope's root; failed and canceled
\* rows are deleted, the others keep deduplicating.  A repeated retry request is
\* answered from its receipt.
GcRetry(j) ==
    /\ GcEvent
    /\ gcInst.active /\ gcJobs[j].state \in {"failed", "canceled"}
    /\ j \notin gcReceipts
    /\ gcReceipts' = gcReceipts \cup {j}
    /\ gcJobs' = [gcJobs EXCEPT ![j] = GcAgain(@)]
    /\ gcRows' = [k \in {o \in DOMAIN gcRows :
                           ~(o[1] = j /\ gcRows[o].status \in {"v2_failed", "v2_canceled"})}
                    |-> gcRows[k]]
    /\ UNCHANGED <<gcInst, gcWalker, gcEnv, gcDocs, gcSlot, gcRequests>>

\* revoke_repository_access: a repository's removal is announced.  Live rows of
\* other repositories move to the new generation, jobs that include it fail.
GcRevoke(r) ==
    LET changed == r \in gcInst.scope
        scope   == gcInst.scope \ {r}
        gen     == IF changed THEN gcInst.gen + 1 ELSE gcInst.gen
        hit     == {j \in DOMAIN gcJobs : gcJobs[j].state \in GcActive /\ r \in gcJobs[j].scope}
        jobs    == [j \in DOMAIN gcJobs |->
                      GcCut(IF j \in hit THEN GcStopped(gcJobs[j], "failed") ELSE gcJobs[j], {r})]
        rows    == GcCancelRows(gcRows, GcRowsOf(hit) \cup IF changed THEN {<<0, r>>} ELSE {})
    IN  /\ r \in gcNotices
        /\ gcNotices' = gcNotices \ {r}
        /\ IF ~gcInst.active THEN UNCHANGED <<gcInst, gcWalker, gcJobs, gcRows, gcDocs>>
           ELSE /\ gcInst' = GcSettings(TRUE, gcInst.sync, scope, gen)
                /\ gcJobs' = IF changed /\ gcInst.sync /\ scope # {}
                             THEN Append(jobs, GcJob("catchup", scope, gen, gen)) ELSE jobs
                /\ gcRows' = [k \in DOMAIN rows |->
                                IF k[1] = 0 /\ changed /\ rows[k].status \in GcOutstanding
                                THEN GcRenewed(rows[k], gen) ELSE rows[k]]
                /\ GcFreeWalker({gcJobs[j].lease : j \in hit} \ {GcNone})
                /\ GcRemoveMembership({r}, TRUE)
        /\ UNCHANGED <<gcAccess, gcElsewhere, gcNative, gcSlot, gcRequests, gcReceipts, gcEventsLeft>>

\* The provider takes a repository away and will announce it by webhook.
GcAccessLost(r) ==
    /\ GcEvent /\ r \in gcAccess
    /\ gcAccess' = gcAccess \ {r}
    /\ gcNotices' = gcNotices \cup {r}
    /\ UNCHANGED <<gcInst, gcWalker, gcElsewhere, gcNative, gcJobs, gcRows, gcDocs, gcSlot,
                   gcRequests, gcReceipts>>

\* purge of the installation: owned documents are deleted, shared ones stay as
\* long as another installation represents them, unbound ones are not touched.
GcPurge ==
    /\ GcEvent
    /\ gcInst' = GcSettings(FALSE, FALSE, gcInst.scope, gcInst.gen + 1)
    /\ gcWalker' = GcNone
    /\ gcJobs' = [j \in DOMAIN gcJobs |->
                    GcCut(IF gcJobs[j].state \in GcActive THEN GcStopped(gcJobs[j], "canceled")
                          ELSE gcJobs[j], GcRepos)]
    /\ gcRows' = GcCancelRows(gcRows, DOMAIN gcRows)
    /\ gcLive' = {} /\ gcHistory' = {} /\ gcBound' = {}
    /\ gcVisible' = GcRetire({r \in gcBound : GcBoundElsewhere(r)}, {}, {})
                      \ {r \in gcBound : ~GcBoundElsewhere(r)}
    /\ UNCHANGED <<gcEnv, gcSlot, gcRequests, gcReceipts>>

\* seed_github_installation, protocol 2: the kept row becomes active again.
GcReconnect ==
    /\ GcEvent /\ ~gcInst.active
    /\ gcInst' = GcSettings(TRUE, gcInst.sync, gcInst.scope, gcInst.gen)
    /\ UNCHANGED <<gcWalker, gcEnv, gcJobs, gcRows, gcDocs, gcSlot, gcRequests, gcReceipts>>

-----------------------------------------------------------------------------
(* The worker: history walks.                                               *)

GcWalkSlot(step, j, room) ==
    [step |-> step, key |-> <<0, GcNone>>, outcome |-> GcNone, job |-> j, room |-> room]

\* history_step, the claim: one walker per installation.
GcHistoryClaim(w) ==
    \E j \in DOMAIN gcJobs :
      /\ gcSlot[w] = GcIdle
      /\ gcInst.active /\ gcWalker \in {GcNone, GcLost}
      /\ gcJobs[j].state = "queued" /\ ~gcJobs[j].enumerated
      /\ ~GcFull(j)
      /\ gcWalker' = w
      /\ gcJobs' = [gcJobs EXCEPT ![j] = GcStarted(@, w)]
      /\ gcSlot' = [gcSlot EXCEPT ![w] =
                      GcWalkSlot("list", j, GcMaxHistory - Cardinality(GcOutstandingRows))]
      /\ UNCHANGED <<gcInst, gcEnv, gcRows, gcDocs, gcRequests, gcReceipts, gcEventsLeft>>

GcHoldsJob(w) == LET j == gcSlot[w].job IN gcJobs[j].state = "running" /\ gcJobs[j].lease = w

\* The end of history_step: the job moves on if the lease still holds, and the
\* installation's walker is freed if it is still this one.
GcHistoryEnd(w, jobs) ==
    /\ gcJobs' = jobs
    /\ gcWalker' = IF gcWalker = w THEN GcNone ELSE gcWalker
    /\ gcSlot' = [gcSlot EXCEPT ![w] = GcIdle]
    /\ UNCHANGED <<gcInst, gcEnv, gcDocs, gcRequests, gcReceipts>>

\* An exception in history_step: the job fails visibly, to be retried.
GcHistoryFailed(w) ==
    GcHistoryEnd(w, IF GcHoldsJob(w)
                    THEN [gcJobs EXCEPT ![gcSlot[w].job] = GcStopped(@, "failed")]
                    ELSE gcJobs)

\* A walk without a cursor lists the installation's repositories first and fails
\* when one of its scope is not among them.
GcHistoryList(w) ==
    LET j == gcSlot[w].job
        lost == gcJobs[j].left = gcJobs[j].scope /\ ~(gcJobs[j].scope \subseteq gcAccess)
    IN  /\ gcSlot[w].step = "list"
        /\ IF lost THEN GcHistoryFailed(w)
           ELSE /\ gcSlot' = [gcSlot EXCEPT ![w] = GcWalkSlot("walk", j, gcSlot[w].room)]
                /\ UNCHANGED <<gcJobs, gcWalker, gcInst, gcEnv, gcDocs, gcRequests, gcReceipts>>
        /\ UNCHANGED <<gcRows, gcEventsLeft>>

\* Variant: the cursor moves past an event that found the queue full.
GcHistoryEventSkips(w) ==
    \E r \in GcRepos :
      LET j == gcSlot[w].job
          accepted == GcAccepts(j, r) /\ ~GcFull(j)
      IN  /\ gcSlot[w].step = "walk" /\ gcSlot[w].room > 0
          /\ gcInst.active /\ GcHoldsJob(w)
          /\ r \in gcJobs[j].left
          /\ gcRows' = IF accepted THEN GcNewRow(j, r) ELSE gcRows
          /\ gcJobs' = [gcJobs EXCEPT ![j] = GcPassed(@, r)]
          /\ gcSlot' = [gcSlot EXCEPT ![w] = GcWalkSlot("walk", j, IF accepted THEN @.room - 1
                                                                   ELSE @.room)]
          /\ UNCHANGED <<gcInst, gcWalker, gcEnv, gcDocs, gcRequests, gcReceipts, gcEventsLeft>>

\* One event of the walk: the cursor moves with the insert, and never past an
\* event that found the queue full.
GcHistoryEvent(w) ==
    \E r \in GcRepos :
      LET j == gcSlot[w].job
          accepted == GcAccepts(j, r)
      IN  /\ gcSlot[w].step = "walk" /\ gcSlot[w].room > 0
          /\ gcInst.active /\ GcHoldsJob(w)
          /\ r \in gcJobs[j].left
          /\ accepted => ~GcFull(j)
          /\ gcRows' = IF accepted THEN GcNewRow(j, r) ELSE gcRows
          /\ gcJobs' = [gcJobs EXCEPT ![j] = GcPassed(@, r)]
          /\ gcSlot' = [gcSlot EXCEPT ![w] = GcWalkSlot("walk", j, IF accepted THEN @.room - 1
                                                                   ELSE @.room)]
          /\ UNCHANGED <<gcInst, gcWalker, gcEnv, gcDocs, gcRequests, gcReceipts, gcEventsLeft>>

\* The walk stops: interrupted (the lease or the installation is gone), at its
\* batch or the queue's capacity (the job queues again) or complete.
GcHistoryStop(w) ==
    LET j == gcSlot[w].job
        held == gcInst.active /\ GcHoldsJob(w)
        blocked == gcSlot[w].room = 0 \/ \E r \in gcJobs[j].left : GcAccepts(j, r) /\ GcFull(j)
    IN  /\ gcSlot[w].step = "walk"
        /\ \/ ~held /\ GcHistoryEnd(w, gcJobs)
           \/ /\ held /\ blocked
              /\ GcHistoryEnd(w, [gcJobs EXCEPT ![j] = GcStopped(@, "queued")])
           \/ /\ held /\ gcSlot[w].room > 0 /\ gcJobs[j].left = {}
              /\ GcHistoryEnd(w, [gcJobs EXCEPT ![j] = GcEnumerated(@)])
        /\ UNCHANGED <<gcRows, gcEventsLeft>>

\* The provider fails or times out.
GcHistoryFail(w) ==
    /\ gcSlot[w].step \in {"list", "walk"} /\ GcEvent
    /\ GcHistoryFailed(w)
    /\ UNCHANGED gcRows

-----------------------------------------------------------------------------
(* The worker: queue rows.                                                  *)

GcRowSlot(step, k, outcome) ==
    [step |-> step, key |-> k, outcome |-> outcome, job |-> 0, room |-> 0]

\* queue_step, the claim.
GcClaim(w) ==
    \E k \in DOMAIN gcRows :
      /\ gcSlot[w] = GcIdle /\ gcRows[k].status = "v2_pending"
      /\ gcRows' = [gcRows EXCEPT ![k] = GcTaken(@, w)]
      /\ gcSlot' = [gcSlot EXCEPT ![w] = GcRowSlot("apply", k, GcNone)]
      /\ UNCHANGED <<gcInst, gcWalker, gcEnv, gcJobs, gcDocs, gcRequests, gcReceipts, gcEventsLeft>>

GcHoldsRow(w) == LET k == gcSlot[w].key IN
    k \in DOMAIN gcRows /\ gcRows[k].status = "v2_processing" /\ gcRows[k].lease = w

\* admit_projection, under the installation's and the job's row locks.
GcAdmit(w) ==
    LET k == gcSlot[w].key IN
    /\ k \in DOMAIN gcRows /\ gcInst.active
    /\ IF k[1] = 0 THEN gcInst.sync /\ gcInst.gen = gcRows[k].gen
       ELSE /\ gcJobs[k[1]].state \in {"queued", "running"}
            /\ gcJobs[k[1]].kind = "catchup" => gcInst.sync /\ gcJobs[k[1]].gen = gcInst.gen
    /\ GcHoldsRow(w)

\* _persist's GitHub part: the document is written or already there, and the
\* binding gets the row's lane.
GcBind(k) ==
    LET history == k[1] # 0 /\ gcJobs[k[1]].kind = "backfill"
    IN  /\ gcVisible' = gcVisible \cup {k[2]}
        /\ gcBound' = gcBound \cup {k[2]}
        /\ gcLive' = IF history THEN gcLive ELSE gcLive \cup {k[2]}
        /\ gcHistory' = IF history THEN gcHistory \cup {k[2]} ELSE gcHistory

\* A document that exists without any binding is a native one: GitHubIdentityConflict.
GcConflict(r) == r \in gcNative /\ r \notin gcBound /\ ~GcBoundElsewhere(r)

GcApply(w) ==
    LET k == gcSlot[w].key IN
    /\ gcSlot[w].step = "apply"
    /\ IF GcAdmit(w) /\ ~GcConflict(k[2]) THEN GcBind(k) ELSE UNCHANGED gcDocs
    /\ gcSlot' = [gcSlot EXCEPT ![w] =
                    GcRowSlot("finish", k, IF ~GcAdmit(w) THEN "v2_skipped"
                                           ELSE IF GcConflict(k[2]) THEN "conflict"
                                           ELSE "v2_completed")]
    /\ UNCHANGED <<gcInst, gcWalker, gcEnv, gcJobs, gcRows, gcRequests, gcReceipts, gcEventsLeft>>

\* _fail_identity_conflict: the row and, for history, its whole job fail.
GcFailConflict(w) ==
    LET k == gcSlot[w].key
        rows == [gcRows EXCEPT ![k] = GcEnded(@, "v2_failed")]
    IN  /\ gcRows' = IF k[1] = 0 THEN rows ELSE GcCancelRows(rows, GcRowsOf({k[1]}))
        /\ gcJobs' = IF k[1] = 0 THEN gcJobs
                     ELSE [gcJobs EXCEPT ![k[1]] = GcStopped(@, "failed")]
        /\ GcFreeWalker(IF k[1] = 0 THEN {} ELSE {gcJobs[k[1]].lease} \ {GcNone})

\* _finish: the row becomes terminal if the lease still holds.
GcFinish(w) ==
    LET k == gcSlot[w].key IN
    /\ gcSlot[w].step = "finish"
    /\ IF ~GcHoldsRow(w) THEN UNCHANGED <<gcRows, gcJobs, gcWalker>>
       ELSE IF gcSlot[w].outcome = "conflict" THEN GcFailConflict(w)
       ELSE /\ gcRows' = [gcRows EXCEPT ![k] = GcEnded(@, gcSlot[w].outcome)]
            /\ UNCHANGED <<gcJobs, gcWalker>>
    /\ gcSlot' = [gcSlot EXCEPT ![w] = GcIdle]
    /\ UNCHANGED <<gcInst, gcEnv, gcDocs, gcRequests, gcReceipts, gcEventsLeft>>

\* Pending again, or failed after the last attempt.
GcFailedTry(row) ==
    IF row.attempts >= GcMaxAttempts THEN GcEnded(row, "v2_failed") ELSE GcPending(row)

\* queue_step, any other exception: retried, or failed after the last attempt.
GcRowFails(w) ==
    LET k == gcSlot[w].key IN
    /\ gcSlot[w].step = "apply" \/ gcSlot[w].outcome = "v2_completed"
    /\ GcEvent
    /\ gcRows' = IF ~GcHoldsRow(w) THEN gcRows
                 ELSE [gcRows EXCEPT ![k] = GcFailedTry(@)]
    /\ gcSlot' = [gcSlot EXCEPT ![w] = GcIdle]
    /\ UNCHANGED <<gcInst, gcWalker, gcEnv, gcJobs, gcDocs, gcRequests, gcReceipts>>

\* A worker dies and another takes its place; its leases stay behind.
GcCrash(w) ==
    /\ gcSlot[w] # GcIdle /\ GcEvent
    /\ gcSlot' = [gcSlot EXCEPT ![w] = GcIdle]
    /\ gcRows' = [k \in DOMAIN gcRows |-> GcOrphan(gcRows[k], w)]
    /\ gcJobs' = [j \in DOMAIN gcJobs |-> GcOrphan(gcJobs[j], w)]
    /\ gcWalker' = IF gcWalker = w THEN GcLost ELSE gcWalker
    /\ UNCHANGED <<gcInst, gcEnv, gcDocs, gcRequests, gcReceipts>>

-----------------------------------------------------------------------------
(* reconcile.                                                               *)

\* Rows whose heartbeat stopped.
GcExpireRows(rows, expired) ==
    [k \in DOMAIN rows |->
       IF rows[k].status = "v2_processing" /\ rows[k].lease \in expired
       THEN GcFailedTry(rows[k]) ELSE rows[k]]

\* Running jobs whose heartbeat stopped: back to queued, or failed.
GcExpired(job) ==
    [job EXCEPT !.state = IF job.attempts >= GcMaxAttempts THEN "failed" ELSE "queued",
                !.lease = GcNone, !.attempts = @ + 1]
GcExpireJobs(expired) ==
    [j \in DOMAIN gcJobs |->
       IF gcJobs[j].state = "running" /\ gcJobs[j].lease \in expired
       THEN GcExpired(gcJobs[j]) ELSE gcJobs[j]]

\* An enumerated job without outstanding rows completes, or fails with its rows.
GcSettle(jobs, rows) ==
    [j \in DOMAIN jobs |->
       LET mine == {rows[k].status : k \in {o \in DOMAIN rows : o[1] = j}}
       IN  IF jobs[j].state = "running" /\ jobs[j].enumerated /\ jobs[j].lease = GcNone
              /\ mine \cap GcOutstanding = {}
           THEN GcStopped(jobs[j], IF "v2_failed" \in mine THEN "failed" ELSE "completed")
           ELSE jobs[j]]

\* Which leases look expired is a matter of time: a lost one sooner or later, one
\* in use only when its step stalls.
GcReconcile ==
    \E expired \in {{}, {GcLost}} \cup {{w} : w \in GcWorkers} :
      LET jobs == GcExpireJobs(expired)
          rows == GcCancelRows(GcExpireRows(gcRows, expired),
                    {k \in DOMAIN gcRows : k[1] # 0 /\ jobs[k[1]].state \in {"failed", "canceled"}})
      IN  /\ IF expired \subseteq {GcLost} THEN UNCHANGED gcEventsLeft ELSE GcEvent
          /\ gcRows' = rows
          /\ gcJobs' = GcSettle(jobs, rows)
          /\ gcWalker' = IF gcWalker \in expired THEN GcNone ELSE gcWalker
          /\ <<gcRows, gcJobs, gcWalker>>' # <<gcRows, gcJobs, gcWalker>>
          /\ UNCHANGED <<gcInst, gcEnv, gcDocs, gcSlot, gcRequests, gcReceipts>>

GcNext ==
    \/ GcAsk \/ (\E q \in gcRequests : GcCommit(q)) \/ GcPurge \/ GcReconnect \/ GcReconcile
    \/ (\E r \in GcLiveRepos : GcWebhook(r)) \/ \E r \in GcRepos : GcRevoke(r) \/ GcAccessLost(r)
    \/ \E j \in DOMAIN gcJobs : GcCancel(j) \/ GcRetry(j)
    \/ \E w \in GcWorkers :
         \/ GcHistoryClaim(w) \/ GcHistoryList(w) \/ GcHistoryEvent(w) \/ GcHistoryStop(w) \/ GcHistoryFail(w)
         \/ GcClaim(w) \/ GcApply(w) \/ GcFinish(w) \/ GcRowFails(w) \/ GcCrash(w)

GcSpec == GcInit /\ [][GcNext]_gcVars

-----------------------------------------------------------------------------
\* admit_projection and patch_sync: however late a row is applied, a document is
\* in the live lane only while its repository is selected, and an installation
\* that was purged has no binding, no outstanding row and no active job.
LiveLaneFollowsScope ==
    /\ gcInst.active => gcLive \subseteq gcInst.scope
    /\ ~gcInst.active => /\ gcBound = {} /\ GcOutstandingRows = {}
                         /\ \A j \in DOMAIN gcJobs : gcJobs[j].state \notin GcActive

GcRepresents(j) == gcJobs[j].scope \subseteq gcHistory \cup gcJobs[j].cut

\* reconcile: a backfill that completes at its first try has every repository of
\* its scope in the history lane, unless access to it was taken away meanwhile.
CompletedBackfillIsIndexed ==
    \A j \in DOMAIN gcJobs :
      gcJobs[j].kind = "backfill" /\ gcJobs[j].state = "completed" /\ gcJobs[j].retries = 0
        => GcRepresents(j)

=============================================================================
