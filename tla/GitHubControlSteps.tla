------------------------- MODULE GitHubControlSteps -------------------------
(***************************************************************************)
(* The inductive invariant of the GitHub control plane, for any            *)
(* repositories, any number of workers and any bounds, and the steps that  *)
(* keep it while the settings of the installation stay as they are;        *)
(* GitHubControlProofs has the rest of the steps and the theorems.         *)
(*                                                                         *)
(* Neither theorem is inductive: a worker takes a row, applies it and      *)
(* finishes it in three transactions, and the settings may change between  *)
(* any two. GcIInv says what the rows, the jobs and the workers' slots are *)
(* worth then.                                                             *)
(*                                                                         *)
(* Most operations change neither the settings nor the live lane.  For     *)
(* those it is enough that jobs, rows and workers moved as the relations   *)
(* below allow (GcJobMoves, GcRowMoves, GcSlotMoves): lemma OrdinaryStep   *)
(* derives the invariant from that once.                                   *)
(***************************************************************************)
EXTENDS GitHubControl, TLAPS

-----------------------------------------------------------------------------
\* The types: jobs, queue rows and what a worker has in hand.
GcLeases == GcWorkers \cup {GcNone, GcLost}
GcStates == {"queued", "running", "failed", "canceled", "completed"}
GcStatuses ==
    {"v2_pending", "v2_processing", "v2_completed", "v2_skipped", "v2_failed", "v2_canceled"}
GcJobRecs ==
    [kind: {"catchup", "backfill"}, scope: SUBSET GcRepos, gen: Nat, key: Nat, state: GcStates,
     lease: GcLeases, left: SUBSET GcRepos, enumerated: BOOLEAN, attempts: Nat, retries: Nat,
     cut: SUBSET GcRepos]
GcRowRecs == [status: GcStatuses, gen: Nat, lease: GcLeases, attempts: Nat, payload: BOOLEAN]
GcSlotOK(s) ==
    /\ s.step \in {"idle", "list", "walk", "apply", "finish"} /\ s.job \in Nat
    /\ s.outcome \in {GcNone, "v2_skipped", "conflict", "v2_completed"}
GcSlotsOK(f) == f = [w \in GcWorkers |-> f[w]] /\ \A w \in GcWorkers : GcSlotOK(f[w])
GcAsks == [kind: {"patch", "backfill"}, scope: SUBSET GcRepos, sync: BOOLEAN, gen: Nat]

GcTypeOK ==
    /\ gcInst \in [active: BOOLEAN, sync: BOOLEAN, scope: SUBSET GcRepos, gen: Nat]
    /\ gcJobs \in Seq(GcJobRecs)
    /\ gcHistory \subseteq GcRepos
    /\ DOMAIN gcRows \subseteq (0 .. Len(gcJobs)) \X GcRepos
    /\ gcRows \in [DOMAIN gcRows -> GcRowRecs]
    /\ GcSlotsOK(gcSlot)
    /\ gcRequests \subseteq GcAsks

\* What a worker's slot names is there.
GcPlaced == \A w \in GcWorkers :
    /\ gcSlot[w].step \in {"list", "walk"} => gcSlot[w].job \in DOMAIN gcJobs
    /\ gcSlot[w].step \in {"apply", "finish"} => gcSlot[w].key \in (0 .. Len(gcJobs)) \X GcRepos
    /\ gcSlot[w].step = "finish" => gcSlot[w].outcome # GcNone

\* The live lane: rows outstanding and catch-ups of the current generation are
\* within the selected scope, and a binding in the live lane is a binding.
GcSelected ==
    /\ \A k \in GcOutstandingRows : k[1] = 0 => k[2] \in gcInst.scope
    /\ \A j \in DOMAIN gcJobs :
         /\ gcJobs[j].gen <= gcInst.gen
         /\ gcJobs[j].kind = "catchup" /\ gcJobs[j].gen = gcInst.gen
              => gcJobs[j].scope \subseteq gcInst.scope
    /\ \A k \in DOMAIN gcRows : k[1] # 0 => k[2] \in gcJobs[k[1]].scope
    /\ gcLive \subseteq gcBound

\* A backfill no retry has reopened; a job that ended without completing; and a
\* repository in the history lane, or cut from the job since.
GcFirstTry(j) == gcJobs[j].kind = "backfill" /\ gcJobs[j].retries = 0
GcOver(j) == gcJobs[j].state \in {"failed", "canceled"}
GcHas(j, r) == r \in gcHistory \cup gcJobs[j].cut

\* A job at its first try: a repository it has passed has a row, and it neither
\* counts as enumerated nor completes before it has passed them all.
GcWalked == \A j \in DOMAIN gcJobs : GcFirstTry(j) =>
    /\ gcJobs[j].left \subseteq gcJobs[j].scope
    /\ gcJobs[j].enumerated => gcJobs[j].left = {}
    /\ \A r \in gcJobs[j].scope \ gcJobs[j].left : <<j, r>> \in DOMAIN gcRows
    /\ gcJobs[j].state = "completed" => gcJobs[j].left = {}

\* Its rows: one completes only with its repository in the history lane (or cut
\* from the job since), one is given up only with the job, and a completed job has
\* none that is not completed.
GcIndexed == \A k \in DOMAIN gcRows : k[1] # 0 /\ GcFirstTry(k[1]) =>
    /\ gcRows[k].status = "v2_completed" => GcHas(k[1], k[2])
    /\ gcRows[k].status \in {"v2_skipped", "v2_canceled"} => GcOver(k[1])
    /\ gcJobs[k[1]].state = "completed" => gcRows[k].status = "v2_completed"

\* A row about to be finished: what the worker decided when it applied the row
\* still stands when it finishes it, in a transaction of its own.
GcOutcome == \A w \in GcWorkers :
    LET k == gcSlot[w].key IN
    gcSlot[w].step = "finish" /\ k[1] # 0 /\ GcFirstTry(k[1]) =>
      /\ gcSlot[w].outcome = "v2_completed" => GcHas(k[1], k[2])
      /\ gcSlot[w].outcome = "v2_skipped" /\ GcHoldsRow(w) => GcOver(k[1])

GcIInv ==
    /\ GcTypeOK /\ GcPlaced /\ GcSelected /\ LiveLaneFollowsScope
    /\ GcWalked /\ GcIndexed /\ GcOutcome

-----------------------------------------------------------------------------
\* What the updates of a job leave as it was.
GcSameWalk(a, b) == /\ b \in GcJobRecs /\ b.kind = a.kind /\ b.scope = a.scope /\ b.gen = a.gen
                    /\ b.retries = a.retries /\ b.left = a.left /\ b.enumerated = a.enumerated

\* A job that is stopped (canceled, failed, completed or queued again) keeps its walk.
LEMMA StoppedJob ==
  ASSUME NEW job \in GcJobRecs, NEW s \in GcStates
  PROVE  /\ GcSameWalk(job, GcStopped(job, s)) /\ GcStopped(job, s).cut = job.cut
         /\ GcStopped(job, s).state = s
BY Zenon DEF GcJobRecs, GcStopped, GcSameWalk, GcLeases

\* The walker that claims a job (history_step) leaves its walk as it was.
LEMMA StartedJob ==
  ASSUME NEW job \in GcJobRecs, NEW w \in GcWorkers
  PROVE  /\ GcSameWalk(job, GcStarted(job, w)) /\ GcStarted(job, w).cut = job.cut
         /\ GcStarted(job, w).state = "running"
BY Zenon DEF GcJobRecs, GcStarted, GcSameWalk, GcLeases, GcStates

\* reconcile: a job whose walker is gone is queued again or failed, its walk kept.
LEMMA ExpiredJob ==
  ASSUME NEW job \in GcJobRecs
  PROVE  /\ GcSameWalk(job, GcExpired(job)) /\ GcExpired(job).cut = job.cut
         /\ GcExpired(job).state \in {"failed", "queued"}
<1>. DEFINE a == job.attempts + 1
            st == IF job.attempts >= GcMaxAttempts THEN "failed" ELSE "queued"
<1>1. a \in Nat /\ st \in {"failed", "queued"}
  BY DEF GcJobRecs
<1>2. GcExpired(job) = [job EXCEPT !.state = st, !.lease = GcNone, !.attempts = a]
  BY Zenon DEF GcExpired
<1>. HIDE DEF a, st
<1>. QED  BY ZenonT(30), <1>1, <1>2 DEF GcJobRecs, GcSameWalk, GcLeases, GcStates

\* A crash only orphans a job's lease.
LEMMA OrphanJob ==
  ASSUME NEW job \in GcJobRecs, NEW w
  PROVE  /\ GcSameWalk(job, GcOrphan(job, w)) /\ GcOrphan(job, w).cut = job.cut
         /\ GcOrphan(job, w).state = job.state
BY Zenon DEF GcJobRecs, GcOrphan, GcSameWalk, GcLeases

\* A revocation or a purge adds to what was cut from a job, and changes nothing else.
LEMMA CutJob ==
  ASSUME NEW job \in GcJobRecs, NEW repos \in SUBSET GcRepos
  PROVE  /\ GcSameWalk(job, GcCut(job, repos)) /\ GcCut(job, repos).cut = job.cut \cup repos
         /\ GcCut(job, repos).state = job.state
BY Zenon DEF GcJobRecs, GcCut, GcSameWalk

\* history_step: a repository that was walked is no longer left.
LEMMA PassedJob ==
  ASSUME NEW job \in GcJobRecs, NEW r
  PROVE  LET new == GcPassed(job, r) IN
         /\ new \in GcJobRecs /\ new.kind = job.kind /\ new.scope = job.scope /\ new.gen = job.gen
         /\ new.retries = job.retries /\ new.left = job.left \ {r}
         /\ new.enumerated = job.enumerated /\ new.cut = job.cut /\ new.state = job.state
BY Zenon DEF GcJobRecs, GcPassed

\* history_step: a walk that reached its end leaves the rest of the job as it was.
LEMMA EnumeratedJob ==
  ASSUME NEW job \in GcJobRecs
  PROVE  LET new == GcEnumerated(job) IN
         /\ new \in GcJobRecs /\ new.kind = job.kind /\ new.scope = job.scope /\ new.gen = job.gen
         /\ new.retries = job.retries /\ new.left = job.left
         /\ new.cut = job.cut /\ new.state = job.state
BY Zenon DEF GcJobRecs, GcEnumerated, GcLeases

\* retry_backfill: a job that is tried again is no longer at its first try.
LEMMA AgainJob ==
  ASSUME NEW job \in GcJobRecs
  PROVE  LET new == GcAgain(job) IN
         /\ new \in GcJobRecs /\ new.kind = job.kind /\ new.scope = job.scope /\ new.gen = job.gen
         /\ new.retries # 0 /\ new.cut = job.cut /\ new.state = "queued"
<1>. DEFINE a == job.attempts + 1
            t == job.retries + 1
<1>1. a \in Nat /\ t \in Nat \ {0} /\ job.scope \in SUBSET GcRepos
  BY DEF GcJobRecs
<1>2. GcAgain(job) = [job EXCEPT !.state = "queued", !.lease = GcNone, !.attempts = a,
                                 !.retries = t, !.enumerated = FALSE, !.left = job.scope]
  BY Zenon DEF GcAgain
<1>. HIDE DEF a, t
<1>3. GcAgain(job) = [kind |-> job.kind, scope |-> job.scope, gen |-> job.gen,
                      key |-> job.key, state |-> "queued", lease |-> GcNone,
                      left |-> job.scope, enumerated |-> FALSE, attempts |-> a,
                      retries |-> t, cut |-> job.cut]
  BY Zenon, <1>2 DEF GcJobRecs
<1>4. GcAgain(job) \in GcJobRecs
  BY <1>1, <1>3 DEF GcJobRecs, GcLeases, GcStates
<1>. QED  BY <1>1, <1>3, <1>4

\* create_job: a new job is queued with all of its scope left.
LEMMA NewJob ==
  ASSUME NEW kind \in {"catchup", "backfill"}, NEW scope \in SUBSET GcRepos,
         NEW gen \in Nat, NEW key \in Nat
  PROVE  LET new == GcJob(kind, scope, gen, key) IN
         /\ new \in GcJobRecs /\ new.kind = kind /\ new.scope = scope /\ new.gen = gen
         /\ new.retries = 0 /\ new.left = scope /\ ~new.enumerated
         /\ new.state = "queued"
BY Zenon DEF GcJobRecs, GcJob, GcLeases, GcStates

\* A row that has ended holds no lease.
LEMMA EndedRow ==
  ASSUME NEW row \in GcRowRecs, NEW status \in GcStatuses
  PROVE  /\ GcEnded(row, status) \in GcRowRecs /\ GcEnded(row, status).status = status
         /\ GcEnded(row, status).lease = GcNone
BY Zenon DEF GcRowRecs, GcEnded, GcLeases

\* A row that is pending again holds no lease.
LEMMA PendingRow ==
  ASSUME NEW row \in GcRowRecs
  PROVE  /\ GcPending(row) \in GcRowRecs /\ GcPending(row).status = "v2_pending"
         /\ GcPending(row).lease = GcNone
BY Zenon DEF GcRowRecs, GcPending, GcLeases, GcStatuses

\* queue_step: a row that is claimed is leased to its worker.
LEMMA TakenRow ==
  ASSUME NEW row \in GcRowRecs, NEW w \in GcWorkers
  PROVE  /\ GcTaken(row, w) \in GcRowRecs /\ GcTaken(row, w).status = "v2_processing"
         /\ GcTaken(row, w).lease = w
<1>. DEFINE a == row.attempts + 1
<1>1. a \in Nat
  BY DEF GcRowRecs
<1>2. GcTaken(row, w) = [row EXCEPT !.status = "v2_processing", !.lease = w, !.attempts = a]
  BY Zenon DEF GcTaken
<1>. HIDE DEF a
<1>. QED  BY Zenon, <1>1, <1>2 DEF GcRowRecs, GcLeases, GcStatuses

\* revoke_repository_access: a row moved to the new generation keeps its status and lease.
LEMMA RenewedRow ==
  ASSUME NEW row \in GcRowRecs, NEW gen \in Nat
  PROVE  /\ GcRenewed(row, gen) \in GcRowRecs /\ GcRenewed(row, gen).status = row.status
         /\ GcRenewed(row, gen).lease = row.lease
BY Zenon DEF GcRowRecs, GcRenewed

\* A crash only orphans a row's lease.
LEMMA OrphanRow ==
  ASSUME NEW row \in GcRowRecs, NEW w
  PROVE  /\ GcOrphan(row, w) \in GcRowRecs /\ GcOrphan(row, w).status = row.status
         /\ GcOrphan(row, w).lease = IF row.lease = w THEN GcLost ELSE row.lease
BY Zenon DEF GcRowRecs, GcOrphan, GcLeases

\* A failed try leaves a row pending or failed, and not leased.
LEMMA FailedTryRow ==
  ASSUME NEW row \in GcRowRecs
  PROVE  /\ GcFailedTry(row) \in GcRowRecs
         /\ GcFailedTry(row).status \in {"v2_pending", "v2_failed"}
         /\ GcFailedTry(row).lease = GcNone
BY Zenon, EndedRow, PendingRow DEF GcFailedTry, GcStatuses

\* A sequence written entry by entry is a sequence of the same length.
LEMMA Rebuilt ==
  ASSUME NEW T, NEW s \in Seq(T), NEW f \in [DOMAIN s -> T]
  PROVE  f \in Seq(T) /\ Len(f) = Len(s) /\ DOMAIN f = DOMAIN s
<1>1. Len(s) \in Nat /\ DOMAIN s = 1 .. Len(s)
  OBVIOUS
<1>2. f \in [1 .. Len(s) -> T]
  BY Zenon, <1>1
<1>3. f \in Seq(T)
  BY <1>1, <1>2
<1>. QED  BY <1>1, <1>2, <1>3

-----------------------------------------------------------------------------
\* What a step may do to a job, ...
GcOverStates == {"failed", "canceled"}
GcJobMoves(j) ==
    LET a == gcJobs[j]
        b == gcJobs'[j]
    IN  /\ b.kind = a.kind /\ b.scope = a.scope /\ b.gen = a.gen /\ a.cut \subseteq b.cut
        /\ b.kind = "backfill" /\ b.retries = 0 =>
             /\ a.retries = 0
             /\ b.left \subseteq a.left
             /\ \A r \in a.left \ b.left : <<j, r>> \in DOMAIN gcRows'
             /\ b.enumerated => a.enumerated \/ b.left = {}
             /\ a.state \in GcOverStates => b.state \in GcOverStates
             /\ b.state = "completed" =>
                  \/ a.state = "completed"
                  \/ a.enumerated /\ \A k \in DOMAIN gcRows' :
                                        k[1] = j => gcRows'[k].status = "v2_completed"
GcNewJob(j) ==
    LET b == gcJobs'[j] IN b.left = b.scope /\ ~b.enumerated /\ b.state = "queued"
GcJobsMove ==
    /\ DOMAIN gcJobs \subseteq DOMAIN gcJobs'
    /\ \A j \in DOMAIN gcJobs : GcJobMoves(j)
    /\ \A j \in DOMAIN gcJobs' \ DOMAIN gcJobs : GcNewJob(j)

\* ... to the rows, ...
GcRowAdvances(k) ==
    \/ gcRows'[k].status \in {"v2_pending", "v2_processing", "v2_failed"}
    \/ /\ gcRows'[k].status = "v2_canceled"
       /\ k[1] # 0 /\ GcFirstTry(k[1]) => gcJobs'[k[1]].state \in GcOverStates
    \/ /\ gcRows'[k].status = "v2_completed"
       /\ k[1] # 0 /\ GcFirstTry(k[1]) => GcHas(k[1], k[2])
    \/ /\ gcRows'[k].status = "v2_skipped"
       /\ k[1] # 0 /\ GcFirstTry(k[1]) => GcOver(k[1])
GcRowMoves(k) ==
    \/ k \in DOMAIN gcRows /\ gcRows'[k].status = gcRows[k].status
    \/ k \in DOMAIN gcRows /\ gcRows[k].status \in GcOutstanding /\ GcRowAdvances(k)
    \/ /\ k \notin DOMAIN gcRows /\ gcRows'[k].status = "v2_pending"
       /\ k[1] # 0 => k[1] \in DOMAIN gcJobs /\ gcJobs'[k[1]].state # "completed"
GcRowsMove ==
    /\ \A k \in DOMAIN gcRows : k[1] # 0 /\ gcJobs'[k[1]].retries = 0 => k \in DOMAIN gcRows'
    /\ \A k \in DOMAIN gcRows' : GcRowMoves(k)

\* ... to the history lane, ...
GcHistoryKept == \A r \in gcHistory \ gcHistory', j \in DOMAIN gcJobs : r \in gcJobs'[j].cut

\* ... and to the workers: a lease that is gone does not come back.
GcLeasesKept(w) == \A k \in DOMAIN gcRows' :
    gcRows'[k].status = "v2_processing" /\ gcRows'[k].lease = w
      => k \in DOMAIN gcRows /\ gcRows[k].status = "v2_processing" /\ gcRows[k].lease = w
GcSlotMoves(w) ==
    \/ gcSlot'[w] = gcSlot[w] /\ GcLeasesKept(w)
    \/ gcSlot'[w].step = "idle"
    \/ gcSlot'[w].step \in {"list", "walk"} /\ gcSlot'[w].job \in DOMAIN gcJobs
    \/ gcSlot'[w].step = "apply" /\ gcSlot'[w].key \in DOMAIN gcRows
GcSlotsMove == \A w \in GcWorkers : GcSlotMoves(w)

GcMoves == GcJobsMove /\ GcRowsMove /\ GcHistoryKept

\* What the types say of the jobs, and of the rows and the jobs they belong to.
LEMMA Domains ==
  GcTypeOK => /\ DOMAIN gcJobs = 1 .. Len(gcJobs) /\ Len(gcJobs) \in Nat
              /\ \A j \in DOMAIN gcJobs : gcJobs[j] \in GcJobRecs
              /\ \A k \in DOMAIN gcRows :
                   /\ gcRows[k] \in GcRowRecs /\ k = <<k[1], k[2]>>
                   /\ k[1] \in Nat /\ k[2] \in GcRepos
                   /\ k[1] # 0 => k[1] \in DOMAIN gcJobs
BY DEF GcTypeOK

\* A step within the moves keeps what is known of a walk: history_step passes a
\* repository only after its row was accepted, and a row of a first try is never deleted.
LEMMA WalkedStep ==
  ASSUME GcIInv, GcTypeOK', GcMoves
  PROVE  GcWalked'
<1>. SUFFICES ASSUME NEW j \in DOMAIN gcJobs', GcFirstTry(j)'
              PROVE  /\ gcJobs'[j].left \subseteq gcJobs'[j].scope
                     /\ gcJobs'[j].enumerated => gcJobs'[j].left = {}
                     /\ \A r \in gcJobs'[j].scope \ gcJobs'[j].left : <<j, r>> \in DOMAIN gcRows'
                     /\ gcJobs'[j].state = "completed" => gcJobs'[j].left = {}
  BY Zenon DEF GcWalked
<1>1. CASE j \notin DOMAIN gcJobs
  <2>1. GcNewJob(j)
    BY Zenon, <1>1 DEF GcMoves, GcJobsMove
  <2>. QED  BY Zenon, <2>1 DEF GcNewJob
<1>2. CASE j \in DOMAIN gcJobs
  <2>1. GcJobMoves(j) /\ gcJobs'[j].kind = "backfill" /\ gcJobs'[j].retries = 0
    BY Zenon, <1>2 DEF GcMoves, GcJobsMove, GcFirstTry
  <2>2. GcFirstTry(j)
    BY Zenon, <2>1 DEF GcFirstTry, GcJobMoves
  <2>3. /\ gcJobs[j].left \subseteq gcJobs[j].scope
        /\ gcJobs[j].enumerated => gcJobs[j].left = {}
        /\ \A r \in gcJobs[j].scope \ gcJobs[j].left : <<j, r>> \in DOMAIN gcRows
        /\ gcJobs[j].state = "completed" => gcJobs[j].left = {}
    BY Zenon, <1>2, <2>2 DEF GcIInv, GcWalked
  <2>4. gcJobs'[j].enumerated => gcJobs'[j].left = {}
    BY Zenon, <2>1, <2>3 DEF GcJobMoves
  <2>5. gcJobs'[j].state = "completed" => gcJobs'[j].left = {}
    BY Zenon, <2>1, <2>3 DEF GcJobMoves
  <2>6. ASSUME NEW r \in gcJobs'[j].scope \ gcJobs'[j].left
        PROVE  <<j, r>> \in DOMAIN gcRows'
    <3>1. CASE r \in gcJobs[j].left
      BY Zenon, <2>1, <2>6, <3>1 DEF GcJobMoves
    <3>2. CASE r \notin gcJobs[j].left
      <4>1. r \in gcJobs[j].scope
        BY Zenon, <2>1, <2>6 DEF GcJobMoves
      <4>2. <<j, r>> \in DOMAIN gcRows
        BY Zenon, <2>3, <3>2, <4>1
      <4>3. j # 0
        BY <1>2, Domains DEF GcIInv
      <4>. DEFINE k == <<j, r>>
      <4>4. k[1] = j
        BY Zenon
      <4>5. k[1] # 0 /\ gcJobs'[k[1]].retries = 0 => k \in DOMAIN gcRows'
        BY Zenon, <4>2 DEF GcMoves, GcRowsMove
      <4>. QED  BY Zenon, <2>1, <4>3, <4>4, <4>5
    <3>. QED  BY Zenon, <3>1, <3>2
  <2>7. gcJobs'[j].left \subseteq gcJobs'[j].scope
    BY Zenon, <2>1, <2>3 DEF GcJobMoves
  <2>. QED  BY Zenon, <2>4, <2>5, <2>6, <2>7
<1>. QED  BY Zenon, <1>1, <1>2

\* What leaves the history lane was cut from every job: a repository a job has, it keeps.
LEMMA HasKept ==
  ASSUME GcMoves, NEW j \in DOMAIN gcJobs, NEW r, GcHas(j, r)
  PROVE  GcHas(j, r)'
BY Zenon DEF GcMoves, GcJobsMove, GcJobMoves, GcHistoryKept, GcHas

\* A job at its first try that has failed or was canceled stays so; only a retry reopens it.
LEMMA OverKept ==
  ASSUME GcMoves, NEW j \in DOMAIN gcJobs, GcFirstTry(j)'
  PROVE  GcFirstTry(j) /\ (GcOver(j) => GcOver(j)')
<1>1. GcJobMoves(j) /\ gcJobs'[j].kind = "backfill" /\ gcJobs'[j].retries = 0
  BY Zenon DEF GcMoves, GcJobsMove, GcFirstTry
<1>. QED  BY Zenon, <1>1 DEF GcFirstTry, GcOver, GcJobMoves, GcOverStates

\* A step within the moves keeps what is known of the rows of a first try: they complete
\* only with their repository in the history lane, and end otherwise only with their job.
LEMMA IndexedStep ==
  ASSUME GcIInv, GcTypeOK', GcMoves
  PROVE  GcIndexed'
<1>. SUFFICES ASSUME NEW k \in DOMAIN gcRows', k[1] # 0, GcFirstTry(k[1])'
              PROVE  /\ gcRows'[k].status = "v2_completed" => GcHas(k[1], k[2])'
                     /\ gcRows'[k].status \in {"v2_skipped", "v2_canceled"} => GcOver(k[1])'
                     /\ gcJobs'[k[1]].state = "completed" => gcRows'[k].status = "v2_completed"
  BY Zenon DEF GcIndexed
<1>1. GcRowMoves(k)
  BY Zenon DEF GcMoves, GcRowsMove
<1>2. CASE k \notin DOMAIN gcRows
  BY Zenon, <1>1, <1>2 DEF GcRowMoves
<1>3. CASE k \in DOMAIN gcRows
  <2>. DEFINE j == k[1]
  <2>1. j \in DOMAIN gcJobs
    BY Zenon, <1>3, Domains DEF GcIInv
  <2>2. GcFirstTry(j) /\ (GcOver(j) => GcOver(j)')
    BY Zenon, <2>1, OverKept
  <2>3. GcHas(j, k[2]) => GcHas(j, k[2])'
    BY Zenon, <2>1, HasKept
  <2>4. /\ gcRows[k].status = "v2_completed" => GcHas(j, k[2])
        /\ gcRows[k].status \in {"v2_skipped", "v2_canceled"} => GcOver(j)
        /\ gcJobs[j].state = "completed" => gcRows[k].status = "v2_completed"
    BY Zenon, <1>3, <2>2 DEF GcIInv, GcIndexed
  <2>5. gcJobs'[j].state = "completed" =>
           gcJobs[j].state = "completed" \/ gcRows'[k].status = "v2_completed"
    BY Zenon, <2>1 DEF GcMoves, GcJobsMove, GcJobMoves, GcFirstTry
  <2>. HIDE DEF j
  <2>6. CASE gcRows'[k].status = gcRows[k].status
    BY Zenon, <2>2, <2>3, <2>4, <2>5, <2>6 DEF j
  <2>7. CASE gcRows[k].status \in GcOutstanding /\ GcRowAdvances(k)
    <3>1. gcJobs[j].state # "completed"
      BY Zenon, <2>4, <2>7 DEF GcOutstanding
    <3>2. gcRows'[k].status = "v2_completed" => GcHas(j, k[2])'
      BY Zenon, <2>2, <2>3, <2>7 DEF GcRowAdvances, j
    <3>3. gcRows'[k].status \in {"v2_skipped", "v2_canceled"} => GcOver(j)'
      BY Zenon, <2>2, <2>7 DEF GcRowAdvances, j, GcOver, GcOverStates
    <3>. QED  BY Zenon, <2>5, <3>1, <3>2, <3>3 DEF j
  <2>. QED  BY Zenon, <1>1, <1>3, <2>6, <2>7 DEF GcRowMoves
<1>. QED  BY Zenon, <1>2, <1>3

\* What a worker took into its slot stays true of it while it holds the lease: queue_step
\* applies in one transaction and finishes in another.
LEMMA SlotStep ==
  ASSUME GcIInv, GcTypeOK', GcMoves, NEW w \in GcWorkers, GcSlotMoves(w)
  PROVE  /\ gcSlot'[w].step \in {"list", "walk"} => gcSlot'[w].job \in DOMAIN gcJobs'
         /\ gcSlot'[w].step \in {"apply", "finish"}
              => gcSlot'[w].key \in (0 .. Len(gcJobs')) \X GcRepos
         /\ gcSlot'[w].step = "finish" => gcSlot'[w].outcome # GcNone
         /\ gcSlot'[w].step = "finish" /\ gcSlot'[w].key[1] # 0 /\ GcFirstTry(gcSlot[w].key[1])' =>
              /\ gcSlot'[w].outcome = "v2_completed" => GcHas(gcSlot[w].key[1], gcSlot[w].key[2])'
              /\ gcSlot'[w].outcome = "v2_skipped" /\ GcHoldsRow(w)' => GcOver(gcSlot[w].key[1])'
<1>1. Len(gcJobs) <= Len(gcJobs') /\ Len(gcJobs) \in Nat /\ Len(gcJobs') \in Nat
  <2>1. DOMAIN gcJobs = 1 .. Len(gcJobs) /\ Len(gcJobs) \in Nat
    BY Zenon, Domains DEF GcIInv
  <2>2. DOMAIN gcJobs' = 1 .. Len(gcJobs') /\ Len(gcJobs') \in Nat
    BY DEF GcTypeOK
  <2>3. 1 .. Len(gcJobs) \subseteq 1 .. Len(gcJobs')
    BY Zenon, <2>1, <2>2 DEF GcMoves, GcJobsMove
  <2>. QED  BY <2>1, <2>2, <2>3
<1>2. /\ gcSlot'[w].step \in {"list", "walk"} => gcSlot'[w].job \in DOMAIN gcJobs'
      /\ gcSlot'[w].step \in {"apply", "finish"}
           => gcSlot'[w].key \in (0 .. Len(gcJobs')) \X GcRepos
      /\ gcSlot'[w].step = "finish" => gcSlot'[w].outcome # GcNone
  <2>1. (0 .. Len(gcJobs)) \X GcRepos \subseteq (0 .. Len(gcJobs')) \X GcRepos
    BY <1>1
  <2>2. DOMAIN gcRows \subseteq (0 .. Len(gcJobs)) \X GcRepos
    BY Zenon DEF GcIInv, GcTypeOK
  <2>3. DOMAIN gcJobs \subseteq DOMAIN gcJobs'
    BY Zenon DEF GcMoves, GcJobsMove
  <2>. QED  BY Zenon, <2>1, <2>2, <2>3 DEF GcSlotMoves, GcIInv, GcPlaced
<1>4. ASSUME gcSlot'[w].step = "finish", gcSlot'[w].key[1] # 0,
             GcFirstTry(gcSlot[w].key[1])'
      PROVE  /\ gcSlot'[w].outcome = "v2_completed"
                  => GcHas(gcSlot[w].key[1], gcSlot[w].key[2])'
             /\ gcSlot'[w].outcome = "v2_skipped" /\ GcHoldsRow(w)'
                  => GcOver(gcSlot[w].key[1])'
  <2>1. gcSlot'[w] = gcSlot[w] /\ GcLeasesKept(w)
    BY Zenon, <1>4 DEF GcSlotMoves
  <2>2. PICK k \in (0 .. Len(gcJobs)) \X GcRepos : k = gcSlot[w].key
    BY Zenon, <1>4, <2>1 DEF GcIInv, GcPlaced
  <2>k. k[1] # 0 /\ gcSlot'[w].key = k
    BY Zenon, <1>4, <2>1, <2>2
  <2>3. k[1] \in DOMAIN gcJobs
    BY <2>2, <2>k, Domains DEF GcIInv
  <2>4. GcFirstTry(k[1]) /\ (GcOver(k[1]) => GcOver(k[1])')
    <3>1. GcFirstTry(k[1])'
      BY Zenon, <1>4, <2>k DEF GcFirstTry
    <3>. QED  BY Zenon, <2>3, <3>1, OverKept
  <2>5. /\ gcSlot[w].outcome = "v2_completed" => GcHas(k[1], k[2])
        /\ gcSlot[w].outcome = "v2_skipped" /\ GcHoldsRow(w) => GcOver(k[1])
    BY Zenon, <1>4, <2>1, <2>2, <2>k, <2>4 DEF GcIInv, GcOutcome
  <2>6. GcHoldsRow(w)' => GcHoldsRow(w)
    BY Zenon, <2>1 DEF GcHoldsRow, GcLeasesKept
  <2>7. GcHas(k[1], k[2]) => GcHas(k[1], k[2])'
    BY Zenon, <2>3, HasKept
  <2>8. gcSlot[w].outcome = "v2_completed" => GcHas(k[1], k[2])'
    BY Zenon, <2>5, <2>7
  <2>9. gcSlot[w].outcome = "v2_skipped" /\ GcHoldsRow(w)' => GcOver(k[1])'
    BY Zenon, <2>4, <2>5, <2>6
  <2>. QED  BY Zenon, <2>1, <2>k, <2>8, <2>9 DEF GcHas, GcOver
<1>. QED  BY Zenon, <1>2, <1>4

\* The same for all of the workers.
LEMMA SlotsStep ==
  ASSUME GcIInv, GcTypeOK', GcMoves, GcSlotsMove
  PROVE  GcPlaced' /\ GcOutcome'
<1>1. \A w \in GcWorkers : GcSlotMoves(w)
  BY Zenon DEF GcSlotsMove
<1>2. GcPlaced'
  BY Zenon, <1>1, SlotStep DEF GcPlaced
<1>3. GcOutcome'
  BY Zenon, <1>1, SlotStep DEF GcOutcome
<1>. QED  BY Zenon, <1>2, <1>3

-----------------------------------------------------------------------------
\* A step that changes neither the settings nor the live lane.
GcWithin ==
    /\ gcInst' = gcInst /\ gcLive' = gcLive /\ gcBound' = gcBound
    /\ \A k \in DOMAIN gcRows' \ DOMAIN gcRows :
         gcInst.active /\ k[2] \in IF k[1] = 0 THEN gcInst.scope ELSE gcJobs[k[1]].scope
    /\ \A j \in DOMAIN gcJobs' \ DOMAIN gcJobs :
         gcInst.active /\ gcJobs'[j].kind = "backfill" /\ gcJobs'[j].gen <= gcInst.gen
    /\ \A j \in DOMAIN gcJobs :
         gcJobs'[j].state \in GcActive => gcInst.active \/ gcJobs[j].state \in GcActive

\* A row that is outstanding after a step was outstanding before it.
LEMMA OldRow ==
  ASSUME GcMoves, NEW k \in DOMAIN gcRows', gcRows'[k].status \in GcOutstanding
  PROVE  k \in DOMAIN gcRows => gcRows[k].status \in GcOutstanding
BY Zenon DEF GcMoves, GcRowsMove, GcRowMoves

\* A backfill's rows stay within its scope.
LEMMA RowScopes ==
  ASSUME GcIInv, GcTypeOK', GcMoves,
         \A k \in DOMAIN gcRows' \ DOMAIN gcRows : k[1] # 0 => k[2] \in gcJobs[k[1]].scope
  PROVE  \A k \in DOMAIN gcRows' : k[1] # 0 => k[2] \in gcJobs'[k[1]].scope
<1>. SUFFICES ASSUME NEW k \in DOMAIN gcRows', k[1] # 0
              PROVE  k[2] \in gcJobs'[k[1]].scope
  BY Zenon
<1>1. k[1] \in DOMAIN gcJobs
  <2>1. CASE k \in DOMAIN gcRows
    BY Zenon, <2>1, Domains DEF GcIInv
  <2>2. CASE k \notin DOMAIN gcRows
    BY Zenon, <2>2 DEF GcMoves, GcRowsMove, GcRowMoves
  <2>. QED  BY Zenon, <2>1, <2>2
<1>2. gcJobs'[k[1]].scope = gcJobs[k[1]].scope
  BY Zenon, <1>1 DEF GcMoves, GcJobsMove, GcJobMoves
<1>3. k[2] \in gcJobs[k[1]].scope
  BY Zenon DEF GcIInv, GcSelected
<1>. QED  BY Zenon, <1>2, <1>3

\* A step that leaves the settings and the live lane alone keeps the live lane selected:
\* the rows it adds are in the scope (enqueue_event), the jobs it adds are backfills.
LEMMA WithinStep ==
  ASSUME GcIInv, GcTypeOK', GcMoves, GcWithin
  PROVE  GcSelected' /\ LiveLaneFollowsScope'
<1>1. \A k \in DOMAIN gcRows' : k[1] # 0 => k[2] \in gcJobs'[k[1]].scope
  BY Zenon, RowScopes DEF GcWithin
<1>2. ASSUME NEW k \in GcOutstandingRows', k[1] = 0
      PROVE  k[2] \in gcInst'.scope
  <2>1. k \in DOMAIN gcRows' /\ gcRows'[k].status \in GcOutstanding
    BY Zenon, <1>2 DEF GcOutstandingRows
  <2>2. CASE k \in DOMAIN gcRows
    BY Zenon, <1>2, <2>1, <2>2, OldRow DEF GcIInv, GcSelected, GcWithin, GcOutstandingRows
  <2>3. CASE k \notin DOMAIN gcRows
    BY Zenon, <1>2, <2>1, <2>3 DEF GcWithin
  <2>. QED  BY Zenon, <2>2, <2>3
<1>3. ASSUME NEW j \in DOMAIN gcJobs'
      PROVE  /\ gcJobs'[j].gen <= gcInst'.gen
             /\ gcJobs'[j].kind = "catchup" /\ gcJobs'[j].gen = gcInst'.gen
                  => gcJobs'[j].scope \subseteq gcInst'.scope
  <2>1. CASE j \in DOMAIN gcJobs
    BY <2>1 DEF GcWithin, GcMoves, GcJobsMove, GcJobMoves, GcIInv, GcSelected
  <2>2. CASE j \notin DOMAIN gcJobs
    BY Zenon, <2>2 DEF GcWithin
  <2>. QED  BY Zenon, <2>1, <2>2
<1>4. GcSelected'
  BY Zenon, <1>1, <1>2, <1>3 DEF GcWithin, GcIInv, GcSelected
<1>5. ASSUME ~gcInst'.active
      PROVE  /\ gcBound' = {} /\ GcOutstandingRows' = {}
             /\ \A j \in DOMAIN gcJobs' : gcJobs'[j].state \notin GcActive
  <2>1. ~gcInst.active /\ gcBound = {} /\ GcOutstandingRows = {}
        /\ \A j \in DOMAIN gcJobs : gcJobs[j].state \notin GcActive
    BY Zenon, <1>5 DEF GcWithin, GcIInv, LiveLaneFollowsScope
  <2>2. ASSUME NEW k \in GcOutstandingRows'
        PROVE  FALSE
    <3>1. k \in DOMAIN gcRows' /\ gcRows'[k].status \in GcOutstanding
      BY Zenon, <2>2 DEF GcOutstandingRows
    <3>2. k \in DOMAIN gcRows
      BY Zenon, <2>1, <3>1 DEF GcWithin
    <3>. QED  BY Zenon, <2>1, <3>1, <3>2, OldRow DEF GcOutstandingRows
  <2>. QED  BY Zenon, <2>1, <2>2 DEF GcWithin
<1>. QED  BY Zenon, <1>4, <1>5 DEF LiveLaneFollowsScope, GcWithin, GcIInv

\* Together: a step within the moves that leaves the settings and the live lane alone.
LEMMA OrdinaryStep ==
  ASSUME GcIInv, GcTypeOK', GcMoves, GcSlotsMove, GcWithin
  PROVE  GcIInv'
BY Zenon, WalkedStep, IndexedStep, SlotsStep, WithinStep DEF GcIInv

-----------------------------------------------------------------------------
\* A sequence with one entry replaced.
LEMMA OneChanged ==
  ASSUME NEW T, NEW s \in Seq(T), NEW j \in DOMAIN s, NEW h \in T
  PROVE  LET new == [s EXCEPT ![j] = h] IN
         /\ new \in Seq(T) /\ Len(new) = Len(s) /\ DOMAIN new = DOMAIN s
         /\ \A i \in DOMAIN s : new[i] = IF i = j THEN h ELSE s[i]
OBVIOUS

\* A sequence with one entry appended.
LEMMA OneAdded ==
  ASSUME NEW T, NEW s \in Seq(T), NEW h \in T
  PROVE  LET new == Append(s, h) IN
         /\ new \in Seq(T) /\ Len(new) = Len(s) + 1
         /\ DOMAIN new = DOMAIN s \cup {Len(s) + 1} /\ Len(s) + 1 \notin DOMAIN s
         /\ new[Len(s) + 1] = h
         /\ \A i \in DOMAIN s : new[i] = s[i]
<1>1. DOMAIN s = 1 .. Len(s) /\ Len(s) \in Nat
  OBVIOUS
<1>2. Append(s, h) \in Seq(T) /\ Len(Append(s, h)) = Len(s) + 1
  OBVIOUS
<1>3. DOMAIN Append(s, h) = 1 .. Len(s) + 1
  BY <1>2
<1>. QED  BY <1>1, <1>2, <1>3

\* A job whose walk is as it was has moved as jobs may.
LEMMA SameJobMoves ==
  ASSUME NEW j \in DOMAIN gcJobs, GcSameWalk(gcJobs[j], gcJobs'[j]),
         gcJobs[j].cut \subseteq gcJobs'[j].cut,
         gcJobs[j].state \in GcOverStates => gcJobs'[j].state \in GcOverStates,
         gcJobs'[j].state = "completed" => gcJobs[j].state = "completed"
  PROVE  GcJobMoves(j)
BY Zenon DEF GcJobMoves, GcSameWalk

\* Jobs that are as they were have moved as jobs may.
LEMMA SameJobs ==
  ASSUME gcJobs' = gcJobs
  PROVE  GcJobsMove
BY Zenon DEF GcJobsMove, GcJobMoves

\* Rows that are as they were have moved as rows may.
LEMMA SameRows ==
  ASSUME gcRows' = gcRows
  PROVE  GcRowsMove
BY Zenon DEF GcRowsMove, GcRowMoves

\* Workers that are as they were, under rows that are as they were, have moved as they may.
LEMMA SameSlots ==
  ASSUME gcRows' = gcRows, gcSlot' = gcSlot
  PROVE  GcSlotsMove
BY ZenonT(30) DEF GcSlotsMove, GcSlotMoves, GcLeasesKept

\* A step that changes nothing.
LEMMA Stutter ==
  ASSUME GcIInv, UNCHANGED gcVars
  PROVE  GcIInv'
BY DEF GcIInv, gcVars, gcDocs, gcEnv, GcTypeOK, GcPlaced, GcSelected, GcOutstandingRows,
       LiveLaneFollowsScope, GcWalked, GcFirstTry, GcIndexed, GcHas, GcOver, GcOutcome, GcHoldsRow

\* The rows canceled are the outstanding ones of those asked for.
LEMMA CanceledRows ==
  ASSUME NEW rows, rows \in [DOMAIN rows -> GcRowRecs], NEW keys
  PROVE  LET new == GcCancelRows(rows, keys) IN
         /\ new \in [DOMAIN rows -> GcRowRecs] /\ DOMAIN new = DOMAIN rows
         /\ \A k \in DOMAIN rows :
              IF k \in keys /\ rows[k].status \in GcOutstanding
              THEN new[k].status = "v2_canceled" /\ new[k].lease = GcNone
              ELSE new[k] = rows[k]
<1>1. ASSUME NEW k \in DOMAIN rows
      PROVE  LET new == IF k \in keys /\ rows[k].status \in GcOutstanding
                        THEN GcEnded(rows[k], "v2_canceled") ELSE rows[k]
             IN  /\ new \in GcRowRecs
                 /\ IF k \in keys /\ rows[k].status \in GcOutstanding
                    THEN new.status = "v2_canceled" /\ new.lease = GcNone
                    ELSE new = rows[k]
  <2>1. rows[k] \in GcRowRecs /\ "v2_canceled" \in GcStatuses
    BY Zenon DEF GcStatuses
  <2>2. /\ GcEnded(rows[k], "v2_canceled") \in GcRowRecs
        /\ GcEnded(rows[k], "v2_canceled").status = "v2_canceled"
        /\ GcEnded(rows[k], "v2_canceled").lease = GcNone
    BY Zenon, <2>1, EndedRow
  <2>. QED  BY Zenon, <2>1, <2>2
<1>. QED  BY Zenon, <1>1 DEF GcCancelRows

\* One job is written, its walk kept.
LEMMA OneJobMoves ==
  ASSUME GcTypeOK, NEW j \in DOMAIN gcJobs, NEW h, GcSameWalk(gcJobs[j], h),
         gcJobs' = [gcJobs EXCEPT ![j] = h],
         gcJobs[j].cut \subseteq h.cut,
         gcJobs[j].state \in GcOverStates => h.state \in GcOverStates,
         h.state = "completed" => gcJobs[j].state = "completed"
  PROVE  /\ gcJobs' \in Seq(GcJobRecs) /\ Len(gcJobs') = Len(gcJobs)
         /\ DOMAIN gcJobs' = DOMAIN gcJobs /\ GcJobsMove
         /\ \A i \in DOMAIN gcJobs : gcJobs'[i] = IF i = j THEN h ELSE gcJobs[i]
<1>1. gcJobs \in Seq(GcJobRecs) /\ h \in GcJobRecs
  BY Zenon DEF GcTypeOK, GcSameWalk
<1>2. /\ gcJobs' \in Seq(GcJobRecs) /\ Len(gcJobs') = Len(gcJobs)
      /\ DOMAIN gcJobs' = DOMAIN gcJobs
      /\ \A i \in DOMAIN gcJobs : gcJobs'[i] = IF i = j THEN h ELSE gcJobs[i]
  BY ZenonT(30), <1>1, OneChanged
<1>3. ASSUME NEW i \in DOMAIN gcJobs
      PROVE  GcJobMoves(i)
  <2>1. CASE i = j
    BY Zenon, <1>2, <2>1, SameJobMoves
  <2>2. CASE i # j
    BY Zenon, <1>2, <2>2 DEF GcJobMoves
  <2>. QED  BY Zenon, <2>1, <2>2
<1>. QED  BY Zenon, <1>2, <1>3 DEF GcJobsMove

\* One worker moves on to something that is there, the leases of the others kept.
LEMMA OneSlotMoves ==
  ASSUME GcTypeOK, NEW w \in GcWorkers, NEW s, GcSlotOK(s),
         gcSlot' = [gcSlot EXCEPT ![w] = s],
         \/ s.step = "idle"
         \/ s.step \in {"list", "walk"} /\ s.job \in DOMAIN gcJobs
         \/ s.step = "apply" /\ s.key \in DOMAIN gcRows,
         \A v \in GcWorkers \ {w} : GcLeasesKept(v)
  PROVE  GcSlotsOK(gcSlot') /\ GcSlotsMove
<1>1. \A v \in GcWorkers : gcSlot'[v] = IF v = w THEN s ELSE gcSlot[v]
  BY Zenon DEF GcTypeOK, GcSlotsOK
<1>2. GcSlotsOK(gcSlot')
  BY Zenon DEF GcTypeOK, GcSlotsOK
<1>. QED  BY Zenon, <1>1, <1>2 DEF GcSlotsMove, GcSlotMoves

\* An idle worker's slot.
LEMMA IdleSlot ==
  GcSlotOK(GcIdle) /\ GcIdle.step = "idle"
BY Zenon DEF GcIdle, GcSlotOK

\* The slot of a worker that lists or walks a job.
LEMMA WalkSlot ==
  ASSUME NEW step \in {"list", "walk"}, NEW j \in Nat, NEW room
  PROVE  /\ GcSlotOK(GcWalkSlot(step, j, room)) /\ GcWalkSlot(step, j, room).step = step
         /\ GcWalkSlot(step, j, room).job = j
BY Zenon DEF GcWalkSlot, GcSlotOK

\* The slot of a worker that applies or finishes a row.
LEMMA RowSlot ==
  ASSUME NEW step \in {"apply", "finish"}, NEW k \in Nat \X GcRepos,
         NEW outcome \in {GcNone, "v2_skipped", "conflict", "v2_completed"}
  PROVE  /\ GcSlotOK(GcRowSlot(step, k, outcome)) /\ GcRowSlot(step, k, outcome).step = step
         /\ GcRowSlot(step, k, outcome).key = k /\ GcRowSlot(step, k, outcome).outcome = outcome
BY Zenon DEF GcRowSlot, GcSlotOK

\* enqueue_event: one row more, in the selected scope or in its job's.
LEMMA NewRowMoves ==
  ASSUME GcIInv, NEW j \in {0} \cup DOMAIN gcJobs, NEW r \in GcRepos, GcAccepts(j, r),
         gcRows' = GcNewRow(j, r),
         j # 0 => gcJobs'[j].state # "completed"
  PROVE  /\ DOMAIN gcRows' = DOMAIN gcRows \cup {<<j, r>>}
         /\ DOMAIN gcRows' \subseteq (0 .. Len(gcJobs)) \X GcRepos
         /\ gcRows' \in [DOMAIN gcRows' -> GcRowRecs]
         /\ GcRowsMove /\ \A v \in GcWorkers : GcLeasesKept(v)
         /\ \A k \in DOMAIN gcRows' \ DOMAIN gcRows :
              gcInst.active /\ k[2] \in IF k[1] = 0 THEN gcInst.scope ELSE gcJobs[k[1]].scope
<1>. DEFINE n == [status |-> "v2_pending", gen |-> gcInst.gen, lease |-> GcNone,
                  attempts |-> 0, payload |-> TRUE]
            key == <<j, r>>
<1>1. n \in GcRowRecs /\ n.status = "v2_pending" /\ n.lease = GcNone
  BY Zenon DEF GcIInv, GcTypeOK, GcRowRecs, GcStatuses, GcLeases
<1>2. DOMAIN gcRows' = DOMAIN gcRows \cup {key}
      /\ gcRows' = [k \in DOMAIN gcRows \cup {key} |-> IF k = key THEN n ELSE gcRows[k]]
  BY Zenon DEF GcNewRow
<1>3. key \notin DOMAIN gcRows /\ key[1] = j /\ key[2] = r
      /\ gcInst.active /\ r \in (IF j = 0 THEN gcInst.scope ELSE gcJobs[j].scope)
  BY Zenon DEF GcAccepts, GcPermits
<1>4. key \in (0 .. Len(gcJobs)) \X GcRepos
  BY Domains DEF GcIInv
<1>. HIDE DEF n, key
<1>5. gcRows' \in [DOMAIN gcRows' -> GcRowRecs]
  BY Zenon, <1>1, <1>2 DEF GcIInv, GcTypeOK
<1>6. \A k \in DOMAIN gcRows' : IF k = key THEN gcRows'[k] = n ELSE gcRows'[k] = gcRows[k]
  BY Zenon, <1>2
<1>7. DOMAIN gcRows' \subseteq (0 .. Len(gcJobs)) \X GcRepos
  BY Zenon, <1>2, <1>4 DEF GcIInv, GcTypeOK
<1>8. GcRowsMove
  BY Zenon, <1>1, <1>2, <1>3, <1>6 DEF GcRowsMove, GcRowMoves
<1>9. \A v \in GcWorkers : GcLeasesKept(v)
  BY Zenon, <1>1, <1>2, <1>6 DEF GcLeasesKept
<1>. QED  BY <1>2, <1>3, <1>5, <1>7, <1>8, <1>9 DEF key

\* One outstanding row is written: back to the queue, or ended with what its job then has.
LEMMA OneRowMoves ==
  ASSUME GcTypeOK, NEW k \in DOMAIN gcRows, NEW h \in GcRowRecs,
         gcRows' = [gcRows EXCEPT ![k] = h], gcRows[k].status \in GcOutstanding,
         \/ h.status \in {"v2_pending", "v2_processing", "v2_failed"}
         \/ h.status = "v2_completed" /\ (k[1] # 0 /\ GcFirstTry(k[1]) => GcHas(k[1], k[2]))
         \/ h.status = "v2_skipped" /\ (k[1] # 0 /\ GcFirstTry(k[1]) => GcOver(k[1]))
  PROVE  /\ DOMAIN gcRows' = DOMAIN gcRows /\ gcRows' \in [DOMAIN gcRows' -> GcRowRecs]
         /\ GcRowsMove /\ \A v \in GcWorkers : v # h.lease => GcLeasesKept(v)
<1>1. DOMAIN gcRows' = DOMAIN gcRows /\ gcRows' \in [DOMAIN gcRows' -> GcRowRecs]
  BY Zenon DEF GcTypeOK
<1>2. \A o \in DOMAIN gcRows : gcRows'[o] = IF o = k THEN h ELSE gcRows[o]
  BY Zenon DEF GcTypeOK
<1>3. GcRowsMove
  BY Zenon, <1>1, <1>2 DEF GcRowsMove, GcRowMoves, GcRowAdvances
<1>4. \A v \in GcWorkers : v # h.lease => GcLeasesKept(v)
  BY Zenon, <1>1, <1>2 DEF GcLeasesKept
<1>. QED  BY Zenon, <1>1, <1>3, <1>4

-----------------------------------------------------------------------------
(* Requests and provider changes.                                           *)

\* enqueue_live accepts a webhook's row.
LEMMA WebhookStep ==
  ASSUME GcIInv, NEW r \in GcLiveRepos, GcWebhook(r)
  PROVE  GcIInv'
<1>1. gcRows' = GcNewRow(0, r) /\ GcAccepts(0, r) /\ r \in GcRepos
  BY Zenon, GcAssumption DEF GcWebhook
<1>2. UNCHANGED <<gcInst, gcJobs, gcLive, gcHistory, gcBound, gcSlot, gcRequests>>
  BY Zenon DEF GcWebhook, gcDocs
<1>3. /\ DOMAIN gcRows' \subseteq (0 .. Len(gcJobs)) \X GcRepos
      /\ gcRows' \in [DOMAIN gcRows' -> GcRowRecs]
      /\ GcRowsMove /\ \A v \in GcWorkers : GcLeasesKept(v)
      /\ \A k \in DOMAIN gcRows' \ DOMAIN gcRows :
           gcInst.active /\ k[2] \in IF k[1] = 0 THEN gcInst.scope ELSE gcJobs[k[1]].scope
  BY Zenon, <1>1, NewRowMoves
<1>4. GcTypeOK'
  BY Zenon, <1>2, <1>3 DEF GcIInv, GcTypeOK
<1>5. GcMoves
  BY Zenon, <1>2, <1>3, SameJobs DEF GcMoves, GcHistoryKept
<1>6. GcSlotsMove
  BY Zenon, <1>2, <1>3 DEF GcSlotsMove, GcSlotMoves
<1>7. GcWithin
  BY ZenonT(30), <1>2, <1>3 DEF GcWithin
<1>. QED  BY Zenon, <1>4, <1>5, <1>6, <1>7, OrdinaryStep

\* A step that leaves all of the installation's state as it was.
LEMMA AsideStep ==
  ASSUME GcIInv, gcRequests' \subseteq GcAsks,
         UNCHANGED <<gcInst, gcJobs, gcRows, gcLive, gcHistory, gcBound, gcSlot>>
  PROVE  GcIInv'
BY DEF GcIInv, GcTypeOK, GcPlaced, GcSelected, GcOutstandingRows,
       LiveLaneFollowsScope, GcWalked, GcFirstTry, GcIndexed, GcHas, GcOver, GcOutcome, GcHoldsRow

\* A request of the dashboard arrives (patch_sync or start_backfill reads the settings).
LEMMA AskStep ==
  ASSUME GcIInv, GcAsk
  PROVE  GcIInv'
<1>1. PICK scope \in SUBSET GcRepos, sync \in BOOLEAN, kind \in {"patch", "backfill"} :
         gcRequests' = gcRequests \cup
           {[kind |-> kind, scope |-> scope, sync |-> sync, gen |-> gcInst.gen]}
  BY SMTT(30) DEF GcAsk
<1>2. [kind |-> kind, scope |-> scope, sync |-> sync, gen |-> gcInst.gen] \in GcAsks
  BY Zenon DEF GcIInv, GcTypeOK, GcAsks
<1>3. gcRequests' \subseteq GcAsks
  BY Zenon, <1>1, <1>2 DEF GcIInv, GcTypeOK
<1>4. UNCHANGED <<gcInst, gcJobs, gcRows, gcLive, gcHistory, gcBound, gcSlot>>
  BY Zenon DEF GcAsk, gcDocs
<1>. QED  BY Zenon, <1>3, <1>4, AsideStep

\* The provider withdraws a repository; nothing here knows of it yet.
LEMMA AccessLostStep ==
  ASSUME GcIInv, NEW r \in GcRepos, GcAccessLost(r)
  PROVE  GcIInv'
<1>1. UNCHANGED <<gcInst, gcJobs, gcRows, gcLive, gcHistory, gcBound, gcSlot, gcRequests>>
  BY Zenon DEF GcAccessLost, gcDocs
<1>2. gcRequests' \subseteq GcAsks
  BY Zenon, <1>1 DEF GcIInv, GcTypeOK
<1>. QED  BY Zenon, <1>1, <1>2, AsideStep

\* cancel_job: the job and its outstanding rows are canceled together.
LEMMA CancelStep ==
  ASSUME GcIInv, NEW j \in DOMAIN gcJobs, GcCancel(j)
  PROVE  GcIInv'
<1>. DEFINE h == GcStopped(gcJobs[j], "canceled")
<1>1. UNCHANGED <<gcInst, gcLive, gcHistory, gcBound, gcSlot, gcRequests>>
  BY Zenon DEF GcCancel, gcDocs
<1>2. gcJobs' = [gcJobs EXCEPT ![j] = h] /\ gcRows' = GcCancelRows(gcRows, GcRowsOf({j}))
  BY Zenon DEF GcCancel, GcCancelJob
<1>3. gcJobs[j] \in GcJobRecs /\ "canceled" \in GcStates
  BY Zenon, Domains DEF GcIInv, GcStates
<1>4. GcSameWalk(gcJobs[j], h) /\ h.cut = gcJobs[j].cut /\ h.state = "canceled"
  BY Zenon, <1>3, StoppedJob
<1>. HIDE DEF h
<1>5. /\ gcJobs' \in Seq(GcJobRecs) /\ Len(gcJobs') = Len(gcJobs)
      /\ DOMAIN gcJobs' = DOMAIN gcJobs /\ GcJobsMove
      /\ \A i \in DOMAIN gcJobs : gcJobs'[i] = IF i = j THEN h ELSE gcJobs[i]
  BY Zenon, <1>2, <1>4, OneJobMoves DEF GcIInv, GcOverStates
<1>6. /\ gcRows' \in [DOMAIN gcRows -> GcRowRecs] /\ DOMAIN gcRows' = DOMAIN gcRows
      /\ \A k \in DOMAIN gcRows :
           IF k \in GcRowsOf({j}) /\ gcRows[k].status \in GcOutstanding
           THEN gcRows'[k].status = "v2_canceled" /\ gcRows'[k].lease = GcNone
           ELSE gcRows'[k] = gcRows[k]
  BY <1>2, CanceledRows DEF GcIInv, GcTypeOK
<1>7. GcTypeOK'
  BY Zenon, <1>1, <1>5, <1>6 DEF GcIInv, GcTypeOK
<1>8. GcRowsMove
  BY Zenon, <1>4, <1>5, <1>6 DEF GcRowsMove, GcRowMoves, GcRowAdvances, GcRowsOf, GcOverStates
<1>9. GcMoves
  BY Zenon, <1>1, <1>5, <1>8 DEF GcMoves, GcHistoryKept
<1>10. GcSlotsMove
  BY Zenon, <1>1, <1>6 DEF GcSlotsMove, GcSlotMoves, GcLeasesKept
<1>11. GcWithin
  BY Zenon, <1>1, <1>4, <1>5, <1>6 DEF GcWithin, GcActive
<1>. QED  BY Zenon, <1>7, <1>9, <1>10, <1>11, OrdinaryStep

\* retry_backfill queues an ended job again; its ended rows are deleted.
LEMMA RetryStep ==
  ASSUME GcIInv, NEW j \in DOMAIN gcJobs, GcRetry(j)
  PROVE  GcIInv'
<1>. DEFINE h == GcAgain(gcJobs[j])
            D == {o \in DOMAIN gcRows :
                    ~(o[1] = j /\ gcRows[o].status \in {"v2_failed", "v2_canceled"})}
<1>1. UNCHANGED <<gcInst, gcLive, gcHistory, gcBound, gcSlot, gcRequests>> /\ gcInst.active
  BY Zenon DEF GcRetry, gcDocs
<1>2. gcJobs' = [gcJobs EXCEPT ![j] = h] /\ gcRows' = [k \in D |-> gcRows[k]]
  BY Zenon DEF GcRetry
<1>3. gcJobs[j] \in GcJobRecs /\ gcJobs \in Seq(GcJobRecs)
  BY Zenon, Domains DEF GcIInv, GcTypeOK
<1>4. /\ h \in GcJobRecs /\ h.kind = gcJobs[j].kind /\ h.scope = gcJobs[j].scope
      /\ h.gen = gcJobs[j].gen /\ h.retries # 0 /\ h.cut = gcJobs[j].cut /\ h.state = "queued"
  BY Zenon, <1>3, AgainJob
<1>5. \A k \in DOMAIN gcRows \ D : k[1] = j
  BY Zenon
<1>6. D \subseteq DOMAIN gcRows /\ DOMAIN gcRows' = D /\ \A k \in D : gcRows'[k] = gcRows[k]
  BY Zenon, <1>2
<1>7. gcRows' \in [D -> GcRowRecs]
  BY Zenon, <1>2 DEF GcIInv, GcTypeOK
<1>. HIDE DEF h, D
<1>8. /\ gcJobs' \in Seq(GcJobRecs) /\ Len(gcJobs') = Len(gcJobs)
      /\ DOMAIN gcJobs' = DOMAIN gcJobs
      /\ \A i \in DOMAIN gcJobs : gcJobs'[i] = IF i = j THEN h ELSE gcJobs[i]
  BY ZenonT(30), <1>2, <1>3, <1>4, OneChanged
<1>9. GcTypeOK'
  BY Zenon, <1>1, <1>6, <1>7, <1>8 DEF GcIInv, GcTypeOK
<1>10. GcJobsMove
  BY Zenon, <1>4, <1>8 DEF GcJobsMove, GcJobMoves
<1>11. GcRowsMove
  BY ZenonT(30), <1>4, <1>5, <1>6, <1>8 DEF GcRowsMove, GcRowMoves
<1>12. GcMoves
  BY Zenon, <1>1, <1>10, <1>11 DEF GcMoves, GcHistoryKept
<1>13. GcSlotsMove
  BY Zenon, <1>1, <1>6 DEF GcSlotsMove, GcSlotMoves, GcLeasesKept
<1>14. GcWithin
  BY Zenon, <1>1, <1>6, <1>8 DEF GcWithin
<1>. QED  BY <1>9, <1>12, <1>13, <1>14, OrdinaryStep

\* seed_github_installation makes a purged installation active: nothing of it is left.
LEMMA ReconnectStep ==
  ASSUME GcIInv, GcReconnect
  PROVE  GcIInv'
<1>1. UNCHANGED <<gcJobs, gcRows, gcLive, gcHistory, gcBound, gcSlot, gcRequests>>
  BY Zenon DEF GcReconnect, gcDocs
<1>2. gcInst' = GcSettings(TRUE, gcInst.sync, gcInst.scope, gcInst.gen) /\ ~gcInst.active
  BY Zenon DEF GcReconnect
<1>3. /\ gcInst' \in [active: BOOLEAN, sync: BOOLEAN, scope: SUBSET GcRepos, gen: Nat]
      /\ gcInst'.active = TRUE /\ gcInst'.scope = gcInst.scope /\ gcInst'.gen = gcInst.gen
  BY Zenon, <1>2 DEF GcSettings, GcIInv, GcTypeOK
<1>4. GcTypeOK'
  BY Zenon, <1>1, <1>3 DEF GcIInv, GcTypeOK
<1>5. GcPlaced' /\ GcWalked' /\ GcIndexed' /\ GcOutcome'
  BY Zenon, <1>1 DEF GcIInv, GcPlaced, GcWalked, GcFirstTry, GcIndexed, GcHas, GcOver, GcOutcome,
     GcHoldsRow
<1>6. GcSelected'
  BY Zenon, <1>1, <1>3 DEF GcIInv, GcSelected, GcOutstandingRows
<1>7. gcLive' = {}
  BY Zenon, <1>1, <1>2 DEF GcIInv, GcSelected, LiveLaneFollowsScope
<1>8. LiveLaneFollowsScope'
  BY Zenon, <1>3, <1>7 DEF LiveLaneFollowsScope
<1>. QED  BY Zenon, <1>4, <1>5, <1>6, <1>8 DEF GcIInv

\* start_backfill adds a backfill.
LEMMA StartBackfillStep ==
  ASSUME GcIInv, NEW q \in GcAsks, gcInst.active, GcStartBackfill(q),
         gcRequests' \subseteq GcAsks, gcSlot' = gcSlot
  PROVE  GcIInv'
<1>1. UNCHANGED <<gcInst, gcRows, gcLive, gcHistory, gcBound>>
  BY Zenon DEF GcStartBackfill, gcDocs
<1>2. CASE gcJobs' = gcJobs
  BY Zenon, <1>1, <1>2, AsideStep
<1>3. CASE gcJobs' = Append(gcJobs, GcJob("backfill", q.scope, gcInst.gen, 0))
  <2>. DEFINE h == GcJob("backfill", q.scope, gcInst.gen, 0)
  <2>1. /\ h \in GcJobRecs /\ h.kind = "backfill" /\ h.scope = q.scope /\ h.gen = gcInst.gen
        /\ h.left = q.scope /\ ~h.enumerated /\ h.state = "queued"
    BY SMTT(30), NewJob DEF GcAsks, GcIInv, GcTypeOK
  <2>2. gcJobs \in Seq(GcJobRecs) /\ gcJobs' = Append(gcJobs, h) /\ Len(gcJobs) \in Nat
        /\ gcInst.gen \in Nat
    BY <1>3 DEF GcIInv, GcTypeOK
  <2>. HIDE DEF h
  <2>3. /\ gcJobs' \in Seq(GcJobRecs) /\ Len(gcJobs') = Len(gcJobs) + 1
        /\ DOMAIN gcJobs' = DOMAIN gcJobs \cup {Len(gcJobs) + 1}
        /\ gcJobs'[Len(gcJobs) + 1] = h
        /\ \A i \in DOMAIN gcJobs : gcJobs'[i] = gcJobs[i]
    BY <2>1, <2>2, OneAdded
  <2>4. (0 .. Len(gcJobs)) \X GcRepos \subseteq (0 .. Len(gcJobs')) \X GcRepos
    BY <2>2, <2>3
  <2>5. GcTypeOK'
    BY Zenon, <1>1, <2>3, <2>4 DEF GcIInv, GcTypeOK
  <2>6. GcJobsMove
    BY Zenon, <2>1, <2>3 DEF GcJobsMove, GcJobMoves, GcNewJob
  <2>7. GcMoves
    BY Zenon, <1>1, <2>6, SameRows DEF GcMoves, GcHistoryKept
  <2>8. GcSlotsMove
    BY Zenon, <1>1, SameSlots
  <2>9. GcWithin
    BY <1>1, <2>1, <2>2, <2>3 DEF GcWithin
  <2>. QED  BY Zenon, <2>5, <2>7, <2>8, <2>9, OrdinaryStep
<1>. QED  BY Zenon, <1>2, <1>3 DEF GcStartBackfill

-----------------------------------------------------------------------------
(* History walks.                                                           *)

\* The job in hand is written, without a change of its walk, and the walker moves on.
LEMMA JobInHand ==
  ASSUME GcIInv, NEW w \in GcWorkers, NEW s, GcSlotOK(s), NEW j \in DOMAIN gcJobs, NEW h,
         UNCHANGED <<gcInst, gcRows, gcLive, gcHistory, gcBound, gcRequests>>,
         gcJobs' = [gcJobs EXCEPT ![j] = h], GcSameWalk(gcJobs[j], h),
         gcJobs[j].cut \subseteq h.cut, gcJobs[j].state \in GcActive,
         h.state # "completed",
         gcSlot' = [gcSlot EXCEPT ![w] = s],
         s.step = "idle" \/ (s.step \in {"list", "walk"} /\ s.job \in DOMAIN gcJobs)
  PROVE  GcIInv'
<1>1. /\ gcJobs' \in Seq(GcJobRecs) /\ Len(gcJobs') = Len(gcJobs)
      /\ DOMAIN gcJobs' = DOMAIN gcJobs /\ GcJobsMove
      /\ \A i \in DOMAIN gcJobs : gcJobs'[i] = IF i = j THEN h ELSE gcJobs[i]
  BY Zenon, OneJobMoves DEF GcIInv, GcActive, GcOverStates
<1>2. GcSlotsOK(gcSlot') /\ GcSlotsMove
  <2>1. \A v \in GcWorkers \ {w} : GcLeasesKept(v)
    BY Zenon DEF GcLeasesKept
  <2>. QED  BY Zenon, <2>1, OneSlotMoves DEF GcIInv
<1>3. GcTypeOK'
  BY Zenon, <1>1, <1>2 DEF GcIInv, GcTypeOK
<1>4. GcMoves
  BY Zenon, <1>1, SameRows DEF GcMoves, GcHistoryKept
<1>5. GcWithin
  BY Zenon, <1>1 DEF GcWithin
<1>. QED  BY Zenon, <1>2, <1>3, <1>4, <1>5, OrdinaryStep

\* Only the worker's step changes.
LEMMA SlotOnly ==
  ASSUME GcIInv, NEW w \in GcWorkers, NEW s, GcSlotOK(s),
         UNCHANGED <<gcInst, gcJobs, gcRows, gcLive, gcHistory, gcBound, gcRequests>>,
         gcSlot' = [gcSlot EXCEPT ![w] = s],
         s.step = "idle" \/ (s.step \in {"list", "walk"} /\ s.job \in DOMAIN gcJobs)
  PROVE  GcIInv'
<1>1. GcSlotsOK(gcSlot') /\ GcSlotsMove
  <2>1. \A v \in GcWorkers \ {w} : GcLeasesKept(v)
    BY Zenon DEF GcLeasesKept
  <2>. QED  BY Zenon, <2>1, OneSlotMoves DEF GcIInv
<1>2. GcTypeOK'
  BY Zenon, <1>1 DEF GcIInv, GcTypeOK
<1>3. GcMoves
  BY Zenon, SameRows, SameJobs DEF GcMoves, GcHistoryKept
<1>4. GcWithin
  BY Zenon DEF GcWithin
<1>. QED  BY Zenon, <1>1, <1>2, <1>3, <1>4, OrdinaryStep

\* history_step claims a job.
LEMMA HistoryClaimStep ==
  ASSUME GcIInv, NEW w \in GcWorkers, GcHistoryClaim(w)
  PROVE  GcIInv'
<1>. DEFINE room == GcMaxHistory - Cardinality(GcOutstandingRows)
<1>1. PICK j \in DOMAIN gcJobs :
         /\ gcJobs[j].state = "queued" /\ gcJobs' = [gcJobs EXCEPT ![j] = GcStarted(@, w)]
         /\ gcSlot' = [gcSlot EXCEPT ![w] = GcWalkSlot("list", j, room)]
         /\ UNCHANGED <<gcInst, gcRows, gcLive, gcHistory, gcBound, gcRequests>>
  BY Zenon DEF GcHistoryClaim, gcDocs
<1>. HIDE DEF room
<1>3. gcJobs[j] \in GcJobRecs /\ j \in Nat
  BY Domains DEF GcIInv
<1>. DEFINE h == GcStarted(gcJobs[j], w)
            s == GcWalkSlot("list", j, room)
<1>4. GcSameWalk(gcJobs[j], h) /\ h.cut = gcJobs[j].cut /\ h.state = "running"
  BY Zenon, <1>3, StartedJob
<1>5. GcSlotOK(s) /\ s.step = "list" /\ s.job = j
  BY Zenon, <1>3, WalkSlot
<1>6. gcJobs' = [gcJobs EXCEPT ![j] = h] /\ gcSlot' = [gcSlot EXCEPT ![w] = s]
  BY Zenon, <1>1
<1>7. gcJobs[j].state \in GcActive
  BY Zenon, <1>1 DEF GcActive
<1>. HIDE DEF h, s
<1>. QED  BY Zenon, <1>1, <1>4, <1>5, <1>6, <1>7, JobInHand

\* A walk that fails fails its job, when the walker still holds it.
LEMMA HistoryFailedStep ==
  ASSUME GcIInv, NEW w \in GcWorkers, gcSlot[w].step \in {"list", "walk"},
         GcHistoryFailed(w), gcRows' = gcRows
  PROVE  GcIInv'
<1>1. gcSlot' = [gcSlot EXCEPT ![w] = GcIdle]
      /\ UNCHANGED <<gcInst, gcLive, gcHistory, gcBound, gcRequests>>
  BY Zenon DEF GcHistoryFailed, GcHistoryEnd, gcDocs
<1>i. PICK s : GcSlotOK(s) /\ s.step = "idle" /\ gcSlot' = [gcSlot EXCEPT ![w] = s]
  BY Zenon, <1>1, IdleSlot
<1>2. CASE ~GcHoldsJob(w)
  <2>1. gcJobs' = gcJobs
    BY Zenon, <1>2 DEF GcHistoryFailed, GcHistoryEnd
  <2>. QED  BY Zenon, <1>1, <2>1, <1>i, SlotOnly
<1>3. CASE GcHoldsJob(w)
  <2>. DEFINE j == gcSlot[w].job
              h == GcStopped(gcJobs[j], "failed")
  <2>1. j \in DOMAIN gcJobs
    BY Zenon DEF GcIInv, GcPlaced
  <2>2. gcJobs[j] \in GcJobRecs /\ "failed" \in GcStates
    BY Zenon, <2>1, Domains DEF GcIInv, GcStates
  <2>3. GcSameWalk(gcJobs[j], h) /\ h.cut = gcJobs[j].cut /\ h.state = "failed"
    BY Zenon, <2>2, StoppedJob
  <2>4. gcJobs' = [gcJobs EXCEPT ![j] = h]
    BY Zenon, <1>3 DEF GcHistoryFailed, GcHistoryEnd
  <2>5. gcJobs[j].state \in GcActive
    BY Zenon, <1>3 DEF GcHoldsJob, GcActive
  <2>. HIDE DEF j, h
  <2>. QED  BY Zenon, <1>1, <2>1, <2>3, <2>4, <2>5, <1>i, JobInHand
<1>. QED  BY Zenon, <1>2, <1>3

\* history_step: the provider's answer is an error.
LEMMA HistoryFailStep ==
  ASSUME GcIInv, NEW w \in GcWorkers, GcHistoryFail(w)
  PROVE  GcIInv'
BY Zenon, HistoryFailedStep DEF GcHistoryFail

\* history_step lists the repositories; one that is gone fails the job.
LEMMA HistoryListStep ==
  ASSUME GcIInv, NEW w \in GcWorkers, GcHistoryList(w)
  PROVE  GcIInv'
<1>. DEFINE j == gcSlot[w].job
            room == gcSlot[w].room
<1>1. gcSlot[w].step = "list" /\ gcRows' = gcRows
  BY Zenon DEF GcHistoryList
<1>2. CASE GcHistoryFailed(w)
  BY Zenon, <1>1, <1>2, HistoryFailedStep
<1>3. CASE /\ gcSlot' = [gcSlot EXCEPT ![w] = GcWalkSlot("walk", j, room)]
           /\ UNCHANGED <<gcJobs, gcInst, gcDocs, gcRequests>>
  <2>. DEFINE s == GcWalkSlot("walk", j, room)
  <2>1. j \in DOMAIN gcJobs
    BY Zenon, <1>1 DEF GcIInv, GcPlaced
  <2>2. j \in Nat
    BY Zenon DEF GcIInv, GcTypeOK, GcSlotsOK, GcSlotOK
  <2>. HIDE DEF j, room
  <2>3. GcSlotOK(s) /\ s.step = "walk" /\ s.job = j
    BY Zenon, <2>2, WalkSlot
  <2>4. gcSlot' = [gcSlot EXCEPT ![w] = s]
    BY Zenon, <1>3
  <2>. HIDE DEF s
  <2>. QED  BY Zenon, <1>1, <1>3, <2>1, <2>3, <2>4, SlotOnly DEF gcDocs
<1>. QED  BY Zenon, <1>2, <1>3 DEF GcHistoryList

\* history_step releases a job: queued again when repositories are left, enumerated else.
LEMMA HistoryStopStep ==
  ASSUME GcIInv, NEW w \in GcWorkers, GcHistoryStop(w)
  PROVE  GcIInv'
<1>. DEFINE j == gcSlot[w].job
<1>1. gcSlot[w].step = "walk" /\ gcRows' = gcRows
  BY Zenon DEF GcHistoryStop
<1>2. gcSlot' = [gcSlot EXCEPT ![w] = GcIdle]
      /\ UNCHANGED <<gcInst, gcLive, gcHistory, gcBound, gcRequests>>
  BY Zenon DEF GcHistoryStop, GcHistoryEnd, gcDocs
<1>i. PICK s : GcSlotOK(s) /\ s.step = "idle" /\ gcSlot' = [gcSlot EXCEPT ![w] = s]
  BY Zenon, <1>2, IdleSlot
<1>3. \/ gcJobs' = gcJobs
      \/ gcInst.active /\ GcHoldsJob(w) /\ gcJobs' = [gcJobs EXCEPT ![j] = GcStopped(@, "queued")]
      \/ /\ gcInst.active /\ GcHoldsJob(w) /\ gcJobs[j].left = {}
         /\ gcJobs' = [gcJobs EXCEPT ![j] = GcEnumerated(@)]
  BY Zenon DEF GcHistoryStop, GcHistoryEnd
<1>4. j \in DOMAIN gcJobs
  BY Zenon, <1>1 DEF GcIInv, GcPlaced
<1>5. gcJobs[j] \in GcJobRecs /\ "queued" \in GcStates
  BY Zenon, <1>4, Domains DEF GcIInv, GcStates
<1>6. CASE gcJobs' = gcJobs
  BY Zenon, <1>1, <1>2, <1>6, <1>i, SlotOnly
<1>7. CASE GcHoldsJob(w) /\ gcJobs' = [gcJobs EXCEPT ![j] = GcStopped(@, "queued")]
  <2>. DEFINE h == GcStopped(gcJobs[j], "queued")
  <2>1. GcSameWalk(gcJobs[j], h) /\ h.cut = gcJobs[j].cut /\ h.state = "queued"
    BY Zenon, <1>5, StoppedJob
  <2>2. gcJobs' = [gcJobs EXCEPT ![j] = h]
    BY Zenon, <1>7
  <2>3. gcJobs[j].state \in GcActive
    BY Zenon, <1>7 DEF GcHoldsJob, GcActive
  <2>. HIDE DEF j, h
  <2>. QED  BY Zenon, <1>1, <1>2, <1>4, <2>1, <2>2, <2>3, <1>i, JobInHand
<1>8. CASE /\ gcInst.active /\ GcHoldsJob(w) /\ gcJobs[j].left = {}
           /\ gcJobs' = [gcJobs EXCEPT ![j] = GcEnumerated(@)]
  <2>. DEFINE h == GcEnumerated(gcJobs[j])
  <2>1. /\ h \in GcJobRecs /\ h.kind = gcJobs[j].kind /\ h.scope = gcJobs[j].scope
        /\ h.gen = gcJobs[j].gen /\ h.retries = gcJobs[j].retries /\ h.left = {}
        /\ h.cut = gcJobs[j].cut /\ h.state = gcJobs[j].state
    BY Zenon, <1>5, <1>8, EnumeratedJob
  <2>2. gcJobs' = [gcJobs EXCEPT ![j] = h] /\ gcJobs \in Seq(GcJobRecs)
    BY Zenon, <1>8 DEF GcIInv, GcTypeOK
  <2>. HIDE DEF h, j
  <2>3. /\ gcJobs' \in Seq(GcJobRecs) /\ Len(gcJobs') = Len(gcJobs)
        /\ DOMAIN gcJobs' = DOMAIN gcJobs
        /\ \A i \in DOMAIN gcJobs : gcJobs'[i] = IF i = j THEN h ELSE gcJobs[i]
    BY Zenon, <1>4, <2>1, <2>2, OneChanged
  <2>4. GcJobsMove
    BY <1>4, <1>8, <2>1, <2>3 DEF GcJobsMove, GcJobMoves
  <2>5. GcSlotsOK(gcSlot') /\ GcSlotsMove
    <3>1. \A v \in GcWorkers \ {w} : GcLeasesKept(v)
      BY Zenon, <1>1 DEF GcLeasesKept
    <3>. QED  BY Zenon, <1>2, <3>1, OneSlotMoves, IdleSlot DEF GcIInv
  <2>6. GcTypeOK'
    BY Zenon, <1>1, <1>2, <2>3, <2>5 DEF GcIInv, GcTypeOK
  <2>7. GcMoves
    BY Zenon, <1>1, <1>2, <2>4, SameRows DEF GcMoves, GcHistoryKept
  <2>8. GcWithin
    BY Zenon, <1>1, <1>2, <1>8, <2>3 DEF GcWithin
  <2>. QED  BY Zenon, <2>5, <2>6, <2>7, <2>8, OrdinaryStep
<1>. QED  BY Zenon, <1>3, <1>6, <1>7, <1>8

\* history_step passes one repository, its row accepted in the same step.
LEMMA HistoryEventStep ==
  ASSUME GcIInv, NEW w \in GcWorkers, GcHistoryEvent(w)
  PROVE  GcIInv'
<1>1. PICK j \in Nat : j = gcSlot[w].job
  BY Zenon DEF GcIInv, GcTypeOK, GcSlotsOK, GcSlotOK
<1>2. PICK r \in GcRepos :
         /\ gcSlot[w].step = "walk" /\ gcInst.active /\ GcHoldsJob(w) /\ r \in gcJobs[j].left
         /\ gcRows' = IF GcAccepts(j, r) THEN GcNewRow(j, r) ELSE gcRows
         /\ gcJobs' = [gcJobs EXCEPT ![j] = GcPassed(@, r)]
         /\ gcSlot' = [gcSlot EXCEPT ![w] =
                         GcWalkSlot("walk", j, IF GcAccepts(j, r) THEN @.room - 1 ELSE @.room)]
         /\ UNCHANGED <<gcInst, gcDocs, gcRequests>>
  BY Zenon, <1>1 DEF GcHistoryEvent
<1>3. j \in DOMAIN gcJobs /\ gcJobs[j].state = "running"
  BY Zenon, <1>1, <1>2 DEF GcIInv, GcPlaced, GcHoldsJob
<1>4. gcJobs[j] \in GcJobRecs /\ gcJobs \in Seq(GcJobRecs) /\ j # 0
  BY <1>3, Domains DEF GcIInv, GcTypeOK
<1>. DEFINE h == GcPassed(gcJobs[j], r)
            room == IF GcAccepts(j, r) THEN gcSlot[w].room - 1 ELSE gcSlot[w].room
            s == GcWalkSlot("walk", j, room)
<1>5. /\ h \in GcJobRecs /\ h.kind = gcJobs[j].kind /\ h.scope = gcJobs[j].scope
      /\ h.gen = gcJobs[j].gen /\ h.retries = gcJobs[j].retries /\ h.left = gcJobs[j].left \ {r}
      /\ h.enumerated = gcJobs[j].enumerated /\ h.cut = gcJobs[j].cut /\ h.state = gcJobs[j].state
  BY ZenonT(30), <1>4, PassedJob
<1>7. gcJobs' = [gcJobs EXCEPT ![j] = h] /\ gcSlot' = [gcSlot EXCEPT ![w] = s]
  BY Zenon, <1>2 DEF GcIInv, GcTypeOK, GcSlotsOK
<1>. HIDE DEF h, room
<1>8. GcSlotOK(s) /\ s.step = "walk" /\ s.job = j
  BY Zenon, WalkSlot
<1>. HIDE DEF s
<1>9. /\ gcJobs' \in Seq(GcJobRecs) /\ Len(gcJobs') = Len(gcJobs)
      /\ DOMAIN gcJobs' = DOMAIN gcJobs
      /\ \A i \in DOMAIN gcJobs : gcJobs'[i] = IF i = j THEN h ELSE gcJobs[i]
  BY <1>3, <1>4, <1>5, <1>7, OneChanged
<1>10. gcJobs'[j] = h /\ gcJobs'[j].state # "completed"
  BY Zenon, <1>3, <1>5, <1>9
<1>11. /\ DOMAIN gcRows' \subseteq (0 .. Len(gcJobs)) \X GcRepos
       /\ DOMAIN gcRows \subseteq DOMAIN gcRows'
       /\ gcRows' \in [DOMAIN gcRows' -> GcRowRecs]
       /\ GcRowsMove /\ \A v \in GcWorkers : GcLeasesKept(v)
       /\ \A k \in DOMAIN gcRows' \ DOMAIN gcRows :
            gcInst.active /\ k[2] \in IF k[1] = 0 THEN gcInst.scope ELSE gcJobs[k[1]].scope
       /\ GcAccepts(j, r) => <<j, r>> \in DOMAIN gcRows'
  <2>1. CASE GcAccepts(j, r)
    <3>1. gcRows' = GcNewRow(j, r)
      BY Zenon, <1>2, <2>1
    <3>. QED  BY Zenon, <1>3, <1>10, <2>1, <3>1, NewRowMoves
  <2>2. CASE ~GcAccepts(j, r)
    <3>1. gcRows' = gcRows
      BY Zenon, <1>2, <2>2
    <3>. QED  BY Zenon, <2>2, <3>1, SameRows DEF GcLeasesKept, GcIInv, GcTypeOK
  <2>. QED  BY Zenon, <2>1, <2>2
<1>12. gcJobs[j].retries = 0 /\ gcJobs[j].kind = "backfill" => <<j, r>> \in DOMAIN gcRows'
  <2>1. CASE GcAccepts(j, r)
    BY Zenon, <1>11, <2>1
  <2>2. CASE ~GcAccepts(j, r)
    <3>. SUFFICES ASSUME gcJobs[j].retries = 0 /\ gcJobs[j].kind = "backfill"
                  PROVE  <<j, r>> \in DOMAIN gcRows'
      BY Zenon
    <3>1. r \in gcJobs[j].scope
      BY Zenon, <1>2, <1>3 DEF GcIInv, GcWalked, GcFirstTry
    <3>2. GcPermits(j, r)
      BY Zenon, <1>2, <1>3, <1>4, <3>1 DEF GcPermits
    <3>. QED  BY Zenon, <1>11, <2>2, <3>2 DEF GcAccepts
  <2>. QED  BY Zenon, <2>1, <2>2
<1>13. ASSUME NEW i \in DOMAIN gcJobs
       PROVE  GcJobMoves(i)
  <2>1. CASE i = j
    BY Zenon, <1>5, <1>10, <1>12, <2>1 DEF GcJobMoves
  <2>2. CASE i # j
    BY Zenon, <1>9, <2>2 DEF GcJobMoves
  <2>. QED  BY Zenon, <2>1, <2>2
<1>14. GcMoves
  BY Zenon, <1>2, <1>9, <1>11, <1>13 DEF GcMoves, GcJobsMove, GcHistoryKept, gcDocs
<1>15. GcSlotsOK(gcSlot') /\ GcSlotsMove
  BY Zenon, <1>3, <1>7, <1>8, <1>11, OneSlotMoves DEF GcIInv
<1>16. GcTypeOK'
  BY Zenon, <1>2, <1>9, <1>11, <1>15 DEF GcIInv, GcTypeOK, gcDocs
<1>17. GcWithin
  BY Zenon, <1>2, <1>9, <1>11 DEF GcWithin, gcDocs
<1>. QED  BY Zenon, <1>14, <1>15, <1>16, <1>17, OrdinaryStep

-----------------------------------------------------------------------------
(* Queue rows.                                                              *)

\* The row in hand is written and the worker moves on; the jobs stay.
LEMMA RowInHand ==
  ASSUME GcIInv, NEW w \in GcWorkers, NEW s, GcSlotOK(s),
         NEW k \in DOMAIN gcRows, NEW h \in GcRowRecs,
         UNCHANGED <<gcInst, gcJobs, gcLive, gcHistory, gcBound, gcRequests>>,
         gcRows' = [gcRows EXCEPT ![k] = h], gcRows[k].status \in GcOutstanding,
         \/ h.status \in {"v2_pending", "v2_processing", "v2_failed"}
         \/ h.status = "v2_completed" /\ (k[1] # 0 /\ GcFirstTry(k[1]) => GcHas(k[1], k[2]))
         \/ h.status = "v2_skipped" /\ (k[1] # 0 /\ GcFirstTry(k[1]) => GcOver(k[1])),
         h.lease \in {w, GcNone},
         gcSlot' = [gcSlot EXCEPT ![w] = s],
         s.step = "idle" \/ (s.step = "apply" /\ s.key \in DOMAIN gcRows)
  PROVE  GcIInv'
<1>1. /\ DOMAIN gcRows' = DOMAIN gcRows /\ gcRows' \in [DOMAIN gcRows' -> GcRowRecs]
      /\ GcRowsMove /\ \A v \in GcWorkers : v # h.lease => GcLeasesKept(v)
  BY Zenon, OneRowMoves DEF GcIInv
<1>2. \A v \in GcWorkers \ {w} : GcLeasesKept(v)
  BY Zenon, <1>1, GcAssumption
<1>3. GcSlotsOK(gcSlot') /\ GcSlotsMove
  BY Zenon, <1>2, OneSlotMoves DEF GcIInv
<1>4. GcTypeOK'
  BY Zenon, <1>1, <1>3 DEF GcIInv, GcTypeOK
<1>5. GcMoves
  BY Zenon, <1>1, SameJobs DEF GcMoves, GcHistoryKept
<1>6. GcWithin
  BY Zenon, <1>1 DEF GcWithin
<1>. QED  BY Zenon, <1>3, <1>4, <1>5, <1>6, OrdinaryStep

\* queue_step claims a row.
LEMMA ClaimStep ==
  ASSUME GcIInv, NEW w \in GcWorkers, GcClaim(w)
  PROVE  GcIInv'
<1>1. PICK k \in DOMAIN gcRows :
         /\ gcRows[k].status = "v2_pending"
         /\ gcRows' = [gcRows EXCEPT ![k] = GcTaken(@, w)]
         /\ gcSlot' = [gcSlot EXCEPT ![w] = GcRowSlot("apply", k, GcNone)]
         /\ UNCHANGED <<gcInst, gcJobs, gcLive, gcHistory, gcBound, gcRequests>>
  BY Zenon DEF GcClaim, gcDocs
<1>2. gcRows[k] \in GcRowRecs /\ k \in Nat \X GcRepos
  BY DEF GcIInv, GcTypeOK
<1>. DEFINE h == GcTaken(gcRows[k], w)
            s == GcRowSlot("apply", k, GcNone)
<1>3. h \in GcRowRecs /\ h.status = "v2_processing" /\ h.lease = w
  BY Zenon, <1>2, TakenRow
<1>4. GcSlotOK(s) /\ s.step = "apply" /\ s.key = k
  BY <1>2, RowSlot
<1>5. gcRows' = [gcRows EXCEPT ![k] = h] /\ gcSlot' = [gcSlot EXCEPT ![w] = s]
  BY Zenon, <1>1
<1>6. gcRows[k].status \in GcOutstanding
  BY Zenon, <1>1 DEF GcOutstanding
<1>7. UNCHANGED <<gcInst, gcJobs, gcLive, gcHistory, gcBound, gcRequests>>
  BY Zenon, <1>1
<1>8. s.step = "apply" /\ s.key \in DOMAIN gcRows
  BY Zenon, <1>4
<1>9. h.lease \in {w, GcNone}
  BY Zenon, <1>3
<1>. HIDE DEF h, s
<1>. QED  BY Zenon, <1>3, <1>4, <1>5, <1>6, <1>7, <1>8, <1>9, RowInHand

\* queue_step: an error puts the row back, or fails it after the last attempt.
LEMMA RowFailsStep ==
  ASSUME GcIInv, NEW w \in GcWorkers, GcRowFails(w)
  PROVE  GcIInv'
<1>1. gcSlot' = [gcSlot EXCEPT ![w] = GcIdle]
      /\ UNCHANGED <<gcInst, gcJobs, gcLive, gcHistory, gcBound, gcRequests>>
  BY Zenon DEF GcRowFails, gcDocs
<1>2. CASE ~GcHoldsRow(w)
  <2>1. gcRows' = gcRows
    BY Zenon, <1>2 DEF GcRowFails
  <2>. QED  BY Zenon, <1>1, <2>1, IdleSlot, SlotOnly
<1>3. CASE GcHoldsRow(w)
  <2>. DEFINE k == gcSlot[w].key
              h == GcFailedTry(gcRows[k])
  <2>1. k \in DOMAIN gcRows /\ gcRows[k].status \in GcOutstanding
    BY Zenon, <1>3 DEF GcHoldsRow, GcOutstanding
  <2>2. gcRows' = [gcRows EXCEPT ![k] = h]
    BY Zenon, <1>3 DEF GcRowFails
  <2>. HIDE DEF k
  <2>3. gcRows[k] \in GcRowRecs
    BY Zenon, <2>1 DEF GcIInv, GcTypeOK
  <2>4. h \in GcRowRecs /\ h.status \in {"v2_pending", "v2_failed"} /\ h.lease = GcNone
    BY Zenon, <2>3, FailedTryRow
  <2>. HIDE DEF h
  <2>. QED  BY Zenon, <1>1, <2>1, <2>2, <2>4, IdleSlot, RowInHand
<1>. QED  BY Zenon, <1>2, <1>3

\* A worker's process ends between two transactions; what it leased stays leased.
LEMMA CrashStep ==
  ASSUME GcIInv, NEW w \in GcWorkers, GcCrash(w)
  PROVE  GcIInv'
<1>1. gcSlot' = [gcSlot EXCEPT ![w] = GcIdle]
      /\ UNCHANGED <<gcInst, gcLive, gcHistory, gcBound, gcRequests>>
  BY Zenon DEF GcCrash, gcDocs
<1>2. gcRows' = [k \in DOMAIN gcRows |-> GcOrphan(gcRows[k], w)]
      /\ gcJobs' = [j \in DOMAIN gcJobs |-> GcOrphan(gcJobs[j], w)]
  BY Zenon DEF GcCrash
<1>3. \A j \in DOMAIN gcJobs :
         /\ GcSameWalk(gcJobs[j], gcJobs'[j]) /\ gcJobs'[j].cut = gcJobs[j].cut
         /\ gcJobs'[j].state = gcJobs[j].state
  BY Zenon, <1>2, Domains, OrphanJob DEF GcIInv
<1>4. gcJobs' \in [DOMAIN gcJobs -> GcJobRecs]
  BY Zenon, <1>2, <1>3 DEF GcSameWalk
<1>5. gcJobs' \in Seq(GcJobRecs) /\ Len(gcJobs') = Len(gcJobs) /\ DOMAIN gcJobs' = DOMAIN gcJobs
  BY Zenon, <1>4, Rebuilt DEF GcIInv, GcTypeOK
<1>6. \A k \in DOMAIN gcRows :
         /\ gcRows'[k] \in GcRowRecs /\ gcRows'[k].status = gcRows[k].status
         /\ gcRows'[k].lease = IF gcRows[k].lease = w THEN GcLost ELSE gcRows[k].lease
  BY Zenon, <1>2, Domains, OrphanRow DEF GcIInv
<1>7. DOMAIN gcRows' = DOMAIN gcRows /\ gcRows' \in [DOMAIN gcRows -> GcRowRecs]
  BY Zenon, <1>2, <1>6
<1>8. GcJobsMove
  BY Zenon, <1>3, <1>5, SameJobMoves DEF GcJobsMove
<1>9. GcRowsMove
  BY Zenon, <1>6, <1>7 DEF GcRowsMove, GcRowMoves
<1>10. \A v \in GcWorkers \ {w} : GcLeasesKept(v)
  BY Zenon, <1>6, <1>7, GcAssumption DEF GcLeasesKept
<1>11. GcSlotsOK(gcSlot') /\ GcSlotsMove
  BY Zenon, <1>1, <1>10, IdleSlot, OneSlotMoves DEF GcIInv
<1>12. GcTypeOK'
  BY Zenon, <1>1, <1>5, <1>7, <1>11 DEF GcIInv, GcTypeOK
<1>13. GcMoves
  BY Zenon, <1>1, <1>8, <1>9 DEF GcMoves, GcHistoryKept
<1>14. GcWithin
  BY Zenon, <1>1, <1>3, <1>5, <1>7 DEF GcWithin
<1>. QED  BY <1>11, <1>12, <1>13, <1>14, OrdinaryStep

\* _finish and _fail_identity_conflict end a row the worker still holds.
LEMMA FinishStep ==
  ASSUME GcIInv, NEW w \in GcWorkers, GcFinish(w)
  PROVE  GcIInv'
<1>1. gcSlot' = [gcSlot EXCEPT ![w] = GcIdle] /\ gcSlot[w].step = "finish"
      /\ UNCHANGED <<gcInst, gcLive, gcHistory, gcBound, gcRequests>>
  BY Zenon DEF GcFinish, gcDocs
<1>2. CASE ~GcHoldsRow(w)
  <2>1. gcRows' = gcRows /\ gcJobs' = gcJobs
    BY Zenon, <1>2 DEF GcFinish
  <2>. QED  BY Zenon, <1>1, <2>1, IdleSlot, SlotOnly
<1>3. CASE GcHoldsRow(w)
  <2>1. PICK k \in DOMAIN gcRows : k = gcSlot[w].key
    BY Zenon, <1>3 DEF GcHoldsRow
  <2>2. gcRows[k].status \in GcOutstanding /\ gcRows[k] \in GcRowRecs
    BY Zenon, <1>3, <2>1 DEF GcHoldsRow, GcOutstanding, GcIInv, GcTypeOK
  <2>3. CASE gcSlot[w].outcome # "conflict"
    <3>. DEFINE o == gcSlot[w].outcome
                h == GcEnded(gcRows[k], o)
    <3>1. gcRows' = [gcRows EXCEPT ![k] = h] /\ gcJobs' = gcJobs
      BY Zenon, <1>3, <2>1, <2>3 DEF GcFinish
    <3>2. o \in {"v2_skipped", "v2_completed"}
      BY Zenon, <1>1, <2>3 DEF GcIInv, GcTypeOK, GcSlotsOK, GcSlotOK, GcPlaced
    <3>3. /\ o = "v2_completed" => (k[1] # 0 /\ GcFirstTry(k[1]) => GcHas(k[1], k[2]))
          /\ o = "v2_skipped" => (k[1] # 0 /\ GcFirstTry(k[1]) => GcOver(k[1]))
      BY Zenon, <1>1, <1>3, <2>1 DEF GcIInv, GcOutcome
    <3>. HIDE DEF o
    <3>4. h \in GcRowRecs /\ h.status = o /\ h.lease = GcNone
      BY <2>2, <3>2, EndedRow DEF GcStatuses
    <3>. HIDE DEF h
    <3>. QED  BY Zenon, <1>1, <2>2, <3>1, <3>2, <3>3, <3>4, IdleSlot, RowInHand
  <2>4. CASE gcSlot[w].outcome = "conflict"
    <3>. DEFINE h == GcEnded(gcRows[k], "v2_failed")
                rows == [gcRows EXCEPT ![k] = h]
    <3>1. /\ gcRows' = IF k[1] = 0 THEN rows ELSE GcCancelRows(rows, GcRowsOf({k[1]}))
          /\ gcJobs' = IF k[1] = 0 THEN gcJobs
                       ELSE [gcJobs EXCEPT ![k[1]] = GcStopped(@, "failed")]
      BY Zenon, <1>3, <2>1, <2>4 DEF GcFinish, GcFailConflict
    <3>2. h \in GcRowRecs /\ h.status = "v2_failed" /\ h.lease = GcNone
      BY Zenon, <2>2, EndedRow DEF GcStatuses
    <3>3. CASE k[1] = 0
      <4>1. gcRows' = [gcRows EXCEPT ![k] = h] /\ gcJobs' = gcJobs
        BY Zenon, <3>1, <3>3
      <4>. HIDE DEF h
      <4>. QED  BY Zenon, <1>1, <2>2, <3>2, <4>1, IdleSlot, RowInHand
    <3>4. CASE k[1] # 0
      <4>1. k[1] \in DOMAIN gcJobs /\ gcJobs[k[1]] \in GcJobRecs /\ "failed" \in GcStates
        BY Zenon, <3>4, Domains DEF GcIInv, GcStates
      <4>. DEFINE n == GcStopped(gcJobs[k[1]], "failed")
      <4>2. gcJobs' = [gcJobs EXCEPT ![k[1]] = n]
            /\ gcRows' = GcCancelRows(rows, GcRowsOf({k[1]}))
        BY Zenon, <3>1, <3>4
      <4>3. GcSameWalk(gcJobs[k[1]], n) /\ n.cut = gcJobs[k[1]].cut /\ n.state = "failed"
        BY Zenon, <4>1, StoppedJob
      <4>. HIDE DEF n, h
      <4>4. rows \in [DOMAIN gcRows -> GcRowRecs] /\ DOMAIN rows = DOMAIN gcRows
            /\ \A o \in DOMAIN gcRows : rows[o] = IF o = k THEN h ELSE gcRows[o]
        BY Zenon, <3>2 DEF GcIInv, GcTypeOK
      <4>. HIDE DEF rows
      <4>5. /\ gcRows' \in [DOMAIN gcRows -> GcRowRecs] /\ DOMAIN gcRows' = DOMAIN gcRows
            /\ \A o \in DOMAIN gcRows :
                 IF o \in GcRowsOf({k[1]}) /\ rows[o].status \in GcOutstanding
                 THEN gcRows'[o].status = "v2_canceled" /\ gcRows'[o].lease = GcNone
                 ELSE gcRows'[o] = rows[o]
        BY <4>2, <4>4, CanceledRows
      <4>6. /\ gcJobs' \in Seq(GcJobRecs) /\ Len(gcJobs') = Len(gcJobs)
            /\ DOMAIN gcJobs' = DOMAIN gcJobs /\ GcJobsMove
            /\ \A i \in DOMAIN gcJobs : gcJobs'[i] = IF i = k[1] THEN n ELSE gcJobs[i]
        BY Zenon, <4>1, <4>2, <4>3, OneJobMoves DEF GcIInv, GcOverStates
      <4>7. GcRowsMove
        <5>1. ASSUME NEW o \in DOMAIN gcRows
              PROVE  GcRowMoves(o)
          <6>1. CASE o = k
            BY Zenon, <2>2, <3>2, <4>4, <4>5, <6>1 DEF GcRowMoves, GcRowAdvances, GcOutstanding
          <6>2. CASE o # k /\ o[1] = k[1]
            BY Zenon, <4>1, <4>3, <4>4, <4>5, <4>6, <6>2
               DEF GcRowMoves, GcRowAdvances, GcOverStates, GcRowsOf
          <6>3. CASE o[1] # k[1]
            BY Zenon, <4>4, <4>5, <6>3 DEF GcRowMoves, GcRowsOf
          <6>. QED  BY Zenon, <6>1, <6>2, <6>3
        <5>. QED  BY Zenon, <4>5, <5>1 DEF GcRowsMove
      <4>8. \A v \in GcWorkers : GcLeasesKept(v)
        BY Zenon, <3>2, <4>4, <4>5, GcAssumption DEF GcLeasesKept
      <4>9. GcSlotsOK(gcSlot') /\ GcSlotsMove
        BY Zenon, <1>1, <4>8, IdleSlot, OneSlotMoves DEF GcIInv
      <4>10. GcTypeOK'
        BY Zenon, <1>1, <4>5, <4>6, <4>9 DEF GcIInv, GcTypeOK
      <4>11. GcMoves
        BY Zenon, <1>1, <4>6, <4>7 DEF GcMoves, GcHistoryKept
      <4>12. GcWithin
        BY Zenon, <1>1, <4>3, <4>5, <4>6 DEF GcWithin, GcActive
      <4>. QED  BY Zenon, <4>9, <4>10, <4>11, <4>12, OrdinaryStep
    <3>. QED  BY Zenon, <3>3, <3>4
  <2>. QED  BY Zenon, <2>3, <2>4
<1>. QED  BY <1>2, <1>3

=============================================================================
