------------------------ MODULE GitHubControlProofs ------------------------
(***************************************************************************)
(* The rest of the steps of the GitHub control plane (those of the queue's *)
(* workers and those that settle jobs, purge an installation or change its *)
(* settings), and the theorems: the live lane follows the selected scope,  *)
(* and a completed backfill is indexed.                                    *)
(***************************************************************************)
EXTENDS GitHubControlSteps

-----------------------------------------------------------------------------
\* queue_step applies a row: admit_projection decides, and what is written to a lane is
\* admitted for that lane; a row that is not admitted although its lease holds belongs to
\* a job that ended.
LEMMA ApplyStep ==
  ASSUME GcIInv, NEW w \in GcWorkers, GcApply(w)
  PROVE  GcIInv'
<1>1. PICK k \in (0 .. Len(gcJobs)) \X GcRepos : k = gcSlot[w].key
  BY Zenon DEF GcApply, GcIInv, GcPlaced
<1>. DEFINE o == IF ~GcAdmit(w) THEN "v2_skipped"
                 ELSE IF GcConflict(k[2]) THEN "conflict" ELSE "v2_completed"
            s == GcRowSlot("finish", k, o)
<1>2. UNCHANGED <<gcInst, gcJobs, gcRows, gcRequests>> /\ gcSlot' = [gcSlot EXCEPT ![w] = s]
  BY Zenon, <1>1 DEF GcApply
<1>3. IF o = "v2_completed" THEN GcBind(k) ELSE UNCHANGED <<gcLive, gcHistory, gcBound>>
  BY Zenon, <1>1 DEF GcApply, gcDocs
<1>4. o \in {"v2_skipped", "conflict", "v2_completed"}
      /\ (o # "v2_skipped" => GcAdmit(w)) /\ (o = "v2_skipped" => ~GcAdmit(w))
  BY Zenon
<1>. HIDE DEF o
<1>5. GcSlotOK(s) /\ s.step = "finish" /\ s.key = k /\ s.outcome = o
  BY <1>4, RowSlot DEF GcIInv, GcTypeOK
<1>. HIDE DEF s
<1>6. GcSlotsOK(gcSlot')
      /\ \A v \in GcWorkers : gcSlot'[v] = IF v = w THEN s ELSE gcSlot[v]
  BY Zenon, <1>2, <1>5 DEF GcIInv, GcTypeOK, GcSlotsOK
<1>7. GcTypeOK'
  <2>1. gcHistory' \subseteq GcRepos
    BY Zenon, <1>1, <1>3 DEF GcBind, GcIInv, GcTypeOK
  <2>. QED  BY Zenon, <1>2, <1>6, <2>1 DEF GcIInv, GcTypeOK
<1>8. GcMoves
  <2>1. gcHistory \subseteq gcHistory'
    BY Zenon, <1>3 DEF GcBind
  <2>. QED  BY Zenon, <1>2, <2>1, SameJobs, SameRows DEF GcMoves, GcHistoryKept
<1>9. GcWalked' /\ GcIndexed'
  BY Zenon, <1>7, <1>8, WalkedStep, IndexedStep
<1>10. \A v \in GcWorkers \ {w} : GcSlotMoves(v)
  BY Zenon, <1>2, <1>6 DEF GcSlotMoves, GcLeasesKept
<1>11. k \in (0 .. Len(gcJobs')) \X GcRepos /\ k[1] \in Nat /\ k = <<k[1], k[2]>> /\ k[2] \in GcRepos
  BY <1>1, <1>2 DEF GcIInv, GcTypeOK
<1>12. GcPlaced'
  <2>1. ASSUME NEW v \in GcWorkers, v # w
        PROVE  /\ gcSlot'[v].step \in {"list", "walk"} => gcSlot'[v].job \in DOMAIN gcJobs'
               /\ gcSlot'[v].step \in {"apply", "finish"}
                    => gcSlot'[v].key \in (0 .. Len(gcJobs')) \X GcRepos
               /\ gcSlot'[v].step = "finish" => gcSlot'[v].outcome # GcNone
    BY Zenon, <1>7, <1>8, <1>10, <2>1, SlotStep
  <2>2. gcSlot'[w] = s
    BY Zenon, <1>6
  <2>. QED  BY Zenon, <1>4, <1>5, <1>11, <2>1, <2>2 DEF GcPlaced, GcNone
<1>13. GcAdmit(w) => /\ k \in DOMAIN gcRows /\ gcInst.active /\ k \in GcOutstandingRows
                     /\ IF k[1] = 0 THEN gcInst.sync
                        ELSE gcJobs[k[1]].kind = "catchup" => gcJobs[k[1]].gen = gcInst.gen
  BY Zenon, <1>1 DEF GcAdmit, GcHoldsRow, GcOutstandingRows, GcOutstanding
<1>14. ASSUME k[1] # 0, GcFirstTry(k[1])
       PROVE  /\ o = "v2_completed" => k[2] \in gcHistory'
              /\ o = "v2_skipped" /\ k \in DOMAIN gcRows /\ gcRows[k].status = "v2_processing"
                   /\ gcRows[k].lease = w => GcOver(k[1])
  <2>1. o = "v2_completed" => k[2] \in gcHistory'
    BY Zenon, <1>3, <1>14 DEF GcBind, GcFirstTry
  <2>2. ASSUME o = "v2_skipped", k \in DOMAIN gcRows, gcRows[k].status = "v2_processing",
               gcRows[k].lease = w
        PROVE  GcOver(k[1])
    <3>1. GcHoldsRow(w) /\ ~GcAdmit(w)
      BY Zenon, <1>1, <1>4, <2>2 DEF GcHoldsRow
    <3>2. gcInst.active
      BY Zenon, <2>2 DEF GcIInv, LiveLaneFollowsScope, GcOutstandingRows, GcOutstanding
    <3>3. gcJobs[k[1]].state \notin {"queued", "running"}
      BY Zenon, <1>1, <1>14, <2>2, <3>1, <3>2 DEF GcAdmit, GcFirstTry
    <3>4. gcJobs[k[1]].state # "completed"
      BY Zenon, <1>14, <2>2 DEF GcIInv, GcIndexed
    <3>5. gcJobs[k[1]].state \in GcStates
      BY Zenon, <1>14, <2>2, Domains DEF GcIInv, GcJobRecs
    <3>. QED  BY Zenon, <3>3, <3>4, <3>5 DEF GcStates, GcOver
  <2>. QED  BY Zenon, <2>1, <2>2
<1>15. GcOutcome'
  <2>1. ASSUME NEW v \in GcWorkers, v # w
        PROVE  gcSlot'[v].step = "finish" /\ gcSlot'[v].key[1] # 0 /\ GcFirstTry(gcSlot[v].key[1])' =>
                 /\ gcSlot'[v].outcome = "v2_completed" => GcHas(gcSlot[v].key[1], gcSlot[v].key[2])'
                 /\ gcSlot'[v].outcome = "v2_skipped" /\ GcHoldsRow(v)' => GcOver(gcSlot[v].key[1])'
    BY Zenon, <1>7, <1>8, <1>10, <2>1, SlotStep
  <2>2. gcSlot'[w] = s
    BY <1>6
  <2>3. ASSUME k[1] # 0, GcFirstTry(k[1])'
        PROVE  /\ o = "v2_completed" => GcHas(k[1], k[2])'
               /\ o = "v2_skipped" /\ GcHoldsRow(w)' => GcOver(k[1])'
    <3>1. GcFirstTry(k[1])
      BY Zenon, <1>2, <2>3 DEF GcFirstTry
    <3>2. GcHoldsRow(w)' => k \in DOMAIN gcRows /\ gcRows[k].status = "v2_processing"
                            /\ gcRows[k].lease = w
      BY Zenon, <1>2, <1>5, <2>2 DEF GcHoldsRow
    <3>. QED  BY Zenon, <1>2, <1>14, <2>3, <3>1, <3>2 DEF GcHas, GcOver
  <2>4. gcSlot'[w].step = "finish" /\ gcSlot'[w].key[1] # 0 /\ GcFirstTry(gcSlot[w].key[1])' =>
          /\ gcSlot'[w].outcome = "v2_completed" => GcHas(gcSlot[w].key[1], gcSlot[w].key[2])'
          /\ gcSlot'[w].outcome = "v2_skipped" /\ GcHoldsRow(w)' => GcOver(gcSlot[w].key[1])'
    BY Zenon, <1>5, <2>2, <2>3 DEF GcHas, GcOver, GcFirstTry
  <2>. QED  BY Zenon, <2>1, <2>4 DEF GcOutcome
<1>16. gcLive' = gcLive \/ (gcInst.active /\ gcLive' = gcLive \cup {k[2]} /\ k[2] \in gcInst.scope)
  <2>1. CASE o = "v2_completed" /\ ~(k[1] # 0 /\ gcJobs[k[1]].kind = "backfill")
    <3>1. GcAdmit(w) /\ gcLive' = gcLive \cup {k[2]}
      BY Zenon, <1>3, <1>4, <2>1 DEF GcBind
    <3>2. CASE k[1] = 0
      BY Zenon, <1>13, <3>1, <3>2 DEF GcIInv, GcSelected
    <3>3. CASE k[1] # 0
      <4>1. k[1] \in DOMAIN gcJobs /\ gcJobs[k[1]].kind \in {"catchup", "backfill"}
        BY Zenon, <1>13, <3>1, <3>3, Domains DEF GcIInv, GcJobRecs
      <4>2. gcJobs[k[1]].kind = "catchup" /\ gcJobs[k[1]].gen = gcInst.gen
        BY Zenon, <1>13, <2>1, <3>1, <3>3, <4>1
      <4>3. gcJobs[k[1]].scope \subseteq gcInst.scope
        BY Zenon, <4>1, <4>2 DEF GcIInv, GcSelected
      <4>4. k[2] \in gcJobs[k[1]].scope
        BY Zenon, <1>13, <3>1, <3>3 DEF GcIInv, GcSelected
      <4>. QED  BY Zenon, <1>13, <3>1, <4>3, <4>4
    <3>. QED  BY Zenon, <3>2, <3>3
  <2>2. CASE ~(o = "v2_completed" /\ ~(k[1] # 0 /\ gcJobs[k[1]].kind = "backfill"))
    BY Zenon, <1>3, <2>2 DEF GcBind
  <2>. QED  BY Zenon, <2>1, <2>2
<1>17. /\ gcLive' \subseteq gcBound'
       /\ gcBound' = gcBound \/ gcInst.active
  BY Zenon, <1>3, <1>4, <1>13 DEF GcBind, GcIInv, GcSelected
<1>18. GcSelected'
  BY Zenon, <1>2, <1>17 DEF GcIInv, GcSelected, GcOutstandingRows
<1>19. LiveLaneFollowsScope'
  BY Zenon, <1>2, <1>16, <1>17 DEF GcIInv, LiveLaneFollowsScope, GcOutstandingRows
<1>. QED  BY Zenon, <1>7, <1>9, <1>12, <1>15, <1>18, <1>19 DEF GcIInv

-----------------------------------------------------------------------------
(* reconcile.                                                               *)

\* reconcile: the jobs whose walkers are gone.
LEMMA ExpiredJobs ==
  ASSUME GcTypeOK, NEW expired
  PROVE  LET jobs == GcExpireJobs(expired) IN
         /\ DOMAIN jobs = DOMAIN gcJobs
         /\ \A j \in DOMAIN gcJobs :
              /\ GcSameWalk(gcJobs[j], jobs[j]) /\ jobs[j].cut = gcJobs[j].cut
              /\ jobs[j] \in GcJobRecs
              /\ \/ jobs[j].state = gcJobs[j].state
                 \/ gcJobs[j].state = "running" /\ jobs[j].state \in {"failed", "queued"}
<1>1. ASSUME NEW j \in DOMAIN gcJobs
      PROVE  LET n == IF gcJobs[j].state = "running" /\ gcJobs[j].lease \in expired
                      THEN GcExpired(gcJobs[j]) ELSE gcJobs[j]
             IN  /\ GcSameWalk(gcJobs[j], n) /\ n.cut = gcJobs[j].cut
                 /\ n \in GcJobRecs
                 /\ \/ n.state = gcJobs[j].state
                    \/ gcJobs[j].state = "running" /\ n.state \in {"failed", "queued"}
  <2>1. gcJobs[j] \in GcJobRecs
    BY Zenon, Domains
  <2>2. /\ GcSameWalk(gcJobs[j], GcExpired(gcJobs[j])) /\ GcExpired(gcJobs[j]).cut = gcJobs[j].cut
        /\ GcExpired(gcJobs[j]).state \in {"failed", "queued"}
    BY Zenon, <2>1, ExpiredJob
  <2>3. GcSameWalk(gcJobs[j], gcJobs[j])
    BY Zenon, <2>1 DEF GcSameWalk
  <2>. QED  BY Zenon, <2>1, <2>2, <2>3 DEF GcSameWalk
<1>. QED  BY Zenon, <1>1 DEF GcExpireJobs

\* reconcile: the rows whose workers are gone.
LEMMA ExpiredRows ==
  ASSUME GcTypeOK, NEW expired
  PROVE  LET rows == GcExpireRows(gcRows, expired) IN
         /\ DOMAIN rows = DOMAIN gcRows /\ rows \in [DOMAIN rows -> GcRowRecs]
         /\ \A k \in DOMAIN gcRows :
              \/ rows[k] = gcRows[k]
              \/ /\ gcRows[k].status = "v2_processing"
                 /\ rows[k].status \in {"v2_pending", "v2_failed"}
<1>1. ASSUME NEW k \in DOMAIN gcRows
      PROVE  LET n == IF gcRows[k].status = "v2_processing" /\ gcRows[k].lease \in expired
                      THEN GcFailedTry(gcRows[k]) ELSE gcRows[k]
             IN  /\ n \in GcRowRecs
                 /\ \/ n = gcRows[k]
                    \/ gcRows[k].status = "v2_processing" /\ n.status \in {"v2_pending", "v2_failed"}
  <2>1. gcRows[k] \in GcRowRecs
    BY Zenon, Domains
  <2>. QED  BY Zenon, <2>1, FailedTryRow
<1>. QED  BY Zenon, <1>1 DEF GcExpireRows

\* reconcile: a job is settled only when its walk is over and none of its rows is
\* outstanding, and it completes only when none of them failed.
LEMMA SettledJob ==
  ASSUME NEW jobs, NEW rows, NEW j \in DOMAIN jobs
  PROVE  LET n == GcSettle(jobs, rows)[j] IN
         \/ n = jobs[j]
         \/ /\ jobs[j].state = "running" /\ jobs[j].enumerated
            /\ \A k \in DOMAIN rows : k[1] = j => rows[k].status \notin GcOutstanding
            /\ \/ n = GcStopped(jobs[j], "failed")
               \/ /\ n = GcStopped(jobs[j], "completed")
                  /\ \A k \in DOMAIN rows : k[1] = j => rows[k].status # "v2_failed"
<1>. DEFINE mine == {rows[k].status : k \in {o \in DOMAIN rows : o[1] = j}}
<1>1. GcSettle(jobs, rows)[j] =
        IF jobs[j].state = "running" /\ jobs[j].enumerated /\ jobs[j].lease = GcNone
              /\ mine \cap GcOutstanding = {}
        THEN GcStopped(jobs[j], IF "v2_failed" \in mine THEN "failed" ELSE "completed")
        ELSE jobs[j]
  BY Zenon DEF GcSettle
<1>2. \A k \in DOMAIN rows : k[1] = j => rows[k].status \in mine
  BY Zenon
<1>. HIDE DEF mine
<1>. QED  BY Zenon, <1>1, <1>2

\* reconcile expires leases, settles jobs and cancels the rows of those that ended.
LEMMA ReconcileStep ==
  ASSUME GcIInv, GcReconcile
  PROVE  GcIInv'
<1>1. PICK expired :
         LET jobs == GcExpireJobs(expired)
             rows == GcCancelRows(GcExpireRows(gcRows, expired),
                       {k \in DOMAIN gcRows : k[1] # 0 /\ jobs[k[1]].state \in {"failed", "canceled"}})
         IN  /\ gcRows' = rows
             /\ gcJobs' = GcSettle(jobs, rows)
             /\ UNCHANGED <<gcInst, gcLive, gcHistory, gcBound, gcSlot, gcRequests>>
  BY Zenon DEF GcReconcile, gcDocs
<1>. DEFINE jobs == GcExpireJobs(expired)
            old == GcExpireRows(gcRows, expired)
            keys == {k \in DOMAIN gcRows : k[1] # 0 /\ jobs[k[1]].state \in {"failed", "canceled"}}
<1>2. /\ gcRows' = GcCancelRows(old, keys) /\ gcJobs' = GcSettle(jobs, gcRows')
      /\ UNCHANGED <<gcInst, gcLive, gcHistory, gcBound, gcSlot, gcRequests>>
  BY Zenon, <1>1
<1>3. /\ DOMAIN jobs = DOMAIN gcJobs
      /\ \A j \in DOMAIN gcJobs :
           /\ GcSameWalk(gcJobs[j], jobs[j]) /\ jobs[j].cut = gcJobs[j].cut
           /\ jobs[j] \in GcJobRecs
           /\ \/ jobs[j].state = gcJobs[j].state
              \/ gcJobs[j].state = "running" /\ jobs[j].state \in {"failed", "queued"}
  BY Zenon, ExpiredJobs DEF GcIInv
<1>4. /\ DOMAIN old = DOMAIN gcRows /\ old \in [DOMAIN old -> GcRowRecs]
      /\ \A k \in DOMAIN gcRows :
           \/ old[k] = gcRows[k]
           \/ gcRows[k].status = "v2_processing" /\ old[k].status \in {"v2_pending", "v2_failed"}
  BY Zenon, ExpiredRows DEF GcIInv
<1>. HIDE DEF jobs, old
<1>5. /\ gcRows' \in [DOMAIN gcRows -> GcRowRecs] /\ DOMAIN gcRows' = DOMAIN gcRows
      /\ \A k \in DOMAIN gcRows :
           IF k \in keys /\ old[k].status \in GcOutstanding
           THEN gcRows'[k].status = "v2_canceled" /\ gcRows'[k].lease = GcNone
           ELSE gcRows'[k] = old[k]
  BY <1>2, <1>4, CanceledRows
<1>6. DOMAIN gcJobs' = DOMAIN gcJobs
  BY Zenon, <1>2, <1>3 DEF GcSettle
<1>7. ASSUME NEW k \in DOMAIN gcRows
      PROVE  \/ gcRows'[k] = gcRows[k]
             \/ /\ gcRows[k].status \in GcOutstanding
                /\ \/ gcRows'[k].status \in {"v2_pending", "v2_failed"}
                   \/ gcRows'[k].status = "v2_canceled" /\ k[1] # 0
                      /\ jobs[k[1]].state \in {"failed", "canceled"}
  BY Zenon, <1>4, <1>5 DEF GcOutstanding
<1>8. ASSUME NEW j \in DOMAIN gcJobs
      PROVE  /\ GcSameWalk(gcJobs[j], gcJobs'[j]) /\ gcJobs'[j].cut = gcJobs[j].cut
             /\ \/ gcJobs'[j].state = jobs[j].state
                \/ jobs[j].state = "running" /\ gcJobs'[j].state = "failed"
                \/ /\ jobs[j].state = "running" /\ gcJobs'[j].state = "completed" /\ gcJobs[j].enumerated
                   /\ \A k \in DOMAIN gcRows' : k[1] = j
                        => gcRows'[k].status \notin {"v2_pending", "v2_processing", "v2_failed"}
  <2>1. GcSameWalk(gcJobs[j], jobs[j]) /\ jobs[j].cut = gcJobs[j].cut /\ jobs[j] \in GcJobRecs
    BY Zenon, <1>3
  <2>2. \/ gcJobs'[j] = jobs[j]
        \/ /\ jobs[j].state = "running" /\ jobs[j].enumerated
           /\ \A k \in DOMAIN gcRows' : k[1] = j => gcRows'[k].status \notin GcOutstanding
           /\ \/ gcJobs'[j] = GcStopped(jobs[j], "failed")
              \/ /\ gcJobs'[j] = GcStopped(jobs[j], "completed")
                 /\ \A k \in DOMAIN gcRows' : k[1] = j => gcRows'[k].status # "v2_failed"
    <3>1. j \in DOMAIN jobs
      BY Zenon, <1>3
    <3>2. gcJobs' = GcSettle(jobs, gcRows')
      BY Zenon, <1>2
    <3>. QED  BY <3>1, <3>2, SettledJob, ZenonT(30)
  <2>3. ASSUME NEW s \in {"failed", "completed"}
        PROVE  /\ GcSameWalk(gcJobs[j], GcStopped(jobs[j], s))
               /\ GcStopped(jobs[j], s).cut = gcJobs[j].cut /\ GcStopped(jobs[j], s).state = s
    <3>1. /\ GcSameWalk(jobs[j], GcStopped(jobs[j], s))
          /\ GcStopped(jobs[j], s).cut = jobs[j].cut /\ GcStopped(jobs[j], s).state = s
      BY <2>1, StoppedJob DEF GcStates
    <3>. QED  BY Zenon, <2>1, <3>1 DEF GcSameWalk
  <2>4. gcJobs[j].enumerated = jobs[j].enumerated
    BY Zenon, <2>1 DEF GcSameWalk
  <2>. QED  BY Zenon, <2>1, <2>2, <2>3, <2>4 DEF GcOutstanding
<1>9. gcJobs' \in Seq(GcJobRecs) /\ Len(gcJobs') = Len(gcJobs)
  <2>1. gcJobs' \in [DOMAIN gcJobs -> GcJobRecs]
    BY Zenon, <1>2, <1>3, <1>6, <1>8 DEF GcSameWalk, GcSettle
  <2>. QED  BY Zenon, <2>1, Rebuilt DEF GcIInv, GcTypeOK
<1>10. ASSUME NEW j \in DOMAIN gcJobs
       PROVE  GcJobMoves(j)
  <2>1. CASE gcJobs'[j].state = jobs[j].state \/ (jobs[j].state = "running" /\ gcJobs'[j].state = "failed")
    BY <1>3, <1>8, <2>1, SameJobMoves DEF GcOverStates
  <2>2. CASE /\ jobs[j].state = "running" /\ gcJobs'[j].state = "completed" /\ gcJobs[j].enumerated
             /\ \A k \in DOMAIN gcRows' : k[1] = j
                  => gcRows'[k].status \notin {"v2_pending", "v2_processing", "v2_failed"}
    <3>1. gcJobs[j].state = "running" /\ j # 0
      BY <1>3, <2>2, Domains DEF GcIInv
    <3>2. ASSUME GcFirstTry(j), NEW k \in DOMAIN gcRows', k[1] = j
          PROVE  gcRows'[k].status = "v2_completed"
      <4>1. gcRows'[k] = gcRows[k] \/ gcRows'[k].status = "v2_canceled"
        BY Zenon, <1>5, <1>7, <2>2, <3>2
      <4>2. gcRows[k].status \notin {"v2_skipped", "v2_canceled"}
        BY Zenon, <1>5, <3>1, <3>2 DEF GcIInv, GcIndexed, GcOver
      <4>3. gcRows'[k] = gcRows[k]
        BY Zenon, <1>5, <1>7, <2>2, <3>2, <4>1
      <4>4. gcRows'[k].status \in GcStatuses
        BY Zenon, <1>5 DEF GcRowRecs
      <4>. QED  BY Zenon, <2>2, <3>2, <4>2, <4>3, <4>4 DEF GcStatuses
    <3>3. GcSameWalk(gcJobs[j], gcJobs'[j]) /\ gcJobs'[j].cut = gcJobs[j].cut
      BY Zenon, <1>8
    <3>4. gcJobs'[j].kind = "backfill" /\ gcJobs'[j].retries = 0 => GcFirstTry(j)
      BY Zenon, <3>3 DEF GcFirstTry, GcSameWalk
    <3>. QED  BY Zenon, <2>2, <3>1, <3>2, <3>3, <3>4 DEF GcJobMoves, GcSameWalk, GcOverStates
  <2>. QED  BY Zenon, <1>8, <2>1, <2>2
<1>11. ASSUME NEW k \in DOMAIN gcRows
       PROVE  GcRowMoves(k)
  <2>1. k[1] # 0 => k[1] \in DOMAIN gcJobs
    BY Zenon, Domains DEF GcIInv
  <2>2. k[1] # 0 /\ jobs[k[1]].state \in {"failed", "canceled"} => gcJobs'[k[1]].state \in GcOverStates
    BY Zenon, <1>8, <2>1 DEF GcOverStates
  <2>. QED  BY Zenon, <1>7, <2>2 DEF GcRowMoves, GcRowAdvances
<1>12. GcMoves
  BY Zenon, <1>2, <1>5, <1>6, <1>10, <1>11 DEF GcMoves, GcJobsMove, GcRowsMove, GcHistoryKept
<1>13. GcTypeOK'
  BY Zenon, <1>2, <1>5, <1>9 DEF GcIInv, GcTypeOK
<1>14. GcSlotsMove
  BY ZenonT(30), <1>2, <1>5, <1>7 DEF GcSlotsMove, GcSlotMoves, GcLeasesKept
<1>15. GcWithin
  BY ZenonT(30), <1>2, <1>3, <1>5, <1>6, <1>8 DEF GcWithin, GcActive
<1>. QED  BY Zenon, <1>12, <1>13, <1>14, <1>15, OrdinaryStep

-----------------------------------------------------------------------------
(* The steps that change the settings.                                      *)

\* purge removes the installation's bindings, jobs and rows in one transaction.
LEMMA PurgeStep ==
  ASSUME GcIInv, GcPurge
  PROVE  GcIInv'
<1>1. /\ gcInst' = GcSettings(FALSE, FALSE, gcInst.scope, gcInst.gen + 1)
      /\ gcJobs' = [j \in DOMAIN gcJobs |->
                      GcCut(IF gcJobs[j].state \in GcActive THEN GcStopped(gcJobs[j], "canceled")
                            ELSE gcJobs[j], GcRepos)]
      /\ gcRows' = GcCancelRows(gcRows, DOMAIN gcRows)
      /\ gcLive' = {} /\ gcHistory' = {} /\ gcBound' = {}
      /\ UNCHANGED <<gcSlot, gcRequests>>
  BY Zenon DEF GcPurge
<1>2. gcInst.gen \in Nat /\ gcInst.scope \in SUBSET GcRepos /\ gcInst.gen + 1 \in Nat
  BY DEF GcIInv, GcTypeOK
<1>3. /\ gcInst' \in [active: BOOLEAN, sync: BOOLEAN, scope: SUBSET GcRepos, gen: Nat]
      /\ ~gcInst'.active /\ gcInst'.scope = gcInst.scope /\ gcInst'.gen = gcInst.gen + 1
  <2>. DEFINE g == gcInst.gen + 1
  <2>1. g \in Nat
    BY Zenon, <1>2
  <2>2. gcInst' = [active |-> FALSE, sync |-> FALSE, scope |-> gcInst.scope, gen |-> g]
    BY Zenon, <1>1 DEF GcSettings
  <2>. HIDE DEF g
  <2>3. /\ gcInst' \in [active: BOOLEAN, sync: BOOLEAN, scope: SUBSET GcRepos, gen: Nat]
        /\ gcInst'.active = FALSE /\ gcInst'.scope = gcInst.scope /\ gcInst'.gen = g
    BY Zenon, <1>2, <2>1, <2>2
  <2>. QED  BY Zenon, <2>3 DEF g
<1>4. ASSUME NEW j \in DOMAIN gcJobs
      PROVE  /\ GcSameWalk(gcJobs[j], gcJobs'[j]) /\ gcJobs'[j].cut = gcJobs[j].cut \cup GcRepos
             /\ gcJobs'[j].state = IF gcJobs[j].state \in GcActive THEN "canceled"
                                   ELSE gcJobs[j].state
  <2>1. gcJobs[j] \in GcJobRecs /\ "canceled" \in GcStates /\ GcRepos \in SUBSET GcRepos
    BY Zenon, Domains DEF GcIInv, GcStates
  <2>. DEFINE a == IF gcJobs[j].state \in GcActive THEN GcStopped(gcJobs[j], "canceled")
                   ELSE gcJobs[j]
  <2>2. /\ GcSameWalk(gcJobs[j], a) /\ a.cut = gcJobs[j].cut /\ a \in GcJobRecs
        /\ a.state = IF gcJobs[j].state \in GcActive THEN "canceled" ELSE gcJobs[j].state
    BY <2>1, StoppedJob DEF GcSameWalk
  <2>3. gcJobs'[j] = GcCut(a, GcRepos)
    BY Zenon, <1>1
  <2>. HIDE DEF a
  <2>4. /\ GcSameWalk(a, GcCut(a, GcRepos)) /\ GcCut(a, GcRepos).cut = a.cut \cup GcRepos
        /\ GcCut(a, GcRepos).state = a.state
    BY Zenon, <2>1, <2>2, CutJob
  <2>. QED  BY Zenon, <2>2, <2>3, <2>4 DEF GcSameWalk
<1>5. gcJobs' \in Seq(GcJobRecs) /\ Len(gcJobs') = Len(gcJobs) /\ DOMAIN gcJobs' = DOMAIN gcJobs
  <2>1. gcJobs' \in [DOMAIN gcJobs -> GcJobRecs]
    BY Zenon, <1>1, <1>4 DEF GcSameWalk
  <2>. QED  BY Zenon, <2>1, Rebuilt DEF GcIInv, GcTypeOK
<1>6. /\ gcRows' \in [DOMAIN gcRows -> GcRowRecs] /\ DOMAIN gcRows' = DOMAIN gcRows
      /\ \A k \in DOMAIN gcRows :
           IF gcRows[k].status \in GcOutstanding
           THEN gcRows'[k].status = "v2_canceled" /\ gcRows'[k].lease = GcNone
           ELSE gcRows'[k] = gcRows[k]
  BY SMTT(30), <1>1, CanceledRows DEF GcIInv, GcTypeOK
<1>7. GcTypeOK'
  BY Zenon, <1>1, <1>3, <1>5, <1>6 DEF GcIInv, GcTypeOK
<1>8. GcJobsMove
  BY Zenon, <1>4, <1>5, SameJobMoves DEF GcJobsMove, GcOverStates, GcActive
<1>9. ASSUME NEW k \in DOMAIN gcRows
      PROVE  GcRowMoves(k)
  <2>1. CASE gcRows[k].status \notin GcOutstanding
    BY Zenon, <1>6, <2>1 DEF GcRowMoves
  <2>2. CASE gcRows[k].status \in GcOutstanding
    <3>1. ASSUME k[1] # 0, GcFirstTry(k[1])
          PROVE  gcJobs'[k[1]].state \in GcOverStates
      <4>1. k[1] \in DOMAIN gcJobs /\ gcJobs[k[1]].state \in GcStates
        BY Zenon, <3>1, Domains DEF GcIInv, GcJobRecs
      <4>2. gcJobs[k[1]].state # "completed"
        BY Zenon, <2>2, <3>1 DEF GcIInv, GcIndexed, GcOutstanding
      <4>. QED  BY Zenon, <1>4, <4>1, <4>2 DEF GcStates, GcOverStates, GcActive
    <3>. QED  BY Zenon, <1>6, <2>2, <3>1 DEF GcRowMoves, GcRowAdvances
  <2>. QED  BY Zenon, <2>1, <2>2
<1>10. GcHistoryKept
  <2>1. gcHistory \subseteq GcRepos
    BY Zenon DEF GcIInv, GcTypeOK
  <2>. QED  BY Zenon, <1>4, <2>1 DEF GcHistoryKept
<1>11. GcMoves
  BY Zenon, <1>6, <1>8, <1>9, <1>10 DEF GcMoves, GcRowsMove
<1>12. GcSlotsMove
  BY Zenon, <1>1, <1>6 DEF GcSlotsMove, GcSlotMoves, GcLeasesKept
<1>13. \A k \in DOMAIN gcRows' : k[1] # 0 => k[2] \in gcJobs'[k[1]].scope
  BY Zenon, <1>6, <1>7, <1>11, RowScopes
<1>14. GcOutstandingRows' = {}
  BY Zenon, <1>6 DEF GcOutstandingRows, GcOutstanding
<1>15. \A j \in DOMAIN gcJobs' : gcJobs'[j].gen <= gcInst'.gen /\ gcJobs'[j].gen # gcInst'.gen
  <2>1. ASSUME NEW j \in DOMAIN gcJobs
        PROVE  gcJobs'[j].gen = gcJobs[j].gen /\ gcJobs[j].gen <= gcInst.gen /\ gcJobs[j].gen \in Nat
    <3>1. gcJobs[j] \in GcJobRecs
      BY Zenon, Domains DEF GcIInv
    <3>2. gcJobs[j].gen \in Nat
      BY Zenon, <3>1 DEF GcJobRecs
    <3>. QED  BY Zenon, <1>4, <3>2 DEF GcSameWalk, GcIInv, GcSelected
  <2>2. \A n \in Nat : n <= gcInst.gen => n <= gcInst'.gen /\ n # gcInst'.gen
    BY <1>2, <1>3
  <2>. QED  BY Zenon, <1>5, <2>1, <2>2
<1>16. GcSelected'
  BY Zenon, <1>1, <1>13, <1>14, <1>15 DEF GcSelected
<1>17. \A j \in DOMAIN gcJobs' : gcJobs'[j].state \notin GcActive
  BY Zenon, <1>4, <1>5 DEF GcActive
<1>18. LiveLaneFollowsScope'
  BY Zenon, <1>1, <1>3, <1>14, <1>17 DEF LiveLaneFollowsScope
<1>. QED  BY Zenon, <1>7, <1>11, <1>12, <1>16, <1>18, WalkedStep, IndexedStep, SlotsStep DEF GcIInv

\* A sequence with an entry appended, or not.
LEMMA MaybeAdded ==
  ASSUME NEW T, NEW s \in Seq(T), NEW h \in T, NEW c \in BOOLEAN
  PROVE  LET new == IF c THEN Append(s, h) ELSE s IN
         /\ new \in Seq(T) /\ DOMAIN s \subseteq DOMAIN new
         /\ 0 .. Len(s) \subseteq 0 .. Len(new)
         /\ \A i \in DOMAIN s : new[i] = s[i]
         /\ \A i \in DOMAIN new \ DOMAIN s : c /\ new[i] = h
<1>1. CASE ~c
  BY Zenon, <1>1
<1>2. CASE c
  <2>1. /\ Append(s, h) \in Seq(T) /\ Len(Append(s, h)) = Len(s) + 1 /\ Len(s) \in Nat
        /\ DOMAIN Append(s, h) = DOMAIN s \cup {Len(s) + 1}
        /\ Append(s, h)[Len(s) + 1] = h
        /\ \A i \in DOMAIN s : Append(s, h)[i] = s[i]
    BY OneAdded
  <2>2. 0 .. Len(s) \subseteq 0 .. Len(Append(s, h))
    BY <2>1
  <2>. QED  BY Zenon, <1>2, <2>1, <2>2
<1>. QED  BY Zenon, <1>1, <1>2

\* A change of the settings writes every job without a change of its walk, and may append
\* the catch-up of the new generation.
LEMMA SettingsJobs ==
  ASSUME GcIInv, NEW jobs, NEW h, NEW c \in BOOLEAN,
         jobs \in [DOMAIN gcJobs -> GcJobRecs], h \in GcJobRecs,
         gcJobs' = IF c THEN Append(jobs, h) ELSE jobs,
         h.left = h.scope, ~h.enumerated, h.state = "queued",
         \A j \in DOMAIN gcJobs :
           /\ GcSameWalk(gcJobs[j], jobs[j]) /\ gcJobs[j].cut \subseteq jobs[j].cut
           /\ gcJobs[j].state \in GcOverStates => jobs[j].state \in GcOverStates
           /\ jobs[j].state = "completed" => gcJobs[j].state = "completed"
  PROVE  /\ gcJobs' \in Seq(GcJobRecs) /\ DOMAIN gcJobs \subseteq DOMAIN gcJobs'
         /\ 0 .. Len(gcJobs) \subseteq 0 .. Len(gcJobs')
         /\ \A j \in DOMAIN gcJobs : gcJobs'[j] = jobs[j]
         /\ \A j \in DOMAIN gcJobs' \ DOMAIN gcJobs : c /\ gcJobs'[j] = h
         /\ GcJobsMove
<1>1. jobs \in Seq(GcJobRecs) /\ Len(jobs) = Len(gcJobs) /\ DOMAIN jobs = DOMAIN gcJobs
  BY Zenon, Rebuilt DEF GcIInv, GcTypeOK
<1>2. /\ gcJobs' \in Seq(GcJobRecs) /\ DOMAIN gcJobs \subseteq DOMAIN gcJobs'
      /\ 0 .. Len(gcJobs) \subseteq 0 .. Len(gcJobs')
      /\ \A j \in DOMAIN gcJobs : gcJobs'[j] = jobs[j]
      /\ \A j \in DOMAIN gcJobs' \ DOMAIN gcJobs : c /\ gcJobs'[j] = h
  <2>. DEFINE new == IF c THEN Append(jobs, h) ELSE jobs
  <2>1. /\ new \in Seq(GcJobRecs) /\ DOMAIN jobs \subseteq DOMAIN new
        /\ 0 .. Len(jobs) \subseteq 0 .. Len(new)
        /\ \A i \in DOMAIN jobs : new[i] = jobs[i]
        /\ \A i \in DOMAIN new \ DOMAIN jobs : c /\ new[i] = h
    BY <1>1, MaybeAdded
  <2>2. gcJobs' = new
    BY Zenon
  <2>. HIDE DEF new
  <2>. QED  BY Zenon, <1>1, <2>1, <2>2
<1>3. \A j \in DOMAIN gcJobs : GcJobMoves(j)
  BY Zenon, <1>2, SameJobMoves
<1>4. \A j \in DOMAIN gcJobs' \ DOMAIN gcJobs : GcNewJob(j)
  BY Zenon, <1>2 DEF GcNewJob
<1>. QED  BY Zenon, <1>2, <1>3, <1>4 DEF GcJobsMove

\* patch_sync: live rows and catch-ups of the old settings are canceled and what is no
\* longer selected leaves the live lane, in the transaction that changes the scope.
LEMMA PatchStep ==
  ASSUME GcIInv, NEW q \in GcAsks, gcInst.active, GcPatch(q),
         gcRequests' \subseteq GcAsks, gcSlot' = gcSlot
  PROVE  GcIInv'
<1>. DEFINE gen == gcInst.gen + 1
            stale == {j \in DOMAIN gcJobs : gcJobs[j].kind = "catchup" /\ gcJobs[j].state \in GcActive}
            jobs == [j \in DOMAIN gcJobs |->
                       IF j \in stale THEN GcStopped(gcJobs[j], "canceled") ELSE gcJobs[j]]
            h == GcJob("catchup", q.scope, gen, gen)
            keys == {k \in DOMAIN gcRows : k[1] = 0 \/ gcJobs[k[1]].kind = "catchup"}
<1>1. /\ gcInst' = GcSettings(TRUE, q.sync, q.scope, gen)
      /\ gcJobs' = IF q.sync THEN Append(jobs, h) ELSE jobs
      /\ gcRows' = GcCancelRows(gcRows, keys)
      /\ gcLive' = gcLive \ (gcInst.scope \ q.scope) /\ gcHistory' = gcHistory /\ gcBound' = gcBound
  BY Zenon DEF GcPatch, GcRemoveMembership
<1>2. gen \in Nat /\ gcInst.gen \in Nat /\ gen > gcInst.gen
      /\ q.scope \in SUBSET GcRepos /\ q.sync \in BOOLEAN
  BY DEF GcIInv, GcTypeOK, GcAsks
<1>. HIDE DEF gen
<1>3. /\ gcInst' \in [active: BOOLEAN, sync: BOOLEAN, scope: SUBSET GcRepos, gen: Nat]
      /\ gcInst'.active = TRUE /\ gcInst'.scope = q.scope /\ gcInst'.gen = gen
  <2>1. gcInst' = [active |-> TRUE, sync |-> q.sync, scope |-> q.scope, gen |-> gen]
    BY Zenon, <1>1 DEF GcSettings
  <2>. QED  BY Zenon, <1>2, <2>1
<1>4. /\ h \in GcJobRecs /\ h.kind = "catchup" /\ h.scope = q.scope /\ h.gen = gen
      /\ h.left = q.scope /\ ~h.enumerated /\ h.state = "queued"
  <2>1. "catchup" \in {"catchup", "backfill"}
    BY Zenon
  <2>. QED  BY <1>2, <2>1, NewJob
<1>5. ASSUME NEW j \in DOMAIN gcJobs
      PROVE  /\ GcSameWalk(gcJobs[j], jobs[j]) /\ jobs[j].cut = gcJobs[j].cut
             /\ jobs[j].state = gcJobs[j].state
                  \/ (jobs[j].state = "canceled" /\ gcJobs[j].state \in GcActive)
  <2>1. gcJobs[j] \in GcJobRecs /\ "canceled" \in GcStates
    BY Zenon, Domains DEF GcIInv, GcStates
  <2>2. GcSameWalk(gcJobs[j], gcJobs[j])
    BY Zenon, <2>1 DEF GcSameWalk
  <2>. QED  BY <2>1, <2>2, StoppedJob
<1>6. jobs \in [DOMAIN gcJobs -> GcJobRecs]
  BY Zenon, <1>5 DEF GcSameWalk
<1>. HIDE DEF jobs, h
<1>7. /\ gcJobs' \in Seq(GcJobRecs) /\ DOMAIN gcJobs \subseteq DOMAIN gcJobs'
      /\ 0 .. Len(gcJobs) \subseteq 0 .. Len(gcJobs')
      /\ \A j \in DOMAIN gcJobs : gcJobs'[j] = jobs[j]
      /\ \A j \in DOMAIN gcJobs' \ DOMAIN gcJobs : q.sync /\ gcJobs'[j] = h
      /\ GcJobsMove
  <2>1. \A j \in DOMAIN gcJobs :
           /\ GcSameWalk(gcJobs[j], jobs[j]) /\ gcJobs[j].cut \subseteq jobs[j].cut
           /\ gcJobs[j].state \in GcOverStates => jobs[j].state \in GcOverStates
           /\ jobs[j].state = "completed" => gcJobs[j].state = "completed"
    BY Zenon, <1>5 DEF GcActive, GcOverStates
  <2>2. gcJobs' = IF q.sync THEN Append(jobs, h) ELSE jobs
    BY Zenon, <1>1
  <2>3. h.left = h.scope /\ ~h.enumerated /\ h.state = "queued"
    BY Zenon, <1>4
  <2>. QED  BY ZenonT(30), <1>2, <1>4, <1>6, <2>1, <2>2, <2>3, SettingsJobs
<1>8. /\ gcRows' \in [DOMAIN gcRows -> GcRowRecs] /\ DOMAIN gcRows' = DOMAIN gcRows
      /\ \A k \in DOMAIN gcRows :
           IF k \in keys /\ gcRows[k].status \in GcOutstanding
           THEN gcRows'[k].status = "v2_canceled" /\ gcRows'[k].lease = GcNone
           ELSE gcRows'[k] = gcRows[k]
  BY <1>1, CanceledRows DEF GcIInv, GcTypeOK
<1>9. GcTypeOK'
  <2>1. (0 .. Len(gcJobs)) \X GcRepos \subseteq (0 .. Len(gcJobs')) \X GcRepos
    BY Zenon, <1>7
  <2>. QED  BY Zenon, <1>1, <1>3, <1>7, <1>8, <2>1 DEF GcIInv, GcTypeOK
<1>10. GcRowsMove
  BY Zenon, <1>8 DEF GcRowsMove, GcRowMoves, GcRowAdvances, GcFirstTry
<1>11. GcMoves
  BY Zenon, <1>1, <1>7, <1>10 DEF GcMoves, GcHistoryKept
<1>12. GcSlotsMove
  BY Zenon, <1>8 DEF GcSlotsMove, GcSlotMoves, GcLeasesKept
<1>13. \A k \in DOMAIN gcRows' : k[1] # 0 => k[2] \in gcJobs'[k[1]].scope
  BY Zenon, <1>8, <1>9, <1>11, RowScopes
<1>14. ASSUME NEW k \in GcOutstandingRows'
       PROVE  k[1] # 0
  BY Zenon, <1>8 DEF GcOutstandingRows, GcOutstanding
<1>15. ASSUME NEW j \in DOMAIN gcJobs'
       PROVE  /\ gcJobs'[j].gen <= gcInst'.gen
              /\ gcJobs'[j].kind = "catchup" /\ gcJobs'[j].gen = gcInst'.gen
                   => gcJobs'[j].scope \subseteq gcInst'.scope
  <2>1. CASE j \notin DOMAIN gcJobs
    BY <1>2, <1>3, <1>4, <1>7, <2>1
  <2>2. CASE j \in DOMAIN gcJobs
    <3>1. gcJobs[j] \in GcJobRecs
      BY <2>2, Domains DEF GcIInv
    <3>2. gcJobs[j].gen \in Nat /\ gcJobs[j].gen <= gcInst.gen
      BY Zenon, <2>2, <3>1 DEF GcJobRecs, GcIInv, GcSelected
    <3>3. gcJobs'[j].gen = gcJobs[j].gen
      BY <1>5, <1>7, <2>2 DEF GcSameWalk
    <3>. QED  BY <1>2, <1>3, <3>2, <3>3
  <2>. QED  BY Zenon, <2>1, <2>2
<1>16. gcLive' \subseteq gcBound'
  BY Zenon, <1>1 DEF GcIInv, GcSelected
<1>17. GcSelected'
  BY Zenon, <1>13, <1>14, <1>15, <1>16 DEF GcSelected
<1>18. LiveLaneFollowsScope'
  BY Zenon, <1>1, <1>3 DEF GcIInv, LiveLaneFollowsScope
<1>. QED  BY <1>9, <1>11, <1>12, <1>17, <1>18, WalkedStep, IndexedStep, SlotsStep DEF GcIInv

\* A request of the dashboard commits, or is refused for its generation.
LEMMA CommitStep ==
  ASSUME GcIInv, NEW q \in gcRequests, GcCommit(q)
  PROVE  GcIInv'
<1>1. q \in GcAsks /\ gcRequests' \subseteq GcAsks /\ gcSlot' = gcSlot
  BY Zenon DEF GcIInv, GcTypeOK, GcCommit
<1>2. CASE UNCHANGED <<gcInst, gcWalker, gcJobs, gcRows, gcDocs>>
  BY Zenon, <1>1, <1>2, AsideStep DEF gcDocs
<1>3. CASE gcInst.active /\ GcPatch(q)
  BY Zenon, <1>1, <1>3, PatchStep
<1>4. CASE gcInst.active /\ GcStartBackfill(q)
  BY Zenon, <1>1, <1>4, StartBackfillStep
<1>. QED  BY Zenon, <1>2, <1>3, <1>4 DEF GcCommit

\* revoke_repository_access takes a repository from the scope, from both lanes and from
\* the jobs that name it.
LEMMA RevokeStep ==
  ASSUME GcIInv, NEW r \in GcRepos, GcRevoke(r)
  PROVE  GcIInv'
<1>1. gcSlot' = gcSlot /\ gcRequests' = gcRequests /\ gcRequests' \subseteq GcAsks
  BY Zenon DEF GcIInv, GcTypeOK, GcRevoke
<1>2. CASE ~gcInst.active
  <2>1. UNCHANGED <<gcInst, gcJobs, gcRows, gcLive, gcHistory, gcBound>>
    BY Zenon, <1>2 DEF GcRevoke, gcDocs
  <2>. QED  BY Zenon, <1>1, <2>1, AsideStep
<1>3. CASE gcInst.active
  <2>. DEFINE changed == r \in gcInst.scope
              scope == gcInst.scope \ {r}
              gen == IF changed THEN gcInst.gen + 1 ELSE gcInst.gen
              hit == {j \in DOMAIN gcJobs : gcJobs[j].state \in GcActive /\ r \in gcJobs[j].scope}
              jobs == [j \in DOMAIN gcJobs |->
                         GcCut(IF j \in hit THEN GcStopped(gcJobs[j], "failed") ELSE gcJobs[j], {r})]
              keys == GcRowsOf(hit) \cup IF changed THEN {<<0, r>>} ELSE {}
              rows == GcCancelRows(gcRows, keys)
              h == GcJob("catchup", scope, gen, gen)
              c == changed /\ gcInst.sync /\ scope # {}
  <2>1. /\ gcInst' = GcSettings(TRUE, gcInst.sync, scope, gen)
        /\ gcJobs' = IF c THEN Append(jobs, h) ELSE jobs
        /\ gcRows' = [k \in DOMAIN rows |->
                        IF k[1] = 0 /\ changed /\ rows[k].status \in GcOutstanding
                        THEN GcRenewed(rows[k], gen) ELSE rows[k]]
        /\ gcLive' = gcLive \ {r} /\ gcHistory' = gcHistory \ {r} /\ gcBound' = gcBound
    BY Zenon, <1>3 DEF GcRevoke, GcRemoveMembership
  <2>2. /\ gen \in Nat /\ gcInst.gen \in Nat /\ gcInst.gen <= gen
        /\ changed => gcInst.gen < gen
        /\ ~changed => gen = gcInst.gen /\ scope = gcInst.scope
        /\ scope \in SUBSET GcRepos /\ gcInst.sync \in BOOLEAN
    BY DEF GcIInv, GcTypeOK
  <2>c. c \in BOOLEAN /\ (c => changed)
    BY Zenon
  <2>k. /\ \A k \in keys : k \in DOMAIN gcRows =>
             k[1] \in hit \/ (changed /\ k = <<0, r>>)
        /\ changed => <<0, r>> \in keys
    BY Zenon DEF GcRowsOf
  <2>h. \A j \in hit : j \in DOMAIN gcJobs
    BY Zenon
  <2>. HIDE DEF gen, c, changed
  <2>3. /\ gcInst' \in [active: BOOLEAN, sync: BOOLEAN, scope: SUBSET GcRepos, gen: Nat]
        /\ gcInst'.active = TRUE /\ gcInst'.scope = scope /\ gcInst'.gen = gen
    <3>1. gcInst' = [active |-> TRUE, sync |-> gcInst.sync, scope |-> scope, gen |-> gen]
      BY Zenon, <2>1 DEF GcSettings
    <3>. QED  BY Zenon, <2>2, <3>1
  <2>4. /\ h \in GcJobRecs /\ h.kind = "catchup" /\ h.scope = scope /\ h.gen = gen
        /\ h.left = scope /\ ~h.enumerated /\ h.state = "queued"
    <3>1. "catchup" \in {"catchup", "backfill"}
      BY Zenon
    <3>. HIDE DEF scope
    <3>. QED  BY <2>2, <3>1, NewJob
  <2>5. ASSUME NEW j \in DOMAIN gcJobs
        PROVE  /\ GcSameWalk(gcJobs[j], jobs[j]) /\ jobs[j].cut = gcJobs[j].cut \cup {r}
               /\ jobs[j].state = IF j \in hit THEN "failed" ELSE gcJobs[j].state
    <3>1. gcJobs[j] \in GcJobRecs /\ "failed" \in GcStates /\ {r} \in SUBSET GcRepos
      BY Zenon, Domains DEF GcIInv, GcStates
    <3>. DEFINE a == IF j \in hit THEN GcStopped(gcJobs[j], "failed") ELSE gcJobs[j]
    <3>2. /\ GcSameWalk(gcJobs[j], a) /\ a.cut = gcJobs[j].cut /\ a \in GcJobRecs
          /\ a.state = IF j \in hit THEN "failed" ELSE gcJobs[j].state
      <4>1. GcSameWalk(gcJobs[j], gcJobs[j])
        BY Zenon, <3>1 DEF GcSameWalk
      <4>2. /\ GcSameWalk(gcJobs[j], GcStopped(gcJobs[j], "failed"))
            /\ GcStopped(gcJobs[j], "failed").cut = gcJobs[j].cut
            /\ GcStopped(gcJobs[j], "failed").state = "failed"
        BY Zenon, <3>1, StoppedJob
      <4>. HIDE DEF hit
      <4>. QED  BY Zenon, <3>1, <4>1, <4>2 DEF GcSameWalk
    <3>3. jobs[j] = GcCut(a, {r})
      BY Zenon
    <3>. HIDE DEF a, jobs, hit
    <3>4. /\ GcSameWalk(a, GcCut(a, {r})) /\ GcCut(a, {r}).cut = a.cut \cup {r}
          /\ GcCut(a, {r}).state = a.state
      BY Zenon, <3>1, <3>2, CutJob
    <3>. QED  BY Zenon, <3>2, <3>3, <3>4 DEF GcSameWalk
  <2>6. jobs \in [DOMAIN gcJobs -> GcJobRecs]
    BY Zenon, <2>5 DEF GcSameWalk
  <2>7. \A j \in hit : gcJobs[j].state \in GcActive
    BY Zenon
  <2>. HIDE DEF jobs, h, hit, keys, scope
  <2>8. /\ gcJobs' \in Seq(GcJobRecs) /\ DOMAIN gcJobs \subseteq DOMAIN gcJobs'
        /\ 0 .. Len(gcJobs) \subseteq 0 .. Len(gcJobs')
        /\ \A j \in DOMAIN gcJobs : gcJobs'[j] = jobs[j]
        /\ \A j \in DOMAIN gcJobs' \ DOMAIN gcJobs : c /\ gcJobs'[j] = h
        /\ GcJobsMove
    <3>1. \A j \in DOMAIN gcJobs :
             /\ GcSameWalk(gcJobs[j], jobs[j]) /\ gcJobs[j].cut \subseteq jobs[j].cut
             /\ gcJobs[j].state \in GcOverStates => jobs[j].state \in GcOverStates
             /\ jobs[j].state = "completed" => gcJobs[j].state = "completed"
      BY Zenon, <2>5, <2>7 DEF GcActive, GcOverStates
    <3>2. gcJobs' = IF c THEN Append(jobs, h) ELSE jobs
      BY Zenon, <2>1
    <3>3. h.left = h.scope /\ ~h.enumerated /\ h.state = "queued"
      BY Zenon, <2>4
    <3>. QED  BY SMTT(30), <2>c, <2>4, <2>6, <3>1, <3>2, <3>3, SettingsJobs
  <2>9. /\ rows \in [DOMAIN gcRows -> GcRowRecs] /\ DOMAIN rows = DOMAIN gcRows
        /\ \A k \in DOMAIN gcRows :
             IF k \in keys /\ gcRows[k].status \in GcOutstanding
             THEN rows[k].status = "v2_canceled" /\ rows[k].lease = GcNone
             ELSE rows[k] = gcRows[k]
    BY Zenon, CanceledRows DEF GcIInv, GcTypeOK
  <2>. HIDE DEF rows
  <2>10. /\ gcRows' \in [DOMAIN gcRows -> GcRowRecs] /\ DOMAIN gcRows' = DOMAIN gcRows
         /\ \A k \in DOMAIN gcRows : gcRows'[k].status = rows[k].status /\ gcRows'[k].lease = rows[k].lease
    <3>1. ASSUME NEW k \in DOMAIN gcRows
          PROVE  /\ gcRows'[k] \in GcRowRecs
                 /\ gcRows'[k].status = rows[k].status /\ gcRows'[k].lease = rows[k].lease
      <4>1. rows[k] \in GcRowRecs
        BY Zenon, <2>9
      <4>2. gcRows'[k] = GcRenewed(rows[k], gen) \/ gcRows'[k] = rows[k]
        BY Zenon, <2>1, <2>9
      <4>. QED  BY <2>2, <4>1, <4>2, RenewedRow
    <3>. QED  BY Zenon, <2>1, <2>9, <3>1
  <2>11. GcTypeOK'
    <3>1. (0 .. Len(gcJobs)) \X GcRepos \subseteq (0 .. Len(gcJobs')) \X GcRepos
      BY Zenon, <2>8
    <3>. QED  BY Zenon, <1>1, <2>1, <2>3, <2>8, <2>10, <3>1 DEF GcIInv, GcTypeOK
  <2>12. ASSUME NEW k \in DOMAIN gcRows
         PROVE  GcRowMoves(k)
    <3>1. CASE k \in keys /\ gcRows[k].status \in GcOutstanding
      <4>1. k[1] # 0 => gcJobs'[k[1]].state \in GcOverStates
        BY <2>k, <2>h, <2>5, <2>8, <3>1 DEF GcOverStates
      <4>. QED  BY Zenon, <2>9, <2>10, <3>1, <4>1 DEF GcRowMoves, GcRowAdvances
    <3>2. CASE ~(k \in keys /\ gcRows[k].status \in GcOutstanding)
      BY Zenon, <2>9, <2>10, <3>2 DEF GcRowMoves
    <3>. QED  BY Zenon, <3>1, <3>2
  <2>13. GcMoves
    BY <2>1, <2>5, <2>8, <2>10, <2>12 DEF GcMoves, GcRowsMove, GcHistoryKept
  <2>14. GcSlotsMove
    BY <1>1, <2>9, <2>10 DEF GcSlotsMove, GcSlotMoves, GcLeasesKept
  <2>15. \A k \in DOMAIN gcRows' : k[1] # 0 => k[2] \in gcJobs'[k[1]].scope
    BY Zenon, <2>10, <2>11, <2>13, RowScopes
  <2>16. ASSUME NEW k \in GcOutstandingRows', k[1] = 0
         PROVE  k[2] \in gcInst'.scope
    <3>1. k \in DOMAIN gcRows /\ gcRows[k].status \in GcOutstanding /\ rows[k].status # "v2_canceled"
      BY Zenon, <2>9, <2>10 DEF GcOutstandingRows, GcOutstanding
    <3>2. k[2] \in gcInst.scope
      BY Zenon, <2>16, <3>1 DEF GcIInv, GcSelected, GcOutstandingRows
    <3>3. k \notin keys
      BY Zenon, <2>9, <3>1
    <3>4. k = <<0, k[2]>>
      BY Zenon, <2>16, <3>1, Domains DEF GcIInv
    <3>5. changed => k[2] # r
      BY Zenon, <2>k, <3>3, <3>4
    <3>. QED  BY Zenon, <2>2, <2>3, <3>2, <3>5 DEF scope
  <2>17. ASSUME NEW j \in DOMAIN gcJobs'
         PROVE  /\ gcJobs'[j].gen <= gcInst'.gen
                /\ gcJobs'[j].kind = "catchup" /\ gcJobs'[j].gen = gcInst'.gen
                     => gcJobs'[j].scope \subseteq gcInst'.scope
    <3>1. CASE j \notin DOMAIN gcJobs
      BY <2>2, <2>3, <2>4, <2>8, <3>1
    <3>2. CASE j \in DOMAIN gcJobs
      <4>1. gcJobs[j] \in GcJobRecs
        BY Zenon, <3>2, Domains DEF GcIInv
      <4>2. /\ gcJobs[j].gen \in Nat /\ gcJobs[j].gen <= gcInst.gen
            /\ gcJobs[j].kind = "catchup" /\ gcJobs[j].gen = gcInst.gen
                 => gcJobs[j].scope \subseteq gcInst.scope
        BY Zenon, <3>2, <4>1 DEF GcJobRecs, GcIInv, GcSelected
      <4>3. /\ gcJobs'[j].gen = gcJobs[j].gen /\ gcJobs'[j].kind = gcJobs[j].kind
            /\ gcJobs'[j].scope = gcJobs[j].scope
        BY Zenon, <2>5, <2>8, <3>2 DEF GcSameWalk
      <4>. QED  BY <2>2, <2>3, <4>2, <4>3
    <3>. QED  BY Zenon, <3>1, <3>2
  <2>18. gcLive' \subseteq gcBound'
    BY Zenon, <2>1 DEF GcIInv, GcSelected
  <2>19. GcSelected'
    BY Zenon, <2>15, <2>16, <2>17, <2>18 DEF GcSelected
  <2>20. LiveLaneFollowsScope'
    BY Zenon, <1>3, <2>1, <2>3 DEF GcIInv, LiveLaneFollowsScope, scope
  <2>. QED  BY ZenonT(30), <2>11, <2>13, <2>14, <2>19, <2>20, WalkedStep, IndexedStep, SlotsStep DEF GcIInv
<1>. QED  BY Zenon, <1>2, <1>3

-----------------------------------------------------------------------------
\* Each of the installations a behaviour may begin with.
LEMMA GcInitial ==
  GcInit => GcIInv
<1>. SUFFICES ASSUME GcInit
              PROVE  GcIInv
  BY Zenon
<1>1. PICK start \in {"synced", "queued", "failed", "asked", "purged"} :
         LET synced == start = "synced"
             job == GcJob(IF synced THEN "catchup" ELSE "backfill", GcRepos, 1,
                          IF synced THEN 1 ELSE 0)
         IN  /\ gcInst = [active |-> start # "purged", sync |-> synced,
                          scope |-> IF synced THEN GcRepos ELSE {}, gen |-> 1]
             /\ gcJobs = CASE start = "asked" -> << >>
                          [] start = "failed" -> <<GcStopped(job, "failed")>>
                          [] start = "purged" -> <<GcStopped(job, "canceled")>>
                          [] OTHER -> <<job>>
             /\ gcRequests = IF start # "asked" THEN {}
                             ELSE {[kind |-> "backfill", scope |-> scope, sync |-> FALSE, gen |-> 1] :
                                     scope \in {GcRepos, GcLiveRepos}}
  BY Zenon DEF GcInit
<1>2. /\ gcRows = [k \in {} |-> k] /\ gcLive = {} /\ gcHistory = {} /\ gcBound = {}
      /\ gcSlot = [w \in GcWorkers |-> GcIdle]
  BY Zenon DEF GcInit
<1>. DEFINE synced == start = "synced"
            kind == IF synced THEN "catchup" ELSE "backfill"
            key == IF synced THEN 1 ELSE 0
            job == GcJob(kind, GcRepos, 1, key)
            scope == IF synced THEN GcRepos ELSE {}
            first == CASE start = "failed" -> GcStopped(job, "failed")
                       [] start = "purged" -> GcStopped(job, "canceled")
                       [] OTHER -> job
<1>3. /\ job \in GcJobRecs /\ job.kind = kind /\ job.scope = GcRepos /\ job.gen = 1
      /\ job.left = GcRepos /\ ~job.enumerated /\ job.state = "queued"
  <2>1. kind \in {"catchup", "backfill"} /\ key \in Nat /\ GcRepos \in SUBSET GcRepos /\ 1 \in Nat
    BY Zenon
  <2>. HIDE DEF kind, key
  <2>. QED  BY <2>1, NewJob
<1>. HIDE DEF job
<1>4. /\ first \in GcJobRecs /\ first.kind = kind /\ first.scope = GcRepos /\ first.gen = 1
      /\ first.left = GcRepos /\ ~first.enumerated
      /\ first.state = CASE start = "failed" -> "failed" [] start = "purged" -> "canceled"
                         [] OTHER -> "queued"
  BY <1>3, StoppedJob DEF GcSameWalk, GcStates
<1>5. gcJobs = << >> \/ gcJobs = <<first>>
  BY Zenon, <1>1 DEF job
<1>. HIDE DEF first
<1>6. /\ gcJobs \in Seq(GcJobRecs)
      /\ \A j \in DOMAIN gcJobs : gcJobs[j] = first
  <2>1. first \in GcJobRecs
    BY Zenon, <1>4
  <2>2. CASE gcJobs = << >>
    BY <2>2
  <2>3. CASE gcJobs = <<first>>
    BY <2>1, <2>3
  <2>. QED  BY Zenon, <1>5, <2>2, <2>3
<1>7. gcInst = [active |-> start # "purged", sync |-> synced, scope |-> scope, gen |-> 1]
  BY Zenon, <1>1
<1>8. /\ gcInst \in [active: BOOLEAN, sync: BOOLEAN, scope: SUBSET GcRepos, gen: Nat]
      /\ gcInst.active = (start # "purged") /\ gcInst.scope = scope /\ gcInst.gen = 1
  <2>1. (start # "purged") \in BOOLEAN /\ synced \in BOOLEAN /\ scope \in SUBSET GcRepos
    BY Zenon
  <2>. HIDE DEF synced, scope
  <2>. QED  BY Zenon, <1>7, <2>1
<1>9. gcRequests \subseteq GcAsks
  <2>1. ASSUME NEW c \in SUBSET GcRepos
        PROVE  [kind |-> "backfill", scope |-> c, sync |-> FALSE, gen |-> 1] \in GcAsks
    BY Zenon DEF GcAsks
  <2>2. {GcRepos, GcLiveRepos} \subseteq SUBSET GcRepos
    BY Zenon, GcAssumption
  <2>3. \/ gcRequests = {}
        \/ gcRequests = {[kind |-> "backfill", scope |-> c, sync |-> FALSE, gen |-> 1] :
                            c \in {GcRepos, GcLiveRepos}}
    BY Zenon, <1>1
  <2>. QED  BY Zenon, <2>1, <2>2, <2>3
<1>10. DOMAIN gcRows = {} /\ \A w \in GcWorkers : gcSlot[w] = GcIdle
  BY Zenon, <1>2
<1>11. GcTypeOK
  BY Zenon, <1>2, <1>6, <1>8, <1>9, <1>10, IdleSlot DEF GcTypeOK, GcSlotsOK
<1>12. GcPlaced /\ GcOutcome
  BY Zenon, <1>10, IdleSlot DEF GcPlaced, GcOutcome
<1>13. GcSelected
  <2>1. kind = "catchup" => scope = GcRepos
    BY Zenon
  <2>. HIDE DEF kind, scope
  <2>. QED  BY <1>2, <1>4, <1>6, <1>8, <1>10, <2>1 DEF GcSelected, GcOutstandingRows
<1>14. LiveLaneFollowsScope
  BY Zenon, <1>2, <1>4, <1>6, <1>8, <1>10 DEF LiveLaneFollowsScope, GcOutstandingRows, GcActive
<1>15. GcWalked
  BY Zenon, <1>4, <1>6, <1>10 DEF GcWalked
<1>16. GcIndexed
  BY Zenon, <1>10 DEF GcIndexed
<1>. QED  BY Zenon, <1>11, <1>12, <1>13, <1>14, <1>15, <1>16 DEF GcIInv

\* Every step keeps the invariant: one case per operation.
LEMMA GcStep ==
  GcIInv /\ [GcNext]_gcVars => GcIInv'
<1>. SUFFICES ASSUME GcIInv, [GcNext]_gcVars
              PROVE  GcIInv'
  BY Zenon
<1>1. CASE UNCHANGED gcVars
  BY Zenon, <1>1, Stutter
<1>2. CASE GcAsk
  BY Zenon, <1>2, AskStep
<1>3. ASSUME NEW q \in gcRequests, GcCommit(q)
      PROVE  GcIInv'
  BY Zenon, <1>3, CommitStep
<1>4. CASE GcPurge
  BY <1>4, PurgeStep
<1>5. CASE GcReconnect
  BY <1>5, ReconnectStep
<1>6. CASE GcReconcile
  BY <1>6, ReconcileStep
<1>7. ASSUME NEW r \in GcLiveRepos, GcWebhook(r)
      PROVE  GcIInv'
  BY Zenon, <1>7, WebhookStep
<1>8. ASSUME NEW r \in GcRepos, GcRevoke(r) \/ GcAccessLost(r)
      PROVE  GcIInv'
  BY Zenon, <1>8, RevokeStep, AccessLostStep
<1>9. ASSUME NEW j \in DOMAIN gcJobs, GcCancel(j) \/ GcRetry(j)
      PROVE  GcIInv'
  BY Zenon, <1>9, CancelStep, RetryStep
<1>10. ASSUME NEW w \in GcWorkers,
              GcHistoryClaim(w) \/ GcHistoryList(w) \/ GcHistoryEvent(w) \/ GcHistoryStop(w)
              \/ GcHistoryFail(w)
       PROVE  GcIInv'
  BY Zenon, <1>10, HistoryClaimStep, HistoryListStep, HistoryEventStep, HistoryStopStep, HistoryFailStep
<1>11. ASSUME NEW w \in GcWorkers,
              GcClaim(w) \/ GcApply(w) \/ GcFinish(w) \/ GcRowFails(w) \/ GcCrash(w)
       PROVE  GcIInv'
  BY Zenon, <1>11, ClaimStep, ApplyStep, FinishStep, RowFailsStep, CrashStep
<1>. QED  BY Zenon, <1>1, <1>2, <1>3, <1>4, <1>5, <1>6, <1>7, <1>8, <1>9, <1>10, <1>11 DEF GcNext

\* The inductive invariant holds whatever the dashboard, the webhooks, the provider, the
\* workers, their crashes and the reconciler do between each other's transactions.
THEOREM GcInductive ==
  GcSpec => []GcIInv
BY GcInitial, GcStep, PTL DEF GcSpec

\* patch_sync, revoke_repository_access, purge and admit_projection: a document is in the
\* live lane only while its repository is selected, however late the row that writes it is
\* applied; and an installation that was purged keeps no binding, row or active job.
THEOREM LiveLaneIsSelected ==
  GcSpec => []LiveLaneFollowsScope
<1>1. GcIInv => LiveLaneFollowsScope
  BY Zenon DEF GcIInv
<1>. QED  BY <1>1, GcInductive, PTL

\* reconcile: a backfill that completes at its first try has every repository of its scope
\* in the history lane, or access to it was withdrawn after the backfill was asked for.
THEOREM BackfillsAreIndexed ==
  GcSpec => []CompletedBackfillIsIndexed
<1>1. GcIInv => CompletedBackfillIsIndexed
  <2>. SUFFICES ASSUME GcIInv, NEW j \in DOMAIN gcJobs, GcFirstTry(j), gcJobs[j].state = "completed",
                       NEW r \in gcJobs[j].scope
                PROVE  r \in gcHistory \cup gcJobs[j].cut
    BY Zenon DEF CompletedBackfillIsIndexed, GcRepresents, GcFirstTry
  <2>. DEFINE k == <<j, r>>
  <2>1. k \in DOMAIN gcRows /\ k[1] = j /\ k[2] = r
    BY Zenon DEF GcIInv, GcWalked
  <2>2. j # 0
    BY Domains DEF GcIInv
  <2>. HIDE DEF k
  <2>3. gcRows[k].status = "v2_completed" /\ GcHas(k[1], k[2])
    BY Zenon, <2>1, <2>2 DEF GcIInv, GcIndexed
  <2>. QED  BY Zenon, <2>1, <2>3 DEF GcHas
<1>. QED  BY <1>1, GcInductive, PTL

=============================================================================
