-------------------------- MODULE IngestionProofs ---------------------------
(***************************************************************************)
(* The ingestion queue (IngestionQueue), for every set of rows and claim   *)
(* loops and every attempt budget and batch bound; and the removal of a    *)
(* source with everything queued for it (SourcePurge).                     *)
(***************************************************************************)
EXTENDS IngestionQueue, SourcePurge, TLAPS

(* The removal of a source. *)

(* A purge that has closed the gate and not ended. *)
SpUnderWay(p) == spRun[p].phase \notin {"idle", "failed", "done"}

(* No purge of the source is started while another one is under way. *)
SpAlone(p) == \A o \in SpRuns \ {p} : ~SpUnderWay(o)
SpSerial == [][\A p \in SpRuns : SpPurgeStart(p) => SpAlone(p)]_spVars

SpPhases == {"idle", "wait", "close", "tokens", "cascade", "sweep", "count", "countraw",
             "verified", "failed", "done"}
SpTypeOK ==
    spRun \in [SpRuns -> [phase : SpPhases, listed : BOOLEAN, round : Nat, errors : BOOLEAN,
                          residue : BOOLEAN]]

(* Nothing is queued and no history is recorded. *)
SpRested == (\A e \in SpIds : spRows[e].status = "none") /\ spBack.status = "none"

(***************************************************************************)
(* What each phase of a purge has established under the gate it closed:    *)
(* from _run_cascade on there is no token, and from the sweep on nothing   *)
(* queued and no history.                                                  *)
(***************************************************************************)
SpGated ==
    \A p \in SpRuns :
        /\ SpUnderWay(p) => spGate
        /\ spRun[p].phase \in {"cascade", "sweep", "count", "countraw", "verified"} => ~spToken
        /\ spRun[p].phase \in {"sweep", "count", "countraw", "verified"} => SpRested

SpOne == \A p, o \in SpRuns : SpUnderWay(p) /\ SpUnderWay(o) => p = o

SpIInv == SpTypeOK /\ SpOne /\ SpGated /\ VerifiedPurgeHolds

(* A step of SpTo moves one purge to the phase it names. *)
LEMMA SpPhaseStep ==
    ASSUME SpTypeOK, NEW p \in SpRuns, NEW phase \in SpPhases, SpTo(p, phase)
    PROVE  /\ SpTypeOK'
           /\ spRun'[p].phase = phase
           /\ \A o \in SpRuns \ {p} : spRun'[o] = spRun[o]
BY ZenonT(30) DEF SpTypeOK, SpTo

(***************************************************************************)
(* A step of a producer keeps the invariant: it moves no purge, and while  *)
(* the gate is closed or the purge stands it makes no token, and without   *)
(* one nothing it may queue or restart.                                    *)
(***************************************************************************)
LEMMA SpProducerStep ==
    ASSUME SpIInv, spRun' = spRun, spGate' = spGate, spGone' => spGone,
           ~spToken /\ (spGate \/ spGone') => ~spToken',
           SpRested /\ ~spToken /\ (spGate \/ spGone') => SpRested'
    PROVE  SpIInv'
BY Zenon DEF SpIInv, SpTypeOK, SpOne, SpGated, VerifiedPurgeHolds, SpUnderWay, SpRested

(***************************************************************************)
(* A step of a purge under way keeps the invariant, when it leaves what    *)
(* its new phase promises, and opens the gate and counts as gone only      *)
(* with the verified receipt.                                              *)
(***************************************************************************)
LEMMA SpRunStep ==
    ASSUME SpIInv, SpTypeOK', NEW p \in SpRuns, SpUnderWay(p),
           \A o \in SpRuns \ {p} : spRun'[o] = spRun[o],
           spRun'[p].phase # "done" => (spGate => spGate') /\ (spGone' => spGone),
           spRun'[p].phase \in {"cascade", "sweep", "count", "countraw", "verified"} => ~spToken',
           spRun'[p].phase \in {"sweep", "count", "countraw", "verified"} => SpRested',
           spRun'[p].phase = "done" => spRun[p].phase = "verified",
           spRun'[p].phase # "idle",
           ~spToken => ~spToken', SpRested => SpRested'
    PROVE  SpIInv'
<1>1. SpOne'
  BY Zenon DEF SpIInv, SpOne, SpUnderWay
<1>2. ASSUME NEW o \in SpRuns, o # p PROVE ~SpUnderWay(o) /\ ~SpUnderWay(o)'
  BY Zenon, <1>2 DEF SpIInv, SpOne, SpUnderWay
<1>3. SpGated'
  BY Zenon, <1>2 DEF SpIInv, SpGated, SpUnderWay
<1>4. VerifiedPurgeHolds'
  BY Zenon DEF SpIInv, SpGated, VerifiedPurgeHolds, SpRested
<1>. QED  BY Zenon, <1>1, <1>3, <1>4 DEF SpIInv

(***************************************************************************)
(* Closing the gate for a new purge, or asking again for a failed one,     *)
(* keeps the invariant.                                                    *)
(***************************************************************************)
LEMMA SpRestStep ==
    ASSUME SpIInv, SpTypeOK', NEW p \in SpRuns, ~SpUnderWay(p),
           \A o \in SpRuns \ {p} : spRun'[o] = spRun[o],
           \/ spRun'[p].phase = "idle" /\ spGate' = spGate
           \/ spRun'[p].phase = "wait" /\ spGate' = TRUE /\ SpAlone(p),
           spGone' = spGone, spToken' = spToken, spRows' = spRows, spBack' = spBack
    PROVE  SpIInv'
<1>1. SpOne' /\ SpGated'
  BY DEF SpIInv, SpOne, SpGated, SpUnderWay, SpAlone, SpRested
<1>. QED  BY Zenon, <1>1 DEF SpIInv, VerifiedPurgeHolds

(* Connecting, the webhook, the reaper and the worker keep the invariant. *)
LEMMA SpProducers ==
    ASSUME SpIInv,
           \/ SpConnect
           \/ SpEnqueueBackfill
           \/ SpAdopt
           \/ SpDisconnect
           \/ SpHookPut
           \/ SpHookAdmit
           \/ SpHookDiscard
           \/ SpReap
           \/ SpWorkClaim
           \/ SpWorkAdmit
           \/ SpWorkCommit
    PROVE  SpIInv'
<1>1. /\ spRun' = spRun /\ spGate' = spGate
      /\ spGone' => spGone
  BY DEF SpConnect, SpEnqueueBackfill, SpAdopt, SpDisconnect, SpHookPut, SpHookAdmit, SpHookDiscard, SpReap, SpWorkClaim, SpWorkAdmit, SpWorkCommit, spProc
<1>2. ASSUME SpConnect
      PROVE  /\ ~spToken /\ (spGate \/ spGone') => ~spToken'
             /\ SpRested /\ ~spToken /\ (spGate \/ spGone') => SpRested'
  BY Zenon, <1>2 DEF SpConnect, spLane, spData, SpRested
<1>3. ASSUME SpEnqueueBackfill
      PROVE  /\ ~spToken /\ (spGate \/ spGone') => ~spToken'
             /\ SpRested /\ ~spToken /\ (spGate \/ spGone') => SpRested'
  BY Zenon, <1>3 DEF SpEnqueueBackfill, spLane, spData, SpRested
<1>4. ASSUME SpAdopt
      PROVE  /\ ~spToken /\ (spGate \/ spGone') => ~spToken'
             /\ SpRested /\ ~spToken /\ (spGate \/ spGone') => SpRested'
  BY Zenon, <1>4 DEF SpAdopt, spLane, spData, SpRested
<1>5. ASSUME SpDisconnect
      PROVE  /\ ~spToken /\ (spGate \/ spGone') => ~spToken'
             /\ SpRested /\ ~spToken /\ (spGate \/ spGone') => SpRested'
  BY Zenon, <1>5 DEF SpDisconnect, spLane, spData, SpRested
<1>6. ASSUME SpHookPut
      PROVE  /\ ~spToken /\ (spGate \/ spGone') => ~spToken'
             /\ SpRested /\ ~spToken /\ (spGate \/ spGone') => SpRested'
  BY Zenon, <1>6 DEF SpHookPut, spLane, spData, SpRested
<1>7. ASSUME SpHookAdmit
      PROVE  /\ ~spToken /\ (spGate \/ spGone') => ~spToken'
             /\ SpRested /\ ~spToken /\ (spGate \/ spGone') => SpRested'
  BY Zenon, <1>7 DEF SpHookAdmit, SpInsert, spLane, spData, SpRested
<1>8. ASSUME SpHookDiscard
      PROVE  /\ ~spToken /\ (spGate \/ spGone') => ~spToken'
             /\ SpRested /\ ~spToken /\ (spGate \/ spGone') => SpRested'
  BY Zenon, <1>8 DEF SpHookDiscard, spLane, spData, SpRested
<1>9. ASSUME SpReap
      PROVE  /\ ~spToken /\ (spGate \/ spGone') => ~spToken'
             /\ SpRested /\ ~spToken /\ (spGate \/ spGone') => SpRested'
  BY Zenon, <1>9 DEF SpReap, spLane, spData, SpRested
<1>10. ASSUME SpWorkClaim
      PROVE  /\ ~spToken /\ (spGate \/ spGone') => ~spToken'
             /\ SpRested /\ ~spToken /\ (spGate \/ spGone') => SpRested'
  BY <1>10 DEF SpWorkClaim, spLane, spData, SpRested
<1>11. ASSUME SpWorkAdmit
      PROVE  /\ ~spToken /\ (spGate \/ spGone') => ~spToken'
             /\ SpRested /\ ~spToken /\ (spGate \/ spGone') => SpRested'
  BY Zenon, <1>11 DEF SpWorkAdmit, spLane, spData, SpRested
<1>12. ASSUME SpWorkCommit
      PROVE  /\ ~spToken /\ (spGate \/ spGone') => ~spToken'
             /\ SpRested /\ ~spToken /\ (spGate \/ spGone') => SpRested'
  BY Zenon, <1>12 DEF SpWorkCommit, spLane, spData, SpRested
<1>. QED  BY Zenon, <1>1, <1>2, <1>3, <1>4, <1>5, <1>6, <1>7, <1>8, <1>9, <1>10, <1>11, <1>12, SpProducerStep

(* A process that runs history keeps the invariant. *)
LEMMA SpHistory ==
    ASSUME SpIInv, NEW r \in SpRunners,
           \/ SpClaim(r)
           \/ SpLoad(r)
           \/ SpMarkRunning(r)
           \/ SpCheck(r)
           \/ SpHalt(r)
           \/ SpPut(r)
           \/ SpFlush(r)
           \/ SpDrop(r)
           \/ SpEnd(r)
           \/ SpProviderFails(r)
           \/ SpInterrupt(r)
    PROVE  SpIInv'
<1>1. /\ spRun' = spRun /\ spGate' = spGate
      /\ spGone' => spGone
  BY DEF SpClaim, SpLoad, SpMarkRunning, SpCheck, SpHalt, SpPut, SpFlush, SpDrop, SpEnd, SpProviderFails, SpInterrupt, spProc
<1>2. ASSUME SpClaim(r)
      PROVE  /\ ~spToken /\ (spGate \/ spGone') => ~spToken'
             /\ SpRested /\ ~spToken /\ (spGate \/ spGone') => SpRested'
  BY Zenon, <1>2 DEF SpClaim, spLane, spData, SpRested
<1>3. ASSUME SpLoad(r)
      PROVE  /\ ~spToken /\ (spGate \/ spGone') => ~spToken'
             /\ SpRested /\ ~spToken /\ (spGate \/ spGone') => SpRested'
  BY Zenon, <1>3 DEF SpLoad, SpMark, SpOwns, spLane, spData, SpRested
<1>4. ASSUME SpMarkRunning(r)
      PROVE  /\ ~spToken /\ (spGate \/ spGone') => ~spToken'
             /\ SpRested /\ ~spToken /\ (spGate \/ spGone') => SpRested'
  BY Zenon, <1>4 DEF SpMarkRunning, spLane, spData, SpRested
<1>5. ASSUME SpCheck(r)
      PROVE  /\ ~spToken /\ (spGate \/ spGone') => ~spToken'
             /\ SpRested /\ ~spToken /\ (spGate \/ spGone') => SpRested'
  BY Zenon, <1>5 DEF SpCheck, spLane, spData, SpRested
<1>6. ASSUME SpHalt(r)
      PROVE  /\ ~spToken /\ (spGate \/ spGone') => ~spToken'
             /\ SpRested /\ ~spToken /\ (spGate \/ spGone') => SpRested'
  BY Zenon, <1>6 DEF SpHalt, SpMark, SpOwns, spLane, spData, SpRested
<1>7. ASSUME SpPut(r)
      PROVE  /\ ~spToken /\ (spGate \/ spGone') => ~spToken'
             /\ SpRested /\ ~spToken /\ (spGate \/ spGone') => SpRested'
  BY Zenon, <1>7 DEF SpPut, spLane, spData, SpRested
<1>8. ASSUME SpFlush(r)
      PROVE  /\ ~spToken /\ (spGate \/ spGone') => ~spToken'
             /\ SpRested /\ ~spToken /\ (spGate \/ spGone') => SpRested'
  BY Zenon, <1>8 DEF SpFlush, SpAdmits, SpInsert, spLane, spData, SpRested
<1>9. ASSUME SpDrop(r)
      PROVE  /\ ~spToken /\ (spGate \/ spGone') => ~spToken'
             /\ SpRested /\ ~spToken /\ (spGate \/ spGone') => SpRested'
  BY Zenon, <1>9 DEF SpDrop, spLane, spData, SpRested
<1>10. ASSUME SpEnd(r)
      PROVE  /\ ~spToken /\ (spGate \/ spGone') => ~spToken'
             /\ SpRested /\ ~spToken /\ (spGate \/ spGone') => SpRested'
  BY Zenon, <1>10 DEF SpEnd, SpMark, SpOwns, spLane, spData, SpRested
<1>11. ASSUME SpProviderFails(r)
      PROVE  /\ ~spToken /\ (spGate \/ spGone') => ~spToken'
             /\ SpRested /\ ~spToken /\ (spGate \/ spGone') => SpRested'
  BY Zenon, <1>11 DEF SpProviderFails, SpMark, SpOwns, spLane, spData, SpRested
<1>12. ASSUME SpInterrupt(r)
      PROVE  /\ ~spToken /\ (spGate \/ spGone') => ~spToken'
             /\ SpRested /\ ~spToken /\ (spGate \/ spGone') => SpRested'
  BY Zenon, <1>12 DEF SpInterrupt, SpOwns, spLane, spData, SpRested
<1>. QED  BY ZenonT(30), <1>1, <1>2, <1>3, <1>4, <1>5, <1>6, <1>7, <1>8, <1>9, <1>10, <1>11, <1>12, SpProducerStep

(* Every step of a purge under way keeps the invariant. *)
LEMMA SpPurges ==
    ASSUME SpIInv, NEW p \in SpRuns,
           \/ SpPurgeWait(p)
           \/ SpPurgeClose(p)
           \/ SpPurgeTokens(p)
           \/ SpCascade(p)
           \/ SpSweep(p)
           \/ SpCount(p)
           \/ SpCountRaw(p)
           \/ SpPurgeVerified(p)
           \/ SpPurgeCrash(p)
    PROVE  SpIInv'
<1> DEFINE Moves ==
      /\ SpTypeOK' /\ SpUnderWay(p)
      /\ \A o \in SpRuns \ {p} : spRun'[o] = spRun[o]
      /\ spRun'[p].phase # "done" => (spGate => spGate') /\ (spGone' => spGone)
      /\ spRun'[p].phase # "idle"
      /\ spRun'[p].phase = "done" => spRun[p].phase = "verified"
      /\ spRun'[p].phase \in {"cascade", "sweep", "count", "countraw", "verified"} => ~spToken'
      /\ spRun'[p].phase \in {"sweep", "count", "countraw", "verified"} => SpRested'
      /\ ~spToken => ~spToken'
      /\ SpRested => SpRested'
<1>0. SpTypeOK /\ SpGated
  BY Zenon DEF SpIInv
<1>1. ASSUME SpPurgeWait(p) PROVE Moves
  <2>1. PICK phase \in {"failed", "close"} : SpTo(p, phase)
    BY Zenon, <1>1 DEF SpPurgeWait
  <2>2. /\ SpTypeOK' /\ spRun'[p].phase = phase
        /\ \A o \in SpRuns \ {p} : spRun'[o] = spRun[o]
    BY Zenon, <1>0, <2>1, SpPhaseStep DEF SpPhases
  <2>3. SpRested => SpRested'
    BY Zenon, <1>1 DEF SpPurgeWait, SpRested, spLane, spData
  <2>. QED  BY Zenon, <1>0, <1>1, <2>2, <2>3 DEF SpPurgeWait, SpGated, SpUnderWay, spLane
<1>2. ASSUME SpPurgeClose(p) PROVE Moves
  <2>1. PICK phase \in {"tokens"} : SpTo(p, phase)
    BY Zenon, <1>2 DEF SpPurgeClose
  <2>2. /\ SpTypeOK' /\ spRun'[p].phase = phase
        /\ \A o \in SpRuns \ {p} : spRun'[o] = spRun[o]
    BY Zenon, <1>0, <2>1, SpPhaseStep DEF SpPhases
  <2>3. SpRested => SpRested'
    BY Zenon, <1>2 DEF SpPurgeClose, SpRested, spLane, spData
  <2>. QED  BY Zenon, <1>0, <1>2, <2>2, <2>3 DEF SpPurgeClose, SpGated, SpUnderWay, spLane
<1>3. ASSUME SpPurgeTokens(p) PROVE Moves
  <2>1. PICK phase \in {"cascade"} : SpTo(p, phase)
    BY Zenon, <1>3 DEF SpPurgeTokens
  <2>2. /\ SpTypeOK' /\ spRun'[p].phase = phase
        /\ \A o \in SpRuns \ {p} : spRun'[o] = spRun[o]
    BY Zenon, <1>0, <2>1, SpPhaseStep DEF SpPhases
  <2>3. SpRested => SpRested'
    BY Zenon, <1>3 DEF SpPurgeTokens, SpRested, spLane, spData
  <2>. QED  BY Zenon, <1>0, <1>3, <2>2, <2>3 DEF SpPurgeTokens, SpGated, SpUnderWay, spLane
<1>4. ASSUME SpCascade(p) PROVE Moves
  <2>1. PICK phase \in {"sweep"} : SpTo(p, phase)
    BY Zenon, <1>4 DEF SpCascade
  <2>2. /\ SpTypeOK' /\ spRun'[p].phase = phase
        /\ \A o \in SpRuns \ {p} : spRun'[o] = spRun[o]
    BY Zenon, <1>0, <2>1, SpPhaseStep DEF SpPhases
  <2>3. SpRested => SpRested'
    BY Zenon, <1>4 DEF SpCascade, SpRested, spLane, spData, SpNoRow
  <2>4. SpRested'
    BY Zenon, <1>4 DEF SpCascade, SpRested, SpNoRow
  <2>. QED  BY Zenon, <1>0, <1>4, <2>2, <2>3, <2>4 DEF SpCascade, SpGated, SpUnderWay, spLane
<1>5. ASSUME SpSweep(p) PROVE Moves
  <2>1. /\ SpTypeOK' /\ spRun'[p].phase = "count"
        /\ \A o \in SpRuns \ {p} : spRun'[o] = spRun[o]
    BY <1>0, <1>5 DEF SpSweep, SpTypeOK, SpPhases, SpTo
  <2>2. SpRested => SpRested'
    BY Zenon, <1>5 DEF SpSweep, SpRested, spLane, spData
  <2>. QED  BY Zenon, <1>0, <1>5, <2>1, <2>2 DEF SpSweep, SpGated, SpUnderWay, spLane
<1>6. ASSUME SpCount(p) PROVE Moves
  <2>1. /\ SpTypeOK' /\ spRun'[p].phase = "countraw"
        /\ \A o \in SpRuns \ {p} : spRun'[o] = spRun[o]
    BY <1>0, <1>6 DEF SpCount, SpTypeOK, SpPhases, SpTo
  <2>2. SpRested => SpRested'
    BY Zenon, <1>6 DEF SpCount, SpRested, spLane, spData
  <2>. QED  BY Zenon, <1>0, <1>6, <2>1, <2>2 DEF SpCount, SpGated, SpUnderWay, spLane
<1>7. ASSUME SpCountRaw(p) PROVE Moves
  <2>1. PICK phase \in {"cascade", "failed", "verified"} : SpTo(p, phase)
    BY Zenon, <1>7 DEF SpCountRaw
  <2>2. /\ SpTypeOK' /\ spRun'[p].phase = phase
        /\ \A o \in SpRuns \ {p} : spRun'[o] = spRun[o]
    BY Zenon, <1>0, <2>1, SpPhaseStep DEF SpPhases
  <2>3. SpRested => SpRested'
    BY Zenon, <1>7 DEF SpCountRaw, SpRested, spLane, spData
  <2>. QED  BY Zenon, <1>0, <1>7, <2>2, <2>3 DEF SpCountRaw, SpGated, SpUnderWay, spLane
<1>8. ASSUME SpPurgeVerified(p) PROVE Moves
  <2>1. PICK phase \in {"done"} : SpTo(p, phase)
    BY Zenon, <1>8 DEF SpPurgeVerified
  <2>2. /\ SpTypeOK' /\ spRun'[p].phase = phase
        /\ \A o \in SpRuns \ {p} : spRun'[o] = spRun[o]
    BY Zenon, <1>0, <2>1, SpPhaseStep DEF SpPhases
  <2>3. SpRested => SpRested'
    BY Zenon, <1>8 DEF SpPurgeVerified, SpRested, spLane, spData
  <2>. QED  BY Zenon, <1>0, <1>8, <2>2, <2>3 DEF SpPurgeVerified, SpGated, SpUnderWay, spLane
<1>9. ASSUME SpPurgeCrash(p) PROVE Moves
  <2>1. PICK phase \in {"failed"} : SpTo(p, phase)
    BY Zenon, <1>9 DEF SpPurgeCrash
  <2>2. /\ SpTypeOK' /\ spRun'[p].phase = phase
        /\ \A o \in SpRuns \ {p} : spRun'[o] = spRun[o]
    BY Zenon, <1>0, <2>1, SpPhaseStep DEF SpPhases
  <2>3. SpRested => SpRested'
    BY Zenon, <1>9 DEF SpPurgeCrash, SpRested, spLane, spData
  <2>. QED  BY Zenon, <1>0, <1>9, <2>2, <2>3 DEF SpPurgeCrash, SpGated, SpUnderWay, spLane
<1>10. Moves
  BY Zenon, <1>1, <1>2, <1>3, <1>4, <1>5, <1>6, <1>7, <1>8, <1>9
<1>. QED  BY Zenon, <1>10, SpRunStep

(* A purge that starts alone, or is asked for again, keeps the invariant. *)
LEMMA SpBegins ==
    ASSUME SpIInv, NEW p \in SpRuns,
           (SpPurgeStart(p) /\ SpAlone(p)) \/ SpPurgeAgain(p)
    PROVE  SpIInv'
<1>0. SpTypeOK
  BY Zenon DEF SpIInv
<1>1. CASE SpPurgeAgain(p)
  BY Zenon, <1>0, <1>1, SpRestStep DEF SpTypeOK, SpPhases, SpPurgeAgain, SpIdleRun, SpUnderWay, spLane, spData
<1>2. CASE SpPurgeStart(p) /\ SpAlone(p)
  <2> DEFINE Rec == [phase : SpPhases, listed : BOOLEAN, round : Nat, errors : BOOLEAN,
                     residue : BOOLEAN]
             waits == [spRun[p] EXCEPT !.phase = "wait"]
             starts == [waits EXCEPT !.listed = spInst # "none"]
  <2>1. spRun[p] \in Rec /\ spRun' = [spRun EXCEPT ![p] = starts]
    BY Zenon, <1>0, <1>2 DEF SpTypeOK, SpPurgeStart
  <2>2. waits \in Rec /\ waits.phase = "wait"
    BY Zenon, <2>1 DEF SpPhases
  <2> HIDE DEF waits
  <2>3. starts \in Rec /\ starts.phase = "wait"
    BY Zenon, <2>2
  <2> HIDE DEF starts
  <2>4. SpTypeOK' /\ spRun'[p].phase = "wait" /\ \A o \in SpRuns \ {p} : spRun'[o] = spRun[o]
    BY Zenon, <1>0, <2>1, <2>3 DEF SpTypeOK
  <2>. QED  BY Zenon, <1>2, <2>4, SpRestStep DEF SpPurgeStart, SpUnderWay, spLane, spData
<1>. QED  BY Zenon, <1>1, <1>2

(* Every step of purges that do not overlap keeps the invariant. *)
LEMMA SpInductive ==
    SpIInv /\ [SpNext /\ \A p \in SpRuns : SpPurgeStart(p) => SpAlone(p)]_spVars => SpIInv'
<1>1. ASSUME SpIInv, UNCHANGED spVars PROVE SpIInv'
  BY Zenon, <1>1, SpProducerStep DEF spVars, spLane, spData, SpRested
<1>2. ASSUME SpIInv, SpNext, \A p \in SpRuns : SpPurgeStart(p) => SpAlone(p) PROVE SpIInv'
  BY Zenon, <1>2, SpProducers, SpHistory, SpPurges, SpBegins DEF SpNext
<1>. QED  BY Zenon, <1>1, <1>2

(***************************************************************************)
(* A purge whose verified receipt was written holds: until something is    *)
(* connected or asked for again, no webhook, history or worker that was    *)
(* under way leaves a queue row, a history or a token behind, for any      *)
(* number of history processes, verification rounds, crashes and repeated  *)
(* purges, as long as two purges of the source do not overlap (_close_gate *)
(* opens the one gate they share).                                         *)
(***************************************************************************)
THEOREM VerifiedPurgesHold == SpSpec /\ SpSerial => []VerifiedPurgeHolds
<1>1. SpInit => SpIInv
  BY DEF SpInit, SpIInv, SpTypeOK, SpPhases, SpIdleRun, SpOne, SpGated, VerifiedPurgeHolds, SpUnderWay
<1>2. SpIInv => VerifiedPurgeHolds
  BY Zenon DEF SpIInv
<1>. QED  BY <1>1, <1>2, SpInductive, PTL DEF SpSpec, SpSerial

-----------------------------------------------------------------------------
(* The queue. *)

USE QueueAssumption DEF rowVars, passVars, docVars

-----------------------------------------------------------------------------
(* Type correctness *)

(* The shape of the variables holds initially. *)
LEMMA InitType == Init => TypeOK
BY SMTT(30) DEF Init, TypeOK, Statuses, Errors, Heartbeats, Stages

(* Every step of the queue keeps the shape of the variables. *)
LEMMA NextType == TypeOK /\ [Next]_vars => TypeOK'
<1> SUFFICES ASSUME TypeOK, [Next]_vars PROVE TypeOK'
    BY Zenon
<1> USE DEF TypeOK, Claims, Statuses, Errors, Heartbeats, Stages
<1>1. ASSUME NEW r \in Sessions, EnqueueSession(r) PROVE TypeOK'
  BY SMTT(30), <1>1 DEF EnqueueSession, Rows
<1>2. ASSUME NEW r \in Events, EnqueueEvent(r) PROVE TypeOK'
  BY SMTT(30), <1>2 DEF EnqueueEvent, Rows
<1>3. ASSUME NEW r \in Rows, ReplayDLQ(r) PROVE TypeOK'
  BY SMTT(30), <1>3 DEF ReplayDLQ
<1>4. ASSUME NEW r \in Rows, GoStale(r) PROVE TypeOK'
  BY Zenon, <1>4 DEF GoStale
<1>5. ASSUME NEW w \in Workers, NEW r \in Rows, Claim(w, r) PROVE TypeOK'
  BY SMTT(30), <1>5 DEF Claim, Bump
<1>6. ASSUME NEW w \in Workers, Persist(w) PROVE TypeOK'
  BY SMTT(30), <1>6 DEF Persist
<1>7. ASSUME NEW w \in Workers, Ignore(w) PROVE TypeOK'
  BY SMTT(30), <1>7 DEF Ignore
<1>8. ASSUME NEW w \in Workers, NEW kind \in {"failing", "failing_permanent"}, Raise(w, kind) PROVE TypeOK'
  BY SMTT(30), <1>8 DEF Raise
<1>9. ASSUME NEW w \in Workers, MarkDone(w) PROVE TypeOK'
  BY SMTT(30), <1>9 DEF MarkDone, Commit, Release, VersionHeld, Idle
<1>10. ASSUME NEW w \in Workers, MarkSkipped(w) PROVE TypeOK'
  BY SMTT(30), <1>10 DEF MarkSkipped, Commit, Release, VersionHeld, Idle
<1>11. ASSUME NEW w \in Workers, MarkDoneUnacknowledged(w) PROVE TypeOK'
  BY SMTT(30), <1>11 DEF MarkDoneUnacknowledged, Commit, Release, VersionHeld
<1>12. ASSUME NEW w \in Workers, OnError(w) PROVE TypeOK'
  <2>1. CASE VersionHeld(w)
    BY SMTT(30), <1>12, <2>1 DEF OnError, ErrorKind, Idle
  <2>2. CASE ~VersionHeld(w)
    BY SMTT(30), <1>12, <2>2 DEF OnError
  <2> QED
    BY Zenon, <2>1, <2>2
<1>13. ASSUME NEW w \in Workers, OnErrorRelease(w) PROVE TypeOK'
  BY SMTT(30), <1>13 DEF OnErrorRelease, Release, Idle
<1>14. ASSUME NEW w \in Workers, OnErrorRaises(w) PROVE TypeOK'
  BY SMTT(30), <1>14 DEF OnErrorRaises
<1>15. ASSUME NEW w \in Workers, Abandon(w) PROVE TypeOK'
  BY SMTT(30), <1>15 DEF Abandon, Idle
<1>16. ASSUME NEW w \in Workers, Heartbeat(w) PROVE TypeOK'
  BY Zenon, <1>16 DEF Heartbeat
<1>17. CASE ReclaimOnce
  BY Zenon, <1>17 DEF ReclaimOnce, Stuck
<1>18. CASE UNCHANGED vars
  BY Zenon, <1>18 DEF vars
<1> HIDE DEF TypeOK
<1> QED
  BY Zenon, <1>1, <1>2, <1>3, <1>4, <1>5, <1>6, <1>7, <1>8, <1>9, <1>10, <1>11,
     <1>12, <1>13, <1>14, <1>15, <1>16, <1>17, <1>18 DEF Next, WorkerStep

(* In every reachable state each variable has its shape (TypeOK). *)
THEOREM TypeCorrect == Spec => []TypeOK
BY InitType, NextType, PTL DEF Spec


-----------------------------------------------------------------------------
(* No batch is lost *)

(***************************************************************************)
(* What a pass knows of its row: the version it captured is not ahead of   *)
(* the row's, and as long as they agree no key has been appended since.    *)
(***************************************************************************)
PassCoverage ==
    \A w \in Workers : stage[w] # "idle" =>
        /\ status[claim[w].row] # "absent"
        /\ claim[w].version <= version[claim[w].row]
        /\ claim[w].keys <= keys[claim[w].row]
        /\ claim[w].version = version[claim[w].row]
              => claim[w].keys = keys[claim[w].row]
        /\ stage[w] = "persisted" => reached[claim[w].row] >= claim[w].keys

RowCoverage ==
    \A r \in Rows : /\ reached[r] <= keys[r]
                    /\ status[r] = "absent" => keys[r] = 0

Coverage == PassCoverage /\ RowCoverage /\ DoneCoversPayload

(* Every step keeps the coverage invariant. *)
LEMMA NextCoverage == TypeOK /\ Coverage /\ [Next]_vars => Coverage'
<1> SUFFICES ASSUME TypeOK, Coverage, [Next]_vars PROVE Coverage'
    BY Zenon
<1> USE DEF TypeOK, Claims, Coverage, PassCoverage, RowCoverage, DoneCoversPayload, Indexed
<1>1. ASSUME NEW r \in Sessions, EnqueueSession(r) PROVE Coverage'
  BY SMTT(30), <1>1 DEF EnqueueSession, Rows
<1>2. ASSUME NEW r \in Events, EnqueueEvent(r) PROVE Coverage'
  BY SMTT(30), <1>2 DEF EnqueueEvent, Rows
<1>3. ASSUME NEW r \in Rows, ReplayDLQ(r) PROVE Coverage'
  BY SMTT(30), <1>3 DEF ReplayDLQ
<1>4. ASSUME NEW r \in Rows, GoStale(r) PROVE Coverage'
  BY Zenon, <1>4 DEF GoStale
<1>5. ASSUME NEW w \in Workers, NEW r \in Rows, Claim(w, r) PROVE Coverage'
  BY SMTT(30), <1>5 DEF Claim
<1>6. ASSUME NEW w \in Workers, Persist(w) PROVE Coverage'
  BY SMTT(30), <1>6 DEF Persist
<1>7. ASSUME NEW w \in Workers, Ignore(w) PROVE Coverage'
  BY SMTT(30), <1>7 DEF Ignore
<1>8. ASSUME NEW w \in Workers, NEW kind \in {"failing", "failing_permanent"}, Raise(w, kind) PROVE Coverage'
  BY SMTT(30), <1>8 DEF Raise
<1>9. ASSUME NEW w \in Workers, MarkDone(w) PROVE Coverage'
  <2>1. CASE VersionHeld(w)
    <3>1. reached[claim[w].row] = keys[claim[w].row]
      <4>1. stage[w] = "persisted" /\ claim[w].row \in Rows
        BY Zenon, <1>9 DEF MarkDone
      <4>2. claim[w].keys = keys[claim[w].row]
        BY Zenon, <2>1, <4>1 DEF VersionHeld
      <4>3. /\ reached[claim[w].row] >= claim[w].keys
            /\ reached[claim[w].row] <= keys[claim[w].row]
            /\ reached[claim[w].row] \in Int /\ keys[claim[w].row] \in Int
        BY SMTT(30), <4>1
      <4> HIDE DEF TypeOK, Coverage
      <4> QED
        BY SMTT(30), <4>2, <4>3
    <3>2. PassCoverage' /\ RowCoverage'
      BY SMTT(60), <1>9, <2>1 DEF MarkDone, Commit, Idle
    <3>3. DoneCoversPayload'
      BY SMTT(30), <1>9, <2>1, <3>1 DEF MarkDone, Commit
    <3> QED
      BY Zenon, <3>2, <3>3
  <2>2. CASE ~VersionHeld(w)
    BY SMTT(60), <1>9, <2>2 DEF MarkDone, Commit, Release, Idle
  <2> QED
    BY Zenon, <2>1, <2>2
<1>10. ASSUME NEW w \in Workers, MarkSkipped(w) PROVE Coverage'
  BY SMTT(60), <1>10 DEF MarkSkipped, Commit, Release, VersionHeld, Idle
<1>11. ASSUME NEW w \in Workers, MarkDoneUnacknowledged(w) PROVE Coverage'
  <2>1. CASE VersionHeld(w)
    <3>1. reached[claim[w].row] = keys[claim[w].row]
      <4>1. stage[w] = "persisted" /\ claim[w].row \in Rows
        BY Zenon, <1>11 DEF MarkDoneUnacknowledged
      <4>2. claim[w].keys = keys[claim[w].row]
        BY <2>1, <4>1 DEF VersionHeld
      <4>3. /\ reached[claim[w].row] >= claim[w].keys
            /\ reached[claim[w].row] <= keys[claim[w].row]
            /\ reached[claim[w].row] \in Int /\ keys[claim[w].row] \in Int
        BY <4>1
      <4> HIDE DEF TypeOK, Coverage
      <4> QED
        BY <4>2, <4>3
    <3>2. PassCoverage' /\ RowCoverage'
      BY SMTT(30), <1>11, <2>1 DEF MarkDoneUnacknowledged, Commit
    <3>3. DoneCoversPayload'
      BY SMTT(30), <1>11, <2>1, <3>1 DEF MarkDoneUnacknowledged, Commit
    <3> QED
      BY Zenon, <3>2, <3>3
  <2>2. CASE ~VersionHeld(w)
    BY SMTT(30), <1>11, <2>2 DEF MarkDoneUnacknowledged, Commit, Release
  <2> QED
    BY Zenon, <2>1, <2>2
<1>12. ASSUME NEW w \in Workers, OnError(w) PROVE Coverage'
  <2>1. CASE VersionHeld(w)
    BY SMTT(30), <1>12, <2>1 DEF OnError, Dead, ErrorKind, Idle
  <2>2. CASE ~VersionHeld(w)
    BY SMTT(30), <1>12, <2>2 DEF OnError, rowVars, docVars
  <2> QED
    BY Zenon, <2>1, <2>2
<1>13. ASSUME NEW w \in Workers, OnErrorRelease(w) PROVE Coverage'
  BY SMTT(60), <1>13 DEF OnErrorRelease, Release, Idle
<1>14. ASSUME NEW w \in Workers, OnErrorRaises(w) PROVE Coverage'
  BY SMTT(30), <1>14 DEF OnErrorRaises
<1>15. ASSUME NEW w \in Workers, Abandon(w) PROVE Coverage'
  BY ZenonT(30), <1>15 DEF Abandon, Idle
<1>16. ASSUME NEW w \in Workers, Heartbeat(w) PROVE Coverage'
  BY Zenon, <1>16 DEF Heartbeat
<1>17. CASE ReclaimOnce
  BY Zenon, <1>17 DEF ReclaimOnce, Stuck
<1>18. CASE UNCHANGED vars
  BY Zenon, <1>18 DEF vars
<1> HIDE DEF TypeOK, Coverage
<1> QED
  BY Zenon, <1>1, <1>2, <1>3, <1>4, <1>5, <1>6, <1>7, <1>8, <1>9, <1>10, <1>11,
     <1>12, <1>13, <1>14, <1>15, <1>16, <1>17, <1>18 DEF Next, WorkerStep

(***************************************************************************)
(* A row that reads done without a skip reason has had its whole payload   *)
(* array in a committed document write, whatever heartbeats lapse and      *)
(* whatever acknowledgements are lost (DoneCoversPayload).                 *)
(***************************************************************************)
THEOREM NoBatchLost == Spec => []DoneCoversPayload
<1>1. Init => Coverage
  BY DEF Init, Coverage, PassCoverage, RowCoverage, DoneCoversPayload, Indexed
<1>2. TypeOK /\ Coverage /\ [Next]_vars => Coverage'
  BY Zenon, NextCoverage
<1>3. Coverage => DoneCoversPayload
  BY Zenon DEF Coverage
<1> QED
  BY <1>1, <1>2, <1>3, TypeCorrect, PTL DEF Spec

-----------------------------------------------------------------------------
(* Stuck rows are reclaimable *)

(* Every step keeps a heartbeat on the rows that are processing. *)
LEMMA NextReclaimable ==
    TypeOK /\ ProcessingIsReclaimable /\ [Next]_vars => ProcessingIsReclaimable'
<1> SUFFICES ASSUME TypeOK, ProcessingIsReclaimable, [Next]_vars
             PROVE  ProcessingIsReclaimable'
    BY Zenon
<1> USE DEF TypeOK, Claims, ProcessingIsReclaimable
<1>1. ASSUME NEW r \in Sessions, EnqueueSession(r) PROVE ProcessingIsReclaimable'
  BY Zenon, <1>1 DEF EnqueueSession, Rows
<1>2. ASSUME NEW r \in Events, EnqueueEvent(r) PROVE ProcessingIsReclaimable'
  BY Zenon, <1>2 DEF EnqueueEvent, Rows
<1>3. ASSUME NEW r \in Rows, ReplayDLQ(r) PROVE ProcessingIsReclaimable'
  BY Zenon, <1>3 DEF ReplayDLQ
<1>4. ASSUME NEW r \in Rows, GoStale(r) PROVE ProcessingIsReclaimable'
  BY Zenon, <1>4 DEF GoStale
<1>5. ASSUME NEW w \in Workers, NEW r \in Rows, Claim(w, r) PROVE ProcessingIsReclaimable'
  BY Zenon, <1>5 DEF Claim
<1>6. ASSUME NEW w \in Workers, Persist(w) PROVE ProcessingIsReclaimable'
  BY Zenon, <1>6 DEF Persist
<1>7. ASSUME NEW w \in Workers, Ignore(w) PROVE ProcessingIsReclaimable'
  BY Zenon, <1>7 DEF Ignore
<1>8. ASSUME NEW w \in Workers, NEW kind \in {"failing", "failing_permanent"}, Raise(w, kind) PROVE ProcessingIsReclaimable'
  BY Zenon, <1>8 DEF Raise
<1>9. ASSUME NEW w \in Workers, MarkDone(w) PROVE ProcessingIsReclaimable'
  BY SMTT(30), <1>9 DEF MarkDone, Commit, Release, VersionHeld, Idle
<1>10. ASSUME NEW w \in Workers, MarkSkipped(w) PROVE ProcessingIsReclaimable'
  BY SMTT(30), <1>10 DEF MarkSkipped, Commit, Release, VersionHeld, Idle
<1>11. ASSUME NEW w \in Workers, MarkDoneUnacknowledged(w) PROVE ProcessingIsReclaimable'
  BY SMTT(30), <1>11 DEF MarkDoneUnacknowledged, Commit, Release, VersionHeld
<1>12. ASSUME NEW w \in Workers, OnError(w) PROVE ProcessingIsReclaimable'
  BY SMTT(30), <1>12 DEF OnError, Dead, ErrorKind, Idle
<1>13. ASSUME NEW w \in Workers, OnErrorRelease(w) PROVE ProcessingIsReclaimable'
  BY <1>13 DEF OnErrorRelease, Release, Idle
<1>14. ASSUME NEW w \in Workers, OnErrorRaises(w) PROVE ProcessingIsReclaimable'
  BY Zenon, <1>14 DEF OnErrorRaises
<1>15. ASSUME NEW w \in Workers, Abandon(w) PROVE ProcessingIsReclaimable'
  BY Zenon, <1>15 DEF Abandon, Idle
<1>16. ASSUME NEW w \in Workers, Heartbeat(w) PROVE ProcessingIsReclaimable'
  BY Zenon, <1>16 DEF Heartbeat
<1>17. CASE ReclaimOnce
  BY Zenon, <1>17 DEF ReclaimOnce, Stuck
<1>18. CASE UNCHANGED vars
  BY Zenon, <1>18 DEF vars
<1> HIDE DEF TypeOK, ProcessingIsReclaimable
<1> QED
  BY Zenon, <1>1, <1>2, <1>3, <1>4, <1>5, <1>6, <1>7, <1>8, <1>9, <1>10, <1>11,
     <1>12, <1>13, <1>14, <1>15, <1>16, <1>17, <1>18 DEF Next, WorkerStep

(***************************************************************************)
(* No processing row is without a heartbeat, so _reclaim_once, which skips *)
(* rows whose heartbeat_at is NULL, can reach every one of them            *)
(* (ProcessingIsReclaimable).                                              *)
(***************************************************************************)
THEOREM StuckRowsReclaimable == Spec => []ProcessingIsReclaimable
<1>1. Init => ProcessingIsReclaimable
  BY Zenon DEF Init, ProcessingIsReclaimable
<1> QED
  BY <1>1, NextReclaimable, TypeCorrect, PTL DEF Spec

-----------------------------------------------------------------------------
(* With prompt heartbeats and acknowledged commits a pass is exclusive *)

(* A row some pass holds is processing, under a fresh heartbeat. *)
HeldIsProcessing ==
    \A w \in Workers : stage[w] # "idle" =>
        /\ status[claim[w].row] = "processing"
        /\ heartbeat[claim[w].row] = "fresh"

PersistedIsLive ==
    \A w \in Workers : stage[w] = "persisted" => doc[claim[w].row] = claim[w].keys

Exclusive ==
    HeldIsProcessing /\ OneClaimant /\ PersistedIsLive /\ DoneDocumentIsCurrent

(* Every step keeps the exclusiveness invariant. *)
LEMMA NextExclusive ==
    ASSUME ~HeartbeatLapses, ~LostAcks
    PROVE  TypeOK /\ PassCoverage /\ Exclusive /\ [Next]_vars => Exclusive'
<1> SUFFICES ASSUME TypeOK, PassCoverage, Exclusive, [Next]_vars
             PROVE  Exclusive'
    BY Zenon
<1> USE DEF TypeOK, Claims, PassCoverage, Exclusive, HeldIsProcessing, OneClaimant,
            PersistedIsLive, DoneDocumentIsCurrent, Indexed
<1>1. ASSUME NEW r \in Sessions, EnqueueSession(r) PROVE Exclusive'
  BY SMTT(30), <1>1 DEF EnqueueSession, Rows
<1>2. ASSUME NEW r \in Events, EnqueueEvent(r) PROVE Exclusive'
  BY SMTT(30), <1>2 DEF EnqueueEvent, Rows
<1>3. ASSUME NEW r \in Rows, ReplayDLQ(r) PROVE Exclusive'
  BY SMTT(30), <1>3 DEF ReplayDLQ
<1>4. ASSUME NEW r \in Rows, GoStale(r) PROVE Exclusive'
  BY SMTT(30), <1>4 DEF GoStale, HeldBy
<1>5. ASSUME NEW w \in Workers, NEW r \in Rows, Claim(w, r) PROVE Exclusive'
  BY SMTT(30), <1>5 DEF Claim
<1>6. ASSUME NEW w \in Workers, Persist(w) PROVE Exclusive'
  BY SMTT(30), <1>6 DEF Persist
<1>7. ASSUME NEW w \in Workers, Ignore(w) PROVE Exclusive'
  BY SMTT(30), <1>7 DEF Ignore
<1>8. ASSUME NEW w \in Workers, NEW kind \in {"failing", "failing_permanent"}, Raise(w, kind) PROVE Exclusive'
  BY SMTT(30), <1>8 DEF Raise
<1>9. ASSUME NEW w \in Workers, MarkDone(w) PROVE Exclusive'
  BY SMTT(30), <1>9 DEF MarkDone, Commit, Release, VersionHeld, Idle
<1>10. ASSUME NEW w \in Workers, MarkSkipped(w) PROVE Exclusive'
  BY SMTT(30), <1>10 DEF MarkSkipped, Commit, Release, VersionHeld, Idle
<1>11. ASSUME NEW w \in Workers, MarkDoneUnacknowledged(w) PROVE Exclusive'
  BY Zenon, <1>11 DEF MarkDoneUnacknowledged, Commit, Release, VersionHeld
<1>12. ASSUME NEW w \in Workers, OnError(w) PROVE Exclusive'
  <2>1. CASE VersionHeld(w)
    <3>1. /\ status[claim[w].row] = "processing"
          /\ status' = [status EXCEPT ![claim[w].row] = status'[claim[w].row]]
          /\ status'[claim[w].row] \in {"dlq", "pending"}
      BY SMTT(30), <1>12, <2>1 DEF OnError
    <3>2. OneClaimant'
      BY SMTT(30), <1>12, <2>1 DEF OnError, Idle
    <3>3. HeldIsProcessing' /\ PersistedIsLive'
      BY SMTT(30), <1>12, <2>1 DEF OnError, Idle
    <3>4. DoneDocumentIsCurrent'
      BY SMTT(30), <1>12, <2>1, <3>1 DEF OnError
    <3> QED
      BY Zenon, <3>2, <3>3, <3>4
  <2>2. CASE ~VersionHeld(w)
    BY SMTT(30), <1>12, <2>2 DEF OnError
  <2> QED
    BY Zenon, <2>1, <2>2
<1>13. ASSUME NEW w \in Workers, OnErrorRelease(w) PROVE Exclusive'
  BY SMTT(30), <1>13 DEF OnErrorRelease, Release, Idle
<1>14. ASSUME NEW w \in Workers, OnErrorRaises(w) PROVE Exclusive'
  BY SMTT(30), <1>14 DEF OnErrorRaises
<1>15. ASSUME NEW w \in Workers, Abandon(w) PROVE Exclusive'
  BY SMTT(30), <1>15 DEF Abandon, Idle
<1>16. ASSUME NEW w \in Workers, Heartbeat(w) PROVE Exclusive'
  BY SMTT(30), <1>16 DEF Heartbeat
<1>17. CASE ReclaimOnce
  BY SMTT(30), <1>17 DEF ReclaimOnce, Stuck
<1>18. CASE UNCHANGED vars
  BY <1>18 DEF vars
<1> HIDE DEF TypeOK, PassCoverage, Exclusive
<1> QED
  BY Zenon, <1>1, <1>2, <1>3, <1>4, <1>5, <1>6, <1>7, <1>8, <1>9, <1>10, <1>11,
     <1>12, <1>13, <1>14, <1>15, <1>16, <1>17, <1>18 DEF Next, WorkerStep

(***************************************************************************)
(* When no live pass goes a whole reclaim threshold without a heartbeat    *)
(* and no commit loses its acknowledgement, at most one pass is on a row   *)
(* at any time (OneClaimant) and the live document of a finished row is    *)
(* the one built from its whole payload array (DoneDocumentIsCurrent).     *)
(***************************************************************************)
THEOREM PassesAreExclusive ==
    ASSUME ~HeartbeatLapses, ~LostAcks
    PROVE  Spec => [](OneClaimant /\ DoneDocumentIsCurrent)
<1>1. Init => Coverage /\ Exclusive
  BY DEF Init, Coverage, PassCoverage, RowCoverage, DoneCoversPayload, Indexed, Exclusive,
         HeldIsProcessing, OneClaimant, PersistedIsLive, DoneDocumentIsCurrent
<1>2. TypeOK /\ Coverage /\ Exclusive /\ [Next]_vars => (Coverage /\ Exclusive)'
  BY Zenon, NextCoverage, NextExclusive DEF Coverage
<1>3. Exclusive => OneClaimant /\ DoneDocumentIsCurrent
  BY Zenon DEF Exclusive
<1> QED
  BY <1>1, <1>2, <1>3, TypeCorrect, PTL DEF Spec

(***************************************************************************)
(* Under the same two conditions nothing but a new batch takes a row out   *)
(* of done: no error path, release or reclaim resurrects or dead-letters   *)
(* it (DoneLeavesByNewBatch).                                              *)
(***************************************************************************)
THEOREM DoneIsStable ==
    ASSUME ~HeartbeatLapses, ~LostAcks
    PROVE  Spec => DoneLeavesByNewBatch
<1> DEFINE Bumps == \A r \in Rows :
             status[r] = "done" /\ status'[r] # "done" => version'[r] > version[r]
<1>1. Init => Coverage /\ Exclusive
  BY DEF Init, Coverage, PassCoverage, RowCoverage, DoneCoversPayload, Indexed, Exclusive,
         HeldIsProcessing, OneClaimant, PersistedIsLive, DoneDocumentIsCurrent
<1>2. TypeOK /\ Coverage /\ Exclusive /\ [Next]_vars => (Coverage /\ Exclusive)'
  BY NextCoverage, NextExclusive DEF Coverage
<1>3. TypeOK /\ Exclusive /\ [Next]_vars => [Bumps]_vars
  <2> SUFFICES ASSUME TypeOK, Exclusive, Next,
                      NEW q \in Rows, status[q] = "done", status'[q] # "done"
               PROVE  version'[q] > version[q]
    BY Zenon DEF vars
  <2> USE DEF TypeOK, Claims, Exclusive, HeldIsProcessing
  <2>1. ASSUME NEW r \in Sessions, EnqueueSession(r) PROVE version'[q] > version[q]
    BY SMTT(30), <2>1 DEF EnqueueSession, Rows
  <2>2. ASSUME NEW r \in Events, EnqueueEvent(r) PROVE FALSE
    BY Zenon, <2>2 DEF EnqueueEvent, Rows
  <2>3. ASSUME NEW r \in Rows, ReplayDLQ(r) \/ GoStale(r) PROVE FALSE
    BY Zenon, <2>3 DEF ReplayDLQ, GoStale
  <2>4. ASSUME NEW w \in Workers, WorkerStep(w) PROVE FALSE
    <3>1. CASE \E r \in Rows : Claim(w, r)
      BY SMTT(30), <3>1 DEF Claim
    <3>2. CASE MarkDone(w) \/ MarkSkipped(w)
      BY SMTT(30), <3>2 DEF MarkDone, MarkSkipped, Commit, Release
    <3>3. CASE OnError(w)
      BY Zenon, <3>3 DEF OnError
    <3>4. CASE OnErrorRelease(w)
      BY Zenon, <3>4 DEF OnErrorRelease, Release
    <3> QED
      BY Zenon, <2>4, <3>1, <3>2, <3>3, <3>4 DEF WorkerStep, Persist, Ignore, Raise,
         MarkDoneUnacknowledged, OnErrorRaises, Abandon, Heartbeat
  <2>5. CASE ReclaimOnce
    BY Zenon, <2>5 DEF ReclaimOnce, Stuck
  <2> QED
    BY Zenon, <2>1, <2>2, <2>3, <2>4, <2>5 DEF Next
<1> QED
  BY <1>1, <1>2, <1>3, TypeCorrect, PTL DEF Spec, DoneLeavesByNewBatch

=============================================================================
