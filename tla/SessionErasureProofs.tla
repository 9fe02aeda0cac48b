------------------------ MODULE SessionErasureProofs ------------------------
(***************************************************************************)
(* The erasure of a session.  Of the deletion itself: for every set of     *)
(* batch keys, every number of passes and of deletion runs alive at once,  *)
(* and every kind and number of faults.  Of the inferred edges: for any    *)
(* number of documents, sessions and drain tasks.                          *)
(***************************************************************************)
EXTENDS SessionDeletion, InferredEdges, TLAPS

USE DeletionAssumption DEF rowVars, tombVars, passVars, roundVars, runVars

-----------------------------------------------------------------------------
(* Type correctness *)

(* The shape of the variables holds initially. *)
LEMMA InitType == Init => TypeOK
<1> SUFFICES ASSUME Init PROVE TypeOK
    BY Zenon
<1> USE DEF Init
<1>1. /\ row \in {"none", "pending", "processing", "settled"}
      /\ keys \subseteq AllKeys /\ objects \subseteq AllKeys /\ journal \subseteq Keys
      /\ tomb \in {"none", "pending", "done", "failed", "held"}
      /\ faults \in 0..MaxFaults
  OBVIOUS
<1>2. docs \in BOOLEAN /\ event \in BOOLEAN /\ hold \in BOOLEAN
  BY Zenon
<1>3. /\ stage \in [Workers -> {"idle", "check", "mining", "sweep", "keep", "reopen", "end"}]
      /\ held \in [Workers -> SUBSET AllKeys]
      /\ failing \in [Workers -> BOOLEAN]
  BY Zenon
<1>4. /\ step \in [Runs -> {"idle", "record", "scan", "finish"} \cup Erasing]
      /\ round \in [Runs -> {1, 2}]
      /\ again \in [Runs -> BOOLEAN] /\ saw \in [Runs -> BOOLEAN] /\ dirty \in [Runs -> BOOLEAN]
      /\ todo \in [Runs -> SUBSET Keys]
      /\ verdict \in [Runs -> {"pending", "done", "failed", "held"}]
  BY Zenon
<1> QED
  BY Zenon, <1>1, <1>2, <1>3, <1>4 DEF TypeOK

(* Every step keeps the shape of the variables. *)
LEMMA NextType == TypeOK /\ [Next]_vars => TypeOK'
<1> SUFFICES ASSUME TypeOK, [Next]_vars PROVE TypeOK'
    BY Zenon
<1> USE DEF TypeOK, Erasing, Recorded
<1>1. ASSUME NEW k \in AllKeys, Upload(k) PROVE TypeOK'
  BY Zenon, <1>1 DEF Upload, AllKeys
<1>2. ASSUME NEW k \in AllKeys, UploadDies(k) PROVE TypeOK'
  BY <1>2 DEF UploadDies, AllKeys, Fault
<1>3. ASSUME NEW w \in Workers, Claim(w) PROVE TypeOK'
  BY Zenon, <1>3 DEF Claim
<1>4. ASSUME NEW w \in Workers, CheckDeleted(w) PROVE TypeOK'
  BY <1>4 DEF CheckDeleted, Fault
<1>5. ASSUME NEW w \in Workers, Mine(w) PROVE TypeOK'
  BY <1>5 DEF Mine, AllKeys
<1>6. ASSUME NEW w \in Workers, Persist(w) PROVE TypeOK'
  BY Zenon, <1>6 DEF Persist
<1>7. ASSUME NEW w \in Workers, PassFails(w) PROVE TypeOK'
  BY <1>7 DEF PassFails, Fault
<1>8. ASSUME NEW w \in Workers, SweepDeleted(w) PROVE TypeOK'
  BY <1>8 DEF SweepDeleted, Fault
<1>9. ASSUME NEW w \in Workers, ReopenDeletion(w) PROVE TypeOK'
  BY Zenon, <1>9 DEF ReopenDeletion
<1>10. ASSUME NEW w \in Workers, MarkPass(w) PROVE TypeOK'
  BY ZenonT(30), <1>10 DEF MarkPass, EndPass, VersionHeld, Released
<1>11. ASSUME NEW w \in Workers, OnError(w) PROVE TypeOK'
  BY <1>11 DEF OnError, EndPass, VersionHeld, Released
<1>12. ASSUME NEW w \in Workers, WorkerDies(w) PROVE TypeOK'
  BY <1>12 DEF WorkerDies, EndPass, Fault
<1>13. ASSUME NEW r \in Runs, DeleteSessions(r) PROVE TypeOK'
  BY Zenon, <1>13 DEF DeleteSessions, GotoStep
<1>14. ASSUME NEW r \in Runs, RecordSessions(r) PROVE TypeOK'
  BY <1>14 DEF RecordSessions, GotoStep
<1>15. ASSUME NEW r \in Runs, ResumeDeletion(r) PROVE TypeOK'
  BY <1>15 DEF ResumeDeletion, GotoStep
<1>16. ASSUME NEW r \in Runs, DeepScan(r) PROVE TypeOK'
  BY <1>16 DEF DeepScan, GotoStep
<1>17. ASSUME NEW r \in Runs, EraseSession(r) PROVE TypeOK'
  BY <1>17 DEF EraseSession, Conclude, GotoStep
<1>18. ASSUME NEW r \in Runs, Inventory(r) PROVE TypeOK'
  <2>1. again' \in [Runs -> BOOLEAN]
    <3>1. CASE hold
      BY Zenon, <1>18, <3>1 DEF Inventory
    <3>2. CASE ~hold
      BY Zenon, <1>18, <3>2, Zenon DEF Inventory
    <3> QED
      BY Zenon, <3>1, <3>2
  <2>2. saw' \in [Runs -> BOOLEAN] /\ todo' \in [Runs -> SUBSET Keys]
    BY <1>18 DEF Inventory
  <2>3. /\ step' \in [Runs -> {"idle", "record", "scan", "finish"} \cup Erasing]
        /\ verdict' \in [Runs -> {"pending", "done", "failed", "held"}]
    BY <1>18 DEF Inventory, Conclude, GotoStep
  <2> QED
    BY <1>18, <2>1, <2>2, <2>3 DEF Inventory
<1>19. ASSUME NEW r \in Runs, DeleteRows(r) PROVE TypeOK'
  BY Zenon, <1>19 DEF DeleteRows, GotoStep
<1>20. ASSUME NEW r \in Runs, CheckHold(r) PROVE TypeOK'
  BY <1>20 DEF CheckHold, Conclude, GotoStep
<1>21. ASSUME NEW r \in Runs, DeleteObjects(r) PROVE TypeOK'
  BY <1>21 DEF DeleteObjects, GotoStep, Fault
<1>22. ASSUME NEW r \in Runs, ListObjects(r) PROVE TypeOK'
  BY <1>22 DEF ListObjects, GotoStep
<1>23. ASSUME NEW r \in Runs, ClearJournal(r) PROVE TypeOK'
  BY <1>23 DEF ClearJournal, GotoStep
<1>24. ASSUME NEW r \in Runs, Verify(r) PROVE TypeOK'
  BY <1>24 DEF Verify, Conclude, GotoStep
<1>25. ASSUME NEW r \in Runs, Finish(r) PROVE TypeOK'
  BY Zenon, <1>25 DEF Finish, ForgetRun, GotoStep
<1>26. ASSUME NEW r \in Runs, RunFails(r) PROVE TypeOK'
  BY <1>26 DEF RunFails, Conclude, GotoStep, Fault
<1>27. ASSUME NEW r \in Runs, RunDies(r) PROVE TypeOK'
  BY <1>27 DEF RunDies, ForgetRun, GotoStep, Fault
<1>28. CASE ReclaimOnce
  BY Zenon, <1>28 DEF ReclaimOnce
<1>29. CASE PlaceHold
  BY <1>29 DEF PlaceHold, Fault
<1>30. CASE ReleaseHold
  BY Zenon, <1>30 DEF ReleaseHold
<1>31. CASE UNCHANGED vars
  BY <1>31 DEF vars
<1> HIDE DEF TypeOK, Erasing, Recorded
<1> QED
  BY Zenon, <1>1, <1>2, <1>3, <1>4, <1>5, <1>6, <1>7, <1>8, <1>9, <1>10, <1>11,
     <1>12, <1>13, <1>14, <1>15, <1>16, <1>17, <1>18, <1>19, <1>20,
     <1>21, <1>22, <1>23, <1>24, <1>25, <1>26, <1>27, <1>28, <1>29,
     <1>30, <1>31
     DEF Next, PassStep, RunStep

(* In every reachable state each variable has its shape (TypeOK). *)
THEOREM TypeCorrect == Spec => []TypeOK
BY InitType, NextType, PTL DEF Spec

-----------------------------------------------------------------------------
(* The inductive invariant *)

(***************************************************************************)
(* A run past its record step, and a pass told that its session is         *)
(* deleted, have a session_deletions row behind them.  Nothing removes     *)
(* that row.                                                               *)
(***************************************************************************)
Recording ==
    /\ \A r \in Runs : step[r] \notin {"idle", "record"} => Recorded
    /\ \A w \in Workers : stage[w] \in {"sweep", "keep", "reopen"} => Recorded

(***************************************************************************)
(* Between the two halves of a run's row transaction nobody places a hold, *)
(* and nobody changes what the first half read: its keys are still the     *)
(* journal and the batches the rows name.  The lock admits one run at a    *)
(* time.                                                                   *)
(***************************************************************************)
Dropping ==
    \A r \in Runs : step[r] = "drop" =>
        /\ ~hold
        /\ todo[r] = journal \cup (keys \cap Keys)
        /\ \A q \in Runs : step[q] = "drop" => q = r

(***************************************************************************)
(* The keys a run is about to strike from the journal are gone from        *)
(* storage.  No writer can store one again, for the deletion is recorded.  *)
(***************************************************************************)
Emptied == \A r \in Runs : step[r] \in {"list", "clear"} => todo[r] \cap objects = {}

(***************************************************************************)
(* DoneHasNoRows alone is not inductive: a run that found no residue       *)
(* writes `done` in a later step, so the rows must still be gone by then.  *)
(***************************************************************************)
Verified ==
    /\ DoneHasNoRows
    /\ \A r \in Runs : step[r] = "finish" /\ verdict[r] = "done" => ~Residue

Erasure == Recording /\ Dropping /\ Emptied /\ Verified

(* Every step keeps the four of them together. *)
LEMMA NextErasure == TypeOK /\ Erasure /\ [Next]_vars => Erasure'
<1> SUFFICES ASSUME TypeOK, Erasure, [Next]_vars PROVE Erasure'
    BY Zenon
<1> USE DEF TypeOK, Erasure, Recording, Dropping, Emptied, Verified, DoneHasNoRows,
        Residue, Recorded, Locked, Erasing
<1>1. ASSUME NEW k \in AllKeys, Upload(k) PROVE Erasure'
  BY Zenon, <1>1 DEF Upload, AllKeys
<1>2. ASSUME NEW k \in AllKeys, UploadDies(k) PROVE Erasure'
  BY Zenon, <1>2 DEF UploadDies, AllKeys, Fault
<1>3. ASSUME NEW w \in Workers, Claim(w) PROVE Erasure'
  BY <1>3 DEF Claim
<1>4. ASSUME NEW w \in Workers, CheckDeleted(w) PROVE Erasure'
  BY <1>4 DEF CheckDeleted, Fault
<1>5. ASSUME NEW w \in Workers, Mine(w) PROVE Erasure'
  BY <1>5 DEF Mine, AllKeys
<1>6. ASSUME NEW w \in Workers, Persist(w) PROVE Erasure'
  BY Zenon, <1>6 DEF Persist
<1>7. ASSUME NEW w \in Workers, PassFails(w) PROVE Erasure'
  BY <1>7 DEF PassFails, Fault
<1>8. ASSUME NEW w \in Workers, SweepDeleted(w) PROVE Erasure'
  BY <1>8 DEF SweepDeleted, Fault
<1>9. ASSUME NEW w \in Workers, ReopenDeletion(w) PROVE Erasure'
  BY Zenon, <1>9 DEF ReopenDeletion
<1>10. ASSUME NEW w \in Workers, MarkPass(w) PROVE Erasure'
  BY <1>10 DEF MarkPass, EndPass, VersionHeld, Released
<1>11. ASSUME NEW w \in Workers, OnError(w) PROVE Erasure'
  BY <1>11 DEF OnError, EndPass, VersionHeld, Released
<1>12. ASSUME NEW w \in Workers, WorkerDies(w) PROVE Erasure'
  BY Zenon, <1>12 DEF WorkerDies, EndPass, Fault
<1>13. ASSUME NEW r \in Runs, DeleteSessions(r) PROVE Erasure'
  BY <1>13 DEF DeleteSessions, GotoStep
<1>14. ASSUME NEW r \in Runs, RecordSessions(r) PROVE Erasure'
  BY <1>14 DEF RecordSessions, GotoStep
<1>15. ASSUME NEW r \in Runs, ResumeDeletion(r) PROVE Erasure'
  BY <1>15 DEF ResumeDeletion, GotoStep
<1>16. ASSUME NEW r \in Runs, DeepScan(r) PROVE Erasure'
  BY <1>16 DEF DeepScan, GotoStep
<1>17. ASSUME NEW r \in Runs, EraseSession(r) PROVE Erasure'
  BY SMTT(30), <1>17 DEF EraseSession, Conclude, GotoStep
<1>18. ASSUME NEW r \in Runs, Inventory(r) PROVE Erasure'
  BY <1>18 DEF Inventory, Conclude, GotoStep
<1>19. ASSUME NEW r \in Runs, DeleteRows(r) PROVE Erasure'
  BY <1>19 DEF DeleteRows, GotoStep
<1>20. ASSUME NEW r \in Runs, CheckHold(r) PROVE Erasure'
  BY <1>20 DEF CheckHold, Conclude, GotoStep
<1>21. ASSUME NEW r \in Runs, DeleteObjects(r) PROVE Erasure'
  BY <1>21 DEF DeleteObjects, GotoStep, Fault
<1>22. ASSUME NEW r \in Runs, ListObjects(r) PROVE Erasure'
  BY <1>22 DEF ListObjects, GotoStep
<1>23. ASSUME NEW r \in Runs, ClearJournal(r) PROVE Erasure'
  BY SMTT(30), <1>23 DEF ClearJournal, GotoStep
<1>24. ASSUME NEW r \in Runs, Verify(r) PROVE Erasure'
  BY SMTT(30), <1>24 DEF Verify, Conclude, GotoStep
<1>25. ASSUME NEW r \in Runs, Finish(r) PROVE Erasure'
  BY SMTT(30), <1>25 DEF Finish, ForgetRun, GotoStep
<1>26. ASSUME NEW r \in Runs, RunFails(r) PROVE Erasure'
  BY <1>26 DEF RunFails, Conclude, GotoStep, Fault
<1>27. ASSUME NEW r \in Runs, RunDies(r) PROVE Erasure'
  BY <1>27 DEF RunDies, ForgetRun, GotoStep, Fault
<1>28. CASE ReclaimOnce
  BY Zenon, <1>28 DEF ReclaimOnce
<1>29. CASE PlaceHold
  BY Zenon, <1>29 DEF PlaceHold, Fault
<1>30. CASE ReleaseHold
  BY Zenon, <1>30 DEF ReleaseHold
<1>31. CASE UNCHANGED vars
  BY Zenon, <1>31 DEF vars
<1> HIDE DEF TypeOK, Erasure, Recording, Dropping, Emptied, Verified, DoneHasNoRows,
        Residue, Recorded, Locked, Erasing
<1> QED
  BY ZenonT(30), <1>1, <1>2, <1>3, <1>4, <1>5, <1>6, <1>7, <1>8, <1>9, <1>10, <1>11,
     <1>12, <1>13, <1>14, <1>15, <1>16, <1>17, <1>18, <1>19, <1>20,
     <1>21, <1>22, <1>23, <1>24, <1>25, <1>26, <1>27, <1>28, <1>29,
     <1>30, <1>31
     DEF Next, PassStep, RunStep

IInv == TypeOK /\ Erasure

(* The inductive invariant holds initially. *)
LEMMA InitIInv == Init => IInv
<1>1. Init => TypeOK
  BY Zenon, InitType
<1>2. Init => Recording /\ Dropping /\ Emptied
  BY Zenon DEF Init, Recording, Dropping, Emptied
<1>3. Init => Verified
  BY Zenon DEF Init, Verified, DoneHasNoRows
<1> QED
  BY Zenon, <1>1, <1>2, <1>3 DEF IInv, Erasure

(* Every step keeps it. *)
LEMMA NextIInv == IInv /\ [Next]_vars => IInv'
BY Zenon, NextType, NextErasure DEF IInv

(* It holds in every reachable state. *)
LEMMA Inductive == Spec => []IInv
BY InitIInv, NextIInv, PTL DEF Spec

-----------------------------------------------------------------------------
(* What follows *)

(***************************************************************************)
(* DoneHasNoRows: whatever passes commit between a run's inventory and its *)
(* deletes, and however runs, resumes and faults overlap, a session whose  *)
(* deletion reads `done` has no queue row, document or audit event.        *)
(***************************************************************************)
THEOREM DoneLeavesNoRows == Spec => []DoneHasNoRows
<1>1. IInv => DoneHasNoRows
  BY Zenon DEF IInv, Erasure, Verified
<1> QED
  BY Inductive, <1>1, PTL

(***************************************************************************)
(* What no step may do.  Findable: take away the last name of a batch that *)
(* stays in storage.  NoneBack: add to a session whose deletion is         *)
(* recorded.  RowsKept: delete a row under a hold.                         *)
(***************************************************************************)
Findable ==
    \A k \in Keys \cap objects \cap objects' :
        k \in keys \cup journal => k \in keys' \cup journal'

NoneBack ==
    Recorded => /\ row = "none" => row' = "none"
                /\ keys' \subseteq keys
                /\ docs' => docs
                /\ objects' \cap Keys \subseteq objects

RowsKept ==
    hold => /\ row # "none" => row' # "none"
            /\ keys \subseteq keys'
            /\ docs => docs'
            /\ event => event'

Permitted == Findable /\ NoneBack /\ RowsKept

(* Every step is permitted. *)
LEMMA NextPermitted == IInv /\ [Next]_vars => Permitted
<1> SUFFICES ASSUME IInv, [Next]_vars PROVE Permitted
    BY Zenon
<1> USE DEF Permitted, Findable, NoneBack, RowsKept, IInv, TypeOK, Erasure,
        Recording, Dropping, Emptied, Recorded
<1>1. ASSUME NEW k \in AllKeys, Upload(k) PROVE Permitted
  BY Zenon, <1>1 DEF Upload, AllKeys
<1>2. ASSUME NEW k \in AllKeys, UploadDies(k) PROVE Permitted
  BY Zenon, <1>2 DEF UploadDies, AllKeys, Fault
<1>3. ASSUME NEW w \in Workers, Claim(w) PROVE Permitted
  BY Zenon, <1>3 DEF Claim
<1>4. ASSUME NEW w \in Workers, CheckDeleted(w) PROVE Permitted
  BY Zenon, <1>4 DEF CheckDeleted, Fault
<1>5. ASSUME NEW w \in Workers, Mine(w) PROVE Permitted
  BY Zenon, <1>5 DEF Mine, AllKeys
<1>6. ASSUME NEW w \in Workers, Persist(w) PROVE Permitted
  BY Zenon, <1>6 DEF Persist
<1>7. ASSUME NEW w \in Workers, PassFails(w) PROVE Permitted
  BY Zenon, <1>7 DEF PassFails, Fault
<1>8. ASSUME NEW w \in Workers, SweepDeleted(w) PROVE Permitted
  BY Zenon, <1>8 DEF SweepDeleted, Fault
<1>9. ASSUME NEW w \in Workers, ReopenDeletion(w) PROVE Permitted
  BY Zenon, <1>9 DEF ReopenDeletion
<1>10. ASSUME NEW w \in Workers, MarkPass(w) PROVE Permitted
  BY Zenon, <1>10 DEF MarkPass, EndPass, VersionHeld, Released
<1>11. ASSUME NEW w \in Workers, OnError(w) PROVE Permitted
  BY Zenon, <1>11 DEF OnError, EndPass, VersionHeld, Released
<1>12. ASSUME NEW w \in Workers, WorkerDies(w) PROVE Permitted
  BY Zenon, <1>12 DEF WorkerDies, EndPass, Fault
<1>13. ASSUME NEW r \in Runs, DeleteSessions(r) PROVE Permitted
  BY Zenon, <1>13 DEF DeleteSessions, GotoStep
<1>14. ASSUME NEW r \in Runs, RecordSessions(r) PROVE Permitted
  BY Zenon, <1>14 DEF RecordSessions, GotoStep
<1>15. ASSUME NEW r \in Runs, ResumeDeletion(r) PROVE Permitted
  BY Zenon, <1>15 DEF ResumeDeletion, GotoStep
<1>16. ASSUME NEW r \in Runs, DeepScan(r) PROVE Permitted
  BY Zenon, <1>16 DEF DeepScan, GotoStep
<1>17. ASSUME NEW r \in Runs, EraseSession(r) PROVE Permitted
  BY Zenon, <1>17 DEF EraseSession, Conclude, GotoStep
<1>18. ASSUME NEW r \in Runs, Inventory(r) PROVE Permitted
  BY Zenon, <1>18 DEF Inventory, Conclude, GotoStep
<1>19. ASSUME NEW r \in Runs, DeleteRows(r) PROVE Permitted
  BY <1>19 DEF DeleteRows, GotoStep
<1>20. ASSUME NEW r \in Runs, CheckHold(r) PROVE Permitted
  BY Zenon, <1>20 DEF CheckHold, Conclude, GotoStep
<1>21. ASSUME NEW r \in Runs, DeleteObjects(r) PROVE Permitted
  BY Zenon, <1>21 DEF DeleteObjects, GotoStep, Fault
<1>22. ASSUME NEW r \in Runs, ListObjects(r) PROVE Permitted
  BY Zenon, <1>22 DEF ListObjects, GotoStep
<1>23. ASSUME NEW r \in Runs, ClearJournal(r) PROVE Permitted
  BY Zenon, <1>23 DEF ClearJournal, GotoStep
<1>24. ASSUME NEW r \in Runs, Verify(r) PROVE Permitted
  BY Zenon, <1>24 DEF Verify, Conclude, GotoStep
<1>25. ASSUME NEW r \in Runs, Finish(r) PROVE Permitted
  BY Zenon, <1>25 DEF Finish, ForgetRun, GotoStep
<1>26. ASSUME NEW r \in Runs, RunFails(r) PROVE Permitted
  BY Zenon, <1>26 DEF RunFails, Conclude, GotoStep, Fault
<1>27. ASSUME NEW r \in Runs, RunDies(r) PROVE Permitted
  BY Zenon, <1>27 DEF RunDies, ForgetRun, GotoStep, Fault
<1>28. CASE ReclaimOnce
  BY Zenon, <1>28 DEF ReclaimOnce
<1>29. CASE PlaceHold
  BY Zenon, <1>29 DEF PlaceHold, Fault
<1>30. CASE ReleaseHold
  BY Zenon, <1>30 DEF ReleaseHold
<1>31. CASE UNCHANGED vars
  BY Zenon, <1>31 DEF vars
<1> HIDE DEF Permitted, Findable, NoneBack, RowsKept, IInv, TypeOK, Erasure,
        Recording, Dropping, Emptied, Recorded
<1> QED
  BY ZenonT(30), <1>1, <1>2, <1>3, <1>4, <1>5, <1>6, <1>7, <1>8, <1>9, <1>10, <1>11,
     <1>12, <1>13, <1>14, <1>15, <1>16, <1>17, <1>18, <1>19, <1>20,
     <1>21, <1>22, <1>23, <1>24, <1>25, <1>26, <1>27, <1>28, <1>29,
     <1>30, <1>31
     DEF Next, PassStep, RunStep

(***************************************************************************)
(* StaysFindable: through row deletes, failed object deletes, crashes and  *)
(* any number of concurrent runs, no batch still in storage drops out of   *)
(* both the rows and the journal.                                          *)
(***************************************************************************)
THEOREM BatchesStayFindable == Spec => StaysFindable
<1>1. IInv /\ [Next]_vars => [Findable]_vars
  BY Zenon, NextPermitted DEF Permitted
<1> QED
  BY Inductive, <1>1, PTL DEF Spec, StaysFindable, Findable

(***************************************************************************)
(* NothingComesBack: from the moment the deletion is recorded no upload,   *)
(* idle sweep or mining pass adds a queue row, a key, a document or a      *)
(* batch to the session.                                                   *)
(***************************************************************************)
THEOREM RecordedTakesNothing == Spec => NothingComesBack
<1>1. IInv /\ [Next]_vars => [NoneBack]_vars
  BY Zenon, NextPermitted DEF Permitted
<1> QED
  BY Inductive, <1>1, PTL DEF Spec, NothingComesBack, NoneBack

(***************************************************************************)
(* HoldKeepsRows: once a legal hold is placed no run deletes a row, not    *)
(* even one that looked at the hold before it was placed: the row          *)
(* transaction reads it again under the lock that placing it needs.        *)
(***************************************************************************)
THEOREM HoldStopsErasure == Spec => HoldKeepsRows
<1>1. IInv /\ [Next]_vars => [RowsKept]_vars
  BY Zenon, NextPermitted DEF Permitted
<1> QED
  BY Inductive, <1>1, PTL DEF Spec, HoldKeepsRows, RowsKept

-----------------------------------------------------------------------------
(***************************************************************************)
(* That an erased session stays out of the graph of inferred edges is not  *)
(* inductive: a worker writes with an answer it asked for before the       *)
(* deletion.  The strengthening says what its locks are worth then: it has *)
(* every session its edges name either locked or still to lock (IeFenced), *)
(* and it locks them in ascending order (IeAscending).                     *)
(***************************************************************************)

\* Locks are held, and wanted, only on the way to a write; a task that is
\* under way has an anchor.
IeUnfenced == \A w \in IeWorkers :
    /\ ieWork[w].at # "fence" => ieWork[w].want = {} /\ IeMine(w) = {}
    /\ ieWork[w].at # "idle" => ieWork[w].doc \in IeDocs

\* Every session that an edge about to be written names is locked by its
\* writer, or is one it has still to lock.
IeFenced == \A w \in IeWorkers : ieWork[w].at = "fence" =>
    IeSessionsIn(IeEnds(ieWork[w].edges)) \subseteq ieWork[w].want \cup IeMine(w)

\* What a worker has still to lock is above all it has locked.
IeAscending == \A w \in IeWorkers : \A s \in IeMine(w), t \in ieWork[w].want : s < t

\* A live document has its node.
IeLiveHasNode == \A d \in ieLive : IeHasNode(d)

IeIInv == /\ IeTypeOK /\ IeUnfenced /\ IeFenced /\ IeAscending
        /\ IeLiveHasNode /\ ErasedSessionStaysOut

-----------------------------------------------------------------------------
\* Session keys are numbers other than the 0 of a document without a session.
LEMMA IeKeys ==
  /\ IeSessions \subseteq Nat
  /\ \A d \in IeDocs : IeSessionOf[d] # 0 => IeSessionOf[d] \in IeSessions
  /\ \A ds \in SUBSET IeDocs : IeSessionsIn(ds) \subseteq IeSessions
BY Zenon, IeAssumption DEF IeSessions, IeSessionsIn

\* What a task's own updates leave as they are.
LEMMA IeOwnUpdates ==
  ASSUME NEW j \in IeJobs
  PROVE  /\ \A place \in {"done", "error"} :
              /\ IeAt(j, place) \in IeJobs
              /\ IeAt(j, place).at = place /\ IeAt(j, place).doc = j.doc
              /\ IeAt(j, place).edges = j.edges /\ IeAt(j, place).want = j.want
         /\ \A ds \in SUBSET IeDocs :
              /\ IeReading(j, ds) \in IeJobs
              /\ IeReading(j, ds).at = "ask" /\ IeReading(j, ds).doc = j.doc
              /\ IeReading(j, ds).edges = j.edges /\ IeReading(j, ds).want = j.want
         /\ \A kept \in SUBSET (IeDocs \X IeDocs), refs \in SUBSET IeSessions :
              /\ IeFencing(j, kept, refs) \in IeJobs
              /\ IeFencing(j, kept, refs).at = "fence" /\ IeFencing(j, kept, refs).doc = j.doc
              /\ IeFencing(j, kept, refs).edges = kept /\ IeFencing(j, kept, refs).want = refs
         /\ \A s \in IeSessions :
              /\ IeTaken(j, s) \in IeJobs
              /\ IeTaken(j, s).at = j.at /\ IeTaken(j, s).doc = j.doc
              /\ IeTaken(j, s).edges = j.edges /\ IeTaken(j, s).want = j.want \ {s}
<1>1. \A place \in {"done", "error"} :
              /\ IeAt(j, place) \in IeJobs
              /\ IeAt(j, place).at = place /\ IeAt(j, place).doc = j.doc
              /\ IeAt(j, place).edges = j.edges /\ IeAt(j, place).want = j.want
  BY Zenon DEF IeAt, IeJobs
<1>2. \A ds \in SUBSET IeDocs :
              /\ IeReading(j, ds) \in IeJobs
              /\ IeReading(j, ds).at = "ask" /\ IeReading(j, ds).doc = j.doc
              /\ IeReading(j, ds).edges = j.edges /\ IeReading(j, ds).want = j.want
  BY Zenon DEF IeReading, IeJobs
<1>3. \A kept \in SUBSET (IeDocs \X IeDocs), refs \in SUBSET IeSessions :
              /\ IeFencing(j, kept, refs) \in IeJobs
              /\ IeFencing(j, kept, refs).at = "fence" /\ IeFencing(j, kept, refs).doc = j.doc
              /\ IeFencing(j, kept, refs).edges = kept /\ IeFencing(j, kept, refs).want = refs
  BY Zenon DEF IeFencing, IeJobs
<1>4. \A s \in IeSessions :
              /\ IeTaken(j, s) \in IeJobs
              /\ IeTaken(j, s).at = j.at /\ IeTaken(j, s).doc = j.doc
              /\ IeTaken(j, s).edges = j.edges /\ IeTaken(j, s).want = j.want \ {s}
  BY Zenon DEF IeTaken, IeJobs
<1>. QED  BY Zenon, <1>1, <1>2, <1>3, <1>4

\* An idle task, and one that has just claimed a row.
LEMMA IeFresh ==
  /\ IeIdle \in IeJobs /\ IeIdle.at = "idle" /\ IeIdle.want = {}
  /\ \A d \in IeDocs :
       /\ IeClaimed(d) \in IeJobs
       /\ IeClaimed(d).at = "bundle" /\ IeClaimed(d).doc = d /\ IeClaimed(d).want = {}
BY Zenon DEF IeIdle, IeClaimed, IeJobs

\* An answer that is written names documents and the sessions of all its ends.
LEMMA IeAnswered ==
  ASSUME IeTypeOK, NEW w \in IeWorkers, IeAnswer(w), ieWork[w].doc \in IeDocs
  PROVE  \/ ieWork' = [ieWork EXCEPT ![w] = IeAt(@, "error")]
         \/ ieWork' = [ieWork EXCEPT ![w] = IeAt(@, "done")]
         \/ \E kept \in SUBSET (IeDocs \X IeDocs), refs \in SUBSET IeSessions :
              /\ IeSessionsIn(IeEnds(kept)) \subseteq refs
              /\ ieWork' = [ieWork EXCEPT ![w] = IeFencing(@, kept, refs)]
<1>. DEFINE d == ieWork[w].doc
            B == ieWork[w].bundle \X ieWork[w].bundle
            proper(asked) == {e \in asked : e[1] # e[2]}
            kept(asked) == {e \in proper(asked) : IeHasNode(e[1]) /\ IeHasNode(e[2])}
<1>1. ieWork[w] \in IeJobs
  BY Zenon DEF IeTypeOK
<1>2. B \subseteq IeDocs \X IeDocs
  BY Zenon, <1>1 DEF IeJobs
<1>3. ASSUME NEW asked \in SUBSET B
      PROVE  /\ kept(asked) \in SUBSET (IeDocs \X IeDocs)
             /\ IeRefs(d, kept(asked)) \in SUBSET IeSessions
             /\ IeSessionsIn(IeEnds(kept(asked))) \subseteq IeRefs(d, kept(asked))
  <2>1. kept(asked) \in SUBSET (IeDocs \X IeDocs)
    BY Zenon, <1>2
  <2>2. IeEnds(kept(asked)) \in SUBSET IeDocs
    BY Zenon, <2>1 DEF IeEnds
  <2>. HIDE DEF kept
  <2>3. {d} \cup IeEnds(kept(asked)) \in SUBSET IeDocs
    BY Zenon, <2>2
  <2>4. IeRefs(d, kept(asked)) \in SUBSET IeSessions
    BY Zenon, <2>3, IeKeys DEF IeRefs
  <2>5. IeSessionsIn(IeEnds(kept(asked))) \subseteq IeRefs(d, kept(asked))
    BY Zenon DEF IeRefs, IeSessionsIn
  <2>. QED  BY Zenon, <2>1, <2>4, <2>5
<1>4. \/ IeGoTo(w, "error")
      \/ \E invented \in {0, 1}, asked \in SUBSET B :
           \/ IeGoTo(w, "error") \/ IeGoTo(w, "done")
           \/ ieWork' = [ieWork EXCEPT ![w] = IeFencing(@, kept(asked), IeRefs(d, kept(asked)))]
  <2>. DEFINE K(invented, asked) == IeKilled(invented + Cardinality(proper(asked) \ kept(asked)),
                                             invented + Cardinality(asked))
  <2>1. \/ IeGoTo(w, "error")
        \/ \E invented \in {0, 1}, asked \in SUBSET B :
             IF K(invented, asked)
                   THEN IeGoTo(w, "error")
                   ELSE IF kept(asked) = {} THEN IeGoTo(w, "done")
                   ELSE ieWork' = [ieWork EXCEPT ![w] = IeFencing(@, kept(asked), IeRefs(d, kept(asked)))]
    BY Zenon DEF IeAnswer
  <2>. HIDE DEF K, kept, d, B
  <2>. QED  BY Zenon, <2>1
<1>. HIDE DEF kept, d, B
<1>. QED  BY Zenon, <1>3, <1>4 DEF IeGoTo

\* No step leaves the types; a row's attempts stay within _MAX_ATTEMPTS.
LEMMA IeTypeStep ==
  IeTypeOK /\ IeUnfenced /\ [IeNextStep]_ieVars => IeTypeOK'
<1>. SUFFICES ASSUME IeTypeOK, IeUnfenced, [IeNextStep]_ieVars
              PROVE  IeTypeOK'
  BY Zenon
<1>. USE IeAssumption
<1>1. ASSUME NEW d \in IeDocs, IeStub(d) PROVE IeTypeOK'
    BY Zenon, <1>1 DEF IeTypeOK, IeNobody, IeStub, IeHasNode
<1>2. ASSUME NEW d \in IeDocs, IePersist(d) PROVE IeTypeOK'
    BY <1>2 DEF IeTypeOK, IeNobody, IePersist, IeMayPersist, IeWritesNode,
      IeHasNode
<1>3. ASSUME NEW d \in IeDocs, IeEnqueue(d) PROVE IeTypeOK'
    BY <1>3 DEF IeTypeOK, IeNobody, IeEnqueue, IeFault, ieStore
<1>4. ASSUME NEW w \in IeWorkers, NEW d \in IeDocs, IeClaim(w, d)
      PROVE  IeTypeOK'
  <2>1. ieWork' \in [IeWorkers -> IeJobs]
    BY Zenon, <1>4, IeFresh DEF IeClaim, IeTypeOK
  <2>2. ieTries' \in [IeDocs -> 0 .. IeAttempts]
    BY <1>4 DEF IeClaim, IeTypeOK
  <2>. QED  BY Zenon, <1>4, <2>1, <2>2 DEF IeClaim, ieStore, IeTypeOK
<1>5. ASSUME NEW w \in IeWorkers, IeBundle(w) PROVE IeTypeOK'
  <2>1. ieWork[w] \in IeJobs
    BY Zenon DEF IeTypeOK
  <2>2. \/ ieWork' = [ieWork EXCEPT ![w] = IeAt(@, "done")]
        \/ \E b \in SUBSET IeDocs : ieWork' = [ieWork EXCEPT ![w] = IeReading(@, b)]
    BY Zenon, <1>5 DEF IeBundle, IeGoTo, IeBundles, IeTypeOK
  <2>3. ieWork' \in [IeWorkers -> IeJobs]
    <3>1. \A b \in SUBSET IeDocs : IeReading(ieWork[w], b) \in IeJobs
      BY Zenon, <2>1, IeOwnUpdates
    <3>2. IeAt(ieWork[w], "done") \in IeJobs
      BY Zenon, <2>1, IeOwnUpdates
    <3>. QED  BY SMTT(30), <2>2, <3>1, <3>2 DEF IeTypeOK
  <2>. QED  BY Zenon, <1>5, <2>3 DEF IeBundle, ieStore, IeTypeOK
<1>6. ASSUME NEW w \in IeWorkers, IeAnswer(w) PROVE IeTypeOK'
  <2>1. ieWork[w] \in IeJobs /\ ieWork[w].doc \in IeDocs
    BY ZenonT(30), <1>6 DEF IeAnswer, IeTypeOK, IeUnfenced
  <2>2. ieWork' \in [IeWorkers -> IeJobs]
    BY SMTT(30), <1>6, <2>1, IeAnswered, IeOwnUpdates DEF IeTypeOK
  <2>3. ieLeft' \in [writes: Nat, faults: Nat]
    <3>1. IeFault \/ UNCHANGED ieLeft
      BY Zenon, <1>6, Zenon DEF IeAnswer
    <3>. QED  BY <3>1 DEF IeFault, IeTypeOK
  <2>. QED  BY Zenon, <1>6, <2>2, <2>3 DEF IeAnswer, ieStore, IeTypeOK
<1>7. ASSUME NEW w \in IeWorkers, IeTakeLock(w) PROVE IeTypeOK'
  <2>1. PICK s \in ieWork[w].want :
          /\ ieLock' = [ieLock EXCEPT ![s] = w]
          /\ ieWork' = [ieWork EXCEPT ![w] = IeTaken(@, s)]
    BY Zenon, <1>7 DEF IeTakeLock, IeNext
  <2>2. ieWork[w] \in IeJobs
    BY Zenon DEF IeTypeOK
  <2>3. s \in IeSessions
    BY Zenon, <2>2 DEF IeJobs
  <2>4. ieWork' \in [IeWorkers -> IeJobs]
    BY Zenon, <2>1, <2>2, <2>3, IeOwnUpdates DEF IeTypeOK
  <2>. QED  BY Zenon, <1>7, <2>1, <2>4 DEF IeTakeLock, ieStore, IeTypeOK
<1>8. ASSUME NEW w \in IeWorkers, IeWrite(w) PROVE IeTypeOK'
  <2>1. ieWork[w] \in IeJobs
    BY DEF IeTypeOK
  <2>2. ieWork' \in [IeWorkers -> IeJobs]
    BY <1>8, <2>1, IeOwnUpdates DEF IeWrite, IeGoTo, IeTypeOK
  <2>3. ieLeft' \in [writes: Nat, faults: Nat]
    BY SMTT(30), <1>8 DEF IeWrite, IeFault, IeTypeOK
  <2>4. ieLock' \in [IeSessions -> IeWorkers \cup {IeNobody}]
    BY Zenon, <1>8 DEF IeWrite, IeReleased, IeTypeOK
  <2>5. ieProv' \in [IeDocs -> SUBSET {"source", "inferred"}]
    BY <1>8 DEF IeWrite, IeTypeOK
  <2>6. ieEdges' \subseteq IeDocs \X IeDocs
    BY Zenon, <1>8, <2>1 DEF IeWrite, IeTypeOK, IeJobs
  <2>. QED  BY Zenon, <1>8, <2>2, <2>3, <2>4, <2>5, <2>6 DEF IeWrite, IeTypeOK
<1>9. ASSUME NEW w \in IeWorkers, IeSettle(w) PROVE IeTypeOK'
  <2>1. ieWork' \in [IeWorkers -> IeJobs]
    BY Zenon, <1>9, IeFresh DEF IeSettle, IeTypeOK
  <2>. QED  BY Zenon, <1>9, <2>1 DEF IeSettle, IeAfterError, ieStore, IeTypeOK
<1>10. ASSUME NEW w \in IeWorkers, IeDie(w) PROVE IeTypeOK'
  <2>1. ieWork' \in [IeWorkers -> IeJobs]
    BY Zenon, <1>10, IeFresh DEF IeDie, IeTypeOK
  <2>2. ieDied' \subseteq IeDocs
    BY <1>10 DEF IeDie, IeTypeOK, IeUnfenced
  <2>. QED  BY <1>10, <2>1, <2>2 DEF IeDie, IeFault, IeReleased, ieStore,
    IeTypeOK
<1>11. ASSUME NEW s \in IeSessions, IeRecord(s) PROVE IeTypeOK'
    BY Zenon, <1>11 DEF IeTypeOK, IeNobody, IeRecord
<1>12. ASSUME NEW s \in IeSessions, IeErase(s) PROVE IeTypeOK'
    BY Zenon, <1>12 DEF IeTypeOK, IeNobody, IeErase, IeDrop, IeDropNodes
<1>13. ASSUME NEW d \in IeDocs, IePurge(d) PROVE IeTypeOK'
    BY SMTT(30), <1>13 DEF IeTypeOK, IeNobody, IePurge, IeDrop, IeDropNodes
<1>14. CASE UNCHANGED ieVars
    BY Zenon, <1>14 DEF ieVars, ieStore, IeTypeOK, IeNobody
<1>. QED
  BY Zenon, <1>1, <1>2, <1>3, <1>4, <1>5, <1>6, <1>7, <1>8, <1>9, <1>10, <1>11,
    <1>12, <1>13, <1>14 DEF IeNextStep, IeStep

\* A task's locks: taken in order, on the way to a write only, and for all
\* that the write names.
LEMMA IeTasksStep ==
  IeTypeOK /\ IeUnfenced /\ IeFenced /\ IeAscending /\ [IeNextStep]_ieVars
    => IeUnfenced' /\ IeFenced' /\ IeAscending'
<1>. SUFFICES ASSUME IeTypeOK, IeUnfenced, IeFenced, IeAscending, [IeNextStep]_ieVars
              PROVE  IeUnfenced' /\ IeFenced' /\ IeAscending'
  BY Zenon
<1>. USE IeAssumption
<1>1. ASSUME NEW d \in IeDocs, IeStub(d)
      PROVE  IeUnfenced' /\ IeFenced' /\ IeAscending'
  <2>1. ieLock' = ieLock /\ ieWork' = ieWork
    BY Zenon, <1>1 DEF IeStub
  <2>. QED  BY <2>1 DEF IeUnfenced, IeFenced, IeAscending, IeMine
<1>2. ASSUME NEW d \in IeDocs, IePersist(d)
      PROVE  IeUnfenced' /\ IeFenced' /\ IeAscending'
  <2>1. ieLock' = ieLock /\ ieWork' = ieWork
    BY Zenon, <1>2 DEF IePersist
  <2>. QED  BY <2>1 DEF IeUnfenced, IeFenced, IeAscending, IeMine
<1>3. ASSUME NEW d \in IeDocs, IeEnqueue(d)
      PROVE  IeUnfenced' /\ IeFenced' /\ IeAscending'
  <2>1. ieLock' = ieLock /\ ieWork' = ieWork
    BY ZenonT(30), <1>3 DEF IeEnqueue
  <2>. QED  BY <2>1 DEF IeUnfenced, IeFenced, IeAscending, IeMine
<1>4. ASSUME NEW w \in IeWorkers, NEW d \in IeDocs, IeClaim(w, d)
      PROVE  IeUnfenced' /\ IeFenced' /\ IeAscending'
  <2>1. \A v \in IeWorkers : v # w => ieWork'[v] = ieWork[v]
    BY ZenonT(30), <1>4 DEF IeClaim, IeTypeOK
  <2>2. /\ ieWork'[w].at # "fence" /\ ieWork'[w].want = {}
        /\ ieWork'[w].at # "idle" => ieWork'[w].doc \in IeDocs
    BY <1>4, IeFresh DEF IeClaim, IeTypeOK
  <2>3. \A v \in IeWorkers : IeMine(v)' = IeMine(v)
    BY Zenon, <1>4 DEF IeClaim, IeMine
  <2>4. IeMine(w) = {}
    BY Zenon, <1>4 DEF IeClaim, IeUnfenced
  <2>. QED  BY SMTT(30), <2>1, <2>2, <2>3, <2>4 DEF IeUnfenced, IeFenced, IeAscending
<1>5. ASSUME NEW w \in IeWorkers, IeBundle(w)
      PROVE  IeUnfenced' /\ IeFenced' /\ IeAscending'
  <2>1. /\ ieWork[w] \in IeJobs
        /\ ieWork[w].doc \in IeDocs
        /\ ieWork[w].want = {}
        /\ IeMine(w) = {}
    BY Zenon, <1>5 DEF IeBundle, IeTypeOK, IeUnfenced
  <2>2. \/ ieWork' = [ieWork EXCEPT ![w] = IeAt(@, "done")]
        \/ \E b \in SUBSET IeDocs : ieWork' = [ieWork EXCEPT ![w] = IeReading(@, b)]
    BY Zenon, <1>5 DEF IeBundle, IeGoTo, IeBundles, IeTypeOK
  <2>3. \A v \in IeWorkers : v # w => ieWork'[v] = ieWork[v]
    BY SMTT(30), <2>2 DEF IeTypeOK
  <2>4. /\ ieWork'[w].at # "fence"
        /\ ieWork'[w].want = {}
        /\ ieWork'[w].doc \in IeDocs
    BY SMTT(60), <2>1, <2>2, IeOwnUpdates DEF IeTypeOK
  <2>5. \A v \in IeWorkers : IeMine(v)' = IeMine(v)
    BY Zenon, <1>5 DEF IeBundle, IeMine
  <2>. QED  BY SMTT(30), <2>1, <2>3, <2>4, <2>5 DEF IeUnfenced, IeFenced, IeAscending
<1>6. ASSUME NEW w \in IeWorkers, IeAnswer(w)
      PROVE  IeUnfenced' /\ IeFenced' /\ IeAscending'
  <2>1. /\ ieWork[w] \in IeJobs
        /\ ieWork[w].doc \in IeDocs
        /\ ieWork[w].want = {}
        /\ IeMine(w) = {}
    BY Zenon, <1>6 DEF IeAnswer, IeTypeOK, IeUnfenced
  <2>2. \A v \in IeWorkers : IeMine(v)' = IeMine(v)
    BY Zenon, <1>6 DEF IeAnswer, IeMine
  <2>3. ASSUME NEW place \in {"done", "error"}, ieWork' = [ieWork EXCEPT ![w] = IeAt(@, place)]
        PROVE  IeUnfenced' /\ IeFenced' /\ IeAscending'
    <3>1. \A v \in IeWorkers : v # w => ieWork'[v] = ieWork[v]
      BY SMTT(30), <2>3 DEF IeTypeOK
    <3>2. /\ ieWork'[w].at # "fence"
          /\ ieWork'[w].want = {}
          /\ ieWork'[w].doc \in IeDocs
      BY SMTT(30), <2>1, <2>3, IeOwnUpdates DEF IeTypeOK
    <3>. QED  BY <2>1, <2>2, <3>1, <3>2 DEF IeUnfenced, IeFenced, IeAscending
  <2>4. ASSUME NEW kept \in SUBSET (IeDocs \X IeDocs), NEW refs \in SUBSET IeSessions,
               IeSessionsIn(IeEnds(kept)) \subseteq refs,
               ieWork' = [ieWork EXCEPT ![w] = IeFencing(@, kept, refs)]
        PROVE  IeUnfenced' /\ IeFenced' /\ IeAscending'
    <3>1. \A v \in IeWorkers : v # w => ieWork'[v] = ieWork[v]
      BY SMTT(30), <2>4 DEF IeTypeOK
    <3>2. /\ ieWork'[w].at = "fence" /\ ieWork'[w].doc \in IeDocs
          /\ ieWork'[w].edges = kept /\ ieWork'[w].want = refs
      <4>1. ieWork'[w] = IeFencing(ieWork[w], kept, refs)
        BY <2>4 DEF IeTypeOK
      <4>. QED  BY SMTT(60), <2>1, <4>1, IeOwnUpdates
    <3>. QED  BY <2>1, <2>2, <2>4, <3>1, <3>2 DEF IeUnfenced, IeFenced, IeAscending
  <2>. QED  BY Zenon, <1>6, <2>1, <2>3, <2>4, IeAnswered
<1>7. ASSUME NEW w \in IeWorkers, IeTakeLock(w)
      PROVE  IeUnfenced' /\ IeFenced' /\ IeAscending'
  <2>1. PICK s \in IeNext(ieWork[w].want) :
          /\ ieLock[s] = IeNobody /\ ieLock' = [ieLock EXCEPT ![s] = w]
          /\ ieWork' = [ieWork EXCEPT ![w] = IeTaken(@, s)]
    BY Zenon, <1>7 DEF IeTakeLock
  <2>2. /\ ieWork[w] \in IeJobs
        /\ ieWork[w].at = "fence"
        /\ ieWork[w].doc \in IeDocs
    BY Zenon, <1>7 DEF IeTakeLock, IeTypeOK, IeUnfenced
  <2>3. /\ s \in ieWork[w].want
        /\ s \in IeSessions
        /\ ieWork[w].want \subseteq Nat
    BY Zenon, <2>2, IeKeys DEF IeJobs, IeNext
  <2>4. \A t \in ieWork[w].want \ {s} : s < t
    BY <2>3 DEF IeNext
  <2>5. \A v \in IeWorkers : v # w => ieWork'[v] = ieWork[v]
    BY ZenonT(30), <2>1 DEF IeTypeOK
  <2>6. /\ ieWork'[w].at = "fence" /\ ieWork'[w].doc \in IeDocs
        /\ ieWork'[w].edges = ieWork[w].edges /\ ieWork'[w].want = ieWork[w].want \ {s}
    <3>1. ieWork'[w] = IeTaken(ieWork[w], s)
      BY <2>1 DEF IeTypeOK
    <3>. QED  BY SMTT(60), <2>2, <2>3, <3>1, IeOwnUpdates
  <2>7. IeMine(w)' = IeMine(w) \cup {s}
    BY <2>1, <2>3 DEF IeMine, IeTypeOK
  <2>8. \A v \in IeWorkers : v # w => IeMine(v)' = IeMine(v)
    BY SMTT(30), <2>1, <2>3 DEF IeMine, IeTypeOK, IeNobody
  <2>9. IeUnfenced'
    BY SMTT(30), <2>5, <2>6, <2>8 DEF IeUnfenced
  <2>10. IeFenced'
    BY SMTT(30), <2>2, <2>5, <2>6, <2>7, <2>8 DEF IeFenced
  <2>11. IeAscending'
    BY SMTT(30), <2>4, <2>5, <2>6, <2>7, <2>8 DEF IeAscending
  <2>. QED  BY Zenon, <2>9, <2>10, <2>11
<1>8. ASSUME NEW w \in IeWorkers, IeWrite(w)
      PROVE  IeUnfenced' /\ IeFenced' /\ IeAscending'
  <2>1. \A v \in IeWorkers : v # w => ieWork'[v] = ieWork[v]
    BY SMTT(30), <1>8 DEF IeWrite, IeGoTo, IeTypeOK
  <2>2. /\ ieWork'[w].at # "fence" /\ ieWork'[w].want = {}
        /\ ieWork'[w].at # "idle" => ieWork'[w].doc \in IeDocs
    <3>1. /\ ieWork[w] \in IeJobs /\ ieWork[w].at = "fence"
          /\ ieWork[w].want = {} /\ ieWork[w].doc \in IeDocs
      BY Zenon, <1>8 DEF IeWrite, IeTypeOK, IeUnfenced
    <3>2. \E place \in {"done", "error"} : ieWork' = [ieWork EXCEPT ![w] = IeAt(@, place)]
      BY Zenon, <1>8 DEF IeWrite, IeGoTo
    <3>. QED  BY SMTT(60), <3>1, <3>2, IeOwnUpdates DEF IeTypeOK
  <2>3. IeMine(w)' = {}
    BY Zenon, <1>8 DEF IeWrite, IeReleased, IeMine, IeNobody
  <2>4. \A v \in IeWorkers : v # w => IeMine(v)' = IeMine(v)
    BY Zenon, <1>8 DEF IeWrite, IeReleased, IeMine, IeNobody
  <2>. QED  BY SMTT(30), <2>1, <2>2, <2>3, <2>4 DEF IeUnfenced, IeFenced, IeAscending
<1>9. ASSUME NEW w \in IeWorkers, IeSettle(w)
      PROVE  IeUnfenced' /\ IeFenced' /\ IeAscending'
  <2>1. \A v \in IeWorkers : v # w => ieWork'[v] = ieWork[v]
    BY Zenon, <1>9 DEF IeSettle, IeTypeOK
  <2>2. /\ ieWork'[w].at # "fence" /\ ieWork'[w].want = {}
        /\ ieWork'[w].at # "idle" => ieWork'[w].doc \in IeDocs
    BY SMTT(60), <1>9, IeFresh DEF IeSettle, IeTypeOK
  <2>3. \A v \in IeWorkers : IeMine(v)' = IeMine(v)
    BY Zenon, <1>9 DEF IeSettle, IeMine
  <2>4. IeMine(w) = {}
    BY Zenon, <1>9 DEF IeSettle, IeUnfenced
  <2>. QED  BY ZenonT(30), <2>1, <2>2, <2>3, <2>4 DEF IeUnfenced, IeFenced, IeAscending
<1>10. ASSUME NEW w \in IeWorkers, IeDie(w)
      PROVE  IeUnfenced' /\ IeFenced' /\ IeAscending'
  <2>1. \A v \in IeWorkers : v # w => ieWork'[v] = ieWork[v]
    BY <1>10 DEF IeDie, IeGoTo, IeTypeOK
  <2>2. /\ ieWork'[w].at # "fence" /\ ieWork'[w].want = {}
        /\ ieWork'[w].at # "idle" => ieWork'[w].doc \in IeDocs
    BY <1>10, IeFresh DEF IeDie, IeTypeOK
  <2>3. IeMine(w)' = {}
    BY Zenon, <1>10 DEF IeDie, IeReleased, IeMine, IeNobody
  <2>4. \A v \in IeWorkers : v # w => IeMine(v)' = IeMine(v)
    BY Zenon, <1>10 DEF IeDie, IeReleased, IeMine, IeNobody
  <2>. QED  BY <2>1, <2>2, <2>3, <2>4 DEF IeUnfenced, IeFenced, IeAscending
<1>11. ASSUME NEW s \in IeSessions, IeRecord(s)
      PROVE  IeUnfenced' /\ IeFenced' /\ IeAscending'
  <2>1. ieLock' = ieLock /\ ieWork' = ieWork
    BY Zenon, <1>11 DEF IeRecord
  <2>. QED  BY SMTT(30), <2>1 DEF IeUnfenced, IeFenced, IeAscending, IeMine
<1>12. ASSUME NEW s \in IeSessions, IeErase(s)
      PROVE  IeUnfenced' /\ IeFenced' /\ IeAscending'
  <2>1. ieLock' = ieLock /\ ieWork' = ieWork
    BY Zenon, <1>12 DEF IeErase
  <2>. QED  BY <2>1 DEF IeUnfenced, IeFenced, IeAscending, IeMine
<1>13. ASSUME NEW d \in IeDocs, IePurge(d)
      PROVE  IeUnfenced' /\ IeFenced' /\ IeAscending'
  <2>1. ieLock' = ieLock /\ ieWork' = ieWork
    BY Zenon, <1>13 DEF IePurge
  <2>. QED  BY <2>1 DEF IeUnfenced, IeFenced, IeAscending, IeMine
<1>14. CASE UNCHANGED ieVars
    BY SMTT(60), <1>14 DEF ieVars, ieStore, IeTypeOK, IeUnfenced, IeFenced, IeAscending,
      IeMine, IeNobody
<1>. QED
  BY ZenonT(30), <1>1, <1>2, <1>3, <1>4, <1>5, <1>6, <1>7, <1>8, <1>9, <1>10, <1>11,
    <1>12, <1>13, <1>14 DEF IeNextStep, IeStep

\* Under those locks no write brings an erased session back.
LEMMA IeGraphStep ==
  IeTypeOK /\ IeFenced /\ IeLiveHasNode /\ ErasedSessionStaysOut /\ [IeNextStep]_ieVars
    => IeLiveHasNode' /\ ErasedSessionStaysOut'
<1>. SUFFICES ASSUME IeTypeOK, IeFenced, IeLiveHasNode, ErasedSessionStaysOut,
                     [IeNextStep]_ieVars
              PROVE  IeLiveHasNode' /\ ErasedSessionStaysOut'
  BY Zenon
<1>. USE IeAssumption
<1>1. ASSUME NEW d \in IeDocs, IeStub(d)
      PROVE  IeLiveHasNode' /\ ErasedSessionStaysOut'
  <2>1. IeSessionOf[d] = 0 /\ UNCHANGED <<ieLive, ieEdges, ieGone>>
    BY Zenon, <1>1 DEF IeStub
  <2>2. ieProv' = [ieProv EXCEPT ![d] = {"source"}]
    BY Zenon, <1>1 DEF IeStub
  <2>3. /\ ieProv'[d] # {}
        /\ \A e \in IeDocs \ {d} : ieProv'[e] = ieProv[e]
    BY Zenon, <2>2 DEF IeTypeOK
  <2>4. IeLiveHasNode'
    BY Zenon, <2>1, <2>3 DEF IeLiveHasNode, IeHasNode, IeTypeOK
  <2>5. ErasedSessionStaysOut'
    BY Zenon, <2>1, <2>3 DEF ErasedSessionStaysOut, IeHasNode
  <2>. QED  BY Zenon, <2>4, <2>5
<1>2. ASSUME NEW d \in IeDocs, IePersist(d)
      PROVE  IeLiveHasNode' /\ ErasedSessionStaysOut'
  <2>1. IeEnds(ieEdges)' = IeEnds(ieEdges) /\ ieGone' = ieGone
    BY Zenon, <1>2 DEF IePersist, IeEnds
  <2>2. \A e \in IeDocs : e # d => ieProv'[e] = ieProv[e]
    BY Zenon, <1>2 DEF IePersist, IeTypeOK
  <2>3. ieProv'[d] # {}
    BY Zenon, <1>2 DEF IePersist, IeMayPersist, IeHasNode, IeTypeOK
  <2>4. IeLiveHasNode'
    BY Zenon, <1>2, <2>2, <2>3 DEF IePersist, IeLiveHasNode, IeHasNode, IeTypeOK
  <2>5. IeSessionOf[d] # 0 => ieGone[IeSessionOf[d]] # "erased"
    BY Zenon, <1>2 DEF IePersist
  <2>6. ErasedSessionStaysOut'
    BY Zenon, <2>1, <2>2, <2>5 DEF ErasedSessionStaysOut, IeHasNode
  <2>. QED  BY Zenon, <2>4, <2>6
<1>3. ASSUME NEW d \in IeDocs, IeEnqueue(d)
      PROVE  IeLiveHasNode' /\ ErasedSessionStaysOut'
  <2>1. UNCHANGED <<ieLive, ieProv, ieEdges, ieGone>>
    BY Zenon, <1>3 DEF IeEnqueue, ieStore
  <2>. QED  BY Zenon, <2>1 DEF IeLiveHasNode, ErasedSessionStaysOut, IeHasNode
<1>4. ASSUME NEW w \in IeWorkers, NEW d \in IeDocs, IeClaim(w, d)
      PROVE  IeLiveHasNode' /\ ErasedSessionStaysOut'
  <2>1. UNCHANGED <<ieLive, ieProv, ieEdges, ieGone>>
    BY Zenon, <1>4 DEF IeClaim, ieStore
  <2>. QED  BY Zenon, <2>1 DEF IeLiveHasNode, ErasedSessionStaysOut, IeHasNode
<1>5. ASSUME NEW w \in IeWorkers, IeBundle(w)
      PROVE  IeLiveHasNode' /\ ErasedSessionStaysOut'
  <2>1. UNCHANGED <<ieLive, ieProv, ieEdges, ieGone>>
    BY Zenon, <1>5 DEF IeBundle, ieStore
  <2>. QED  BY Zenon, <2>1 DEF IeLiveHasNode, ErasedSessionStaysOut, IeHasNode
<1>6. ASSUME NEW w \in IeWorkers, IeAnswer(w)
      PROVE  IeLiveHasNode' /\ ErasedSessionStaysOut'
  <2>1. UNCHANGED <<ieLive, ieProv, ieEdges, ieGone>>
    BY Zenon, <1>6 DEF IeAnswer, ieStore
  <2>. QED  BY <2>1 DEF IeLiveHasNode, ErasedSessionStaysOut, IeHasNode
<1>7. ASSUME NEW w \in IeWorkers, IeTakeLock(w)
      PROVE  IeLiveHasNode' /\ ErasedSessionStaysOut'
  <2>1. UNCHANGED <<ieLive, ieProv, ieEdges, ieGone>>
    BY Zenon, <1>7 DEF IeTakeLock, ieStore
  <2>. QED  BY <2>1 DEF IeLiveHasNode, ErasedSessionStaysOut, IeHasNode
<1>8. ASSUME NEW w \in IeWorkers, IeWrite(w)
      PROVE  IeLiveHasNode' /\ ErasedSessionStaysOut'
  <2>. DEFINE edges == ieWork[w].edges
  <2>1. CASE UNCHANGED <<ieProv, ieEdges>>
    BY Zenon, <1>8, <2>1 DEF IeWrite, IeLiveHasNode, ErasedSessionStaysOut, IeHasNode
  <2>2. CASE /\ \A s \in IeMine(w) : ieGone[s] = "kept"
             /\ ieProv' = [d \in IeDocs |-> IF d \in IeEnds(edges)
                                            THEN ieProv[d] \cup {"inferred"} ELSE ieProv[d]]
             /\ ieEdges' = ieEdges \cup edges
    <3>1. IeSessionsIn(IeEnds(edges)) \subseteq IeMine(w)
      BY Zenon, <1>8 DEF IeWrite, IeFenced
    <3>2. ieLive' = ieLive /\ ieGone' = ieGone
      BY Zenon, <1>8 DEF IeWrite
    <3>3. IeEnds(ieEdges') = IeEnds(ieEdges) \cup IeEnds(edges)
      BY Zenon, <2>2 DEF IeEnds
    <3>4. \A d \in IeEnds(edges) : IeSessionOf[d] # 0 => ieGone[IeSessionOf[d]] = "kept"
      BY Zenon, <2>2, <3>1 DEF IeSessionsIn
    <3>5. \A d \in IeDocs : d \notin IeEnds(edges) => ieProv'[d] = ieProv[d]
      BY Zenon, <2>2
    <3>6. IeLiveHasNode'
      BY Zenon, <2>2, <3>2 DEF IeLiveHasNode, IeHasNode, IeTypeOK
    <3>7. ErasedSessionStaysOut'
      <4>. SUFFICES ASSUME NEW d \in IeDocs, IeSessionOf[d] # 0,
                           ieGone[IeSessionOf[d]] = "erased"
                    PROVE  ieProv'[d] = {} /\ d \notin IeEnds(ieEdges')
        BY Zenon, <3>2 DEF ErasedSessionStaysOut, IeHasNode, IeEnds
      <4>1. d \notin IeEnds(edges)
        BY Zenon, <3>4
      <4>. QED  BY Zenon, <3>3, <3>5, <4>1 DEF ErasedSessionStaysOut, IeHasNode
    <3>. QED  BY Zenon, <3>6, <3>7
  <2>. QED  BY Zenon, <1>8, <2>1, <2>2 DEF IeWrite
<1>9. ASSUME NEW w \in IeWorkers, IeSettle(w)
      PROVE  IeLiveHasNode' /\ ErasedSessionStaysOut'
  <2>1. UNCHANGED <<ieLive, ieProv, ieEdges, ieGone>>
    BY Zenon, <1>9 DEF IeSettle, ieStore
  <2>. QED  BY <2>1 DEF IeLiveHasNode, ErasedSessionStaysOut, IeHasNode
<1>10. ASSUME NEW w \in IeWorkers, IeDie(w)
      PROVE  IeLiveHasNode' /\ ErasedSessionStaysOut'
  <2>1. UNCHANGED <<ieLive, ieProv, ieEdges, ieGone>>
    BY Zenon, <1>10 DEF IeDie, ieStore
  <2>. QED  BY <2>1 DEF IeLiveHasNode, ErasedSessionStaysOut, IeHasNode
<1>11. ASSUME NEW s \in IeSessions, IeRecord(s)
      PROVE  IeLiveHasNode' /\ ErasedSessionStaysOut'
  <2>1. /\ ieGone' = [ieGone EXCEPT ![s] = "recorded"]
        /\ UNCHANGED <<ieLive, ieProv, ieEdges>>
    BY Zenon, <1>11 DEF IeRecord
  <2>2. \A d \in IeDocs : IeSessionOf[d] # 0 /\ ieGone'[IeSessionOf[d]] = "erased" =>
          ieGone[IeSessionOf[d]] = "erased"
    BY Zenon, <2>1, IeKeys DEF IeTypeOK
  <2>. QED  BY Zenon, <2>1, <2>2 DEF IeLiveHasNode, ErasedSessionStaysOut, IeHasNode
<1>12. ASSUME NEW s \in IeSessions, IeErase(s)
      PROVE  IeLiveHasNode' /\ ErasedSessionStaysOut'
  <2>. DEFINE ds == {d \in IeDocs : IeSessionOf[d] = s}
  <2>1. /\ ieLive' = ieLive \ ds
        /\ ieProv' = [d \in IeDocs |-> IF d \in ds THEN {} ELSE ieProv[d]]
        /\ ieEdges' = {e \in ieEdges : e[1] \notin ds /\ e[2] \notin ds}
        /\ ieGone' = [ieGone EXCEPT ![s] = "erased"]
    BY Zenon, <1>12 DEF IeErase, IeDrop, IeDropNodes
  <2>2. IeEnds(ieEdges)' \subseteq IeEnds(ieEdges) \ ds
    BY SMTT(30), <2>1 DEF IeEnds
  <2>3. IeLiveHasNode'
    BY Zenon, <2>1 DEF IeLiveHasNode, IeHasNode, IeTypeOK
  <2>4. \A d \in IeDocs : d \notin ds /\ IeSessionOf[d] # 0 =>
          ieGone'[IeSessionOf[d]] = ieGone[IeSessionOf[d]]
    BY Zenon, <2>1, IeKeys DEF IeTypeOK
  <2>5. ErasedSessionStaysOut'
    BY Zenon, <2>1, <2>2, <2>4 DEF ErasedSessionStaysOut, IeHasNode
  <2>. QED  BY Zenon, <2>3, <2>5
<1>13. ASSUME NEW d \in IeDocs, IePurge(d)
      PROVE  IeLiveHasNode' /\ ErasedSessionStaysOut'
  <2>1. ieGone' = ieGone /\ ieLive' = ieLive \ {d}
    BY Zenon, <1>13 DEF IePurge, IeDrop
  <2>2. /\ \A e \in IeDocs \ {d} : ieProv'[e] = ieProv[e]
        /\ ieProv'[d] \subseteq ieProv[d]
        /\ ieEdges' \subseteq ieEdges
    BY Zenon, <1>13 DEF IePurge, IeDropNodes
  <2>3. IeEnds(ieEdges)' \subseteq IeEnds(ieEdges)
    BY Zenon, <2>2 DEF IeEnds
  <2>. QED  BY Zenon, <2>1, <2>2, <2>3 DEF IeLiveHasNode, ErasedSessionStaysOut,
    IeHasNode, IeTypeOK
<1>14. CASE UNCHANGED ieVars
    BY Zenon, <1>14 DEF ieVars, ieStore, IeTypeOK, IeLiveHasNode,
      ErasedSessionStaysOut, IeHasNode
<1>. QED
  BY Zenon, <1>1, <1>2, <1>3, <1>4, <1>5, <1>6, <1>7, <1>8, <1>9, <1>10, <1>11,
    <1>12, <1>13, <1>14 DEF IeNextStep, IeStep

\* Everything starts empty.
LEMMA IeInitial == IeInit => IeIInv
<1>. SUFFICES ASSUME IeInit PROVE IeIInv
  BY Zenon
<1>1. \A w \in IeWorkers : ieWork[w] = IeIdle /\ IeMine(w) = {}
  BY Zenon, IeAssumption DEF IeInit, IeMine, IeNobody
<1>2. IeTypeOK
  BY SMTT(30), IeAssumption, IeFresh DEF IeInit, IeTypeOK
<1>3. IeUnfenced /\ IeFenced /\ IeAscending
  BY Zenon, <1>1, IeFresh DEF IeUnfenced, IeFenced, IeAscending
<1>4. IeLiveHasNode /\ ErasedSessionStaysOut
  BY Zenon, IeKeys DEF IeInit, IeLiveHasNode, ErasedSessionStaysOut
<1>. QED  BY Zenon, <1>2, <1>3, <1>4 DEF IeIInv

\* The invariant holds of the queue, the workers, the writers, the deletions
\* and the purges together.
THEOREM IeInductive == IeSpec => []IeIInv
<1>1. IeIInv /\ [IeNextStep]_ieVars => IeIInv'
  BY Zenon, IeTypeStep, IeTasksStep, IeGraphStep DEF IeIInv
<1>. QED  BY IeInitial, <1>1, PTL DEF IeSpec

\* No worker, however long its LLM call took, puts a node or an edge of an
\* erased session back (refuse_deleted_sessions before persist_edges).
THEOREM ErasedSessionsStayOut == IeSpec => []ErasedSessionStaysOut
<1>1. IeIInv => ErasedSessionStaysOut
  BY Zenon DEF IeIInv
<1>. QED  BY IeInductive, <1>1, PTL

\* Locking sessions in sorted order, two workers never wait for each other,
\* whatever their edges name (session_deletion.py, refuse_deleted_sessions).
THEOREM NoLocksCross == IeSpec => []LocksNeverCross
<1>1. IeIInv => LocksNeverCross
  <2>. SUFFICES ASSUME IeIInv, NEW v \in IeWorkers, NEW w \in IeWorkers,
                       NEW s \in IeMine(v), s \in ieWork[w].want,
                       NEW t \in IeMine(w), t \in ieWork[v].want
                PROVE  FALSE
    BY Zenon DEF LocksNeverCross
  <2>1. s < t /\ t < s
    BY Zenon DEF IeIInv, IeAscending
  <2>2. s \in Nat /\ t \in Nat
    BY Zenon, IeKeys DEF IeMine
  <2>. QED  BY SMTT(30), <2>1, <2>2
<1>. QED  BY IeInductive, <1>1, PTL

\* A live anchor has its node when the answer about it is validated, however
\* stubs, persists, erasures and purges interleave with the claim.
THEOREM AnchorsAreKnown == IeSpec => []AnchorIsKnown
<1>1. IeIInv => AnchorIsKnown
  BY Zenon DEF IeIInv, IeLiveHasNode, AnchorIsKnown
<1>. QED  BY IeInductive, <1>1, PTL

=============================================================================
