---------------------------- MODULE GraphProofs -----------------------------
(***************************************************************************)
(* The graph, for any ids, inputs, passers, workers and faults: the degree *)
(* of a node is exact, a changed node is queued, and an asserted edge is   *)
(* kept. None of the three is inductive by itself.  The degree needs the   *)
(* sets of edges to be finite.  The queue needs that a pass wakes what it  *)
(* changes and that a claim still current at its end has judged the node   *)
(* as it is. The edges need that a drain carries every edge it took.       *)
(***************************************************************************)
EXTENDS GraphStore, EntityClusters, FiniteSetTheorems, TLAPS

\* What is committed is finite, and so is what a transaction will add.
Finite ==
  /\ IsFiniteSet(gsEdges) /\ IsFiniteSet(gsPending)
  /\ \A p \in GsPassers :
       IsFiniteSet(gsTxn[p].write) /\ IsFiniteSet(gsTxn[p].park)
  /\ \A k \in GsWorkers :
       IsFiniteSet(gsWork[k].write) /\ IsFiniteSet(gsWork[k].park)

\* The part of the type invariant that is about the tables.
Tables ==
  /\ gsNodes \subseteq GsIds /\ gsEdges \subseteq GsEdgeRows
  /\ gsPending \subseteq GsParkRows /\ gsStale \subseteq GsIds
  /\ gsReaped \subseteq GsEdgeRows /\ gsSaid \subseteq GsEdgeRows

\* Every node a pass changes it also wakes.
Woken == \A p \in GsPassers : gsTxn[p].changed \subseteq gsTxn[p].wake

\* A worker about to settle a row that is still its own has judged the node
\* as it is.
Judged == \A k \in GsWorkers :
  gsWork[k].at = "settle" /\ gsWork[k].current => gsWork[k].node \notin gsStale

\* The edges of the rows a drain claimed are in what it will write or park.
Carried == \A k \in GsWorkers :
  {r.edge : r \in gsWork[k].rows}
     \subseteq gsWork[k].write \cup {r.edge : r \in gsWork[k].park}

\* A row is parked on an end of its edge, in an open transaction too.
OnAnEnd ==
  /\ \A p \in GsPassers : \A r \in gsTxn[p].park : r.miss \in GsEnds(r.edge)
  /\ \A k \in GsWorkers : \A r \in gsWork[k].park : r.miss \in GsEnds(r.edge)

IInv ==
  /\ GsTypeOK /\ Finite
  /\ Woken /\ Judged /\ Carried /\ OnAnEnd
  /\ DegreeIsExact /\ ChangedNodeIsQueued /\ AssertedEdgeIsKept

-----------------------------------------------------------------------------
\* Counting new edges leaves natural numbers.
LEMMA RaiseType ==
  ASSUME NEW write, IsFiniteSet(write), gsDegree \in [GsIds -> Nat]
  PROVE  GsRaise(write) \in [GsIds -> Nat]
<1>. SUFFICES ASSUME NEW n \in GsIds
              PROVE  GsEndsAt(write \ gsEdges, n) \in Nat
  BY SMTT(30) DEF GsRaise
<1>. DEFINE out == {e \in write \ gsEdges : e[1] = n}
            in == {e \in write \ gsEdges : e[2] = n}
<1>1. IsFiniteSet(out) /\ IsFiniteSet(in)
  BY Zenon, FS_Subset
<1>2. Cardinality(out) \in Nat /\ Cardinality(in) \in Nat
  BY Zenon, <1>1, FS_CardinalityType
<1>. QED  BY <1>2 DEF GsEndsAt

\* The ways a claim is edited in flight leave a claim.
LEMMA ClaimEdits ==
  ASSUME NEW w \in GsClaims
  PROVE  /\ GsAfterDrain(w) \in GsClaims
         /\ \A gone \in BOOLEAN : GsOutdated(w, gone) \in GsClaims
         /\ \A rows, park \in SUBSET GsParkRows, write \in SUBSET GsEdgeRows :
               GsDraining(w, rows, write, park) \in GsClaims
<1>1. GsAfterDrain(w) \in GsClaims
  BY Zenon DEF GsAfterDrain, GsClaims
<1>2. ASSUME NEW gone \in BOOLEAN PROVE GsOutdated(w, gone) \in GsClaims
  BY Zenon DEF GsOutdated, GsClaims
<1>3. ASSUME NEW rows \in SUBSET GsParkRows, NEW park \in SUBSET GsParkRows,
             NEW write \in SUBSET GsEdgeRows
      PROVE  GsDraining(w, rows, write, park) \in GsClaims
  BY Zenon DEF GsDraining, GsClaims
<1>. QED  BY Zenon, <1>1, <1>2, <1>3

\* So does dropping it.
LEMMA IdleType == GsIdle \in GsClaims
  BY Zenon, GsAssumption DEF GsIdle, GsClaims

\* What resolves and what is parked, as a set of edges.
LEMMA ReParked ==
  ASSUME NEW rows \in SUBSET GsParkRows, NEW known \in SUBSET GsIds
  PROVE  LET edges == {r.edge : r \in rows} IN
         /\ GsResolved(edges, known) \in SUBSET GsEdgeRows
         /\ GsParked(edges, known) \in SUBSET GsParkRows
  BY DEF GsResolved, GsParked, GsParkRows, GsEdgeRows, GsEnds

\* Every step keeps the shape of the variables.
LEMMA TypeStep == GsTypeOK /\ Finite /\ [GsNext]_gsVars => GsTypeOK'
<1>. SUFFICES ASSUME GsTypeOK, Finite, [GsNext]_gsVars PROVE GsTypeOK'
  BY Zenon
<1>. USE GsAssumption
<1>1. ASSUME NEW p \in GsPassers, NEW i \in GsInputs,
             NEW altered \in {{}, i.nodes}, GsPass(p, i.nodes, i.edges, altered)
      PROVE  GsTypeOK'
    BY SMTT(30), <1>1 DEF GsTypeOK, GsEdgeRows, GsParkRows, GsQueueRows, GsTxns,
      GsClaims, GsPass, gsGraph, GsResolved, GsParked, GsWake, GsEnds
<1>2. ASSUME NEW p \in GsPassers, GsCommit(p) PROVE GsTypeOK'
  <2>1. Tables'
    BY <1>2 DEF Tables, GsTypeOK, GsParkRows, GsTxns, GsCommit, GsOutdated,
      GsQuiet, GsFresh, GsNoRow
  <2>2. gsDegree' \in [GsIds -> Nat]
    BY Zenon, <1>2, RaiseType DEF GsTypeOK, Finite, GsCommit, GsOutdated, GsQuiet,
      GsFresh, GsNoRow
  <2>3. gsQueue' \in [GsIds -> GsQueueRows]
    BY Zenon, <1>2 DEF GsTypeOK, GsQueueRows, GsClaims, GsCommit, GsOutdated, GsQuiet,
      GsFresh, GsNoRow
  <2>4. gsTxn' \in [GsPassers -> GsTxns]
    BY Zenon, <1>2 DEF GsTypeOK, GsTxns, GsCommit, GsOutdated, GsQuiet, GsFresh,
      GsNoRow
  <2>5. gsWork' \in [GsWorkers -> GsClaims]
    <3>1. \A j \in GsWorkers :
            GsOutdated(gsWork[j], gsWork[j].node \in gsTxn[p].wake) \in GsClaims
      BY ZenonT(30) DEF GsOutdated, GsClaims, GsTypeOK
    <3>. QED  BY Zenon, <1>2, <3>1 DEF GsCommit
  <2>6. gsFaults' \in 0..GsFaults
    BY Zenon, <1>2 DEF GsTypeOK, GsCommit, GsOutdated, GsQuiet, GsFresh, GsNoRow
  <2>. QED  BY Zenon, <2>1, <2>2, <2>3, <2>4, <2>5, <2>6, <1>2 DEF GsTypeOK, Tables
<1>3. ASSUME NEW p \in GsPassers, GsRollback(p) PROVE GsTypeOK'
    BY <1>3 DEF GsTypeOK, GsEdgeRows, GsParkRows, GsQueueRows, GsTxns,
      GsClaims, GsRollback, GsQuiet, GsFault, gsGraph
<1>4. ASSUME NEW n \in GsIds, GsDue(n) PROVE GsTypeOK'
  <2>1. Tables'
    BY Zenon, <1>4 DEF Tables, GsTypeOK, GsParkRows, GsDue, gsGraph
  <2>2. gsDegree' \in [GsIds -> Nat]
    BY Zenon, <1>4 DEF GsTypeOK, Finite, GsDue, gsGraph
  <2>3. gsQueue' \in [GsIds -> GsQueueRows]
    BY <1>4 DEF GsTypeOK, GsQueueRows, GsClaims, GsDue, gsGraph
  <2>4. gsTxn' \in [GsPassers -> GsTxns]
    BY Zenon, <1>4 DEF GsTypeOK, GsTxns, GsDue, gsGraph
  <2>5. gsWork' \in [GsWorkers -> GsClaims]
    BY Zenon, <1>4 DEF GsTypeOK, GsClaims, GsQueueRows, GsDue, gsGraph
  <2>6. gsFaults' \in 0..GsFaults
    BY Zenon, <1>4 DEF GsTypeOK, GsDue, gsGraph
  <2>. QED  BY Zenon, <2>1, <2>2, <2>3, <2>4, <2>5, <2>6, <1>4 DEF GsTypeOK, Tables
<1>5. ASSUME NEW n \in GsIds, GsLapse(n) PROVE GsTypeOK'
    BY <1>5 DEF GsTypeOK, GsEdgeRows, GsParkRows, GsQueueRows, GsTxns,
      GsClaims, GsLapse, gsGraph, GsFault
<1>6. ASSUME NEW k \in GsWorkers, NEW n \in GsIds, GsClaim(k, n)
      PROVE  GsTypeOK'
  <2>1. Tables'
    BY Zenon, <1>6 DEF Tables, GsTypeOK, GsParkRows, GsClaim, GsIdle, gsGraph
  <2>2. gsDegree' \in [GsIds -> Nat]
    BY Zenon, <1>6 DEF GsTypeOK, Finite, GsClaim, GsIdle, gsGraph
  <2>3. gsQueue' \in [GsIds -> GsQueueRows]
    BY <1>6 DEF GsTypeOK, GsQueueRows, GsClaims, GsClaim, GsIdle, gsGraph
  <2>4. gsTxn' \in [GsPassers -> GsTxns]
    BY Zenon, <1>6 DEF GsTypeOK, GsTxns, GsClaim, GsIdle, gsGraph
  <2>5. gsWork' \in [GsWorkers -> GsClaims]
    BY ZenonT(30), <1>6 DEF GsTypeOK, GsClaims, GsQueueRows, GsClaim, GsIdle, gsGraph
  <2>6. gsFaults' \in 0..GsFaults
    BY Zenon, <1>6 DEF GsTypeOK, GsClaim, GsIdle, gsGraph
  <2>. QED  BY Zenon, <2>1, <2>2, <2>3, <2>4, <2>5, <2>6, <1>6 DEF GsTypeOK, Tables
<1>7. ASSUME NEW k \in GsWorkers, GsDrain(k) PROVE GsTypeOK'
  <2>1. Tables'
    BY Zenon, <1>7 DEF Tables, GsTypeOK, GsParkRows, GsDrain, GsDraining, GsResolved,
      GsParked, GsEnds, gsGraph
  <2>2. gsDegree' \in [GsIds -> Nat]
    BY Zenon, <1>7 DEF GsTypeOK, Finite, GsDrain, GsDraining, GsResolved, GsParked,
      GsEnds, gsGraph
  <2>3. gsQueue' \in [GsIds -> GsQueueRows]
    BY Zenon, <1>7 DEF GsTypeOK, GsQueueRows, GsClaims, GsDrain, GsDraining,
      GsResolved, GsParked, GsEnds, gsGraph
  <2>4. gsTxn' \in [GsPassers -> GsTxns]
    BY Zenon, <1>7 DEF GsTypeOK, GsTxns, GsDrain, GsDraining, GsResolved, GsParked,
      GsEnds, gsGraph
  <2>5. gsWork' \in [GsWorkers -> GsClaims]
    <3>1. PICK rows \in SUBSET gsPending :
            LET edges == {r.edge : r \in rows} IN
            gsWork' = [gsWork EXCEPT ![k] = GsDraining(@, rows,
              GsResolved(edges, gsNodes), GsParked(edges, gsNodes))]
      BY Zenon, <1>7 DEF GsDrain
    <3>2. rows \in SUBSET GsParkRows /\ gsNodes \in SUBSET GsIds
      BY Zenon DEF GsTypeOK
    <3>3. gsWork[k] \in GsClaims
      BY Zenon DEF GsTypeOK
    <3>. QED  BY Zenon, <3>1, <3>2, <3>3, ClaimEdits, ReParked DEF GsTypeOK
  <2>6. gsFaults' \in 0..GsFaults
    BY Zenon, <1>7 DEF GsTypeOK, GsDrain, GsDraining, GsResolved, GsParked, GsEnds,
      gsGraph
  <2>. QED  BY Zenon, <2>1, <2>2, <2>3, <2>4, <2>5, <2>6, <1>7 DEF GsTypeOK, Tables
<1>8. ASSUME NEW k \in GsWorkers, NEW old \in SUBSET gsPending,
             GsDrained(k, old)
      PROVE  GsTypeOK'
  <2>1. Tables'
    BY <1>8 DEF Tables, GsTypeOK, GsParkRows, GsClaims, GsDrained,
      GsAfterDrain, GsLeftByDrain, GsFault
  <2>2. gsDegree' \in [GsIds -> Nat]
    BY Zenon, <1>8, RaiseType DEF GsTypeOK, Finite, GsDrained, GsAfterDrain,
      GsLeftByDrain, GsFault
  <2>3. gsQueue' \in [GsIds -> GsQueueRows]
    BY Zenon, <1>8 DEF GsTypeOK, GsQueueRows, GsClaims, GsDrained, GsAfterDrain,
      GsLeftByDrain, GsFault
  <2>4. gsTxn' \in [GsPassers -> GsTxns]
    BY Zenon, <1>8 DEF GsTypeOK, GsTxns, GsDrained, GsAfterDrain, GsLeftByDrain,
      GsFault
  <2>5. gsWork' \in [GsWorkers -> GsClaims]
    BY Zenon, <1>8, ClaimEdits DEF GsTypeOK, GsDrained
  <2>6. gsFaults' \in 0..GsFaults
    BY <1>8 DEF GsTypeOK, GsDrained, GsAfterDrain, GsLeftByDrain, GsFault
  <2>. QED  BY Zenon, <2>1, <2>2, <2>3, <2>4, <2>5, <2>6, <1>8 DEF GsTypeOK, Tables
<1>9. ASSUME NEW k \in GsWorkers, GsAnalyze(k) PROVE GsTypeOK'
  <2>1. Tables'
    BY Zenon, <1>9 DEF Tables, GsTypeOK, GsParkRows, GsAnalyze, gsGraph
  <2>2. gsDegree' \in [GsIds -> Nat]
    BY Zenon, <1>9 DEF GsTypeOK, Finite, GsAnalyze, gsGraph
  <2>3. gsQueue' \in [GsIds -> GsQueueRows]
    BY Zenon, <1>9 DEF GsTypeOK, GsQueueRows, GsClaims, GsAnalyze, gsGraph
  <2>4. gsTxn' \in [GsPassers -> GsTxns]
    BY Zenon, <1>9 DEF GsTypeOK, GsTxns, GsAnalyze, gsGraph
  <2>5. gsWork' \in [GsWorkers -> GsClaims]
    BY <1>9 DEF GsTypeOK, GsClaims, GsAnalyze
  <2>6. gsFaults' \in 0..GsFaults
    BY Zenon, <1>9 DEF GsTypeOK, GsAnalyze, gsGraph
  <2>. QED  BY <2>1, <2>2, <2>3, <2>4, <2>5, <2>6, <1>9 DEF GsTypeOK, Tables
<1>10. ASSUME NEW k \in GsWorkers, GsDone(k) PROVE GsTypeOK'
  <2>1. Tables'
    BY Zenon, <1>10 DEF Tables, GsTypeOK, GsParkRows, GsDone, GsOutdated, GsWriteBack,
      GsIdle, GsNoRow, gsGraph
  <2>2. gsDegree' \in [GsIds -> Nat]
    BY Zenon, <1>10 DEF GsTypeOK, Finite, GsDone, GsOutdated, GsWriteBack, GsIdle,
      GsNoRow, gsGraph
  <2>3. gsQueue' \in [GsIds -> GsQueueRows]
    BY Zenon, <1>10 DEF GsTypeOK, GsQueueRows, GsClaims, GsDone, GsOutdated,
      GsWriteBack, GsIdle, GsNoRow, gsGraph
  <2>4. gsTxn' \in [GsPassers -> GsTxns]
    BY Zenon, <1>10 DEF GsTypeOK, GsTxns, GsDone, GsOutdated, GsWriteBack, GsIdle,
      GsNoRow, gsGraph
  <2>5. gsWork' \in [GsWorkers -> GsClaims]
    BY Zenon, <1>10, ClaimEdits, IdleType DEF GsTypeOK, GsDone
  <2>6. gsFaults' \in 0..GsFaults
    BY Zenon, <1>10 DEF GsTypeOK, GsDone, GsOutdated, GsWriteBack, GsIdle, GsNoRow,
      gsGraph
  <2>. QED  BY <2>1, <2>2, <2>3, <2>4, <2>5, <2>6, <1>10 DEF GsTypeOK, Tables
<1>11. ASSUME NEW k \in GsWorkers, GsDrainFails(k) PROVE GsTypeOK'
  <2>1. Tables'
    BY Zenon, <1>11 DEF Tables, GsTypeOK, GsParkRows, GsDrainFails, GsAfterDrain,
      GsFault, gsGraph
  <2>2. gsDegree' \in [GsIds -> Nat]
    BY Zenon, <1>11 DEF GsTypeOK, Finite, GsDrainFails, GsAfterDrain, GsFault, gsGraph
  <2>3. gsQueue' \in [GsIds -> GsQueueRows]
    BY Zenon, <1>11 DEF GsTypeOK, GsQueueRows, GsClaims, GsDrainFails, GsAfterDrain,
      GsFault, gsGraph
  <2>4. gsTxn' \in [GsPassers -> GsTxns]
    BY Zenon, <1>11 DEF GsTypeOK, GsTxns, GsDrainFails, GsAfterDrain, GsFault, gsGraph
  <2>5. gsWork' \in [GsWorkers -> GsClaims]
    BY Zenon, <1>11, ClaimEdits DEF GsTypeOK, GsDrainFails
  <2>6. gsFaults' \in 0..GsFaults
    BY <1>11 DEF GsTypeOK, GsDrainFails, GsAfterDrain, GsFault, gsGraph
  <2>. QED  BY <2>1, <2>2, <2>3, <2>4, <2>5, <2>6, <1>11 DEF GsTypeOK, Tables
<1>12. ASSUME NEW k \in GsWorkers, GsFail(k) PROVE GsTypeOK'
    BY <1>12 DEF GsTypeOK, GsEdgeRows, GsParkRows, GsQueueRows, GsTxns,
      GsClaims, GsFail, GsFault, GsWriteBack, GsIdle, gsGraph
<1>13. ASSUME NEW k \in GsWorkers, GsCrash(k) PROVE GsTypeOK'
    BY SMTT(30), <1>13 DEF GsTypeOK, GsEdgeRows, GsParkRows, GsQueueRows, GsTxns,
      GsClaims, GsCrash, GsFault, GsIdle, gsGraph
<1>14. ASSUME NEW k \in GsWorkers, NEW called \in BOOLEAN, GsDefer(k, called)
      PROVE  GsTypeOK'
    BY <1>14 DEF GsTypeOK, GsEdgeRows, GsParkRows, GsQueueRows, GsTxns,
      GsClaims, GsDefer, GsFault, GsWriteBack, GsIdle, gsGraph
<1>15. CASE UNCHANGED gsVars
    BY Zenon, <1>15 DEF gsVars, GsTypeOK, GsEdgeRows, GsParkRows, GsQueueRows, GsTxns,
      GsClaims
<1>. QED
  BY Zenon, <1>1, <1>2, <1>3, <1>4, <1>5, <1>6, <1>7, <1>8, <1>9, <1>10, <1>11, <1>12,
    <1>13, <1>14, <1>15 DEF GsNext, GsWorkStep

\* The fields of an edited claim.
LEMMA ClaimFields ==
  ASSUME NEW w \in GsClaims
  PROVE  /\ \A gone : LET o == GsOutdated(w, gone) IN
              /\ o.at = w.at /\ o.node = w.node
              /\ o.current => w.current /\ ~gone
              /\ o.rows = w.rows /\ o.write = w.write /\ o.park = w.park
         /\ LET o == GsAfterDrain(w) IN
              /\ o.at = "analyze" /\ o.node = w.node /\ o.current = w.current
              /\ o.rows = {} /\ o.write = {} /\ o.park = {}
         /\ \A rows, write, park : LET o == GsDraining(w, rows, write, park) IN
              /\ o.at = "commit" /\ o.node = w.node /\ o.current = w.current
              /\ o.rows = rows /\ o.write = write /\ o.park = park
  BY Zenon DEF GsClaims, GsOutdated, GsAfterDrain, GsDraining

\* Every step keeps what the queue owes a changed node.
LEMMA QueueStep ==
  /\ GsTypeOK /\ GsTypeOK' /\ [GsNext]_gsVars
  /\ Woken /\ Judged /\ ChangedNodeIsQueued
  => Woken' /\ Judged' /\ ChangedNodeIsQueued'
<1>. SUFFICES ASSUME GsTypeOK, GsTypeOK', [GsNext]_gsVars,
                     Woken, Judged, ChangedNodeIsQueued
              PROVE  Woken' /\ Judged' /\ ChangedNodeIsQueued'
  BY Zenon
<1>0. \A j \in GsWorkers : gsWork[j] \in GsClaims
  BY Zenon DEF GsTypeOK
<1>1. ASSUME NEW p \in GsPassers, NEW i \in GsInputs,
             NEW altered \in {{}, i.nodes}, GsPass(p, i.nodes, i.edges, altered)
      PROVE  Woken' /\ Judged' /\ ChangedNodeIsQueued'
    BY Zenon, <1>1 DEF GsTypeOK, Woken, Judged, ChangedNodeIsQueued, GsTxns, GsClaims,
      GsQueueRows, GsPass, gsGraph, GsResolved, GsParked, GsWake, GsEnds
<1>2. ASSUME NEW p \in GsPassers, GsCommit(p)
      PROVE  Woken' /\ Judged' /\ ChangedNodeIsQueued'
  <2>1. Woken'
    BY Zenon, <1>2 DEF Woken, GsCommit, GsQuiet, GsTypeOK
  <2>2. ASSUME NEW j \in GsWorkers PROVE
          /\ gsWork'[j].at = gsWork[j].at /\ gsWork'[j].node = gsWork[j].node
          /\ gsWork'[j].current =>
               gsWork[j].current /\ gsWork[j].node \notin gsTxn[p].wake
    BY Zenon, <1>0, <1>2 DEF GsCommit, GsOutdated, GsClaims
  <2>4. Judged'
    BY ZenonT(30), <1>2, <2>2 DEF Judged, Woken, GsCommit
  <2>3. ChangedNodeIsQueued'
    BY Zenon, <1>2 DEF ChangedNodeIsQueued, Woken, GsCommit, GsFresh, GsNoRow,
      GsTypeOK
  <2>. QED  BY Zenon, <2>1, <2>3, <2>4
<1>3. ASSUME NEW p \in GsPassers, GsRollback(p)
      PROVE  Woken' /\ Judged' /\ ChangedNodeIsQueued'
    BY Zenon, <1>3 DEF GsTypeOK, Woken, Judged, ChangedNodeIsQueued, GsTxns, GsClaims,
      GsQueueRows, GsRollback, GsQuiet, GsFault, gsGraph
<1>4. ASSUME NEW n \in GsIds, GsDue(n)
      PROVE  Woken' /\ Judged' /\ ChangedNodeIsQueued'
    BY <1>4 DEF GsTypeOK, Woken, Judged, ChangedNodeIsQueued, GsTxns, GsClaims,
      GsQueueRows, GsDue, gsGraph
<1>5. ASSUME NEW n \in GsIds, GsLapse(n)
      PROVE  Woken' /\ Judged' /\ ChangedNodeIsQueued'
    BY <1>5 DEF GsTypeOK, Woken, Judged, ChangedNodeIsQueued, GsTxns, GsClaims,
      GsQueueRows, GsLapse, gsGraph, GsFault
<1>6. ASSUME NEW k \in GsWorkers, NEW n \in GsIds, GsClaim(k, n)
      PROVE  Woken' /\ Judged' /\ ChangedNodeIsQueued'
  <2>1. Woken'
    BY Zenon, <1>6 DEF Woken, GsClaim
  <2>2. Judged'
    BY Zenon, <1>6 DEF Judged, GsClaim, GsIdle, GsTypeOK
  <2>3. ChangedNodeIsQueued'
    BY <1>6 DEF ChangedNodeIsQueued, GsClaim, GsTypeOK, GsQueueRows
  <2>. QED  BY Zenon, <2>1, <2>2, <2>3
<1>7. ASSUME NEW k \in GsWorkers, GsDrain(k)
      PROVE  Woken' /\ Judged' /\ ChangedNodeIsQueued'
  <2>1. Woken' /\ ChangedNodeIsQueued'
    BY Zenon, <1>7 DEF Woken, ChangedNodeIsQueued, GsDrain
  <2>2. Judged'
    BY <1>0, <1>7, ClaimFields DEF Judged, GsDrain, GsTypeOK
  <2>. QED  BY Zenon, <2>1, <2>2
<1>8. ASSUME NEW k \in GsWorkers, NEW old \in SUBSET gsPending,
             GsDrained(k, old)
      PROVE  Woken' /\ Judged' /\ ChangedNodeIsQueued'
    BY <1>8 DEF GsTypeOK, Woken, Judged, ChangedNodeIsQueued, GsTxns, GsClaims,
      GsQueueRows, GsDrained, GsAfterDrain, GsLeftByDrain, GsFault
<1>9. ASSUME NEW k \in GsWorkers, GsAnalyze(k)
      PROVE  Woken' /\ Judged' /\ ChangedNodeIsQueued'
    BY <1>9 DEF GsTypeOK, Woken, Judged, ChangedNodeIsQueued, GsTxns, GsClaims,
      GsQueueRows, GsAnalyze, gsGraph
<1>10. ASSUME NEW k \in GsWorkers, GsDone(k)
      PROVE  Woken' /\ Judged' /\ ChangedNodeIsQueued'
  <2>1. Woken'
    BY Zenon, <1>10 DEF Woken, GsDone
  <2>4. ASSUME NEW j \in GsWorkers, j # k PROVE
          /\ gsWork'[j].at = gsWork[j].at /\ gsWork'[j].node = gsWork[j].node
          /\ gsWork'[j].current => gsWork[j].current
    BY Zenon, <1>0, <1>10, <2>4 DEF GsDone, GsOutdated, GsClaims
  <2>5. gsWork'[k].at = "idle"
    BY Zenon, <1>10 DEF GsDone, GsIdle
  <2>2. Judged'
    BY ZenonT(30), <1>10, <2>4, <2>5 DEF Judged, GsDone
  <2>3. ChangedNodeIsQueued'
    BY Zenon, <1>10 DEF ChangedNodeIsQueued, Judged, GsDone, GsWriteBack, GsTypeOK
  <2>. QED  BY Zenon, <2>1, <2>2, <2>3
<1>11. ASSUME NEW k \in GsWorkers, GsDrainFails(k)
      PROVE  Woken' /\ Judged' /\ ChangedNodeIsQueued'
    BY <1>11 DEF GsTypeOK, Woken, Judged, ChangedNodeIsQueued, GsTxns,
      GsClaims, GsQueueRows, GsDrainFails, GsAfterDrain, GsFault, gsGraph
<1>12. ASSUME NEW k \in GsWorkers, GsFail(k)
      PROVE  Woken' /\ Judged' /\ ChangedNodeIsQueued'
    BY <1>12 DEF GsTypeOK, Woken, Judged, ChangedNodeIsQueued, GsTxns,
      GsClaims, GsQueueRows, GsFail, GsFault, GsWriteBack, GsIdle, gsGraph
<1>13. ASSUME NEW k \in GsWorkers, GsCrash(k)
      PROVE  Woken' /\ Judged' /\ ChangedNodeIsQueued'
    BY Zenon, <1>13 DEF GsTypeOK, Woken, Judged, ChangedNodeIsQueued, GsTxns,
      GsClaims, GsQueueRows, GsCrash, GsFault, GsIdle, gsGraph
<1>14. ASSUME NEW k \in GsWorkers, NEW called \in BOOLEAN, GsDefer(k, called)
      PROVE  Woken' /\ Judged' /\ ChangedNodeIsQueued'
    BY <1>14 DEF GsTypeOK, Woken, Judged, ChangedNodeIsQueued, GsTxns,
      GsClaims, GsQueueRows, GsDefer, GsFault, GsWriteBack, GsIdle, gsGraph
<1>15. CASE UNCHANGED gsVars
    BY Zenon, <1>15 DEF gsVars, GsTypeOK, Woken, Judged, ChangedNodeIsQueued, GsTxns,
      GsClaims, GsQueueRows
<1>. QED
  BY Zenon, <1>1, <1>2, <1>3, <1>4, <1>5, <1>6, <1>7, <1>8, <1>9, <1>10, <1>11, <1>12,
    <1>13, <1>14, <1>15 DEF GsNext, GsWorkStep

\* An edge is resolved, or parked on an end that is not known.
LEMMA Settled ==
  ASSUME NEW edges, NEW known
  PROVE  /\ edges \subseteq GsResolved(edges, known)
                     \cup {r.edge : r \in GsParked(edges, known)}
         /\ \A r \in GsParked(edges, known) :
              r.edge \in edges /\ r.miss \in GsEnds(r.edge)
<1>1. ASSUME NEW e \in edges, e \notin GsResolved(edges, known)
      PROVE  \E r \in GsParked(edges, known) : r.edge = e
  <2>. DEFINE row == [edge |-> e,
                      miss |-> IF e[1] \notin known THEN e[1] ELSE e[2]]
  <2>1. row \in GsParked(edges, known)
    BY Zenon, <1>1 DEF GsParked
  <2>2. row.edge = e
    BY Zenon
  <2>. QED  BY Zenon, <2>1, <2>2
<1>2. \A r \in GsParked(edges, known) :
        r.edge \in edges /\ r.miss \in GsEnds(r.edge)
  BY SMTT(30) DEF GsParked, GsEnds
<1>. QED  BY Zenon, <1>1, <1>2

\* Every step keeps an asserted edge written, parked or carried.
LEMMA EdgeStep ==
  GsTypeOK /\ Carried /\ OnAnEnd /\ AssertedEdgeIsKept /\ [GsNext]_gsVars
    => Carried' /\ OnAnEnd' /\ AssertedEdgeIsKept'
<1>. SUFFICES ASSUME GsTypeOK, [GsNext]_gsVars,
                     Carried, OnAnEnd, AssertedEdgeIsKept
              PROVE  Carried' /\ OnAnEnd' /\ AssertedEdgeIsKept'
  BY Zenon
<1>0. \A j \in GsWorkers : gsWork[j] \in GsClaims
  BY Zenon DEF GsTypeOK
<1>1. ASSUME NEW p \in GsPassers, NEW i \in GsInputs,
             NEW altered \in {{}, i.nodes}, GsPass(p, i.nodes, i.edges, altered)
      PROVE  Carried' /\ OnAnEnd' /\ AssertedEdgeIsKept'
  <2>1. Carried' /\ AssertedEdgeIsKept'
    BY Zenon, <1>1 DEF Carried, AssertedEdgeIsKept, GsPass, gsGraph
  <2>2. OnAnEnd'
    BY <1>1, Settled DEF OnAnEnd, GsPass, GsTypeOK
  <2>. QED  BY Zenon, <2>1, <2>2
<1>2. ASSUME NEW p \in GsPassers, GsCommit(p)
      PROVE  Carried' /\ OnAnEnd' /\ AssertedEdgeIsKept'
  <2>1. \A j \in GsWorkers : /\ gsWork'[j].rows = gsWork[j].rows
                             /\ gsWork'[j].write = gsWork[j].write
                             /\ gsWork'[j].park = gsWork[j].park
    BY Zenon, <1>0, <1>2 DEF GsCommit, GsOutdated, GsClaims
  <2>2. Carried'
    BY Zenon, <2>1 DEF Carried
  <2>3. OnAnEnd'
    BY Zenon, <1>2, <2>1 DEF OnAnEnd, GsCommit, GsQuiet, GsTypeOK
  <2>4. AssertedEdgeIsKept'
    BY SMTT(30), <1>2 DEF AssertedEdgeIsKept, OnAnEnd, GsCommit
  <2>. QED  BY Zenon, <2>2, <2>3, <2>4
<1>3. ASSUME NEW p \in GsPassers, GsRollback(p)
      PROVE  Carried' /\ OnAnEnd' /\ AssertedEdgeIsKept'
    BY Zenon, <1>3 DEF GsTypeOK, Carried, OnAnEnd, AssertedEdgeIsKept, GsRollback,
      GsQuiet, GsFault, gsGraph
<1>4. ASSUME NEW n \in GsIds, GsDue(n)
      PROVE  Carried' /\ OnAnEnd' /\ AssertedEdgeIsKept'
    BY Zenon, <1>4 DEF GsTypeOK, Carried, OnAnEnd, AssertedEdgeIsKept, GsDue, gsGraph
<1>5. ASSUME NEW n \in GsIds, GsLapse(n)
      PROVE  Carried' /\ OnAnEnd' /\ AssertedEdgeIsKept'
    BY Zenon, <1>5 DEF GsTypeOK, Carried, OnAnEnd, AssertedEdgeIsKept, GsLapse,
      gsGraph, GsFault
<1>6. ASSUME NEW k \in GsWorkers, NEW n \in GsIds, GsClaim(k, n)
      PROVE  Carried' /\ OnAnEnd' /\ AssertedEdgeIsKept'
  <2>1. /\ gsWork'[k].rows = {} /\ gsWork'[k].park = {}
        /\ \A j \in GsWorkers : j # k => gsWork'[j] = gsWork[j]
    BY Zenon, <1>6 DEF GsClaim, GsIdle, GsTypeOK
  <2>2. Carried' /\ OnAnEnd'
    BY Zenon, <1>6, <2>1 DEF Carried, OnAnEnd, GsClaim
  <2>3. AssertedEdgeIsKept'
    BY Zenon, <1>6 DEF AssertedEdgeIsKept, GsClaim, gsGraph
  <2>. QED  BY Zenon, <2>2, <2>3
<1>7. ASSUME NEW k \in GsWorkers, GsDrain(k)
      PROVE  Carried' /\ OnAnEnd' /\ AssertedEdgeIsKept'
  <2>1. AssertedEdgeIsKept'
    BY Zenon, <1>7 DEF AssertedEdgeIsKept, GsDrain, gsGraph
  <2>2. PICK rows \in SUBSET gsPending :
          LET edges == {r.edge : r \in rows} IN
          gsWork' = [gsWork EXCEPT ![k] = GsDraining(@, rows,
            GsResolved(edges, gsNodes), GsParked(edges, gsNodes))]
    BY Zenon, <1>7 DEF GsDrain
  <2>3. /\ gsWork'[k].rows = rows
        /\ gsWork'[k].write = GsResolved({r.edge : r \in rows}, gsNodes)
        /\ gsWork'[k].park = GsParked({r.edge : r \in rows}, gsNodes)
    BY <1>0, <2>2, ClaimFields DEF GsTypeOK
  <2>4. \A j \in GsWorkers : j # k => gsWork'[j] = gsWork[j]
    BY Zenon, <2>2 DEF GsTypeOK
  <2>5. Carried'
    BY <2>3, <2>4, Settled DEF Carried
  <2>6. OnAnEnd'
    <3>1. gsTxn' = gsTxn
      BY Zenon, <1>7 DEF GsDrain
    <3>2. \A r \in gsWork'[k].park : r.miss \in GsEnds(r.edge)
      BY <2>3, Settled
    <3>. QED  BY Zenon, <2>4, <3>1, <3>2 DEF OnAnEnd
  <2>. QED  BY Zenon, <2>1, <2>5, <2>6
<1>8. ASSUME NEW k \in GsWorkers, NEW old \in SUBSET gsPending,
             GsDrained(k, old)
      PROVE  Carried' /\ OnAnEnd' /\ AssertedEdgeIsKept'
  <2>0. gsWork' = [gsWork EXCEPT ![k] = GsAfterDrain(@)]
    BY Zenon, <1>8 DEF GsDrained
  <2>1. /\ gsWork'[k].rows = {} /\ gsWork'[k].park = {}
        /\ \A j \in GsWorkers : j # k => gsWork'[j] = gsWork[j]
    BY <1>0, <2>0, ClaimFields DEF GsTypeOK
  <2>2. Carried'
    BY Zenon, <2>1 DEF Carried
  <2>3. OnAnEnd'
    BY Zenon, <1>8, <2>1 DEF OnAnEnd, GsDrained
  <2>4. AssertedEdgeIsKept'
    BY <1>8 DEF AssertedEdgeIsKept, Carried, OnAnEnd, GsDrained, GsLeftByDrain
  <2>. QED  BY Zenon, <2>2, <2>3, <2>4
<1>9. ASSUME NEW k \in GsWorkers, GsAnalyze(k)
      PROVE  Carried' /\ OnAnEnd' /\ AssertedEdgeIsKept'
  <2>1. \A j \in GsWorkers : /\ gsWork'[j].rows = gsWork[j].rows
                             /\ gsWork'[j].write = gsWork[j].write
                             /\ gsWork'[j].park = gsWork[j].park
    BY Zenon, <1>0, <1>9 DEF GsAnalyze, GsClaims, GsTypeOK
  <2>2. Carried' /\ OnAnEnd'
    BY Zenon, <1>9, <2>1 DEF Carried, OnAnEnd, GsAnalyze
  <2>3. AssertedEdgeIsKept'
    BY Zenon, <1>9 DEF AssertedEdgeIsKept, GsAnalyze, gsGraph
  <2>. QED  BY Zenon, <2>2, <2>3
<1>10. ASSUME NEW k \in GsWorkers, GsDone(k)
      PROVE  Carried' /\ OnAnEnd' /\ AssertedEdgeIsKept'
  <2>1. \A j \in GsWorkers : j # k => /\ gsWork'[j].rows = gsWork[j].rows
                                      /\ gsWork'[j].write = gsWork[j].write
                                      /\ gsWork'[j].park = gsWork[j].park
    BY Zenon, <1>0, <1>10 DEF GsDone, GsOutdated, GsClaims
  <2>2. gsWork'[k].rows = {} /\ gsWork'[k].park = {}
    BY Zenon, <1>10 DEF GsDone, GsIdle
  <2>3. Carried' /\ OnAnEnd'
    BY Zenon, <1>10, <2>1, <2>2 DEF Carried, OnAnEnd, GsDone
  <2>4. AssertedEdgeIsKept'
    BY Zenon, <1>10 DEF AssertedEdgeIsKept, GsDone, gsGraph
  <2>. QED  BY <2>3, <2>4
<1>11. ASSUME NEW k \in GsWorkers, GsDrainFails(k)
      PROVE  Carried' /\ OnAnEnd' /\ AssertedEdgeIsKept'
  <2>1. /\ gsWork'[k].rows = {} /\ gsWork'[k].park = {}
        /\ \A j \in GsWorkers : j # k => gsWork'[j] = gsWork[j]
    BY <1>0, <1>11, ClaimFields DEF GsDrainFails, GsTypeOK
  <2>2. Carried' /\ OnAnEnd'
    BY Zenon, <1>11, <2>1 DEF Carried, OnAnEnd, GsDrainFails
  <2>3. AssertedEdgeIsKept'
    BY Zenon, <1>11 DEF AssertedEdgeIsKept, GsDrainFails, gsGraph
  <2>. QED  BY <2>2, <2>3
<1>12. ASSUME NEW k \in GsWorkers, GsFail(k)
      PROVE  Carried' /\ OnAnEnd' /\ AssertedEdgeIsKept'
  <2>1. /\ gsWork'[k].rows = {} /\ gsWork'[k].park = {}
        /\ \A j \in GsWorkers : j # k => gsWork'[j] = gsWork[j]
    BY Zenon, <1>12 DEF GsFail, GsIdle, GsTypeOK
  <2>2. Carried' /\ OnAnEnd'
    BY Zenon, <1>12, <2>1 DEF Carried, OnAnEnd, GsFail
  <2>3. AssertedEdgeIsKept'
    BY Zenon, <1>12 DEF AssertedEdgeIsKept, GsFail, gsGraph
  <2>. QED  BY <2>2, <2>3
<1>13. ASSUME NEW k \in GsWorkers, GsCrash(k)
      PROVE  Carried' /\ OnAnEnd' /\ AssertedEdgeIsKept'
  <2>1. /\ gsWork'[k].rows = {} /\ gsWork'[k].park = {}
        /\ \A j \in GsWorkers : j # k => gsWork'[j] = gsWork[j]
    BY Zenon, <1>13 DEF GsCrash, GsIdle, GsTypeOK
  <2>2. Carried' /\ OnAnEnd'
    BY Zenon, <1>13, <2>1 DEF Carried, OnAnEnd, GsCrash
  <2>3. AssertedEdgeIsKept'
    BY Zenon, <1>13 DEF AssertedEdgeIsKept, GsCrash, gsGraph
  <2>. QED  BY <2>2, <2>3
<1>14. ASSUME NEW k \in GsWorkers, NEW called \in BOOLEAN, GsDefer(k, called)
      PROVE  Carried' /\ OnAnEnd' /\ AssertedEdgeIsKept'
  <2>1. /\ gsWork'[k].rows = {} /\ gsWork'[k].park = {}
        /\ \A j \in GsWorkers : j # k => gsWork'[j] = gsWork[j]
    BY Zenon, <1>14 DEF GsDefer, GsIdle, GsTypeOK
  <2>2. Carried' /\ OnAnEnd'
    BY Zenon, <1>14, <2>1 DEF Carried, OnAnEnd, GsDefer
  <2>3. AssertedEdgeIsKept'
    BY Zenon, <1>14 DEF AssertedEdgeIsKept, GsDefer, gsGraph
  <2>. QED  BY Zenon, <2>2, <2>3
<1>15. CASE UNCHANGED gsVars
    BY Zenon, <1>15 DEF gsVars, GsTypeOK, Carried, OnAnEnd, AssertedEdgeIsKept
<1>. QED
  BY ZenonT(30), <1>1, <1>2, <1>3, <1>4, <1>5, <1>6, <1>7, <1>8, <1>9, <1>10, <1>11, <1>12,
    <1>13, <1>14, <1>15 DEF GsNext, GsWorkStep

\* Finitely many parked rows name finitely many edges.
LEMMA EdgesFinite ==
  ASSUME NEW rows, IsFiniteSet(rows)
  PROVE  IsFiniteSet({r.edge : r \in rows})
<1>. DEFINE f == [r \in rows |-> r.edge]
            image == {r.edge : r \in rows}
<1>1. f \in Surjection(rows, image)
  BY Zenon DEF Surjection
<1>. QED  BY Zenon, <1>1, FS_Surjection

\* What resolves and what is parked of finitely many edges is finite.
LEMMA ParkedFinite ==
  ASSUME NEW edges, NEW known, IsFiniteSet(edges)
  PROVE  /\ IsFiniteSet(GsResolved(edges, known))
         /\ IsFiniteSet(GsParked(edges, known))
<1>1. IsFiniteSet(GsResolved(edges, known))
  BY Zenon, FS_Subset DEF GsResolved
<1>. DEFINE rest == edges \ GsResolved(edges, known)
            f == [e \in rest |->
                    [edge |-> e,
                     miss |-> IF e[1] \notin known THEN e[1] ELSE e[2]]]
<1>2. IsFiniteSet(rest)
  BY Zenon, FS_Subset
<1>3. f \in Surjection(rest, GsParked(edges, known))
  BY Zenon DEF Surjection, GsParked
<1>4. IsFiniteSet(GsParked(edges, known))
  BY Zenon, <1>2, <1>3, FS_Surjection
<1>. QED  BY Zenon, <1>1, <1>4

\* The degree counts once what a pass or a drain adds.
LEMMA RaiseCounts ==
  ASSUME NEW write, IsFiniteSet(write), IsFiniteSet(gsEdges), DegreeIsExact
  PROVE  \A n \in GsIds : GsRaise(write)[n] = GsEndsAt(gsEdges \cup write, n)
<1>. TAKE n \in GsIds
<1>. DEFINE at(E, i) == {e \in E : e[i] = n}
            new == write \ gsEdges
<1>1. ASSUME NEW i \in {1, 2}
      PROVE  /\ Cardinality(at(gsEdges \cup write, i)) =
                  Cardinality(at(gsEdges, i)) + Cardinality(at(new, i))
             /\ Cardinality(at(gsEdges, i)) \in Nat
             /\ Cardinality(at(new, i)) \in Nat
  <2>1. IsFiniteSet(at(gsEdges, i)) /\ IsFiniteSet(at(new, i))
    BY Zenon, FS_Subset
  <2>2. /\ at(gsEdges \cup write, i) = at(gsEdges, i) \cup at(new, i)
        /\ at(gsEdges, i) \cap at(new, i) = {}
    BY Zenon
  <2>3. Cardinality(at(gsEdges, i) \cup at(new, i)) =
          Cardinality(at(gsEdges, i)) + Cardinality(at(new, i))
            - Cardinality({})
    BY <2>1, <2>2, FS_Union
  <2>4. Cardinality(at(gsEdges, i)) \in Nat /\ Cardinality(at(new, i)) \in Nat
    BY Zenon, <2>1, FS_CardinalityType
  <2>5. Cardinality({}) = 0
    BY Zenon, FS_EmptySet
  <2>6. Cardinality(at(gsEdges \cup write, i)) =
          Cardinality(at(gsEdges, i)) + Cardinality(at(new, i)) - 0
    BY Zenon, <2>2, <2>3, <2>5
  <2>. HIDE DEF at, new
  <2>. QED  BY <2>4, <2>6
<1>2. gsDegree[n] = GsEndsAt(gsEdges, n)
  BY Zenon DEF DegreeIsExact
<1>3. GsRaise(write)[n] = gsDegree[n] + GsEndsAt(new, n)
  BY Zenon DEF GsRaise
<1>4. \A E : GsEndsAt(E, n) = Cardinality(at(E, 1)) + Cardinality(at(E, 2))
  BY Zenon DEF GsEndsAt
<1>. HIDE DEF at, new
<1>. QED  BY <1>1, <1>2, <1>3, <1>4

\* Every step keeps the counters equal to the edges counted.
LEMMA DegreeStep ==
  GsTypeOK /\ Finite /\ DegreeIsExact /\ [GsNext]_gsVars
    => Finite' /\ DegreeIsExact'
<1>. SUFFICES ASSUME GsTypeOK, Finite, DegreeIsExact, [GsNext]_gsVars
              PROVE  Finite' /\ DegreeIsExact'
  BY Zenon
<1>0. \A j \in GsWorkers : gsWork[j] \in GsClaims
  BY Zenon DEF GsTypeOK
<1>a. IsFiniteSet({})
  BY Zenon, FS_EmptySet
<1>1. ASSUME NEW p \in GsPassers, NEW i \in GsInputs,
             NEW altered \in {{}, i.nodes}, GsPass(p, i.nodes, i.edges, altered)
      PROVE  Finite' /\ DegreeIsExact'
  <2>. DEFINE known == gsNodes \cup i.nodes
  <2>1. /\ IsFiniteSet(GsResolved(i.edges, known))
        /\ IsFiniteSet(GsParked(i.edges, known))
    BY Zenon, GsAssumption, ParkedFinite
  <2>2. /\ gsTxn'[p].write = GsResolved(i.edges, known)
        /\ gsTxn'[p].park = GsParked(i.edges, known)
        /\ \A q \in GsPassers : q # p => gsTxn'[q] = gsTxn[q]
    BY Zenon, <1>1 DEF GsPass, GsTypeOK
  <2>. HIDE DEF known
  <2>. QED  BY Zenon, <1>1, <2>1, <2>2 DEF Finite, DegreeIsExact, GsPass, gsGraph
<1>2. ASSUME NEW p \in GsPassers, GsCommit(p) PROVE Finite' /\ DegreeIsExact'
  <2>1. \A j \in GsWorkers : /\ gsWork'[j].write = gsWork[j].write
                             /\ gsWork'[j].park = gsWork[j].park
    BY Zenon, <1>0, <1>2 DEF GsCommit, GsOutdated, GsClaims
  <2>2. /\ gsTxn'[p].write = {} /\ gsTxn'[p].park = {}
        /\ \A q \in GsPassers : q # p => gsTxn'[q] = gsTxn[q]
    BY Zenon, <1>2 DEF GsCommit, GsQuiet, GsTypeOK
  <2>3. IsFiniteSet(gsEdges') /\ IsFiniteSet(gsPending')
    BY Zenon, <1>2, FS_Union DEF GsCommit, Finite
  <2>4. Finite'
    BY Zenon, <1>a, <2>1, <2>2, <2>3 DEF Finite
  <2>5. DegreeIsExact'
    BY Zenon, <1>2, RaiseCounts DEF DegreeIsExact, GsCommit, Finite
  <2>. QED  BY Zenon, <2>4, <2>5
<1>3. ASSUME NEW p \in GsPassers, GsRollback(p) PROVE Finite' /\ DegreeIsExact'
  BY Zenon, <1>a, <1>3 DEF Finite, DegreeIsExact, GsTypeOK, GsRollback, gsGraph,
    GsQuiet
<1>4. ASSUME NEW n \in GsIds, GsDue(n) PROVE Finite' /\ DegreeIsExact'
  BY Zenon, <1>a, <1>4 DEF Finite, DegreeIsExact, GsTypeOK, GsDue, gsGraph, GsQuiet
<1>5. ASSUME NEW n \in GsIds, GsLapse(n) PROVE Finite' /\ DegreeIsExact'
  BY Zenon, <1>a, <1>5 DEF Finite, DegreeIsExact, GsTypeOK, GsLapse, gsGraph, GsQuiet
<1>6. ASSUME NEW k \in GsWorkers, NEW n \in GsIds, GsClaim(k, n)
      PROVE  Finite' /\ DegreeIsExact'
  <2>1. /\ gsWork'[k].write = {} /\ gsWork'[k].park = {}
        /\ \A j \in GsWorkers : j # k => gsWork'[j] = gsWork[j]
    BY Zenon, <1>6 DEF GsClaim, GsIdle, GsTypeOK
  <2>. QED  BY Zenon, <1>6, <1>a, <2>1 DEF Finite, DegreeIsExact, GsClaim, gsGraph
<1>7. ASSUME NEW k \in GsWorkers, GsDrain(k) PROVE Finite' /\ DegreeIsExact'
  <2>1. DegreeIsExact'
    BY Zenon, <1>7 DEF DegreeIsExact, GsDrain, gsGraph
  <2>2. PICK rows \in SUBSET gsPending :
          LET edges == {r.edge : r \in rows} IN
          gsWork' = [gsWork EXCEPT ![k] = GsDraining(@, rows,
            GsResolved(edges, gsNodes), GsParked(edges, gsNodes))]
    BY Zenon, <1>7 DEF GsDrain
  <2>3. /\ gsWork'[k].write = GsResolved({r.edge : r \in rows}, gsNodes)
        /\ gsWork'[k].park = GsParked({r.edge : r \in rows}, gsNodes)
    BY SMTT(60), <1>0, <2>2, ClaimFields DEF GsTypeOK
  <2>7. \A j \in GsWorkers : j # k => gsWork'[j] = gsWork[j]
    BY Zenon, <2>2 DEF GsTypeOK
  <2>4. IsFiniteSet({r.edge : r \in rows})
    BY Zenon, FS_Subset, EdgesFinite DEF Finite
  <2>5. IsFiniteSet(gsWork'[k].write) /\ IsFiniteSet(gsWork'[k].park)
    BY Zenon, <2>3, <2>4, ParkedFinite
  <2>6. Finite'
    BY Zenon, <1>7, <2>5, <2>7 DEF Finite, GsDrain, gsGraph
  <2>. QED  BY Zenon, <2>1, <2>6
<1>8. ASSUME NEW k \in GsWorkers, NEW old \in SUBSET gsPending,
             GsDrained(k, old)
      PROVE  Finite' /\ DegreeIsExact'
  <2>0. gsWork' = [gsWork EXCEPT ![k] = GsAfterDrain(@)]
    BY Zenon, <1>8 DEF GsDrained
  <2>1. /\ gsWork'[k].write = {} /\ gsWork'[k].park = {}
        /\ \A j \in GsWorkers : j # k => gsWork'[j] = gsWork[j]
    BY SMTT(30), <1>0, <2>0, ClaimFields DEF GsTypeOK
  <2>2. IsFiniteSet(gsEdges')
    BY Zenon, <1>8, FS_Union DEF GsDrained, Finite
  <2>3. IsFiniteSet(gsPending')
    <3>. DEFINE left == (gsPending \ gsWork[k].rows) \ (old \ GsHeld)
    <3>1. IsFiniteSet(left)
      BY Zenon, FS_Subset DEF Finite
    <3>2. gsPending' = left \cup gsWork[k].park
      BY Zenon, <1>8 DEF GsDrained, GsLeftByDrain
    <3>. HIDE DEF left
    <3>. QED  BY Zenon, <3>1, <3>2, FS_Union DEF Finite
  <2>4. Finite'
    BY Zenon, <1>8, <1>a, <2>1, <2>2, <2>3 DEF Finite, GsDrained
  <2>5. DegreeIsExact'
    BY Zenon, <1>8, RaiseCounts DEF DegreeIsExact, GsDrained, Finite
  <2>. QED  BY Zenon, <2>4, <2>5
<1>9. ASSUME NEW k \in GsWorkers, GsAnalyze(k) PROVE Finite' /\ DegreeIsExact'
  <2>1. \A j \in GsWorkers : /\ gsWork'[j].write = gsWork[j].write
                             /\ gsWork'[j].park = gsWork[j].park
    BY Zenon, <1>0, <1>9 DEF GsAnalyze, GsClaims, GsTypeOK
  <2>. QED  BY Zenon, <1>9, <2>1 DEF Finite, DegreeIsExact, GsAnalyze, gsGraph
<1>10. ASSUME NEW k \in GsWorkers, GsDone(k) PROVE Finite' /\ DegreeIsExact'
  <2>1. \A j \in GsWorkers : j # k => /\ gsWork'[j].write = gsWork[j].write
                                      /\ gsWork'[j].park = gsWork[j].park
    BY Zenon, <1>0, <1>10 DEF GsDone, GsOutdated, GsClaims
  <2>2. gsWork'[k].write = {} /\ gsWork'[k].park = {}
    BY Zenon, <1>10 DEF GsDone, GsIdle
  <2>. QED  BY Zenon, <1>10, <1>a, <2>1, <2>2 DEF Finite, DegreeIsExact, GsDone,
    gsGraph
<1>11. ASSUME NEW k \in GsWorkers, GsDrainFails(k)
      PROVE  Finite' /\ DegreeIsExact'
  <2>1. /\ gsWork'[k].write = {} /\ gsWork'[k].park = {}
        /\ \A j \in GsWorkers : j # k => gsWork'[j] = gsWork[j]
    BY SMTT(60), <1>0, <1>11, ClaimFields DEF GsDrainFails, GsTypeOK
  <2>. QED  BY ZenonT(30), <1>11, <1>a, <2>1 DEF Finite, DegreeIsExact, GsDrainFails,
    gsGraph
<1>12. ASSUME NEW k \in GsWorkers, GsFail(k) PROVE Finite' /\ DegreeIsExact'
  <2>1. /\ gsWork'[k].write = {} /\ gsWork'[k].park = {}
        /\ \A j \in GsWorkers : j # k => gsWork'[j] = gsWork[j]
    BY Zenon, <1>12 DEF GsFail, GsIdle, GsTypeOK
  <2>. QED  BY Zenon, <1>12, <1>a, <2>1 DEF Finite, DegreeIsExact, GsFail, gsGraph
<1>13. ASSUME NEW k \in GsWorkers, GsCrash(k) PROVE Finite' /\ DegreeIsExact'
  <2>1. /\ gsWork'[k].write = {} /\ gsWork'[k].park = {}
        /\ \A j \in GsWorkers : j # k => gsWork'[j] = gsWork[j]
    BY Zenon, <1>13 DEF GsCrash, GsIdle, GsTypeOK
  <2>. QED  BY Zenon, <1>13, <1>a, <2>1 DEF Finite, DegreeIsExact, GsCrash, gsGraph
<1>14. ASSUME NEW k \in GsWorkers, NEW called \in BOOLEAN, GsDefer(k, called)
      PROVE  Finite' /\ DegreeIsExact'
  <2>1. /\ gsWork'[k].write = {} /\ gsWork'[k].park = {}
        /\ \A j \in GsWorkers : j # k => gsWork'[j] = gsWork[j]
    BY Zenon, <1>14 DEF GsDefer, GsIdle, GsTypeOK
  <2>. QED  BY Zenon, <1>14, <1>a, <2>1 DEF Finite, DegreeIsExact, GsDefer, gsGraph
<1>15. CASE UNCHANGED gsVars
    BY Zenon, <1>15 DEF gsVars, Finite, DegreeIsExact, GsTypeOK
<1>. QED
  BY Zenon, <1>1, <1>2, <1>3, <1>4, <1>5, <1>6, <1>7, <1>8, <1>9, <1>10, <1>11, <1>12,
    <1>13, <1>14, <1>15 DEF GsNext, GsWorkStep

-----------------------------------------------------------------------------
\* The invariant holds of the empty graph.
LEMMA InitHolds == GsInit => IInv
<1>. SUFFICES ASSUME GsInit PROVE IInv
  BY Zenon
<1>1. GsTypeOK
  <2>1. gsQueue \in [GsIds -> GsQueueRows]
    BY Zenon DEF GsInit, GsNoRow, GsQueueRows
  <2>2. gsTxn \in [GsPassers -> GsTxns]
    BY Zenon DEF GsInit, GsQuiet, GsTxns
  <2>3. gsWork \in [GsWorkers -> GsClaims]
    BY Zenon, IdleType DEF GsInit
  <2>. QED  BY <2>1, <2>2, <2>3, GsAssumption DEF GsTypeOK, GsInit
<1>2. Finite
  BY Zenon, FS_EmptySet DEF Finite, GsInit, GsQuiet, GsIdle
<1>3. Woken /\ Judged /\ Carried /\ OnAnEnd
  BY Zenon DEF Woken, Judged, Carried, OnAnEnd, GsInit, GsQuiet, GsIdle
<1>4. ChangedNodeIsQueued /\ AssertedEdgeIsKept
  BY Zenon DEF ChangedNodeIsQueued, AssertedEdgeIsKept, GsInit
<1>5. DegreeIsExact
  <2>1. \A n : {e \in {} : e[1] = n} = {} /\ {e \in {} : e[2] = n} = {}
    BY Zenon
  <2>2. \A n \in GsIds : GsEndsAt({}, n) = 0
    BY <2>1, FS_EmptySet DEF GsEndsAt
  <2>. QED  BY Zenon, <2>2 DEF DegreeIsExact, GsInit
<1>. QED  BY Zenon, <1>1, <1>2, <1>3, <1>4, <1>5 DEF IInv

\* It holds in every reachable state.
LEMMA Inductive == GsSpec => []IInv
<1>1. IInv /\ [GsNext]_gsVars => IInv'
  BY Zenon, TypeStep, QueueStep, EdgeStep, DegreeStep DEF IInv
<1>. QED  BY InitHolds, <1>1, PTL DEF GsSpec

\* The degree kept on a node is the number of edge ends at it: passes and
\* drains that insert the same edge raise it once
\* (upsert_edges).
THEOREM DegreesAreExact == GsSpec => []DegreeIsExact
<1>1. IInv => DegreeIsExact
  BY Zenon DEF IInv
<1>. QED  BY Inductive, <1>1, PTL

\* A node that changed since a worker last loaded it has its row in the
\* post-write queue, whatever claims lapse and workers overlap: the delete is
\* conditional on the row the worker claimed (_delete_queue_row).
THEOREM ChangesStayQueued == GsSpec => []ChangedNodeIsQueued
<1>1. IInv => ChangedNodeIsQueued
  BY Zenon DEF IInv
<1>. QED  BY Inductive, <1>1, PTL

\* An asserted edge is in the graph, parked on one of its ends, or expired,
\* for any order of passes, drains, re-parks and failures
\* (upsert_edges, drain_pending_edges).
THEOREM AssertedEdgesAreKept == GsSpec => []AssertedEdgeIsKept
<1>1. IInv => AssertedEdgeIsKept
  BY Zenon DEF IInv
<1>. QED  BY Inductive, <1>1, PTL

-----------------------------------------------------------------------------
(***************************************************************************)
(* The clusters of merged entities, for any ids, callers and passes.  An   *)
(* automatic merge checks under the lock what it decided on before; the    *)
(* strengthening says that one request at a time is in its transaction,    *)
(* and that what it checked there still holds (EcLocked).                  *)
(***************************************************************************)

\* Clusters: an alias has a primary and was merged by somebody.
EcClustered ==
  /\ ecAlias \in [EcIds -> EcIds \cup {EcNone}]
  /\ ecBy \in [EcIds -> {EcNone, "auto", "human"}]
  /\ \A i \in EcIds : ecBy[i] = "auto" => ecAlias[i] # EcNone

\* What a request asks to fold, and into what.
EcRequests ==
  /\ ecCall = [c \in EcCallers |-> ecCall[c]]
  /\ \A c \in EcCallers : ecCall[c].at \in {"asked", "open"} =>
       /\ ecCall[c].primary \in EcIds /\ ecCall[c].aliases \subseteq EcIds
       /\ ecCall[c].primary \notin ecCall[c].aliases

\* Of all the requests one is in its transaction, and what it checked under
\* the lock still holds.
EcLocked ==
  \A c \in EcCallers : ecCall[c].at = "open" =>
    /\ \A b \in EcCallers : ecCall[b].at = "open" => b = c
    /\ ecAlias[ecCall[c].primary] = EcNone
    /\ ecCall[c].safe => EcMayFold(ecCall[c].aliases)

EcIInv == EcClustered /\ EcRequests /\ EcLocked /\ AutoMergeIsSafe

\* A step that leaves the aliases and the requests as they are.
LEMMA EcSame ==
  ASSUME EcIInv, UNCHANGED <<ecAlias, ecBy, ecCall>>
  PROVE  EcIInv'
BY Zenon DEF EcIInv, EcClustered, EcRequests, EcLocked, AutoMergeIsSafe, EcMayFold

\* A request that is made, or is over, opens nothing.
LEMMA EcMoved1 ==
  ASSUME EcIInv, UNCHANGED <<ecAlias, ecBy>>, NEW c \in EcCallers, NEW q,
         ecCall' = [ecCall EXCEPT ![c] = q], q.at # "open",
         q.at = "asked" => /\ q.primary \in EcIds /\ q.aliases \subseteq EcIds
                           /\ q.primary \notin q.aliases
  PROVE  EcIInv'
<1>1. \A b \in EcCallers : ecCall'[b] = IF b = c THEN q ELSE ecCall[b]
  BY Zenon DEF EcIInv, EcRequests
<1>2. EcRequests'
  BY Zenon, <1>1 DEF EcIInv, EcRequests
<1>3. EcLocked'
  BY SMTT(30), <1>1 DEF EcIInv, EcLocked, EcMayFold
<1>. QED  BY Zenon, <1>2, <1>3 DEF EcIInv, EcClustered, AutoMergeIsSafe

\* Every step of the clusters keeps their invariant.
LEMMA EcStep == EcIInv /\ [EcNext]_ecVars => EcIInv'
<1>. SUFFICES ASSUME EcIInv, [EcNext]_ecVars
              PROVE  EcIInv'
  BY Zenon
<1>1. ASSUME NEW p \in EcPassers, NEW e \in EcSpecs, EcResolve(p, e) PROVE EcIInv'
  <2>1. UNCHANGED <<ecAlias, ecBy, ecCall>>
    BY Zenon, <1>1 DEF EcResolve, ecTables
  <2>. QED  BY Zenon, <2>1, EcSame
<1>2. ASSUME NEW p \in EcPassers, EcWrite(p) PROVE EcIInv'
  <2>1. UNCHANGED <<ecAlias, ecBy, ecCall>>
    BY Zenon, <1>2 DEF EcWrite, ecTables
  <2>. QED  BY Zenon, <2>1, EcSame
<1>3. ASSUME NEW c \in EcCallers, NEW primary \in EcIds, NEW aliases \in SUBSET EcIds, EcAsk(c, primary, aliases) PROVE EcIInv'
  <2>1. UNCHANGED <<ecAlias, ecBy>>
    BY Zenon, <1>3 DEF EcAsk, ecTables
  <2>. DEFINE q == [at |-> "asked", primary |-> primary, aliases |-> aliases,
                   safe |-> FALSE, listed |-> FALSE, touched |-> {}]
  <2>2. ecCall' = [ecCall EXCEPT ![c] = q]
    BY Zenon, <1>3 DEF EcAsk, EcRequest
  <2>3. primary \in EcIds /\ aliases \subseteq EcIds /\ primary \notin aliases
    BY Zenon, <1>3 DEF EcAsk, EcCandidate, EcPairs
  <2>4. q.at = "asked" /\ q.primary = primary /\ q.aliases = aliases
    BY Zenon
  <2>. HIDE DEF q
  <2>. QED  BY Zenon, <2>1, <2>2, <2>3, <2>4, EcMoved1
<1>4. ASSUME NEW c \in EcCallers, NEW primary \in EcIds, NEW node \in EcIds, EcJudge(c, node, primary) PROVE EcIInv'
  <2>1. UNCHANGED <<ecAlias, ecBy>>
    BY Zenon, <1>4 DEF EcJudge, ecTables
  <2>. DEFINE q == [at |-> "asked", primary |-> primary, aliases |-> {node},
                   safe |-> TRUE, listed |-> FALSE, touched |-> {}]
  <2>2. ecCall' = [ecCall EXCEPT ![c] = q]
    BY Zenon, <1>4 DEF EcJudge, EcRequest
  <2>3. primary \in EcIds /\ {node} \subseteq EcIds /\ primary \notin {node}
    BY Zenon, <1>4 DEF EcJudge, EcCandidate, EcPairs
  <2>4. q.at = "asked" /\ q.primary = primary /\ q.aliases = {node}
    BY Zenon
  <2>. HIDE DEF q
  <2>. QED  BY Zenon, <2>1, <2>2, <2>3, <2>4, EcMoved1
<1>5. ASSUME NEW c \in EcCallers, NEW pair \in EcPairs, EcApprove(c, pair) PROVE EcIInv'
  <2>1. UNCHANGED <<ecAlias, ecBy>>
    BY Zenon, <1>5 DEF EcApprove, ecTables
  <2>. DEFINE q == [at |-> "asked", primary |-> pair[1], aliases |-> {pair[2]},
                   safe |-> TRUE, listed |-> TRUE, touched |-> {}]
  <2>2. ecCall' = [ecCall EXCEPT ![c] = q]
    BY Zenon, <1>5 DEF EcApprove, EcRequest
  <2>3. pair[1] \in EcIds /\ {pair[2]} \subseteq EcIds /\ pair[1] \notin {pair[2]}
    BY Zenon, <1>5 DEF EcApprove, EcCandidate, EcPairs
  <2>4. q.at = "asked" /\ q.primary = pair[1] /\ q.aliases = {pair[2]}
    BY Zenon
  <2>. HIDE DEF q
  <2>. QED  BY Zenon, <2>1, <2>2, <2>3, <2>4, EcMoved1
<1>6. ASSUME NEW c \in EcCallers, EcOpen(c) PROVE EcIInv'
  <2>. USE DEF EcIInv
  <2>. DEFINE r == ecCall[c]
            q == EcMove(r, "open", EcTouching(r.aliases))
  <2>1. UNCHANGED <<ecAlias, ecBy>> /\ ecCall' = [ecCall EXCEPT ![c] = q]
    BY Zenon, <1>6 DEF EcOpen, ecTables
  <2>2. q.at = "open" /\ q.primary = r.primary /\ q.aliases = r.aliases /\ q.safe = r.safe
    BY Zenon DEF EcMove
  <2>3. r.at = "asked" /\ EcLockFree /\ EcMergeable(r.primary, r.aliases, r.safe)
    BY Zenon, <1>6 DEF EcOpen
  <2>. HIDE DEF q
  <2>4. \A b \in EcCallers : ecCall'[b] = IF b = c THEN q ELSE ecCall[b]
    BY Zenon, <2>1 DEF EcRequests
  <2>5. EcRequests'
    BY Zenon, <2>1, <2>2, <2>3, <2>4 DEF EcRequests
  <2>6. EcLocked'
    BY SMTT(30), <2>1, <2>2, <2>3, <2>4 DEF EcLocked, EcLockFree, EcMergeable, EcMayFold
  <2>. QED  BY Zenon, <2>1, <2>5, <2>6 DEF EcClustered, AutoMergeIsSafe
<1>7. ASSUME NEW c \in EcCallers, EcRefuse(c) PROVE EcIInv'
  <2>1. UNCHANGED <<ecAlias, ecBy>>
    BY Zenon, <1>7 DEF EcRefuse, ecTables
  <2>. DEFINE q == IF ecCall[c].listed THEN EcMove(ecCall[c], "refused", {}) ELSE EcIdle
  <2>2. ecCall' = [ecCall EXCEPT ![c] = q]
    BY Zenon, <1>7 DEF EcRefuse
  <2>3. q.at \notin {"asked", "open"}
    BY Zenon DEF EcMove, EcIdle
  <2>. HIDE DEF q
  <2>. QED  BY Zenon, <2>1, <2>2, <2>3, EcMoved1
<1>8. ASSUME NEW c \in EcCallers, EcClose(c) PROVE EcIInv'
  <2>. USE DEF EcIInv
  <2>. DEFINE r == ecCall[c]
  <2>1. /\ r.at = "open"
        /\ r.primary \in EcIds /\ r.aliases \subseteq EcIds /\ r.primary \notin r.aliases
        /\ ecAlias[r.primary] = EcNone
        /\ r.safe => EcMayFold(r.aliases)
    BY Zenon, <1>8 DEF EcClose, EcRequests, EcLocked
  <2>. DEFINE q == IF r.listed THEN EcMove(r, "merged", {}) ELSE EcIdle
  <2>2. ecCall' = [ecCall EXCEPT ![c] = q] /\ q.at \notin {"asked", "open"}
    BY Zenon, <1>8 DEF EcClose, EcMove, EcIdle
  <2>. HIDE DEF q
  <2>3. /\ ecAlias' = [i \in EcIds |-> IF i \in r.aliases THEN r.primary ELSE ecAlias[i]]
        /\ ecBy' = [i \in EcIds |-> IF i \notin r.aliases THEN ecBy[i]
                                    ELSE IF r.safe THEN "auto" ELSE "human"]
    BY Zenon, <1>8 DEF EcClose
  <2>. HIDE DEF r
  <2>4. EcClustered'
    BY Zenon, <2>1, <2>3, EcAssumption DEF EcClustered
  <2>5. \A b \in EcCallers : ecCall'[b] = IF b = c THEN q ELSE ecCall[b]
    BY Zenon, <2>2 DEF EcRequests
  <2>6. EcRequests'
    BY Zenon, <2>2, <2>5 DEF EcRequests
  <2>7. \A b \in EcCallers : ecCall'[b].at # "open"
    BY ZenonT(30), <2>1, <2>2, <2>5 DEF EcLocked, r
  <2>8. AutoMergeIsSafe'
    <3>. SUFFICES ASSUME NEW i \in EcIds, ecBy'[i] = "auto"
                  PROVE  i \notin EcDocs /\ \A j \in EcIds : ecAlias'[j] # i
      BY Zenon DEF AutoMergeIsSafe
    <3>1. CASE i \in r.aliases
      <4>1. EcMayFold(r.aliases)
        BY Zenon, <2>1, <2>3, <3>1
      <4>. QED  BY Zenon, <2>1, <2>3, <3>1, <4>1 DEF EcMayFold
    <3>2. CASE i \notin r.aliases
      <4>1. ecBy[i] = "auto"
        BY Zenon, <2>3, <3>2
      <4>2. i # r.primary
        BY Zenon, <2>1, <4>1 DEF EcClustered
      <4>. QED  BY Zenon, <2>3, <4>1, <4>2 DEF AutoMergeIsSafe
    <3>. QED  BY Zenon, <3>1, <3>2
  <2>. QED  BY Zenon, <2>4, <2>6, <2>7, <2>8 DEF EcLocked
<1>9. ASSUME NEW c \in EcCallers, EcSettle(c) PROVE EcIInv'
  <2>1. UNCHANGED <<ecAlias, ecBy>>
    BY Zenon, <1>9 DEF EcSettle, ecTables
  <2>. DEFINE q == EcIdle
  <2>2. ecCall' = [ecCall EXCEPT ![c] = q]
    BY Zenon, <1>9 DEF EcSettle
  <2>3. q.at \notin {"asked", "open"}
    BY Zenon DEF EcMove, EcIdle
  <2>. HIDE DEF q
  <2>. QED  BY Zenon, <2>1, <2>2, <2>3, EcMoved1
<1>10. ASSUME NEW node \in EcIds, NEW primary \in EcIds, EcSuggest(node, primary) PROVE EcIInv'
  <2>1. UNCHANGED <<ecAlias, ecBy, ecCall>>
    BY Zenon, <1>10 DEF EcSuggest, ecTables
  <2>. QED  BY Zenon, <2>1, EcSame
<1>11. ASSUME NEW pair \in EcPairs, EcDismiss(pair) PROVE EcIInv'
  <2>1. UNCHANGED <<ecAlias, ecBy, ecCall>>
    BY Zenon, <1>11 DEF EcDismiss, ecTables
  <2>. QED  BY Zenon, <2>1, EcSame
<1>12. ASSUME NEW alias \in EcIds, EcUnmerge(alias) PROVE EcIInv'
  <2>. USE DEF EcIInv
  <2>1. /\ ecAlias' = [ecAlias EXCEPT ![alias] = EcNone]
        /\ ecBy' = [ecBy EXCEPT ![alias] = EcNone]
        /\ ecCall' = ecCall
    BY Zenon, <1>12 DEF EcUnmerge
  <2>2. \A c \in EcCallers : ecCall[c].at # "open"
    BY Zenon, <1>12 DEF EcUnmerge, EcLockFree
  <2>3. EcClustered' /\ EcRequests' /\ EcLocked'
    BY Zenon, <2>1, <2>2 DEF EcClustered, EcRequests, EcLocked, EcNone
  <2>4. AutoMergeIsSafe'
    BY Zenon, <2>1, EcAssumption DEF EcClustered, AutoMergeIsSafe, EcNone
  <2>. QED  BY Zenon, <2>3, <2>4
<1>13. CASE UNCHANGED ecVars
    BY Zenon, <1>13 DEF ecVars, EcIInv, EcClustered, EcRequests, EcLocked, AutoMergeIsSafe, EcMayFold
<1>. QED
  BY Zenon, <1>1, <1>2, <1>3, <1>4, <1>5, <1>6, <1>7, <1>8, <1>9, <1>10, <1>11, <1>12, <1>13 DEF EcNext

\* The invariant holds before the first entity.
LEMMA EcInitial == EcInit => EcIInv
BY DEF EcInit, EcIInv, EcClustered, EcRequests, EcLocked, AutoMergeIsSafe, EcIdle, EcNone

\* An auto-merge or an approval decides on what it read before the lock; the
\* checks merge_cluster repeats under the lock (auto_merge_safe) keep it from
\* deleting the primary of a cluster or a document's own node, whatever
\* merges and unmerges committed in between.
THEOREM AutoMergesAreSafe == EcSpec => []AutoMergeIsSafe
<1>1. EcIInv => AutoMergeIsSafe
  BY Zenon DEF EcIInv
<1>. QED  BY EcInitial, EcStep, <1>1, PTL DEF EcSpec

=============================================================================
