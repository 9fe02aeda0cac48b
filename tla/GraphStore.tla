----------------------------- MODULE GraphStore -----------------------------
(***************************************************************************)
(* The knowledge graph as ingestion writes it (engine/ingest/              *)
(* graph_writer.py): nodes, edges, the degree kept on every node, edges    *)
(* parked until their endpoint exists; and the post-write queue behind it  *)
(* (engine/ingest/post_write/worker.py), whose workers replay the parked   *)
(* edges and judge the node.                                               *)
(*                                                                         *)
(* Passes and drains read in one step and commit in another: what they     *)
(* read can be old when their writes appear.  Rows are unlabelled and      *)
(* carry no properties; equal parked rows are one row.  Aliases, and what  *)
(* the judge decides, are in EntityClusters.                               *)
(***************************************************************************)
EXTENDS Naturals, FiniteSets

CONSTANTS GsIds,        \* canonical ids
          GsInputs,     \* what a pass may assert: [nodes, edges], an edge
                        \* being <<from, to>>
          GsPassers,    \* ingestion transactions
          GsWorkers,    \* post-write claim loops
          GsAttempts,   \* _MAX_ATTEMPTS
          GsDeferrals,  \* AUTO_MERGE_MAX_DEFERRALS
          GsBatch,      \* LIMIT of one drain
          GsFaults      \* bound: rollbacks, failures, crashes, lapses, reaps

\* A pass asserts finitely many edges.
ASSUME GsAssumption ==
  /\ GsIds # {}
  /\ \A i \in GsInputs : /\ i.nodes \subseteq GsIds
                         /\ i.edges \subseteq GsIds \X GsIds
                         /\ IsFiniteSet(i.edges)
  /\ GsAttempts \in Nat /\ GsDeferrals \in Nat /\ GsFaults \in Nat

VARIABLES gsNodes,    \* graph_nodes
          gsEdges,    \* graph_edges
          gsDegree,   \* graph_nodes.degree
          gsPending,  \* pending_edges: [edge, miss]
          gsQueue,    \* node_post_write_queue: at most one row per node
          gsTxn,      \* per passer: what its open transaction will write
          gsWork,     \* per worker: its claim, and its drain's open writes
          gsStale,    \* nodes changed since a worker last loaded them
          gsReaped,   \* edges that expired
          gsSaid,     \* edges some committed pass asserted
          gsFaults    \* faults so far

gsVars == <<gsNodes, gsEdges, gsDegree, gsPending, gsQueue, gsTxn, gsWork,
            gsStale, gsReaped, gsSaid, gsFaults>>
gsGraph == <<gsNodes, gsEdges, gsDegree, gsPending, gsReaped, gsSaid>>

GsNoRow == [st |-> "none", attempts |-> 0, calls |-> 0]
GsFresh == [GsNoRow EXCEPT !.st = "ready"]
GsQuiet == [on |-> FALSE, nodes |-> {}, changed |-> {}, write |-> {},
            park |-> {}, wake |-> {}]
GsIdle == [at |-> "idle", node |-> CHOOSE n \in GsIds : TRUE,
           current |-> FALSE, attempts |-> 0, calls |-> 0,
           rows |-> {}, write |-> {}, park |-> {}]

GsInit ==
  /\ gsNodes = {} /\ gsEdges = {} /\ gsPending = {}
  /\ gsDegree = [n \in GsIds |-> 0]
  /\ gsQueue = [n \in GsIds |-> GsNoRow]
  /\ gsTxn = [p \in GsPassers |-> GsQuiet]
  /\ gsWork = [k \in GsWorkers |-> GsIdle]
  /\ gsStale = {} /\ gsReaped = {} /\ gsSaid = {}
  /\ gsFaults = 0

GsFault == gsFaults < GsFaults /\ gsFaults' = gsFaults + 1

-----------------------------------------------------------------------------
\* upsert_edges: what resolves is written, the rest is parked on the first
\* endpoint that names no node.
GsEnds(e) == {e[1], e[2]}
GsResolved(edges, known) == {e \in edges : GsEnds(e) \subseteq known}
GsParked(edges, known) ==
  {[edge |-> e, miss |-> IF e[1] \notin known THEN e[1] ELSE e[2]] :
     e \in edges \ GsResolved(edges, known)}

GsEndsAt(edges, n) == Cardinality({e \in edges : e[1] = n})
                      + Cardinality({e \in edges : e[2] = n})
\* Variant: the rows ON CONFLICT merged are counted too.
GsRaiseByAll(write) == [n \in GsIds |-> gsDegree[n] + GsEndsAt(write, n)]
\* Only a genuine insert raises the degree of its two ends.
GsRaise(write) == [n \in GsIds |-> gsDegree[n] + GsEndsAt(write \ gsEdges, n)]

\* The nodes upsert_nodes queues: inserted or changed ones, and those an edge
\* is parked on.
GsWake(nodes, changed) ==
  changed \cup {n \in nodes : \E r \in gsPending : r.miss = n}

\* One ingestion transaction up to its COMMIT: upsert_nodes, upsert_edges.
\* The upsert locks the node rows, so a second pass over one of them waits.
\* "altered": nodes whose properties it changes, or that the statement took
\* for changed because another pass wrote them while it waited.
GsPass(p, nodes, edges, altered) ==
  /\ ~gsTxn[p].on
  /\ nodes # {} \/ edges # {}
  /\ altered \subseteq nodes
  /\ \A q \in GsPassers : gsTxn[q].nodes \cap nodes = {}
  /\ LET changed == altered \cup (nodes \ gsNodes)
         known == gsNodes \cup nodes
     IN gsTxn' = [gsTxn EXCEPT ![p] =
          [on |-> TRUE, nodes |-> nodes, changed |-> changed,
           write |-> GsResolved(edges, known), park |-> GsParked(edges, known),
           wake |-> GsWake(nodes, changed)]]
  /\ UNCHANGED <<gsGraph, gsQueue, gsWork, gsStale, gsFaults>>

\* A claim is current while the row it was taken from stands.
GsOutdated(w, gone) == [w EXCEPT !.current = @ /\ ~gone]

\* Its COMMIT.  The queue row of a woken node is new (enqueued_at, no lock,
\* no counters), so no claim taken before is current.
GsCommit(p) ==
  LET t == gsTxn[p] IN
  /\ t.on
  /\ gsNodes' = gsNodes \cup t.nodes
  /\ gsEdges' = gsEdges \cup t.write
  /\ gsDegree' = GsRaise(t.write)
  /\ gsPending' = gsPending \cup t.park
  /\ gsQueue' = [n \in GsIds |-> IF n \in t.wake THEN GsFresh ELSE gsQueue[n]]
  /\ gsWork' = [k \in GsWorkers |->
       GsOutdated(gsWork[k], gsWork[k].node \in t.wake)]
  /\ gsStale' = gsStale \cup t.changed
  /\ gsSaid' = gsSaid \cup t.write \cup {r.edge : r \in t.park}
  /\ gsReaped' = gsReaped \ (t.write \cup {r.edge : r \in t.park})
  /\ gsTxn' = [gsTxn EXCEPT ![p] = GsQuiet]
  /\ UNCHANGED gsFaults

GsRollback(p) ==
  /\ gsTxn[p].on
  /\ GsFault
  /\ gsTxn' = [gsTxn EXCEPT ![p] = GsQuiet]
  /\ UNCHANGED <<gsGraph, gsQueue, gsWork, gsStale>>

-----------------------------------------------------------------------------
\* _claim_one: an unlocked row, or one whose lock is in the past.  The
\* counters the pass will write back are those of the claimed row.
GsClaim(k, n) ==
  /\ gsWork[k].at = "idle"
  /\ gsQueue[n].st \in {"ready", "due"}
  /\ gsQueue[n].attempts < GsAttempts
  /\ gsQueue' = [gsQueue EXCEPT ![n].st = "locked"]
  /\ gsWork' = [gsWork EXCEPT ![k] =
       [GsIdle EXCEPT !.at = "drain", !.node = n, !.current = TRUE,
        !.attempts = gsQueue[n].attempts, !.calls = gsQueue[n].calls]]
  /\ UNCHANGED <<gsGraph, gsTxn, gsStale, gsFaults>>

\* A deferral's delay passes, or the lock of a worker that is gone.
GsDue(n) ==
  /\ \/ gsQueue[n].st = "delayed"
     \/ /\ gsQueue[n].st = "locked"
        /\ \A k \in GsWorkers : ~(gsWork[k].node = n /\ gsWork[k].current)
  /\ gsQueue' = [gsQueue EXCEPT ![n].st = "due"]
  /\ UNCHANGED <<gsGraph, gsTxn, gsWork, gsStale, gsFaults>>

\* The lock of a worker still busy passes: nothing renews it.
GsLapse(n) ==
  /\ gsQueue[n].st = "locked"
  /\ \E k \in GsWorkers : gsWork[k].node = n /\ gsWork[k].current
  /\ GsFault
  /\ gsQueue' = [gsQueue EXCEPT ![n].st = "due"]
  /\ UNCHANGED <<gsGraph, gsTxn, gsWork, gsStale>>

\* drain_pending_edges up to the commit of the worker's first transaction:
\* claim up to GsBatch rows waiting on the node that no other drain holds,
\* resolve their ends against the graph of now, write or park them again.
GsDraining(w, rows, write, park) ==
  [w EXCEPT !.at = "commit", !.rows = rows, !.write = write, !.park = park]
GsAfterDrain(w) ==
  [w EXCEPT !.at = "analyze", !.rows = {}, !.write = {}, !.park = {}]
GsHeld == UNION {gsWork[k].rows : k \in GsWorkers}
GsDrain(k) ==
  LET n == gsWork[k].node
      free == {r \in gsPending \ GsHeld : r.miss = n}
  IN
  /\ gsWork[k].at = "drain"
  /\ \E rows \in SUBSET free :
       /\ Cardinality(rows) = (IF Cardinality(free) < GsBatch
                               THEN Cardinality(free) ELSE GsBatch)
       /\ LET edges == {r.edge : r \in rows} IN
          gsWork' = [gsWork EXCEPT ![k] = GsDraining(@, rows,
            GsResolved(edges, gsNodes), GsParked(edges, gsNodes))]
  /\ UNCHANGED <<gsGraph, gsQueue, gsTxn, gsStale, gsFaults>>

\* The claimed rows go, the ones parked again stay.
GsLeftByDrain(w, old) == ((gsPending \ w.rows) \ old) \cup w.park

\* Its commit.  "old" are the rows past their TTL, no drain's, that the sweep
\* in the same savepoint deletes.
GsDrained(k, old) ==
  LET w == gsWork[k]
      free == old \ GsHeld
  IN
  /\ w.at = "commit"
  /\ IF free = {} THEN UNCHANGED gsFaults ELSE GsFault
  /\ gsEdges' = gsEdges \cup w.write
  /\ gsDegree' = GsRaise(w.write)
  /\ gsPending' = GsLeftByDrain(w, free)
  /\ gsReaped' = gsReaped \cup {r.edge : r \in free}
  /\ gsWork' = [gsWork EXCEPT ![k] = GsAfterDrain(@)]
  /\ UNCHANGED <<gsNodes, gsQueue, gsTxn, gsStale, gsSaid>>

\* The savepoint rolls back and the failure is swallowed.
GsDrainFails(k) ==
  /\ gsWork[k].at = "commit"
  /\ GsFault
  /\ gsWork' = [gsWork EXCEPT ![k] = GsAfterDrain(@)]
  /\ UNCHANGED <<gsGraph, gsQueue, gsTxn, gsStale>>

\* The second transaction: the analyzer loads the node it will judge.
GsAnalyze(k) ==
  /\ gsWork[k].at = "analyze"
  /\ gsStale' = gsStale \ {gsWork[k].node}
  /\ gsWork' = [gsWork EXCEPT ![k].at = "settle"]
  /\ UNCHANGED <<gsGraph, gsQueue, gsTxn, gsFaults>>

\* Variant: writes back are keyed on the node alone.
GsWriteAnyway(k, row) == [gsQueue EXCEPT ![gsWork[k].node] = row]

\* Writes back to the row are conditional on enqueued_at = claimed_at.
GsWriteBack(k, row) ==
  [gsQueue EXCEPT ![gsWork[k].node] = IF gsWork[k].current THEN row ELSE @]

\* Every verdict but "deferred": the row goes, and with it every claim on it.
GsDone(k) ==
  /\ gsWork[k].at = "settle"
  /\ gsQueue' = GsWriteBack(k, GsNoRow)
  /\ gsWork' = [j \in GsWorkers |->
       IF j = k THEN GsIdle
       ELSE GsOutdated(gsWork[j], /\ gsWork[k].current
                                  /\ gsWork[j].node = gsWork[k].node)]
  /\ UNCHANGED <<gsGraph, gsTxn, gsStale, gsFaults>>

\* _defer: the judge is down.  An open breaker made no call; past
\* GsDeferrals failed calls the row is parked at the attempts cap.
GsDefer(k, called) ==
  LET calls == gsWork[k].calls + (IF called THEN 1 ELSE 0) IN
  /\ gsWork[k].at = "settle"
  /\ GsFault
  /\ gsQueue' = GsWriteBack(k, IF calls > GsDeferrals
       THEN [st |-> "ready", attempts |-> GsAttempts, calls |-> calls - 1]
       ELSE [st |-> "delayed", attempts |-> gsWork[k].attempts, calls |-> calls])
  /\ gsWork' = [gsWork EXCEPT ![k] = GsIdle]
  /\ UNCHANGED <<gsGraph, gsTxn, gsStale>>

\* Anything _process raises: unlocked again, one attempt more, the other
\* counters dropped.  An open drain rolls back.
GsFail(k) ==
  /\ gsWork[k].at # "idle"
  /\ GsFault
  /\ gsQueue' = GsWriteBack(k,
       [st |-> "ready", attempts |-> gsWork[k].attempts + 1, calls |-> 0])
  /\ gsWork' = [gsWork EXCEPT ![k] = GsIdle]
  /\ UNCHANGED <<gsGraph, gsTxn, gsStale>>

\* The pod dies: the row stays locked.
GsCrash(k) ==
  /\ gsWork[k].at # "idle"
  /\ GsFault
  /\ gsWork' = [gsWork EXCEPT ![k] = GsIdle]
  /\ UNCHANGED <<gsGraph, gsQueue, gsTxn, gsStale>>

-----------------------------------------------------------------------------
GsWorkStep(k) ==
  \/ \E n \in GsIds : GsClaim(k, n)
  \/ GsDrain(k) \/ GsDrained(k, {}) \/ GsAnalyze(k) \/ GsDone(k)

GsNext ==
  \/ \E p \in GsPassers :
       \/ \E i \in GsInputs : \E altered \in {{}, i.nodes} :
            GsPass(p, i.nodes, i.edges, altered)
       \/ GsCommit(p) \/ GsRollback(p)
  \/ \E n \in GsIds : GsDue(n) \/ GsLapse(n)
  \/ \E k \in GsWorkers :
       \/ GsWorkStep(k)
       \/ \E r \in gsPending : GsDrained(k, {r})
       \/ GsDrainFails(k) \/ GsFail(k) \/ GsCrash(k)
       \/ \E called \in BOOLEAN : GsDefer(k, called)

GsSpec == GsInit /\ [][GsNext]_gsVars

-----------------------------------------------------------------------------
GsEdgeRows == GsIds \X GsIds
GsParkRows == [edge : GsEdgeRows, miss : GsIds]
GsQueueRows == [st : {"none", "ready", "due", "delayed", "locked"},
                attempts : Nat, calls : Nat]
GsTxns == [on : BOOLEAN, nodes : SUBSET GsIds, changed : SUBSET GsIds,
           write : SUBSET GsEdgeRows, park : SUBSET GsParkRows,
           wake : SUBSET GsIds]
GsClaims == [at : {"idle", "drain", "commit", "analyze", "settle"},
             node : GsIds, current : BOOLEAN, attempts : Nat, calls : Nat,
             rows : SUBSET GsParkRows, write : SUBSET GsEdgeRows,
             park : SUBSET GsParkRows]
\* The shape of the tables and of the open transactions.
GsTypeOK ==
  /\ gsNodes \subseteq GsIds /\ gsEdges \subseteq GsEdgeRows
  /\ gsDegree \in [GsIds -> Nat]
  /\ gsPending \subseteq GsParkRows
  /\ gsQueue \in [GsIds -> GsQueueRows]
  /\ gsTxn \in [GsPassers -> GsTxns]
  /\ gsWork \in [GsWorkers -> GsClaims]
  /\ gsStale \subseteq GsIds
  /\ gsReaped \subseteq GsEdgeRows /\ gsSaid \subseteq GsEdgeRows
  /\ gsFaults \in 0..GsFaults

\* graph_nodes.degree is the number of edge ends at the node, whatever passes
\* and drains overlap: an edge that two of them insert counts once.
DegreeIsExact == \A n \in GsIds : gsDegree[n] = GsEndsAt(gsEdges, n)

\* A node that changed after a worker last loaded it still has its queue row:
\* the row a pass re-enqueues while a worker (or two, after a lapsed lock) is
\* busy with the old one is never deleted under it.
ChangedNodeIsQueued == \A n \in gsStale : gsQueue[n].st # "none"

\* An edge a committed pass asserted is in the graph, or parked on an end it
\* has, unless it expired: no order of passes, drains and re-parks drops it,
\* and none leaves it waiting on a node it does not name.
AssertedEdgeIsKept ==
  /\ gsSaid \subseteq gsEdges \cup {r.edge : r \in gsPending} \cup gsReaped
  /\ \A r \in gsPending : r.miss \in GsEnds(r.edge)

=============================================================================
