--------------------------- MODULE EntityClusters ---------------------------
(***************************************************************************)
(* Merging graph nodes that name one thing, and taking a merge back        *)
(* (engine/ingest/entity_clusters_routes.py), the callers that propose     *)
(* merges (auto_merge/analyzer.py, entity_merge_suggestions_routes.py) and *)
(* the ingestion passes that route by the aliases (graph_writer.py,        *)
(* engine/shared/alias_sql.py).                                            *)
(*                                                                         *)
(* One tenant, one label, one edge type.  An edge carries the alias each   *)
(* end was rewritten from: its lane.  Properties, provenance and degree    *)
(* are left out.                                                           *)
(***************************************************************************)
EXTENDS Naturals, FiniteSets

CONSTANTS EcIds,      \* canonical ids
          EcDocs,     \* the ids that are a document's own node
          EcSpecs,    \* <<from, to>> edges a pass may assert with its ends
          EcPassers,  \* ingestion transactions
          EcCallers,  \* requests in flight: a human's, the analyzer's
          EcTurns     \* bound: passes, requests and unmerges started

VARIABLES ecNodes,  \* graph_nodes
          ecEdges,  \* graph_edges: [from, to, fl, tl]
          ecAlias,  \* entity_aliases: id -> its primary, or EcNone
          ecBy,     \* who merged the alias: "human" or "auto"
          ecLoops,  \* alias -> the deleted_self_loop snapshots it is part of
          ecSug,    \* <<primary, candidate>> -> status of its suggestion
          ecPass,   \* per passer: what it resolved
          ecCall,   \* per caller: its request and how far it is
          ecTurns

ecVars == <<ecNodes, ecEdges, ecAlias, ecBy, ecLoops, ecSug, ecPass, ecCall, ecTurns>>
ecTables == <<ecNodes, ecEdges, ecAlias, ecBy, ecLoops>>

EcNone == "none"

ASSUME EcAssumption == EcNone \notin EcIds

EcPairs == {pair \in EcIds \X EcIds : pair[1] # pair[2]}
EcQuiet == [on |-> FALSE, ids |-> {}, edge |-> <<EcNone, EcNone>>]
EcIdle == [at |-> "idle", primary |-> EcNone, aliases |-> {}, safe |-> FALSE,
           listed |-> FALSE, touched |-> {}]

EcInit ==
  /\ ecNodes = EcIds /\ ecEdges = {}
  /\ ecAlias = [i \in EcIds |-> EcNone] /\ ecBy = [i \in EcIds |-> EcNone]
  /\ ecLoops = [i \in EcIds |-> {}]
  /\ ecSug = [pair \in EcPairs |-> EcNone]
  /\ ecPass = [p \in EcPassers |-> EcQuiet]
  /\ ecCall = [c \in EcCallers |-> EcIdle]
  /\ ecTurns = 0

EcTurn == ecTurns < EcTurns /\ ecTurns' = ecTurns + 1

-----------------------------------------------------------------------------
\* RESOLVE_ALIASES_SQL: the end of the alias chain.
EcRoot(id) ==
  LET up[n \in 0 .. Cardinality(EcIds)] ==
        IF n = 0 THEN id
        ELSE IF ecAlias[up[n - 1]] = EcNone THEN up[n - 1]
             ELSE ecAlias[up[n - 1]]
  IN up[Cardinality(EcIds)]
EcLane(id) == IF ecAlias[id] = EcNone THEN EcNone ELSE id

\* upsert_nodes resolves the ids it will write; a merge may commit before it
\* writes them.
EcResolve(p, edge) ==
  /\ ~ecPass[p].on
  /\ EcTurn
  /\ ecPass' = [ecPass EXCEPT ![p] =
       [on |-> TRUE, ids |-> {EcRoot(edge[1]), EcRoot(edge[2])}, edge |-> edge]]
  /\ UNCHANGED <<ecTables, ecSug, ecCall>>

\* The upsert, then upsert_edges, which resolves the ends afresh, stamps the
\* lanes and drops an edge that resolution made a self-loop.
EcWrite(p) ==
  LET edge == ecPass[p].edge
      row == [from |-> EcRoot(edge[1]), to |-> EcRoot(edge[2]),
              fl |-> EcLane(edge[1]), tl |-> EcLane(edge[2])]
  IN
  /\ ecPass[p].on
  /\ ecNodes' = ecNodes \cup ecPass[p].ids
  /\ ecEdges' = IF row.from = row.to THEN ecEdges ELSE ecEdges \cup {row}
  /\ ecPass' = [ecPass EXCEPT ![p] = EcQuiet]
  /\ UNCHANGED <<ecAlias, ecBy, ecLoops, ecSug, ecCall, ecTurns>>

-----------------------------------------------------------------------------
EcRequest(c, primary, aliases, safe, listed) ==
  /\ ecCall[c].at = "idle"
  /\ EcTurn
  /\ ecCall' = [ecCall EXCEPT ![c] =
       [at |-> "asked", primary |-> primary, aliases |-> aliases,
        safe |-> safe, listed |-> listed, touched |-> {}]]

\* The request goes on to its next stage.
EcMove(r, at, touched) ==
  [at |-> at, primary |-> r.primary, aliases |-> r.aliases,
   safe |-> r.safe, listed |-> r.listed, touched |-> touched]

\* A direct human merge.
EcAsk(c, primary, aliases) ==
  /\ aliases # {} /\ primary \notin aliases
  /\ EcRequest(c, primary, aliases, FALSE, FALSE)
  /\ UNCHANGED <<ecTables, ecSug, ecPass>>

\* analyze, up to its merge call: the node judged is no alias and no
\* document, the primary is a candidate that is no alias.  Folding a mention
\* into its document has the same shape.
EcCandidate(node, primary) ==
  /\ node # primary /\ {node, primary} \subseteq ecNodes
  /\ ecAlias[node] = EcNone /\ ecAlias[primary] = EcNone
  /\ node \notin EcDocs
EcJudge(c, node, primary) ==
  /\ EcCandidate(node, primary)
  /\ EcRequest(c, primary, {node}, TRUE, FALSE)
  /\ UNCHANGED <<ecTables, ecSug, ecPass>>

\* A verdict without the evidence to execute becomes a suggestion.
EcSuggest(node, primary) ==
  /\ EcCandidate(node, primary)
  /\ ecSug[<<primary, node>>] = EcNone
  /\ EcTurn
  /\ ecSug' = [ecSug EXCEPT ![<<primary, node>>] = "pending"]
  /\ UNCHANGED <<ecTables, ecPass, ecCall>>

\* approve_suggestion (and each row of approve_all) reads the row in a
\* transaction of its own.
EcApprove(c, pair) ==
  /\ ecSug[pair] = "pending"
  /\ EcRequest(c, pair[1], {pair[2]}, TRUE, TRUE)
  /\ UNCHANGED <<ecTables, ecSug, ecPass>>

EcDismiss(pair) ==
  /\ ecSug[pair] = "pending"
  /\ ecSug' = [ecSug EXCEPT ![pair] = "dismissed"]
  /\ UNCHANGED <<ecTables, ecPass, ecCall, ecTurns>>

-----------------------------------------------------------------------------
\* Variant: no lock is taken.
EcUnlocked == TRUE

\* The per-(tenant, label) advisory lock.
EcLockFree == \A c \in EcCallers : ecCall[c].at # "open"

\* merge_cluster's checks.
EcMayFold(aliases) ==
  \A a \in aliases : a \notin EcDocs /\ \A i \in EcIds : ecAlias[i] # a
EcMergeable(primary, aliases, safe) ==
  /\ {primary} \cup aliases \subseteq ecNodes
  /\ \A a \in aliases : ecAlias[a] = EcNone
  /\ safe => EcMayFold(aliases)
  /\ ecAlias[primary] = EcNone

\* Steps 0 to 8: the lock, the checks, the edges as they are now.
EcTouching(aliases) == {e \in ecEdges : {e.from, e.to} \cap aliases # {}}
EcOpen(c) ==
  LET r == ecCall[c] IN
  /\ r.at = "asked" /\ EcLockFree
  /\ EcMergeable(r.primary, r.aliases, r.safe)
  /\ ecCall' = [ecCall EXCEPT ![c] = EcMove(r, "open", EcTouching(r.aliases))]
  /\ UNCHANGED <<ecTables, ecSug, ecPass, ecTurns>>

\* 404 or 409.  Only a suggestion has something left to write.
EcRefuse(c) ==
  LET r == ecCall[c] IN
  /\ r.at = "asked" /\ EcLockFree
  /\ ~EcMergeable(r.primary, r.aliases, r.safe)
  /\ ecCall' = [ecCall EXCEPT ![c] =
       IF r.listed THEN EcMove(r, "refused", {}) ELSE EcIdle]
  /\ UNCHANGED <<ecTables, ecSug, ecPass, ecTurns>>

\* An edge end on an alias moves to the primary and is stamped with it.
EcMoved(e, primary, aliases) ==
  [from |-> IF e.from \in aliases THEN primary ELSE e.from,
   to |-> IF e.to \in aliases THEN primary ELSE e.to,
   fl |-> IF e.from \in aliases THEN e.from ELSE e.fl,
   tl |-> IF e.to \in aliases THEN e.to ELSE e.tl]

\* Steps 8 to 11 and COMMIT.  Self-loops are snapshotted and deleted, an edge
\* whose lane is taken is deleted, the alias nodes go, and with them, by
\* cascade, the edges a pass wrote to them since step 8.
EcClose(c) ==
  LET r == ecCall[c]
      moved(e) == EcMoved(e, r.primary, r.aliases)
      loops == {e \in r.touched : moved(e).from = moved(e).to}
      kept == {moved(e) : e \in r.touched \ loops}
  IN
  /\ r.at = "open"
  /\ r.primary \in ecNodes \/ kept = {}
  /\ ecEdges' = (ecEdges \ EcTouching(r.aliases)) \cup kept
  /\ ecNodes' = ecNodes \ r.aliases
  /\ ecAlias' = [i \in EcIds |-> IF i \in r.aliases THEN r.primary ELSE ecAlias[i]]
  /\ ecBy' = [i \in EcIds |-> IF i \notin r.aliases THEN ecBy[i]
                              ELSE IF r.safe THEN "auto" ELSE "human"]
  /\ ecLoops' = [i \in EcIds |-> IF i \notin r.aliases THEN ecLoops[i]
                                 ELSE {e \in loops : i \in {e.from, e.to}}]
  /\ ecCall' = [ecCall EXCEPT ![c] =
       IF r.listed THEN EcMove(r, "merged", {}) ELSE EcIdle]
  /\ UNCHANGED <<ecSug, ecPass, ecTurns>>

\* The suggestion's status, in a third transaction, whatever it is by now.
EcSettle(c) ==
  LET r == ecCall[c] IN
  /\ r.at \in {"merged", "refused"}
  /\ ecSug' = [pair \in EcPairs |->
       IF pair[1] = r.primary /\ {pair[2]} = r.aliases
       THEN IF r.at = "merged" THEN "applied" ELSE "dismissed"
       ELSE ecSug[pair]]
  /\ ecCall' = [ecCall EXCEPT ![c] = EcIdle]
  /\ UNCHANGED <<ecTables, ecPass, ecTurns>>

-----------------------------------------------------------------------------
\* unmerge_alias: step 4 moves the lanes' ends back, one side at a time.
EcFromBack(e, alias) ==
  IF e.fl = alias THEN [e EXCEPT !.from = alias, !.fl = EcNone] ELSE e
EcToBack(e, alias) ==
  IF e.tl = alias THEN [e EXCEPT !.to = alias, !.tl = EcNone] ELSE e
EcBack(alias) == {EcToBack(EcFromBack(e, alias), alias) : e \in ecEdges}

\* Step 5 puts a snapshotted self-loop on the alias itself.
EcLoopsBack(alias) ==
  {[e EXCEPT !.from = alias, !.to = alias] : e \in ecLoops[alias]}

\* A copy of the alias node, or two rows on one lane, is a unique violation
\* and the unmerge rolls back.
EcUnmerge(alias) ==
  /\ EcLockFree
  /\ ecAlias[alias] # EcNone
  /\ alias \notin ecNodes
  /\ Cardinality(EcBack(alias)) = Cardinality(ecEdges)
  /\ Cardinality(EcLoopsBack(alias)) = Cardinality(ecLoops[alias])
  /\ EcLoopsBack(alias) \cap EcBack(alias) = {}
  /\ EcTurn
  /\ ecNodes' = ecNodes \cup {alias}
  /\ ecEdges' = EcBack(alias) \cup EcLoopsBack(alias)
  /\ ecAlias' = [ecAlias EXCEPT ![alias] = EcNone]
  /\ ecBy' = [ecBy EXCEPT ![alias] = EcNone]
  /\ ecLoops' = [ecLoops EXCEPT ![alias] = {}]
  /\ UNCHANGED <<ecSug, ecPass, ecCall>>

EcNext ==
  \/ \E p \in EcPassers : (\E e \in EcSpecs : EcResolve(p, e)) \/ EcWrite(p)
  \/ \E c \in EcCallers :
       \/ \E primary \in EcIds :
            \/ \E aliases \in SUBSET EcIds : EcAsk(c, primary, aliases)
            \/ \E node \in EcIds : EcJudge(c, node, primary)
       \/ \E pair \in EcPairs : EcApprove(c, pair)
       \/ EcOpen(c) \/ EcRefuse(c) \/ EcClose(c) \/ EcSettle(c)
  \/ \E node, primary \in EcIds : EcSuggest(node, primary)
  \/ \E pair \in EcPairs : EcDismiss(pair)
  \/ \E alias \in EcIds : EcUnmerge(alias)

EcSpec == EcInit /\ [][EcNext]_ecVars

-----------------------------------------------------------------------------
\* Every alias routes, through any chain, to an id that is no alias and whose
\* node exists: no two merges or unmerges in flight fold nodes into each
\* other or delete the node a cluster routes to.
RoutingEndsAtNode ==
  \A i \in EcIds : ecAlias[i] # EcNone =>
    ecAlias[EcRoot(i)] = EcNone /\ EcRoot(i) \in ecNodes

\* Only a direct human merge deletes the primary of a cluster or a document's
\* own node; auto-merge and approvals, which decided on what they read
\* before the lock, never do.
AutoMergeIsSafe ==
  \A i \in EcIds : ecBy[i] = "auto" =>
    i \notin EcDocs /\ \A j \in EcIds : ecAlias[j] # i

=============================================================================
