---------------------------- MODULE MCKnowledge ----------------------------
(***************************************************************************)
(* What ingestion leaves behind: the versions of a document, the graph and *)
(* its post-write queue, the clusters of merged entities and the inferred  *)
(* edges.  The parts keep separate state, so a behaviour exercises the one *)
(* `part` names.                                                           *)
(***************************************************************************)
EXTENDS DocumentVersions, GraphStore, EntityClusters, InferredEdges, TLC

CONSTANT Parts

VARIABLE part

vars == <<part, vrVars, gsVars, ecVars, ieVars>>

\* A session's and a unit's document may be the first of its id; a plain
\* document is there already.
MCBorn == [plain |-> {"born"}, session |-> {"born", "absent"}, unit |-> {"born", "absent"}]
MCUnborn == [plain |-> {"absent"}, session |-> {"absent"}, unit |-> {"absent"}]

\* An edge can be asserted before either of its ends.
MCInputs == {[nodes |-> {}, edges |-> {<<"x", "y">>}],
             [nodes |-> {"x"}, edges |-> {}],
             [nodes |-> {"y"}, edges |-> {<<"x", "y">>}]}

MCSpecs == {<<"b", "c">>, <<"a", "b">>}

MCSessionOf == "s" :> 1 @@ "t" :> 2

\* A part that is not exercised stays in one initial state.
Init ==
    /\ part \in Parts
    /\ VrInit /\ GsInit /\ EcInit /\ IeInit
    /\ part # "versions" =>
          /\ vrKind = "plain"
          /\ vrHist = <<[body |-> CHOOSE b \in VrBodies : TRUE,
                         mode |-> CHOOSE m \in VrModesOf("plain") : TRUE]>>

Next ==
    /\ part' = part
    /\ \/ part = "versions" /\ VrNext /\ UNCHANGED <<gsVars, ecVars, ieVars>>
       \/ part = "graph" /\ GsNext /\ UNCHANGED <<vrVars, ecVars, ieVars>>
       \/ part = "clusters" /\ EcNext /\ UNCHANGED <<vrVars, gsVars, ieVars>>
       \/ part = "inferred" /\ IeNextStep /\ UNCHANGED <<vrVars, gsVars, ecVars>>

Spec == Init /\ [][Next]_vars

=============================================================================
