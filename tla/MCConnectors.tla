---------------------------- MODULE MCConnectors ----------------------------
(***************************************************************************)
(* The connectors: the credentials they use, the GitHub walk, the events   *)
(* they receive and the names they resolve.  The parts keep separate       *)
(* state, so a behaviour exercises the one `part` names.  The other walks  *)
(* and the pollers are in MCProgress.                                      *)
(***************************************************************************)
EXTENDS GitHubWalk, SourceEvents, SlackNames, Tokens, DeviceTokens

CONSTANT Parts

VARIABLE part

vars == <<part, gwVars, seVars, snVars, tkVars, dvVars>>

MCRepos == <<"a", "b">>
MCGwPages == [a |-> <<<<{"a1"}, {"a2"}>>, <<>>, <<>>, <<>>>>,
              b |-> <<<<>>, <<{"b1"}>>, <<>>, <<>>>>]
MCReplies == {<<>>, <<"errors">>, <<"errors_data">>, <<"5xx", "recoverable">>}

MCSeCrew == [slack |-> 2, linear |-> 2, notion |-> 1, sentry |-> 2]
MCSnCrew == <<{1, 2}, {}>>

MCFirst == [rotating |-> "a", sentry |-> "none"]
MCGens == [rotating |-> 3, sentry |-> 2]

\* A part that is not exercised stays in one initial state.
Init ==
    /\ part \in Parts
    /\ GwInit /\ SeInit /\ SnInit /\ TkInit /\ DvInit
    /\ part # "walk" => gwStrict
    /\ part # "events" => seSource = "slack"
    /\ part # "tokens" => tkSource = "rotating"

Walk == part = "walk" /\ GwNext
        /\ UNCHANGED <<seVars, snVars, tkVars, dvVars>>
Events == part = "events" /\ SeNext
        /\ UNCHANGED <<gwVars, snVars, tkVars, dvVars>>
Names == part = "names" /\ SnNext
        /\ UNCHANGED <<gwVars, seVars, tkVars, dvVars>>
Token == part = "tokens" /\ TkNext
        /\ UNCHANGED <<gwVars, seVars, snVars, dvVars>>
Device == part = "devices" /\ DvNext
        /\ UNCHANGED <<gwVars, seVars, snVars, tkVars>>

Next ==
    /\ part' = part
    /\ Walk \/ Events \/ Names \/ Token \/ Device

Spec == Init /\ [][Next]_vars
=============================================================================
