----------------------------- MODULE MCProgress -----------------------------
(***************************************************************************)
(* What must eventually happen: the Slack backfill, the history walks of   *)
(* Notion, Linear and Granola, the pollers, the queue of inferred edges.   *)
(* The parts keep separate state, so a behaviour exercises the one `part`  *)
(* names; a part that is not exercised enables none of the steps fairness  *)
(* is assumed of.                                                          *)
(***************************************************************************)
EXTENDS SlackBackfill, SourceWalks, Polling, InferredEdges, TLC

CONSTANTS Parts, a, b, u, v

VARIABLE part

otherVars == <<swVars, plVars, ieVars>>
progressVars == <<part, vars, otherVars>>

MCItem(id) == [id |-> id, row |-> FALSE]
MCRow(id) == [id |-> id, row |-> TRUE]
MCPages == [notion |-> <<<<MCItem(1), MCRow(2), MCRow(3)>>, <<MCItem(4)>>, <<MCItem(5)>>>>,
            linear |-> <<<<MCItem(1), MCItem(2)>>, <<MCItem(3)>>, <<MCItem(4)>>>>,
            sentry |-> <<<<MCItem(1), MCItem(2), MCItem(3)>>, <<MCItem(4)>>>>]

MCKinds == [a |-> {"slack", "notion", "linear", "github", "sentry"}, b |-> {"none"}]
MCCap == [slack |-> 4, notion |-> 3, linear |-> 3, github |-> 3, sentry |-> 1]
MCItems == [a |-> 4, b |-> 0]

MCSessionOf == "r" :> 0 @@ "g" :> 0

ProgressInit ==
    /\ part \in Parts
    /\ Init /\ SwInit /\ PlInit /\ IeInit
    /\ part # "walks" => swSource = "linear"
    /\ part # "polling" => plSource["a"] = "slack" /\ plOrder = <<"a", "b">>

Slack(A) == part = "slack" /\ A /\ UNCHANGED otherVars
Walks(A) == part = "walks" /\ A /\ UNCHANGED <<vars, plVars, ieVars>>
Poll(A) == part = "polling" /\ A /\ UNCHANGED <<vars, swVars, ieVars>>
Inferred(A) == part = "inferred" /\ A /\ UNCHANGED <<vars, swVars, plVars>>

ProgressNext ==
    /\ part' = part
    /\ Slack(Next) \/ Walks(SwNext) \/ Poll(PlNext) \/ Inferred(IeNextStep)

\* The steps the service takes by itself: the reclaim loop, the backfill
\* runner and the integration poller, the scheduler's ticks, the drain tasks
\* of the inferred edges.
OwnSteps ==
    /\ part' = part
    /\ \/ Slack(ReclaimStale) \/ Walks(SwStep) \/ Poll(PlStep \/ PlPollError)
       \/ Inferred(IeOwn)

ProgressSpec ==
    /\ ProgressInit /\ [][ProgressNext]_progressVars
    /\ WF_progressVars(OwnSteps)
    /\ \A w \in Runners : WF_progressVars(part' = part /\ Slack(RunnerStep(w)))
    /\ \A r \in DOMAIN PlKinds : WF_progressVars(part' = part /\ Poll(PlAge(r)))
=============================================================================
