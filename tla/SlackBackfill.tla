---------------------------- MODULE SlackBackfill ----------------------------
(***************************************************************************)
(* The history backfill of one Slack workspace: the singleton              *)
(* backfill_state row, the runners that claim it (kb/backfill_runner.py),  *)
(* the connector's walk over channels (kb/handlers/slack.py), and channels *)
(* that become visible while the row is in any state                       *)
(* (enqueue_slack_channel_backfill).                                       *)
(*                                                                         *)
(* A channel's history is one unit of work.  The persisted cursor holds    *)
(* the channels still to walk and those deferred behind the running walk;  *)
(* a row without a cursor asks for every visible channel.                  *)
(***************************************************************************)
EXTENDS Naturals, FiniteSets

CONSTANTS
    Channels,
    FirstChannels,  \* those visible at the start
    Runners,
    Interrupts,     \* what can end or overtake a runner in this instance
    MaxInterrupts,  \* bound: how often
    MaxFull,        \* bound: full backfills an operator asks for
    AwkwardJoins,   \* do channels join before a run's first checkpoint, or
                    \* a row that waits with deferred channels
    EarlyProgress,  \* does a run write progress before its first checkpoint
    NoCursor

InterruptKinds == {"release", "die", "fail", "lapse", "skip", "early_lapse", "early_request"}

ASSUME BackfillAssumption ==
    /\ FirstChannels \subseteq Channels /\ FirstChannels # {}
    /\ Interrupts \subseteq InterruptKinds
    /\ MaxInterrupts \in Nat /\ MaxFull \in Nat
    /\ AwkwardJoins \in BOOLEAN /\ EarlyProgress \in BOOLEAN

VARIABLES
    status,     \* of the backfill_state row, "none" without one
    token,      \* its started_at: the claim token, 0 for NULL
    cursor,     \* its last_cursor
    visible,    \* channels the bot is in
    flushed,    \* channels whose history is in the ingestion queue
    owed,       \* channels a request was answered for: walked or still to walk
    deferred,   \* channels answered "deferred_until_running_backfill_finishes"
    clock,      \* time stamps given out
    full,       \* full backfills asked for
    interrupts, \* interrupts so far
    stage, mine, latest, todo, buffer
                \* per runner: where it is, its claim token, its cursor, the
                \* channels its walk has left, those walked and not flushed

rowVars == <<status, token, cursor>>
promises == <<owed, deferred>>
bounds == <<full, interrupts>>
runnerVars == <<stage, mine, latest, todo, buffer>>
vars == <<rowVars, visible, flushed, promises, clock, bounds, runnerVars>>

Cursors == [active : SUBSET Channels, later : SUBSET Channels]

Init ==
    /\ status = "none" /\ token = 0 /\ cursor = NoCursor
    /\ visible = FirstChannels
    /\ flushed = {} /\ owed = {} /\ deferred = {}
    /\ clock = 0 /\ full = 0 /\ interrupts = 0
    /\ stage = [u \in Runners |-> "idle"]
    /\ mine = [u \in Runners |-> 0]
    /\ latest = [u \in Runners |-> NoCursor]
    /\ todo = [u \in Runners |-> {}]
    /\ buffer = [u \in Runners |-> {}]

Interrupt(kind) ==
    /\ kind \in Interrupts
    /\ interrupts < MaxInterrupts
    /\ interrupts' = interrupts + 1
    /\ UNCHANGED full

(* Between its claim and _mark_running a runner holds no token yet. *)
Starting(u) == stage[u] \in {"claimed", "loaded"}

Admits == (\E u \in Runners : Starting(u)) => "early_request" \in Interrupts

(* _slack_deferred_channels: an unset cursor defers nothing. *)
Later(c) == IF c = NoCursor THEN {} ELSE c.later

(* _slack_state_from_cursor and _decode_slack_cursor. *)
Active(c) == IF c = NoCursor THEN {} ELSE c.active

(* _slack_channel_cursor *)
ChannelCursor(chs) == [active |-> chs, later |-> {}]

-----------------------------------------------------------------------------
(* Requests *)

(* enqueue_backfill: start over, whatever the row was doing. *)
EnqueueBackfill ==
    /\ full < MaxFull /\ Admits
    /\ full' = full + 1
    /\ status' = "pending" /\ token' = 0 /\ cursor' = NoCursor
    /\ owed' = owed \cup visible
    /\ deferred' = {}
    /\ UNCHANGED <<visible, flushed, clock, interrupts, runnerVars>>

(* Queue it behind the running walk. *)
Defer(ch) ==
    /\ status = "running"
    /\ cursor' = [active |-> Active(cursor), later |-> Later(cursor) \cup {ch}]
    /\ deferred' = deferred \cup {ch}
    /\ UNCHANGED <<status, token, owed>>

(* Replace the row by a walk of its channels and this one. *)
QueueChannel(ch) ==
    /\ status # "running"
    /\ ~(status = "pending" /\ cursor = NoCursor)
    /\ status' = "pending"
    /\ token' = 0
    /\ cursor' = ChannelCursor(Active(cursor) \cup {ch})
    /\ owed' = owed \cup {ch}
    /\ UNCHANGED deferred

(* A pending full backfill will see the channel. *)
CoveredByFull(ch) ==
    /\ status = "pending" /\ cursor = NoCursor
    /\ owed' = owed \cup {ch}
    /\ UNCHANGED <<rowVars, deferred>>

Awkward == IF status = "running" THEN cursor = NoCursor ELSE Later(cursor) # {}

(* The bot joins a channel: enqueue_slack_channel_backfill. *)
JoinChannel(ch) ==
    /\ ch \notin visible /\ Admits
    /\ Awkward => AwkwardJoins
    /\ visible' = visible \cup {ch}
    /\ Defer(ch) \/ QueueChannel(ch) \/ CoveredByFull(ch)
    /\ UNCHANGED <<flushed, clock, bounds, runnerVars>>

-----------------------------------------------------------------------------
(* A runner *)

Forget(u) ==
    /\ stage' = [stage EXCEPT ![u] = "idle"]
    /\ mine' = [mine EXCEPT ![u] = 0]
    /\ latest' = [latest EXCEPT ![u] = NoCursor]
    /\ todo' = [todo EXCEPT ![u] = {}]
    /\ buffer' = [buffer EXCEPT ![u] = {}]

ClaimPendingBackfill(u) ==
    /\ stage[u] = "idle"
    /\ status = "pending"
    /\ status' = "running"
    /\ clock' = clock + 1
    /\ token' = clock + 1
    /\ stage' = [stage EXCEPT ![u] = "claimed"]
    /\ UNCHANGED <<cursor, visible, flushed, promises, bounds, mine, latest, todo, buffer>>

LoadResumeState(u) ==
    /\ stage[u] = "claimed"
    /\ latest' = [latest EXCEPT ![u] = cursor]
    /\ mine' = [mine EXCEPT ![u] = token]
    /\ stage' = [stage EXCEPT ![u] = "loaded"]
    /\ UNCHANGED <<rowVars, visible, flushed, promises, clock, bounds, todo, buffer>>

(* _mark_running takes the row as it is and adopts its token. *)
MarkRunning(u) ==
    /\ stage[u] = "loaded"
    /\ status' = "running"
    /\ clock' = IF token = 0 THEN clock + 1 ELSE clock
    /\ token' = IF token = 0 THEN clock + 1 ELSE token
    /\ mine' = [mine EXCEPT ![u] = token']
    /\ stage' = [stage EXCEPT ![u] = "listing"]
    /\ UNCHANGED <<cursor, visible, flushed, promises, bounds, latest, todo, buffer>>

(* SlackConnector.backfill: without a cursor, every visible channel. *)
ListChannels(u) ==
    /\ stage[u] = "listing"
    /\ todo' = [todo EXCEPT ![u] = IF latest[u] = NoCursor THEN visible ELSE Active(latest[u])]
    /\ stage' = [stage EXCEPT ![u] = "walking"]
    /\ UNCHANGED <<rowVars, visible, flushed, promises, clock, bounds, mine, latest, buffer>>

(* One channel's messages enter the runner's batch. *)
WalkChannel(u, ch) ==
    /\ stage[u] = "walking"
    /\ ch \in todo[u]
    /\ todo' = [todo EXCEPT ![u] = @ \ {ch}]
    /\ buffer' = [buffer EXCEPT ![u] = @ \cup {ch}]
    /\ UNCHANGED <<rowVars, visible, flushed, promises, clock, bounds, stage, mine, latest>>

(* Slack does not answer for a channel: the walk gives it up. *)
SkipChannel(u, ch) ==
    /\ stage[u] = "walking"
    /\ ch \in todo[u]
    /\ Interrupt("skip")
    /\ todo' = [todo EXCEPT ![u] = @ \ {ch}]
    /\ owed' = owed \ {ch}
    /\ deferred' = deferred \ {ch}
    /\ UNCHANGED <<rowVars, visible, flushed, clock, stage, mine, latest, buffer>>

(* The walk yields a checkpoint at the end of each round, the last included. *)
RoundsLeft(u) == latest[u] = NoCursor \/ Active(latest[u]) # {}

(* Every write of a run is fenced by its claim. *)
OwnsRow(u) == status = "running" /\ token = mine[u]

(* _update_progress keeps what was deferred, unless it has no cursor. *)
Merged(c) ==
    IF c = NoCursor THEN NoCursor
    ELSE [active |-> c.active, later |-> c.later \cup Later(cursor)]

(* _flush_now on a full batch, without or with a progress write. *)
FlushBatch(u) ==
    /\ stage[u] = "walking"
    /\ buffer[u] # {}
    /\ flushed' = flushed \cup buffer[u]
    /\ \/ /\ buffer' = [buffer EXCEPT ![u] = {}]
          /\ UNCHANGED <<rowVars, stage, mine, latest, todo>>
       \/ /\ latest[u] = NoCursor => EarlyProgress
          /\ IF OwnsRow(u)
             THEN /\ cursor' = Merged(latest[u])
                  /\ buffer' = [buffer EXCEPT ![u] = {}]
                  /\ UNCHANGED <<status, token, stage, mine, latest, todo>>
             ELSE Forget(u) /\ UNCHANGED rowVars
    /\ UNCHANGED <<visible, promises, clock, bounds>>

(* Variant: the cursor is written before the batch. *)
CheckpointFirst(u) ==
    /\ stage[u] = "walking" /\ RoundsLeft(u)
    /\ IF OwnsRow(u)
       THEN /\ cursor' = Merged(ChannelCursor(todo[u]))
            /\ latest' = [latest EXCEPT ![u] = ChannelCursor(todo[u])]
            /\ UNCHANGED <<status, token, stage, mine, todo, buffer>>
       ELSE Forget(u) /\ UNCHANGED rowVars
    /\ UNCHANGED <<visible, flushed, promises, clock, bounds>>

(* The end of a round: flush, then advance the cursor. *)
Checkpoint(u) ==
    /\ stage[u] = "walking" /\ RoundsLeft(u)
    /\ flushed' = flushed \cup buffer[u]
    /\ IF OwnsRow(u)
       THEN /\ cursor' = Merged(ChannelCursor(todo[u]))
            /\ latest' = [latest EXCEPT ![u] = ChannelCursor(todo[u])]
            /\ buffer' = [buffer EXCEPT ![u] = {}]
            /\ UNCHANGED <<status, token, stage, mine, todo>>
       ELSE Forget(u) /\ UNCHANGED rowVars
    /\ UNCHANGED <<visible, promises, clock, bounds>>

(* _mark_done: complete, or pending again for what was deferred. *)
MarkDone(u) ==
    /\ stage[u] = "walking"
    /\ ~RoundsLeft(u) /\ buffer[u] = {}
    /\ IF ~OwnsRow(u) THEN UNCHANGED rowVars
       ELSE IF Later(cursor) # {}
       THEN status' = "pending" /\ token' = 0 /\ cursor' = ChannelCursor(Later(cursor))
       ELSE status' = "complete" /\ cursor' = latest[u] /\ UNCHANGED token
    /\ Forget(u)
    /\ UNCHANGED <<visible, flushed, promises, clock, bounds>>

(* _mark_failed, also without a token: the promises end with a reported failure. *)
MarkFailed(u) ==
    /\ stage[u] \in {"loaded", "listing", "walking"}
    /\ Interrupt("fail")
    /\ IF OwnsRow(u)
       THEN status' = "failed" /\ owed' = {} /\ deferred' = {}
       ELSE UNCHANGED <<status, promises>>
    /\ Forget(u)
    /\ UNCHANGED <<token, cursor, visible, flushed, clock>>

(* Shutdown: _release_for_resume. *)
ReleaseForResume(u) ==
    /\ stage[u] \in {"listing", "walking"}
    /\ Interrupt("release")
    /\ IF OwnsRow(u) THEN status' = "pending" /\ token' = 0 ELSE UNCHANGED <<status, token>>
    /\ Forget(u)
    /\ UNCHANGED <<cursor, visible, flushed, promises, clock>>

(* Killed, or stopped because the source was disconnected. *)
RunnerDies(u) ==
    /\ stage[u] # "idle"
    /\ Interrupt("die")
    /\ Forget(u)
    /\ UNCHANGED <<rowVars, visible, flushed, promises, clock>>

Beating(u) == stage[u] \in {"listing", "walking"} /\ mine[u] = token

(* Variant: the claim token is cleared and the status is not. *)
ReclaimTokenOnly ==
    /\ status = "running"
    /\ \A u \in Runners : ~Beating(u) /\ ~Starting(u)
    /\ token' = 0
    /\ UNCHANGED <<status, cursor, visible, flushed, promises, clock, bounds, runnerVars>>

(***************************************************************************)
(* ReclaimLoop: a stale heartbeat.  Nobody beats for the row; or its       *)
(* runner stalled while it walked, or before it began to beat.             *)
(***************************************************************************)
ReclaimStale ==
    /\ status = "running"
    /\ \/ (\A u \in Runners : ~Beating(u) /\ ~Starting(u)) /\ UNCHANGED bounds
       \/ (\E u \in Runners : Beating(u)) /\ Interrupt("lapse")
       \/ (\E u \in Runners : Starting(u)) /\ Interrupt("early_lapse")
    /\ status' = "pending"
    /\ token' = 0
    /\ UNCHANGED <<cursor, visible, flushed, promises, clock, runnerVars>>

RunnerStep(u) ==
    \/ ClaimPendingBackfill(u) \/ LoadResumeState(u) \/ MarkRunning(u)
    \/ ListChannels(u) \/ (\E ch \in Channels : WalkChannel(u, ch))
    \/ (todo[u] = {} /\ Checkpoint(u)) \/ MarkDone(u)

Next ==
    \/ EnqueueBackfill
    \/ \E ch \in Channels : JoinChannel(ch)
    \/ \E u \in Runners :
         \/ RunnerStep(u) \/ (\E ch \in Channels : SkipChannel(u, ch)) \/ FlushBatch(u) \/ Checkpoint(u)
         \/ MarkFailed(u) \/ ReleaseForResume(u) \/ RunnerDies(u)
    \/ ReclaimStale

Spec == Init /\ [][Next]_vars

(* Runners and the reclaim loop run. *)
FairSpec ==
    Spec /\ (\A u \in Runners : WF_vars(RunnerStep(u))) /\ WF_vars(ReclaimStale)

-----------------------------------------------------------------------------
(* Every variable keeps its shape. *)
TypeOK ==
    /\ status \in {"none", "pending", "running", "complete", "failed"}
    /\ cursor \in {NoCursor} \cup Cursors
    /\ visible \subseteq Channels /\ flushed \subseteq Channels
    /\ owed \subseteq Channels /\ deferred \subseteq Channels
    /\ clock \in Nat /\ token \in 0..clock
    /\ full \in 0..MaxFull /\ interrupts \in 0..MaxInterrupts
    /\ stage \in [Runners -> {"idle", "claimed", "loaded", "listing", "walking"}]
    /\ mine \in [Runners -> 0..clock]
    /\ latest \in [Runners -> {NoCursor} \cup Cursors]
    /\ todo \in [Runners -> SUBSET Channels]
    /\ buffer \in [Runners -> SUBSET Channels]

(* The row still asks for the channel. *)
Asked(ch) ==
    /\ status \in {"pending", "running"}
    /\ cursor = NoCursor \/ ch \in Active(cursor) \cup Later(cursor)

(* A runner is still to deliver it. *)
InHand(u, ch) ==
    \/ stage[u] \in {"loaded", "listing"} /\ (latest[u] = NoCursor \/ ch \in Active(latest[u]))
    \/ stage[u] = "walking" /\ ch \in todo[u] \cup buffer[u]

Pursued(ch) == ch \in flushed \/ Asked(ch) \/ \E u \in Runners : InHand(u, ch)

(***************************************************************************)
(* Every channel a backfill was asked for is in the ingestion queue, named *)
(* by the row, or in a live runner's hands: stopping a runner at any       *)
(* moment and resuming from last_cursor loses no channel                   *)
(* (_release_for_resume, ReclaimLoop, _flush_batch before the cursor).     *)
(***************************************************************************)
ResumeLosesNothing == \A ch \in owed : Pursued(ch)

Promised == owed \cup deferred

(***************************************************************************)
(* Under fair runners and a fair reclaim loop, every promised channel is   *)
(* walked, through kills, releases and lapses, unless its run reports a    *)
(* failure or gives the channel up (run_backfill, ReclaimLoop).            *)
(***************************************************************************)
EveryChannelWalked ==
    \A ch \in Channels :
        (ch \in Promised) ~> (ch \in flushed \/ ch \notin Promised)
=============================================================================
