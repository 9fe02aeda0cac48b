---------------------------- MODULE GathererLoop ----------------------------
(***************************************************************************)
(* The gatherer's multi-turn loop (engine/retrieval/agent/loop.py,         *)
(* _drive_loop): each turn is one LLM call, hedged by a second provider    *)
(* when the first is slow, failed over when it errors and retried once     *)
(* when its output was cut at the cap; the tools the model asks for are    *)
(* run and answered, until it emits, is forced to emit, or times out.      *)
(* One action is the code between two awaits.                              *)
(***************************************************************************)
EXTENDS Naturals, Sequences, FiniteSets, SequencesExt

CONSTANTS
  Replies,        \* tool calls a response may carry: sequences of call kinds
  HasFallback,    \* SEARCH_AGENT_FALLBACK_INFERENCE_MODEL is configured
  ToolBudget, ExtensionGrant, MaxExtensions, SoftTurnCap,
  ContextRoom     \* large tool messages that fit the context window

ASSUME LoopAssumption ==
  /\ {ToolBudget, ExtensionGrant, MaxExtensions, SoftTurnCap, ContextRoom} \subseteq Nat
  /\ HasFallback \in BOOLEAN

VARIABLES
  lpc,         \* where the loop waits: top, call, tools, ended
  phase,       \* which await of _run_turn / _acompletion_hedged
  flight,      \* LLM calls awaited
  orphans,     \* LLM calls still running that nothing awaits
  callModel,   \* call_kwargs["model"]
  llm,         \* [model, failedOver, retryUsed]: LoopState's provider fields
  primaryErr,  \* the primary's error while the hedge is pending
  firstReply,  \* the truncated response kept while the length retry runs
  messages,    \* the chat history after the first user message
  spent,       \* [turns, calls, budget, extensions]: LoopState's ledger
  last,        \* [exhausted, forced]: the caps read before the turn
  asked,       \* tool calls being executed
  capped,      \* some recorded turn has finish_reason "length"
  failures,    \* Len(failed_turn_latencies_ms)
  outcome      \* what the loop returned or raised

loopVars == <<lpc, phase, flight, orphans, callModel, llm, primaryErr, firstReply,
              messages, spent, last, asked, capped, failures, outcome>>

Models == {"primary", "fallback"}
Errors == {"transient", "overflow", "fatal"}
Terminal == {"emit_full", "emit_empty", "emit_bad"}

LoopInit ==
  /\ lpc = "top" /\ phase = "idle" /\ flight = {} /\ orphans = {}
  /\ callModel = "primary" /\ primaryErr = "none" /\ firstReply = <<>>
  /\ llm = [model |-> "primary", failedOver |-> FALSE, retryUsed |-> FALSE]
  /\ messages = <<>> /\ asked = <<>> /\ capped = FALSE
  /\ spent = [turns |-> 0, calls |-> 0, budget |-> ToolBudget, extensions |-> 0]
  /\ last = [exhausted |-> FALSE, forced |-> FALSE]
  /\ failures = 0 /\ outcome = "running"
-----------------------------------------------------------------------------
(* The chat history. *)

Assistant(ids) == [role |-> "assistant", ids |-> ids, size |-> "small"]
ToolMessage(id, size) == [role |-> "tool", ids |-> {id}, size |-> size]
Nudge == [role |-> "user", ids |-> {}, size |-> "small"]

IsLarge(m) == m.role = "tool" /\ m.size = "large"
LargeAt(ms) == {i \in DOMAIN ms : IsLarge(ms[i])}

(* _enforce_context_budget: the oldest large tool results become stubs,   *)
(* one at a time, until the rest fits; no message is removed.             *)
EnforceContextBudget(ms) ==
  LET excess == Cardinality(LargeAt(ms)) - ContextRoom
      older(i) == Cardinality({j \in LargeAt(ms) : j < i})
  IN [i \in DOMAIN ms |-> IF i \in LargeAt(ms) /\ older(i) < excess
                          THEN [ms[i] EXCEPT !.size = "stub"] ELSE ms[i]]

CallIds(turn, reply) == {<<turn, k>> : k \in DOMAIN reply}
Skipped(turn, reply) == [k \in DOMAIN reply |-> ToolMessage(<<turn, k>>, "small")]

(* Variant: the echoed calls are left without an answer. *)
ForceWithoutSkips(turn, reply) == <<Assistant(CallIds(turn, reply)), Nudge>>

(* The forcing nudge: the calls are echoed, each answered by a skip.      *)
ForceTerminate(turn, reply) ==
  <<Assistant(CallIds(turn, reply))>> \o Skipped(turn, reply) \o <<Nudge>>
-----------------------------------------------------------------------------
(* One turn. *)

Ended(o) == /\ lpc' = "ended" /\ phase' = "idle" /\ outcome' = o

(* The top of the loop and _run_turn up to its first await.               *)
BeginTurn ==
  /\ lpc = "top"
  /\ lpc' = "call"
  /\ last' = IF last.forced THEN last
             ELSE [last EXCEPT !.exhausted = \/ spent.calls >= spent.budget
                                             \/ spent.turns >= SoftTurnCap]
  /\ messages' = EnforceContextBudget(messages)
  /\ callModel' = llm.model
  /\ flight' = {llm.model}
  /\ phase' = IF llm.failedOver \/ ~HasFallback THEN "plain" ELSE "lead"
  /\ primaryErr' = "none"
  /\ UNCHANGED <<orphans, llm, firstReply, spent, asked, capped, failures, outcome>>

(* SEARCH_AGENT_HEDGE_AFTER_SECONDS passed: the second call starts.       *)
StartHedge ==
  /\ lpc = "call" /\ phase = "lead"
  /\ phase' = "hedge"
  /\ flight' = flight \cup {"fallback"}
  /\ UNCHANGED <<lpc, orphans, callModel, llm, primaryErr, firstReply, messages, spent,
                 last, asked, capped, failures, outcome>>

Granted(reply) ==
  LET deeper == Cardinality({k \in DOMAIN reply : reply[k] = "need_deeper"})
      room == MaxExtensions - spent.extensions
  IN IF deeper < room THEN deeper ELSE room

(* _execute_tool_call up to its first await, for each call in order: an   *)
(* undecodable call is not counted, need_deeper extends the budget.       *)
Charge(reply) ==
  [spent EXCEPT !.turns = @ + 1,
                !.calls = @ + Cardinality({k \in DOMAIN reply : reply[k] # "bad_json"}),
                !.extensions = @ + Granted(reply),
                !.budget = @ + ExtensionGrant * Granted(reply)]

EmittedIn(reply) == {k \in DOMAIN reply : reply[k] \in Terminal}
FirstOf(S) == CHOOSE k \in S : \A j \in S : k <= j
Parsed(kind) == CASE kind = "emit_full" -> "full" [] kind = "emit_empty" -> "empty" [] OTHER -> "none"

(* What _drive_loop does with a completed turn.                           *)
TurnDone(reply, cut) ==
  LET turn == spent.turns + 1
      counted == [spent EXCEPT !.turns = turn]
  IN /\ flight' = {}
     /\ capped' = (capped \/ cut)
     /\ firstReply' = <<>>
     /\ IF EmittedIn(reply) # {}
        THEN /\ Ended(Parsed(reply[FirstOf(EmittedIn(reply))]))
             /\ spent' = counted /\ UNCHANGED <<messages, asked, last>>
        ELSE IF reply = <<>> \/ last.forced
        THEN /\ Ended("none")
             /\ spent' = counted /\ UNCHANGED <<messages, asked, last>>
        ELSE IF last.exhausted
        THEN /\ messages' = messages \o ForceTerminate(turn, reply)
             /\ last' = [last EXCEPT !.forced = TRUE]
             /\ lpc' = "top" /\ phase' = "idle"
             /\ spent' = counted /\ UNCHANGED <<asked, outcome>>
        ELSE /\ messages' = Append(messages, Assistant(CallIds(turn, reply)))
             /\ spent' = Charge(reply)
             /\ asked' = reply
             /\ lpc' = "tools" /\ phase' = "idle"
             /\ UNCHANGED <<last, outcome>>

RetryLength(reply) ==
  /\ llm' = [llm EXCEPT !.retryUsed = TRUE]
  /\ phase' = "retry" /\ flight' = {callModel} /\ firstReply' = reply
  /\ UNCHANGED <<lpc, messages, spent, last, asked, capped, failures, outcome>>

(* The turn has a response: retry it once if it was cut, else finish it.  *)
Receive(reply, cut) ==
  IF cut /\ ~llm.retryUsed
  THEN RetryLength(reply)
  ELSE TurnDone(reply, cut) /\ UNCHANGED <<llm, failures>>

(* A call awaited alone answers.                                          *)
Answer(reply, cut) ==
  /\ lpc = "call" /\ phase \in {"plain", "lead", "recover"}
  /\ Receive(reply, cut)
  /\ UNCHANGED <<orphans, callModel, primaryErr>>

(* One of the two raced calls answers first; the other is cancelled. The  *)
(* run is the fallback's from then on, but call_kwargs keeps the primary. *)
WinRace(m, reply, cut) ==
  /\ lpc = "call" /\ phase = "hedge" /\ m \in flight
  /\ IF m = "fallback"
     THEN LET won == [llm EXCEPT !.model = "fallback", !.failedOver = TRUE]
          IN IF cut /\ ~llm.retryUsed
             THEN /\ llm' = [won EXCEPT !.retryUsed = TRUE]
                  /\ phase' = "retry" /\ flight' = {callModel} /\ firstReply' = reply
                  /\ UNCHANGED <<lpc, messages, spent, last, asked, capped, failures, outcome>>
             ELSE TurnDone(reply, cut) /\ llm' = won /\ UNCHANGED <<failures>>
     ELSE Receive(reply, cut)
  /\ UNCHANGED <<orphans, callModel, primaryErr>>

(* The length retry answers: the first attempt's time is a failure's.     *)
RetryAnswers(reply, cut) ==
  /\ lpc = "call" /\ phase = "retry"
  /\ TurnDone(reply, cut)
  /\ failures' = failures + 1
  /\ UNCHANGED <<orphans, callModel, llm, primaryErr>>

(* The length retry fails: the truncated response stands.                 *)
RetryFails ==
  /\ lpc = "call" /\ phase = "retry"
  /\ TurnDone(firstReply, TRUE)
  /\ failures' = failures + 1
  /\ UNCHANGED <<orphans, callModel, llm, primaryErr>>

(* A call awaited alone raises: the primary's error moves the run to the  *)
(* fallback for one more attempt, any other ends the loop.                *)
CallFails(err) ==
  /\ lpc = "call" /\ phase \in {"plain", "lead", "recover"}
  /\ failures' = failures + 1
  /\ IF phase = "lead"
     THEN /\ llm' = [llm EXCEPT !.model = "fallback", !.failedOver = TRUE]
          /\ callModel' = "fallback" /\ flight' = {"fallback"} /\ phase' = "recover"
          /\ UNCHANGED <<lpc, outcome>>
     ELSE Ended(err) /\ flight' = {} /\ UNCHANGED <<callModel, llm>>
  /\ UNCHANGED <<orphans, primaryErr, firstReply, messages, spent, last, asked, capped>>

(* A raced call raises. The fallback's failure is recorded here, the      *)
(* primary's by _run_turn once it is raised: when both failed.            *)
RaceFailures(m, both) == (IF m = "fallback" THEN 1 ELSE 0) + (IF both THEN 1 ELSE 0)

RaceCallFails(m, err) ==
  LET both == flight = {m}
  IN /\ lpc = "call" /\ phase = "hedge" /\ m \in flight
     /\ flight' = flight \ {m}
    
     /\ failures' = failures + RaceFailures(m, both)
     /\ primaryErr' = IF m = "primary" THEN err ELSE primaryErr
     /\ IF both THEN Ended(primaryErr') /\ llm' = [llm EXCEPT !.failedOver = TRUE]
                ELSE UNCHANGED <<lpc, phase, outcome, llm>>
     /\ UNCHANGED <<orphans, callModel, firstReply, messages, spent, last, asked, capped>>

(* Every tool returned: one tool message per call, in call order. A call  *)
(* that did not decode, or need_deeper, has a short answer.               *)
ToolsReturn(large) ==
  /\ lpc = "tools"
  /\ lpc' = "top"
  /\ messages' = messages \o
       [k \in DOMAIN asked |-> ToolMessage(<<spent.turns, k>>,
          IF large /\ asked[k] \notin {"bad_json", "need_deeper"} THEN "large" ELSE "small")]
  /\ asked' = <<>>
  /\ UNCHANGED <<phase, flight, orphans, callModel, llm, primaryErr, firstReply, spent,
                 last, capped, failures, outcome>>

(* asyncio.wait_for cancels the loop at any of its awaits. The race       *)
(* cancels both calls, a call awaited directly is cancelled with it, but  *)
(* the wait that precedes the hedge leaves its task running.              *)
LoopTimeout ==
  /\ lpc \in {"call", "tools"}
  /\ Ended("timeout")
  /\ orphans' = IF phase = "lead" THEN orphans \cup flight ELSE orphans
  /\ flight' = {} /\ asked' = <<>>
  /\ UNCHANGED <<callModel, llm, primaryErr, firstReply, messages, spent, last, capped,
                 failures>>

LoopNext ==
  \/ BeginTurn \/ StartHedge \/ RetryFails \/ LoopTimeout
  \/ \E reply \in Replies, cut \in BOOLEAN :
        \/ Answer(reply, cut) \/ RetryAnswers(reply, cut)
        \/ \E m \in Models : WinRace(m, reply, cut)
  \/ \E err \in Errors : CallFails(err) \/ \E m \in Models : RaceCallFails(m, err)
  \/ \E large \in BOOLEAN : ToolsReturn(large)

-----------------------------------------------------------------------------
(* The chat contract strict providers enforce: in every request sent, an  *)
(* assistant message with tool calls is followed by one tool message per  *)
(* call. The forced last turn, which runs none of them, keeps it too.     *)
EveryCallAnswered ==
  flight # {} =>
    \A i \in DOMAIN messages : messages[i].role = "assistant" =>
      LET n == Cardinality(messages[i].ids)
      IN /\ i + n <= Len(messages)
         /\ messages[i].ids = UNION {messages[j].ids : j \in (i + 1)..(i + n)}
         /\ \A j \in (i + 1)..(i + n) : messages[j].role = "tool"

=============================================================================
