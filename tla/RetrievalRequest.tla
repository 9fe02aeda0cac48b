-------------------------- MODULE RetrievalRequest --------------------------
(***************************************************************************)
(* One search request from admission to response: run_gatherer             *)
(* (engine/retrieval/agent/loop.py), the selectors that need no gatherer,  *)
(* the pool's own answer, and the response gate of adapter.py. The         *)
(* gatherer selector runs GathererLoop. Documents are delivered in order;  *)
(* passages, scores and wording are abstracted.                            *)
(***************************************************************************)
EXTENDS GathererLoop

CONSTANTS
  Pools,         \* what the pre-fan-out may find: documents in fused order
  Picks,         \* what a selector may deliver: documents in order
  Pins,          \* what resolve_pins may pin: at most TopK documents
  ResponseDocs,  \* _RESPONSE_DOCS
  TopK,          \* req.top_k
  HardCap        \* SEARCH_AGENT_HARD_CAP

ASSUME RequestAssumption ==
  /\ {ResponseDocs, TopK, HardCap} \subseteq Nat /\ TopK > 0
  /\ \A p \in Pins : Len(p) <= TopK

VARIABLES
  rpc,         \* where the request waits
  req,         \* [selector, pins, pure, scoped, keyed]: fixed once set up
  pool,        \* documents of the pre-fan-out with citable text, fused order
  hits,        \* the pre-fan-out hit count is not zero
  lost,        \* some retrieval channel failed (channel_health)
  scored,      \* documents Jev scored
  rewriteUsed, \* LoopState.rewrite_used
  status,      \* GathererStatus
  chunks,      \* gathered.chunks: documents with the source that put them
  answered,    \* floor.reason = "selector_answered"
  live,        \* documents with a live row in the request's scope
  verified,    \* the last gate reached a verdict on every delivered document
  telemetry,   \* [status, degraded] written to request.state
  response     \* [code, docs, degraded]

requestVars == <<loopVars, rpc, req, pool, hits, lost, scored, rewriteUsed, status,
                 chunks, answered, live, verified, telemetry, response>>

Selectors == {"gatherer", "jev", "floor"}
NonDegraded == {"ok", "zero_recall_short_circuit", "id_lookup_short_circuit"}
Docs == UNION {Range(p) : p \in Pools \cup Picks \cup Pins}

IsDegraded(st) == st \notin NonDegraded
MergeChannelLoss(st, anyLost) ==
  IF anyLost /\ ~IsDegraded(st) THEN "channel_degraded" ELSE st

(* _resolve_selector: explicit, then the tenant's rollout, then the       *)
(* default; jev only for an allowed tenant with a key.                    *)
ResolveSelector(explicit, rollout, default, allowed, key) ==
  LET chosen == IF explicit # "none" THEN explicit ELSE IF rollout THEN "jev" ELSE default
      confined == IF chosen = "jev" /\ ~allowed
                  THEN (IF default # "jev" THEN default ELSE "floor") ELSE chosen
  IN IF confined = "jev" /\ ~key THEN "floor" ELSE confined

RequestInit ==
  /\ LoopInit
  /\ rpc = "start"
  /\ req = [selector |-> "floor", pins |-> <<>>, pure |-> FALSE, scoped |-> FALSE,
            keyed |-> TRUE]
  /\ pool = <<>> /\ hits = FALSE /\ lost = FALSE /\ scored = {} /\ rewriteUsed = FALSE
  /\ status = "ok" /\ chunks = <<>> /\ answered = FALSE /\ live = Docs /\ verified = TRUE
  /\ telemetry = [status |-> "none", degraded |-> FALSE]
  /\ response = [code |-> 0, docs |-> <<>>, degraded |-> FALSE]
-----------------------------------------------------------------------------
(* Setup: grounding, identifier pins, selector, extraction, pre-fan-out.  *)

EmptyQuery ==
  /\ rpc = "start"
  /\ rpc' = "done" /\ response' = [code |-> 400, docs |-> <<>>, degraded |-> FALSE]
  /\ UNCHANGED <<loopVars, req, pool, hits, lost, scored, rewriteUsed, status, chunks,
                 answered, live, verified, telemetry>>

(* Grounding and the identifier lookup; a failure of either costs its     *)
(* result only. A pure lookup has every identifier pinned and no other    *)
(* words; the selector is resolved once.                                  *)
Ground ==
  /\ rpc = "start"
  /\ \E explicit \in Selectors \cup {"none"}, rollout, allowed, key \in BOOLEAN,
        default \in Selectors, pins \in Pins, pure, scoped, keyed \in BOOLEAN :
       /\ pure => pins # <<>>
       /\ req' = [selector |-> ResolveSelector(explicit, rollout, default, allowed, key),
                  pins |-> pins, pure |-> pure, scoped |-> scoped, keyed |-> keyed]
  /\ rpc' = "authors"
  /\ UNCHANGED <<loopVars, pool, hits, lost, scored, rewriteUsed, status, chunks, answered,
                 live, verified, telemetry, response>>

(* entity_must_match: a pin by another author is unresolved after all,    *)
(* and the lookup is no longer pure.                                      *)
FilterAuthors ==
  /\ rpc = "authors"
  /\ \E kept \in SUBSET Range(req.pins) :
       req' = [req EXCEPT !.pins = SelectSeq(@, LAMBDA d : d \in kept),
                          !.pure = @ /\ kept = Range(req.pins)]
  /\ rpc' = "fanout"
  /\ UNCHANGED <<loopVars, pool, hits, lost, scored, rewriteUsed, status, chunks, answered,
                 live, verified, telemetry, response>>

(* The pre-fan-out: what it found, citable or not, and whether a channel  *)
(* was lost on the way.                                                   *)
PreFanOut ==
  /\ rpc = "fanout"
  /\ \E found \in Pools, uncitable, anyLost \in BOOLEAN :
       /\ pool' = found
       /\ hits' = (found # <<>> \/ uncitable)
       /\ lost' = anyLost
  /\ rpc' = "route"
  /\ UNCHANGED <<loopVars, req, scored, rewriteUsed, status, chunks, answered, live, verified,
                 telemetry, response>>

(* execute_search lets a grounding failure out; the request fails.        *)
FanOutFails ==
  /\ rpc = "fanout"
  /\ rpc' = "done" /\ response' = [code |-> 500, docs |-> <<>>, degraded |-> FALSE]
  /\ UNCHANGED <<loopVars, req, pool, hits, lost, scored, rewriteUsed, status, chunks,
                 answered, live, verified, telemetry>>
-----------------------------------------------------------------------------
(* The exits before a selector runs. *)

Tag(docs, via) == [i \in DOMAIN docs |-> [doc |-> docs[i], via |-> via]]
FirstN(s, n) == IF Len(s) <= n THEN s ELSE SubSeq(s, 1, n)

PoolAnswers(cs, st) == cs = <<>> /\ st # "id_lookup_short_circuit"

(* _answer_from_pool: the pool's top documents, and only when no selector *)
(* delivered a document and the lookup is not pure.                       *)
AnswerFromPool(cs, st) ==
  IF PoolAnswers(cs, st) THEN Tag(FirstN(pool, ResponseDocs), "pool") ELSE cs

WriteTelemetry(st) ==
  /\ status' = MergeChannelLoss(st, lost)
  /\ telemetry' = [status |-> MergeChannelLoss(st, lost),
                   degraded |-> IsDegraded(MergeChannelLoss(st, lost))]

(* Pins are prepended; a delivered chunk of a pinned document takes the   *)
(* pin's place.                                                           *)
WithPins(cs) ==
  Tag(req.pins, "pin") \o SelectSeq(cs, LAMBDA c : c.doc \notin Range(req.pins))

ShortCircuit(st, cs) ==
  /\ chunks' = WithPins(AnswerFromPool(cs, st))
  /\ answered' = FALSE
  /\ WriteTelemetry(st)
  /\ rpc' = "gate"

EmptyExit(st) ==
  /\ chunks' = WithPins(<<>>)
  /\ answered' = FALSE
  /\ WriteTelemetry(st)
  /\ rpc' = "gate"

PureLookup ==
  /\ rpc = "route" /\ req.pure
  /\ ShortCircuit("id_lookup_short_circuit", <<>>)
  /\ UNCHANGED <<loopVars, req, pool, hits, lost, scored, rewriteUsed, live, verified, response>>

(* An empty pool is worth one rewrite on the jev path.                    *)
ZeroRecallRewrite ==
  /\ rpc = "route" /\ ~req.pure /\ ~hits /\ req.selector = "jev" /\ ~rewriteUsed
  /\ rewriteUsed' = TRUE
  /\ rpc' = "zero"
  /\ UNCHANGED <<loopVars, req, pool, hits, lost, scored, status, chunks, answered, live,
                 verified, telemetry, response>>

(* _rewrite_once after its awaits: the pool grows, or nothing changes.    *)
Grows(found) ==
  /\ Range(found) \ Range(pool) # {}
  /\ pool' = pool \o SelectSeq(found, LAMBDA d : d \notin Range(pool))
  /\ hits' = TRUE

ZeroRecallRewritten ==
  /\ rpc = "zero"
  /\ \/ \E found \in Pools : Grows(found)
     \/ UNCHANGED <<pool, hits>>
  /\ \E anyLost \in BOOLEAN : lost' = (lost \/ anyLost)
  /\ rpc' = "route"
  /\ UNCHANGED <<loopVars, req, scored, rewriteUsed, status, chunks, answered, live,
                 verified, telemetry, response>>

(* No budget left for the rewrite, or none of it helped.                  *)
ZeroRecall ==
  /\ rpc = "route" /\ ~req.pure /\ ~hits
  /\ EmptyExit("zero_recall_short_circuit")
  /\ UNCHANGED <<loopVars, req, pool, hits, lost, scored, rewriteUsed, live, verified, response>>

NoLlm ==
  /\ rpc = "route" /\ ~req.pure /\ hits /\ req.selector = "gatherer" /\ ~req.keyed
  /\ EmptyExit("no_llm_configured")
  /\ UNCHANGED <<loopVars, req, pool, hits, lost, scored, rewriteUsed, live, verified, response>>
-----------------------------------------------------------------------------
(* The selectors. *)

(* What run_gatherer does once a selector returned: the pool answers if   *)
(* it must, duplicates go (never all of them), telemetry is written.      *)
Finish(picked, st) ==
  /\ answered' = (picked # <<>>)
  /\ \E gone \in SUBSET (DOMAIN AnswerFromPool(picked, st) \ {1}) :
       LET full == AnswerFromPool(picked, st)
           kept == [i \in DOMAIN full |-> IF i \in gone THEN [doc |-> "dup", via |-> "dup"] ELSE full[i]]
       IN chunks' = WithPins(SelectSeq(kept, LAMBDA c : c.via # "dup"))
  /\ WriteTelemetry(st)
  /\ rpc' = "gate"

SelectFloor ==
  /\ rpc = "route" /\ ~req.pure /\ hits /\ req.selector = "floor"
  /\ Finish(<<>>, "ok")
  /\ UNCHANGED <<loopVars, req, pool, hits, lost, scored, rewriteUsed, live, verified, response>>

StartScoring ==
  /\ rpc = "route" /\ ~req.pure /\ hits /\ req.selector = "jev"
  /\ rpc' = "score"
  /\ UNCHANGED <<loopVars, req, pool, hits, lost, scored, rewriteUsed, status, chunks,
                 answered, live, verified, telemetry, response>>

(* score_pool raised, or the selection timed out, or the whole stage did. *)
JevFails ==
  /\ rpc \in {"score", "rewrite", "rescore"}
  /\ Finish(<<>>, "jev_unavailable")
  /\ UNCHANGED <<loopVars, req, pool, hits, lost, scored, rewriteUsed, live, verified, response>>

Ranked(S) ==
  {r \in Picks \cup {<<>>} : /\ Range(r) \subseteq S
                             /\ Len(r) = Cardinality(Range(r))
                             /\ Len(r) = IF Cardinality(S) < ResponseDocs
                                         THEN Cardinality(S) ELSE ResponseDocs}

(* The picks of Jev, from the documents it scored; a document it did not  *)
(* score makes the answer partial.                                        *)
JevDelivers(S) ==
  \E r \in Ranked(S) :
    Finish(Tag(r, "selector"), IF Range(pool) \subseteq S THEN "ok" ELSE "jev_partial")

Scored(weak, S) ==
  /\ rpc = "score"
  /\ S \subseteq Range(pool) /\ (pool # <<>> => S # {}) /\ (pool = <<>> => weak)
  /\ scored' = S
  /\ IF weak /\ ~rewriteUsed
     THEN /\ \/ rpc' = "rewrite" /\ rewriteUsed' = TRUE
                /\ UNCHANGED <<status, chunks, answered, telemetry>>
             \/ JevDelivers(S) /\ UNCHANGED rewriteUsed    \* no budget
     ELSE JevDelivers(S) /\ UNCHANGED rewriteUsed
  /\ UNCHANGED <<loopVars, req, pool, hits, lost, live, verified, response>>

Rewritten ==
  /\ rpc = "rewrite"
  /\ \E anyLost \in BOOLEAN : lost' = (lost \/ anyLost)
  /\ \E found \in Pools : Grows(found)
  /\ rpc' = "rescore"
  /\ UNCHANGED <<loopVars, req, scored, rewriteUsed, status, chunks, answered, live,
                 verified, telemetry, response>>

NotRewritten ==
  /\ rpc = "rewrite"
  /\ JevDelivers(scored)
  /\ UNCHANGED <<loopVars, req, pool, hits, lost, scored, rewriteUsed, live, verified, response>>

(* Only the fresh passages are scored; a failure keeps the first pass.    *)
Rescored(S) ==
  /\ rpc = "rescore"
  /\ S \subseteq Range(pool) \ scored
  /\ scored' = scored \cup S
  /\ JevDelivers(scored')
  /\ UNCHANGED <<loopVars, req, pool, hits, lost, rewriteUsed, live, verified, response>>
-----------------------------------------------------------------------------
(* The gatherer. *)

StartLoop ==
  /\ rpc = "route" /\ ~req.pure /\ hits /\ req.selector = "gatherer" /\ req.keyed
  /\ rpc' = "loop"
  /\ UNCHANGED <<loopVars, req, pool, hits, lost, scored, rewriteUsed, status, chunks,
                 answered, live, verified, telemetry, response>>

(* A tool call of the loop can lose a channel too.                        *)
LoopStep ==
  /\ rpc = "loop" /\ lpc # "ended"
  /\ LoopNext
  /\ \E anyLost \in {FALSE, lpc = "tools"} : lost' = (lost \/ anyLost)
  /\ UNCHANGED <<rpc, req, pool, hits, scored, rewriteUsed, status, chunks, answered, live,
                 verified, telemetry, response>>

GathererStatus(starved, emptyEmit) ==
  CASE outcome = "none" -> "schema_violation"
    [] outcome = "timeout" /\ starved -> "loop_budget_starved"
    [] outcome = "timeout" -> "loop_timeout"
    [] outcome = "overflow" -> "context_overflow"
    [] outcome = "transient" -> "provider_error_prefanout_fallback"
    [] spent.calls >= HardCap /\ emptyEmit -> "tool_budget_exceeded"
    [] capped -> "output_truncated"
    [] OTHER -> "ok"

(* What the loop left behind is read no more: only a call it orphaned     *)
(* goes on.                                                               *)
ForgetLoop ==
  /\ lpc' = "top" /\ phase' = "idle" /\ callModel' = "primary" /\ primaryErr' = "none"
  /\ llm' = [model |-> "primary", failedOver |-> FALSE, retryUsed |-> FALSE]
  /\ firstReply' = <<>> /\ messages' = <<>> /\ asked' = <<>> /\ capped' = FALSE
  /\ spent' = [turns |-> 0, calls |-> 0, budget |-> ToolBudget, extensions |-> 0]
  /\ last' = [exhausted |-> FALSE, forced |-> FALSE]
  /\ failures' = 0 /\ outcome' = "running"
  /\ UNCHANGED <<flight, orphans>>

(* The loop's result; "full" delivers documents, which may be invented,   *)
(* "empty" at most entities.                                              *)
LoopReturns ==
  /\ rpc = "loop" /\ lpc = "ended"
  /\ \/ outcome \in {"none", "timeout", "overflow", "full", "empty"}
     \/ outcome = "transient" /\ pool # <<>>
  /\ \E starved \in {FALSE, outcome = "timeout"}, entities \in {FALSE, outcome = "empty"},
        r \in IF outcome = "full" THEN Picks ELSE {<<>>} :
       Finish(Tag(r, "selector"), GathererStatus(starved, outcome = "empty" /\ ~entities))
  /\ ForgetLoop
  /\ UNCHANGED <<req, pool, hits, lost, scored, rewriteUsed, live, verified, response>>

(* Any other provider error is a 503, recorded as a full failure.         *)
LoopRaises ==
  /\ rpc = "loop" /\ lpc = "ended"
  /\ outcome = "fatal" \/ (outcome = "transient" /\ pool = <<>>)
  /\ telemetry' = [status |-> "fatal_provider_error", degraded |-> FALSE]
  /\ response' = [code |-> 503, docs |-> <<>>, degraded |-> FALSE]
  /\ rpc' = "done"
  /\ ForgetLoop
  /\ UNCHANGED <<req, pool, hits, lost, scored, rewriteUsed, status, chunks,
                 answered, live, verified>>
-----------------------------------------------------------------------------
(* to_query_response. *)

(* The documents in delivery order, cut to top_k, and the flag.           *)
Respond(cs, ok) ==
  LET docs == FirstN([i \in DOMAIN cs |-> cs[i].doc], TopK)
      merged == MergeChannelLoss(status, lost)
      st == IF ~ok /\ ~IsDegraded(merged) THEN "scope_check_unavailable" ELSE merged
  IN /\ response' = [code |-> 200, docs |-> docs, degraded |-> IsDegraded(st)]
     /\ verified' = ok
     /\ rpc' = "done"

(* Variant: what cannot be found live is kept. *)
GateKeepsUnknown(cs) == cs

(* What the live-row check keeps.                                         *)
GateKeeps(cs) == SelectSeq(cs, LAMBDA c : c.doc \in live')

(* The gate: rows may have been retired since they were retrieved. When   *)
(* it leaves nothing of a selector's answer the pool answers, gated again.*)
Gate ==
  /\ rpc = "gate"
  /\ live' \in SUBSET live
  /\ LET kept == GateKeeps(chunks)
     IN IF kept = <<>> /\ answered /\ pool # <<>>
        THEN /\ chunks' = AnswerFromPool(<<>>, status)
             /\ rpc' = "regate"
             /\ UNCHANGED <<verified, response>>
        ELSE Respond(kept, TRUE) /\ chunks' = kept
  /\ UNCHANGED <<loopVars, req, pool, hits, lost, scored, rewriteUsed, status, answered, telemetry>>

Regate ==
  /\ rpc = "regate"
  /\ live' \in SUBSET live
  /\ chunks' = GateKeeps(chunks)
  /\ Respond(chunks', TRUE)
  /\ UNCHANGED <<loopVars, req, pool, hits, lost, scored, rewriteUsed, status, answered, telemetry>>

(* The check itself fails: a scoped request errors, an unscoped one keeps *)
(* everything and says so.                                                *)
GateFails ==
  /\ rpc \in {"gate", "regate"} /\ chunks # <<>>
  /\ IF req.scoped
     THEN /\ response' = [code |-> 500, docs |-> <<>>, degraded |-> FALSE]
          /\ rpc' = "done" /\ UNCHANGED verified
     ELSE Respond(chunks, FALSE)
  /\ UNCHANGED <<loopVars, req, pool, hits, lost, scored, rewriteUsed, status, chunks,
                 answered, live, telemetry>>

RequestNext ==
  \/ EmptyQuery \/ Ground \/ FilterAuthors \/ PreFanOut \/ FanOutFails
  \/ PureLookup \/ ZeroRecallRewrite \/ ZeroRecallRewritten \/ ZeroRecall \/ NoLlm
  \/ SelectFloor \/ StartScoring \/ JevFails \/ Rewritten \/ NotRewritten
  \/ \E S \in SUBSET Docs : Rescored(S) \/ \E weak \in BOOLEAN : Scored(weak, S)
  \/ StartLoop \/ LoopStep \/ LoopReturns \/ LoopRaises
  \/ Gate \/ Regate \/ GateFails
-----------------------------------------------------------------------------

(* A response holds only documents with a live row in scope at the last   *)
(* gate, unless the check itself failed; and then the request is unscoped *)
(* and the response is flagged (_enforce_scope_on_chunks, "Fail closed"). *)
DeliveredIsVerified ==
  rpc = "done" /\ response.docs # <<>> =>
    \/ Range(response.docs) \subseteq live
    \/ ~verified /\ ~req.scoped /\ response.degraded

=============================================================================
