---- MODULE AnswerEndpoint ----
(***************************************************************************)
(* One logged request of the retrieval service: the /retrieve, /query and  *)
(* /query/stream handlers of engine/retrieval/main.py, the synthesis of    *)
(* the answer (synthesis.py), and the records UsageLoggingMiddleware       *)
(* leaves behind (middleware.py, usage.py, agent/trace_blob.py).           *)
(*                                                                         *)
(* The middleware returns a response whose background tasks run one after  *)
(* another once the body is flushed; when the handler raised it starts the *)
(* same tasks detached, and they interleave.                               *)
(***************************************************************************)
EXTENDS Integers, Sequences, FiniteSets

CONSTANTS
  MaxChunks,    \* bound: chunks handed to the synthesizer
  MaxDeltas     \* bound: text deltas of one streamed answer

VARIABLES
  apc,        \* where the request is
  endpoint,   \* "retrieve" | "query" | "stream"
  authed,     \* request.state.customer_id is set
  found,      \* the retrieval's [chunks, degraded]
  sse,        \* the events streamed so far
  shown,      \* request.state.usage_response_payload: "none" or a copy of found
  cited,      \* the answer's citations, as chunk indexes
  marks,      \* what the model cited: [text, declared]
  httpReply,  \* [http, error]: the status and error_class the middleware saw
  tasks,      \* telemetry still to run
  keyed,      \* request.state.trace_blob_key is set
  blob,       \* the trace blob: "none" | "kept" (should_persist) | "stored"
  usage,      \* usage_events rows: sequence of statuses
  traces      \* query_traces rows: sequence of [shown, error, key]

answerVars == <<apc, endpoint, authed, found, sse, shown, cited, marks, httpReply,
                tasks, keyed, blob, usage, traces>>

\* e is an item of s.
Occurs(s, e) == \E i \in 1..Len(s) : s[i] = e

NothingFound == [chunks |-> 0, degraded |-> FALSE]
NoMarks == [text |-> <<>>, declared |-> <<>>]
Fine == [http |-> 200, error |-> FALSE]

AnswerInit ==
  /\ apc = "auth"
  /\ endpoint \in {"retrieve", "query", "stream"}
  /\ authed = FALSE
  /\ found = NothingFound
  /\ sse = <<>>
  /\ shown = [kind |-> "none", degraded |-> FALSE]
  /\ cited = <<>>
  /\ marks = NoMarks
  /\ httpReply = Fine
  /\ tasks = <<>>
  /\ keyed = FALSE
  /\ blob = "none"
  /\ usage = <<>>
  /\ traces = <<>>

----------------------------------------------------------------------------

\* What the middleware attaches to a response, in this order.
Chain == <<"usage", "blob", "trace">>

\* dispatch() after call_next returned: the usage event is assembled now,
\* the trace only when its task runs.  A status below 500 counts as ok.
Responds(http) ==
  /\ httpReply' = [http |-> http, error |-> http >= 500]
  /\ tasks' = Chain
  /\ apc' = IF endpoint = "stream" THEN "refining" ELSE "telemetry"

\* dispatch() when the handler raised: three tasks of their own.
Raises ==
  /\ httpReply' = [http |-> 500, error |-> TRUE]
  /\ tasks' = Chain
  /\ apc' = "detached"

\* authenticate_query: 401 leaves no customer on the request.
Unauthenticated ==
  /\ apc = "auth"
  /\ httpReply' = [http |-> 401, error |-> FALSE]
  /\ tasks' = Chain
  /\ apc' = "telemetry"
  /\ UNCHANGED <<endpoint, authed, found, sse, shown, cited, marks, keyed, blob, usage, traces>>

\* The streaming handler returns its response before the generator runs.
Authenticated ==
  /\ apc = "auth"
  /\ authed' = TRUE
  /\ IF endpoint = "stream" THEN Responds(200)
     ELSE apc' = "search" /\ UNCHANGED <<httpReply, tasks>>
  /\ UNCHANGED <<endpoint, found, sse, shown, cited, marks, keyed, blob, usage, traces>>

----------------------------------------------------------------------------
\* run_retrieval ends: the loop may have asked for its trace to be kept.
\* /retrieve answers with what was found, /query goes on to synthesize it.
Searched(n, degraded, keep) ==
  /\ apc = "search"
  /\ found' = [chunks |-> n, degraded |-> degraded]
  /\ blob' = IF keep THEN "kept" ELSE "none"
  /\ IF endpoint = "retrieve"
     THEN shown' = [kind |-> "results", degraded |-> degraded] /\ Responds(200)
     ELSE apc' = "synthesize" /\ UNCHANGED <<shown, httpReply, tasks>>
  /\ UNCHANGED <<endpoint, authed, sse, cited, marks, keyed, usage, traces>>

\* An HTTPException (400, 410, 503) becomes a response; anything else
\* reaches the middleware as an exception.
SearchFails(http, keep) ==
  /\ apc = "search"
  /\ blob' = IF keep THEN "kept" ELSE "none"
  /\ IF http = 0 THEN Raises ELSE Responds(http)
  /\ UNCHANGED <<endpoint, authed, found, sse, shown, cited, marks, keyed, usage, traces>>

\* _extract_citations: the indexes in the text, then the declared ones, each
\* once, and only those that name a chunk.
Citations(text, declared, n) ==
  LET all == text \o declared
      Cited(i) == all[i] \in 1..n /\ \A j \in 1..(i - 1) : all[j] # all[i]
      at == SelectSeq([i \in 1..Len(all) |-> i], Cited)
  IN [k \in 1..Len(at) |-> all[at[k]]]

\* _fallback_parse_text: a provider that ignored the schema is read as plain
\* text, which declares nothing.
Fallback(text) == [text |-> text, declared |-> <<>>]

\* synthesize(): no chunks, no model call.  Otherwise the provider's parsed
\* answer, or the plain-text fallback.
Synthesized(text, declared, parsed) ==
  LET said == IF found.chunks = 0 THEN NoMarks
              ELSE IF parsed THEN [text |-> text, declared |-> declared]
              ELSE Fallback(text)
  IN
  /\ apc = "synthesize"
  /\ marks' = said
  /\ cited' = Citations(said.text, said.declared, found.chunks)
  /\ shown' = [kind |-> "answer", degraded |-> found.degraded]
  /\ Responds(200)
  /\ UNCHANGED <<endpoint, authed, found, sse, keyed, blob, usage, traces>>

\* SynthesisError (unsupported model, provider error, no credentials) is a
\* 502; an exception of any other kind reaches the middleware.
SynthesisFails(raised) ==
  /\ apc = "synthesize"
  /\ found.chunks > 0 \/ ~raised
  /\ IF raised THEN Raises ELSE Responds(502)
  /\ UNCHANGED <<endpoint, authed, found, sse, shown, cited, marks, keyed, blob, usage, traces>>

----------------------------------------------------------------------------
\* The generator of /query/stream, one step per event it yields.
Emit(e) == sse' = Append(sse, e)

StreamRefined ==
  /\ apc = "refining"
  /\ sse' = sse \o <<"refining", "entities", "searching">>
  /\ apc' = "searching"
  /\ UNCHANGED <<endpoint, authed, found, shown, cited, marks, httpReply, tasks, keyed,
                 blob, usage, traces>>

StreamSearched(n, degraded, keep) ==
  /\ apc = "searching"
  /\ found' = [chunks |-> n, degraded |-> degraded]
  /\ blob' = IF keep THEN "kept" ELSE "none"
  /\ sse' = sse \o <<"results", "synthesizing">>
  /\ apc' = "streaming"
  /\ UNCHANGED <<endpoint, authed, shown, cited, marks, httpReply, tasks, keyed, usage, traces>>

\* A chunk without text is skipped.
StreamDelta ==
  /\ apc = "streaming"
  /\ found.chunks > 0
  /\ Cardinality({i \in 1..Len(sse) : sse[i] = "delta"}) < MaxDeltas
  /\ Emit("delta")
  /\ UNCHANGED <<apc, endpoint, authed, found, shown, cited, marks, httpReply, tasks, keyed,
                 blob, usage, traces>>

\* StreamFinal: `done`, then the payload for the trace is stashed; the stash
\* failing is only logged.
StreamDone(text, stashed) ==
  /\ apc = "streaming"
  /\ found.chunks = 0 => text = <<>>
  /\ marks' = [text |-> text, declared |-> <<>>]
  /\ cited' = Citations(text, <<>>, found.chunks)
  /\ Emit("done")
  /\ shown' = IF stashed THEN [kind |-> "answer", degraded |-> found.degraded] ELSE shown
  /\ apc' = "telemetry"
  /\ UNCHANGED <<endpoint, authed, found, httpReply, tasks, keyed, blob, usage, traces>>

\* Every exception of the generator becomes one `error` event; the HTTP
\* status was sent long before.
StreamFails ==
  /\ apc \in {"refining", "searching", "streaming"}
  /\ Emit("error")
  /\ apc' = "telemetry"
  /\ UNCHANGED <<endpoint, authed, found, shown, cited, marks, httpReply, tasks, keyed,
                 blob, usage, traces>>

----------------------------------------------------------------------------
\* write_usage_event swallows every failure; without a customer there is no
\* event to write.
WriteUsage(ok) ==
  usage' = IF authed /\ ok THEN Append(usage, httpReply) ELSE usage

\* Variant: the state is captured when the response headers leave.
TraceRowEarly ==
  [shown |-> IF httpReply.error THEN "error"
             ELSE IF endpoint = "stream" THEN "none" ELSE shown.kind,
   degraded |-> shown.degraded, key |-> keyed]

\* _build_and_write_trace reads request.state when it runs; an error's
\* payload replaces the response's.
TraceRow == [shown |-> IF httpReply.error THEN "error" ELSE shown.kind,
             degraded |-> shown.degraded, key |-> keyed]

WriteTrace(ok) ==
  traces' = IF authed /\ ok THEN Append(traces, TraceRow) ELSE traces

\* _persist_trace_blob_r2: skipped unless the loop asked for it; on success
\* the key is stamped on the request.
StoreBlob(ok) ==
  /\ blob' = IF authed /\ blob = "kept" /\ ok THEN "stored" ELSE blob
  /\ keyed' = (keyed \/ (authed /\ blob = "kept" /\ ok))

\* The response's background tasks: strictly one after another.
RunChained(ok) ==
  /\ apc = "telemetry"
  /\ tasks # <<>>
  /\ CASE Head(tasks) = "usage" -> WriteUsage(ok) /\ UNCHANGED <<traces, blob, keyed>>
       [] Head(tasks) = "blob"  -> StoreBlob(ok) /\ UNCHANGED <<usage, traces>>
       [] Head(tasks) = "trace" -> WriteTrace(ok) /\ UNCHANGED <<usage, blob, keyed>>
  /\ tasks' = Tail(tasks)
  /\ apc' = IF Len(tasks) = 1 THEN "settled" ELSE apc
  /\ UNCHANGED <<endpoint, authed, found, sse, shown, cited, marks, httpReply>>

\* The detached tasks of a raised handler: any order.
RunDetached(task, ok) ==
  /\ apc = "detached"
  /\ Occurs(tasks, task)
  /\ CASE task = "usage" -> WriteUsage(ok) /\ UNCHANGED <<traces, blob, keyed>>
       [] task = "blob"  -> StoreBlob(ok) /\ UNCHANGED <<usage, traces>>
       [] task = "trace" -> WriteTrace(ok) /\ UNCHANGED <<usage, blob, keyed>>
  /\ tasks' = SelectSeq(tasks, LAMBDA other : other # task)
  /\ apc' = IF Len(tasks) = 1 THEN "settled" ELSE apc
  /\ UNCHANGED <<endpoint, authed, found, sse, shown, cited, marks, httpReply>>

\* What a model may cite: an index past the chunks, zero, or twice the same.
CiteLists == {<<>>, <<2, 1, 2>>, <<0, 1>>, <<MaxChunks + 1>>}

AnswerNext ==
  \/ Unauthenticated
  \/ Authenticated
  \/ \E n \in 0..MaxChunks, degraded, keep \in BOOLEAN :
       Searched(n, degraded, keep) \/ StreamSearched(n, degraded, keep)
  \/ \E http \in {0, 400, 503}, keep \in BOOLEAN : SearchFails(http, keep)
  \/ \E text, declared \in CiteLists, parsed \in BOOLEAN : Synthesized(text, declared, parsed)
  \/ \E raised \in BOOLEAN : SynthesisFails(raised)
  \/ StreamRefined
  \/ StreamDelta
  \/ \E text \in CiteLists, stashed \in BOOLEAN : StreamDone(text, stashed)
  \/ StreamFails
  \/ \E ok \in BOOLEAN : RunChained(ok)
  \/ \E ok \in BOOLEAN, task \in {"usage", "blob", "trace"} : RunDetached(task, ok)

AnswerSpec == AnswerInit /\ [][AnswerNext]_answerVars

----------------------------------------------------------------------------

\* The trace row of a request that answered shows that answer, and says
\* `degraded` exactly when the caller was told so, although a streamed
\* answer is complete only after the middleware returned.
TraceShowsTheAnswer ==
  \A i \in 1..Len(traces) :
    /\ endpoint # "stream" /\ httpReply.http = 200
         => traces[i].shown = (IF endpoint = "retrieve" THEN "results" ELSE "answer")
    /\ Occurs(sse, "done") /\ shown.kind # "none" => traces[i].shown = "answer"
    /\ traces[i].shown = "answer" => traces[i].degraded = found.degraded

====
