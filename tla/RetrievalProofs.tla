-------------------------- MODULE RetrievalProofs ---------------------------
(***************************************************************************)
(* What a caller of the retrieval service is given, and what is recorded   *)
(* of it: the pages of a stored ranking (ResultPages), for any number of   *)
(* tenants, searches and cursors, and the trace of an answer               *)
(* (AnswerEndpoint), for any number of chunks.                             *)
(***************************************************************************)
EXTENDS ResultPages, AnswerEndpoint, TLAPS

(* The pages of a ranking. *)

PgDocs == Nat \X Nat

(* A stored page is the part of its own search's ranking after top_k. *)
PgSnapshot ==
    /\ searches \in Nat /\ ranked \in Seq(Nat) /\ Len(ranked) = searches
    /\ \A p \in DOMAIN pages :
         /\ p \in 1..searches /\ pages[p].items \in Seq(PgDocs)
         /\ \A i \in 1..Len(pages[p].items) : pages[p].items[i] = <<p, PageTopK + i>>
         /\ PageTopK + Len(pages[p].items) <= ranked[p]

(* A cursor names a search that ran, and no place beyond its stored page. *)
PgCursors ==
    /\ held \in [PageTenants -> SUBSET (Nat \X Nat)]
    /\ \A t \in PageTenants : \A c \in held[t] :
         /\ c[1] \in 1..searches
         /\ c[1] \in DOMAIN pages => c[2] <= Len(pages[c[1]].items)

PgIInv == PgSnapshot /\ PgCursors /\ PageIsASliceOfTheRanking

(* A slice is as long as what is left, and its items are the sequence's. *)
LEMMA SliceOf ==
    ASSUME NEW D, NEW s \in Seq(D), NEW a \in Nat, NEW b \in Nat, a <= b, a <= Len(s)
    PROVE  /\ Slice(s, a, b) \in Seq(D)
           /\ Len(Slice(s, a, b)) \in Nat
           /\ a + Len(Slice(s, a, b)) <= Len(s)
           /\ \A i \in 1..Len(Slice(s, a, b)) : Slice(s, a, b)[i] = s[a + i]
BY DEF Slice

(* The ranking of a search: its documents in order. *)
LEMMA RankingOf ==
    ASSUME NEW s \in Nat, NEW n \in Nat
    PROVE  /\ Ranking(s, n) \in Seq(PgDocs) /\ Len(Ranking(s, n)) = n
           /\ \A i \in 1..n : Ranking(s, n)[i] = <<s, i>>
BY DEF Ranking, PgDocs

(* A search stores what its answer leaves out, and nothing else. *)
LEMMA SearchStep ==
    ASSUME PgIInv, NEW t \in PageTenants, NEW n \in 0..MaxRanked, NEW stored \in BOOLEAN,
           Search(t, n, stored)
    PROVE  PgIInv'
<1> DEFINE s == searches + 1
           surplus == Slice(Ranking(s, n), PageTopK, n)
           items == Slice(surplus, 0, MaxPageItems)
<1>1. s \in Nat /\ n \in Nat /\ PageTopK \in Nat /\ MaxPageItems \in Nat
  BY PagesAssumption DEF PgIInv, PgSnapshot
<1>2. ranked' \in Seq(Nat) /\ Len(ranked') = s /\ ranked'[s] = n
      /\ \A p \in 1..searches : ranked'[p] = ranked[p]
  BY <1>1 DEF PgIInv, PgSnapshot, Search
<1>3. searches' = s /\ reply'.kind = "search"
  BY Zenon DEF Search
<1>4. PageIsASliceOfTheRanking'
  BY Zenon, <1>3 DEF PageIsASliceOfTheRanking
<1>5. CASE pages' = pages /\ held' = held
  <2>1. PgSnapshot'
    BY SMTT(30), <1>1, <1>2, <1>3, <1>5 DEF PgIInv, PgSnapshot
  <2>2. PgCursors'
    BY SMTT(30), <1>1, <1>3, <1>5 DEF PgIInv, PgCursors, PgSnapshot
  <2>. QED  BY Zenon, <1>4, <2>1, <2>2 DEF PgIInv
<1>6. CASE /\ surplus # <<>>
           /\ pages' = StorePage(t, s, surplus) /\ held' = [held EXCEPT ![t] = @ \cup {<<s, 0>>}]
  <2>1. PageTopK < n
    BY SMTT(30), <1>1, <1>6, RankingOf DEF Slice
  <2>2. /\ surplus \in Seq(PgDocs) /\ PageTopK + Len(surplus) <= n
        /\ \A i \in 1..Len(surplus) : surplus[i] = <<s, PageTopK + i>>
    <3> DEFINE all == Ranking(s, n)
    <3>0. all \in Seq(PgDocs) /\ Len(all) = n
      BY Zenon, <1>1, RankingOf
    <3> HIDE DEF all
    <3>1. /\ surplus \in Seq(PgDocs) /\ Len(surplus) \in Nat /\ PageTopK + Len(surplus) <= n
          /\ \A i \in 1..Len(surplus) : surplus[i] = all[PageTopK + i]
      BY <1>1, <2>1, <3>0, SliceOf DEF all
    <3>2. \A i \in 1..Len(surplus) : PageTopK + i \in 1..n
      BY <1>1, <3>1
    <3>. QED  BY Zenon, <1>1, <3>1, <3>2, RankingOf DEF all
  <2> HIDE DEF surplus
  <2>3. /\ items \in Seq(PgDocs) /\ Len(items) \in Nat /\ Len(items) <= Len(surplus)
        /\ \A i \in 1..Len(items) : items[i] = surplus[0 + i]
    <3>1. 0 \in Nat /\ 0 <= MaxPageItems /\ 0 <= Len(surplus) /\ Len(surplus) \in Nat
      BY <1>1, <2>2
    <3>2. /\ items \in Seq(PgDocs) /\ Len(items) \in Nat /\ 0 + Len(items) <= Len(surplus)
          /\ \A i \in 1..Len(items) : items[i] = surplus[0 + i]
      BY ZenonT(30), <1>1, <2>2, <3>1, SliceOf
    <3> HIDE DEF items
    <3>. QED  BY <3>1, <3>2
  <2>4. \A i \in 1..Len(items) : items[i] = <<s, PageTopK + i>>
    BY <2>2, <2>3
  <2>5. PageTopK + Len(items) <= n
    BY SMTT(30), <1>1, <2>2, <2>3
  <2>6. /\ DOMAIN pages' = Trimmed(t) \cup {s} /\ pages'[s].items = items
        /\ \A p \in Trimmed(t) : p # s => pages'[p] = pages[p]
    BY Zenon, <1>6 DEF StorePage
  <2> HIDE DEF items
  <2>7. ASSUME NEW p \in DOMAIN pages', p # s
        PROVE  p \in DOMAIN pages /\ p \in 1..searches /\ pages'[p] = pages[p]
    BY Zenon, <2>6, <2>7 DEF Trimmed, PgIInv, PgSnapshot
  <2>8. PgSnapshot'
    <3>1. ASSUME NEW p \in DOMAIN pages'
          PROVE  /\ p \in 1..s /\ pages'[p].items \in Seq(PgDocs)
                 /\ \A i \in 1..Len(pages'[p].items) : pages'[p].items[i] = <<p, PageTopK + i>>
                 /\ PageTopK + Len(pages'[p].items) <= ranked'[p]
      <4>1. CASE p = s
        <5>1. s \in 1..s
          BY <1>1 DEF PgIInv, PgSnapshot
        <5>2. PageTopK + Len(items) <= ranked'[s]
          BY Zenon, <1>2, <2>5
        <5> HIDE DEF s
        <5>. QED  BY Zenon, <2>3, <2>4, <2>6, <4>1, <5>1, <5>2
      <4>2. CASE p # s
        <5>1. p \in DOMAIN pages /\ p \in 1..searches /\ pages'[p] = pages[p]
              /\ ranked'[p] = ranked[p] /\ searches \in Nat
          BY Zenon, <1>2, <2>7, <4>2 DEF PgIInv, PgSnapshot
        <5>2. p \in 1..s
          BY <5>1
        <5>. QED  BY Zenon, <5>1, <5>2 DEF PgIInv, PgSnapshot
      <4>. QED  BY Zenon, <4>1, <4>2
    <3>. QED  BY Zenon, <1>1, <1>2, <1>3, <3>1 DEF PgSnapshot
  <2>9. PgCursors'
    <3>1. held' \in [PageTenants -> SUBSET (Nat \X Nat)]
      BY <1>1, <1>6 DEF PgIInv, PgCursors
    <3>2. ASSUME NEW u \in PageTenants, NEW c \in held'[u]
          PROVE  c \in held[u] \/ c = <<s, 0>>
      BY Zenon, <1>6, <3>2 DEF PgIInv, PgCursors
    <3>3. ASSUME NEW u \in PageTenants, NEW c \in held[u]
          PROVE  /\ c[1] \in 1..s /\ c[1] # s
                 /\ c[1] \in DOMAIN pages' => c[2] <= Len(pages'[c[1]].items)
      BY <1>1, <2>7, <3>3 DEF PgIInv, PgCursors, PgSnapshot
    <3>4. ASSUME NEW u \in PageTenants, NEW c \in held'[u]
          PROVE  /\ c[1] \in 1..s
                 /\ c[1] \in DOMAIN pages' => c[2] <= Len(pages'[c[1]].items)
      <4>1. CASE c \in held[u]
        BY Zenon, <3>3, <4>1
      <4>2. CASE c = <<s, 0>>
        <5>1. s \in 1..s
          BY <1>1 DEF PgIInv, PgSnapshot
        <5> HIDE DEF s
        <5>2. c[1] = s /\ c[2] = 0
          BY Zenon, <4>2
        <5>. QED  BY SMTT(30), <2>3, <2>6, <5>1, <5>2
      <4>. QED  BY Zenon, <3>2, <4>1, <4>2
    <3>. QED  BY Zenon, <1>3, <3>1, <3>4 DEF PgCursors
  <2>. QED  BY Zenon, <1>4, <2>8, <2>9 DEF PgIInv
<1>7. (s = 0) = FALSE
  BY <1>1 DEF PgIInv, PgSnapshot
<1>. QED  BY Zenon, <1>1, <1>5, <1>6, <1>7 DEF Search, NoCursor

(* A page is served from the snapshot at the cursor's place. *)
LEMMA ServeStep ==
    ASSUME PgIInv, NEW t \in PageTenants, NEW u \in PageTenants, NEW c \in held[u],
           NEW limit \in 0..PageTopK, ServeStoredPage(t, c, limit)
    PROVE  PgIInv'
<1> DEFINE items == pages[c[1]].items
           bound == c[2] + (IF limit < 1 THEN 1 ELSE limit)
           window == Slice(items, c[2], bound)
           consumed == c[2] + Len(window)
<1>1. /\ c[1] \in DOMAIN pages /\ c \in Nat \X Nat /\ c[1] \in 1..searches /\ c[2] \in Nat
      /\ items \in Seq(PgDocs) /\ Len(items) \in Nat /\ c[2] <= Len(items)
      /\ \A i \in 1..Len(items) : items[i] = <<c[1], PageTopK + i>>
      /\ PageTopK + Len(items) <= ranked[c[1]]
      /\ ranked[c[1]] \in Nat
  <2>1. /\ c[1] \in DOMAIN pages /\ c \in Nat \X Nat /\ c[1] \in 1..searches
        /\ c[2] <= Len(items)
    BY Zenon DEF PgIInv, PgCursors, ServeStoredPage, Visible
  <2>2. /\ items \in Seq(PgDocs)
        /\ \A i \in 1..Len(items) : items[i] = <<c[1], PageTopK + i>>
        /\ PageTopK + Len(items) <= ranked[c[1]]
        /\ ranked \in Seq(Nat) /\ c[1] \in 1..Len(ranked)
    BY Zenon, <2>1 DEF PgIInv, PgSnapshot
  <2> HIDE DEF items
  <2>3. c[2] \in Nat /\ Len(items) \in Nat /\ ranked[c[1]] \in Nat
    BY <2>1, <2>2
  <2>. QED  BY Zenon, <2>1, <2>2, <2>3
<1>2. PageTopK \in Nat /\ bound \in Nat /\ c[2] <= bound
  BY SMTT(30), <1>1, PagesAssumption
<1>3. /\ UNCHANGED <<pages, searches, ranked>>
      /\ reply'.results = window /\ reply'.after = c
      /\ held' = held \/ (held' = [held EXCEPT ![t] = @ \cup {<<c[1], consumed>>}])
  BY Zenon DEF ServeStoredPage, Window
<1> HIDE DEF bound, items
<1>4. /\ Len(window) \in Nat /\ c[2] + Len(window) <= Len(items)
      /\ \A i \in 1..Len(window) : window[i] = items[c[2] + i]
  BY SMTT(30), <1>1, <1>2, SliceOf
<1> HIDE DEF window
<1>5. ASSUME NEW i \in 1..Len(window) PROVE window[i] = <<c[1], PageTopK + c[2] + i>>
  <2>1. c[2] + i \in 1..Len(items) /\ PageTopK + (c[2] + i) = PageTopK + c[2] + i
    <3> DEFINE at == c[2]
               n == Len(window)
               m == Len(items)
    <3>1. at \in Nat /\ n \in Nat /\ m \in Nat /\ PageTopK \in Nat /\ at + n <= m /\ i \in 1..n
      BY Zenon, <1>1, <1>2, <1>4
    <3> HIDE DEF at, n, m
    <3>2. at + i \in 1..m /\ PageTopK + (at + i) = PageTopK + at + i
      BY <3>1
    <3>. QED  BY Zenon, <3>2 DEF at, m
  <2>. QED  BY Zenon, <1>1, <1>4, <2>1
<1>6. PageTopK + c[2] + Len(window) <= ranked[c[1]]
  BY SMTT(30), <1>1, <1>2, <1>4
<1>7. PageIsASliceOfTheRanking'
  BY Zenon, <1>3, <1>5, <1>6 DEF PageIsASliceOfTheRanking
<1>8. PgSnapshot'
  BY Zenon, <1>3 DEF PgIInv, PgSnapshot
<1>9. PgCursors'
  <2>1. held' \in [PageTenants -> SUBSET (Nat \X Nat)]
    <3>1. <<c[1], consumed>> \in Nat \X Nat
      BY <1>1, <1>4
    <3> HIDE DEF consumed
    <3>. QED  BY <1>3, <3>1 DEF PgIInv, PgCursors
  <2>2. ASSUME NEW v \in PageTenants, NEW d \in held'[v]
        PROVE  d \in held[v] \/ d = <<c[1], consumed>>
    BY SMTT(30), <1>3, <2>2 DEF PgIInv, PgCursors
  <2>3. c[1] \in DOMAIN pages => consumed <= Len(pages[c[1]].items)
    BY Zenon, <1>4 DEF items
  <2>. QED  BY SMTT(30), <1>1, <1>3, <2>1, <2>2, <2>3 DEF PgIInv, PgCursors
<1>. QED  BY Zenon, <1>7, <1>8, <1>9 DEF PgIInv

(***************************************************************************)
(* Every page served is the slice of its own search's ranking that follows *)
(* what the caller was given before, for any number of tenants, searches   *)
(* and cursors held (PageIsASliceOfTheRanking).                            *)
(***************************************************************************)
THEOREM PagesAreSlices == PagesSpec => []PageIsASliceOfTheRanking
<1>1. PagesInit => PgIInv
  BY DEF PagesInit, PgIInv, PgSnapshot, PgCursors, PageIsASliceOfTheRanking, NoReply
<1>2. PgIInv /\ [PagesNext]_pageVars => PgIInv'
  <2> SUFFICES ASSUME PgIInv, [PagesNext]_pageVars PROVE PgIInv'
    BY Zenon
  <2>1. CASE UNCHANGED <<pages, searches, ranked, held, reply>>
    BY Zenon, <2>1 DEF PgIInv, PgSnapshot, PgCursors, PageIsASliceOfTheRanking
  <2>2. CASE \E t, u \in PageTenants : \E c \in held[u] : CursorExpired(t, c)
    BY <2>2 DEF CursorExpired, PgIInv, PgSnapshot, PgCursors, PageIsASliceOfTheRanking
  <2>. QED  BY Zenon, <2>1, <2>2, SearchStep, ServeStep DEF PagesNext, pageVars, DayPasses
<1>3. PgIInv => PageIsASliceOfTheRanking
  BY Zenon DEF PgIInv
<1>. QED  BY <1>1, <1>2, <1>3, PTL DEF PagesSpec

-----------------------------------------------------------------------------
(* The trace of an answer. *)

AeEvents == {"refining", "entities", "searching", "results", "synthesizing", "delta", "done", "error"}
AeRows == [shown : {"none", "results", "answer", "error"}, degraded : BOOLEAN, key : BOOLEAN]

(* What the argument needs of the variables' values. *)
AeTypeOK ==
    /\ endpoint \in {"retrieve", "query", "stream"}
    /\ shown.kind \in {"none", "results", "answer"} /\ shown.degraded \in BOOLEAN
    /\ found.degraded \in BOOLEAN /\ keyed \in BOOLEAN
    /\ httpReply.http \in Nat

AeSeqOK == sse \in Seq(AeEvents) /\ traces \in Seq(AeRows)

(* The telemetry still to run, once the middleware has queued it. *)
AeTaskNames == {"usage", "blob", "trace"}
AeQueued == apc \in {"refining", "searching", "streaming", "telemetry"} => tasks \in Seq(AeTaskNames)

AeStreaming == {"refining", "searching", "streaming"}

(* Nothing is recorded before the handler is done. *)
AeOpen == apc \notin {"telemetry", "detached", "settled"} => traces = <<>>

(* Whether the reply is an error, where a stream stands, and what a finished *)
(* request shows.                                                            *)
AeReplied ==
    /\ httpReply.http = 200 => ~httpReply.error
    /\ apc \in AeStreaming => endpoint = "stream" /\ httpReply.http = 200
    /\ apc \in {"search", "synthesize", "detached"} => endpoint # "stream"
    /\ apc = "synthesize" => endpoint = "query"
    /\ apc = "detached" => httpReply.http = 500
    /\ shown.kind # "none" => apc \in {"telemetry", "settled"}
    /\ shown.kind = "answer" => shown.degraded = found.degraded
    /\ apc \in {"telemetry", "settled"} /\ endpoint # "stream" /\ httpReply.http = 200
         => shown.kind = (IF endpoint = "retrieve" THEN "results" ELSE "answer")

(* `done` is a stream's last event, and a stream shows an answer or nothing. *)
AeDone ==
    /\ Occurs(sse, "done") =>
         apc \in {"telemetry", "settled"} /\ endpoint = "stream" /\ httpReply.http = 200
    /\ endpoint = "stream" => shown.kind \in {"none", "answer"}

AeIInv == AeTypeOK /\ AeSeqOK /\ AeQueued /\ AeOpen /\ AeReplied /\ AeDone /\ TraceShowsTheAnswer

(* While nothing is recorded there is nothing to be wrong about. *)
LEMMA AeNoTraces == traces = <<>> => TraceShowsTheAnswer
BY DEF TraceShowsTheAnswer

(* What has been streamed is kept when an event is added. *)
LEMMA AeAdded ==
    ASSUME NEW s \in Seq(AeEvents), NEW e \in AeEvents \ {"done"}
    PROVE  Append(s, e) \in Seq(AeEvents) /\ (Occurs(Append(s, e), "done") => Occurs(s, "done"))
BY DEF Occurs

(* Answering a request keeps the invariant: each way the handler ends leaves a
   reply and the tasks that go with it. *)
LEMMA AeHandler ==
    ASSUME AeIInv,
           \/ Unauthenticated
           \/ Authenticated
           \/ \E n \in 0..MaxChunks, degraded, keep \in BOOLEAN : Searched(n, degraded, keep)
           \/ \E http \in {0, 400, 503}, keep \in BOOLEAN : SearchFails(http, keep)
           \/ \E text, declared \in CiteLists, parsed \in BOOLEAN : Synthesized(text, declared, parsed)
           \/ \E raised \in BOOLEAN : SynthesisFails(raised)
    PROVE  AeIInv'
<1> USE DEF AeIInv
<1>1. UNCHANGED <<endpoint, sse, traces, keyed>> /\ traces = <<>> /\ apc \in {"auth", "search", "synthesize"}
      /\ shown.kind = "none"
  BY DEF Unauthenticated, Authenticated, Searched, SearchFails, Synthesized, SynthesisFails, AeOpen,
         AeReplied
<1>2. AeSeqOK' /\ AeOpen' /\ TraceShowsTheAnswer'
  BY <1>1, AeNoTraces DEF AeSeqOK, AeOpen, TraceShowsTheAnswer
<1>3. ~Occurs(sse', "done")
  BY Zenon, <1>1 DEF AeDone
<1>4. AeTypeOK'
  BY SMTT(30), <1>1 DEF AeTypeOK, Unauthenticated, Authenticated, Searched, SearchFails, Synthesized,
         SynthesisFails, Responds, Raises
<1>5. httpReply'.http = 200 => ~httpReply'.error
  <2>1. CASE UNCHANGED httpReply
    BY <2>1 DEF AeReplied
  <2>2. CASE \E http \in Nat : httpReply' = [http |-> http, error |-> http >= 500]
    <3>1. PICK http \in Nat : httpReply' = [http |-> http, error |-> http >= 500]
      BY Zenon, <2>2
    <3>2. CASE http = 200
      <4>1. httpReply'.error = (http >= 500)
        BY Zenon, <3>1, Zenon
      <4>2. ~(http >= 500)
        BY <3>2
      <4>. QED  BY <4>1, <4>2, Zenon
    <3>3. CASE http # 200
      BY SMTT(30), <3>1, <3>3
    <3>. QED  BY Zenon, <3>2, <3>3
  <2>3. CASE httpReply' = [http |-> 401, error |-> FALSE] \/ httpReply' = [http |-> 500, error |-> TRUE]
    BY <2>3
  <2>4. CASE UNCHANGED httpReply \/ Responds(200) \/ Responds(400) \/ Responds(503) \/ Responds(502)
    BY <2>1, <2>2, <2>4 DEF Responds
  <2>. QED  BY SMTT(30), <2>1, <2>3, <2>4 DEF Unauthenticated, Authenticated, Searched, SearchFails,
         Synthesized, SynthesisFails, Raises
<1>6. AeReplied'
  <2>1. CASE Unauthenticated
    BY SMTT(30), <1>1, <1>5, <2>1 DEF Unauthenticated, AeReplied, AeStreaming
  <2>2. CASE Authenticated
    BY SMTT(30), <1>1, <1>5, <2>2 DEF Authenticated, Responds, AeReplied, AeStreaming
  <2>3. CASE \E n \in 0..MaxChunks, degraded, keep \in BOOLEAN : Searched(n, degraded, keep)
    BY SMTT(30), <1>1, <1>5, <2>3 DEF Searched, Responds, AeReplied, AeStreaming, AeTypeOK
  <2>4. CASE \E http \in {0, 400, 503}, keep \in BOOLEAN : SearchFails(http, keep)
    BY SMTT(30), <1>1, <1>5, <2>4 DEF SearchFails, Responds, Raises, AeReplied, AeStreaming, AeTypeOK
  <2>5. CASE \E text, declared \in CiteLists, parsed \in BOOLEAN : Synthesized(text, declared, parsed)
    BY SMTT(30), <1>1, <1>5, <2>5 DEF Synthesized, Responds, AeReplied, AeStreaming, AeTypeOK
  <2>6. CASE \E raised \in BOOLEAN : SynthesisFails(raised)
    BY SMTT(30), <1>1, <1>5, <2>6 DEF SynthesisFails, Responds, Raises, AeReplied, AeStreaming, AeTypeOK
  <2>. QED  BY SMTT(30), <2>1, <2>2, <2>3, <2>4, <2>5, <2>6
<1>7. endpoint' = "stream" => shown'.kind \in {"none", "answer"}
  BY <1>1 DEF AeReplied, Unauthenticated, Authenticated, Searched, SearchFails, Synthesized,
         SynthesisFails
<1>8. Chain \in Seq(AeTaskNames)
  BY SMTT(30) DEF Chain, AeTaskNames
<1>9. AeQueued'
  BY SMTT(30), <1>1, <1>8 DEF AeQueued, Unauthenticated, Authenticated, Searched, SearchFails, Synthesized,
         SynthesisFails, Responds, Raises
<1>. QED  BY Zenon, <1>2, <1>3, <1>4, <1>6, <1>7, <1>9 DEF AeDone

(* Streaming an answer keeps it: what is recorded waits for the last event. *)
LEMMA AeStreams ==
    ASSUME AeIInv,
           \/ StreamRefined
           \/ \E n \in 0..MaxChunks, degraded, keep \in BOOLEAN : StreamSearched(n, degraded, keep)
           \/ StreamDelta
           \/ StreamFails
           \/ \E text \in CiteLists, stashed \in BOOLEAN : StreamDone(text, stashed)
    PROVE  AeIInv'
<1> USE DEF AeIInv
<1>1. /\ UNCHANGED <<endpoint, traces, keyed, httpReply, tasks>> /\ traces = <<>> /\ apc \in AeStreaming
      /\ shown.kind = "none" /\ endpoint = "stream" /\ httpReply.http = 200
      /\ apc' \in AeStreaming \cup {"telemetry"}
  BY SMTT(30) DEF StreamRefined, StreamSearched, StreamDelta, StreamFails, StreamDone, AeOpen, AeReplied,
         AeStreaming
<1>2. AeOpen' /\ TraceShowsTheAnswer' /\ AeQueued'
  BY <1>1 DEF AeOpen, TraceShowsTheAnswer, AeQueued, AeStreaming
<1>3. ~Occurs(sse, "done")
  BY Zenon, <1>1 DEF AeDone, AeStreaming
<1>4. CASE \E text \in CiteLists, stashed \in BOOLEAN : StreamDone(text, stashed)
  <2>1. /\ apc' = "telemetry" /\ UNCHANGED found /\ sse' = Append(sse, "done")
        /\ \/ shown' = shown
           \/ shown' = [kind |-> "answer", degraded |-> found.degraded]
    BY Zenon, <1>4 DEF StreamDone, Emit
  <2>2. AeTypeOK' /\ AeReplied' /\ AeDone'
    BY SMTT(30), <1>1, <2>1 DEF AeTypeOK, AeReplied, AeDone, AeStreaming
  <2>3. AeSeqOK'
    BY SMTT(30), <1>1, <2>1 DEF AeSeqOK, AeEvents
  <2>. QED  BY Zenon, <1>2, <2>2, <2>3
<1>5. CASE \/ StreamRefined
           \/ \E n \in 0..MaxChunks, degraded, keep \in BOOLEAN : StreamSearched(n, degraded, keep)
           \/ StreamDelta
           \/ StreamFails
  <2>1. shown' = shown /\ found'.degraded \in BOOLEAN
    BY SMTT(30), <1>5 DEF StreamRefined, StreamSearched, StreamDelta, StreamFails, AeTypeOK
  <2>2. AeTypeOK' /\ AeReplied'
    BY Zenon, <1>1, <2>1 DEF AeTypeOK, AeReplied, AeStreaming
  <2>3. sse' \in Seq(AeEvents) /\ ~Occurs(sse', "done")
    <3>1. CASE StreamDelta \/ StreamFails
      BY ZenonT(30), <1>3, <3>1, AeAdded DEF StreamDelta, StreamFails, Emit, AeSeqOK, AeEvents
    <3>2. CASE StreamRefined
      BY <1>3, <3>2 DEF StreamRefined, AeSeqOK, AeEvents, Occurs
    <3>3. CASE \E n \in 0..MaxChunks, degraded, keep \in BOOLEAN : StreamSearched(n, degraded, keep)
      BY <1>3, <3>3 DEF StreamSearched, AeSeqOK, AeEvents, Occurs
    <3>. QED  BY Zenon, <1>5, <3>1, <3>2, <3>3
  <2>4. AeSeqOK' /\ AeDone'
    BY Zenon, <1>1, <2>1, <2>3 DEF AeSeqOK, AeDone
  <2>. QED  BY Zenon, <1>2, <2>2, <2>4
<1>. QED  BY Zenon, <1>4, <1>5

(* What a task records shows what the request shows, and the request is over. *)
LEMMA AeTasks ==
    ASSUME AeIInv,
           \/ \E ok \in BOOLEAN : RunChained(ok)
           \/ \E ok \in BOOLEAN, task \in {"usage", "blob", "trace"} : RunDetached(task, ok)
    PROVE  AeIInv'
<1> USE DEF AeIInv
<1>1. /\ UNCHANGED <<endpoint, found, sse, shown, httpReply>>
      /\ \/ apc = "telemetry" /\ apc' \in {"telemetry", "settled"}
         \/ apc = "detached" /\ apc' \in {"detached", "settled"}
  BY Zenon DEF RunChained, RunDetached
<1>2. /\ traces' = traces \/ traces' = Append(traces, TraceRow)
      /\ \/ UNCHANGED keyed
         \/ \E ok \in BOOLEAN : StoreBlob(ok)
  <2>1. ASSUME NEW ok \in BOOLEAN, NEW task,
               CASE task = "usage" -> WriteUsage(ok) /\ UNCHANGED <<traces, blob, keyed>>
                 [] task = "blob"  -> StoreBlob(ok) /\ UNCHANGED <<usage, traces>>
                 [] task = "trace" -> WriteTrace(ok) /\ UNCHANGED <<usage, blob, keyed>>,
               task \in {"usage", "blob", "trace"}
        PROVE  /\ traces' = traces \/ traces' = Append(traces, TraceRow)
               /\ UNCHANGED keyed \/ StoreBlob(ok)
    BY Zenon, <2>1 DEF WriteTrace
  <2>2. ASSUME NEW ok \in BOOLEAN, RunChained(ok) PROVE Head(tasks) \in AeTaskNames
    BY <2>2 DEF RunChained, AeQueued
  <2>. QED  BY Zenon, <2>1, <2>2 DEF RunChained, RunDetached, AeTaskNames
<1>. keyed' \in BOOLEAN
  BY Zenon, <1>2 DEF StoreBlob, AeTypeOK
<1>. AeQueued'
  <2>1. CASE apc = "detached"
    BY Zenon, <1>1, <2>1 DEF AeQueued
  <2>2. CASE apc = "telemetry"
    <3>1. tasks # <<>> /\ tasks' = Tail(tasks) /\ tasks \in Seq(AeTaskNames)
      BY Zenon, <2>2 DEF AeQueued, RunChained, RunDetached
    <3>. QED  BY <3>1 DEF AeQueued
  <2>. QED  BY Zenon, <1>1, <2>1, <2>2
<1>3. AeTypeOK' /\ AeOpen' /\ AeReplied' /\ AeDone'
  BY <1>1, <1>2 DEF AeTypeOK, AeOpen, AeReplied, AeDone, AeStreaming
<1>4. TraceRow \in AeRows
  BY Zenon DEF TraceRow, AeRows, AeTypeOK
<1>5. AeSeqOK'
  BY SMTT(30), <1>1, <1>2, <1>4 DEF AeSeqOK
<1>6. ASSUME NEW i \in 1..Len(traces') PROVE (i \in 1..Len(traces) /\ traces'[i] = traces[i]) \/ traces'[i] = TraceRow
  BY SMTT(30), <1>2, <1>4 DEF AeSeqOK
<1>7. /\ endpoint # "stream" /\ httpReply.http = 200
           => TraceRow.shown = (IF endpoint = "retrieve" THEN "results" ELSE "answer")
      /\ Occurs(sse, "done") /\ shown.kind # "none" => TraceRow.shown = "answer"
      /\ TraceRow.shown = "answer" => TraceRow.degraded = found.degraded
  BY SMTT(30), <1>1 DEF TraceRow, AeReplied, AeDone, AeTypeOK
<1>8. TraceShowsTheAnswer'
  BY SMTT(30), <1>1, <1>6, <1>7 DEF TraceShowsTheAnswer
<1>. QED  BY Zenon, <1>3, <1>5, <1>8

(***************************************************************************)
(* The trace row of a request that answered shows that answer and its      *)
(* `degraded` flag, however the streamed answer, the handler's failure and *)
(* the telemetry tasks interleave (TraceShowsTheAnswer).                   *)
(***************************************************************************)
THEOREM TracesShowTheAnswer == AnswerSpec => []TraceShowsTheAnswer
<1>1. AnswerInit => AeIInv
  <2> SUFFICES ASSUME AnswerInit PROVE AeIInv
    BY Zenon
  <2>1. AeTypeOK /\ AeReplied
    BY ZenonT(30) DEF AnswerInit, AeTypeOK, AeReplied, AeStreaming, NothingFound, Fine
  <2>2. AeSeqOK /\ AeQueued /\ AeOpen /\ AeDone /\ TraceShowsTheAnswer
    BY DEF AnswerInit, AeSeqOK, AeQueued, AeOpen, AeDone, Occurs, TraceShowsTheAnswer
  <2>. QED  BY Zenon, <2>1, <2>2 DEF AeIInv
<1>2. AeIInv /\ [AnswerNext]_answerVars => AeIInv'
  <2> SUFFICES ASSUME AeIInv, [AnswerNext]_answerVars PROVE AeIInv'
    OBVIOUS
  <2>1. CASE UNCHANGED answerVars
    BY <2>1 DEF answerVars, AeIInv, AeTypeOK, AeSeqOK, AeQueued, AeOpen, AeReplied, AeDone,
         AeStreaming, TraceShowsTheAnswer
  <2>2. CASE AnswerNext
    BY <2>2, AeHandler, AeStreams, AeTasks DEF AnswerNext
  <2>. QED  BY Zenon, <2>1, <2>2
<1>3. AeIInv => TraceShowsTheAnswer
  BY Zenon DEF AeIInv
<1>. QED  BY <1>1, <1>2, <1>3, PTL DEF AnswerSpec

=============================================================================
