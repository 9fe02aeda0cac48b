---- MODULE SourceReads ----
(***************************************************************************)
(* Reading one document: GET /source-view and GET /trajectory of           *)
(* engine/retrieval/main.py over the two byte-bounded caches of the        *)
(* retrieval process (byte_lru.py, reassembly_cache.py,                    *)
(* trajectory_cache.py), while the document is rewritten in place.         *)
(*                                                                         *)
(* A live session's chunk set changes at the same version, and its stored  *)
(* trajectory is replaced or deleted at any time.  Readers run on one      *)
(* event loop: what one does between two awaits is one step.               *)
(***************************************************************************)
EXTENDS Integers, Sequences, SequencesExt, FiniteSetsExt, Functions, Slices

CONSTANTS
  Readers,
  Bodies,        \* version -> the stored trajectory: step sizes, <<0>> unreadable
  Texts,         \* version -> the live chunk set: <<chunk, ...>>, a chunk its lines
  StepLimit,     \* steps a trajectory page may hold
  PageBytes,     \* _TRAJECTORY_PAGE_MAX_BYTES
  LineLimit,     \* lines a range view may hold
  CacheBytes,    \* budget of one cache
  CacheEntries   \* its entry cap

VARIABLES
  stored,    \* version of the object in the store, 0 when there is none
  chunked,   \* version of the document's live chunk set
  writes,    \* rewrites so far
  lru,       \* the trajectory cache, least recently used first: [key, val, bytes]
  texts,     \* the reassembly cache
  reader,    \* reader -> [pc, at, cached, got, base, page, next, walked]
  view       \* the last grep or search view: [mode, wanted, context, sections, cut]

readVars == <<stored, chunked, writes, lru, texts, reader, view>>

Versions == DOMAIN Bodies
Unread == [pc |-> "idle", at |-> 1, cached |-> 0, got |-> 0, base |-> 0,
           page |-> <<>>, next |-> 0, walked |-> <<>>]
NoView == [mode |-> "none", wanted |-> {}, context |-> 0, sections |-> <<>>, cut |-> FALSE]

ReadsInit ==
  /\ stored = 1
  /\ chunked = 1
  /\ writes = 0
  /\ lru = <<>>
  /\ texts = <<>>
  /\ reader = [r \in Readers |-> Unread]
  /\ view = NoView

----------------------------------------------------------------------------
\* ByteBudgetLRU: a sequence in order of use.
Held(cache, key) == {i \in 1..Len(cache) : cache[i].key = key}
Pop(cache, key) == SelectSeq(cache, LAMBDA e : e.key # key)
Bytes(cache) == FoldLeft(LAMBDA n, e : n + e.bytes, 0, cache)

\* get(): a hit moves the entry to the end.
Touch(cache, key) ==
  IF Held(cache, key) = {} THEN cache
  ELSE Append(Pop(cache, key), cache[CHOOSE i \in Held(cache, key) : TRUE])
Lookup(cache, key) ==
  IF Held(cache, key) = {} THEN 0 ELSE cache[CHOOSE i \in Held(cache, key) : TRUE].val

\* The eviction loop: the shortest run of old entries whose going makes the
\* rest fit.
Fits(cache) == Bytes(cache) <= CacheBytes /\ Len(cache) <= CacheEntries
Evicted(cache) ==
  LET gone == Min({k \in 0..Len(cache) : Fits(SubSeq(cache, k + 1, Len(cache)))})
  IN SubSeq(cache, gone + 1, Len(cache))

\* put(): an older value of the key always goes; one larger than the whole
\* budget is not held.
Put(cache, key, val, bytes) ==
  IF bytes > CacheBytes THEN Pop(cache, key)
  ELSE Evicted(Append(Pop(cache, key), [key |-> key, val |-> val, bytes |-> bytes]))

----------------------------------------------------------------------------
\* The session worker writes a new trajectory in place, or deletes it; a
\* resync changes the live chunk set at the same version.
Rewrite ==
  /\ writes < Cardinality(Versions)
  /\ writes' = writes + 1
  /\ \E v \in Versions \cup {0} :
       \/ v # stored /\ stored' = v /\ UNCHANGED chunked
       \/ v \in DOMAIN Texts /\ v # chunked /\ chunked' = v /\ UNCHANGED stored
  /\ UNCHANGED <<lru, texts, reader, view>>

\* TrajectoryPages.page: from `step_from`, at most StepLimit steps, stopping
\* before the one that would pass the byte budget, never before the first.
PageEnd(sizes, first) ==
  LET last == Min({Len(sizes), first + StepLimit})
      Fit(k) == FoldLeft(LAMBDA n, i : n + sizes[i], 0,
                                       [j \in 1..(k - first) |-> first + j]) <= PageBytes
  IN Max({first} \cup {k \in (first + 1)..last :
             \A j \in (first + 2)..k : Fit(j)})

Readable(v) == Bodies[v] # <<0>>

\* The page of version v for reader r, and where the next one starts.
ServeSteps(r, v) ==
  LET total == Len(Bodies[v])
      first == Min({reader[r].at - 1, total})
      end == PageEnd(Bodies[v], first)
      following == reader[r].at + (end - first)
      page == [i \in 1..(end - first) |-> first + i]
  IN [reader[r] EXCEPT !.pc = "served", !.base = v, !.page = page,
                       !.next = IF following <= total THEN following ELSE 0,
                       !.walked = @ \o [i \in 1..Len(page) |-> <<v, page[i]>>]]

\* The cached copy, then the conditional GET that carries its ETag.
TrajectoryBegin(r) ==
  /\ reader[r].pc = "idle"
  /\ lru' = Touch(lru, "trajectory")
  /\ reader' = [reader EXCEPT ![r].pc = "get", ![r].cached = Lookup(lru, "trajectory")]
  /\ UNCHANGED <<stored, chunked, writes, texts, view>>

\* What the store answers at this moment: 404, 304 or the body.
TrajectoryGet(r) ==
  /\ reader[r].pc = "get"
  /\ CASE stored = 0 ->
            /\ lru' = Pop(lru, "trajectory")
            /\ reader' = [reader EXCEPT ![r].pc = "not_built", ![r].got = 0]
       [] stored # 0 /\ stored = reader[r].cached ->
            /\ reader' = [reader EXCEPT ![r] =
                            [ServeSteps(r, stored) EXCEPT !.got = stored]]
            /\ UNCHANGED lru
       [] OTHER ->
            /\ reader' = [reader EXCEPT ![r].pc = "parse", ![r].got = stored]
            /\ UNCHANGED lru
  /\ UNCHANGED <<stored, chunked, writes, texts, view>>

\* from_body ran in a thread: the copy is cached and served, or dropped.
TrajectoryParsed(r) ==
  /\ reader[r].pc = "parse"
  /\ IF Readable(reader[r].got)
     THEN /\ lru' = Put(lru, "trajectory", reader[r].got,
                        FoldLeft(LAMBDA n, s : n + s, 0, Bodies[reader[r].got]))
          /\ reader' = [reader EXCEPT ![r] = ServeSteps(r, reader[r].got)]
     ELSE /\ lru' = Pop(lru, "trajectory")
          /\ reader' = [reader EXCEPT ![r].pc = "not_built"]
  /\ UNCHANGED <<stored, chunked, writes, texts, view>>

----------------------------------------------------------------------------
\* reconstruct_chunk_text_with_spans on rows that do not overlap: the chunk
\* bodies in order, a blank line between them.
Stitch(rows) == FoldLeft(LAMBDA out, c : IF out = <<>> THEN c ELSE out \o <<"">> \o c, <<>>, rows)

\* chunk_set_fingerprint: the ordered membership of the rows that were read.
Fingerprint(v) == Texts[v]

\* _load_source_doc_and_chunks, then the cache: a hit is served at once.
TextBegin(r) ==
  LET key == Fingerprint(chunked) IN
  /\ reader[r].pc = "idle"
  /\ texts' = Touch(texts, key)
  /\ reader' = [reader EXCEPT ![r].got = chunked, ![r].cached = Lookup(texts, key),
                              ![r].pc = IF Held(texts, key) = {} THEN "stitch" ELSE "view"]
  /\ UNCHANGED <<stored, chunked, writes, lru, view>>

\* The stitch ran in a thread over the rows this request loaded.
TextStitched(r) ==
  /\ reader[r].pc = "stitch"
  /\ texts' = Put(texts, Fingerprint(reader[r].got), reader[r].got,
                  Len(Stitch(Texts[reader[r].got])))
  /\ reader' = [reader EXCEPT ![r].pc = "view", ![r].cached = reader[r].got]
  /\ UNCHANGED <<stored, chunked, writes, lru, view>>

\* _bounded_lines: the last line shown, and the cursor after it (0: none).
BoundedEnd(start, total) == Min({total, start + LineLimit - 1})
\* Variant: the cursor names the last line already shown.
NextCursorOnLast(end, total) == IF end < total THEN end ELSE 0

NextCursor(end, total) == IF end < total THEN end + 1 ELSE 0

\* The range view of the text this request holds, cached or stitched.
TextView(r) ==
  LET text == Stitch(Texts[reader[r].cached])
      start == reader[r].at
      end == BoundedEnd(start, Len(text))
      page == SubSeq(text, start, end)
  IN /\ reader[r].pc = "view"
     /\ reader' = [reader EXCEPT ![r].pc = "served", ![r].base = reader[r].cached,
                     ![r].page = page,
                     ![r].next = IF start > Len(text) THEN 0 ELSE NextCursor(end, Len(text)),
                     ![r].walked = @ \o [i \in 1..Len(page) |-> <<reader[r].cached, page[i]>>]]
     /\ UNCHANGED <<stored, chunked, writes, lru, texts, view>>

\* The grep view: windows of `context` lines around the matching lines, two
\* that touch merged, until `most` windows exist.
GrepWindows(n, matches, context, most) ==
  LET Step(acc, l) ==
        IF acc.done \/ l \notin matches THEN acc
        ELSE LET start == Max({1, l - context})
                 end == Min({n, l + context})
                 w == IF acc.w # <<>> /\ start <= Last(acc.w)[2] + 1
                      THEN [acc.w EXCEPT ![Len(acc.w)] = <<@[1], Max({@[2], end})>>]
                      ELSE Append(acc.w, <<start, end>>)
             IN [w |-> w, done |-> Len(w) >= most]
  IN FoldLeft(Step, [w |-> <<>>, done |-> FALSE], [i \in 1..n |-> i]).w

\* The windows cut to `lines` lines in all.
GrepSections(windows, lines, most) ==
  LET Step(acc, w) ==
        IF acc.done THEN acc
        ELSE IF acc.left <= 0 THEN [acc EXCEPT !.cut = TRUE, !.done = TRUE]
        ELSE LET end == Min({w[2], w[1] + acc.left - 1})
             IN [out |-> Append(acc.out, <<w[1], end>>), left |-> acc.left - (end - w[1] + 1),
                 cut |-> acc.cut \/ end < w[2], done |-> end < w[2]]
  IN FoldLeft(Step, [out |-> <<>>, left |-> lines, cut |-> Len(windows) >= most,
                     done |-> FALSE], windows)

\* Views are functions of the text a request holds, so they are explored
\* apart from the readers: one view per behaviour.
GrepView(v, matches, context, most) ==
  LET n == Len(Stitch(Texts[v]))
      sections == GrepSections(GrepWindows(n, matches, context, most), LineLimit + 1, most)
  IN /\ view = NoView
     /\ matches \subseteq 1..n
     /\ view' = [mode |-> "grep", wanted |-> matches, context |-> context,
                 sections |-> sections.out, cut |-> sections.cut]
     /\ UNCHANGED <<stored, chunked, writes, lru, texts, reader>>

\* Variant: a chunk that does not fit is left out without saying so.
SearchSectionsSilent(rows, score, most) ==
  LET hits == SetToSortSeq({i \in 1..Len(rows) : score[i] > 0},
                LAMBDA i, j : score[i] > score[j] \/ (score[i] = score[j] /\ i < j))
      Step(acc, i) ==
        IF Len(rows[i]) > acc.left THEN acc
        ELSE [acc EXCEPT !.out = Append(@, <<i, Len(rows[i])>>), !.left = @ - Len(rows[i])]
  IN FoldLeft(Step, [out |-> <<>>, left |-> LineLimit, cut |-> Len(hits) > most, done |-> FALSE],
              Slice(hits, 0, most))

\* The search view: the chunks with a score, best first (ties by position),
\* each shown from its start until the line limit is spent.
SearchSections(rows, score, most) ==
  LET hits == SetToSortSeq({i \in 1..Len(rows) : score[i] > 0},
                LAMBDA i, j : score[i] > score[j] \/ (score[i] = score[j] /\ i < j))
      Step(acc, i) ==
        IF acc.done THEN acc
        ELSE IF acc.left <= 0 THEN [acc EXCEPT !.cut = TRUE, !.done = TRUE]
        ELSE LET take == Min({Len(rows[i]), acc.left})
             IN [out |-> Append(acc.out, <<i, take>>), left |-> acc.left - take,
                 cut |-> acc.cut \/ take < Len(rows[i]), done |-> take < Len(rows[i])]
  IN FoldLeft(Step, [out |-> <<>>, left |-> LineLimit, cut |-> Len(hits) > most, done |-> FALSE],
              Slice(hits, 0, most))

SearchView(v, score, most) ==
  LET rows == Texts[v]
      sections == SearchSections(rows, score, most)
  IN /\ view = NoView
     /\ DOMAIN score = 1..Len(rows)
     /\ view' = [mode |-> "search", wanted |-> {i \in DOMAIN score : score[i] > 0}, context |-> 0,
                 sections |-> sections.out, cut |-> sections.cut]
     /\ UNCHANGED <<stored, chunked, writes, lru, texts, reader>>

----------------------------------------------------------------------------
\* The caller asks for the page after the one it got, or starts over.
NextPage(r) ==
  /\ reader[r].pc = "served"
  /\ reader[r].next # 0
  /\ reader' = [reader EXCEPT ![r].pc = "idle", ![r].at = reader[r].next,
                              ![r].cached = 0, ![r].got = 0]
  /\ UNCHANGED <<stored, chunked, writes, lru, texts, view>>

\* A reader walks either the trajectory or the text.
Trajectory(r) == TrajectoryBegin(r) \/ TrajectoryGet(r) \/ TrajectoryParsed(r)
Text(r) ==
  \/ TextBegin(r)
  \/ TextStitched(r)
  \/ TextView(r)

ReadsNext(walksText) ==
  \/ Rewrite
  \/ \E r \in Readers :
       \/ (r \in walksText /\ Text(r))
       \/ (r \notin walksText /\ Trajectory(r))
       \/ NextPage(r)

ViewsNext ==
  \E v \in DOMAIN Texts :
    \/ \E matches \in SUBSET (1..6), context \in 0..1, most \in 1..3 :
         GrepView(v, matches, context, most)
    \/ \E score \in [1..Len(Texts[v]) -> 0..2], most \in 1..3 : SearchView(v, score, most)

----------------------------------------------------------------------------

\* A walk over one unchanged version returns every step or line exactly
\* once, in order: pages neither overlap nor leave a gap.
WalkIsComplete(walksText) ==
  \A r \in Readers : reader[r].pc = "served" /\ reader[r].next = 0 =>
    LET walked == reader[r].walked
        base == reader[r].base
        whole == IF r \in walksText THEN Stitch(Texts[base])
                 ELSE [i \in 1..Len(Bodies[base]) |-> i]
    IN (\A i \in 1..Len(walked) : walked[i][1] = base)
         => [i \in 1..Len(walked) |-> walked[i][2]] = whole

\* A grep or search view that does not say it was cut shows every line or
\* chunk that matched; what it shows is in order, without repeats, within
\* the limit, and near a match.
ViewIsHonest ==
  /\ view.mode = "grep" =>
       LET s == view.sections
           lines == UNION {(s[i][1])..(s[i][2]) : i \in 1..Len(s)}
       IN /\ ~view.cut => view.wanted \subseteq lines
          /\ \A i \in 1..(Len(s) - 1) : s[i][2] + 1 < s[i + 1][1]
          /\ Cardinality(lines) <= LineLimit + 1
          /\ \A l \in lines : \E m \in view.wanted : m - view.context <= l /\ l <= m + view.context
  /\ view.mode = "search" =>
       /\ ~view.cut => view.wanted = {view.sections[i][1] : i \in 1..Len(view.sections)}
       /\ FoldLeft(LAMBDA n, s : n + s[2], 0, view.sections) <= LineLimit
====
