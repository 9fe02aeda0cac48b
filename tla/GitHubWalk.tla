----------------------------- MODULE GitHubWalk -----------------------------
(***************************************************************************)
(* The historical walk of a GitHub installation:                           *)
(* GitHubConnector.backfill (kb/handlers/github.py) with the GraphQL       *)
(* client under it (kb/handlers/_github_graphql.py).                       *)
(*                                                                         *)
(* One task per repository walks four phases of pages, at most GwSlots at  *)
(* a time, and puts events into one bounded queue.  Each event carries a   *)
(* checkpoint of the WHOLE walk, taken before the put.  The consumer (the  *)
(* v2 history step, or the legacy runner) stores an event together with    *)
(* its checkpoint, and may stop at any event; the next walk starts from    *)
(* the stored checkpoint.                                                  *)
(*                                                                         *)
(* A page is the set of its events.  A pull request and the reviews nested *)
(* in it are put one after the other without moving the cursor, so they    *)
(* are events of one page.                                                 *)
(***************************************************************************)
EXTENDS Integers, Sequences, FiniteSets, SequencesExt

CONSTANTS GwRepos,     \* sequence of the selected repositories
          GwPages,     \* [repo -> [1..4 -> sequence of pages]]
          GwReplies,   \* the runs of provider replies a query may meet
          GwSlots,     \* github_backfill_repo_concurrency
          GwQueueMax,  \* maxsize of the asyncio queue (100)
          GwStops,     \* how often the consumer may stop (bound)
          GwFaults     \* how many page queries may fail (bound)

VARIABLES gwStrict,    \* strict_backfill: set by the v2 worker only
          gwState,     \* "idle", "running", "complete" or "failed"
          gwOrder,     \* repos_to_walk of this walk
          gwAt,        \* repo -> [stage, phase, page, left]
          gwQueue,     \* events put and not yet consumed
          gwHeld,      \* repo -> the event it is about to put
          gwCursor,    \* the stored checkpoint
          gwStored,    \* events the consumer stored
          gwSkipped,   \* events on pages a lenient walk gave up
          gwStopsLeft, gwFaultsLeft

gwVars == <<gwStrict, gwState, gwOrder, gwAt, gwQueue, gwHeld, gwCursor, gwStored,
            gwSkipped, gwStopsLeft, gwFaultsLeft>>

GwRepoSet == Range(GwRepos)
\* _walk_repo's phases, which have one shape: pulls, issues, commits, releases.
GwPhases == 1 .. 4
GwPagesOf(r, ph) == GwPages[r][ph]
GwAll == UNION {UNION {GwPagesOf(r, ph)[k] : k \in DOMAIN GwPagesOf(r, ph)} :
                  r \in GwRepoSet, ph \in GwPhases}

GwOff == [stage |-> "off", phase |-> 1, page |-> 0, left |-> {}]
GwNone == [event |-> "none", cursor |-> <<>>]

\* _decode_github_cursor: no checkpoint starts every repository from the top.
GwDecodeCursor(c) ==
    IF c = <<>> THEN [repos |-> GwRepos, phase |-> 1, page |-> 0] ELSE c[1]

\* run_graphql: what one query comes to, given what the provider answers to its
\* attempts (three at most): a page, a page with its nodes missing, or None.
\* A strict query raises on any error block.
GwMaxAttempts == 3
GwRunGraphql(replies, strict) ==
    LET rep == [k \in 1 .. GwMaxAttempts |->
                  IF k <= Len(replies) THEN replies[k] ELSE "ok"]
        retried(k) == \/ rep[k] \in {"limited", "5xx"}
                      \/ rep[k] = "recoverable" /\ ~strict
        final == IF \E k \in 1 .. GwMaxAttempts : ~retried(k)
                 THEN CHOOSE k \in 1 .. GwMaxAttempts :
                        ~retried(k) /\ \A i \in 1 .. k - 1 : retried(i)
                 ELSE GwMaxAttempts
    IN  CASE rep[final] = "ok" -> "page"
          [] rep[final] \in {"errors", "errors_data", "recoverable_data"} /\ strict -> "raise"
          [] rep[final] \in {"errors_data", "recoverable_data"} -> "partial"
          [] OTHER -> "none"

\* query_page: in a strict walk a page that is None is an error too.
GwQueryPage(replies) ==
    LET result == GwRunGraphql(replies, gwStrict)
    IN  IF gwStrict /\ result = "none" THEN "raise" ELSE result

-----------------------------------------------------------------------------
GwInit ==
    /\ gwStrict \in BOOLEAN
    /\ gwState = "idle"
    /\ gwOrder = <<>>
    /\ gwAt = [r \in GwRepoSet |-> GwOff]
    /\ gwQueue = <<>>
    /\ gwHeld = [r \in GwRepoSet |-> GwNone]
    /\ gwCursor = <<>>
    /\ gwStored = {}
    /\ gwSkipped = {}
    /\ gwStopsLeft = GwStops
    /\ gwFaultsLeft = GwFaults

\* backfill up to the creation of the walker tasks: only the repository the
\* checkpoint stands in keeps its phase and cursor.
GwStart ==
    /\ gwState = "idle"
    /\ LET c == GwDecodeCursor(gwCursor)
       IN /\ gwOrder' = c.repos
          /\ gwAt' = [r \in GwRepoSet |->
                CASE c.repos # <<>> /\ r = c.repos[1] ->
                       [stage |-> "wait", phase |-> c.phase, page |-> c.page, left |-> {}]
                  [] c.repos # <<>> /\ r # c.repos[1] /\ r \in Range(c.repos) ->
                       [GwOff EXCEPT !.stage = "wait"]
                  [] OTHER -> GwOff]
    /\ gwState' = "running"
    /\ UNCHANGED <<gwStrict, gwQueue, gwHeld, gwCursor, gwStored, gwSkipped, gwStopsLeft,
                   gwFaultsLeft>>

GwActive == {r \in GwRepoSet : gwAt[r].stage \in {"fetch", "emit", "put"}}

\* "async with sem"
GwAcquire(r) ==
    /\ gwState = "running"
    /\ gwAt[r].stage = "wait"
    /\ Cardinality(GwActive) < GwSlots
    /\ gwAt' = [gwAt EXCEPT ![r].stage = "fetch"]
    /\ UNCHANGED <<gwStrict, gwState, gwOrder, gwQueue, gwHeld, gwCursor, gwStored, gwSkipped,
                   gwStopsLeft, gwFaultsLeft>>

\* Variant of GwSnapshot: a repository whose task raised counts as completed.
GwSnapshotWithoutRaised ==
    LET remaining == SelectSeq(gwOrder, LAMBDA r : gwAt[r].stage \notin {"done", "raised"})
        cur == remaining[1]
    IN  <<[repos |-> remaining, phase |-> gwAt[cur].phase, page |-> gwAt[cur].page]>>

\* _snapshot_cursor
GwSnapshot ==
    LET remaining == SelectSeq(gwOrder, LAMBDA r : gwAt[r].stage # "done")
        cur == remaining[1]
    IN  <<[repos |-> remaining, phase |-> gwAt[cur].phase, page |-> gwAt[cur].page]>>

\* Where a walker stands after the page it has emptied: the next page, the next
\* phase, or the end of the repository (_walk_repo's completed.add).
GwNextPhase(r) ==
    IF gwAt[r].phase = 4 THEN [stage |-> "done", phase |-> 4, page |-> 0, left |-> {}]
    ELSE [stage |-> "fetch", phase |-> gwAt[r].phase + 1, page |-> 0, left |-> {}]
GwAfterPage(r) ==
    IF gwAt[r].page + 1 < Len(GwPagesOf(r, gwAt[r].phase))
    THEN [stage |-> "fetch", phase |-> gwAt[r].phase, page |-> gwAt[r].page + 1, left |-> {}]
    ELSE GwNextPhase(r)

GwPageNow(r) ==
    IF gwAt[r].page < Len(GwPagesOf(r, gwAt[r].phase))
    THEN GwPagesOf(r, gwAt[r].phase)[gwAt[r].page + 1] ELSE {}
GwRestOfPhase(r) ==
    UNION {GwPagesOf(r, gwAt[r].phase)[k] :
             k \in {i \in DOMAIN GwPagesOf(r, gwAt[r].phase) : i > gwAt[r].page}}

\* The head of a phase's loop.  None breaks out of the loop, so the walk goes on
\* with the next phase; a raise ends this repository's task.
GwFetch(r) ==
    /\ gwState = "running"
    /\ gwAt[r].stage = "fetch"
    /\ \E replies \in GwReplies :
         LET result == GwQueryPage(replies)
         IN /\ result # "page" => gwFaultsLeft > 0
            /\ gwFaultsLeft' = IF result = "page" THEN gwFaultsLeft ELSE gwFaultsLeft - 1
            /\ gwAt' = [gwAt EXCEPT ![r] =
                  CASE result = "page" -> [gwAt[r] EXCEPT !.stage = "emit", !.left = GwPageNow(r)]
                    [] result = "partial" -> GwAfterPage(r)
                    [] result = "none" -> GwNextPhase(r)
                    [] OTHER -> [gwAt[r] EXCEPT !.stage = "raised"]]
            /\ gwSkipped' = CASE result = "partial" -> gwSkipped \cup GwPageNow(r)
                              [] result = "none" -> gwSkipped \cup GwRestOfPhase(r)
                              [] OTHER -> gwSkipped
    /\ UNCHANGED <<gwStrict, gwState, gwOrder, gwQueue, gwHeld, gwCursor, gwStored, gwStopsLeft>>

\* The snapshot of one event: taken under snapshot_lock, before the put.
GwTakeSnapshot(r) ==
    /\ gwState = "running"
    /\ gwAt[r].stage = "emit"
    /\ \E e \in gwAt[r].left :
         /\ gwHeld' = [gwHeld EXCEPT ![r] = [event |-> e, cursor |-> GwSnapshot]]
         /\ gwAt' = [gwAt EXCEPT ![r].stage = "put", ![r].left = @ \ {e}]
    /\ UNCHANGED <<gwStrict, gwState, gwOrder, gwQueue, gwCursor, gwStored, gwSkipped,
                   gwStopsLeft, gwFaultsLeft>>

\* "await queue.put(...)": blocks while the queue is full.
GwPut(r) ==
    /\ gwState = "running"
    /\ gwAt[r].stage = "put"
    /\ Len(gwQueue) < GwQueueMax
    /\ gwQueue' = Append(gwQueue, gwHeld[r])
    /\ gwHeld' = [gwHeld EXCEPT ![r] = GwNone]
    /\ gwAt' = [gwAt EXCEPT ![r].stage = "emit"]
    /\ UNCHANGED <<gwStrict, gwState, gwOrder, gwCursor, gwStored, gwSkipped, gwStopsLeft,
                   gwFaultsLeft>>

\* The tail of a page's loop: rs[...cursor] = endCursor, then the next page, the
\* next phase, or completed.add.
GwAdvance(r) ==
    /\ gwState = "running"
    /\ gwAt[r].stage = "emit"
    /\ gwAt[r].left = {}
    /\ gwAt' = [gwAt EXCEPT ![r] = GwAfterPage(r)]
    /\ UNCHANGED <<gwStrict, gwState, gwOrder, gwQueue, gwHeld, gwCursor, gwStored, gwSkipped,
                   gwStopsLeft, gwFaultsLeft>>

\* The history step's transaction for one event: enqueue_event and the job's
\* cursor are one commit.
GwConsume ==
    /\ gwState = "running"
    /\ gwQueue # <<>>
    /\ gwStored' = gwStored \cup {gwQueue[1].event}
    /\ gwCursor' = gwQueue[1].cursor
    /\ gwQueue' = Tail(gwQueue)
    /\ UNCHANGED <<gwStrict, gwState, gwOrder, gwAt, gwHeld, gwSkipped, gwStopsLeft, gwFaultsLeft>>

\* The consumer stops (slice used up, no capacity, lease lost, a crash): the
\* generator's finally cancels the tasks and what the queue holds is dropped.
GwStop ==
    /\ gwState = "running"
    /\ gwStopsLeft > 0
    /\ gwStopsLeft' = gwStopsLeft - 1
    /\ gwState' = "idle"
    /\ gwOrder' = <<>>
    /\ gwAt' = [r \in GwRepoSet |-> GwOff]
    /\ gwQueue' = <<>>
    /\ gwHeld' = [r \in GwRepoSet |-> GwNone]
    /\ UNCHANGED <<gwStrict, gwCursor, gwStored, gwSkipped, gwFaultsLeft>>

\* The generator's loop ends when every task is done and the queue is empty; a
\* task that raised makes the walk raise.
GwFinish ==
    /\ gwState = "running"
    /\ gwQueue = <<>>
    /\ \A r \in Range(gwOrder) : gwAt[r].stage \in {"done", "raised"}
    /\ gwState' = IF \E r \in Range(gwOrder) : gwAt[r].stage = "raised" THEN "failed"
                  ELSE "complete"
    /\ UNCHANGED <<gwStrict, gwOrder, gwAt, gwQueue, gwHeld, gwCursor, gwStored, gwSkipped,
                   gwStopsLeft, gwFaultsLeft>>

\* retry_backfill resets a failed job's cursor: the walk starts from the top.
GwRetry ==
    /\ gwState = "failed"
    /\ gwStopsLeft > 0
    /\ gwStopsLeft' = gwStopsLeft - 1
    /\ gwState' = "idle"
    /\ gwCursor' = <<>>
    /\ gwOrder' = <<>>
    /\ gwAt' = [r \in GwRepoSet |-> GwOff]
    /\ UNCHANGED <<gwStrict, gwQueue, gwHeld, gwStored, gwSkipped, gwFaultsLeft>>

GwDone == gwState \in {"complete", "failed"} /\ UNCHANGED gwVars

GwNext ==
    \/ GwStart \/ GwConsume \/ GwStop \/ GwFinish \/ GwRetry \/ GwDone
    \/ \E r \in GwRepoSet :
         GwAcquire(r) \/ GwFetch(r) \/ GwTakeSnapshot(r) \/ GwPut(r) \/ GwAdvance(r)

-----------------------------------------------------------------------------
\* What a walk from checkpoint c would yield if nothing failed.
GwEventsFrom(c) ==
    LET d == GwDecodeCursor(c)
        before(r, ph, k) == r = d.repos[1] /\ (ph < d.phase \/ (ph = d.phase /\ k <= d.page))
    IN  UNION {GwPagesOf(t[1], t[2])[t[3]] :
                 t \in {u \in Range(d.repos) \X GwPhases \X (1 .. 3) :
                          /\ u[3] \in DOMAIN GwPagesOf(u[1], u[2])
                          /\ ~before(u[1], u[2], u[3])}}

\* backfill: the checkpoint stored with an event never stands past an event that
\* is not stored yet.  Wherever the consumer stops, a walk from the stored
\* checkpoint yields every event that is still missing, except those on pages a
\* lenient walk gave up.
WalkResumesWhereItStood == GwAll \subseteq gwStored \cup gwSkipped \cup GwEventsFrom(gwCursor)

=============================================================================
