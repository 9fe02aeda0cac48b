---------------------------- MODULE SourceWalks ----------------------------
(***************************************************************************)
(* The history walks of Notion, Linear, Sentry and Granola: the backfill   *)
(* generators of kb/handlers/{notion,linear,sentry,granola}.py, driven by  *)
(* run_backfill (kb/backfill_runner.py) and, for Granola, restarted by the *)
(* integration poller (kb/poller).                                         *)
(*                                                                         *)
(* A cursor is a number, 0 for None.  For a paged source it names a page;  *)
(* for Granola it is a watermark, the creation time of a note.  Claims and *)
(* their fencing are those of SlackBackfill; here one runner has the row.  *)
(***************************************************************************)
EXTENDS Integers, Sequences, FiniteSets, SequencesExt

CONSTANTS SwSources,   \* sources a behaviour may walk
          SwPages,     \* [paged source -> sequence of pages of items]
          SwNotesMax,  \* how many Granola notes are ever created (bound)
          SwPageSize,  \* notes per Granola page
          SwBatch,     \* backfill_batch_size
          SwFaults,    \* how many requests or flushes may fail (bound)
          SwStops      \* how often the runner is released, killed or disconnected (bound)

VARIABLES swSource, swDesc,  \* the source; does Granola list newest first
          swUp,        \* Granola: notes created so far, 1 .. swUp by creation time
          swToken,     \* integration_tokens.status, "gone" without a row
          swRow,       \* the backfill_state row: status and last_cursor
          swRun,       \* the runner
          swQueued,    \* items in ingestion_queue
          swDropped,   \* database rows a failed query left out
          swGaveUp,    \* did a walk end on an unanswered page request
          swFaultsLeft, swStopsLeft

swVars == <<swSource, swDesc, swUp, swToken, swRow, swRun, swQueued, swDropped, swGaveUp,
            swFaultsLeft, swStopsLeft>>
swFixed == <<swSource, swDesc>>

SwPaged == swSource # "granola"

\* at: what the runner does; page: the page it reads (Granola: the last note
\* listed); rest: what is left of the page; batch: events not yet flushed, with
\* their _cursor; latest: latest_cursor; input, max, skip, saw: Granola's
\* watermark accounting; due: a progress write follows.
SwIdle == [at |-> "idle", page |-> 0, rest |-> <<>>, batch |-> <<>>, latest |-> 0,
           input |-> 0, max |-> 0, skip |-> 0, saw |-> FALSE, due |-> FALSE]

SwInit ==
    /\ swSource \in SwSources /\ swDesc \in BOOLEAN
    /\ swSource # "granola" => ~swDesc
    /\ swUp = 1 /\ swToken = "active"
    /\ swRow = [status |-> "pending", cursor |-> 0]
    /\ swRun = SwIdle
    /\ swQueued = {} /\ swDropped = {} /\ swGaveUp = FALSE
    /\ swFaultsLeft = SwFaults /\ swStopsLeft = SwStops

SwFault == swFaultsLeft > 0 /\ swFaultsLeft' = swFaultsLeft - 1

-----------------------------------------------------------------------------
(* run_backfill *)

\* claim_pending_backfill, _load_resume_state, _load_token and _mark_running.
SwClaim ==
    /\ swRun.at = "idle" /\ swRow.status = "pending"
    /\ IF swToken = "active"
       THEN /\ swRow' = [swRow EXCEPT !.status = "running"]
            /\ swRun' = [SwIdle EXCEPT !.at = "list", !.latest = swRow.cursor,
                            !.page = IF ~SwPaged THEN 0
                                     ELSE IF swRow.cursor = 0 THEN 1 ELSE swRow.cursor,
                            !.input = swRow.cursor, !.max = swRow.cursor]
       ELSE swRow' = [swRow EXCEPT !.status = "failed"] /\ UNCHANGED swRun
    /\ UNCHANGED <<swFixed, swUp, swToken, swQueued, swDropped, swGaveUp, swFaultsLeft, swStopsLeft>>

\* The generator is asked for its next event: no full batch, no write is due.
SwPulls(stage) ==
    /\ swRun.at = stage
    /\ Len(swRun.batch) < SwBatch
    /\ ~swRun.due

\* The latest cursor in the batch that is not None.
SwPending ==
    LET set == {k \in DOMAIN swRun.batch : swRun.batch[k].cursor # 0}
    IN  IF set = {} THEN swRun.latest
        ELSE swRun.batch[CHOOSE k \in set : \A j \in set : j <= k].cursor

\* _flush_now up to the progress write, on a full batch, before a checkpoint and
\* at the end.  Whether the batch crosses a multiple of 25 events is left open.
SwFlush ==
    /\ swRun.at # "idle" /\ swRun.batch # <<>> /\ ~swRun.due
    /\ swRun.at \in {"checkpoint", "finish"} \/ Len(swRun.batch) = SwBatch
    /\ swQueued' = swQueued \cup {swRun.batch[k].id : k \in DOMAIN swRun.batch}
    /\ \E due \in BOOLEAN :
         swRun' = [swRun EXCEPT !.batch = <<>>, !.latest = SwPending, !.due = due]
    /\ UNCHANGED <<swFixed, swUp, swToken, swRow, swDropped, swGaveUp, swFaultsLeft, swStopsLeft>>

\* _update_progress
SwProgress ==
    /\ swRun.due
    /\ swRow' = [swRow EXCEPT !.cursor = swRun.latest]
    /\ swRun' = [swRun EXCEPT !.due = FALSE]
    /\ UNCHANGED <<swFixed, swUp, swToken, swQueued, swDropped, swGaveUp, swFaultsLeft, swStopsLeft>>

\* _mark_done once the generator has ended and its tail is flushed.
SwMarkDone ==
    /\ SwPulls("finish") /\ swRun.batch = <<>>
    /\ swRow' = [status |-> "complete", cursor |-> swRun.latest]
    /\ swRun' = SwIdle
    /\ UNCHANGED <<swFixed, swUp, swToken, swQueued, swDropped, swGaveUp, swFaultsLeft, swStopsLeft>>

\* _mark_failed: a flush or a bucket fails, or Granola answers 429 or 5xx; on
\* Granola's 401 or 403 the token is marked too.
SwMarkFailed ==
    /\ swRun.at # "idle" /\ SwFault
    /\ swRow' = [swRow EXCEPT !.status = "failed"]
    /\ swRun' = SwIdle
    /\ \/ UNCHANGED swToken
       \/ /\ swSource = "granola" /\ swRun.at \in {"list", "page"}
          /\ swToken' = IF swToken = "active" THEN "auth_failed" ELSE swToken
    /\ UNCHANGED <<swFixed, swUp, swQueued, swDropped, swGaveUp, swStopsLeft>>

SwStop == swStopsLeft > 0 /\ swStopsLeft' = swStopsLeft - 1

\* SIGTERM: _release_for_resume.
SwRelease ==
    /\ swRun.at # "idle" /\ SwStop
    /\ swRow' = [swRow EXCEPT !.status = "pending"]
    /\ swRun' = SwIdle
    /\ UNCHANGED <<swFixed, swUp, swToken, swQueued, swDropped, swGaveUp, swFaultsLeft>>

\* The process is killed: the row stays running.
SwDie ==
    /\ swRun.at # "idle" /\ SwStop
    /\ swRun' = SwIdle
    /\ UNCHANGED <<swFixed, swUp, swToken, swRow, swQueued, swDropped, swGaveUp, swFaultsLeft>>

\* disconnect_integration deletes the token.
SwDisconnect ==
    /\ swToken = "active" /\ SwStop
    /\ swToken' = "gone"
    /\ UNCHANGED <<swFixed, swUp, swRow, swRun, swQueued, swDropped, swGaveUp, swFaultsLeft>>

\* The per-event connectedness check drops the batch and leaves the row.
SwAbort ==
    /\ SwPulls("page") /\ swToken # "active"
    /\ swRun' = SwIdle
    /\ UNCHANGED <<swFixed, swUp, swToken, swRow, swQueued, swDropped, swGaveUp, swFaultsLeft,
                   swStopsLeft>>

\* ReclaimLoop: nobody beats for the row.
SwReclaim ==
    /\ swRow.status = "running" /\ swRun.at = "idle"
    /\ swRow' = [swRow EXCEPT !.status = "pending"]
    /\ UNCHANGED <<swFixed, swUp, swToken, swRun, swQueued, swDropped, swGaveUp, swFaultsLeft,
                   swStopsLeft>>

-----------------------------------------------------------------------------
(* The paged walks: Notion's search, Linear's issues, Sentry's issues. *)

\* The page request; unanswered, the generator just returns.
SwFetchPage ==
    /\ SwPaged /\ SwPulls("list")
    /\ \/ /\ swRun' = [swRun EXCEPT !.at = "page", !.rest = SwPages[swSource][swRun.page]]
          /\ UNCHANGED <<swGaveUp, swFaultsLeft>>
       \/ SwFault /\ swRun' = [swRun EXCEPT !.at = "finish"] /\ swGaveUp' = TRUE
    /\ UNCHANGED <<swFixed, swUp, swToken, swRow, swQueued, swDropped, swStopsLeft>>

SwLastPage == swRun.page = Len(SwPages[swSource])

\* Notion: an entity carries the cursor its page was asked with; the rows of a
\* database carry none.
SwNotionCursor(item) == IF item.row \/ swRun.page = 1 THEN 0 ELSE swRun.page
\* Linear: issues and their comments carry the cursor their page was asked with.
SwLinearCursor(item) == IF swRun.page = 1 THEN 0 ELSE swRun.page
\* Sentry: an issue carries the cursor of the NEXT page.
SwSentryCursor(item) == IF SwLastPage THEN 0 ELSE swRun.page + 1

SwCursorOf(item) ==
    CASE swSource = "notion" -> SwNotionCursor(item)
      [] swSource = "linear" -> SwLinearCursor(item)
      [] swSource = "sentry" -> SwSentryCursor(item)

\* One event enters the batch.
SwYield ==
    /\ SwPaged /\ SwPulls("page") /\ swRun.rest # <<>> /\ swToken = "active"
    /\ swRun' = [swRun EXCEPT !.rest = Tail(@),
                    !.batch = Append(@, [id |-> Head(swRun.rest).id,
                                         cursor |-> SwCursorOf(Head(swRun.rest))])]
    /\ UNCHANGED <<swFixed, swUp, swToken, swRow, swQueued, swDropped, swGaveUp, swFaultsLeft,
                   swStopsLeft>>

\* _iter_database_rows: an unanswered query ends the database's rows.
SwRowsFail ==
    /\ swSource = "notion" /\ SwPulls("page")
    /\ swRun.rest # <<>> /\ Head(swRun.rest).row /\ SwFault
    /\ LET ends == {k \in DOMAIN swRun.rest : ~swRun.rest[k].row} \cup {Len(swRun.rest) + 1}
           end == CHOOSE k \in ends : \A j \in ends : k <= j
       IN /\ swRun' = [swRun EXCEPT !.rest = SubSeq(@, end, Len(@))]
          /\ swDropped' = swDropped \cup {swRun.rest[k].id : k \in 1 .. end - 1}
    /\ UNCHANGED <<swFixed, swUp, swToken, swRow, swQueued, swGaveUp, swStopsLeft>>

\* The end of a page: has_more, hasNextPage, or a next link.
SwTurnPage ==
    /\ SwPaged /\ SwPulls("page") /\ swRun.rest = <<>>
    /\ swRun' = IF SwLastPage THEN [swRun EXCEPT !.at = "finish"]
                ELSE [swRun EXCEPT !.at = "list", !.page = @ + 1]
    /\ UNCHANGED <<swFixed, swUp, swToken, swRow, swQueued, swDropped, swGaveUp, swFaultsLeft,
                   swStopsLeft>>

-----------------------------------------------------------------------------
(* Granola *)

\* Notes created after the input watermark that the walk has not listed.
SwUnlisted ==
    {n \in 1 .. swUp : /\ n > swRun.input
                       /\ \/ swRun.page = 0
                          \/ IF swDesc THEN n < swRun.page ELSE n > swRun.page}
SwListed ==
    LET sorted == SetToSortSeq(SwUnlisted, LAMBDA a, b : IF swDesc THEN a > b ELSE a < b)
    IN  SubSeq(sorted, 1, IF Len(sorted) < SwPageSize THEN Len(sorted) ELSE SwPageSize)

\* GET /notes?created_after=watermark; unanswered, return without a checkpoint.
SwListNotes ==
    /\ ~SwPaged /\ SwPulls("list")
    /\ \/ /\ swRun' = [swRun EXCEPT !.at = "page", !.rest = SwListed,
                          !.page = IF SwListed = <<>> THEN @ ELSE Last(SwListed)]
          /\ UNCHANGED swFaultsLeft
       \/ SwFault /\ swRun' = [swRun EXCEPT !.at = "finish"]
    /\ UNCHANGED <<swFixed, swUp, swToken, swRow, swQueued, swDropped, swGaveUp, swStopsLeft>>

\* A hydrated note is yielded with the INPUT watermark.
SwHydrate ==
    /\ ~SwPaged /\ SwPulls("page") /\ swRun.rest # <<>> /\ swToken = "active"
    /\ LET n == Head(swRun.rest)
       IN swRun' = [swRun EXCEPT !.rest = Tail(@), !.saw = TRUE,
                       !.max = IF n > @ THEN n ELSE @,
                       !.batch = Append(@, [id |-> n, cursor |-> swRun.input])]
    /\ UNCHANGED <<swFixed, swUp, swToken, swRow, swQueued, swDropped, swGaveUp, swFaultsLeft,
                   swStopsLeft>>

\* A note that cannot be hydrated caps the watermark.
SwSkipNote ==
    /\ ~SwPaged /\ SwPulls("page") /\ swRun.rest # <<>> /\ SwFault
    /\ LET n == Head(swRun.rest)
       IN swRun' = [swRun EXCEPT !.rest = Tail(@),
                       !.skip = IF @ = 0 \/ n < @ THEN n ELSE @]
    /\ UNCHANGED <<swFixed, swUp, swToken, swRow, swQueued, swDropped, swGaveUp, swStopsLeft>>

\* The next page, or the clean end of the pagination.
SwTurnNotes ==
    /\ ~SwPaged /\ SwPulls("page") /\ swRun.rest = <<>>
    /\ swRun' = [swRun EXCEPT !.at = IF SwUnlisted # {} THEN "list"
                                     ELSE IF swRun.saw THEN "checkpoint" ELSE "finish"]
    /\ UNCHANGED <<swFixed, swUp, swToken, swRow, swQueued, swDropped, swGaveUp, swFaultsLeft,
                   swStopsLeft>>

\* Variant of SwSafeWatermark: a skipped note does not cap it.
SwUncappedWatermark == swRun.max

\* The newest note hydrated, capped just before the oldest one skipped
\* (_watermark_step_back_1ms).
SwSafeWatermark ==
    IF swRun.skip # 0 /\ swRun.skip - 1 < swRun.max THEN swRun.skip - 1 ELSE swRun.max

\* The checkpoint event: flush first, then advance; nothing without movement.
SwCheckpoint ==
    /\ SwPulls("checkpoint")
    /\ swRun.batch = <<>> \/ SwSafeWatermark = swRun.input
    /\ IF SwSafeWatermark = swRun.input
       THEN swRun' = [swRun EXCEPT !.at = "finish"] /\ UNCHANGED swRow
       ELSE /\ swRow' = [swRow EXCEPT !.cursor = SwSafeWatermark]
            /\ swRun' = [swRun EXCEPT !.at = "finish", !.latest = SwSafeWatermark]
    /\ UNCHANGED <<swFixed, swUp, swToken, swQueued, swDropped, swGaveUp, swFaultsLeft, swStopsLeft>>

\* IntegrationPoller._tick_source: re_enqueue_for_polling keeps the cursor.
SwPoll ==
    /\ swSource = "granola" /\ swToken = "active"
    /\ swRow.status \in {"complete", "failed"}
    /\ swRow' = [swRow EXCEPT !.status = "pending"]
    /\ UNCHANGED <<swFixed, swUp, swToken, swRun, swQueued, swDropped, swGaveUp, swFaultsLeft,
                   swStopsLeft>>

\* Somebody writes a note.
SwNewNote ==
    /\ swSource = "granola" /\ swUp < SwNotesMax
    /\ swUp' = swUp + 1
    /\ UNCHANGED <<swFixed, swToken, swRow, swRun, swQueued, swDropped, swGaveUp, swFaultsLeft,
                   swStopsLeft>>

\* What goes on by itself: the runner, the reclaim loop and the poller.
SwStep ==
    \/ SwClaim \/ SwFlush \/ SwProgress \/ SwMarkDone \/ SwAbort \/ SwReclaim \/ SwPoll
    \/ SwFetchPage \/ SwYield \/ SwTurnPage
    \/ SwListNotes \/ SwHydrate \/ SwTurnNotes \/ SwCheckpoint

SwEnd ==
    /\ swRow.status \in {"complete", "failed"}
    /\ swSource = "granola" => swToken # "active"
    /\ UNCHANGED swVars

SwNext ==
    \/ SwStep \/ SwMarkFailed \/ SwRelease \/ SwDie \/ SwDisconnect
    \/ SwRowsFail \/ SwSkipNote \/ SwNewNote \/ SwEnd

-----------------------------------------------------------------------------
SwBefore(cursor) ==
    IF SwPaged
    THEN UNION {{i.id : i \in Range(SwPages[swSource][p])} :
                   p \in {q \in DOMAIN SwPages[swSource] : q < cursor}}
    ELSE 1 .. cursor

\* _flush_now, _update_progress, _mark_done and the _cursor each generator puts
\* on its events: whatever stops a walk, everything before the persisted cursor
\* is in the ingestion queue (or belongs to a database whose query failed), so a
\* resume "continues exactly where we stopped".
CursorNeverPassesUnqueued == SwBefore(swRow.cursor) \subseteq swQueued \cup swDropped

=============================================================================
