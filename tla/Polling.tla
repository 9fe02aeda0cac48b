------------------------------ MODULE Polling ------------------------------
(***************************************************************************)
(* Polled ingestion (kb/polling): the scheduler's ticks over the cursor    *)
(* rows, the five pollers, and the sink that turns what they return into   *)
(* ingestion queue rows.                                                   *)
(*                                                                         *)
(* A resource's upstream is the sequence of the update times of its items, *)
(* oldest first.  A cursor is an update time (0 for NULL: the look-back    *)
(* window of a first poll reaches every modelled item); Sentry's is a      *)
(* position in its listing.  A page holds one item, so page caps count     *)
(* items.  The order of each listing belongs to the provider: Slack's is   *)
(* the one _max_ts describes, the others the one their cursors rely on.    *)
(***************************************************************************)
EXTENDS Integers, Sequences, FiniteSets, SequencesExt, Slices

CONSTANTS PlKinds,      \* resource -> the sources it may belong to; "none": no poller
          PlCap,        \* source -> pages walked in one poll
          PlLimit,      \* batch_size
          PlItemsMax,   \* resource -> how many items it ever has (bound)
          PlFaults,     \* how many calls fail (bound)
          PlCrashes     \* how often a tick is abandoned (bound)

VARIABLES plSource,     \* resource -> source of its cursor row
          plUp,         \* resource -> update times upstream
          plConnected,  \* resource -> its integration token is active
          plOrder,      \* cursor rows by polled_at, oldest first
          plDue,        \* rows whose polled_at is older than the minimum age
          plCursor,     \* resource -> cursor_value
          plTick,       \* CursorRows of this tick still to poll
          plHand,       \* the PollResult in the sink
          plQueued,     \* resource -> items in ingestion_queue
          plDropped,    \* resource -> items the sink logged and left out
          plFaultsLeft, plCrashesLeft

plVars == <<plSource, plUp, plConnected, plOrder, plDue, plCursor, plTick, plHand, plQueued,
            plDropped, plFaultsLeft, plCrashesLeft>>

PlResources == DOMAIN PlKinds
PlIdle == [res |-> "", docs |-> <<>>, next |-> 0, begun |-> FALSE]

PlInit ==
    /\ plSource \in {s \in [PlResources -> UNION Range(PlKinds)] :
                        \A r \in PlResources : s[r] \in PlKinds[r]}
    /\ plUp = [r \in PlResources |-> <<>>]
    /\ plConnected = [r \in PlResources |-> TRUE]
    /\ plOrder \in {s \in [1 .. Cardinality(PlResources) -> PlResources] : IsInjective(s)}
    /\ plDue = PlResources
    /\ plCursor = [r \in PlResources |-> 0]
    /\ plTick = <<>> /\ plHand = PlIdle
    /\ plQueued = [r \in PlResources |-> {}] /\ plDropped = plQueued
    /\ plFaultsLeft = PlFaults /\ plCrashesLeft = PlCrashes

PlFault == plFaultsLeft > 0 /\ plFaultsLeft' = plFaultsLeft - 1
PlPolled(r) == plSource[r] # "none"

-----------------------------------------------------------------------------
(* The pollers: the items one poll returns and its next_cursor, 0 for None. *)

PlNewer(r, cursor) == {k \in DOMAIN plUp[r] : plUp[r][k] > cursor}
PlOldestFirst(r, items) == SelectSeq([k \in DOMAIN plUp[r] |-> k], LAMBDA k : k \in items)
PlPages(listing, source) == Slice(listing, 0, PlCap[source])
PlMaxStamp(r, docs) == IF docs = <<>> THEN 0 ELSE Max({plUp[r][k] : k \in Range(docs)})

\* SlackPoller._poll_channel, _max_ts: newest first.
PlSlack(r, cursor) ==
    LET docs == PlPages(Reverse(PlOldestFirst(r, PlNewer(r, cursor))), "slack")
    IN  [docs |-> docs, next |-> PlMaxStamp(r, docs)]

\* NotionPoller._poll_with_client walks from the workspace's oldest page every
\* time; _extract_new_documents keeps what is newer than the cursor.
PlNotion(r, cursor) ==
    LET docs == SelectSeq(PlPages(PlOldestFirst(r, DOMAIN plUp[r]), "notion"),
                          LAMBDA k : k \in PlNewer(r, cursor))
    IN  [docs |-> docs, next |-> PlMaxStamp(r, docs)]

\* LinearPoller.poll: the running maximum starts at the cursor.
PlLinear(r, cursor) ==
    LET docs == PlPages(PlOldestFirst(r, PlNewer(r, cursor)), "linear")
    IN  [docs |-> docs, next |-> Max({cursor, PlMaxStamp(r, docs)})]

\* GitHubPoller.poll: `since` includes the cursor's own second.
PlGitHub(r, cursor) ==
    LET docs == PlPages(PlOldestFirst(r, PlNewer(r, cursor - 1)), "github")
    IN  [docs |-> docs, next |-> PlMaxStamp(r, docs)]

\* Variant of PlSentry: the rel="next" link is never found.
PlSentryWithoutLink(r, cursor) ==
    LET docs == PlPages(PlOldestFirst(r, {k \in DOMAIN plUp[r] : k > cursor}), "sentry")
    IN  [docs |-> docs, next |-> 0]

\* SentryPoller.poll: one page; the rel="next" cursor, None on the last page.
PlSentry(r, cursor) ==
    LET docs == PlPages(PlOldestFirst(r, {k \in DOMAIN plUp[r] : k > cursor}), "sentry")
        to == cursor + Len(docs)
    IN  [docs |-> docs, next |-> IF to < Len(plUp[r]) THEN to ELSE 0]

PlPoll(r, cursor) ==
    CASE plSource[r] = "slack" -> PlSlack(r, cursor)
      [] plSource[r] = "notion" -> PlNotion(r, cursor)
      [] plSource[r] = "linear" -> PlLinear(r, cursor)
      [] plSource[r] = "github" -> PlGitHub(r, cursor)
      [] plSource[r] = "sentry" -> PlSentry(r, cursor)

-----------------------------------------------------------------------------
(* The cursor rows *)

PlStamp(r) ==
    /\ plOrder' = Append(SelectSeq(plOrder, LAMBDA x : x # r), r)
    /\ plDue' = plDue \ {r}

\* advance_cursor: COALESCE(EXCLUDED.cursor_value, cursor_value).
PlAdvanceCursor(r, next) ==
    /\ PlStamp(r)
    /\ plCursor' = [plCursor EXCEPT ![r] = IF next = 0 THEN @ ELSE next]

\* stamp_error: polled_at only.
PlStampError(r) == PlStamp(r) /\ UNCHANGED plCursor

-----------------------------------------------------------------------------
(* PollScheduler *)

\* tick_once, list_due_cursors: the oldest polled_at first, LIMIT batch_size.
PlListDue ==
    /\ plTick = <<>> /\ plDue # {}
    /\ LET rows == Slice(SelectSeq(plOrder, LAMBDA r : r \in plDue), 0, PlLimit)
       IN plTick' = [k \in DOMAIN rows |-> [res |-> rows[k], cursor |-> plCursor[rows[k]]]]
    /\ UNCHANGED <<plSource, plUp, plConnected, plOrder, plDue, plCursor, plHand, plQueued, plDropped,
                   plFaultsLeft, plCrashesLeft>>

PlAtRow == plTick # <<>> /\ plHand = PlIdle

\* _poll_one without a poller: polled_at stays.
PlSkipRow ==
    /\ PlAtRow /\ ~PlPolled(Head(plTick).res)
    /\ plTick' = Tail(plTick)
    /\ UNCHANGED <<plSource, plUp, plConnected, plOrder, plDue, plCursor, plHand, plQueued, plDropped,
                   plFaultsLeft, plCrashesLeft>>

\* _poll_one with a result: documents go to the sink, none to advance_cursor.
PlPollOne ==
    /\ PlAtRow /\ PlPolled(Head(plTick).res) /\ plConnected[Head(plTick).res]
    /\ LET row == Head(plTick)
           result == PlPoll(row.res, row.cursor)
       IN IF result.docs = <<>>
          THEN /\ PlAdvanceCursor(row.res, result.next)
               /\ plTick' = Tail(plTick) /\ UNCHANGED plHand
          ELSE /\ plHand' = [res |-> row.res, docs |-> result.docs, next |-> result.next,
                             begun |-> FALSE]
               /\ UNCHANGED <<plTick, plOrder, plDue, plCursor>>
    /\ UNCHANGED <<plSource, plUp, plConnected, plQueued, plDropped, plFaultsLeft, plCrashesLeft>>

\* No active token, a failed request or an error answer on any page: stamp_error;
\* the documents of earlier pages are not handed on.
PlPollError ==
    /\ PlAtRow /\ PlPolled(Head(plTick).res)
    /\ IF plConnected[Head(plTick).res] THEN PlFault ELSE UNCHANGED plFaultsLeft
    /\ PlStampError(Head(plTick).res)
    /\ plTick' = Tail(plTick)
    /\ UNCHANGED <<plSource, plUp, plConnected, plHand, plQueued, plDropped, plCrashesLeft>>

\* PollDocumentSink.__call__, the bucket: a failure raises, and _poll_one stamps it.
PlSinkBegin ==
    /\ plHand # PlIdle /\ ~plHand.begun
    /\ \/ /\ plHand' = [plHand EXCEPT !.begun = TRUE]
          /\ UNCHANGED <<plTick, plOrder, plDue, plCursor, plFaultsLeft>>
       \/ /\ PlFault
          /\ PlStampError(plHand.res)
          /\ plTick' = Tail(plTick) /\ plHand' = PlIdle
    /\ UNCHANGED <<plSource, plUp, plConnected, plQueued, plDropped, plCrashesLeft>>

\* PollDocumentSink.__call__, one document: the put or _enqueue fails and the
\* loop continues, _enqueue finds the source disconnected, or the row is there
\* (ON CONFLICT DO NOTHING when an earlier poll brought it).
PlSinkDoc ==
    /\ plHand.begun /\ plHand.docs # <<>>
    /\ LET r == plHand.res
           k == Head(plHand.docs)
           left == plDropped' = [plDropped EXCEPT ![r] = @ \cup ({k} \ plQueued[r])] /\ UNCHANGED plQueued
       IN \/ PlFault /\ left
          \/ ~plConnected[r] /\ left /\ UNCHANGED plFaultsLeft
          \/ /\ plConnected[r]
             /\ plQueued' = [plQueued EXCEPT ![r] = @ \cup {k}]
             /\ plDropped' = [plDropped EXCEPT ![r] = @ \ {k}]
             /\ UNCHANGED plFaultsLeft
    /\ plHand' = [plHand EXCEPT !.docs = Tail(@)]
    /\ UNCHANGED <<plSource, plUp, plConnected, plOrder, plDue, plCursor, plTick, plCrashesLeft>>

\* The sink has returned.
PlAdvance ==
    /\ plHand.begun /\ plHand.docs = <<>>
    /\ PlAdvanceCursor(plHand.res, plHand.next)
    /\ plTick' = Tail(plTick) /\ plHand' = PlIdle
    /\ UNCHANGED <<plSource, plUp, plConnected, plQueued, plDropped, plFaultsLeft, plCrashesLeft>>

\* The pod dies, or a cursor write raises and run_forever drops the tick.
PlAbandonTick ==
    /\ plTick # <<>> /\ plCrashesLeft > 0
    /\ plCrashesLeft' = plCrashesLeft - 1
    /\ plTick' = <<>> /\ plHand' = PlIdle
    /\ UNCHANGED <<plSource, plUp, plConnected, plOrder, plDue, plCursor, plQueued, plDropped,
                   plFaultsLeft>>

-----------------------------------------------------------------------------
(* Surroundings *)

\* min_resource_age_seconds pass.
PlAge(r) ==
    /\ r \notin plDue
    /\ plDue' = plDue \cup {r}
    /\ UNCHANGED <<plSource, plUp, plConnected, plOrder, plCursor, plTick, plHand, plQueued, plDropped,
                   plFaultsLeft, plCrashesLeft>>

\* The user disconnects or reconnects the source (a fault of the budget).
PlToggle(r) ==
    /\ PlPolled(r) /\ (plConnected[r] => plFaultsLeft > 0)
    /\ plConnected' = [plConnected EXCEPT ![r] = ~@]
    /\ plFaultsLeft' = IF plConnected[r] THEN plFaultsLeft - 1 ELSE plFaultsLeft
    /\ UNCHANGED <<plSource, plUp, plOrder, plDue, plCursor, plTick, plHand, plQueued, plDropped,
                   plCrashesLeft>>

\* Something changes upstream.  Slack's ts is unique in a channel and Sentry
\* pages by position; the other clocks count seconds, so two changes may share
\* one, though never as many as a poll returns.
PlChange(r) ==
    LET last == IF plUp[r] = <<>> THEN 0 ELSE Last(plUp[r])
        sharing == Cardinality({k \in DOMAIN plUp[r] : plUp[r][k] = last})
    IN /\ PlPolled(r) /\ Len(plUp[r]) < PlItemsMax[r]
       /\ \/ plUp' = [plUp EXCEPT ![r] = Append(@, last + 1)]
          \/ /\ plSource[r] \in {"notion", "linear", "github"}
             /\ sharing > 0 /\ sharing + 1 < PlCap[plSource[r]]
             /\ plUp' = [plUp EXCEPT ![r] = Append(@, last)]
       /\ UNCHANGED <<plSource, plConnected, plOrder, plDue, plCursor, plTick, plHand, plQueued,
                      plDropped, plFaultsLeft, plCrashesLeft>>

PlStep == PlListDue \/ PlSkipRow \/ PlPollOne \/ PlSinkBegin \/ PlSinkDoc \/ PlAdvance
PlNext ==
    \/ PlStep \/ PlPollError \/ PlAbandonTick
    \/ \E r \in PlResources : PlAge(r) \/ PlToggle(r) \/ PlChange(r)

-----------------------------------------------------------------------------

\* tick_once and list_due_cursors come round to every row, also beside a row that
\* is skipped for ever: again and again every change upstream has been polled
\* while its source is connected.  Stated for the cursors that lose no item of
\* the same second.
EveryItemIsPolled ==
    []<>(\A r \in PlResources :
            (plSource[r] \in {"slack", "github", "sentry"} /\ plConnected[r])
            => DOMAIN plUp[r] \subseteq plQueued[r] \cup plDropped[r])

=============================================================================
