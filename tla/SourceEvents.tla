---------------------------- MODULE SourceEvents ----------------------------
(***************************************************************************)
(* From a provider's event to a version of a document, for the connectors  *)
(* that have no ordering guard of their own: Slack, Linear, Notion and     *)
(* Sentry (kb/handlers/*.py) on the shared write path of                   *)
(* engine/ingest/normalizer.py.                                            *)
(*                                                                         *)
(* One provider object (a message, an issue, a page) is created, edited,   *)
(* removed and restored upstream.  Each change is announced by an event    *)
(* that may arrive late, twice, in another order or never; a poll may also *)
(* report the object as it stands.  parse_webhook_event gives an event its *)
(* source_event_id, on which the queue is unique.  Workers claim rows in   *)
(* queue order, hydrate (Notion asks the provider for the page as it is    *)
(* NOW; Slack asks for names; Linear and Sentry ask nothing), normalise    *)
(* and upsert.  A failed pass returns its row to the queue with a backoff, *)
(* so a later row may overtake it.                                         *)
(*                                                                         *)
(* The statement-level race of two upserts is in DocumentVersions; here an *)
(* upsert is one step.                                                     *)
(***************************************************************************)
EXTENDS Naturals, Sequences, FiniteSets

CONSTANTS
    SeSources,   \* sources the object may belong to
    SeCrew,      \* source -> the number of workers its rows may occupy
    SeChanges,   \* bound: changes of the object upstream
    SePolls,     \* bound: polled reports in the queue
    SeFaults     \* bound: failed passes and failed hydrations

VARIABLES
    seSource,    \* the object's source
    seUp,        \* [text, clock, gone, status]: the object upstream
    seSent,      \* events announced, in the order the provider made them
    seRows,      \* ingestion_queue rows, in enqueue order
    seHand,      \* worker -> 0 or the index of its row
    seHyd,       \* worker -> what fetch_supplementary returned
    seDocs,      \* "main" | "sample" -> versions; the last one is live
    seLast,      \* history: the latest row persisted
    seOrderly,   \* history: rows were persisted in queue order
    seOverlap,   \* history: two passes have been in flight together
    seFaulty,    \* history: some hydration has failed
    seFaultsLeft

seHistory == <<seLast, seOrderly>>

seVars == <<seSource, seUp, seSent, seRows, seHand, seHyd, seDocs, seHistory,
            seOverlap, seFaulty, seFaultsLeft>>

SeWorkers == 1..SeCrew[seSource]

SeNone == [kind |-> "none", text |-> 0, clock |-> 0]

SeMin(S) == CHOOSE x \in S : \A y \in S : x <= y

(***************************************************************************)
(* The provider.  An event carries what its payload carries: for Slack and *)
(* Linear the text at that moment, for Notion only the identity of the     *)
(* page.  "second" is the provider's clock, which need not tick between    *)
(* two edits; "serial" stands for what tells two payloads apart (Slack's   *)
(* event_ts, the payload fingerprint of Linear and Notion).                *)
(***************************************************************************)
SeEvent(kind, up, serial) ==
    [kind |-> kind, text |-> up.text, clock |-> up.clock, status |-> up.status,
     serial |-> serial, polled |-> FALSE]

SeAnnounce(kind, up) ==
    /\ seUp' = up
    /\ seSent' = Append(seSent, SeEvent(kind, up, Len(seSent) + 1))
    /\ UNCHANGED <<seSource, seRows, seHand, seHyd, seDocs, seHistory, seOverlap,
                   seFaulty, seFaultsLeft>>

SeCreate ==
    /\ seUp.text = 0
    /\ SeAnnounce("create", [seUp EXCEPT !.text = 1, !.clock = 1])

SeEdit ==
    /\ seSource # "sentry" /\ seUp.text > 0 /\ ~seUp.gone
    /\ Len(seSent) < SeChanges
    /\ \E c \in {seUp.clock, seUp.clock + 1} :
          SeAnnounce("edit", [seUp EXCEPT !.text = @ + 1, !.clock = c])

SeRemove ==
    /\ seSource # "sentry" /\ seUp.text > 0 /\ ~seUp.gone
    /\ Len(seSent) < SeChanges
    /\ SeAnnounce("delete", [seUp EXCEPT !.gone = TRUE, !.clock = @ + 1])

\* Only Notion announces that a page came back from the trash.
SeRestore ==
    /\ seSource = "notion" /\ seUp.gone
    /\ Len(seSent) < SeChanges
    /\ SeAnnounce("edit", [seUp EXCEPT !.gone = FALSE, !.clock = @ + 1])

\* A Sentry issue moves between its lifecycle states; its text stays.
SeTransition ==
    /\ seSource = "sentry" /\ seUp.text > 0
    /\ Len(seSent) < SeChanges
    /\ \E s \in {"resolved", "unresolved"} \ {seUp.status} :
          SeAnnounce(s, [seUp EXCEPT !.status = s, !.clock = @ + 1])

\* An occurrence of the issue's error: an event_alert / error hook.
SeOccur ==
    /\ seSource = "sentry" /\ seUp.text > 0
    /\ Len(seSent) < SeChanges
    /\ SeAnnounce("occurrence", [seUp EXCEPT !.clock = @ + 1])

(***************************************************************************)
(* parse_webhook_event: the source_event_id of an event.                   *)
(***************************************************************************)
\* Variant of SeSlackId: an edit is named by its message alone.
SeSlackIdWithoutEdit(e) == <<e.kind>>

SeSlackId(e) ==
    IF e.kind = "create" THEN <<"message">> ELSE <<e.kind, e.serial>>

SeLinearId(e) == <<e.kind, e.clock, e.serial>>

SeNotionId(e) ==
    IF e.polled THEN <<"poll", e.clock>>
    ELSE <<(IF e.kind = "delete" THEN "delete" ELSE "edit"), e.clock, e.serial>>

SeSentryId(e) ==
    IF e.kind = "occurrence" THEN <<"event", e.serial>> ELSE <<"issue", e.kind>>

SeId(e) ==
    CASE seSource = "slack"  -> SeSlackId(e)
      [] seSource = "linear" -> SeLinearId(e)
      [] seSource = "notion" -> SeNotionId(e)
      [] seSource = "sentry" -> SeSentryId(e)

(***************************************************************************)
(* received_at of an event, the clock Slack's versions are dated by: the   *)
(* serial, which grows with every event of the provider.                   *)
(***************************************************************************)
SeReceivedAt(e) == e.serial

SeQueued(e) == \E i \in DOMAIN seRows : SeId(seRows[i].ev) = SeId(e)

SeEnqueue(e) ==
    seRows' = IF SeQueued(e) THEN seRows
              ELSE Append(seRows, [ev |-> e, state |-> "pending"])

\* A webhook arrives.  A second arrival of the same event changes nothing: the
\* queue's UNIQUE key drops it.
SeDeliver ==
    \E n \in DOMAIN seSent :
       /\ SeEnqueue(seSent[n])
       /\ UNCHANGED <<seSource, seUp, seSent, seHand, seHyd, seDocs, seHistory,
                      seOverlap, seFaulty, seFaultsLeft>>

\* A poll or a backfill reports the object as it stands.  Slack's synthetic
\* event has the identity of the original message.
SePoll ==
    /\ seSource \in {"slack", "notion"}
    /\ seUp.text > 0 /\ ~seUp.gone
    /\ Cardinality({i \in DOMAIN seRows : seRows[i].ev.polled}) < SePolls
    /\ LET e == [SeEvent("create", seUp, 1) EXCEPT !.polled = TRUE]
       IN ~SeQueued(e) /\ SeEnqueue(e)
    /\ UNCHANGED <<seSource, seUp, seSent, seHand, seHyd, seDocs, seHistory,
                   seOverlap, seFaulty, seFaultsLeft>>

(***************************************************************************)
(* A worker's pass: claim the oldest pending row, hydrate, persist.        *)
(***************************************************************************)
SePending == {i \in DOMAIN seRows : seRows[i].state = "pending"}

SeClaim(w) ==
    /\ seHand[w] = 0 /\ SePending # {}
    /\ \A v \in SeWorkers : v < w => seHand[v] # 0     \* workers are alike
    /\ LET i == SeMin(SePending)
       IN /\ seHand' = [seHand EXCEPT ![w] = i]
          /\ seRows' = [seRows EXCEPT ![i].state = "claimed"]
    /\ seHyd' = [seHyd EXCEPT ![w] = SeNone]
    /\ seOverlap' = (seOverlap \/ \E v \in SeWorkers : seHand[v] # 0)
    /\ UNCHANGED <<seSource, seUp, seSent, seDocs, seHistory, seFaulty, seFaultsLeft>>

\* What the provider answers: Notion the page, Slack the author's name.
SeAnswer ==
    [kind |-> (IF seSource = "notion" THEN "page" ELSE "names"),
     text |-> seUp.text, clock |-> seUp.clock]

\* fetch_supplementary.  A refused, failed or tokenless request returns {},
\* and the pass goes on without it.
SeHydrate(w) ==
    /\ seHand[w] # 0 /\ seHyd[w] = SeNone
    /\ seSource \in {"notion", "slack"}
    /\ \/ /\ seHyd' = [seHyd EXCEPT ![w] = SeAnswer]
          /\ UNCHANGED <<seFaulty, seFaultsLeft>>
       \/ /\ seFaultsLeft > 0
          /\ seFaultsLeft' = seFaultsLeft - 1
          /\ seFaulty' = TRUE
          /\ seHyd' = [seHyd EXCEPT ![w] = [SeNone EXCEPT !.kind = "nothing"]]
    /\ UNCHANGED <<seSource, seUp, seSent, seRows, seHand, seDocs, seHistory,
                   seOverlap>>

(***************************************************************************)
(* normalize: the document an event becomes.  "hash" holds exactly what    *)
(* the connector hashes into content_hash.                                 *)
(***************************************************************************)
SeTombstone(e, from) ==
    [text |-> 0, gone |-> TRUE, status |-> e.status, from |-> from,
     hash |-> <<"deleted", SeReceivedAt(e)>>]

\* Text of the event, dated by the message for an original and by the event
\* for an edit or a deletion; the body, and so the hash, has the author's name
\* in front when it is known.
SeSlackDoc(e, hyd) ==
    IF e.kind = "delete" THEN SeTombstone(e, SeReceivedAt(e))
    ELSE [text |-> e.text, gone |-> FALSE, status |-> e.status,
          from |-> (IF e.kind = "edit" THEN SeReceivedAt(e) ELSE 1),
          hash |-> <<"body", e.text, hyd.kind = "names">>]

\* Title and description of the event; every version is dated by creation.
SeLinearDoc(e) ==
    IF e.kind = "delete" THEN SeTombstone(e, 1)
    ELSE [text |-> e.text, gone |-> FALSE, status |-> e.status, from |-> 1,
          hash |-> <<"body", e.text>>]

\* The page as hydrated; without hydration the event's own entity, which has
\* neither title nor body.
SeNotionDoc(e, hyd) ==
    LET edited == IF hyd.kind = "page" THEN hyd.clock ELSE e.clock
        text   == IF hyd.kind = "page" THEN hyd.text ELSE 0
    IN IF e.kind = "delete" THEN SeTombstone(e, edited)
       ELSE [text |-> text, gone |-> FALSE, status |-> e.status, from |-> edited,
             hash |-> <<"page", edited, text>>]

\* Body, culprit and level are hashed; the status is metadata.
SeSentryIssueDoc(e) ==
    [text |-> e.text, gone |-> FALSE, status |-> e.status, from |-> e.clock,
     hash |-> <<"issue", e.text>>]

SeSentrySampleDoc(e) ==
    [text |-> e.serial, gone |-> FALSE, status |-> e.status, from |-> e.clock,
     hash |-> <<"representative_sample">>]

SeNormalize(e, hyd) ==
    CASE seSource = "slack"  -> SeSlackDoc(e, hyd)
      [] seSource = "linear" -> SeLinearDoc(e)
      [] seSource = "notion" -> SeNotionDoc(e, hyd)
      [] seSource = "sentry" ->
            IF e.kind = "occurrence" THEN SeSentrySampleDoc(e)
            ELSE SeSentryIssueDoc(e)

SeTarget(e) == IF e.kind = "occurrence" THEN "sample" ELSE "main"

\* _upsert_document: an unchanged, undeleted payload is a no-op; anything else
\* closes the live version and opens the next.  These sources are admitted
\* whatever the live version is.
SeUpsert(versions, doc) ==
    IF /\ versions # <<>>
       /\ versions[Len(versions)].hash = doc.hash
       /\ ~doc.gone
    THEN versions
    ELSE Append(versions, doc)

SePersist(w) ==
    /\ seHand[w] # 0
    /\ seSource \in {"notion", "slack"} => seHyd[w] # SeNone
    /\ LET i == seHand[w]
           e == seRows[i].ev
       IN /\ seDocs' = [seDocs EXCEPT ![SeTarget(e)] =
                           SeUpsert(@, SeNormalize(e, seHyd[w]))]
          /\ seRows' = [seRows EXCEPT ![i].state = "done"]
          /\ seLast' = i
          /\ seOrderly' = (seOrderly /\ seLast < i)
    /\ seHand' = [seHand EXCEPT ![w] = 0]
    /\ seHyd' = [seHyd EXCEPT ![w] = SeNone]
    /\ UNCHANGED <<seSource, seUp, seSent, seOverlap, seFaulty,
                   seFaultsLeft>>

\* A pass fails before its commit: the row waits out a backoff.
SeFail(w) ==
    /\ seHand[w] # 0 /\ seFaultsLeft > 0
    /\ seFaultsLeft' = seFaultsLeft - 1
    /\ seRows' = [seRows EXCEPT ![seHand[w]].state = "backoff"]
    /\ seHand' = [seHand EXCEPT ![w] = 0]
    /\ seHyd' = [seHyd EXCEPT ![w] = SeNone]
    /\ UNCHANGED <<seSource, seUp, seSent, seDocs, seHistory, seOverlap, seFaulty>>

SeWake ==
    \E i \in DOMAIN seRows :
       /\ seRows[i].state = "backoff"
       /\ seRows' = [seRows EXCEPT ![i].state = "pending"]
       /\ UNCHANGED <<seSource, seUp, seSent, seHand, seHyd, seDocs, seHistory,
                      seOverlap, seFaulty, seFaultsLeft>>

SeInit ==
    /\ seSource \in SeSources
    /\ seUp = [text |-> 0, clock |-> 0, gone |-> FALSE, status |-> "unresolved"]
    /\ seSent = <<>> /\ seRows = <<>>
    /\ seHand = [w \in SeWorkers |-> 0]
    /\ seHyd = [w \in SeWorkers |-> SeNone]
    /\ seDocs = [main |-> <<>>, sample |-> <<>>]
    /\ seLast = 0 /\ seOrderly = TRUE
    /\ seOverlap = FALSE /\ seFaulty = FALSE
    /\ seFaultsLeft = SeFaults

SeNext ==
    \/ SeCreate \/ SeEdit \/ SeRemove \/ SeRestore \/ SeTransition \/ SeOccur
    \/ SeDeliver \/ SePoll \/ SeWake
    \/ \E w \in SeWorkers : SeClaim(w) \/ SeHydrate(w) \/ SePersist(w) \/ SeFail(w)

(***************************************************************************)
(* Properties.                                                             *)
(***************************************************************************)
SeLive == seDocs.main[Len(seDocs.main)]

\* Every announced event has its row and every row is persisted.
SeDrained ==
    /\ seSent # <<>>
    /\ \A n \in DOMAIN seSent : SeQueued(seSent[n])
    /\ \A i \in DOMAIN seRows : seRows[i].state = "done"

\* Rows carry the provider's events in the order they were made, and were
\* persisted in that order.
SeInOrder ==
    /\ \A i, j \in DOMAIN seRows :
          i < j => seRows[i].ev.serial < seRows[j].ev.serial
    /\ seOrderly

\* SePersist: what the index says once the queue is empty.  Slack and
\* Linear write what each event carries and admit every row, so their live
\* document is the object as it stands when rows were queued and persisted in
\* the provider's order.  Notion hydrates at processing time, so a page that
\* was never removed is current whatever the order, provided no two passes
\* overlapped and no hydration failed.
DrainedObjectIsCurrent ==
    (SeDrained /\ ~seFaulty /\ seDocs.main # <<>>) =>
        CASE seSource \in {"slack", "linear"} ->
                SeInOrder =>
                   /\ SeLive.gone = seUp.gone
                   /\ ~seUp.gone => SeLive.text = seUp.text
          [] seSource = "notion" ->
                (~seOverlap /\ \A n \in DOMAIN seSent : seSent[n].kind # "delete")
                   => SeLive.text = seUp.text
          [] OTHER -> TRUE

=============================================================================
