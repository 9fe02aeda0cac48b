---------------------------- MODULE InferredEdges ----------------------------
(***************************************************************************)
(* The side queue of LLM-inferred edges (engine/ingest/inferred_edges),    *)
(* with what runs beside it: the writers that enqueue an anchor document   *)
(* after they commit it, the deletion of a coding-agent session            *)
(* (kb/session_deletion.py) and the purge of a GitHub installation's       *)
(* documents (kb/github_control_purge.py).                                 *)
(*                                                                         *)
(* A worker's transaction is open from the bundle's reads to the edges'    *)
(* commit, with an LLM call in the middle: it reads what is committed when *)
(* it reads it, and only the session locks taken before the write keep     *)
(* anyone out.                                                             *)
(***************************************************************************)
EXTENDS Naturals, FiniteSets

CONSTANTS
    IeDocs,         \* documents
    IeSessionOf,    \* the session a document belongs to, 0 for none
    IeGitHub,       \* documents bound to a GitHub installation
    IeRationales,   \* documents written by the feature-node route
    IeWorkers,      \* drain tasks
    IeAttempts,     \* _MAX_ATTEMPTS
    IeBudget,       \* how many documents a bundle's token budget holds
    IeWrites,       \* bound: how often documents are written
    IeFaults        \* bound: failed calls, failed writes and dead workers

ASSUME IeAssumption ==
    /\ IeSessionOf \in [IeDocs -> Nat]
    /\ IeGitHub \cup IeRationales \subseteq {d \in IeDocs : IeSessionOf[d] = 0}
    /\ IeAttempts \in Nat \ {0} /\ IeBudget \in Nat \ {0}
    /\ IeWrites \in Nat /\ IeFaults \in Nat
    /\ "nobody" \notin IeWorkers

VARIABLES
    ieLive,     \* documents with a live version
    ieProv,     \* graph_node_provenance of a document's node; {}: no node
    ieEdges,    \* inferred edges, pairs of documents
    ieRow,      \* the document's row in inferred_edges_queue
    ieTries,    \* its attempts
    ieDue,      \* documents committed and not yet enqueued
    ieGone,     \* per session: kept, recorded as deleted, erased
    iePurged,   \* GitHub documents whose installation was purged
    ieLock,     \* per session: the worker that holds its advisory lock
    ieWork,     \* per worker: its place, anchor, bundle, edges, locks to take
    ieDied,     \* documents whose row a dead worker left processing
    ieLeft      \* writes and faults left

ieVars == <<ieLive, ieProv, ieEdges, ieRow, ieTries, ieDue, ieGone, iePurged,
            ieLock, ieWork, ieDied, ieLeft>>

ieStore == <<ieLive, ieProv, ieEdges, ieGone, iePurged>>

IeSessions == {IeSessionOf[d] : d \in IeDocs} \ {0}
IeNobody == "nobody"
IeIdle == [at |-> "idle", doc |-> IeNobody, bundle |-> {}, edges |-> {}, want |-> {}]

IeInit ==
    /\ ieLive = {} /\ ieProv = [d \in IeDocs |-> {}] /\ ieEdges = {}
    /\ ieRow = [d \in IeDocs |-> "none"] /\ ieTries = [d \in IeDocs |-> 0]
    /\ ieDue = {}
    /\ ieGone = [s \in IeSessions |-> "kept"] /\ iePurged = {}
    /\ ieLock = [s \in IeSessions |-> IeNobody]
    /\ ieWork = [w \in IeWorkers |-> IeIdle]
    /\ ieDied = {}
    /\ ieLeft = [writes |-> IeWrites, faults |-> IeFaults]

IeHasNode(d) == ieProv[d] # {}

(* What a task does to its own record. *)
IeAt(job, place) == [job EXCEPT !.at = place]
IeReading(job, docs) == [job EXCEPT !.at = "ask", !.bundle = docs]
IeFencing(job, kept, refs) == [job EXCEPT !.at = "fence", !.edges = kept, !.want = refs]
IeTaken(job, s) == [job EXCEPT !.want = @ \ {s}]
IeGoTo(w, place) == ieWork' = [ieWork EXCEPT ![w] = IeAt(@, place)]

IeFault ==
    /\ ieLeft.faults > 0
    /\ ieLeft' = [ieLeft EXCEPT !.faults = @ - 1]

-----------------------------------------------------------------------------
(* The writers *)

(* The rationale's node is stubbed in a transaction of its own. *)
IeStub(d) ==
    /\ d \in IeRationales
    /\ ~IeHasNode(d)
    /\ ieProv' = [ieProv EXCEPT ![d] = {"source"}]
    /\ UNCHANGED <<ieLive, ieEdges, ieRow, ieTries, ieDue, ieGone, iePurged, ieLock,
                   ieWork, ieDied, ieLeft>>

(* Does persisting this document write its node in the same transaction? *)
IeWritesNode(d) == d \notin IeRationales

(* The stub comes before the document. *)
IeMayPersist(d) == IeWritesNode(d) \/ IeHasNode(d)

(***************************************************************************)
(* A document's transaction commits: refused for a recorded session, under *)
(* the session lock; a purged installation's documents do not come back.   *)
(* The enqueue follows in a transaction of its own.                        *)
(***************************************************************************)
IePersist(d) ==
    /\ ieLeft.writes > 0
    /\ IeMayPersist(d)
    /\ d \notin iePurged
    /\ IeSessionOf[d] # 0 =>
          /\ ieGone[IeSessionOf[d]] = "kept"
          /\ ieLock[IeSessionOf[d]] = IeNobody
    /\ ieLive' = ieLive \cup {d}
    /\ ieProv' = IF IeWritesNode(d) THEN [ieProv EXCEPT ![d] = @ \cup {"source"}] ELSE ieProv
    /\ ieDue' = ieDue \cup {d}
    /\ ieLeft' = [ieLeft EXCEPT !.writes = @ - 1]
    /\ UNCHANGED <<ieEdges, ieRow, ieTries, ieGone, iePurged, ieLock, ieWork, ieDied>>

(***************************************************************************)
(* ON CONFLICT DO NOTHING: a row that is not done, one whose attempts are  *)
(* used up included, keeps the new one out.  Any error is swallowed.       *)
(***************************************************************************)
IeEnqueue(d) ==
    /\ d \in ieDue
    /\ ieDue' = ieDue \ {d}
    /\ \/ /\ IF ieRow[d] \in {"none", "done"}
             THEN /\ ieRow' = [ieRow EXCEPT ![d] = "pending"]
                  /\ ieTries' = [ieTries EXCEPT ![d] = 0]
             ELSE UNCHANGED <<ieRow, ieTries>>
          /\ UNCHANGED ieLeft
       \/ IeFault /\ UNCHANGED <<ieRow, ieTries>>
    /\ UNCHANGED <<ieStore, ieLock, ieWork, ieDied>>

-----------------------------------------------------------------------------
(* One drain task *)

IeClaimed(d) == [IeIdle EXCEPT !.at = "bundle", !.doc = d]

IeClaim(w, d) ==
    /\ ieWork[w].at = "idle"
    /\ ieRow[d] = "pending" /\ ieTries[d] < IeAttempts
    /\ ieRow' = [ieRow EXCEPT ![d] = "processing"]
    /\ ieTries' = [ieTries EXCEPT ![d] = @ + 1]
    /\ ieWork' = [ieWork EXCEPT ![w] = IeClaimed(d)]
    /\ UNCHANGED <<ieStore, ieDue, ieLock, ieDied, ieLeft>>

IeNeighbours(d) == {e \in ieLive : <<d, e>> \in ieEdges \/ <<e, d>> \in ieEdges}

(***************************************************************************)
(* The anchor, then its graph neighbours, then similar and recent          *)
(* documents, each list cut short when the budget is reached.              *)
(***************************************************************************)
IeBundles(d) ==
    {b \in SUBSET ieLive :
        /\ d \in b
        /\ Cardinality(b) <= IeBudget
        /\ b \ {d} \subseteq IeNeighbours(d) \/ IeNeighbours(d) \subseteq b}

IeBundle(w) ==
    LET d == ieWork[w].doc IN
    /\ ieWork[w].at = "bundle"
    /\ IF d \in ieLive
       THEN \E b \in IeBundles(d) :
              ieWork' = [ieWork EXCEPT ![w] = IeReading(@, b)]
       ELSE IeGoTo(w, "done")
    /\ UNCHANGED <<ieStore, ieRow, ieTries, ieDue, ieLock, ieDied, ieLeft>>

(* More than nine of ten proposals name an endpoint nobody knows. *)
IeKilled(unknown, total) == total > 0 /\ 10 * unknown > 9 * total

IeEnds(edges) == {e[1] : e \in edges} \cup {e[2] : e \in edges}
IeSessionsIn(docs) == {IeSessionOf[d] : d \in docs} \ {0}

(* Variant: only the anchor's session is asked for. *)
IeRefsOfAnchor(d, edges) == IeSessionsIn({d})

(* The anchor and every endpoint. *)
IeRefs(d, edges) == IeSessionsIn({d} \cup IeEnds(edges))

(***************************************************************************)
(* The model proposes edges between the bundle's documents and, maybe, one *)
(* with an invented end.  An edge is kept when both its ends have a node   *)
(* by now.  No call, no answer that parses, or a killed bundle is an error.*)
(***************************************************************************)
IeAnswer(w) ==
    LET d == ieWork[w].doc IN
    /\ ieWork[w].at = "ask"
    /\ \/ IeFault /\ IeGoTo(w, "error")
       \/ \E invented \in {0, 1}, asked \in SUBSET (ieWork[w].bundle \X ieWork[w].bundle) :
            LET proper == {e \in asked : e[1] # e[2]}
                kept == {e \in proper : IeHasNode(e[1]) /\ IeHasNode(e[2])}
            IN  /\ Cardinality(asked) <= 1
                /\ IF IeKilled(invented + Cardinality(proper \ kept),
                               invented + Cardinality(asked))
                   THEN IeGoTo(w, "error")
                   ELSE IF kept = {} THEN IeGoTo(w, "done")
                   ELSE ieWork' = [ieWork EXCEPT ![w] = IeFencing(@, kept, IeRefs(d, kept))]
                /\ UNCHANGED ieLeft
    /\ UNCHANGED <<ieStore, ieRow, ieTries, ieDue, ieLock, ieDied>>

(* sorted(): the least of those not taken yet. *)
IeNext(want) == {s \in want : \A t \in want : s <= t}

IeTakeLock(w) ==
    /\ ieWork[w].at = "fence"
    /\ \E s \in IeNext(ieWork[w].want) :
         /\ ieLock[s] = IeNobody
         /\ ieLock' = [ieLock EXCEPT ![s] = w]
         /\ ieWork' = [ieWork EXCEPT ![w] = IeTaken(@, s)]
    /\ UNCHANGED <<ieStore, ieRow, ieTries, ieDue, ieDied, ieLeft>>

IeReleased(w) == [s \in IeSessions |-> IF ieLock[s] = w THEN IeNobody ELSE ieLock[s]]
IeMine(w) == {s \in IeSessions : ieLock[s] = w}

(***************************************************************************)
(* All locks held: a recorded session ends the row as done with nothing    *)
(* written; otherwise the ends are upserted, stamped with the extractor's  *)
(* own source name, and the edges with them.                               *)
(***************************************************************************)
IeWrite(w) ==
    LET work == ieWork[w] IN
    /\ work.at = "fence" /\ work.want = {}
    /\ ieLock' = IeReleased(w)
    /\ \/ /\ \E s \in IeMine(w) : ieGone[s] # "kept"
          /\ IeGoTo(w, "done")
          /\ UNCHANGED <<ieProv, ieEdges, ieLeft>>
       \/ /\ \A s \in IeMine(w) : ieGone[s] = "kept"
          /\ ieProv' = [d \in IeDocs |-> IF d \in IeEnds(work.edges)
                                         THEN ieProv[d] \cup {"inferred"} ELSE ieProv[d]]
          /\ ieEdges' = ieEdges \cup work.edges
          /\ IeGoTo(w, "done")
          /\ UNCHANGED ieLeft
       \/ IeFault /\ IeGoTo(w, "error") /\ UNCHANGED <<ieProv, ieEdges>>
    /\ UNCHANGED <<ieLive, ieGone, iePurged, ieRow, ieTries, ieDue, ieDied>>

(* Variant: an error leaves processing_started_at set. *)
IeAfterErrorKept == "processing"

(* _mark_error clears processing_started_at. *)
IeAfterError == "pending"

(* The row may have been removed under the worker. *)
IeSettle(w) ==
    LET d == ieWork[w].doc IN
    /\ ieWork[w].at \in {"done", "error"}
    /\ ieRow' = IF ieRow[d] # "processing" THEN ieRow
                ELSE [ieRow EXCEPT ![d] = IF ieWork[w].at = "done" THEN "done" ELSE IeAfterError]
    /\ ieWork' = [ieWork EXCEPT ![w] = IeIdle]
    /\ UNCHANGED <<ieStore, ieTries, ieDue, ieLock, ieDied, ieLeft>>

(* A dead process, or one cancelled by SIGTERM: nobody resets its rows. *)
IeDie(w) ==
    /\ ieWork[w].at # "idle"
    /\ IeFault
    /\ ieLock' = IeReleased(w)
    /\ ieDied' = ieDied \cup {ieWork[w].doc}
    /\ ieWork' = [ieWork EXCEPT ![w] = IeIdle]
    /\ UNCHANGED <<ieStore, ieRow, ieTries, ieDue>>

-----------------------------------------------------------------------------
(* Those who remove documents *)

(* record_sessions *)
IeRecord(s) ==
    /\ ieGone[s] = "kept" /\ ieLock[s] = IeNobody
    /\ ieGone' = [ieGone EXCEPT ![s] = "recorded"]
    /\ UNCHANGED <<ieLive, ieProv, ieEdges, iePurged, ieRow, ieTries, ieDue, ieLock, ieWork,
                   ieDied, ieLeft>>

IeDrop(docs) ==
    /\ ieLive' = ieLive \ docs
    /\ ieRow' = [d \in IeDocs |-> IF d \in docs THEN "none" ELSE ieRow[d]]
    /\ ieDied' = ieDied \ docs

IeDropNodes(docs) ==
    /\ ieProv' = [d \in IeDocs |-> IF d \in docs THEN {} ELSE ieProv[d]]
    /\ ieEdges' = {e \in ieEdges : e[1] \notin docs /\ e[2] \notin docs}

(* _journal_and_delete_rows: the session's rows, nodes and their edges. *)
IeErase(s) ==
    LET docs == {d \in IeDocs : IeSessionOf[d] = s} IN
    /\ ieGone[s] = "recorded" /\ ieLock[s] = IeNobody
    /\ ieGone' = [ieGone EXCEPT ![s] = "erased"]
    /\ IeDrop(docs) /\ IeDropNodes(docs)
    /\ UNCHANGED <<iePurged, ieTries, ieDue, ieLock, ieWork, ieLeft>>

(* A node another source has asserted is kept, and its edges with it. *)
IePurge(d) ==
    /\ d \in (IeGitHub \cap ieLive) \ iePurged
    /\ iePurged' = iePurged \cup {d}
    /\ IeDrop({d})
    /\ IF ieProv[d] \subseteq {"source"} THEN IeDropNodes({d})
       ELSE UNCHANGED <<ieProv, ieEdges>>
    /\ UNCHANGED <<ieTries, ieDue, ieGone, ieLock, ieWork, ieLeft>>

-----------------------------------------------------------------------------
IeStep(w) == IeBundle(w) \/ IeAnswer(w) \/ IeTakeLock(w) \/ IeWrite(w) \/ IeSettle(w)

IeNextStep ==
    \/ \E d \in IeDocs : IeStub(d) \/ IePersist(d) \/ IeEnqueue(d) \/ IePurge(d)
    \/ \E w \in IeWorkers : (\E d \in IeDocs : IeClaim(w, d)) \/ IeStep(w) \/ IeDie(w)
    \/ \E s \in IeSessions : IeRecord(s) \/ IeErase(s)

IeSpec == IeInit /\ [][IeNextStep]_ieVars

(* What the drain tasks, and the writer after its commit, do by themselves. *)
IeOwn ==
    \/ \E d \in IeDocs : IeEnqueue(d) \/ \E w \in IeWorkers : IeClaim(w, d)
    \/ \E w \in IeWorkers : IeStep(w)

-----------------------------------------------------------------------------
(* Properties *)

IeJobs == [at: {"idle", "bundle", "ask", "fence", "done", "error"},
           doc: IeDocs \cup {IeNobody}, bundle: SUBSET IeDocs,
           edges: SUBSET (IeDocs \X IeDocs), want: SUBSET IeSessions]

(* A row is claimed at most _MAX_ATTEMPTS times. *)
IeTypeOK ==
    /\ ieLive \subseteq IeDocs
    /\ ieProv \in [IeDocs -> SUBSET {"source", "inferred"}]
    /\ ieEdges \subseteq IeDocs \X IeDocs
    /\ ieRow \in [IeDocs -> {"none", "pending", "processing", "done"}]
    /\ ieTries \in [IeDocs -> 0 .. IeAttempts]
    /\ ieDue \subseteq IeDocs /\ ieDied \subseteq IeDocs
    /\ ieGone \in [IeSessions -> {"kept", "recorded", "erased"}]
    /\ iePurged \subseteq IeGitHub
    /\ ieLock \in [IeSessions -> IeWorkers \cup {IeNobody}]
    /\ ieWork \in [IeWorkers -> IeJobs]
    /\ ieLeft \in [writes: Nat, faults: Nat]

(***************************************************************************)
(* Once a deletion has removed a session, nothing of it is in the graph:   *)
(* no worker that read the session before an LLM call and answers after    *)
(* the deletion puts a node or an edge of it back, whether the session is  *)
(* its anchor's or only one of the edges' ends.                            *)
(***************************************************************************)
ErasedSessionStaysOut ==
    \A d \in IeDocs :
        IeSessionOf[d] # 0 /\ ieGone[IeSessionOf[d]] = "erased" =>
            ~IeHasNode(d) /\ d \notin IeEnds(ieEdges)

(***************************************************************************)
(* Two workers never wait for each other's session locks, whichever        *)
(* sessions their edges name (refuse_deleted_sessions: "sorted: two        *)
(* writers never lock in opposite orders").                                *)
(***************************************************************************)
LocksNeverCross ==
    \A v, w \in IeWorkers :
        v # w => ~ /\ \E s \in IeMine(v) : s \in ieWork[w].want
                   /\ \E s \in IeMine(w) : s \in ieWork[v].want

(***************************************************************************)
(* Whenever an answer is validated, the anchor it is about can be one of   *)
(* the edges' ends: a document that is live has its node before a worker   *)
(* can have claimed its row, the rationale documents included, whose node  *)
(* the route stubs first.                                                  *)
(***************************************************************************)
AnchorIsKnown ==
    \A w \in IeWorkers :
        ieWork[w].at = "ask" /\ ieWork[w].doc \in ieLive => IeHasNode(ieWork[w].doc)

(***************************************************************************)
(* Every queued anchor is worked off: its row is done, removed, or out of  *)
(* attempts, unless the worker that held it died, which leaves it          *)
(* processing for good.                                                    *)
(***************************************************************************)
EveryAnchorSettles ==
    \A d \in IeDocs :
        []<>(\/ ieRow[d] \in {"none", "done"}
             \/ ieRow[d] = "pending" /\ ieTries[d] = IeAttempts
             \/ d \in ieDied)

=============================================================================
