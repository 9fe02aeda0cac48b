---------------------------- MODULE GitHubEvents ----------------------------
(***************************************************************************)
(* GitHub events on an installation-controlled connection, from the        *)
(* delivery to the document: the parsers and normalizers of                *)
(* kb/handlers/github.py, the node mappers of kb/handlers/_github_graphql, *)
(* the queue row's identity (kb/github_control.enqueue_event), and the     *)
(* provider-time fence of engine/ingest/normalizer.py.                     *)
(*                                                                         *)
(* A payload is what the code reads of it for control: event type, action, *)
(* repository, number, object id, provider timestamp, the parts it lacks,  *)
(* title and body (what the content hash covers), meta (state, labels,     *)
(* statistics: what the document's metadata keeps), other (what no         *)
(* document field keeps), author, mentions, commits and code owners.  num *)
(* is the head commit of a push.                                           *)
(* _payload_fp is the identity of the payload: equal bytes, equal print.   *)
(***************************************************************************)
EXTENDS Integers, Sequences, FiniteSets, Functions

CONSTANTS GePayloads,   \* the webhook payloads that may be delivered
          GeObjects,    \* the provider's objects a history walk reads
          GeMaxRows     \* how many queue rows a behaviour may have (bound)

VARIABLES geRows,       \* the queue's rows, by queue_id
          gePending,    \* queue ids still to be applied
          geDocs,       \* doc id -> its live row
          geOut         \* what the last normalization emitted

geVars == <<geRows, gePending, geDocs, geOut>>

GeIgnored == <<"ignored">>
GeInvalid == <<"invalid">>

GePrActions      == {"opened", "edited", "synchronize", "closed", "reopened", "deleted"}
GeIssueActions   == {"opened", "edited", "closed", "reopened", "deleted", "transferred"}
GeReviewActions  == {"submitted"}
GeDeleteActions  == {"deleted", "transferred"}
GeReleaseActions == {"published", "edited", "prereleased", "deleted", "unpublished"}
GeReleaseDeleteActions == {"deleted", "unpublished"}
GeCommitCommentActions == {"created"}
GeRepositoryActions == {"created", "deleted", "transferred", "renamed", "edited"}

-----------------------------------------------------------------------------
(* parse_webhook_event: the source_event_id, or "ignored" for what the      *)
(* parser drops, or "invalid" for what it refuses.                         *)

GeParsePullRequest(p) ==
    CASE p.action \notin GePrActions -> GeIgnored
      [] p.action \in GePrActions /\ p.lacks # {} -> GeInvalid
      [] OTHER -> <<"pr", p.repo, p.num, p.action, p.stamp, p>>

GeParseIssue(p) ==
    CASE p.action \notin GeIssueActions -> GeIgnored
      [] p.action \in GeIssueActions /\ p.lacks # {} -> GeInvalid
      [] OTHER -> <<"issue", p.repo, p.num, p.action, p.stamp, p>>

\* A push without a head commit deletes a branch.
GeParsePush(p) ==
    CASE "object" \in p.lacks -> GeIgnored
      [] "object" \notin p.lacks /\ "id" \in p.lacks -> GeInvalid
      [] OTHER -> <<"push", p.repo, p.num, p.stamp, p.commits>>

\* The only parser whose id has no fingerprint: a submitted review is final.
GeParseReview(p) ==
    CASE p.action \notin GeReviewActions -> GeIgnored
      [] p.action \in GeReviewActions /\ p.lacks # {} -> GeInvalid
      [] OTHER -> <<"review", p.repo, p.num, p.obj>>

\* A draft is dropped unless the event takes the release away.
GeParseRelease(p) ==
    CASE p.action \notin GeReleaseActions -> GeIgnored
      [] p.action \in GeReleaseActions /\ "object" \in p.lacks -> GeInvalid
      [] p.action \in GeReleaseActions \ GeReleaseDeleteActions /\ "object" \notin p.lacks
           /\ p.draft -> GeIgnored
      [] p.action \in GeReleaseActions /\ p.lacks \cap {"id", "time"} # {}
           /\ "object" \notin p.lacks /\ ~(p.draft /\ p.action \notin GeReleaseDeleteActions) ->
           GeInvalid
      [] OTHER -> <<"release", p.repo, p.obj, p.action, p.stamp, p>>

GeParseCommitComment(p) ==
    CASE p.action \notin GeCommitCommentActions -> GeIgnored
      [] p.action \in GeCommitCommentActions /\ p.lacks # {} -> GeInvalid
      [] OTHER -> <<"commit_comment", p.repo, p.obj, p.action, p.stamp, p>>

\* An edit matters only when the default branch moved; a rename or a transfer
\* must name the old path.
GeParseRepository(p) ==
    CASE p.action \notin GeRepositoryActions -> GeIgnored
      [] p.action = "edited" /\ "changes" \in p.lacks -> GeIgnored
      [] p.action \in {"renamed", "transferred"} /\ "changes" \in p.lacks -> GeInvalid
      [] OTHER -> <<"repository", p.repo, p.action, p>>

GeParse(p) ==
    LET known == p.lacks \cap {"header", "repository", "full_name"} = {}
    IN  CASE "header" \in p.lacks -> GeInvalid
          [] "repository" \in p.lacks /\ "header" \notin p.lacks -> GeIgnored
          [] p.lacks \cap {"header", "repository"} = {} /\ "full_name" \in p.lacks -> GeInvalid
          [] known /\ p.type = "pull_request"        -> GeParsePullRequest(p)
          [] known /\ p.type = "issues"              -> GeParseIssue(p)
          [] known /\ p.type = "push"                -> GeParsePush(p)
          [] known /\ p.type = "pull_request_review" -> GeParseReview(p)
          [] known /\ p.type = "release"             -> GeParseRelease(p)
          [] known /\ p.type = "commit_comment"      -> GeParseCommitComment(p)
          [] known /\ p.type = "repository"          -> GeParseRepository(p)
          [] OTHER -> GeIgnored

-----------------------------------------------------------------------------
(* What the history walk makes of a provider object: a synthetic payload    *)
(* with a fixed action, and an id of its own.                              *)

GeUnknownAuthor(p) == IF p.author = "none" THEN "unknown" ELSE p.author

GePrNode(p)      == [p EXCEPT !.action = "opened", !.author = GeUnknownAuthor(p)]
GeIssueNode(p)   == [p EXCEPT !.action = "opened", !.author = GeUnknownAuthor(p)]
GeReviewNode(p)  == [p EXCEPT !.action = "submitted", !.author = GeUnknownAuthor(p)]
GeReleaseNode(p) == [p EXCEPT !.action = "published"]
\* Backfilled commits carry no file lists, so they never touch CODEOWNERS.
GeCommitNode(p)  == [p EXCEPT !.meta = "no files", !.touches = FALSE]

GeNode(p) ==
    CASE p.type = "pull_request"        -> GePrNode(p)
      [] p.type = "issues"              -> GeIssueNode(p)
      [] p.type = "pull_request_review" -> GeReviewNode(p)
      [] p.type = "release"             -> GeReleaseNode(p)
      [] p.type = "push"                -> GeCommitNode(p)

GeNodeId(p) ==
    CASE p.type = "pull_request"        -> <<"pr", p.repo, p.num, "opened", p.stamp, GeNode(p)>>
      [] p.type = "issues"              -> <<"issue", p.repo, p.num, "opened", p.stamp>>
      [] p.type = "pull_request_review" -> <<"review", p.repo, p.num, p.obj>>
      [] p.type = "release"             -> <<"release", p.repo, p.obj>>
      [] p.type = "push"                -> <<"push", p.repo, p.num, p.stamp, p.commits>>

-----------------------------------------------------------------------------
(* normalize: the documents, graph nodes and graph edges an event emits.    *)

GePerson(x) == <<"person", x>>
GeRepoNode(p) == <<"repo", p.repo>>
GeThread(p) == <<"thread", p.repo, p.num>>      \* "owner/name#number"
GeMentionEdges(from, targets) == {<<"mentions", from, t>> : t \in targets}

\* A deletion empties the body and hashes its own time instead.
GeDocument(id, stamp, deletes, meta, content) ==
    [id |-> id, stamp |-> stamp, deleted |-> deletes, meta |-> meta,
     hash |-> IF deletes THEN <<"deleted", stamp>> ELSE <<"content", content>>]

\* Pull requests and issues share their shape: a document, the thread other
\* texts mention, and their author.
GeThreadResult(p, doc) ==
    LET author  == GePerson(GeUnknownAuthor(p))
        deletes == p.action \in GeDeleteActions
    IN  [docs  |-> {GeDocument(doc, p.stamp, deletes, <<p.action, p.meta>>, <<p.body>>)},
         nodes |-> {GeRepoNode(p), GeThread(p), author, doc},
         edges |-> {<<"authored", author, doc>>, <<"authored", author, GeThread(p)>>,
                    <<"touches", GeThread(p), GeRepoNode(p)>>, <<"touches", doc, GeRepoNode(p)>>}
                   \cup GeMentionEdges(GeThread(p), IF deletes THEN {} ELSE p.mentions)]

GeNormalizePr(p) == GeThreadResult(p, <<"pr", p.repo, p.num>>)

GeNormalizeIssue(p) == GeThreadResult(p, <<"issue", p.repo, p.num>>)

\* A review's content hash covers its state; its metadata has no action.
GeNormalizeReview(p) ==
    LET doc == <<"review", p.repo, p.obj>>
        author == GePerson(GeUnknownAuthor(p))
    IN  [docs  |-> {GeDocument(doc, p.stamp, FALSE, <<"", p.meta>>, <<p.body, p.meta>>)},
         nodes |-> {GeRepoNode(p), GeThread(p), author, doc},
         edges |-> {<<"authored", author, doc>>, <<"touches", doc, GeRepoNode(p)>>}]

\* Releases and commit comments have a person only when the payload names one.
GeSignedResult(p, doc, deletes) ==
    LET signers == IF p.author = "none" THEN {} ELSE {GePerson(p.author)}
    IN  [docs  |-> {GeDocument(doc, p.stamp, deletes, <<p.action, p.meta>>, <<p.body>>)},
         nodes |-> {GeRepoNode(p), doc} \cup signers,
         edges |-> {<<"touches", doc, GeRepoNode(p)>>} \cup
                   {<<"authored", who, doc>> : who \in signers}]

GeNormalizeRelease(p) ==
    GeSignedResult(p, <<"release", p.repo, p.obj>>, p.action \in GeReleaseDeleteActions)

GeNormalizeCommitComment(p) == GeSignedResult(p, <<"commit_comment", p.repo, p.obj>>, FALSE)

\* The people of a commit: its author (by user name, else by e-mail), and the
\* co-authors other than them.
GeCommitAuthor(c) ==
    CASE c.author # "none" -> c.author
      [] c.author = "none" /\ c.email # "none" -> c.email
      [] OTHER -> "unknown"
GeCommitPeople(c) == {GeCommitAuthor(c)} \cup (c.coauthors \ {c.email})

\* _commit_to_doc: seen_people is shared by the commits of a push, so a person's
\* node is emitted with their first commit only.
GeCommitToDoc(p, c, seen) ==
    LET doc == <<"commit", p.repo, c.sha>>
    IN  [docs  |-> {GeDocument(doc, c.stamp, FALSE, <<"", p.meta>>, <<c.sha>>)},
         nodes |-> {doc} \cup {GePerson(x) : x \in GeCommitPeople(c) \ seen},
         edges |-> {<<"authored", GePerson(x), doc>> : x \in GeCommitPeople(c)} \cup
                   {<<"touches", doc, GeRepoNode(p)>>} \cup GeMentionEdges(doc, c.mentions)]

\* _codeowners_artifacts; owners is empty when the file could not be fetched.
GeCodeowners(p) ==
    LET doc == <<"codeowners", p.repo, p.num>>
    IN  [docs  |-> {GeDocument(doc, p.stamp, FALSE, <<"", p.meta>>, p.owners)},
         nodes |-> {doc} \cup {GePerson(o) : o \in Range(p.owners)},
         edges |-> {<<"touches", doc, GeRepoNode(p)>>} \cup
                   {<<"owns", GePerson(o), GeRepoNode(p)>> : o \in Range(p.owners)}]

\* A commit without an id emits nothing and adds nobody to seen_people.
GeNormalizePush(p) ==
    LET valid   == {k \in DOMAIN p.commits : p.commits[k].sha # "none"}
        seen(k) == UNION {GeCommitPeople(p.commits[i]) : i \in {j \in valid : j < k}}
        parts   == {GeCommitToDoc(p, p.commits[k], seen(k)) : k \in valid} \cup
                   (IF p.touches THEN {GeCodeowners(p)} ELSE {})
    IN  [docs  |-> UNION {x.docs : x \in parts},
         nodes |-> {GeRepoNode(p)} \cup UNION {x.nodes : x \in parts},
         edges |-> UNION {x.edges : x \in parts}]

\* Under installation control the lifecycle events are skipped.
GeNormalize(p) ==
    CASE p.type = "pull_request"        -> GeNormalizePr(p)
      [] p.type = "issues"              -> GeNormalizeIssue(p)
      [] p.type = "push"                -> GeNormalizePush(p)
      [] p.type = "pull_request_review" -> GeNormalizeReview(p)
      [] p.type = "release"             -> GeNormalizeRelease(p)
      [] p.type = "commit_comment"      -> GeNormalizeCommitComment(p)
      [] OTHER -> [docs |-> {}, nodes |-> {}, edges |-> {}]

-----------------------------------------------------------------------------
(* The write: the provider-time fence, then the new version of the row.     *)

GeAbsent == [stamp |-> -1, deleted |-> FALSE, meta |-> <<"", "none">>, hash |-> <<"none", <<>>>>,
             lane |-> "none", seq |-> 0]

\* Variant: the later queue row wins, whatever the provider's versions are.
GeAdmitByArrival(old, doc, lane, q) == old.seq < q

\* _admit_ordered_write: a newer provider version is admitted.  At the same version
\* a deletion stays, live replaces history, and else the later queue row wins.
GeAdmit(old, doc, lane, q) ==
    \/ old.stamp < doc.stamp
    \/ /\ old.stamp = doc.stamp
       /\ ~(old.deleted /\ ~doc.deleted)
       /\ ~(lane = "history" /\ old.lane = "live")
       /\ (lane = "live" /\ old.lane = "history") \/ old.seq < q

\* _GITHUB_FORCE_VERSION_KEY: write a version although title and body are equal.
GeForcesVersion(old, doc, lane) ==
    \/ old.stamp = doc.stamp /\ lane = "live" /\ old.lane = "history"
    \/ old.stamp = doc.stamp /\ old.hash = doc.hash /\ old.meta # doc.meta
    \/ old.stamp < doc.stamp /\ ~doc.deleted /\ old.hash = doc.hash

\* _upsert_document: equal content that deletes nothing leaves the row, its
\* _github_queue_seq included, as it is.
GeUpsert(old, doc, lane, q) ==
    IF GeAdmit(old, doc, lane, q)
         /\ (old.hash # doc.hash \/ doc.deleted \/ GeForcesVersion(old, doc, lane))
    THEN [stamp |-> doc.stamp, deleted |-> doc.deleted, meta |-> doc.meta, hash |-> doc.hash,
          lane |-> lane, seq |-> q]
    ELSE old

GeInit ==
    /\ geRows = <<>>
    /\ gePending = {}
    /\ geDocs = [d \in {} |-> GeAbsent]
    /\ geOut = [docs |-> {}, nodes |-> {}, edges |-> {}]

\* enqueue_event: a history job's rows and live rows have separate identities.
GeEnqueue(row) ==
    /\ Len(geRows) < GeMaxRows
    /\ \A i \in DOMAIN geRows : <<geRows[i].lane, geRows[i].id>> # <<row.lane, row.id>>
    /\ geRows' = Append(geRows, row)
    /\ gePending' = gePending \cup {Len(geRows) + 1}
    /\ UNCHANGED <<geDocs, geOut>>

\* A webhook arrives; deliveries come in any order and may repeat.
GeDeliver ==
    \E p \in GePayloads :
      /\ GeParse(p) \notin {GeIgnored, GeInvalid}
      /\ GeEnqueue([lane |-> "live", id |-> GeParse(p), payload |-> p])

\* The history job enqueues an object as the provider shows it.
GeReplay ==
    \E p \in GeObjects :
      GeEnqueue([lane |-> "history", id |-> GeNodeId(p), payload |-> GeNode(p)])

\* queue_step on any pending row: several replicas claim rows, and a failed
\* attempt goes back to the queue, so rows are applied in any order.
GeApply ==
    \E q \in gePending :
      LET out  == GeNormalize(geRows[q].payload)
          old(d) == IF d \in DOMAIN geDocs THEN geDocs[d] ELSE GeAbsent
          ids  == {x.id : x \in out.docs}
          new(d) == CHOOSE x \in out.docs : x.id = d
      IN  /\ geOut' = out
          /\ geDocs' = [d \in ids \cup DOMAIN geDocs |->
                IF d \in ids THEN GeUpsert(old(d), new(d), geRows[q].lane, q) ELSE geDocs[d]]
          /\ gePending' = gePending \ {q}
          /\ UNCHANGED geRows

GeNext == GeDeliver \/ GeReplay \/ GeApply

-----------------------------------------------------------------------------
\* The applied rows that write document d, and what each of them writes.
GeWriters(d) == {q \in DOMAIN geRows \ gePending :
                   \E x \in GeNormalize(geRows[q].payload).docs : x.id = d}
GeWritten(q, d) == CHOOSE x \in GeNormalize(geRows[q].payload).docs : x.id = d

\* Row a is a later word about d than row b.
GeLater(a, b, d) ==
    LET x == GeWritten(a, d)
        y == GeWritten(b, d)
    IN  \/ x.stamp > y.stamp
        \/ /\ x.stamp = y.stamp
           /\ \/ geRows[a].lane = "live" /\ geRows[b].lane = "history"
              \/ geRows[a].lane = geRows[b].lane /\ a > b

\* Two rows of one provider version and lane that queue order does not settle: a
\* deletion queued before a body, or two rows with the same content, of which
\* the second leaves the first one's sequence number in place.
GeUnsettled(d) ==
    \E a, b \in GeWriters(d) :
      LET x == GeWritten(a, d)
          y == GeWritten(b, d)
      IN  /\ a < b /\ x.stamp = y.stamp /\ geRows[a].lane = geRows[b].lane
          /\ (x.deleted /\ ~y.deleted) \/ (x.hash = y.hash /\ x.meta = y.meta)

\* _admit_ordered_write, "Provider time, not arrival order": in whatever order the
\* rows were applied, the document is what the latest of them says, in content,
\* in metadata and in whether it is deleted: newest provider version first, live
\* before history, then queue order.
DocumentFollowsProviderTime ==
    \A d \in DOMAIN geDocs : GeUnsettled(d) \/
      \A q \in GeWriters(d) :
        (\A o \in GeWriters(d) \ {q} : GeLater(q, o, d)) =>
          LET x == GeWritten(q, d)
          IN  <<geDocs[d].stamp, geDocs[d].deleted, geDocs[d].meta, geDocs[d].hash>>
                = <<x.stamp, x.deleted, x.meta, x.hash>>

=============================================================================
