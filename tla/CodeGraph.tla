------------------------------ MODULE CodeGraph ------------------------------
(***************************************************************************)
(* The code-graph index of a repository: GitHub events fan out through the *)
(* bridge (kb/handlers/github.py, kb/code_graph/bridge.py) into queue rows *)
(* and the code-graph connector (kb/handlers/codegraph.py, kb/code_graph)  *)
(* turns each row into file documents and cache rows (code_repo_state).    *)
(*                                                                         *)
(* One repository with a history of trees; a commit is an index into the   *)
(* history, 0 stands for "HEAD", and a tree maps a file to its content.    *)
(* "none" is no file; "blank" is a content without symbols (empty, too     *)
(* large, a secret dump).  The repository is private: without a token or   *)
(* access GitHub answers 404.  The claim loops share one scratch disk.     *)
(***************************************************************************)
EXTENDS Integers, Sequences, FiniteSets, Functions

CONSTANTS CgPaths,      \* the full names the repository may have
          CgFiles,      \* its files, all with a supported extension
          CgTrees,      \* the trees its branches may have
          CgMaxPaths,   \* _MAX_PATHS_PER_INCREMENTAL
          CgLoops,      \* how many claim loops the ingestion worker runs
          CgEvents,     \* how often something happens on GitHub (bound)
          CgFaults      \* how many calls may fail (bound)

VARIABLES cgFifo,       \* rows are processed one at a time, in queue order
          cgTrees,      \* the repository's trees, oldest first
          cgPath,       \* its current full name
          cgAccess,     \* whether the installation can read it
          cgInbox,      \* GitHub events not normalized yet
          cgRows,       \* the bridge's queue rows
          cgPending,    \* those not finished
          cgJob,        \* row in process -> its step and what was read for it
          cgScratch,    \* path -> the clone on disk
          cgDocs,       \* doc id -> content of the live code.file document
          cgCache,      \* code_repo_state: <<path, file>> -> [hash, symbols]
          cgEvidence,   \* path -> files its DEPENDS_ON edge cites; {} is no edge
          cgDegree,     \* path -> graph_nodes.degree of its repository node
          cgLost,       \* a failure made the index miss an event
          cgEventsLeft, cgFaultsLeft

cgRepo  == <<cgTrees, cgPath, cgAccess>>
cgIndex == <<cgDocs, cgCache>>
cgEdges == <<cgEvidence, cgDegree>>
cgVars  == <<cgFifo, cgRepo, cgInbox, cgRows, cgPending, cgJob, cgScratch, cgIndex, cgEdges,
             cgLost, cgEventsLeft, cgFaultsLeft>>

CgHead == cgTrees[Len(cgTrees)]
CgEmpty == [x \in {} |-> x]
CgCloned == [step |-> "cloned", files |-> CgEmpty, removed |-> {}, gone |-> {}, evidence |-> {}]
\* _doc_id_for_file.
CgDocId(path, f) == <<"code_graph", path, f>>
\* doc_id LIKE '<prefix>:%': the ids that go on after the prefix and a colon.
CgUnder(prefix) == {d \in DOMAIN cgDocs : Len(d) > Len(prefix) /\ SubSeq(d, 1, Len(prefix)) = prefix}

\* The App was just installed; an older edge cites every file.
CgInit ==
    /\ cgFifo \in BOOLEAN
    /\ cgTrees = <<[f \in CgFiles |-> "a"]>>
    /\ LET p == CHOOSE q \in CgPaths : TRUE IN
         /\ cgPath = p
         /\ cgInbox = <<[type |-> "added", repo |-> p]>>
         /\ cgEvidence = [q \in CgPaths |-> IF q = p THEN CgFiles ELSE {}]
         /\ cgDegree = [q \in CgPaths |-> IF q = p THEN 1 ELSE 0]
    /\ cgAccess = TRUE
    /\ cgRows = <<>> /\ cgPending = {}
    /\ cgJob = CgEmpty
    /\ cgScratch = [q \in CgPaths |-> CgEmpty]
    /\ cgDocs = CgEmpty /\ cgCache = CgEmpty
    /\ cgLost = FALSE
    /\ cgEventsLeft = CgEvents /\ cgFaultsLeft = CgFaults

-----------------------------------------------------------------------------
(* What happens on GitHub; each change delivers its event.                  *)

CgHappens(event) ==
    /\ cgEventsLeft > 0
    /\ cgEventsLeft' = cgEventsLeft - 1
    /\ cgInbox' = Append(cgInbox, event)
    /\ UNCHANGED <<cgFifo, cgRows, cgPending, cgJob, cgScratch, cgIndex, cgEdges, cgLost,
                   cgFaultsLeft>>

\* A push to the tracked branch.  Its commits list the paths they wrote and the
\* paths they removed; a path touched twice may be in both lists.
CgPush ==
    \E t \in CgTrees :
      LET changed == {f \in CgFiles : t[f] # CgHead[f]}
          absent  == {f \in changed : t[f] = "none"}
      IN  /\ cgAccess /\ changed # {}
          /\ \E twice \in SUBSET changed :
               CgHappens([type |-> "push", repo |-> cgPath, sha |-> Len(cgTrees) + 1,
                          written |-> (changed \ absent) \cup twice,
                          removed |-> absent \cup twice])
          /\ cgTrees' = Append(cgTrees, t)
          /\ UNCHANGED <<cgPath, cgAccess>>

CgRename ==
    \E p \in CgPaths \ {cgPath} :
      /\ cgAccess
      /\ CgHappens([type |-> "renamed", repo |-> p, old |-> cgPath])
      /\ cgPath' = p
      /\ UNCHANGED <<cgTrees, cgAccess>>

\* The default branch moves to one with another tree.
CgMoveDefault ==
    \E t \in CgTrees :
      /\ cgAccess /\ t # CgHead
      /\ CgHappens([type |-> "edited", repo |-> cgPath])
      /\ cgTrees' = Append(cgTrees, t)
      /\ UNCHANGED <<cgPath, cgAccess>>

\* The repository is deleted or transferred away.
CgDelete ==
    /\ cgAccess
    /\ CgHappens([type |-> "deleted", repo |-> cgPath])
    /\ cgAccess' = FALSE
    /\ UNCHANGED <<cgTrees, cgPath>>

\* It leaves or joins the installation.
CgSelect ==
    /\ CgHappens([type |-> IF cgAccess THEN "removed" ELSE "added", repo |-> cgPath])
    /\ cgAccess' = ~cgAccess
    /\ UNCHANGED <<cgTrees, cgPath>>

-----------------------------------------------------------------------------
(* The bridge.                                                              *)

CgRow(kind, repo, sha, id) == [kind |-> kind, repo |-> repo, sha |-> sha, written |-> {},
                               removed |-> {}, id |-> id]

\* enqueue_initial_backfill: identified by the repository and the commit's name.
CgBackfillRow(repo, sha, id) == CgRow("backfill", repo, sha, <<repo, id[1], id[2]>>)

\* enqueue_disconnect: a fresh id each time (a timestamp; here the row's place).
CgDisconnectRow(repo) == CgRow("disconnect", repo, 0, <<repo, Len(cgRows), "disconnect">>)

\* _cap_changed_paths: over the cap only the removals stay.
CgFits(e) == Cardinality(e.written) + Cardinality(e.removed) <= CgMaxPaths

CgIncrementalRow(e) ==
    [CgRow("incremental", e.repo, e.sha, <<e.repo, e.sha, "incremental">>)
       EXCEPT !.written = IF CgFits(e) THEN e.written ELSE {}, !.removed = e.removed]

\* Variant: what was cut is left to nobody.
CgIncrementalNoSpill(e) == <<CgIncrementalRow(e)>>

\* enqueue_incremental: what was cut is left to a backfill of its own row, whose
\* commit name "<sha>:spillover" no checkout accepts: it stays at HEAD.
CgIncremental(e) ==
    IF CgFits(e) THEN <<CgIncrementalRow(e)>>
    ELSE <<CgIncrementalRow(e), CgBackfillRow(e.repo, 0, <<e.sha, "spillover">>)>>

\* _normalize_repository: a rename walks the new name, then disconnects the old;
\* a deletion or a moved default branch only disconnects.
CgRepository(e) ==
    IF e.type = "renamed"
    THEN <<CgBackfillRow(e.repo, 0, <<0, "HEAD">>), CgDisconnectRow(e.old)>>
    ELSE <<CgDisconnectRow(e.repo)>>

\* _normalize_installation_repositories; _normalize_installation does the same.
CgInstallation(e) ==
    IF e.type = "added" THEN <<CgBackfillRow(e.repo, 0, <<0, "HEAD">>)>>
                        ELSE <<CgDisconnectRow(e.repo)>>

CgRowsOf(e) ==
    CASE e.type = "push" -> CgIncremental(e)
      [] e.type \in {"renamed", "edited", "deleted"} -> CgRepository(e)
      [] e.type \in {"added", "removed"} -> CgInstallation(e)

\* _put_and_enqueue: ON CONFLICT DO NOTHING on the row's id.
CgInsert(rows) ==
    LET new == SelectSeq(rows, LAMBDA r : \A i \in DOMAIN cgRows : cgRows[i].id # r.id)
    IN  /\ cgRows' = cgRows \o new
        /\ cgPending' = cgPending \cup (Len(cgRows) + 1 .. Len(cgRows) + Len(new))

\* One GitHub event is normalized.  A bridge call that fails is logged and
\* dropped; a push's spillover is not tried once its incremental failed.
CgFanOut ==
    /\ cgInbox # <<>>
    /\ LET e == Head(cgInbox)
           rows == CgRowsOf(e)
       IN  \E failed \in SUBSET DOMAIN rows :
             /\ (e.type = "push" /\ 1 \in failed) => failed = DOMAIN rows
             /\ failed # {} => cgFaultsLeft > 0
             /\ CgInsert(SelectSeq(rows, LAMBDA r : \A i \in failed : rows[i] # r))
             /\ cgFaultsLeft' = IF failed = {} THEN cgFaultsLeft ELSE cgFaultsLeft - 1
             /\ cgLost' = (cgLost \/ failed # {})
    /\ cgInbox' = Tail(cgInbox)
    /\ UNCHANGED <<cgFifo, cgRepo, cgJob, cgScratch, cgIndex, cgEdges, cgEventsLeft>>

\* reindex_customer: an operator queues a backfill of the head commit.
CgReindex ==
    /\ cgAccess /\ cgEventsLeft > 0
    /\ cgEventsLeft' = cgEventsLeft - 1
    /\ CgInsert(<<CgBackfillRow(cgPath, Len(cgTrees), <<Len(cgTrees), "commit">>)>>)
    /\ UNCHANGED <<cgFifo, cgRepo, cgInbox, cgJob, cgScratch, cgIndex, cgEdges, cgLost,
                   cgFaultsLeft>>

-----------------------------------------------------------------------------
(* The connector: a row is claimed, its files are read and extracted against *)
(* the cache as it was then, and the results are written in a later step.    *)

CgMayClaim(r) ==
    /\ r \in cgPending \ DOMAIN cgJob
    /\ Cardinality(DOMAIN cgJob) < CgLoops
    /\ cgFifo => \A o \in cgPending : r <= o
CgStart(r, job) == cgJob' = [o \in DOMAIN cgJob \cup {r} |-> IF o = r THEN job ELSE cgJob[o]]

\* shallow_clone: clobbers the scratch directory and clones the head, then checks
\* the commit out.  A former name redirects.
CgClone ==
    \E r \in DOMAIN cgRows : LET row == cgRows[r] IN
      /\ CgMayClaim(r) /\ row.kind = "backfill" /\ cgAccess
      /\ cgScratch' = [cgScratch EXCEPT ![row.repo] =
                         IF row.sha = 0 THEN CgHead ELSE cgTrees[row.sha]]
      /\ CgStart(r, CgCloned)
      /\ UNCHANGED <<cgFifo, cgRepo, cgInbox, cgRows, cgPending, cgIndex, cgEdges, cgLost,
                     cgEventsLeft, cgFaultsLeft>>

\* A clone that is refused fails the row, in the end for good.
CgCloneFails ==
    \E r \in DOMAIN cgRows :
      /\ CgMayClaim(r) /\ cgRows[r].kind = "backfill"
      /\ ~cgAccess \/ cgRows[r].repo # cgPath
      /\ cgPending' = cgPending \ {r}
      /\ UNCHANGED <<cgFifo, cgRepo, cgInbox, cgRows, cgJob, cgScratch, cgIndex, cgEdges, cgLost,
                     cgEventsLeft, cgFaultsLeft>>

\* Any row may exhaust its attempts.
CgRowDies ==
    \E r \in DOMAIN cgRows :
      /\ CgMayClaim(r) /\ cgFaultsLeft > 0
      /\ cgFaultsLeft' = cgFaultsLeft - 1
      /\ cgLost' = TRUE
      /\ cgPending' = cgPending \ {r}
      /\ UNCHANGED <<cgFifo, cgRepo, cgInbox, cgRows, cgJob, cgScratch, cgIndex, cgEdges,
                     cgEventsLeft>>

\* _prepare_files: the read files whose hash differs from the cached one.
CgPrepared(path, read) ==
    {f \in DOMAIN read : <<path, f>> \in DOMAIN cgCache => cgCache[<<path, f>>].hash # read[f]}

\* extract_files_to_result: the cache row each prepared file gets.  A file whose
\* extractor timed out has no symbols, like a blank one, and is cached the same.
CgExtract(path, read, slow) ==
    [f \in CgPrepared(path, read) |->
       [hash |-> read[f], symbols |-> read[f] # "blank" /\ f \notin slow]]

\* walk_files and extraction: whatever the scratch directory holds by now.
CgWalk(r) ==
    LET path == cgRows[r].repo
        tree == cgScratch[path]
        read == Restrict(tree, {f \in DOMAIN tree : tree[f] # "none"})
    IN  /\ cgJob[r].step = "cloned"
        /\ \E slow \in SUBSET CgPrepared(path, read) :
             /\ Cardinality(slow) <= cgFaultsLeft
             /\ cgFaultsLeft' = cgFaultsLeft - Cardinality(slow)
             /\ cgJob' = [cgJob EXCEPT ![r].step = "persist",
                                       ![r].files = CgExtract(path, read, slow)]
        /\ UNCHANGED <<cgFifo, cgRepo, cgInbox, cgRows, cgPending, cgScratch, cgIndex, cgEdges,
                       cgLost, cgEventsLeft>>

\* fetch_files_at_sha: a file absent at the commit, or asked for without a token
\* or access, is a 404.  Under a former name the answer is a redirect, which the
\* client does not follow and whose body decodes to an empty file.
CgFetch(row, token) ==
    [f \in {g \in row.written : token /\ cgAccess
                                 /\ (row.repo = cgPath => cgTrees[row.sha][g] # "none")} |->
        IF row.repo = cgPath THEN cgTrees[row.sha][f] ELSE "blank"]

\* _build_removed_documents: the live documents under "<doc id of the file>:".
CgRemovedDocs(path, removed) == UNION {CgUnder(CgDocId(path, f)) : f \in removed}

\* _normalize_incremental up to the edge update.  fetch_supplementary goes on
\* without a token when it cannot be minted.
CgReadIncremental ==
    \E r \in DOMAIN cgRows, token \in BOOLEAN :
      LET row     == cgRows[r]
          read    == CgFetch(row, token)
          removed == row.removed \cup (row.written \ DOMAIN read)
          faults  == IF token THEN 0 ELSE 1
      IN  /\ CgMayClaim(r) /\ row.kind = "incremental"
          /\ \E slow \in SUBSET CgPrepared(row.repo, read) :
               /\ faults + Cardinality(slow) <= cgFaultsLeft
               /\ cgFaultsLeft' = cgFaultsLeft - faults - Cardinality(slow)
               /\ CgStart(r, [step |-> IF removed = {} THEN "persist" ELSE "edges",
                               files |-> CgExtract(row.repo, read, slow), removed |-> removed,
                               gone |-> CgRemovedDocs(row.repo, removed),
                               evidence |-> cgEvidence[row.repo]])
          /\ cgLost' = (cgLost \/ ~token)
          /\ UNCHANGED <<cgFifo, cgRepo, cgInbox, cgRows, cgPending, cgScratch, cgIndex, cgEdges,
                         cgEventsLeft>>

\* update_edges_after_push: the evidence read earlier, less the removed files, is
\* written back; an edge left without evidence is deleted, and only a row really
\* deleted lowers the degree.
CgUpdateEdges(r) ==
    LET path == cgRows[r].repo
        kept == cgJob[r].evidence \ cgJob[r].removed
    IN  IF kept = cgJob[r].evidence \/ cgEvidence[path] = {} THEN UNCHANGED cgEdges
        ELSE /\ cgEvidence' = [cgEvidence EXCEPT ![path] = kept]
             /\ cgDegree' = [cgDegree EXCEPT ![path] = IF kept = {} /\ @ > 0 THEN @ - 1 ELSE @]

\* Its failure is logged and swallowed.
CgEdgesStep(r) ==
    /\ cgJob[r].step = "edges"
    /\ \/ CgUpdateEdges(r) /\ UNCHANGED cgFaultsLeft
       \/ cgFaultsLeft > 0 /\ cgFaultsLeft' = cgFaultsLeft - 1 /\ UNCHANGED cgEdges
    /\ cgJob' = [cgJob EXCEPT ![r].step = "persist"]
    /\ UNCHANGED <<cgFifo, cgRepo, cgInbox, cgRows, cgPending, cgScratch, cgIndex, cgLost,
                   cgEventsLeft>>

\* _upsert_code_repo_state: one cache row per file of the batch.
CgCacheAfter(path, files) ==
    [k \in {<<path, f>> : f \in DOMAIN files} \cup DOMAIN cgCache |->
        IF k[1] = path /\ k[2] \in DOMAIN files THEN files[k[2]] ELSE cgCache[k]]

\* The documents of the batch: only files with symbols have one.
CgDocsAfter(path, files, gone) ==
    LET new == {CgDocId(path, f) : f \in {g \in DOMAIN files : files[g].symbols}}
    IN  [d \in new \cup (DOMAIN cgDocs \ gone) |->
            IF d \in new THEN files[d[3]].hash ELSE cgDocs[d]]

\* _persist writes documents, tombstones and cache rows in one transaction; a
\* backfill prunes its scratch directory first.
CgPersist(r) ==
    LET job == cgJob[r]
        row == cgRows[r]
    IN  /\ job.step = "persist"
        /\ cgDocs' = CgDocsAfter(row.repo, job.files, job.gone)
        /\ cgCache' = CgCacheAfter(row.repo, job.files)
        /\ cgScratch' = IF row.kind = "backfill"
                        THEN [cgScratch EXCEPT ![row.repo] = CgEmpty] ELSE cgScratch
        /\ cgPending' = cgPending \ {r}
        /\ cgJob' = Restrict(cgJob, DOMAIN cgJob \ {r})
        /\ UNCHANGED <<cgFifo, cgRepo, cgInbox, cgRows, cgEdges, cgLost, cgEventsLeft,
                       cgFaultsLeft>>

\* The bulk SQL of _normalize_disconnect: the documents and the cache rows of the
\* repository go in one transaction.
CgForget(repo) ==
    /\ cgDocs' = Restrict(cgDocs, DOMAIN cgDocs \ CgUnder(<<"code_graph", repo>>))
    /\ cgCache' = Restrict(cgCache, {k \in DOMAIN cgCache : k[1] # repo})

CgDisconnect ==
    \E r \in DOMAIN cgRows :
      /\ CgMayClaim(r) /\ cgRows[r].kind = "disconnect"
      /\ CgForget(cgRows[r].repo)
      /\ cgPending' = cgPending \ {r}
      /\ UNCHANGED <<cgFifo, cgRepo, cgInbox, cgRows, cgJob, cgScratch, cgEdges, cgLost,
                     cgEventsLeft, cgFaultsLeft>>

CgNext ==
    \/ CgPush \/ CgRename \/ CgMoveDefault \/ CgDelete \/ CgSelect \/ CgReindex
    \/ CgFanOut \/ CgCloneFails \/ CgRowDies \/ CgDisconnect \/ CgClone \/ CgReadIncremental
    \/ \E r \in DOMAIN cgJob : CgWalk(r) \/ CgEdgesStep(r) \/ CgPersist(r)

-----------------------------------------------------------------------------
CgDrained == cgInbox = <<>> /\ cgPending = {}

\* enqueue_incremental, "spillover": rows processed in queue order and nothing
\* lost, the drained index shows no old content: a document of an existing file
\* holds the file's head content, or its last extraction had no symbols.
IndexFollowsPushes ==
    (cgFifo /\ CgDrained /\ cgAccess /\ ~cgLost) =>
      \A f \in CgFiles : LET d == CgDocId(cgPath, f) IN
        (d \in DOMAIN cgDocs /\ CgHead[f] # "none" /\ cgCache[<<cgPath, f>>].symbols)
          => cgDocs[d] = CgHead[f]

=============================================================================
