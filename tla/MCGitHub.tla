------------------------------- MODULE MCGitHub -------------------------------
(***************************************************************************)
(* The GitHub integration: the events and what they are normalized to, the *)
(* code graph, the installation's control plane, and the removal of the    *)
(* source.  The parts keep separate state, so a behaviour exercises the one*)
(* `part` names.                                                           *)
(***************************************************************************)
EXTENDS GitHubEvents, CodeGraph, GitHubControl, SourcePurge

CONSTANT Parts

VARIABLE part

vars == <<part, geVars, cgVars, gcVars, spVars>>

Issue == [type |-> "issues", action |-> "edited", repo |-> "r", num |-> 1, obj |-> 7, stamp |-> 1,
          lacks |-> {}, body |-> "x", meta |-> "m", other |-> "o", author |-> "u", draft |-> FALSE,
          mentions |-> {}, commits |-> <<>>, touches |-> FALSE, owners |-> <<>>]
Commit(sha, author, email, coauthors) ==
    [sha |-> sha, author |-> author, email |-> email, coauthors |-> coauthors, stamp |-> 1,
     mentions |-> {<<"thread", "r", 1>>}]
Commits == <<Commit("s1", "u", "u@x", {"v@x", "u@x"}), Commit("none", "z", "z@x", {}),
             Commit("s2", "none", "w@x", {"v@x"})>>

\* Versions of one issue that tie, disagree or delete; one of every other type.
MCPayloads ==
    {Issue, [Issue EXCEPT !.other = "p"],
     [Issue EXCEPT !.body = "y", !.mentions = {<<"thread", "r", 2>>}],
     [Issue EXCEPT !.meta = "n", !.author = "none"], [Issue EXCEPT !.stamp = 2, !.meta = "n"],
     [Issue EXCEPT !.action = "deleted"], [Issue EXCEPT !.action = "deleted", !.stamp = 2],
     [Issue EXCEPT !.type = "push", !.commits = Commits, !.touches = TRUE, !.owners = <<"o">>],
     [Issue EXCEPT !.type = "release", !.action = "published", !.author = "none"],
     [Issue EXCEPT !.type = "release", !.action = "deleted", !.draft = TRUE],
     [Issue EXCEPT !.type = "release", !.draft = TRUE],
     [Issue EXCEPT !.type = "pull_request", !.action = "opened", !.num = 3],
     [Issue EXCEPT !.type = "pull_request", !.action = "opened", !.lacks = {"id"}],
     [Issue EXCEPT !.type = "pull_request_review", !.action = "submitted", !.num = 3],
     [Issue EXCEPT !.type = "commit_comment", !.action = "created"],
     [Issue EXCEPT !.type = "repository", !.action = "renamed"],
     [Issue EXCEPT !.type = "repository", !.action = "edited", !.lacks = {"changes"}],
     [Issue EXCEPT !.type = "ping", !.lacks = {"repository"}]}
MCObjects ==
    {Issue, [Issue EXCEPT !.stamp = 2, !.meta = "n"],
     [Issue EXCEPT !.type = "push", !.commits = <<Commit("s1", "u", "u@x", {"v@x"})>>],
     [Issue EXCEPT !.type = "release"], [Issue EXCEPT !.type = "pull_request_review", !.num = 3],
     [Issue EXCEPT !.type = "pull_request", !.num = 3, !.author = "none"]}

MCTrees == {[f |-> "blank", g |-> "a"], [f |-> "b", g |-> "none"]}

\* A part that is not exercised stays in one initial state.
Init ==
    /\ part \in Parts
    /\ GeInit /\ CgInit /\ GcInit /\ SpInit
    /\ part # "codegraph" => cgFifo
    /\ part # "control" => gcInst.sync /\ gcNative = {} /\ gcVisible = {}

Next ==
    /\ part' = part
    /\ \/ part = "events" /\ GeNext /\ UNCHANGED <<cgVars, gcVars, spVars>>
       \/ part = "codegraph" /\ CgNext /\ UNCHANGED <<geVars, gcVars, spVars>>
       \/ part = "control" /\ GcNext /\ UNCHANGED <<geVars, cgVars, spVars>>
       \/ part = "purge" /\ SpNext /\ UNCHANGED <<geVars, cgVars, gcVars>>

Spec == Init /\ [][Next]_vars
=============================================================================
