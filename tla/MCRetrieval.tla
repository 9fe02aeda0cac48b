---------------------------- MODULE MCRetrieval ----------------------------
(***************************************************************************)
(* The retrieval service: one search request over three documents, the     *)
(* pages its results are read in, the reads of source text, steps and      *)
(* views, and the answer endpoint with its records.  The parts share no    *)
(* state, so a behaviour exercises the one `part` names.                   *)
(***************************************************************************)
EXTENDS RetrievalRequest, ResultPages, AnswerEndpoint, SourceReads

CONSTANTS d1, d2, d3, r1, r2

VARIABLE part

vars == <<part, requestVars, pageVars, answerVars, readVars>>

MCPools == {<<>>, <<d1, d2>>, <<d3, d1>>}
MCPicks == {<<d1>>, <<d2>>, <<d3>>, <<d2, d1>>, <<d1, d3>>, <<d3, d2>>}
MCPins == {<<>>, <<d3>>}
MCReplies == {<<>>, <<"emit_full">>, <<"emit_empty">>, <<"emit_bad">>, <<"bad_json">>,
              <<"search", "search">>, <<"need_deeper", "need_deeper">>}

MCBodies == <<<<1, 2, 1>>, <<4>>, <<0>>>>
MCTexts == <<<<<<"a">>>>, <<<<"a", "b">>, <<"c">>>>, <<<<"a", "b">>, <<"d">>, <<"e", "f">>>>>>
MCReaders == {r1, r2}
WalksText == IF part = "text" THEN MCReaders ELSE {}

Parts == {"request", "pages", "answer", "text", "steps", "views"}

Init ==
  /\ part \in Parts
  /\ RequestInit /\ PagesInit /\ AnswerInit /\ ReadsInit
  /\ part # "answer" => endpoint = "query"

Next ==
  /\ part' = part
  /\ \/ part = "request" /\ RequestNext /\ UNCHANGED <<pageVars, answerVars, readVars>>
     \/ part = "pages" /\ PagesNext /\ UNCHANGED <<requestVars, answerVars, readVars>>
     \/ part = "answer" /\ AnswerNext /\ UNCHANGED <<requestVars, pageVars, readVars>>
     \/ part = "views" /\ ViewsNext /\ UNCHANGED <<requestVars, pageVars, answerVars>>
     \/ /\ part \in {"text", "steps"}
        /\ ReadsNext(WalksText)
        /\ UNCHANGED <<requestVars, pageVars, answerVars>>

Spec == Init /\ [][Next]_vars

WalkComplete == WalkIsComplete(WalksText)
=============================================================================
