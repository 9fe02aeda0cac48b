------------------------- MODULE VersionedDocument -------------------------
(***************************************************************************)
(* What the documents table promises for one document (the temporal        *)
(* columns in db/schema.sql): a history that only grows at its end, whose  *)
(* last version alone may be live, and a search index that holds that      *)
(* version's content.  DocumentVersions implements it.                     *)
(***************************************************************************)
EXTENDS Sequences, Naturals

CONSTANTS Rows,      \* what one version row can say
          Contents(_)  \* the content a row puts in the index

VARIABLES history,   \* the versions, oldest first
          live,      \* is the last of them live
          served     \* the content in the index

vdVars == <<history, live, served>>

VdInit ==
  /\ history \in Seq(Rows)
  /\ live \in BOOLEAN
  /\ live => history # <<>> /\ served = Contents(history[Len(history)])

\* A new version: it supersedes the last one and is the one served.
Publish(row) ==
  /\ history' = Append(history, row)
  /\ live' = TRUE
  /\ served' = Contents(row)

\* The live version is overwritten where it stands.
Amend(row) ==
  /\ live
  /\ history' = [history EXCEPT ![Len(history)] = row]
  /\ served' = Contents(row)
  /\ UNCHANGED live

\* The document stops being live; its history stays.
Close ==
  /\ live
  /\ live' = FALSE
  /\ UNCHANGED <<history, served>>

VdNext == \/ \E row \in Rows : Publish(row) \/ Amend(row)
          \/ Close

VdSpec == VdInit /\ [][VdNext]_vdVars
=============================================================================
