---------------------------- MODULE MCGtagsAll ----------------------------
(***************************************************************************)
(* The two kinds of trouble, each without the other: files are edited      *)
(* while gtags runs and is killed; or gtags is left alone, and its user    *)
(* updates single files and changes the langmap.                           *)
(***************************************************************************)
EXTENDS MCGtags

VARIABLE trouble

AllInit == Init /\ trouble \in {"edits", "user"}

\* Edits at any moment, and kills.
EditsNext == Next /\ UNCHANGED reconfs /\ (pc = "idle" => UNCHANGED single)

\* Nobody edits during a run, and no run is killed.
UserNext == Next /\ UNCHANGED crashes /\ (pc # "idle" => UNCHANGED <<text, mtime>>)

AllNext ==
  \/ trouble = "edits" /\ EditsNext /\ UNCHANGED trouble
  \/ trouble = "user" /\ UserNext /\ UNCHANGED trouble

AllSpec == AllInit /\ [][AllNext]_<<vars, trouble>>

\* Edits at any moment go unnoticed only in the seconds of an update (NoSilentStaleness)
\* while the langmap is what it was when the files were parsed.
StalenessSeen == trouble = "edits" => NoSilentStaleness

\* Every tag belongs to a file GPATH knows (TagsOwned), if nobody edits while gtags runs and
\* the langmap stays as it is: the delete list, which goes by the type that a file has in
\* GPATH, misses no identifier with tags.
TagsOwnedUndisturbed == trouble = "user" => TagsOwnedUnlessRetyped
=============================================================================
