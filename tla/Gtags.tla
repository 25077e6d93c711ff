------------------------------- MODULE Gtags -------------------------------
(***************************************************************************)
(* gtags(1), the process that makes and updates the tag database           *)
(* (gtags/gtags.c with libutil/gtagsop.c), over a source tree that others  *)
(* edit.                                                                   *)
(*                                                                         *)
(* The database is three files.  GPATH gives each file an identifier (the  *)
(* module Gpath).  GTAGS and GRTAGS hold definitions and references, each  *)
(* record under the identifier of its file.  A tag file is a B-tree image  *)
(* in memory until it is closed; only then does the file change, so the    *)
(* three files change at three different moments.                          *)
(*                                                                         *)
(* All the tags one parse finds in a file are one record here, [path, ver]: *)
(* the tags of that path as of that version of its text.                   *)
(***************************************************************************)
EXTENDS Naturals, Sequences

CONSTANTS Paths, MaxFid, NoRec, NoFile,
          NoPath,        \* no --single-update option
          MaxEdits,      \* bound on the writes to source files
          MaxTime,       \* bound on the clock, in seconds
          MaxCrashes,    \* bound on the times the process is killed
          MaxReconf,     \* bound on the changes of the langmap
          Concurrent,    \* files may be edited while gtags runs
          SingleUpdates  \* gtags --single-update is used

ASSUME GtagsAssumption ==
  /\ MaxEdits \in Nat /\ MaxTime \in Nat /\ MaxCrashes \in Nat /\ MaxReconf \in Nat
  /\ Concurrent \in BOOLEAN /\ SingleUpdates \in BOOLEAN
  /\ NoPath \notin Paths

VARIABLES
  \* the source tree
  text,      \* version of each file's text, 0: the file does not exist
  mtime,     \* modification time of each file
  lang,      \* what issourcefile says of each path under the langmap in use
  edits,     \* number of writes so far: versions are numbered across files
  clock,     \* the current second
  \* the tag files
  gtags, grtags,   \* contents of GTAGS and GRTAGS, or NoFile
  gtagsMtime,      \* modification time of GTAGS
  \* the process
  pc,
  gtop,            \* the open B-tree images of GTAGS and GRTAGS
  unread,          \* paths find_read has still to return
  single,          \* the argument of --single-update, or NoPath
  since,           \* gtags_mtime in incremental()
  addlist, deletelist, addlist_other, deleteset, findset,
  \* GPATH, in memory and on disk
  opened, mode, created, nextkey, db, disk,
  \* history, read by the properties only
  start,     \* when the process started
  blind,     \* for each path, the seconds whose edits an update may overlook
  torn,      \* a process was killed between two of the three tag files
  crashes, reconfs

MaxOpen == 3     \* incremental() and two gtags_open
GP == INSTANCE Gpath

ASSUME GpathAssumption ==
  MaxFid \in Nat /\ NoRec \notin GP!PathRec \cup GP!FidRec /\ NoFile \notin GP!Db

tree   == <<text, mtime, edits>>
tagFiles == <<gtags, grtags, gtagsMtime>>
lists  == <<unread, single, since, addlist, deletelist, addlist_other,
            deleteset, findset>>
gpath  == <<opened, mode, created, nextkey, db, disk>>
history == <<start, blind, torn, crashes, reconfs>>
vars == <<tree, lang, clock, tagFiles, pc, gtop, lists, gpath, history>>

Fids == 1 .. MaxFid
Times == 0 .. MaxTime

----------------------------------------------------------------------------
(* Tag files.  A file that was created and not yet written has no format   *)
(* version record, and gtags_open refuses it.                              *)

TagRec == [path: Paths, ver: 1 .. MaxEdits]
Tags == [ok: BOOLEAN, rec: [Fids -> Seq(TagRec)]]
NoTags == [i \in Fids |-> <<>>]
NewFile == [ok |-> FALSE, rec |-> NoTags]
NewImage == [ok |-> TRUE, rec |-> NoTags]
Closed == [GTAGS |-> NewFile, GRTAGS |-> NewFile]

\* gtags_delete scans the tree and deletes every record whose identifier is
\* in the set.
gtags_delete(T, ids) ==
  [ok |-> T.ok, rec |-> [i \in Fids |-> IF i \in ids THEN <<>> ELSE T.rec[i]]]

\* gtags_put_using for all that parse_file finds in p, then gtags_flush: no
\* parser is called for a path that is not a source under the langmap.  (The
\* records wait in a sort process or in the image; nothing reads them before
\* gtags_close, so they are in the image here.)
gtags_put(T, i, p) ==
  IF lang[p] = "source"
  THEN [ok |-> T.ok,
        rec |-> [T.rec EXCEPT ![i] = Append(@, [path |-> p, ver |-> text[p]])]]
  ELSE T

ASSUME TagsAssumption == NoFile \notin Tags

Exists(p) == text[p] # 0
TagFilesExist == gtags # NoFile /\ grtags # NoFile /\ GP!HasFile

----------------------------------------------------------------------------
(* The source tree changes.                                                *)

Undisturbed == pc = "idle" \/ Concurrent

Write(p) == /\ Undisturbed
            /\ edits < MaxEdits
            /\ edits' = edits + 1
            /\ text' = [text EXCEPT ![p] = edits + 1]
            /\ mtime' = [mtime EXCEPT ![p] = clock]
            /\ UNCHANGED <<lang, clock, tagFiles, pc, gtop, lists, gpath, history>>

Remove(p) == /\ Undisturbed
             /\ Exists(p)
             /\ text' = [text EXCEPT ![p] = 0]
             /\ mtime' = [mtime EXCEPT ![p] = 0]
             /\ UNCHANGED <<edits, lang, clock, tagFiles, pc, gtop, lists,
                            gpath, history>>

Tick == /\ clock < MaxTime
        /\ clock' = clock + 1
        /\ UNCHANGED <<tree, lang, tagFiles, pc, gtop, lists, gpath, history>>

\* The user changes the langmap in gtags.conf; a process reads it at its start.
Reconfigure(p) ==
  /\ pc = "idle"
  /\ reconfs < MaxReconf
  /\ reconfs' = reconfs + 1
  /\ lang' = [lang EXCEPT ![p] = IF @ = "source" THEN "other" ELSE "source"]
  /\ UNCHANGED <<tree, clock, tagFiles, pc, gtop, lists, gpath,
                 start, blind, torn, crashes>>

----------------------------------------------------------------------------
(* createtags: make the three files anew.                                  *)

\* gtags_open(GTAGS, GTAGS_CREATE) unlinks the old file, then gpath_open.
CreateGTAGS ==
  /\ pc = "idle"
  /\ pc' = "open_GRTAGS"
  /\ gtags' = NewFile /\ gtagsMtime' = clock
  /\ gtop' = [GTAGS |-> NewImage, GRTAGS |-> gtop.GRTAGS]
  /\ GP!gpath_open(1)
  /\ start' = clock
  /\ UNCHANGED <<tree, lang, clock, grtags, lists, blind, torn, crashes, reconfs>>

\* gtags_open(GRTAGS, GTAGS_CREATE), then find_open reads the directory.
CreateGRTAGS ==
  /\ pc = "open_GRTAGS"
  /\ pc' = "create"
  /\ grtags' = NewFile
  /\ gtop' = [GTAGS |-> gtop.GTAGS, GRTAGS |-> NewImage]
  /\ GP!gpath_open(1)
  /\ unread' = {p \in Paths : Exists(p)}
  /\ UNCHANGED <<tree, lang, clock, gtags, gtagsMtime, single, since, addlist,
                 deletelist, addlist_other, deleteset, findset, history>>

\* The identifier p has once gpath_put is done.
FidOf(p) == IF GP!gpath_path2fid(p) = NoRec THEN nextkey
                                            ELSE GP!gpath_path2fid(p).fid

\* gpath_put, parse_file, gtags_flush.  The definitions and the references of
\* a file come from one reading of its text.
ParseInto(p) ==
  /\ GP!gpath_put(p, "source")
  /\ gtop' = [GTAGS |-> gtags_put(gtop.GTAGS, FidOf(p), p),
              GRTAGS |-> gtags_put(gtop.GRTAGS, FidOf(p), p)]

\* find_read skips a file that vanished since its directory was read.
CreateFile(p) ==
  /\ pc = "create"
  /\ p \in unread
  /\ unread' = unread \ {p}
  /\ \/ ~ Exists(p) /\ UNCHANGED <<gtop, gpath>>
     \/ Exists(p) /\ lang[p] = "other" /\ GP!gpath_put(p, "other") /\ UNCHANGED gtop
     \/ Exists(p) /\ lang[p] = "source" /\ ParseInto(p)
  /\ UNCHANGED <<tree, lang, clock, tagFiles, pc, single, since, addlist,
                 deletelist, addlist_other, deleteset, findset, history>>

\* gtags_close: gpath_close comes first, then dbop_close writes the tag file.
CreateCloseGTAGS ==
  /\ pc = "create"
  /\ unread = {}
  /\ pc' = "close_GPATH"
  /\ GP!gpath_close
  /\ gtags' = gtop.GTAGS /\ gtagsMtime' = clock
  /\ blind' = [p \in Paths |-> start .. clock]
  /\ torn' = FALSE
  /\ UNCHANGED <<tree, lang, clock, grtags, gtop, lists, start, crashes, reconfs>>

CreateCloseGPATH ==
  /\ pc = "close_GPATH"
  /\ pc' = "close_GRTAGS"
  /\ GP!gpath_close
  /\ UNCHANGED <<tree, lang, clock, tagFiles, gtop, lists, history>>

CreateCloseGRTAGS ==
  /\ pc = "close_GRTAGS"
  /\ pc' = "exit"
  /\ grtags' = gtop.GRTAGS
  /\ UNCHANGED <<tree, lang, clock, gtags, gtagsMtime, gtop, lists, gpath, history>>

----------------------------------------------------------------------------
(* incremental: bring the three files up to date with the tree.            *)

\* main(): the three files must exist, and gtags_open and gtags_close on GTAGS
\* check its version; then incremental() notes the time of GTAGS and opens
\* GPATH, which dies without a NEXTKEY record.
StartUpdate ==
  /\ pc = "idle"
  /\ TagFilesExist
  /\ gtags.ok
  /\ GP!gpath_open(2)
  /\ since' = gtagsMtime
  /\ start' = clock
  /\ UNCHANGED <<tree, lang, clock, tagFiles, gtop, deletelist, findset,
                 blind, torn, crashes, reconfs>>

\* The whole project: find_open reads the directory.
UpdateAll ==
  /\ StartUpdate
  /\ pc' = "inspect"
  /\ unread' = {p \in Paths : Exists(p)}
  /\ UNCHANGED <<single, addlist, addlist_other, deleteset>>

\* One file, which main() has found to exist.  gpath_open has loaded the file.
UpdateOne(p) ==
  /\ SingleUpdates
  /\ Exists(p)
  /\ StartUpdate
  /\ single' = p
  /\ UNCHANGED unread
  /\ \/ /\ disk.p2f[p] = NoRec
        /\ pc' = "decide"
        /\ addlist_other' = IF lang[p] = "other" THEN {p} ELSE {}
        /\ addlist' = IF lang[p] = "other" THEN {} ELSE {p}
        /\ UNCHANGED deleteset
     \/ /\ disk.p2f[p] # NoRec
        /\ disk.p2f[p].type = "other"
        /\ pc' = "close"
        /\ UNCHANGED <<addlist, addlist_other, deleteset>>
     \/ /\ disk.p2f[p] # NoRec
        /\ disk.p2f[p].type = "source"
        /\ pc' = "decide"
        /\ deleteset' = {disk.p2f[p].fid}
        /\ addlist' = {p}
        /\ UNCHANGED addlist_other

\* Mutant: asks for a file two seconds newer than GTAGS, not one.
MUT_Inspect_Slack(p) ==
  /\ pc = "inspect"
  /\ p \in unread
  /\ unread' = unread \ {p}
  /\ LET known == GP!gpath_path2fid(p) # NoRec
         fid == GP!gpath_path2fid(p).fid
         source == lang[p] = "source"
         newer == since + 1 < mtime[p]
     IN /\ findset' = IF Exists(p) /\ known THEN findset \cup {fid} ELSE findset
        /\ addlist' = IF Exists(p) /\ source /\ (known => newer)
                      THEN addlist \cup {p} ELSE addlist
        /\ deleteset' = IF Exists(p) /\ source /\ known /\ newer
                        THEN deleteset \cup {fid} ELSE deleteset
        /\ addlist_other' = IF Exists(p) /\ ~ source /\ ~ known
                            THEN addlist_other \cup {p} ELSE addlist_other
  /\ UNCHANGED <<tree, lang, clock, tagFiles, pc, gtop, single, since, deletelist,
                 gpath, history>>

\* Mutant: deletes the tags of a newer file and does not parse it again.
MUT_Inspect_NoReparse(p) ==
  /\ pc = "inspect"
  /\ p \in unread
  /\ unread' = unread \ {p}
  /\ LET known == GP!gpath_path2fid(p) # NoRec
         fid == GP!gpath_path2fid(p).fid
         source == lang[p] = "source"
         newer == since < mtime[p]
     IN /\ findset' = IF Exists(p) /\ known THEN findset \cup {fid} ELSE findset
        /\ addlist' = IF Exists(p) /\ source /\ ~ known
                      THEN addlist \cup {p} ELSE addlist
        /\ deleteset' = IF Exists(p) /\ source /\ known /\ newer
                        THEN deleteset \cup {fid} ELSE deleteset
        /\ addlist_other' = IF Exists(p) /\ ~ source /\ ~ known
                            THEN addlist_other \cup {p} ELSE addlist_other
  /\ UNCHANGED <<tree, lang, clock, tagFiles, pc, gtop, single, since, deletelist,
                 gpath, history>>

\* One path from find_read.  A known source file is parsed again when it is
\* newer than GTAGS; other known files only enter findset.
Inspect(p) ==
  /\ pc = "inspect"
  /\ p \in unread
  /\ unread' = unread \ {p}
  /\ LET known == GP!gpath_path2fid(p) # NoRec
         fid == GP!gpath_path2fid(p).fid
         source == lang[p] = "source"
         newer == since < mtime[p]
     IN /\ findset' = IF Exists(p) /\ known THEN findset \cup {fid} ELSE findset
        /\ addlist' = IF Exists(p) /\ source /\ (known => newer)
                      THEN addlist \cup {p} ELSE addlist
        /\ deleteset' = IF Exists(p) /\ source /\ known /\ newer
                        THEN deleteset \cup {fid} ELSE deleteset
        /\ addlist_other' = IF Exists(p) /\ ~ source /\ ~ known
                            THEN addlist_other \cup {p} ELSE addlist_other
  /\ UNCHANGED <<tree, lang, clock, tagFiles, pc, gtop, single, since, deletelist,
                 gpath, history>>

\* The identifiers below NEXTKEY whose file was not found, or is not there now.
Gone == {i \in Fids : /\ i < nextkey
                      /\ GP!gpath_fid2path(i) # NoRec
                      /\ \/ i \notin findset
                         \/ ~ Exists(GP!gpath_fid2path(i).path)}

\* Mutant: deletes the paths that are gone and leaves their tags.
MUT_MakeDeleteList_KeepTags ==
  /\ pc = "inspect"
  /\ unread = {}
  /\ pc' = "decide"
  /\ deletelist' = {GP!gpath_fid2path(i).path : i \in Gone}
  /\ UNCHANGED <<tree, lang, clock, tagFiles, gtop, unread, single, since, addlist,
                 addlist_other, deleteset, findset, gpath, history>>

\* Only the tags of source files need deleting, as GPATH remembers the type.
MakeDeleteList ==
  /\ pc = "inspect"
  /\ unread = {}
  /\ pc' = "decide"
  /\ deletelist' = {GP!gpath_fid2path(i).path : i \in Gone}
  /\ deleteset' = deleteset \cup
                    {i \in Gone : GP!gpath_fid2path(i).type = "source"}
  /\ UNCHANGED <<tree, lang, clock, tagFiles, gtop, unread, single, since, addlist,
                 addlist_other, findset, gpath, history>>

TagsChange == deleteset # {} \/ addlist # {}
PathsChange == deletelist # {} \/ addlist_other # {}

\* updatetags: gtags_open(GTAGS, GTAGS_MODIFY) ...
OpenGTAGS ==
  /\ pc = "decide"
  /\ TagsChange
  /\ pc' = "open_GRTAGS_MODIFY"
  /\ gtop' = [GTAGS |-> gtags, GRTAGS |-> gtop.GRTAGS]
  /\ GP!gpath_open(2)
  /\ UNCHANGED <<tree, lang, clock, tagFiles, lists, history>>

\* ... gtags_open(GRTAGS, GTAGS_MODIFY), which refuses a file without version.
OpenGRTAGS ==
  /\ pc = "open_GRTAGS_MODIFY"
  /\ grtags.ok
  /\ pc' = "delete"
  /\ gtop' = [GTAGS |-> gtop.GTAGS, GRTAGS |-> grtags]
  /\ GP!gpath_open(2)
  /\ UNCHANGED <<tree, lang, clock, tagFiles, lists, history>>

\* Mutant: forgets the references of the file.
MUT_DeleteTags_GTAGSOnly ==
  /\ pc = "delete"
  /\ pc' = "add"
  /\ gtop' = [GTAGS |-> gtags_delete(gtop.GTAGS, deleteset),
              GRTAGS |-> gtop.GRTAGS]
  /\ UNCHANGED <<tree, lang, clock, tagFiles, lists, gpath, history>>

DeleteTags ==
  /\ pc = "delete"
  /\ pc' = "add"
  /\ gtop' = [GTAGS |-> gtags_delete(gtop.GTAGS, deleteset),
              GRTAGS |-> gtags_delete(gtop.GRTAGS, deleteset)]
  /\ UNCHANGED <<tree, lang, clock, tagFiles, lists, gpath, history>>

\* The parser dies if it cannot open the file.
CannotParse(p) == lang[p] = "source" /\ ~ Exists(p)

AddTags(p) ==
  /\ pc = "add"
  /\ p \in addlist
  /\ ~ CannotParse(p)
  /\ addlist' = addlist \ {p}
  /\ ParseInto(p)
  /\ UNCHANGED <<tree, lang, clock, tagFiles, pc, unread, single, since, deletelist,
                 addlist_other, deleteset, findset, history>>

\* Once GTAGS bears the present time, nothing tells which edits of the seconds
\* since the process started were read (nor, of the files a single update was
\* not asked about, any earlier edit).
Blinded == [p \in Paths |-> blind[p] \cup
              IF single \in {NoPath, p} THEN start .. clock ELSE 0 .. clock]

CloseGTAGS ==
  /\ pc = "add"
  /\ addlist = {}
  /\ pc' = "close_GRTAGS_MODIFY"
  /\ GP!gpath_close
  /\ gtags' = gtop.GTAGS /\ gtagsMtime' = clock
  /\ blind' = Blinded
  /\ UNCHANGED <<tree, lang, clock, grtags, gtop, lists, start, torn, crashes,
                 reconfs>>

CloseGRTAGS ==
  /\ pc = "close_GRTAGS_MODIFY"
  /\ pc' = "paths"
  /\ GP!gpath_close
  /\ grtags' = gtop.GRTAGS
  /\ UNCHANGED <<tree, lang, clock, gtags, gtagsMtime, gtop, lists, history>>

SkipTags ==
  /\ pc = "decide"
  /\ ~ TagsChange
  /\ pc' = IF PathsChange THEN "paths" ELSE "close"
  /\ UNCHANGED <<tree, lang, clock, tagFiles, gtop, lists, gpath, history>>

DeletePath(p) ==
  /\ pc = "paths"
  /\ p \in deletelist
  /\ deletelist' = deletelist \ {p}
  /\ GP!gpath_delete(p)
  /\ UNCHANGED <<tree, lang, clock, tagFiles, pc, gtop, unread, single, since, addlist,
                 addlist_other, deleteset, findset, history>>

PutOther(p) ==
  /\ pc = "paths"
  /\ deletelist = {}
  /\ p \in addlist_other
  /\ addlist_other' = addlist_other \ {p}
  /\ GP!gpath_put(p, "other")
  /\ UNCHANGED <<tree, lang, clock, tagFiles, pc, gtop, unread, single, since, addlist,
                 deletelist, deleteset, findset, history>>

\* utime(2) on the tag files, even if no tag was written.
Touch ==
  /\ pc = "paths"
  /\ deletelist = {} /\ addlist_other = {}
  /\ pc' = "close"
  /\ gtagsMtime' = clock
  /\ blind' = Blinded
  /\ UNCHANGED <<tree, lang, clock, gtags, grtags, gtop, lists, gpath,
                 start, torn, crashes, reconfs>>

\* The last gpath_close writes GPATH.
CloseGPATH ==
  /\ pc = "close"
  /\ pc' = "exit"
  /\ GP!gpath_close
  /\ UNCHANGED <<tree, lang, clock, tagFiles, gtop, lists, history>>

----------------------------------------------------------------------------
(* The process ends.                                                       *)

ForgetMemory ==
  /\ pc' = "idle"
  /\ GP!Exit
  /\ gtop' = Closed
  /\ unread' = {} /\ single' = NoPath /\ since' = 0
  /\ addlist' = {} /\ deletelist' = {} /\ addlist_other' = {}
  /\ deleteset' = {} /\ findset' = {}
  /\ start' = 0

ProcessExit == /\ pc = "exit"
               /\ ForgetMemory
               /\ UNCHANGED <<tree, lang, clock, tagFiles, blind, torn, crashes, reconfs>>

\* die(): nothing open is written.
Die == /\ \/ pc = "open_GRTAGS_MODIFY" /\ ~ grtags.ok
          \/ pc = "add" /\ \E p \in addlist : CannotParse(p)
       /\ ForgetMemory
       /\ UNCHANGED <<tree, lang, clock, tagFiles, blind, torn, crashes, reconfs>>

\* GTAGS is written and GRTAGS is not, or GTAGS holds tags of files that are
\* new and the file GPATH does not know.
Torn == \/ pc = "close_GRTAGS_MODIFY"
        \/ /\ pc \in {"paths", "close"}
           /\ \E i \in disk.next .. nextkey - 1 :
                gtags.rec[i] # <<>> \/ grtags.rec[i] # <<>>

\* The process is killed between two calls.
Crash == /\ pc # "idle"
         /\ crashes < MaxCrashes
         /\ crashes' = crashes + 1
         /\ ForgetMemory
         /\ torn' = (torn \/ Torn)
         /\ UNCHANGED <<tree, lang, clock, tagFiles, blind, reconfs>>

----------------------------------------------------------------------------
Init == /\ text = [p \in Paths |-> 0]
        /\ mtime = [p \in Paths |-> 0]
        /\ lang \in [Paths -> GP!Types]
        /\ edits = 0 /\ clock = 0
        /\ gtags = NoFile /\ grtags = NoFile /\ gtagsMtime = 0
        /\ pc = "idle" /\ gtop = Closed
        /\ unread = {} /\ single = NoPath /\ since = 0
        /\ addlist = {} /\ deletelist = {} /\ addlist_other = {}
        /\ deleteset = {} /\ findset = {}
        /\ GP!Init
        /\ start = 0 /\ blind = [p \in Paths |-> {}]
        /\ torn = FALSE /\ crashes = 0 /\ reconfs = 0

Environment == \/ \E p \in Paths : Write(p) \/ Remove(p) \/ Reconfigure(p)
               \/ Tick \/ Crash

Create == \/ CreateGTAGS \/ CreateGRTAGS
          \/ \E p \in Paths : CreateFile(p)
          \/ CreateCloseGTAGS \/ CreateCloseGPATH \/ CreateCloseGRTAGS

WholeUpdate ==
  \/ UpdateAll
  \/ \E p \in Paths : Inspect(p)
  \/ MakeDeleteList \/ SkipTags
  \/ OpenGTAGS \/ OpenGRTAGS \/ DeleteTags
  \/ \E p \in Paths : AddTags(p)
  \/ CloseGTAGS \/ CloseGRTAGS
  \/ \E p \in Paths : DeletePath(p) \/ PutOther(p)
  \/ Touch \/ CloseGPATH

Incremental == WholeUpdate \/ \E p \in Paths : UpdateOne(p)

Next == Environment \/ Create \/ Incremental \/ ProcessExit \/ Die

Spec == Init /\ [][Next]_vars

\* Files are edited, and the tags are made and updated as a whole: no process
\* is killed, no file updated alone, the langmap stays.
Everyday == \/ \E p \in Paths : Write(p) \/ Remove(p)
            \/ Tick \/ Create \/ WholeUpdate \/ ProcessExit \/ Die

\* A process that has started goes on to its end, and the user runs
\* `gtags -i` again and again; without tag files that is createtags.
FairSpec == /\ Init /\ [][Everyday]_vars
            /\ WF_vars(pc # "idle" /\ (Create \/ WholeUpdate \/ ProcessExit \/ Die))
            /\ WF_vars(UpdateAll)
            /\ WF_vars(~ TagFilesExist /\ CreateGTAGS)
----------------------------------------------------------------------------
TreeType ==
  /\ text \in [Paths -> 0 .. MaxEdits] /\ mtime \in [Paths -> Times]
  /\ lang \in [Paths -> GP!Types]
  /\ edits \in 0 .. MaxEdits /\ clock \in Times

TagsType ==
  /\ gtags \in Tags \cup {NoFile} /\ grtags \in Tags \cup {NoFile}
  /\ gtop \in [GTAGS: Tags, GRTAGS: Tags]
  /\ gtagsMtime \in Times

ListsType ==
  /\ unread \subseteq Paths /\ single \in Paths \cup {NoPath} /\ since \in Times
  /\ addlist \subseteq Paths /\ deletelist \subseteq Paths
  /\ addlist_other \subseteq Paths
  /\ deleteset \subseteq Fids /\ findset \subseteq Fids

HistoryType ==
  /\ start \in Times /\ blind \in [Paths -> SUBSET Times]
  /\ torn \in BOOLEAN /\ crashes \in 0 .. MaxCrashes /\ reconfs \in 0 .. MaxReconf

\* Every state of the process, its files and the tree has the type the code
\* gives it; an identifier list names identifiers that exist.
TypeOK ==
  /\ TreeType /\ TagsType /\ ListsType /\ HistoryType
  /\ pc \in {"idle", "open_GRTAGS", "create", "close_GPATH", "close_GRTAGS",
             "exit", "inspect", "decide", "open_GRTAGS_MODIFY", "delete",
             "add", "close_GRTAGS_MODIFY", "paths", "close"}
  /\ GP!TypeOK

\* The database is complete and nobody is at work on it.
Usable == /\ pc = "idle"
          /\ TagFilesExist
          /\ gtags.ok /\ grtags.ok /\ disk.next # 0

\* What global(1) shows for a path: the records under its identifier.
Shown(T, p) == IF disk.p2f[p] = NoRec THEN <<>> ELSE T.rec[disk.p2f[p].fid]

\* The database shows the tags of p as p is now: none unless it is a source.
Fresh(p) ==
  LET current == IF Exists(p) /\ lang[p] = "source"
                 THEN << [path |-> p, ver |-> text[p]] >> ELSE <<>>
  IN Shown(gtags, p) = current /\ Shown(grtags, p) = current

\* The next `gtags -i` will act on p.
Detectable(p) ==
  IF Exists(p) THEN \/ disk.p2f[p] = NoRec
                    \/ lang[p] = "source" /\ gtagsMtime < mtime[p]
               ELSE disk.p2f[p] # NoRec

\* An edit of p fell in a second in which an update was running (or, for the
\* file an update was not asked about, before the end of that update).
InBlindSecond(p) == Exists(p) /\ mtime[p] \in blind[p]

\* Whatever the interleaving of edits with the steps of gtags, a file whose
\* tags are out of date is one the next update will notice, or one written
\* in a second in which an update ran; and a killed process changes this only
\* if it was killed between the writing of two of the three tag files.
NoSilentStaleness ==
  Usable /\ ~ torn =>
    \A p \in Paths : Fresh(p) \/ Detectable(p) \/ InBlindSecond(p)

\* If edits come to an end, updates catch up with them: again and again the
\* database shows every file as it is, but for edits in blind seconds.
CatchesUp ==
  []<>(Usable /\ \A p \in Paths : Fresh(p) \/ InBlindSecond(p))

\* GTAGS and GRTAGS, written at different moments, hold tags of the same
\* versions of the same files, and of one version of each.
OneVersion ==
  Usable /\ ~ torn =>
    \A i \in Fids : gtags.rec[i] = grtags.rec[i] /\ Len(gtags.rec[i]) <= 1

\* Tags found under an identifier are the tags of the file it names.
NoForeignTags ==
  Usable /\ ~ torn =>
    \A p \in Paths : \A n \in DOMAIN Shown(gtags, p) : Shown(gtags, p)[n].path = p

\* "Modifying some source files, you need not remake the whole tag files":
\* whatever is out of date, an update will notice.
UpdateSuffices == Usable => \A p \in Paths : Fresh(p) \/ Detectable(p)

\* The identifiers that gpath_put has still to issue have no tags, unless a
\* process was killed between the writing of the tag files: the file that
\* gets one starts without tags of others.
NewIdsAreClean ==
  Usable /\ ~ torn => \A i \in Fids : i >= disk.next =>
                         gtags.rec[i] = <<>> /\ grtags.rec[i] = <<>>

\* Every tag belongs to a file GPATH knows: global(1) can name its file.
TagsOwned ==
  Usable => \A i \in Fids : gtags.rec[i] # <<>> \/ grtags.rec[i] # <<>>
                               => disk.f2p[i] # NoRec

\* ... if nobody edits while gtags runs and the langmap stays as it is: the delete
\* list, which goes by the type a file has in GPATH, misses no identifier with tags.
TagsOwnedUnlessRetyped == reconfs = 0 => TagsOwned
=============================================================================
