--------------------------- MODULE GtagsAllProofs ---------------------------
(***************************************************************************)
(* The two promises of the database that depend on who does what while     *)
(* gtags runs (MCGtagsAll), for every set of paths and every bound: no     *)
(* edit goes unnoticed, and no tag is left without a file.                 *)
(***************************************************************************)
EXTENDS MCGtagsAll, GtagsProofs

----------------------------------------------------------------------------
(* Others edit files while gtags runs, and it is killed.                   *)

Source(p) == Exists(p) /\ lang[p] = "source"
Known(d, p) == d.p2f[p] # NoRec

\* A tag file has the tags of p as p is now.
Right(T, d, p) == T.rec[d.p2f[p].fid] = << [path |-> p, ver |-> text[p]] >>

\* ... or the next update will see that it has not.
Seen(T, d) == \A p \in Paths : Source(p) /\ Known(d, p) =>
                Right(T, d, p) \/ gtagsMtime < mtime[p] \/ mtime[p] \in blind[p]

\* What the running process may take for settled: p was last written before
\* the second in which it started.
Old(p) == Exists(p) /\ mtime[p] < start

Done(T, d) == \A p \in Paths : Old(p) /\ Source(p) /\ Known(d, p) =>
                Right(T, d, p) \/ mtime[p] \in blind[p]

\* Only sources have tags.
SourceTags(T) == \A i \in Fids : \A k \in DOMAIN T.rec[i] : lang[T.rec[i][k].path] = "source"

Clocks ==
  /\ \A p \in Paths : mtime[p] <= clock
  /\ gtagsMtime <= clock /\ start <= clock
  /\ (gtags # NoFile /\ gtags.ok) \/ pc \in Updating \cup {"close_GPATH"} =>
       \A p \in Paths : gtagsMtime \in blind[p]
  /\ single = NoPath
  /\ pc \in {"inspect", "decide", "open_GRTAGS_MODIFY", "delete"} => since = gtagsMtime

\* What happens to the settled files in an update.
Inspected ==
  /\ \A p \in addlist_other : lang[p] = "other"
  /\ pc \in {"inspect", "decide", "open_GRTAGS_MODIFY", "delete"} => db = disk
  /\ pc \in Updating => \A p \in Paths : Old(p) /\ Known(disk, p) => db.p2f[p] = disk.p2f[p]
  /\ pc = "idle" => deleteset = {} /\ deletelist = {} /\ findset = {}
  /\ pc = "inspect" => /\ deletelist = {}
                       /\ \A p \in Paths : Old(p) /\ Known(db, p) =>
                         p \in unread \/ db.p2f[p].fid \in findset
  /\ pc \in {"inspect", "decide", "open_GRTAGS_MODIFY", "delete"} =>
       \A p \in Paths : Old(p) /\ Known(db, p) =>
         /\ db.p2f[p].fid \in deleteset => p \in addlist
         /\ lang[p] = "source" /\ since < mtime[p] => p \in addlist \/ p \in unread
  /\ pc \in {"decide", "open_GRTAGS_MODIFY", "delete"} => unread = {}
  /\ pc \in Updating => \A p \in deletelist : ~ Old(p)

FilesSeen == gtags # NoFile /\ gtags.ok /\ disk # NoFile => Seen(gtags, disk)

EditsInv ==
  /\ Clocks /\ Inspected
  /\ gtags # NoFile => SourceTags(gtags)
  /\ SourceTags(gtop.GTAGS)
  /\ pc = "create" => \A p \in Paths :
       Old(p) /\ Source(p) /\ Known(db, p) => Right(gtop.GTAGS, db, p)
  /\ pc = "close_GPATH" => Seen(gtags, db)
  /\ ~ torn =>
       /\ FilesSeen
       /\ pc = "delete" => gtop.GTAGS = gtags /\ gtags.ok
       /\ pc = "add" => \A p \in Paths :
            Old(p) /\ Source(p) /\ Known(db, p) =>
              p \in addlist \/ Right(gtop.GTAGS, db, p) \/ mtime[p] \in blind[p]
       /\ pc \in {"close_GRTAGS_MODIFY", "paths"} => Done(gtags, db)
       /\ pc = "close" => Seen(gtags, db)

EditsOK == trouble = "edits" => EditsInv
----------------------------------------------------------------------------
(* The user updates single files and leaves gtags alone.                   *)

\* Every record belongs to a source file of the table.
HasOwner(T, d) == \A i \in Fids :
  T.rec[i] # <<>> => d.f2p[i] # NoRec /\ d.f2p[i].type = "source"

TypesHold(d) == \A p \in Paths : Known(d, p) => d.p2f[p].type = lang[p]

\* A file to be deleted from the table has no tags.
NoTagsOf(T) == \A p \in deletelist : T.rec[db.p2f[p].fid] = <<>>

Early == {"inspect", "decide", "open_GRTAGS_MODIFY", "delete"}

Kept ==
  /\ TypesHold(db)
  /\ disk # NoFile => TypesHold(disk)
  /\ \A p \in addlist_other : lang[p] = "other"
  /\ \A p \in addlist : lang[p] = "source"
  /\ pc = "idle" => deletelist = {}
  /\ pc = "inspect" => /\ deletelist = {}
                       /\ \A p \in addlist : Exists(p) /\
                            (Known(db, p) => db.p2f[p].fid \in findset)
  /\ pc \in Updating => \A p \in deletelist : Known(db, p) /\ p \notin addlist
  /\ pc \in Early => \A p \in deletelist :
       db.p2f[p].type = "source" => db.p2f[p].fid \in deleteset
  /\ pc = "create" => HasOwner(gtop.GTAGS, db)
  /\ pc = "close_GPATH" => HasOwner(gtags, db)
  /\ pc = "delete" => gtop.GTAGS = gtags
  /\ pc \in Updating \ {"add"} => HasOwner(gtags, db)
  /\ pc = "add" => HasOwner(gtop.GTAGS, db) /\ NoTagsOf(gtop.GTAGS)
  /\ pc \in {"close_GRTAGS_MODIFY", "paths"} => NoTagsOf(gtags)
  /\ gtags # NoFile /\ gtags.ok /\ disk # NoFile /\ disk.next # 0 /\ pc \notin Window =>
       HasOwner(gtags, disk)

\* While the langmap is what it was, nothing is lost.
UserInv == torn = FALSE /\ (reconfs = 0 => Kept)

UserOK == trouble = "user" => UserInv
----------------------------------------------------------------------------
\* What the earlier modules prove of every state.
Base == Protocol /\ GPP!IInv /\ Typed /\ IdsClean /\ InSync

\* The types the steps need.
LEMMA BaseFacts ==
  ASSUME Base
  PROVE  /\ text \in [Paths -> Nat] /\ mtime \in [Paths -> Nat]
         /\ clock \in Nat /\ start \in Nat /\ gtagsMtime \in Nat /\ since \in Nat
         /\ blind \in [Paths -> SUBSET Nat] /\ lang \in [Paths -> GP!Types]
         /\ gtags \in Tags \cup {NoFile} /\ grtags \in Tags \cup {NoFile}
         /\ gtop.GTAGS \in Tags /\ gtop.GRTAGS \in Tags
         /\ unread \subseteq Paths /\ addlist \subseteq Paths
         /\ deletelist \subseteq Paths /\ addlist_other \subseteq Paths
         /\ db.p2f \in [Paths -> GP!PathRec \cup {NoRec}]
         /\ db.f2p \in [Fids -> GP!FidRec \cup {NoRec}]
  <1>1. TreeType /\ TagsType /\ ListsType /\ HistoryType
    BY DEF Base, Typed, TypeOK
  <1>2. GP!TypeOK
    BY DEF Base, Typed, TypeOK
  <1>3. Times \subseteq Nat /\ 0 .. MaxEdits \subseteq Nat
    BY GtagsAssumption DEF Times
  <1>4. db \in GP!Db
    BY <1>2 DEF GP!TypeOK
  <1>5. /\ db.p2f \in [Paths -> GP!PathRec \cup {NoRec}]
        /\ db.f2p \in [Fids -> GP!FidRec \cup {NoRec}]
    BY <1>4 DEF GP!Db, GP!Fids, Fids
  <1>6. /\ text \in [Paths -> Nat] /\ mtime \in [Paths -> Nat]
        /\ clock \in Nat /\ lang \in [Paths -> GP!Types]
    BY <1>1, <1>3 DEF TreeType
  <1>7. start \in Nat /\ blind \in [Paths -> SUBSET Nat]
    BY <1>1, <1>3 DEF HistoryType
  <1> QED BY <1>1, <1>3, <1>5, <1>6, <1>7 DEF TagsType, ListsType

\* Parsing puts tags of sources only, and deletion puts none.
LEMMA PutSource ==
  ASSUME NEW T \in Tags, NEW i \in Fids, NEW p \in Paths, SourceTags(T),
         text[p] \in Nat
  PROVE  SourceTags(gtags_put(T, i, p))
  <1> DEFINE r == [path |-> p, ver |-> text[p]]
  <1>1. CASE lang[p] # "source"
    BY <1>1 DEF gtags_put
  <1>2. CASE lang[p] = "source"
    <2>1. T.rec \in [Fids -> Seq(TagRec)] /\ T.rec[i] \in Seq(TagRec)
      BY DEF Tags
    <2>2. gtags_put(T, i, p).rec = [T.rec EXCEPT ![i] = Append(T.rec[i], r)]
      BY <1>2 DEF gtags_put
    <2>3. \A k \in DOMAIN Append(T.rec[i], r) :
            \/ k \in DOMAIN T.rec[i] /\ Append(T.rec[i], r)[k] = T.rec[i][k]
            \/ Append(T.rec[i], r)[k] = r
      BY <2>1
    <2>4. r.path = p
      OBVIOUS
    <2> HIDE DEF r
    <2>5. ASSUME NEW j \in Fids, NEW k \in DOMAIN gtags_put(T, i, p).rec[j]
          PROVE  lang[gtags_put(T, i, p).rec[j][k].path] = "source"
      <3>1. CASE j = i
        <4>1. gtags_put(T, i, p).rec[i] = Append(T.rec[i], r)
          BY <2>1, <2>2
        <4> QED BY <3>1, <4>1, <2>3, <2>4, <2>5, <1>2 DEF SourceTags
      <3>2. CASE j # i
        <4>1. gtags_put(T, i, p).rec[j] = T.rec[j]
          BY <3>2, <2>1, <2>2
        <4> QED BY <4>1, <2>5 DEF SourceTags
      <3> QED BY <3>1, <3>2
    <2> QED BY <2>5 DEF SourceTags
  <1> QED BY <1>1, <1>2

LEMMA DeleteSource ==
  ASSUME NEW T, NEW ids, SourceTags(T)
  PROVE  SourceTags(gtags_delete(T, ids))
  <1>1. \A j \in Fids : \/ gtags_delete(T, ids).rec[j] = T.rec[j]
                        \/ gtags_delete(T, ids).rec[j] = <<>>
    BY DeleteFromTags DEF gtags_delete
  <1> QED BY <1>1 DEF SourceTags

\* An edit unsettles its file, and a later edit is seen or was overlooked.
LEMMA EditsWrite ==
  ASSUME Base, EditsInv,
         (\E p \in Paths : Write(p) \/ Remove(p)) \/ Tick \/ UNCHANGED vars
  PROVE  EditsInv'
  <1>1. /\ UNCHANGED <<lang, tagFiles, pc, gtop, lists, gpath, history>>
        /\ UNCHANGED <<gtags, grtags, gtagsMtime, unread, single, since, addlist,
             deletelist, addlist_other, deleteset, findset, nextkey, db, disk,
             start, blind, torn>>
    BY DEF Write, Remove, Tick, vars, tagFiles, lists, gpath, history
  <1>2. /\ clock' \in Nat /\ clock <= clock'
        /\ \A q \in Paths : \/ text'[q] = text[q] /\ mtime'[q] = mtime[q]
                            \/ text'[q] = 0 /\ mtime'[q] = 0
                            \/ mtime'[q] = clock
    BY BaseFacts DEF Write, Remove, Tick, vars, tree
  <1>3. /\ \A q \in Paths : mtime[q] <= clock
        /\ gtagsMtime <= clock /\ start <= clock
    BY DEF EditsInv, Clocks
  <1>4. /\ \A q \in Paths : mtime'[q] <= clock'
        /\ gtagsMtime <= clock' /\ start <= clock'
    BY <1>2, <1>3, BaseFacts
  <1>5. \A q \in Paths :
          Old(q)' => Old(q) /\ text'[q] = text[q] /\ mtime'[q] = mtime[q]
    BY <1>1, <1>2, <1>3, BaseFacts DEF Old, Exists
  <1>6. \A q \in Paths :
          Source(q)' => \/ Source(q) /\ text'[q] = text[q] /\ mtime'[q] = mtime[q]
                        \/ mtime'[q] = clock
    BY <1>1, <1>2, BaseFacts DEF Source, Exists
  <1>7. Clocks'
    BY <1>1, <1>4 DEF EditsInv, Clocks, Updating
  <1>8. Inspected'
    <2>1. Inspected /\ db' = db /\ disk' = disk
      BY <1>1 DEF EditsInv
    <2>2. \A p \in addlist_other : lang'[p] = "other"
      BY <1>1, <2>1 DEF Inspected
    <2>3. pc \in Updating => \A p \in Paths : Old(p)' /\ Known(disk, p) => db.p2f[p] = disk.p2f[p]
      BY <1>5, <2>1 DEF Inspected
    <2>4. pc = "inspect" => /\ deletelist = {}
                            /\ \A p \in Paths : Old(p)' /\ Known(db, p) =>
                                 p \in unread \/ db.p2f[p].fid \in findset
      BY <1>5, <2>1 DEF Inspected
    <2>5. pc \in {"inspect", "decide", "open_GRTAGS_MODIFY", "delete"} =>
            \A p \in Paths : Old(p)' /\ Known(db, p) =>
              /\ db.p2f[p].fid \in deleteset => p \in addlist
              /\ lang'[p] = "source" /\ since < mtime'[p] => p \in addlist \/ p \in unread
      BY <1>1, <1>5, <2>1 DEF Inspected
    <2>6. pc \in Updating => \A p \in deletelist : ~ Old(p)'
      BY <1>5, <2>1, BaseFacts DEF Inspected
    <2> QED BY <1>1, <2>1, <2>2, <2>3, <2>4, <2>5, <2>6
            DEF Inspected, Known, Old, Exists, Updating
  <1>9. ASSUME NEW T, NEW d, Seen(T, d), \A p \in Paths : gtagsMtime \in blind[p],
               NEW p \in Paths, Source(p)', Known(d, p)
        PROVE  << [path |-> p, ver |-> text'[p]] >> = T.rec[d.p2f[p].fid]
                 \/ gtagsMtime < mtime'[p] \/ mtime'[p] \in blind[p]
    <2>1. CASE Source(p) /\ text'[p] = text[p] /\ mtime'[p] = mtime[p]
      BY <1>9, <2>1 DEF Seen, Right
    <2>2. CASE mtime'[p] = clock
      BY <1>3, <1>9, <2>2, BaseFacts
    <2> QED BY <1>6, <1>9, <2>1, <2>2
  <1>10. FilesSeen => FilesSeen'
    <2> SUFFICES ASSUME FilesSeen, gtags # NoFile, gtags.ok, disk # NoFile,
                        NEW p \in Paths, Source(p)', Known(disk, p)
                 PROVE  << [path |-> p, ver |-> text'[p]] >> = gtags.rec[disk.p2f[p].fid]
                          \/ gtagsMtime < mtime'[p] \/ mtime'[p] \in blind[p]
      BY <1>1 DEF FilesSeen, Seen, Right, Known
    <2> QED BY <1>9 DEF FilesSeen, EditsInv, Clocks
  <1>11. pc \in Updating \cup {"close_GPATH"} => (Seen(gtags, db) => Seen(gtags, db)')
    <2> SUFFICES ASSUME Seen(gtags, db), pc \in Updating \cup {"close_GPATH"},
                        NEW p \in Paths, Source(p)', Known(db, p)
                 PROVE  << [path |-> p, ver |-> text'[p]] >> = gtags.rec[db.p2f[p].fid]
                          \/ gtagsMtime < mtime'[p] \/ mtime'[p] \in blind[p]
      BY <1>1 DEF Seen, Right, Known
    <2> QED BY <1>9 DEF EditsInv, Clocks
  <1>12. Done(gtags, db) => Done(gtags, db)'
    BY <1>1, <1>5 DEF Done, Right, Known, Source, Old, Exists
  <1>13. SourceTags(gtop.GTAGS)' /\ (gtags # NoFile => SourceTags(gtags)')
    BY <1>1 DEF EditsInv, SourceTags
  <1>14. pc = "create" => \A p \in Paths :
           Old(p)' /\ Source(p)' /\ Known(db, p)' => Right(gtop.GTAGS, db, p)'
    BY <1>1, <1>5 DEF EditsInv, Right, Known, Source, Old, Exists
  <1>15. pc = "add" /\ ~ torn => \A p \in Paths :
            Old(p)' /\ Source(p)' /\ Known(db, p)' =>
              p \in addlist \/ Right(gtop.GTAGS, db, p)' \/ mtime'[p] \in blind[p]
    BY <1>1, <1>5 DEF EditsInv, Right, Known, Source, Old, Exists
  <1>16. pc = "close" => pc \in Updating
    BY DEF Updating
  <1> QED BY <1>1, <1>7, <1>8, <1>10, <1>11, <1>12, <1>13, <1>14, <1>15, <1>16 DEF EditsInv

\* At the end of a process the files count, and they are as they were.
LEMMA EditsEnd ==
  ASSUME Base, EditsInv, ProcessExit \/ Die \/ Crash
  PROVE  EditsInv'
  <1>1. /\ pc' = "idle" /\ UNCHANGED <<tree, lang, clock, gtags, gtagsMtime, blind, disk>>
        /\ UNCHANGED <<text, mtime>>
        /\ ~ torn' => ~ torn
        /\ gtop' = Closed /\ single' = NoPath /\ start' = 0
        /\ addlist_other' = {} /\ deleteset' = {} /\ deletelist' = {} /\ findset' = {}
    <2>1. ForgetMemory /\ UNCHANGED <<tree, lang, clock, tagFiles, blind>>
      BY DEF ProcessExit, Die, Crash
    <2>2. ~ torn' => ~ torn
      BY Zenon DEF ProcessExit, Die, Crash
    <2> QED BY <2>1, <2>2 DEF ForgetMemory, GP!Exit, tagFiles, tree
  <1>2. Clocks'
    BY <1>1, BaseFacts DEF EditsInv, Clocks, Updating
  <1>3. Inspected'
    BY <1>1 DEF Inspected, Updating
  <1>4. SourceTags(gtop.GTAGS)'
    BY <1>1 DEF SourceTags, Closed, NewFile, NoTags
  <1>5. gtags' # NoFile => SourceTags(gtags)'
    BY <1>1 DEF EditsInv, SourceTags
  <1>6. ~ torn' => FilesSeen'
    BY <1>1 DEF EditsInv, FilesSeen, Seen, Right, Known, Source, Exists
  <1> QED BY <1>1, <1>2, <1>3, <1>4, <1>5, <1>6 DEF EditsInv

\* After a parse of a source, where nothing was, its tags are right.
LEMMA ParsedRight ==
  ASSUME Protocol, GPP!IInv, Typed, opened > 0, created = FALSE,
         NEW p \in Paths, lang[p] = "source", ParseInto(p), Memory(gtop.GTAGS),
         db.p2f[p] # NoRec => gtop.GTAGS.rec[db.p2f[p].fid] = <<>>
  PROVE  /\ db'.p2f[p].fid = FidOf(p) /\ FidOf(p) \in Fids
         /\ gtop'.GTAGS.rec[FidOf(p)] = << [path |-> p, ver |-> text[p]] >>
  <1>1. GP!gpath_put(p, "source") /\ "source" \in GP!Types
    BY DEF ParseInto, GP!Types
  <1>2. FidOf(p) \in Fids /\ nextkey \in Nat
    BY <1>1, PutFid
  <1>3. gtop.GTAGS.rec[FidOf(p)] = <<>>
    <2>1. CASE db.p2f[p] # NoRec
      BY <2>1 DEF FidOf, GP!gpath_path2fid
    <2>2. CASE db.p2f[p] = NoRec
      <3>1. FidOf(p) = nextkey
        BY <2>2 DEF FidOf, GP!gpath_path2fid
      <3>2. ~ (nextkey < nextkey)
        BY <1>2
      <3> QED BY <1>2, <3>1, <3>2 DEF Memory, InMemory, Below
    <2> QED BY <2>1, <2>2
  <1>4. db'.p2f[p].fid = FidOf(p)
    <2>1. db.p2f \in [Paths -> GP!PathRec \cup {NoRec}]
      BY GpathFacts DEF GP!TypeOK, GP!Db
    <2> QED BY <1>1, <2>1 DEF GP!gpath_put, GP!gpathVars, GP!WithFile, FidOf,
               GP!gpath_path2fid
  <1> DEFINE r == [path |-> p, ver |-> text[p]]
  <1>5. gtop'.GTAGS.rec = [gtop.GTAGS.rec EXCEPT ![FidOf(p)] = Append(gtop.GTAGS.rec[FidOf(p)], r)]
    BY DEF ParseInto, gtags_put
  <1>6. gtop.GTAGS.rec \in [Fids -> Seq(TagRec)]
    BY DEF Typed, TypeOK, TagsType, Tags
  <1> HIDE DEF r
  <1>7. Append(<<>>, r) = << r >>
    OBVIOUS
  <1>8. gtop'.GTAGS.rec[FidOf(p)] = << r >>
    BY <1>2, <1>3, <1>5, <1>6, <1>7
  <1> QED BY <1>2, <1>4, <1>8 DEF r

\* createtags writes what it has read, and the seconds it took are blind.
LEMMA EditsCreate ==
  ASSUME Base, EditsInv, Create, UNCHANGED reconfs
  PROVE  EditsInv'
  <1> USE DEF Creating, Updating, Ending
  <1>0. /\ SourceTags(NewFile) /\ SourceTags(NewImage) /\ NewFile.ok = FALSE
        /\ Protocol /\ GPP!IInv /\ Typed /\ InSync /\ IdsClean /\ Clocks /\ Inspected
    BY DEF SourceTags, NewFile, NewImage, NoTags, Base, EditsInv
  <1>a. /\ UNCHANGED <<text, mtime, lang, clock, single, addlist_other>>
        /\ pc' \in {"open_GRTAGS", "create", "close_GPATH", "close_GRTAGS", "exit"}
    BY DEF Create, CreateGTAGS, CreateGRTAGS, CreateFile, CreateCloseGTAGS,
       CreateCloseGPATH, CreateCloseGRTAGS, tree, lists
  <1>b. Inspected'
    BY <1>0, <1>a DEF Inspected
  <1>1. CASE CreateGTAGS
    <2>1. /\ pc' = "open_GRTAGS" /\ gtop'.GTAGS = NewImage /\ gtags' = NewFile
          /\ gtagsMtime' = clock /\ start' = clock
      BY <1>1 DEF CreateGTAGS
    <2>2. Clocks'
      BY <1>0, <1>a, <2>1, BaseFacts DEF Clocks
    <2>3. SourceTags(gtags)' /\ SourceTags(gtop.GTAGS)'
      BY <1>0, <1>a, <2>1 DEF SourceTags
    <2> QED BY <1>0, <1>b, <2>1, <2>2, <2>3 DEF EditsInv, FilesSeen
  <1>2. CASE CreateGRTAGS
    <2>1. /\ pc = "open_GRTAGS" /\ pc' = "create" /\ gtop'.GTAGS = gtop.GTAGS
          /\ UNCHANGED <<gtags, gtagsMtime, start, blind>> /\ gtags = NewFile
          /\ GP!gpath_open(1)
      BY <1>0, <1>2 DEF CreateGRTAGS, InSync, history
    <2>2. Clocks'
      BY <1>0, <1>a, <2>1 DEF Clocks
    <2>3. SourceTags(gtags)' /\ SourceTags(gtop.GTAGS)'
      BY <1>0, <1>a, <2>1 DEF SourceTags, EditsInv
    <2>4. db' = db
      BY <1>0, <2>1, GpathQuiet DEF Protocol
    <2>5. \A p \in Paths : ~ Known(db, p)'
      BY <1>0, <2>1, <2>4 DEF InSync, Known
    <2> QED BY <1>0, <1>b, <2>1, <2>2, <2>3, <2>5 DEF EditsInv, FilesSeen
  <1>3. ASSUME NEW p \in Paths, CreateFile(p) PROVE EditsInv'
    <2>1. /\ pc = "create" /\ pc' = "create" /\ gtags = NewFile
          /\ UNCHANGED <<gtags, gtagsMtime, start, blind>>
          /\ opened > 0 /\ created = FALSE /\ p \in unread
      BY <1>0, <1>3 DEF CreateFile, InSync, history, tagFiles, Protocol
    <2>2. Clocks'
      BY <1>0, <1>a, <2>1 DEF Clocks
    <2>3. /\ Same(gtop.GTAGS, gtop.GRTAGS) /\ Memory(gtop.GTAGS) /\ db.p2f[p] = NoRec
      BY <1>0, <2>1 DEF InSync, IdsClean
    <2>4. CASE ParseInto(p) /\ lang[p] = "source"
      <3>1. /\ GP!gpath_put(p, "source") /\ "source" \in GP!Types
            /\ gtop'.GTAGS = gtags_put(gtop.GTAGS, FidOf(p), p)
        BY <2>4 DEF ParseInto, GP!Types
      <3>2. /\ db'.p2f[p].fid = FidOf(p) /\ FidOf(p) \in Fids
            /\ gtop'.GTAGS.rec[FidOf(p)] = << [path |-> p, ver |-> text[p]] >>
        BY <1>0, <2>1, <2>3, <2>4, ParsedRight
      <3>3. \A j \in Fids : j # FidOf(p) => gtop'.GTAGS.rec[j] = gtop.GTAGS.rec[j]
        BY <1>0, <2>1, <2>3, <2>4, ParseSame
      <3>4. \A q \in Paths : q # p =>
              /\ db'.p2f[q] = db.p2f[q]
              /\ db.p2f[q] # NoRec => db.p2f[q].fid \in Fids /\ db.p2f[q].fid # FidOf(p)
        BY <1>0, <2>1, <3>1, PutPath
      <3>5. SourceTags(gtop'.GTAGS)
        BY <3>1, <3>2, PutSource, BaseFacts DEF EditsInv
      <3>6. SourceTags(gtop.GTAGS)'
        BY <3>5, <1>a DEF SourceTags
      <3>7. SourceTags(gtags)'
        BY <1>0, <1>a, <2>1 DEF SourceTags
      <3>8. ASSUME NEW q \in Paths, Old(q)', Source(q)', Known(db, q)'
            PROVE  Right(gtop.GTAGS, db, q)'
        <4>1. CASE q = p
          BY <3>2, <4>1, <1>a DEF Right
        <4>2. CASE q # p
          <5>1. Old(q) /\ Source(q) /\ Known(db, q)
            BY <1>a, <2>1, <3>4, <3>8, <4>2 DEF Old, Source, Exists, Known
          <5>2. gtop.GTAGS.rec[db.p2f[q].fid] = << [path |-> q, ver |-> text[q]] >>
            BY <5>1, <2>1 DEF EditsInv, Right
          <5> QED BY <1>a, <3>3, <3>4, <4>2, <5>1, <5>2 DEF Right, Known
        <4> QED BY <4>1, <4>2
      <3> QED BY <1>0, <1>b, <2>1, <2>2, <3>6, <3>7, <3>8 DEF EditsInv, FilesSeen
    <2>5. CASE /\ UNCHANGED gtop
               /\ UNCHANGED gpath \/ (lang[p] = "other" /\ GP!gpath_put(p, "other"))
      <3>1. SourceTags(gtop.GTAGS)' /\ SourceTags(gtags)'
        BY <1>0, <1>a, <2>1, <2>5 DEF SourceTags, EditsInv
      <3>2. \A q \in Paths : q # p => db'.p2f[q] = db.p2f[q]
        BY <1>0, <2>1, <2>5, PutPath DEF gpath, GP!Types
      <3>3. ASSUME NEW q \in Paths, Old(q)', Source(q)', Known(db, q)'
            PROVE  Right(gtop.GTAGS, db, q)'
        <4>1. q # p
          <5>1. CASE UNCHANGED gpath
            BY <2>3, <3>3, <5>1 DEF gpath, Known
          <5>2. CASE lang[p] = "other"
            BY <1>a, <3>3, <5>2 DEF Source
          <5> QED BY <2>5, <5>1, <5>2
        <4>2. Old(q) /\ Source(q) /\ Known(db, q)
          BY <1>a, <2>1, <3>2, <3>3, <4>1 DEF Old, Source, Exists, Known
        <4>3. gtop.GTAGS.rec[db.p2f[q].fid] = << [path |-> q, ver |-> text[q]] >>
          BY <4>2, <2>1 DEF EditsInv, Right
        <4> QED BY <1>a, <2>5, <3>2, <4>1, <4>3 DEF Right
      <3>4. ~ gtags'.ok /\ pc' = "create"
        BY <1>0, <2>1
      <3> QED BY <1>b, <2>2, <3>1, <3>3, <3>4 DEF EditsInv, FilesSeen
    <2> QED BY <1>3, <2>4, <2>5 DEF CreateFile
  <1>4. CASE CreateCloseGTAGS
    <2>1. /\ pc = "create" /\ pc' = "close_GPATH" /\ gtags' = gtop.GTAGS /\ gtop' = gtop
          /\ gtagsMtime' = clock /\ blind' = [p \in Paths |-> start .. clock]
          /\ start' = start /\ GP!gpath_close
      BY <1>4 DEF CreateCloseGTAGS
    <2>2. db' = db /\ disk' = disk /\ disk = GP!EmptyDb
      <3>1. opened = 2 /\ mode = 1 /\ created = FALSE
        BY <1>0, <2>1 DEF Protocol
      <3>2. opened > 0
        BY <3>1
      <3>3. disk = GP!EmptyDb
        BY <1>0, <3>1, <3>2, GpathFacts, Zenon
      <3> QED BY <1>0, <2>1, <3>1, <3>3, GpathQuiet
    <2>3. Clocks'
      <3>1. clock \in start .. clock
        BY <1>0, BaseFacts DEF Clocks
      <3> QED BY <1>0, <1>a, <2>1, <3>1, BaseFacts DEF Clocks
    <2>4. SourceTags(gtop.GTAGS)' /\ SourceTags(gtags)'
      BY <1>a, <2>1 DEF SourceTags, EditsInv
    <2>5. Seen(gtags, db)'
      <3>1. ASSUME NEW p \in Paths, Source(p), Known(db, p)
            PROVE  Right(gtop.GTAGS, db, p) \/ mtime[p] \in start .. clock
        <4>1. CASE Old(p)
          BY <2>1, <3>1, <4>1 DEF EditsInv
        <4>2. CASE ~ Old(p)
          BY <3>1, <4>2, <1>0, BaseFacts DEF Old, Source, Clocks
        <4> QED BY <4>1, <4>2
      <3> QED BY <1>a, <2>1, <2>2, <3>1 DEF Seen, Source, Exists, Known, Right
    <2>6. FilesSeen'
      BY <2>2 DEF FilesSeen, Seen, Known, GP!EmptyDb
    <2> QED BY <1>b, <2>1, <2>3, <2>4, <2>5, <2>6 DEF EditsInv
  <1>5. CASE CreateCloseGPATH
    <2>1. /\ pc = "close_GPATH" /\ pc' = "close_GRTAGS"
          /\ UNCHANGED <<gtags, gtagsMtime, start, blind, gtop>> /\ GP!gpath_close
      BY <1>5 DEF CreateCloseGPATH, tagFiles, history
    <2>2. disk'.p2f = db.p2f
      <3>1. opened = 1 /\ mode = 1 /\ created = FALSE
        BY <1>0, <2>1 DEF Protocol
      <3> QED BY <2>1, <3>1 DEF GP!gpath_close, GP!DbMode, GP!WithNextkey
    <2>3. Clocks'
      BY <1>0, <1>a, <2>1 DEF Clocks
    <2>4. SourceTags(gtop.GTAGS)' /\ (gtags' # NoFile => SourceTags(gtags)')
      BY <1>a, <2>1 DEF SourceTags, EditsInv
    <2>5. FilesSeen'
      BY <1>a, <2>1, <2>2 DEF EditsInv, FilesSeen, Seen, Source, Exists, Known, Right
    <2> QED BY <1>b, <2>1, <2>3, <2>4, <2>5 DEF EditsInv
  <1>6. CASE CreateCloseGRTAGS
    <2>1. /\ pc = "close_GRTAGS" /\ pc' = "exit"
          /\ UNCHANGED <<gtags, gtagsMtime, start, blind, gtop, torn, disk>>
      BY <1>6 DEF CreateCloseGRTAGS, history, gpath
    <2>2. Clocks'
      BY <1>0, <1>a, <2>1 DEF Clocks
    <2>3. SourceTags(gtop.GTAGS)' /\ (gtags' # NoFile => SourceTags(gtags)')
      BY <1>a, <2>1 DEF SourceTags, EditsInv
    <2>4. FilesSeen => FilesSeen'
      BY <1>a, <2>1 DEF FilesSeen, Seen, Source, Exists, Known, Right
    <2> QED BY <1>b, <2>1, <2>2, <2>3, <2>4 DEF EditsInv
  <1> QED BY <1>1, <1>2, <1>3, <1>4, <1>5, <1>6 DEF Create

\* The record of an identifier names a path that has this identifier.
LEMMA PairedFacts ==
  ASSUME Base, NEW i \in Fids, db.f2p[i] # NoRec
  PROVE  /\ db.f2p[i].path \in Paths
         /\ db.p2f[db.f2p[i].path] # NoRec
         /\ db.p2f[db.f2p[i].path].fid = i
         /\ db.p2f[db.f2p[i].path].type = db.f2p[i].type
  <1>1. db.f2p[i] \in GP!FidRec
    BY BaseFacts
  <1>2. db.p2f[db.f2p[i].path] = [fid |-> i, type |-> db.f2p[i].type]
    BY DEF Base, GPP!IInv, GPP!Consistent, GPP!Paired, GPP!Fids, Fids
  <1>3. [fid |-> i, type |-> db.f2p[i].type] \in GP!PathRec
    BY <1>1 DEF GP!FidRec, GP!PathRec, GP!Fids, Fids
  <1> QED BY <1>1, <1>2, <1>3, GpathAssumption DEF GP!FidRec

\* The inspection of the tree finds all settled files, and lists those that are
\* newer than GTAGS.
LEMMA EditsInspect ==
  ASSUME Base, EditsInv,
         UpdateAll \/ (\E p \in Paths : Inspect(p)) \/ MakeDeleteList \/ SkipTags
  PROVE  EditsInv'
  <1> USE DEF Updating
  <1>0. /\ Protocol /\ GPP!IInv /\ Typed /\ InSync /\ Clocks /\ Inspected
        /\ \A p \in Paths : db.p2f[p] # NoRec =>
             /\ db.p2f[p].fid \in Fids
             /\ db.f2p[db.p2f[p].fid] # NoRec
             /\ db.f2p[db.p2f[p].fid].path = p
    BY GpathFacts DEF Base, EditsInv
  <1>a. /\ UNCHANGED <<text, mtime, lang, clock, gtags, gtagsMtime, gtop, blind, torn,
                       disk, single>>
        /\ pc' \in {"inspect", "decide", "paths", "close"}
        /\ pc \in {"idle", "inspect", "decide"}
        /\ pc \in {"inspect", "decide"} => UNCHANGED <<start, since, db>>
    <2>1. CASE UpdateAll
      <3>1. GP!gpath_open(2) /\ opened = 0
        BY <1>0, <2>1 DEF UpdateAll, StartUpdate, Protocol
      <3> QED BY <2>1, <3>1, GpathQuiet DEF UpdateAll, StartUpdate, tree, tagFiles
    <2>2. CASE (\E p \in Paths : Inspect(p)) \/ MakeDeleteList \/ SkipTags
      BY <2>2 DEF Inspect, MakeDeleteList, SkipTags, tree, tagFiles, lists, history, gpath
    <2> QED BY <2>1, <2>2
  <1>b. /\ SourceTags(gtop.GTAGS)' /\ (gtags' # NoFile => SourceTags(gtags)')
        /\ FilesSeen => FilesSeen'
    BY <1>a DEF EditsInv, SourceTags, FilesSeen, Seen, Right, Known, Source, Exists
  <1>1. CASE UpdateAll
    <2>1. /\ pc = "idle" /\ pc' = "inspect" /\ gtags # NoFile /\ gtags.ok
          /\ since' = gtagsMtime /\ start' = clock
          /\ unread' = {p \in Paths : Exists(p)}
          /\ UNCHANGED <<addlist, addlist_other, deleteset, deletelist, findset>>
          /\ GP!gpath_open(2) /\ opened = 0
      BY <1>0, <1>1 DEF UpdateAll, StartUpdate, TagFilesExist, Protocol
    <2>2. db' = disk
      BY <2>1, GpathQuiet
    <2>3. Clocks'
      BY <1>0, <1>a, <2>1, BaseFacts DEF Clocks
    <2>4. deletelist' = {} /\ deleteset' = {}
      BY <1>0, <2>1 DEF Inspected
    <2>5. \A p \in Paths : Exists(p)' => p \in unread'
      BY <1>a, <2>1 DEF Exists
    <2>6. Inspected'
      BY <1>0, <1>a, <2>1, <2>2, <2>4, <2>5 DEF Inspected, Old
    <2> QED BY <1>a, <1>b, <2>1, <2>3, <2>6 DEF EditsInv
  <1>2. ASSUME NEW p \in Paths, Inspect(p) PROVE EditsInv'
    <2>1. /\ pc = "inspect" /\ pc' = "inspect" /\ unread' = unread \ {p}
          /\ UNCHANGED <<deletelist, db, disk, start, since>>
          /\ findset \subseteq findset' /\ addlist \subseteq addlist'
          /\ addlist' \subseteq addlist \cup {p}
      BY <1>2 DEF Inspect, gpath, history
    <2>2. /\ Exists(p) /\ Known(db, p) => db.p2f[p].fid \in findset'
          /\ Exists(p) /\ lang[p] = "source" /\ since < mtime[p] => p \in addlist'
          /\ \A i \in deleteset' : i \in deleteset \/
                (Known(db, p) /\ i = db.p2f[p].fid /\ p \in addlist')
          /\ \A q \in addlist_other' : q \in addlist_other \/ (q = p /\ lang[p] # "source")
      BY <1>2 DEF Inspect, GP!gpath_path2fid, Known
    <2>3. Clocks'
      BY <1>0, <1>a, <2>1 DEF Clocks
    <2>4. \A q \in addlist_other' : lang'[q] = "other"
      BY <1>0, <1>a, <2>2, BaseFacts DEF Inspected, GP!Types
    <2>5. ASSUME NEW q \in Paths, Old(q), Known(db, q)
          PROVE  /\ q \in unread' \/ db.p2f[q].fid \in findset'
                 /\ db.p2f[q].fid \in deleteset' => q \in addlist'
                 /\ lang[q] = "source" /\ since < mtime[q] => q \in addlist' \/ q \in unread'
      <3>1. /\ q \in unread \/ db.p2f[q].fid \in findset
            /\ db.p2f[q].fid \in deleteset => q \in addlist
            /\ lang[q] = "source" /\ since < mtime[q] => q \in addlist \/ q \in unread
        BY <1>0, <2>1, <2>5 DEF Inspected
      <3>2. q \in unread' \/ db.p2f[q].fid \in findset'
        BY <2>1, <2>2, <2>5, <3>1 DEF Old
      <3>3. db.p2f[q].fid \in deleteset' => q \in addlist'
        BY <1>0, <2>1, <2>2, <2>5, <3>1 DEF Known
      <3>4. lang[q] = "source" /\ since < mtime[q] => q \in addlist' \/ q \in unread'
        BY <2>1, <2>2, <2>5, <3>1 DEF Old
      <3> QED BY <3>2, <3>3, <3>4
    <2>6. \A q \in Paths : /\ Old(q)' => Old(q)
                           /\ Known(db, q)' => Known(db, q)
      BY <1>a, <2>1 DEF Old, Exists, Known
    <2>7. db' = disk' /\ deletelist' = {}
      BY <1>0, <1>a, <2>1 DEF Inspected
    <2>8. Inspected'
      BY <1>a, <2>1, <2>4, <2>5, <2>6, <2>7 DEF Inspected
    <2> QED BY <1>a, <1>b, <2>1, <2>3, <2>8 DEF EditsInv
  <1>3. CASE MakeDeleteList
    <2>1. /\ pc = "inspect" /\ pc' = "decide" /\ unread = {}
          /\ UNCHANGED <<unread, addlist, addlist_other, findset, db, disk, start, since>>
          /\ deletelist' = {db.f2p[i].path : i \in Gone}
          /\ deleteset' = deleteset \cup {i \in Gone : db.f2p[i].type = "source"}
      BY <1>3 DEF MakeDeleteList, gpath, history, GP!gpath_fid2path
    <2>2. Clocks'
      BY <1>0, <1>a, <2>1 DEF Clocks
    <2>3. ASSUME NEW i \in Gone PROVE ~ Old(db.f2p[i].path)
      <3>1. i \in Fids /\ db.f2p[i] # NoRec
        BY DEF Gone, GP!gpath_fid2path
      <3>2. i \notin findset \/ ~ Exists(db.f2p[i].path)
        BY DEF Gone, GP!gpath_fid2path
      <3>3. /\ db.f2p[i].path \in Paths /\ Known(db, db.f2p[i].path)
            /\ db.p2f[db.f2p[i].path].fid = i
        BY <3>1, PairedFacts DEF Known
      <3> QED BY <1>0, <2>1, <3>2, <3>3 DEF Inspected, Old
    <2>4. \A q \in Paths : /\ Old(q)' => Old(q)
                           /\ Known(db, q)' => Known(db, q)
      BY <1>a, <2>1 DEF Old, Exists, Known
    <2>5. \A q \in deletelist' : q \in Paths => ~ Old(q)
      BY <2>1, <2>3
    <2>6. deletelist' \subseteq Paths
      <3>1. \A i \in Gone : db.f2p[i].path \in Paths
        BY PairedFacts DEF Gone, GP!gpath_fid2path
      <3> QED BY <2>1, <3>1
    <2>7. ASSUME NEW q \in Paths, Old(q), Known(db, q)
          PROVE  /\ db.p2f[q].fid \in deleteset' => q \in addlist
                 /\ lang[q] = "source" /\ since < mtime[q] => q \in addlist
      <3>1. /\ db.p2f[q].fid \in deleteset => q \in addlist
            /\ lang[q] = "source" /\ since < mtime[q] => q \in addlist
        BY <1>0, <2>1, <2>7 DEF Inspected
      <3>2. db.p2f[q].fid \notin Gone
        BY <1>0, <2>3, <2>7 DEF Known
      <3> QED BY <2>1, <3>1, <3>2
    <2>8. db' = disk' /\ \A q \in addlist_other' : lang'[q] = "other"
      BY <1>0, <1>a, <2>1 DEF Inspected
    <2>9. Inspected'
      BY <1>a, <2>1, <2>4, <2>5, <2>6, <2>7, <2>8 DEF Inspected
    <2> QED BY <1>a, <1>b, <2>1, <2>2, <2>9 DEF EditsInv
  <1>4. CASE SkipTags
    <2>1. /\ pc = "decide" /\ pc' \in {"paths", "close"}
          /\ deleteset = {} /\ addlist = {}
          /\ UNCHANGED <<unread, addlist, deletelist, deleteset, addlist_other, findset,
                         db, disk, start, since>>
      BY <1>4 DEF SkipTags, TagsChange, lists, gpath, history
    <2>2. Clocks'
      BY <1>0, <1>a, <2>1 DEF Clocks
    <2>3. \A q \in Paths : /\ Old(q)' => Old(q)
                           /\ Known(disk, q)' => Known(disk, q)
      BY <1>a, <2>1 DEF Old, Exists, Known
    <2>4. Inspected'
      BY <1>0, <1>a, <2>1, <2>3, BaseFacts DEF Inspected
    <2>5. ASSUME ~ torn PROVE Seen(gtags, db) /\ Done(gtags, db)
      <3>1. gtags.ok /\ gtags # NoFile /\ disk # NoFile
        <4>1. opened > 0 /\ mode = 2
          BY <1>0, <2>1 DEF Protocol
        <4>2. disk # NoFile
          BY <1>0, <4>1, GpathFacts, Zenon
        <4> QED BY <1>0, <2>1, <4>2 DEF InSync, Typed, FilesExist
      <3>2. Seen(gtags, db)
        BY <1>0, <2>1, <2>5, <3>1 DEF EditsInv, FilesSeen, Inspected
      <3>3. \A p \in Paths : Old(p) /\ Source(p) /\ Known(db, p) => ~ (gtagsMtime < mtime[p])
        BY <1>0, <2>1 DEF Inspected, Clocks, Source
      <3> QED BY <3>2, <3>3 DEF Seen, Done
    <2>6. ~ torn => Seen(gtags, db)' /\ Done(gtags, db)'
      BY <1>a, <2>1, <2>5 DEF Seen, Done, Right, Source, Exists, Known, Old
    <2> QED BY <1>a, <1>b, <2>1, <2>2, <2>4, <2>6 DEF EditsInv
  <1> QED BY <1>1, <1>2, <1>3, <1>4

\* What is written over or put aside by updatetags is what was listed.
LEMMA EditsTags ==
  ASSUME Base, EditsInv,
         OpenGTAGS \/ OpenGRTAGS \/ DeleteTags \/ (\E p \in Paths : AddTags(p))
           \/ CloseGTAGS \/ CloseGRTAGS
  PROVE  EditsInv'
  <1> USE DEF Updating
  <1>0. /\ Protocol /\ GPP!IInv /\ Typed /\ InSync /\ IdsClean /\ Clocks /\ Inspected
        /\ \A p \in Paths : db.p2f[p] # NoRec => db.p2f[p].fid \in Fids
        /\ gtop.GTAGS \in Tags /\ gtags # NoFile /\ deletelist \subseteq Paths
    BY GpathFacts, BaseFacts
       DEF Base, EditsInv, Typed, FilesExist, OpenGTAGS, OpenGRTAGS, DeleteTags, AddTags,
           CloseGTAGS, CloseGRTAGS
  <1>a. /\ UNCHANGED <<text, mtime, lang, clock, torn, unread, single, since, deletelist,
                       addlist_other, deleteset, findset, start, torn>>
        /\ pc' \in {"open_GRTAGS_MODIFY", "delete", "add", "close_GRTAGS_MODIFY", "paths"}
    BY DEF OpenGTAGS, OpenGRTAGS, DeleteTags, AddTags, CloseGTAGS, CloseGRTAGS,
       tree, lists, history
  <1>b. \A q \in Paths : /\ Old(q)' <=> Old(q)
                         /\ Source(q)' <=> Source(q)
    BY <1>a DEF Old, Source, Exists
  <1>1. CASE OpenGTAGS \/ OpenGRTAGS
    <2>1. /\ UNCHANGED <<gtags, gtagsMtime, blind, addlist>>
          /\ \/ /\ pc = "decide" /\ pc' = "open_GRTAGS_MODIFY" /\ gtop'.GTAGS = gtags
             \/ /\ pc = "open_GRTAGS_MODIFY" /\ pc' = "delete" /\ gtop'.GTAGS = gtop.GTAGS
          /\ GP!gpath_open(2)
      BY <1>1 DEF OpenGTAGS, OpenGRTAGS, tagFiles, lists, history
    <2>2. db' = db /\ disk' = disk
      BY <1>0, <2>1, GpathQuiet DEF Protocol
    <2>3. Clocks'
      BY <1>0, <1>a, <2>1 DEF Clocks
    <2>4. SourceTags(gtop.GTAGS)' /\ SourceTags(gtags)'
      BY <1>0, <1>a, <2>1 DEF EditsInv, SourceTags
    <2>5. Inspected'
      BY <1>0, <1>a, <1>b, <2>1, <2>2 DEF Inspected, Known
    <2>6. FilesSeen => FilesSeen'
      BY <1>a, <1>b, <2>1, <2>2 DEF FilesSeen, Seen, Right, Known
    <2>7. ~ torn /\ pc' = "delete" => gtop'.GTAGS = gtags' /\ gtags'.ok
      BY <1>0, <2>1 DEF InSync
    <2> QED BY <1>a, <2>1, <2>3, <2>4, <2>5, <2>6, <2>7 DEF EditsInv
  <1>2. CASE DeleteTags
    <2>1. /\ pc = "delete" /\ pc' = "add"
          /\ UNCHANGED <<gtags, gtagsMtime, blind, addlist, db, disk>>
          /\ gtop'.GTAGS = gtags_delete(gtop.GTAGS, deleteset)
      BY <1>2 DEF DeleteTags, tagFiles, lists, history, gpath
    <2>2. Clocks'
      BY <1>0, <1>a, <2>1 DEF Clocks
    <2>3. SourceTags(gtop'.GTAGS)
      BY <2>1, DeleteSource DEF EditsInv
    <2>4. SourceTags(gtop.GTAGS)' /\ SourceTags(gtags)'
      BY <1>0, <1>a, <2>1, <2>3 DEF EditsInv, SourceTags
    <2>5. Inspected'
      BY <1>0, <1>a, <1>b, <2>1 DEF Inspected, Known
    <2>6. FilesSeen => FilesSeen'
      BY <1>a, <1>b, <2>1 DEF FilesSeen, Seen, Right, Known
    <2>7. ASSUME ~ torn, NEW p \in Paths, Old(p), Source(p), Known(db, p), p \notin addlist
          PROVE  \/ gtop'.GTAGS.rec[db.p2f[p].fid] = << [path |-> p, ver |-> text[p]] >>
                 \/ mtime[p] \in blind[p]
      <3>1. gtags.ok /\ gtop.GTAGS = gtags
        BY <2>1, <2>7 DEF EditsInv
      <3>2. disk # NoFile /\ db = disk
        <4>1. opened > 0 /\ mode = 2
          BY <1>0, <2>1 DEF Protocol
        <4>2. disk # NoFile
          BY <1>0, <4>1, GpathFacts, Zenon
        <4> QED BY <1>0, <2>1, <4>2 DEF Inspected
      <3>3. Right(gtags, db, p) \/ gtagsMtime < mtime[p] \/ mtime[p] \in blind[p]
        BY <1>0, <2>7, <3>1, <3>2 DEF EditsInv, FilesSeen, Seen
      <3>4. ~ (gtagsMtime < mtime[p]) /\ db.p2f[p].fid \notin deleteset
        BY <1>0, <2>1, <2>7 DEF Inspected, Clocks, Source
      <3>5. gtop'.GTAGS.rec[db.p2f[p].fid] = gtags.rec[db.p2f[p].fid]
        BY <1>0, <2>1, <2>7, <3>1, <3>4 DEF gtags_delete, Known
      <3> QED BY <3>3, <3>4, <3>5 DEF Right
    <2>8. ~ torn => \A p \in Paths : Old(p)' /\ Source(p)' /\ Known(db, p)' =>
            p \in addlist' \/ Right(gtop.GTAGS, db, p)' \/ mtime'[p] \in blind'[p]
      BY <1>a, <1>b, <2>1, <2>7 DEF Right, Known
    <2> QED BY <1>a, <2>1, <2>2, <2>4, <2>5, <2>6, <2>8 DEF EditsInv
  <1>3. ASSUME NEW p \in Paths, AddTags(p) PROVE EditsInv'
    <2>1. /\ pc = "add" /\ pc' = "add" /\ p \in addlist /\ addlist' = addlist \ {p}
          /\ UNCHANGED <<gtags, gtagsMtime, blind>>
          /\ ParseInto(p) /\ opened > 0 /\ created = FALSE
      BY <1>0, <1>3 DEF AddTags, tagFiles, history, Protocol
    <2>2. /\ GP!gpath_put(p, "source") /\ "source" \in GP!Types
          /\ gtop'.GTAGS = gtags_put(gtop.GTAGS, FidOf(p), p)
      BY <2>1 DEF ParseInto, GP!Types
    <2>3. FidOf(p) \in Fids /\ disk' = disk
      BY <1>0, <2>1, <2>2, PutFid
    <2>4. \A q \in Paths : q # p =>
            /\ db'.p2f[q] = db.p2f[q]
            /\ db.p2f[q] # NoRec => db.p2f[q].fid \in Fids /\ db.p2f[q].fid # FidOf(p)
      BY <1>0, <2>1, <2>2, PutPath
    <2>5. db.p2f[p] # NoRec => db' = db
      BY <2>1, <2>2 DEF GP!gpath_put, GP!gpathVars, GP!gpath_path2fid
    <2>6. Clocks'
      BY <1>0, <1>a, <2>1 DEF Clocks
    <2>7. SourceTags(gtop'.GTAGS)
      BY <1>0, <2>2, <2>3, PutSource, BaseFacts DEF EditsInv
    <2>8. SourceTags(gtop.GTAGS)' /\ SourceTags(gtags)'
      BY <1>0, <1>a, <2>1, <2>7 DEF EditsInv, SourceTags
    <2>9. ASSUME NEW q \in Paths, Old(q), Known(disk, q)
          PROVE  db'.p2f[q] = disk.p2f[q]
      BY <1>0, <2>1, <2>4, <2>5, <2>9 DEF Inspected, Known
    <2>10. Inspected'
      BY <1>0, <1>a, <1>b, <2>1, <2>3, <2>9 DEF Inspected, Known
    <2>11. FilesSeen => FilesSeen'
      BY <1>a, <1>b, <2>1, <2>3 DEF FilesSeen, Seen, Right, Known
    <2>12. ASSUME ~ torn, NEW q \in Paths, Old(q), Source(q), db'.p2f[q] # NoRec,
                  q \notin addlist'
           PROVE  \/ gtop'.GTAGS.rec[db'.p2f[q].fid] = << [path |-> q, ver |-> text[q]] >>
                  \/ mtime[q] \in blind[q]
      <3>1. /\ Same(gtop.GTAGS, gtop.GRTAGS) /\ Memory(gtop.GTAGS)
            /\ db.p2f[p] # NoRec => gtop.GTAGS.rec[db.p2f[p].fid] = <<>>
        BY <1>0, <2>1, <2>12 DEF InSync, IdsClean, Cleared
      <3>2. CASE q = p
        <4>1. lang[p] = "source"
          BY <2>12, <3>2 DEF Source
        <4> QED BY <1>0, <2>1, <3>1, <3>2, <4>1, ParsedRight
      <3>3. CASE q # p
        <4>1. /\ q \notin addlist /\ Known(db, q) /\ db'.p2f[q] = db.p2f[q]
          BY <2>1, <2>4, <2>12, <3>3 DEF Known
        <4>2. Right(gtop.GTAGS, db, q) \/ mtime[q] \in blind[q]
          BY <2>1, <2>12, <4>1 DEF EditsInv
        <4>3. gtop'.GTAGS.rec[db.p2f[q].fid] = gtop.GTAGS.rec[db.p2f[q].fid]
          BY <1>0, <2>1, <2>4, <3>1, <3>3, <4>1, ParseSame DEF Known
        <4> QED BY <4>1, <4>2, <4>3 DEF Right
      <3> QED BY <3>2, <3>3
    <2>13. ~ torn => \A q \in Paths : Old(q)' /\ Source(q)' /\ Known(db, q)' =>
             q \in addlist' \/ Right(gtop.GTAGS, db, q)' \/ mtime'[q] \in blind'[q]
      BY <1>a, <1>b, <2>1, <2>12 DEF Right, Known
    <2> QED BY <1>a, <2>1, <2>6, <2>8, <2>10, <2>11, <2>13 DEF EditsInv
  <1>4. CASE CloseGTAGS
    <2>1. /\ pc = "add" /\ pc' = "close_GRTAGS_MODIFY" /\ addlist = {}
          /\ gtags' = gtop.GTAGS /\ gtagsMtime' = clock /\ gtop' = gtop /\ addlist' = addlist
          /\ blind' = Blinded /\ GP!gpath_close /\ opened = 3
      BY <1>0, <1>4 DEF CloseGTAGS, lists, Protocol
    <2>2. db' = db /\ disk' = disk
      BY <2>1, GpathQuiet
    <2>3. \A p \in Paths : blind'[p] = blind[p] \cup (start .. clock)
      BY <1>0, <2>1 DEF Blinded, Clocks
    <2>4. Clocks'
      <3>1. clock \in start .. clock
        BY <1>0, BaseFacts DEF Clocks
      <3> QED BY <1>0, <1>a, <2>1, <2>3, <3>1, BaseFacts DEF Clocks
    <2>5. SourceTags(gtop.GTAGS)' /\ SourceTags(gtags)'
      BY <1>a, <2>1 DEF EditsInv, SourceTags
    <2>6. Inspected'
      BY <1>0, <1>a, <1>b, <2>1, <2>2 DEF Inspected, Known
    <2>7. ASSUME ~ torn, NEW p \in Paths, Source(p), Known(db, p), Old(p)
          PROVE  Right(gtop.GTAGS, db, p) \/ mtime[p] \in blind'[p]
      BY <2>1, <2>3, <2>7 DEF EditsInv
    <2>8. \A p \in Paths : Source(p) /\ ~ Old(p) => mtime[p] \in blind'[p]
      BY <1>0, <2>3, BaseFacts DEF Old, Source, Clocks
    <2>9. ~ torn => FilesSeen'
      <3>1. ASSUME ~ torn, NEW p \in Paths, Source(p), Known(disk, p)
            PROVE  Right(gtop.GTAGS, disk, p) \/ mtime[p] \in blind'[p]
        <4>1. CASE Old(p)
          <5>1. db.p2f[p] = disk.p2f[p]
            BY <1>0, <2>1, <3>1, <4>1 DEF Inspected
          <5> QED BY <2>7, <3>1, <4>1, <5>1 DEF Right, Known
        <4> QED BY <2>8, <3>1, <4>1
      <3> QED BY <1>a, <1>b, <2>1, <2>2, <3>1 DEF FilesSeen, Seen, Right, Known
    <2>10. ~ torn => Done(gtags, db)'
      BY <1>a, <1>b, <2>1, <2>2, <2>7 DEF Done, Right, Known
    <2> QED BY <1>a, <2>1, <2>4, <2>5, <2>6, <2>9, <2>10 DEF EditsInv
  <1>5. CASE CloseGRTAGS
    <2>1. /\ pc = "close_GRTAGS_MODIFY" /\ pc' = "paths"
          /\ UNCHANGED <<gtags, gtagsMtime, gtop, addlist, blind>>
          /\ GP!gpath_close /\ opened = 2
      BY <1>0, <1>5 DEF CloseGRTAGS, lists, history, Protocol
    <2>2. db' = db /\ disk' = disk
      BY <2>1, GpathQuiet
    <2>3. Clocks'
      BY <1>0, <1>a, <2>1 DEF Clocks
    <2>4. SourceTags(gtop.GTAGS)' /\ SourceTags(gtags)'
      BY <1>0, <1>a, <2>1 DEF EditsInv, SourceTags
    <2>5. Inspected'
      BY <1>0, <1>a, <1>b, <2>1, <2>2 DEF Inspected, Known
    <2>6. /\ FilesSeen => FilesSeen'
          /\ Done(gtags, db) => Done(gtags, db)'
      BY <1>a, <1>b, <2>1, <2>2 DEF FilesSeen, Seen, Done, Right, Known
    <2> QED BY <1>a, <2>1, <2>3, <2>4, <2>5, <2>6 DEF EditsInv
  <1> QED BY <1>1, <1>2, <1>3, <1>4, <1>5

\* Then GPATH follows: the paths that go are of files that are not settled,
\* the paths that come are not of sources.
LEMMA EditsPaths ==
  ASSUME Base, EditsInv,
         (\E p \in Paths : DeletePath(p) \/ PutOther(p)) \/ Touch \/ CloseGPATH
  PROVE  EditsInv'
  <1> USE DEF Updating
  <1>0. /\ Protocol /\ GPP!IInv /\ Typed /\ Clocks /\ Inspected /\ gtags # NoFile
        /\ opened = 1 /\ created = FALSE /\ mode = 2 /\ deletelist \subseteq Paths
    BY BaseFacts DEF Base, EditsInv, Typed, FilesExist, DeletePath, PutOther, Touch, CloseGPATH,
       Protocol, Creating, Ending
  <1>a. /\ UNCHANGED <<text, mtime, lang, clock, gtags, gtop, torn, unread, single, since,
                       addlist, deleteset, findset, start, torn>>
        /\ pc' \in {"paths", "close", "exit"}
    BY DEF DeletePath, PutOther, Touch, CloseGPATH, tree, lists, history, tagFiles
  <1>b. \A q \in Paths : /\ Old(q)' <=> Old(q)
                         /\ Source(q)' <=> Source(q)
    BY <1>a DEF Old, Source, Exists
  <1>c. SourceTags(gtop.GTAGS)' /\ SourceTags(gtags)'
    BY <1>0, <1>a DEF EditsInv, SourceTags
  <1>1. ASSUME NEW p \in Paths, DeletePath(p) PROVE EditsInv'
    <2>1. /\ pc = "paths" /\ pc' = "paths" /\ p \in deletelist
          /\ deletelist' = deletelist \ {p}
          /\ UNCHANGED <<addlist_other, gtagsMtime, blind, disk>>
          /\ GP!gpath_delete(p)
      BY <1>1 DEF DeletePath, tagFiles, history, GP!gpath_delete
    <2>2. \A q \in Paths : q # p => db'.p2f[q] = db.p2f[q]
      BY <2>1, BaseFacts DEF GP!gpath_delete, GP!WithoutFile
    <2>3. ~ Old(p)
      BY <1>0, <2>1 DEF Inspected
    <2>4. Clocks'
      BY <1>0, <1>a, <2>1 DEF Clocks
    <2>5. \A q \in Paths : Old(q) => db'.p2f[q] = db.p2f[q]
      BY <2>2, <2>3
    <2>6. deletelist' \subseteq deletelist /\ deletelist \subseteq Paths
      BY <2>1, BaseFacts
    <2>7. Inspected'
      BY <1>0, <1>a, <1>b, <2>1, <2>5, <2>6 DEF Inspected, Known
    <2>8. /\ FilesSeen => FilesSeen'
          /\ Done(gtags, db) => Done(gtags, db)'
      BY <1>a, <1>b, <2>1, <2>5 DEF FilesSeen, Seen, Done, Right, Known
    <2> QED BY <1>a, <1>c, <2>1, <2>4, <2>7, <2>8 DEF EditsInv
  <1>2. ASSUME NEW p \in Paths, PutOther(p) PROVE EditsInv'
    <2>1. /\ pc = "paths" /\ pc' = "paths" /\ p \in addlist_other
          /\ addlist_other' = addlist_other \ {p}
          /\ UNCHANGED <<deletelist, gtagsMtime, blind, disk>>
          /\ GP!gpath_put(p, "other") /\ "other" \in GP!Types
      BY <1>2 DEF PutOther, tagFiles, history, GP!gpath_put, GP!gpathVars, GP!Types
    <2>2. \A q \in Paths : q # p => db'.p2f[q] = db.p2f[q]
      <3>1. opened > 0
        BY <1>0
      <3> QED BY <1>0, <2>1, <3>1, PutPath
    <2>3. ~ Source(p)
      BY <1>0, <2>1 DEF Inspected, Source
    <2>4. Clocks'
      BY <1>0, <1>a, <2>1 DEF Clocks
    <2>5. db.p2f[p] # NoRec => db' = db
      BY <1>0, <2>1 DEF GP!gpath_put, GP!gpathVars, GP!gpath_path2fid
    <2>6. ASSUME NEW q \in Paths, Old(q), Known(disk, q)
          PROVE  db'.p2f[q] = disk.p2f[q]
      BY <1>0, <2>1, <2>2, <2>5, <2>6 DEF Inspected, Known
    <2>7. Inspected'
      BY <1>0, <1>a, <1>b, <2>1, <2>6 DEF Inspected, Known
    <2>8. \A q \in Paths : Source(q) => db'.p2f[q] = db.p2f[q]
      BY <2>2, <2>3
    <2>9. /\ FilesSeen => FilesSeen'
          /\ Done(gtags, db) => Done(gtags, db)'
      BY <1>a, <1>b, <2>1, <2>8 DEF FilesSeen, Seen, Done, Right, Known
    <2> QED BY <1>a, <1>c, <2>1, <2>4, <2>7, <2>9 DEF EditsInv
  <1>3. CASE Touch
    <2>1. /\ pc = "paths" /\ pc' = "close" /\ gtagsMtime' = clock /\ blind' = Blinded
          /\ UNCHANGED <<addlist_other, deletelist, db, disk>>
      BY <1>3 DEF Touch, lists, gpath
    <2>2. \A p \in Paths : blind'[p] = blind[p] \cup (start .. clock)
      BY <1>0, <2>1 DEF Blinded, Clocks
    <2>3. Clocks'
      <3>1. clock \in start .. clock
        BY <1>0, BaseFacts DEF Clocks
      <3> QED BY <1>0, <1>a, <2>1, <2>2, <3>1, BaseFacts DEF Clocks
    <2>4. Inspected'
      BY <1>0, <1>a, <1>b, <2>1, BaseFacts DEF Inspected, Known
    <2>5. ASSUME ~ torn, NEW p \in Paths, Source(p), Known(db, p)
          PROVE  Right(gtags, db, p) \/ mtime[p] \in blind'[p]
      <3>1. CASE Old(p)
        BY <2>1, <2>2, <2>5, <3>1 DEF EditsInv, Done
      <3>2. CASE ~ Old(p)
        BY <1>0, <2>2, <2>5, <3>2, BaseFacts DEF Old, Source, Clocks
      <3> QED BY <3>1, <3>2
    <2>6. ASSUME ~ torn, NEW p \in Paths, Source(p), Known(disk, p)
          PROVE  Right(gtags, disk, p) \/ mtime[p] \in blind'[p]
      <3>1. CASE Old(p)
        <4>1. db.p2f[p] = disk.p2f[p]
          BY <1>0, <2>1, <2>6, <3>1 DEF Inspected
        <4> QED BY <2>5, <2>6, <4>1 DEF Right, Known
      <3>2. CASE ~ Old(p)
        BY <1>0, <2>2, <2>6, <3>2, BaseFacts DEF Old, Source, Clocks
      <3> QED BY <3>1, <3>2
    <2>7. ~ torn => Seen(gtags, db)' /\ FilesSeen'
      BY <1>a, <1>b, <2>1, <2>5, <2>6 DEF FilesSeen, Seen, Right, Known
    <2> QED BY <1>a, <1>c, <2>1, <2>3, <2>4, <2>7 DEF EditsInv
  <1>4. CASE CloseGPATH
    <2>1. /\ pc = "close" /\ pc' = "exit" /\ UNCHANGED <<addlist_other, gtagsMtime, blind>>
          /\ GP!gpath_close
      BY <1>4 DEF CloseGPATH, lists, history, tagFiles
    <2>2. disk'.p2f = db.p2f
      BY <1>0, <2>1 DEF GP!gpath_close, GP!DbMode, GP!WithNextkey
    <2>3. Clocks'
      BY <1>0, <1>a, <2>1 DEF Clocks
    <2>4. Inspected'
      BY <1>0, <1>a, <2>1 DEF Inspected
    <2>5. Seen(gtags, db) => FilesSeen'
      BY <1>a, <1>b, <2>1, <2>2 DEF FilesSeen, Seen, Right, Known
    <2> QED BY <1>a, <1>c, <2>1, <2>3, <2>4, <2>5 DEF EditsInv
  <1> QED BY <1>1, <1>2, <1>3, <1>4

\* No step of gtags, of the edits or of a kill leaves the invariant.
LEMMA EditsStep ==
  ASSUME Base, EditsInv, EditsNext \/ UNCHANGED vars
  PROVE  EditsInv'
  <1>1. CASE UNCHANGED vars
    BY <1>1, EditsWrite
  <1>2. ASSUME NEW p \in Paths, Reconfigure(p), UNCHANGED reconfs PROVE FALSE
    <2>1. reconfs \in Nat
      BY GtagsAssumption DEF Base, Typed, TypeOK, HistoryType
    <2> QED BY <1>2, <2>1 DEF Reconfigure
  <1>3. ASSUME NEW p \in Paths, UpdateOne(p), pc = "idle" => UNCHANGED single PROVE FALSE
    BY <1>3, GtagsAssumption DEF EditsInv, Clocks, UpdateOne, StartUpdate
  <1>4. CASE EditsNext
    BY <1>2, <1>3, <1>4, EditsWrite, EditsEnd, EditsCreate, EditsInspect, EditsTags,
       EditsPaths
       DEF EditsNext, Next, Environment, Incremental, WholeUpdate
  <1> QED BY <1>1, <1>4

\* At first there are no tags.
LEMMA EditsInit == Init => EditsInv
  <1> SUFFICES ASSUME Init PROVE EditsInv
    OBVIOUS
  <1>1. Clocks
    BY DEF Init, Clocks, Updating
  <1>2. Inspected
    BY DEF Init, Inspected, Updating
  <1>3. SourceTags(gtop.GTAGS)
    BY DEF Init, SourceTags, Closed, NewFile, NoTags
  <1> QED BY <1>1, <1>2, <1>3 DEF Init, EditsInv, FilesSeen

\* Both kinds of trouble happen to gtags as it is.
LEMMA AllIsGtags == AllSpec => Spec
  <1>1. AllInit => Init
    BY DEF AllInit
  <1>2. [AllNext]_<<vars, trouble>> => [Next]_vars
    BY DEF AllNext, EditsNext, UserNext
  <1> QED BY <1>1, <1>2, PTL DEF AllSpec, Spec

\* An empty list of records.
LEMMA EmptyRecords ==
  ASSUME NEW S, NEW s \in Seq(S), Len(s) <= 1, 1 \notin DOMAIN s
  PROVE  s = <<>>
OBVIOUS

\* What the files hold in a state where nobody is at work.
LEMMA SeenIsEnough ==
  ASSUME Base, EditsInv, NoForeignTags
  PROVE  NoSilentStaleness
  <1> SUFFICES ASSUME Usable, ~ torn, NEW p \in Paths
               PROVE  Fresh(p) \/ Detectable(p) \/ InBlindSecond(p)
    BY DEF NoSilentStaleness
  <1>1. /\ gtags # NoFile /\ grtags # NoFile /\ disk # NoFile /\ gtags.ok /\ grtags.ok
        /\ pc = "idle"
    BY DEF Usable, TagFilesExist, GP!HasFile
  <1>2. Same(gtags, grtags)
    BY <1>1 DEF Base, InSync, FilesSame, BothEnded
  <1>3. CASE ~ Known(disk, p)
    BY <1>3 DEF Known, Fresh, Detectable, Shown
  <1>4. CASE Known(disk, p) /\ ~ Exists(p)
    BY <1>4 DEF Known, Detectable
  <1>5. CASE Known(disk, p) /\ Exists(p)
    <2> DEFINE i == disk.p2f[p].fid
    <2>1. i \in Fids
      BY <1>1, <1>5, GpathRecords DEF Known, Base, Typed, TypeOK
    <2>2. Shown(gtags, p) = gtags.rec[i] /\ Shown(grtags, p) = gtags.rec[i]
      BY <1>2, <1>5, <2>1 DEF Known, Shown, Same
    <2> HIDE DEF i
    <2>3. CASE lang[p] = "source"
      <3>1. Right(gtags, disk, p) \/ gtagsMtime < mtime[p] \/ mtime[p] \in blind[p]
        BY <1>1, <1>5, <2>3 DEF EditsInv, FilesSeen, Seen, Source
      <3>2. Right(gtags, disk, p) => Fresh(p)
        BY <1>5, <2>2, <2>3 DEF i, Right, Fresh
      <3> QED BY <1>5, <2>3, <3>1, <3>2 DEF Detectable, InBlindSecond
    <2>4. CASE lang[p] # "source"
      <3>1. gtags.rec[i] \in Seq(TagRec) /\ Len(gtags.rec[i]) <= 1
        <4>1. gtags \in Tags
          BY <1>1 DEF Base, Typed, TypeOK, TagsType
        <4> QED BY <1>2, <2>1, <4>1 DEF Same, Tags
      <3>2. 1 \notin DOMAIN gtags.rec[i]
        <4>1. ASSUME 1 \in DOMAIN gtags.rec[i] PROVE FALSE
          <5>1. gtags.rec[i][1].path = p
            BY <2>2, <4>1 DEF NoForeignTags
          <5>2. lang[gtags.rec[i][1].path] = "source"
            BY <1>1, <2>1, <4>1 DEF EditsInv, SourceTags
          <5> QED BY <2>4, <5>1, <5>2
        <4> QED BY <4>1
      <3>3. gtags.rec[i] = <<>>
        BY <3>1, <3>2, EmptyRecords
      <3> QED BY <2>2, <2>4, <3>3 DEF Fresh
    <2> QED BY <2>3, <2>4
  <1> QED BY <1>3, <1>4, <1>5

\* Whatever the interleaving of edits and kills with the steps of gtags, a file
\* whose tags are out of date is one that the next update will notice, or one
\* written in a second in which an update ran.
THEOREM StalenessSeenCorrect == AllSpec => []StalenessSeen
  <1>1. AllInit => EditsOK
    BY EditsInit DEF AllInit, EditsOK
  <1>2. ASSUME Base, EditsOK, [AllNext]_<<vars, trouble>> PROVE EditsOK'
    BY <1>2, EditsStep DEF AllNext, EditsOK
  <1>3. AllSpec => [](Base /\ NoForeignTags)
    BY AllIsGtags, SpecSync, NoForeignTagsCorrect, PTL DEF Base
  <1>4. Base /\ NoForeignTags /\ EditsOK => StalenessSeen
    BY SeenIsEnough DEF EditsOK, StalenessSeen
  <1> QED BY <1>1, <1>2, <1>3, <1>4, PTL DEF AllSpec
----------------------------------------------------------------------------
\* Both records of a file give the same type.
LEMMA FidType ==
  ASSUME Base, NEW p \in Paths, Known(db, p)
  PROVE  /\ db.p2f[p].fid \in Fids /\ db.f2p[db.p2f[p].fid] # NoRec
         /\ db.f2p[db.p2f[p].fid].path = p
         /\ db.f2p[db.p2f[p].fid].type = db.p2f[p].type
  <1>1. db.p2f[p].fid \in Fids /\ db.f2p[db.p2f[p].fid] # NoRec
    BY GpathFacts DEF Base, Known
  <1>2. db.f2p[db.p2f[p].fid] = [path |-> p, type |-> db.p2f[p].type]
    BY DEF Base, Known, GPP!IInv, GPP!Consistent, GPP!Paired
  <1> QED BY <1>1, <1>2

\* gpath_put keeps the types true to the langmap.
LEMMA TypesPut ==
  ASSUME Base, TypesHold(db), opened > 0, created = FALSE,
         NEW p \in Paths, NEW t \in GP!Types, GP!gpath_put(p, t), lang[p] = t
  PROVE  /\ TypesHold(db')
         /\ FidOf(p) \in Fids /\ db'.f2p[FidOf(p)] # NoRec
         /\ db'.f2p[FidOf(p)].type = t
         /\ \A i \in Fids : i # FidOf(p) => db'.f2p[i] = db.f2p[i]
         /\ db.p2f[p] = NoRec => FidOf(p) = nextkey
         /\ disk' = disk
  <1>0. Protocol /\ GPP!IInv
    BY DEF Base
  <1>1. /\ FidOf(p) \in Fids /\ db'.f2p[FidOf(p)] # NoRec /\ disk' = disk
        /\ \A i \in Fids : i # FidOf(p) => db'.f2p[i] = db.f2p[i]
    BY <1>0, PutFid
  <1>2. CASE Known(db, p)
    <2>1. db' = db /\ FidOf(p) = db.p2f[p].fid
      BY <1>2 DEF Known, GP!gpath_put, GP!gpathVars, GP!gpath_path2fid, FidOf
    <2>2. db.f2p[db.p2f[p].fid].type = db.p2f[p].type
      BY <1>2, FidType
    <2> QED BY <1>1, <1>2, <2>1, <2>2 DEF TypesHold, Known
  <1>3. CASE ~ Known(db, p)
    <2>1. db' = GP!WithFile(db, p, nextkey, t) /\ FidOf(p) = nextkey
      BY <1>3 DEF Known, GP!gpath_put, GP!gpath_path2fid, FidOf
    <2>2. /\ db'.p2f = [db.p2f EXCEPT ![p] = [fid |-> nextkey, type |-> t]]
          /\ db'.f2p = [db.f2p EXCEPT ![nextkey] = [path |-> p, type |-> t]]
      BY <2>1 DEF GP!WithFile
    <2>3. db'.f2p[FidOf(p)].type = t
      BY <1>1, <2>1, <2>2, BaseFacts
    <2>4. TypesHold(db')
      BY <2>2, BaseFacts DEF TypesHold, Known
    <2> QED BY <1>1, <2>1, <2>3, <2>4
  <1> QED BY <1>2, <1>3

\* Without records there is nothing to own, and an empty table has no types.
LEMMA NothingKept ==
  /\ \A d : HasOwner(NewImage, d) /\ HasOwner(NewFile, d)
  /\ TypesHold(GP!EmptyDb) /\ NewFile.ok = FALSE
BY DEF HasOwner, NewImage, NewFile, NoTags, TypesHold, Known, GP!EmptyDb

\* Edits between the runs, the passing of time, and the end of a process.
LEMMA KeptQuiet ==
  ASSUME Base, Kept,
         \/ /\ (\E p \in Paths : Write(p) \/ Remove(p)) \/ Tick \/ UNCHANGED vars
            /\ pc # "idle" => UNCHANGED <<text, mtime>>
         \/ ProcessExit \/ Die
  PROVE  Kept'
  <1>1. CASE /\ (\E p \in Paths : Write(p) \/ Remove(p)) \/ Tick \/ UNCHANGED vars
             /\ pc # "idle" => UNCHANGED <<text, mtime>>
    <2>1. /\ UNCHANGED <<lang, pc, gtop, gtags, disk, db, addlist, addlist_other, deletelist,
                         deleteset, findset>>
          /\ pc = "inspect" => text' = text
      BY <1>1 DEF Write, Remove, Tick, vars, tree, tagFiles, lists, gpath
    <2>2. /\ TypesHold(db) => TypesHold(db)'
          /\ TypesHold(disk) => TypesHold(disk)'
          /\ HasOwner(gtop.GTAGS, db) => HasOwner(gtop.GTAGS, db)'
          /\ HasOwner(gtags, db) => HasOwner(gtags, db)'
          /\ HasOwner(gtags, disk) => HasOwner(gtags, disk)'
          /\ NoTagsOf(gtags) => NoTagsOf(gtags)'
          /\ NoTagsOf(gtop.GTAGS) => NoTagsOf(gtop.GTAGS)'
      BY <2>1 DEF TypesHold, HasOwner, NoTagsOf, Known
    <2> QED BY <2>1, <2>2 DEF Kept, Known, Exists, Updating, Early
  <1>2. CASE ProcessExit \/ Die
    <2>1. /\ pc' = "idle" /\ pc \notin Window
          /\ UNCHANGED <<lang, gtags, disk>> /\ db' = GP!EmptyDb
          /\ addlist' = {} /\ addlist_other' = {} /\ deletelist' = {}
      BY <1>2 DEF ProcessExit, Die, ForgetMemory, GP!Exit, tagFiles, Window
    <2>2. TypesHold(db)' /\ (TypesHold(disk) => TypesHold(disk)')
      BY <2>1, NothingKept DEF TypesHold, Known
    <2>3. HasOwner(gtags, disk) => HasOwner(gtags, disk)'
      BY <2>1 DEF HasOwner
    <2> QED BY <2>1, <2>2, <2>3 DEF Kept, Updating, Early
  <1> QED BY <1>1, <1>2

\* createtags gives every record an owner.
LEMMA KeptCreate ==
  ASSUME Base, torn = FALSE, Kept, Create
  PROVE  Kept'
  <1> USE DEF Creating, Updating, Ending, Early, Window
  <1>0. Protocol /\ GPP!IInv /\ Typed /\ InSync /\ IdsClean /\ TypesHold(db)
    BY DEF Base, Kept
  <1>a. /\ UNCHANGED <<lang, addlist, addlist_other>>
        /\ pc' \in {"open_GRTAGS", "create", "close_GPATH", "close_GRTAGS", "exit"}
    BY DEF Create, CreateGTAGS, CreateGRTAGS, CreateFile, CreateCloseGTAGS,
       CreateCloseGPATH, CreateCloseGRTAGS, lists
  <1>1. CASE CreateGTAGS
    <2>1. pc' = "open_GRTAGS" /\ gtags' = NewFile
      BY <1>1 DEF CreateGTAGS
    <2>2. db' = GP!EmptyDb /\ disk' = GP!EmptyDb
      <3>1. opened = 0 /\ created = FALSE /\ GP!gpath_open(1)
        BY <1>0, <1>1 DEF CreateGTAGS, Protocol
      <3> QED BY <3>1 DEF GP!gpath_open, GP!OpenAgain, GP!OpenCreate, GP!OpenExisting,
                 GP!DbMode
    <2>3. TypesHold(db)' /\ TypesHold(disk)'
      BY <2>2 DEF TypesHold, Known, GP!EmptyDb
    <2> QED BY <1>a, <2>1, <2>3, NothingKept DEF Kept
  <1>2. CASE CreateGRTAGS
    <2>1. /\ pc = "open_GRTAGS" /\ pc' = "create" /\ gtop'.GTAGS = gtop.GTAGS
          /\ gtop.GTAGS = NewImage /\ gtags' = gtags /\ gtags = NewFile
          /\ GP!gpath_open(1)
      BY <1>0, <1>2 DEF CreateGRTAGS, InSync
    <2>2. db' = db /\ disk' = disk
      BY <1>0, <2>1, GpathQuiet DEF Protocol
    <2>3. TypesHold(db)' /\ (TypesHold(disk) => TypesHold(disk)')
      BY <1>0, <1>a, <2>2 DEF TypesHold, Known
    <2>4. HasOwner(gtop.GTAGS, db)'
      BY <2>1 DEF HasOwner, NewImage, NoTags
    <2> QED BY <1>a, <2>1, <2>2, <2>3, <2>4, NothingKept DEF Kept
  <1>3. ASSUME NEW p \in Paths, CreateFile(p) PROVE Kept'
    <2>1. /\ pc = "create" /\ pc' = "create" /\ gtags' = gtags /\ gtags = NewFile
          /\ opened > 0 /\ created = FALSE /\ p \in unread
      BY <1>0, <1>3 DEF CreateFile, InSync, tagFiles, Protocol
    <2>2. /\ Same(gtop.GTAGS, gtop.GRTAGS) /\ Memory(gtop.GTAGS) /\ db.p2f[p] = NoRec
          /\ HasOwner(gtop.GTAGS, db)
      BY <1>0, <2>1 DEF InSync, IdsClean, Kept
    <2>3. CASE UNCHANGED <<gtop, gpath>>
      <3>1. db' = db /\ disk' = disk /\ gtop' = gtop
        BY <2>3 DEF gpath
      <3>2. TypesHold(db)' /\ (TypesHold(disk) => TypesHold(disk)')
        BY <1>0, <1>a, <3>1 DEF TypesHold, Known
      <3>3. HasOwner(gtop.GTAGS, db)'
        BY <2>2, <3>1 DEF HasOwner
      <3> QED BY <1>a, <2>1, <3>1, <3>2, <3>3, NothingKept DEF Kept
    <2>4. ASSUME NEW t \in GP!Types, lang[p] = t, GP!gpath_put(p, t),
                 \/ gtop' = gtop /\ t = "other"
                 \/ ParseInto(p) /\ t = "source"
          PROVE  Kept'
      <3>1. /\ TypesHold(db') /\ disk' = disk
            /\ FidOf(p) = nextkey /\ FidOf(p) \in Fids
            /\ db'.f2p[FidOf(p)] # NoRec /\ db'.f2p[FidOf(p)].type = t
            /\ \A i \in Fids : i # FidOf(p) => db'.f2p[i] = db.f2p[i]
        BY <1>0, <2>1, <2>2, <2>4, TypesPut
      <3>2. \A i \in Fids : i # FidOf(p) => gtop'.GTAGS.rec[i] = gtop.GTAGS.rec[i]
        BY <1>0, <2>1, <2>2, <2>4, ParseSame
      <3>3. t = "other" => gtop'.GTAGS.rec[FidOf(p)] = <<>>
        <4>1. nextkey \in Nat /\ ~ (nextkey < nextkey)
          BY <1>0, <3>1, GpathAssumption DEF Fids
        <4> QED BY <2>2, <2>4, <3>1, <4>1 DEF Memory, InMemory, Below
      <3>4. TypesHold(db)' /\ (TypesHold(disk) => TypesHold(disk)')
        BY <1>a, <3>1 DEF TypesHold, Known
      <3>5. HasOwner(gtop.GTAGS, db)'
        BY <2>2, <2>4, <3>1, <3>2, <3>3 DEF HasOwner, GP!Types
      <3> QED BY <1>a, <2>1, <3>1, <3>4, <3>5, NothingKept DEF Kept
    <2> QED BY <1>3, <2>3, <2>4 DEF CreateFile, ParseInto, GP!Types
  <1>4. CASE CreateCloseGTAGS
    <2>1. /\ pc = "create" /\ pc' = "close_GPATH" /\ gtags' = gtop.GTAGS
          /\ GP!gpath_close
      BY <1>4 DEF CreateCloseGTAGS
    <2>2. db' = db /\ disk' = disk /\ disk = GP!EmptyDb
      <3>1. opened = 2 /\ mode = 1 /\ created = FALSE
        BY <1>0, <2>1 DEF Protocol
      <3>2. opened > 0
        BY <3>1
      <3>3. disk = GP!EmptyDb
        BY <1>0, <3>1, <3>2, GpathFacts, Zenon
      <3> QED BY <1>0, <2>1, <3>1, <3>3, GpathQuiet
    <2>3. TypesHold(db)' /\ (TypesHold(disk) => TypesHold(disk)')
      BY <1>0, <1>a, <2>2 DEF TypesHold, Known
    <2>4. HasOwner(gtags, db)'
      BY <2>1, <2>2 DEF Kept, HasOwner
    <2>5. disk'.next = 0
      BY <2>2 DEF GP!EmptyDb
    <2> QED BY <1>a, <2>1, <2>2, <2>3, <2>4, <2>5 DEF Kept
  <1>5. CASE CreateCloseGPATH
    <2>1. /\ pc = "close_GPATH" /\ pc' = "close_GRTAGS" /\ gtags' = gtags
          /\ GP!gpath_close
      BY <1>5 DEF CreateCloseGPATH, tagFiles
    <2>2. db' = GP!EmptyDb /\ disk'.p2f = db.p2f /\ disk'.f2p = db.f2p
      <3>1. opened = 1 /\ mode = 1 /\ created = FALSE
        BY <1>0, <2>1 DEF Protocol
      <3> QED BY <2>1, <3>1 DEF GP!gpath_close, GP!DbMode, GP!WithNextkey
    <2>3. TypesHold(db)' /\ TypesHold(disk)'
      BY <1>0, <1>a, <2>2 DEF TypesHold, Known, GP!EmptyDb
    <2>4. HasOwner(gtags, disk)'
      BY <2>1, <2>2 DEF Kept, HasOwner
    <2> QED BY <1>a, <2>1, <2>3, <2>4 DEF Kept
  <1>6. CASE CreateCloseGRTAGS
    <2>1. /\ pc = "close_GRTAGS" /\ pc' = "exit" /\ gtags' = gtags
          /\ db' = db /\ disk' = disk
      BY <1>6 DEF CreateCloseGRTAGS, gpath
    <2>2. TypesHold(db)' /\ (TypesHold(disk) => TypesHold(disk)')
      BY <1>0, <1>a, <2>1 DEF TypesHold, Known
    <2>3. HasOwner(gtags, disk) => HasOwner(gtags, disk)'
      BY <2>1 DEF HasOwner
    <2> QED BY <1>a, <2>1, <2>2, <2>3 DEF Kept
  <1> QED BY <1>1, <1>2, <1>3, <1>4, <1>5, <1>6 DEF Create

\* The inspection lists the files that are gone, and every one of them that has
\* tags is listed for deletion from the tag files.
LEMMA KeptInspect ==
  ASSUME Base, torn = FALSE, Kept,
         \/ UpdateAll \/ \E p \in Paths : UpdateOne(p) \/ Inspect(p)
         \/ MakeDeleteList \/ SkipTags
  PROVE  Kept'
  <1> USE DEF Updating, Early, Window
  <1>0. Protocol /\ GPP!IInv /\ Typed /\ InSync /\ TypesHold(db)
    BY DEF Base, Kept
  <1>1. CASE UpdateAll \/ \E p \in Paths : UpdateOne(p)
    <2>1. /\ pc = "idle" /\ pc' \in {"inspect", "decide", "close"}
          /\ UNCHANGED <<lang, gtags, gtop, deletelist>> /\ GP!gpath_open(2)
          /\ gtags # NoFile /\ gtags.ok /\ disk # NoFile /\ opened = 0
          /\ addlist = {} /\ deletelist = {}
      BY <1>0, <1>1 DEF UpdateAll, UpdateOne, StartUpdate, tagFiles, TagFilesExist,
         GP!HasFile, Protocol, InSync, Kept
    <2>2. db' = disk /\ disk' = disk /\ disk.next # 0
      BY <2>1, GpathQuiet
    <2>3. TypesHold(db)' /\ TypesHold(disk)'
      BY <2>1, <2>2 DEF Kept, TypesHold, Known
    <2>4. HasOwner(gtags, db)' /\ HasOwner(gtags, disk)'
      BY <2>1, <2>2 DEF Kept, HasOwner
    <2>5. /\ pc' = "inspect" => addlist' = {}
          /\ \A p \in addlist_other' : lang[p] = "other"
          /\ \A p \in addlist' : lang[p] = "source"
      <3>1. CASE UpdateAll
        BY <2>1, <3>1 DEF UpdateAll, Kept
      <3>2. ASSUME NEW p \in Paths, UpdateOne(p) 
            PROVE  /\ pc' # "inspect"
                   /\ \A q \in addlist_other' : lang[q] = "other"
                   /\ \A q \in addlist' : lang[q] = "source"
        <4>1. lang[p] # "other" => lang[p] = "source"
          BY <1>0, BaseFacts DEF GP!Types
        <4>2. disk.p2f[p] # NoRec => disk.p2f[p].type = lang[p]
          BY <2>1 DEF Kept, TypesHold, Known
        <4> QED BY <2>1, <3>2, <4>1, <4>2 DEF UpdateOne, Kept
      <3> QED BY <1>1, <3>1, <3>2
    <2> QED BY <2>1, <2>3, <2>4, <2>5 DEF Kept
  <1>2. CASE (\E p \in Paths : Inspect(p)) \/ MakeDeleteList \/ SkipTags
    <2>0. /\ UNCHANGED <<lang, text, gtags, gtop, db, disk>>
          /\ pc \in {"inspect", "decide"} /\ pc' \in {"inspect", "decide", "paths", "close"}
      BY <1>2 DEF Inspect, MakeDeleteList, SkipTags, tagFiles, gpath, tree
    <2>a. /\ TypesHold(db)' /\ (TypesHold(disk) => TypesHold(disk)')
          /\ HasOwner(gtags, db)'
          /\ HasOwner(gtags, disk) => HasOwner(gtags, disk)'
      BY <1>0, <2>0 DEF TypesHold, Known, HasOwner, Kept
    <2>1. ASSUME NEW p \in Paths, Inspect(p) PROVE Kept'
      <3>1. /\ pc = "inspect" /\ pc' = "inspect" /\ deletelist' = deletelist
            /\ findset \subseteq findset'
            /\ \A q \in addlist' : q \in addlist \/ (q = p /\ lang[p] = "source" /\ Exists(p))
            /\ \A q \in addlist_other' : q \in addlist_other \/ (q = p /\ lang[p] # "source")
            /\ Exists(p) /\ Known(db, p) => db.p2f[p].fid \in findset'
        BY <2>1 DEF Inspect, GP!gpath_path2fid, Known
      <3>2. \A q \in addlist_other' : lang'[q] = "other"
        BY <2>0, <2>1, <3>1, BaseFacts DEF Kept, GP!Types
      <3>3. \A q \in addlist' : /\ lang'[q] = "source" /\ Exists(q)'
                                /\ Known(db, q)' => db.p2f[q].fid \in findset'
        BY <2>0, <3>1 DEF Kept, Exists, Known
      <3>4. deletelist' = {}
        BY <3>1 DEF Kept
      <3> QED BY <2>0, <2>a, <3>1, <3>2, <3>3, <3>4 DEF Kept
    <2>2. CASE MakeDeleteList
      <3>1. /\ pc = "inspect" /\ pc' = "decide" /\ UNCHANGED <<addlist, addlist_other>>
            /\ deletelist' = {db.f2p[i].path : i \in Gone}
            /\ deleteset' = deleteset \cup {i \in Gone : db.f2p[i].type = "source"}
        BY <2>2 DEF MakeDeleteList, GP!gpath_fid2path
      <3>2. ASSUME NEW i \in Gone
            PROVE  LET p == db.f2p[i].path
                   IN /\ Known(db, p) /\ p \notin addlist
                      /\ db.p2f[p].type = "source" => db.p2f[p].fid \in deleteset'
        <4> DEFINE p == db.f2p[i].path
        <4>1. i \in Fids /\ db.f2p[i] # NoRec /\ (i \notin findset \/ ~ Exists(p))
          BY DEF Gone, GP!gpath_fid2path
        <4>2. /\ Known(db, p) /\ db.p2f[p].fid = i
              /\ db.p2f[p].type = db.f2p[i].type
          BY <4>1, PairedFacts DEF Known
        <4>3. p \notin addlist
          BY <3>1, <4>1, <4>2 DEF Kept
        <4> QED BY <3>1, <4>2, <4>3
      <3>3. \A p \in deletelist' : /\ Known(db, p) /\ p \notin addlist
                                   /\ db.p2f[p].type = "source" =>
                                        db.p2f[p].fid \in deleteset'
        BY <3>1, <3>2
      <3> QED BY <2>0, <2>a, <3>1, <3>3 DEF Kept, Known
    <2>3. CASE SkipTags
      <3>1. /\ pc = "decide" /\ pc' \in {"paths", "close"} /\ deleteset = {}
            /\ UNCHANGED <<addlist, addlist_other, deletelist, deleteset>>
        BY <2>3 DEF SkipTags, TagsChange, lists
      <3>2. NoTagsOf(gtags)
        <4>1. ASSUME NEW p \in deletelist PROVE gtags.rec[db.p2f[p].fid] = <<>>
          <5>1. p \in Paths /\ Known(db, p) /\ db.p2f[p].type # "source"
            BY <3>1, BaseFacts DEF Kept
          <5> QED BY <3>1, <5>1, FidType DEF Kept, HasOwner
        <4> QED BY <4>1 DEF NoTagsOf
      <3>3. NoTagsOf(gtags)'
        BY <2>0, <3>1, <3>2 DEF NoTagsOf
      <3> QED BY <2>0, <2>a, <3>1, <3>3 DEF Kept, Known
    <2> QED BY <1>2, <2>1, <2>2, <2>3
  <1> QED BY <1>1, <1>2

\* Deleting and parsing keep an owner for every record.
LEMMA KeptTags ==
  ASSUME Base, torn = FALSE, Kept,
         OpenGTAGS \/ OpenGRTAGS \/ DeleteTags \/ (\E p \in Paths : AddTags(p))
           \/ CloseGTAGS \/ CloseGRTAGS
  PROVE  Kept'
  <1> USE DEF Updating, Early, Window
  <1>0. /\ Protocol /\ GPP!IInv /\ Typed /\ InSync /\ IdsClean /\ TypesHold(db)
        /\ gtop.GTAGS \in Tags /\ deletelist \subseteq Paths
    BY BaseFacts DEF Base, Kept
  <1>a. /\ UNCHANGED <<lang, deletelist, addlist_other, deleteset>>
        /\ pc' \in {"open_GRTAGS_MODIFY", "delete", "add", "close_GRTAGS_MODIFY", "paths"}
    BY DEF OpenGTAGS, OpenGRTAGS, DeleteTags, AddTags, CloseGTAGS, CloseGRTAGS, lists
  <1>1. CASE OpenGTAGS \/ OpenGRTAGS
    <2>1. /\ gtags' = gtags /\ addlist' = addlist
          /\ \/ /\ pc = "decide" /\ pc' = "open_GRTAGS_MODIFY" /\ gtop'.GTAGS = gtags
             \/ /\ pc = "open_GRTAGS_MODIFY" /\ pc' = "delete" /\ gtop'.GTAGS = gtop.GTAGS
          /\ GP!gpath_open(2)
      BY <1>1 DEF OpenGTAGS, OpenGRTAGS, tagFiles, lists
    <2>2. db' = db /\ disk' = disk
      BY <1>0, <2>1, GpathQuiet DEF Protocol
    <2>3. /\ TypesHold(db)' /\ (TypesHold(disk) => TypesHold(disk)')
          /\ HasOwner(gtags, db)'
          /\ HasOwner(gtags, disk) => HasOwner(gtags, disk)'
      BY <1>0, <1>a, <2>1, <2>2 DEF TypesHold, Known, HasOwner, Kept
    <2>4. pc' = "delete" => gtop'.GTAGS = gtags'
      BY <1>0, <2>1 DEF InSync
    <2> QED BY <1>a, <2>1, <2>2, <2>3, <2>4 DEF Kept, Known
  <1>2. CASE DeleteTags
    <2>1. /\ pc = "delete" /\ pc' = "add" /\ gtags' = gtags /\ addlist' = addlist
          /\ db' = db /\ disk' = disk
          /\ gtop'.GTAGS = gtags_delete(gtags, deleteset)
      BY <1>2 DEF DeleteTags, tagFiles, lists, gpath, Kept
    <2>2. /\ HasOwner(gtags, db)
          /\ \A i \in Fids : gtop'.GTAGS.rec[i] = IF i \in deleteset THEN <<>> ELSE gtags.rec[i]
      BY <2>1 DEF Kept, gtags_delete
    <2>3. HasOwner(gtop.GTAGS, db)'
      BY <2>1, <2>2 DEF HasOwner
    <2>4. ASSUME NEW p \in deletelist PROVE gtop'.GTAGS.rec[db.p2f[p].fid] = <<>>
      <3>1. /\ p \in Paths /\ Known(db, p)
            /\ db.p2f[p].type = "source" => db.p2f[p].fid \in deleteset
        BY <1>0, <2>1 DEF Kept
      <3>2. /\ db.p2f[p].fid \in Fids
            /\ db.f2p[db.p2f[p].fid].type = db.p2f[p].type
        BY <3>1, FidType
      <3> QED BY <2>2, <3>1, <3>2 DEF HasOwner
    <2>5. NoTagsOf(gtop.GTAGS)'
      BY <1>a, <2>1, <2>4 DEF NoTagsOf
    <2>6. /\ TypesHold(db)' /\ (TypesHold(disk) => TypesHold(disk)')
          /\ HasOwner(gtags, disk) => HasOwner(gtags, disk)'
      BY <1>0, <1>a, <2>1 DEF TypesHold, Known, HasOwner
    <2> QED BY <1>a, <2>1, <2>3, <2>5, <2>6 DEF Kept, Known
  <1>3. ASSUME NEW p \in Paths, AddTags(p) PROVE Kept'
    <2>1. /\ pc = "add" /\ pc' = "add" /\ p \in addlist /\ addlist' = addlist \ {p}
          /\ gtags' = gtags /\ ParseInto(p) /\ opened > 0 /\ created = FALSE
      BY <1>0, <1>3 DEF AddTags, tagFiles, Protocol, Creating, Ending
    <2>2. /\ GP!gpath_put(p, "source") /\ "source" \in GP!Types /\ lang[p] = "source"
      BY <2>1 DEF ParseInto, GP!Types, Kept
    <2>3. /\ TypesHold(db') /\ disk' = disk
          /\ db'.f2p[FidOf(p)] # NoRec /\ db'.f2p[FidOf(p)].type = "source"
          /\ \A i \in Fids : i # FidOf(p) => db'.f2p[i] = db.f2p[i]
      BY <1>0, <2>1, <2>2, TypesPut
    <2>4. \A i \in Fids : i # FidOf(p) => gtop'.GTAGS.rec[i] = gtop.GTAGS.rec[i]
      <3>1. /\ Same(gtop.GTAGS, gtop.GRTAGS) /\ Memory(gtop.GTAGS)
            /\ db.p2f[p] # NoRec => gtop.GTAGS.rec[db.p2f[p].fid] = <<>>
        BY <1>0, <2>1 DEF InSync, IdsClean, Cleared
      <3> QED BY <1>0, <2>1, <3>1, ParseSame
    <2>5. HasOwner(gtop.GTAGS, db)'
      BY <2>1, <2>3, <2>4 DEF Kept, HasOwner
    <2>6. \A q \in deletelist : /\ db'.p2f[q] = db.p2f[q] /\ Known(db, q)
                                /\ q \notin addlist
                                /\ db.p2f[q].fid \in Fids /\ db.p2f[q].fid # FidOf(p)
      <3>1. \A q \in deletelist : q \in Paths /\ q # p /\ Known(db, q) /\ q \notin addlist
        BY <1>0, <2>1 DEF Kept
      <3> QED BY <1>0, <2>1, <2>2, <3>1, PutPath DEF Known
    <2>7. NoTagsOf(gtop.GTAGS)'
      BY <1>a, <2>1, <2>4, <2>6 DEF Kept, NoTagsOf
    <2>8. /\ TypesHold(db)' /\ (TypesHold(disk) => TypesHold(disk)')
          /\ HasOwner(gtags, disk) => HasOwner(gtags, disk)'
      BY <1>a, <2>1, <2>3 DEF TypesHold, Known, HasOwner
    <2> QED BY <1>a, <2>1, <2>3, <2>5, <2>6, <2>7, <2>8 DEF Kept, Known
  <1>4. CASE CloseGTAGS \/ CloseGRTAGS
    <2>1. /\ addlist' = addlist /\ GP!gpath_close /\ opened > 1
          /\ \/ /\ pc = "add" /\ pc' = "close_GRTAGS_MODIFY" /\ gtags' = gtop.GTAGS
             \/ /\ pc = "close_GRTAGS_MODIFY" /\ pc' = "paths" /\ gtags' = gtags
      BY <1>0, <1>4 DEF CloseGTAGS, CloseGRTAGS, lists, Protocol
    <2>2. db' = db /\ disk' = disk
      BY <2>1, GpathQuiet
    <2>3. /\ TypesHold(db)' /\ (TypesHold(disk) => TypesHold(disk)')
          /\ HasOwner(gtags, db)' /\ NoTagsOf(gtags)'
      BY <1>0, <1>a, <2>1, <2>2 DEF TypesHold, Known, HasOwner, NoTagsOf, Kept
    <2> QED BY <1>a, <2>1, <2>2, <2>3 DEF Kept, Known
  <1> QED BY <1>1, <1>2, <1>3, <1>4

\* The paths that leave GPATH have no tags any more.
LEMMA KeptPaths ==
  ASSUME Base, torn = FALSE, Kept,
         (\E p \in Paths : DeletePath(p) \/ PutOther(p)) \/ Touch \/ CloseGPATH
  PROVE  Kept'
  <1> USE DEF Updating, Early, Window
  <1>0. /\ Protocol /\ GPP!IInv /\ Typed /\ IdsClean /\ TypesHold(db)
        /\ opened = 1 /\ opened > 0 /\ created = FALSE /\ mode = 2
        /\ deletelist \subseteq Paths /\ HasOwner(gtags, db)
    <2>1. pc \in {"paths", "close"}
      BY DEF DeletePath, PutOther, Touch, CloseGPATH
    <2>2. Protocol /\ opened = 1 /\ created = FALSE /\ mode = 2
      BY <2>1 DEF Base, Protocol, Creating, Ending
    <2>3. HasOwner(gtags, db) /\ TypesHold(db)
      BY <2>1 DEF Kept
    <2> QED BY <2>2, <2>3, BaseFacts DEF Base
  <1>a. UNCHANGED <<lang, gtags, addlist, deleteset>>
    BY DEF DeletePath, PutOther, Touch, CloseGPATH, tagFiles, lists
  <1>1. ASSUME NEW p \in Paths, DeletePath(p) PROVE Kept'
    <2>1. /\ pc = "paths" /\ pc' = "paths" /\ p \in deletelist
          /\ deletelist' = deletelist \ {p} /\ UNCHANGED <<addlist_other, disk>>
          /\ GP!gpath_delete(p) /\ Known(db, p) /\ NoTagsOf(gtags)
      BY <1>1 DEF DeletePath, GP!gpath_delete, Kept
    <2>2. db'.p2f = [db.p2f EXCEPT ![p] = NoRec]
          /\ db'.f2p = [db.f2p EXCEPT ![db.p2f[p].fid] = NoRec]
      BY <2>1 DEF GP!gpath_delete, GP!WithoutFile, GP!gpath_path2fid, Known
    <2>3. /\ \A q \in Paths : db'.p2f[q] = IF q = p THEN NoRec ELSE db.p2f[q]
          /\ \A i \in Fids : i # db.p2f[p].fid => db'.f2p[i] = db.f2p[i]
      BY <2>2, BaseFacts
    <2>4. gtags.rec[db.p2f[p].fid] = <<>>
      BY <2>1 DEF NoTagsOf
    <2>5. HasOwner(gtags, db)'
      BY <1>0, <1>a, <2>3, <2>4 DEF HasOwner
    <2>6. NoTagsOf(gtags)' /\ \A q \in deletelist' : Known(db, q)' /\ q \notin addlist
      BY <1>0, <1>a, <2>1, <2>3 DEF NoTagsOf, Known, Kept
    <2>7. TypesHold(db)' /\ (TypesHold(disk) => TypesHold(disk)')
      BY <1>0, <1>a, <2>1, <2>3 DEF TypesHold, Known
    <2> QED BY <1>a, <2>1, <2>5, <2>6, <2>7 DEF Kept
  <1>2. ASSUME NEW p \in Paths, PutOther(p) PROVE Kept'
    <2>1. /\ pc = "paths" /\ pc' = "paths" /\ deletelist = {} /\ deletelist' = {}
          /\ p \in addlist_other /\ addlist_other' = addlist_other \ {p}
          /\ GP!gpath_put(p, "other") /\ "other" \in GP!Types /\ lang[p] = "other"
      BY <1>2 DEF PutOther, GP!Types, Kept
    <2>2. /\ TypesHold(db') /\ disk' = disk /\ FidOf(p) \in Fids
          /\ \A i \in Fids : i # FidOf(p) => db'.f2p[i] = db.f2p[i]
          /\ db.p2f[p] = NoRec => FidOf(p) = nextkey
      BY <1>0, <2>1, TypesPut
    <2>3. db.p2f[p] # NoRec => db' = db
      BY <1>0, <2>1 DEF GP!gpath_put, GP!gpathVars, GP!gpath_path2fid
    <2>4. db.p2f[p] = NoRec => gtags.rec[FidOf(p)] = <<>>
      <3>1. Memory(gtags)
        BY <1>0, <2>1 DEF IdsClean
      <3>2. ASSUME FidOf(p) = nextkey PROVE ~ (FidOf(p) < nextkey)
        BY <2>2, <3>2, GpathAssumption DEF Fids
      <3> QED BY <2>2, <3>1, <3>2 DEF Memory, InMemory, Below
    <2>5. HasOwner(gtags, db)'
      BY <1>0, <1>a, <2>2, <2>3, <2>4 DEF HasOwner
    <2>6. NoTagsOf(gtags)'
      BY <2>1 DEF NoTagsOf
    <2>7. TypesHold(db)' /\ (TypesHold(disk) => TypesHold(disk)')
      BY <1>a, <2>2 DEF TypesHold, Known
    <2> QED BY <1>a, <2>1, <2>2, <2>5, <2>6, <2>7 DEF Kept
  <1>3. CASE Touch
    <2>1. /\ pc = "paths" /\ pc' = "close" /\ UNCHANGED <<addlist_other, deletelist, db, disk>>
      BY <1>3 DEF Touch, lists, gpath
    <2>2. /\ TypesHold(db)' /\ (TypesHold(disk) => TypesHold(disk)')
          /\ HasOwner(gtags, db)'
      BY <1>0, <1>a, <2>1 DEF TypesHold, Known, HasOwner
    <2> QED BY <1>a, <2>1, <2>2 DEF Kept, Known
  <1>4. CASE CloseGPATH
    <2>1. /\ pc = "close" /\ pc' = "exit" /\ addlist_other' = addlist_other
          /\ GP!gpath_close
      BY <1>4 DEF CloseGPATH, lists
    <2>2. db' = GP!EmptyDb /\ disk'.p2f = db.p2f /\ disk'.f2p = db.f2p
      BY <1>0, <2>1 DEF GP!gpath_close, GP!DbMode, GP!WithNextkey
    <2>3. TypesHold(db)' /\ TypesHold(disk)' /\ HasOwner(gtags, disk)'
      BY <1>0, <1>a, <2>2 DEF TypesHold, Known, GP!EmptyDb, HasOwner
    <2> QED BY <1>a, <2>1, <2>3 DEF Kept
  <1> QED BY <1>1, <1>2, <1>3, <1>4

\* One step, if the langmap does not change in it.
LEMMA KeptStep ==
  ASSUME Base, torn = FALSE, Kept, UserNext \/ UNCHANGED vars, UNCHANGED reconfs
  PROVE  Kept'
  <1>1. CASE UNCHANGED vars
    BY <1>1, KeptQuiet DEF vars, tree
  <1>2. crashes \in Nat /\ reconfs \in Nat
    BY GtagsAssumption DEF Base, Typed, TypeOK, HistoryType
  <1>3. UserNext => ~ Crash /\ \A p \in Paths : ~ Reconfigure(p)
    BY <1>2 DEF UserNext, Crash, Reconfigure
  <1>4. CASE UserNext
    BY <1>3, <1>4, KeptQuiet, KeptCreate, KeptInspect, KeptTags, KeptPaths
       DEF UserNext, Next, Environment, Incremental, WholeUpdate
  <1> QED BY <1>1, <1>4

\* A kill alone tears the files.
LEMMA TornStep ==
  ASSUME Base, torn = FALSE, UserNext \/ UNCHANGED vars
  PROVE  torn' = FALSE /\ (reconfs' = 0 => reconfs = 0)
  <1>1. crashes \in Nat /\ reconfs \in Nat
    BY GtagsAssumption DEF Base, Typed, TypeOK, HistoryType
  <1>2. CASE UNCHANGED vars
    BY <1>2 DEF vars, history
  <1>3. CASE UserNext
    <2>1. ~ Crash
      BY <1>1, <1>3 DEF UserNext, Crash
    <2>2. ASSUME NEW p \in Paths, Reconfigure(p) PROVE torn' = FALSE /\ reconfs' # 0
      BY <1>1, <2>2 DEF Reconfigure
    <2>3. CASE (\E p \in Paths : Write(p) \/ Remove(p)) \/ Tick \/ ProcessExit \/ Die
      BY <2>3 DEF Write, Remove, Tick, ProcessExit, Die, history
    <2>4. CASE Create
      BY <2>4 DEF Create, CreateGTAGS, CreateGRTAGS, CreateFile, CreateCloseGTAGS,
         CreateCloseGPATH, CreateCloseGRTAGS, history
    <2>5. CASE Incremental
      <3>1. UNCHANGED <<torn, reconfs>>
        BY <2>5 DEF Incremental, WholeUpdate, UpdateAll, UpdateOne, StartUpdate, Inspect,
           MakeDeleteList, SkipTags, OpenGTAGS, OpenGRTAGS, DeleteTags, AddTags,
           CloseGTAGS, CloseGRTAGS, DeletePath, PutOther, Touch, CloseGPATH, history
      <3> QED BY <3>1
    <2> QED BY <1>1, <1>3, <2>1, <2>2, <2>3, <2>4, <2>5 DEF UserNext, Next, Environment
  <1> QED BY <1>2, <1>3

\* Every tag belongs to a file that GPATH knows, if nobody edits while gtags
\* runs and the langmap stays as it is: the delete list misses no identifier
\* with tags.
THEOREM TagsOwnedCorrect == AllSpec => []TagsOwnedUndisturbed
  <1>1. AllInit => UserOK
    <2> SUFFICES ASSUME Init PROVE UserInv
      BY DEF AllInit, UserOK
    <2>1. TypesHold(db)
      BY NothingKept DEF Init, GP!Init
    <2>2. Kept
      BY <2>1 DEF Init, GP!Init, Kept, Updating, Early
    <2> QED BY <2>2 DEF Init, UserInv
  <1>2. ASSUME Base, UserOK, [AllNext]_<<vars, trouble>> PROVE UserOK'
    <2>1. trouble' = trouble /\ (trouble = "user" => UserNext \/ UNCHANGED vars)
      BY <1>2 DEF AllNext
    <2> SUFFICES ASSUME trouble = "user" PROVE UserInv'
      BY <2>1 DEF UserOK
    <2>2. torn = FALSE /\ (reconfs = 0 => Kept)
      BY <1>2 DEF UserOK, UserInv
    <2>3. torn' = FALSE /\ (reconfs' = 0 => reconfs = 0)
      BY <1>2, <2>1, <2>2, TornStep
    <2>4. reconfs' = 0 => Kept'
      BY <1>2, <2>1, <2>2, <2>3, KeptStep
    <2> QED BY <2>3, <2>4 DEF UserInv
  <1>3. AllSpec => []Base
    BY AllIsGtags, SpecSync, PTL DEF Base
  <1>4. ASSUME Base, UserOK PROVE TagsOwnedUndisturbed
    <2> SUFFICES ASSUME trouble = "user", reconfs = 0, Usable, NEW i \in Fids,
                        gtags.rec[i] # <<>> \/ grtags.rec[i] # <<>>
                 PROVE  disk.f2p[i] # NoRec
      BY DEF TagsOwnedUndisturbed, TagsOwnedUnlessRetyped, TagsOwned
    <2>1. Kept /\ ~ torn
      BY <1>4 DEF UserOK, UserInv
    <2>2. Same(gtags, grtags)
      BY <1>4, <2>1 DEF Base, InSync, FilesSame, BothEnded, Usable, TagFilesExist
    <2>3. HasOwner(gtags, disk)
      BY <2>1 DEF Kept, Usable, TagFilesExist, GP!HasFile, Window
    <2> QED BY <2>2, <2>3 DEF Same, HasOwner
  <1> QED BY <1>1, <1>2, <1>3, <1>4, PTL DEF AllSpec
=============================================================================
