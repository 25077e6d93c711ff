---------------------------- MODULE GtagsProofs ----------------------------
(***************************************************************************)
(* What holds of Gtags for every set of paths and every bound: gtags uses  *)
(* GPATH by its protocol, so that the theorems of GpathProofs carry over,  *)
(* and the identifiers in the tag files agree with GPATH however edits,    *)
(* updates and kills interleave; GTAGS and GRTAGS are of one version.      *)
(***************************************************************************)
EXTENDS Gtags, TLAPS

GPP == INSTANCE GpathProofs

Creating == {"open_GRTAGS", "create", "close_GPATH"}
Updating == {"inspect", "decide", "open_GRTAGS_MODIFY", "delete", "add",
             "close_GRTAGS_MODIFY", "paths", "close"}
Ending == {"close_GRTAGS", "exit"}      \* GPATH is closed

\* How many gpath_open calls are not yet closed, and in which mode, at each
\* point of the process; GPATH has been created only once it is closed.
Protocol ==
  /\ pc \in {"idle"} \cup Creating \cup Updating \cup Ending
  /\ pc \in {"idle"} \cup Ending => opened = 0
  /\ pc \in {"open_GRTAGS", "close_GPATH", "inspect", "decide", "paths",
             "close"} => opened = 1
  /\ pc \in {"create", "open_GRTAGS_MODIFY", "close_GRTAGS_MODIFY"}
       => opened = 2
  /\ pc \in {"delete", "add"} => opened = 3
  /\ pc \in Creating => mode = 1
  /\ pc \in Updating => mode = 2
  /\ pc \notin Ending => created = FALSE

\* Nothing is open before a process starts.
LEMMA InitProtocol == Init => Protocol
BY DEF Init, Protocol, Creating, Updating, Ending, GP!Init

\* What a step of gtags does to GPATH, if anything, is one call of gpathop.c.
GpathCall == \/ \E m \in 0 .. 2 : opened < MaxOpen /\ GP!gpath_open(m)
             \/ \E p \in Paths, type \in GP!Types : GP!gpath_put(p, type)
             \/ \E p \in Paths : GP!gpath_delete(p)
             \/ GP!gpath_close
             \/ GP!Exit
             \/ UNCHANGED gpath

\* Edits leave GPATH alone, and a kill is its Exit.
LEMMA EnvironmentStep ==
  ASSUME Protocol, Environment
  PROVE  Protocol' /\ GpathCall
BY DEF Protocol, Creating, Updating, Ending, GpathCall,
       Environment, Write, Remove, Reconfigure, Tick, Crash, ForgetMemory,
       GP!Exit, gpath

\* gpath_open only counts, unless it is the first; gpath_close only counts,
\* unless it is the last.
LEMMA OpenCounts ==
  ASSUME NEW m \in 0 .. 2, GP!gpath_open(m), opened \in 0 .. 2
  PROVE  /\ GpathCall
         /\ opened' = opened + 1 /\ created' = created
         /\ mode' = IF opened = 0 THEN m ELSE mode
  <1>1. opened < MaxOpen
    BY DEF MaxOpen
  <1>2. GpathCall
    BY <1>1, Zenon DEF GpathCall
  <1>3. /\ opened' = opened + 1 /\ created' = created
        /\ mode' = IF opened = 0 THEN m ELSE mode
    BY DEF GP!gpath_open, GP!OpenAgain, GP!OpenCreate, GP!OpenExisting
  <1> QED BY <1>2, <1>3

\* A close is a call of gpathop.c that takes one from the number of opens.
LEMMA CloseCounts ==
  ASSUME GP!gpath_close
  PROVE  /\ GpathCall
         /\ opened' = opened - 1 /\ mode' = mode
         /\ opened > 1 => created' = created
  <1>1. GpathCall
    BY Zenon DEF GpathCall
  <1>2. /\ opened' = opened - 1 /\ mode' = mode
        /\ opened > 1 => created' = created
    BY DEF GP!gpath_close
  <1> QED BY <1>1, <1>2

\* Gtags opens GPATH to create it or to modify it.
LEMMA OpenToWrite ==
  ASSUME opened \in 0 .. 2
  PROVE  /\ GP!gpath_open(1) => /\ GpathCall
                                /\ opened' = opened + 1 /\ created' = created
                                /\ mode' = IF opened = 0 THEN 1 ELSE mode
         /\ GP!gpath_open(2) => /\ GpathCall
                                /\ opened' = opened + 1 /\ created' = created
                                /\ mode' = IF opened = 0 THEN 2 ELSE mode
  <1>1. 1 \in 0 .. 2 /\ 2 \in 0 .. 2
    OBVIOUS
  <1> QED BY <1>1, OpenCounts, Zenon

\* createtags opens and closes GPATH in pairs, in create mode.
LEMMA CreateStep ==
  ASSUME Protocol, Create
  PROVE  Protocol' /\ GpathCall
  <1> USE DEF Protocol, Creating, Updating, Ending
  <1>1. CASE CreateGTAGS
    <2>1. pc = "idle" /\ pc' = "open_GRTAGS"
      BY <1>1 DEF CreateGTAGS
    <2>2. GP!gpath_open(1)
      BY <1>1 DEF CreateGTAGS
    <2> QED BY <2>1, <2>2, OpenToWrite
  <1>2. CASE CreateGRTAGS
    <2>1. pc = "open_GRTAGS" /\ pc' = "create"
      BY <1>2 DEF CreateGRTAGS
    <2>2. GP!gpath_open(1)
      BY <1>2 DEF CreateGRTAGS
    <2> QED BY <2>1, <2>2, OpenToWrite
  <1>3. ASSUME NEW p \in Paths, CreateFile(p) PROVE Protocol' /\ GpathCall
    <2>1. (\E t \in GP!Types : GP!gpath_put(p, t)) \/ UNCHANGED gpath
      BY <1>3 DEF CreateFile, ParseInto, GP!Types
    <2>2. UNCHANGED <<pc, opened, mode, created>>
      BY <1>3, <2>1 DEF CreateFile, gpath, GP!gpath_put, GP!gpathVars
    <2> QED BY <2>1, <2>2 DEF GpathCall
  <1>4. CASE CreateCloseGTAGS
    <2>1. pc = "create" /\ pc' = "close_GPATH"
      BY <1>4 DEF CreateCloseGTAGS
    <2>2. GP!gpath_close
      BY <1>4 DEF CreateCloseGTAGS
    <2> QED BY <2>1, <2>2, CloseCounts
  <1>5. CASE CreateCloseGPATH
    <2>1. pc = "close_GPATH" /\ pc' = "close_GRTAGS"
      BY <1>5 DEF CreateCloseGPATH
    <2>2. GP!gpath_close
      BY <1>5 DEF CreateCloseGPATH
    <2> QED BY <2>1, <2>2, CloseCounts
  <1>6. CASE CreateCloseGRTAGS
    BY <1>6 DEF CreateCloseGRTAGS, GpathCall, gpath
  <1> QED BY <1>1, <1>2, <1>3, <1>4, <1>5, <1>6 DEF Create

\* incremental and updatetags do the same in their modes.
LEMMA IncrementalStep ==
  ASSUME Protocol, Incremental
  PROVE  Protocol' /\ GpathCall
  <1> USE DEF Protocol, Creating, Updating, Ending
  <1>1. CASE UpdateAll \/ \E p \in Paths : UpdateOne(p)
    <2>1. pc = "idle" /\ pc' \in {"inspect", "decide", "close"}
      BY <1>1 DEF UpdateAll, UpdateOne, StartUpdate
    <2>2. GP!gpath_open(2)
      BY <1>1 DEF UpdateAll, UpdateOne, StartUpdate
    <2> QED BY <2>1, <2>2, OpenToWrite
  <1>2. CASE OpenGTAGS \/ OpenGRTAGS
    <2>1. \/ pc = "decide" /\ pc' = "open_GRTAGS_MODIFY"
          \/ pc = "open_GRTAGS_MODIFY" /\ pc' = "delete"
      BY <1>2 DEF OpenGTAGS, OpenGRTAGS
    <2>2. GP!gpath_open(2)
      BY <1>2 DEF OpenGTAGS, OpenGRTAGS
    <2> QED BY <2>1, <2>2, OpenToWrite
  <1>3. CASE (\E p \in Paths : Inspect(p)) \/ MakeDeleteList \/ SkipTags
             \/ DeleteTags \/ Touch
    <2>1. UNCHANGED gpath
      BY <1>3 DEF Inspect, MakeDeleteList, SkipTags, DeleteTags, Touch
    <2>2. \/ pc = "inspect" /\ pc' \in {"inspect", "decide"}
          \/ pc = "decide" /\ pc' \in {"paths", "close"}
          \/ pc = "delete" /\ pc' = "add"
          \/ pc = "paths" /\ pc' = "close"
      BY <1>3 DEF Inspect, MakeDeleteList, SkipTags, DeleteTags, Touch
    <2> QED BY <2>1, <2>2 DEF GpathCall, gpath
  <1>4. ASSUME NEW p \in Paths, AddTags(p) \/ PutOther(p)
        PROVE  Protocol' /\ GpathCall
    <2>1. UNCHANGED pc /\ \E t \in GP!Types : GP!gpath_put(p, t)
      BY <1>4 DEF AddTags, PutOther, ParseInto, GP!Types
    <2>2. UNCHANGED <<opened, mode, created>>
      BY <2>1 DEF GP!gpath_put, GP!gpathVars
    <2> QED BY <2>1, <2>2 DEF GpathCall
  <1>5. ASSUME NEW p \in Paths, DeletePath(p) PROVE Protocol' /\ GpathCall
    <2>1. UNCHANGED pc /\ GP!gpath_delete(p)
      BY <1>5 DEF DeletePath
    <2>2. UNCHANGED <<opened, mode, created>>
      BY <2>1 DEF GP!gpath_delete
    <2> QED BY <2>1, <2>2 DEF GpathCall
  <1>6. CASE CloseGTAGS \/ CloseGRTAGS \/ CloseGPATH
    <2>1. \/ pc = "add" /\ pc' = "close_GRTAGS_MODIFY"
          \/ pc = "close_GRTAGS_MODIFY" /\ pc' = "paths"
          \/ pc = "close" /\ pc' = "exit"
      BY <1>6 DEF CloseGTAGS, CloseGRTAGS, CloseGPATH
    <2>2. GP!gpath_close
      BY <1>6 DEF CloseGTAGS, CloseGRTAGS, CloseGPATH
    <2> QED BY <2>1, <2>2, CloseCounts
  <1> QED BY <1>1, <1>2, <1>3, <1>4, <1>5, <1>6 DEF Incremental, WholeUpdate

\* Every step of gtags is one call of gpathop.c or none.
LEMMA NextProtocol ==
  ASSUME Protocol, [Next]_vars
  PROVE  Protocol' /\ [GP!Next]_(GP!gpathVars)
  <1>1. Protocol' /\ GpathCall
    <2>1. CASE ProcessExit \/ Die
      BY <2>1 DEF ProcessExit, Die, ForgetMemory, GP!Exit, GpathCall, Protocol,
         Creating, Updating, Ending
    <2>2. CASE UNCHANGED vars
      BY <2>2 DEF vars, gpath, GpathCall, Protocol
    <2> QED BY <2>1, <2>2, EnvironmentStep, CreateStep, IncrementalStep DEF Next
  <1> QED BY <1>1 DEF GpathCall, GP!Next, GP!gpathVars, gpath

\* Whatever gtags does, it opens, uses and closes GPATH as gpathop.c expects.
THEOREM GpathByProtocol == Spec => GP!Spec
  <1>1. Init => GP!Init
    BY DEF Init
  <1> QED BY <1>1, InitProtocol, NextProtocol, PTL DEF Spec, GP!Spec

----------------------------------------------------------------------------
\* What GpathProofs says of the table, in the terms of this module.
LEMMA GpathFacts ==
  ASSUME GPP!IInv
  PROVE  /\ GP!TypeOK
         /\ \A p \in Paths : db.p2f[p] # NoRec =>
               /\ db.p2f[p].fid \in Fids /\ db.p2f[p].fid < nextkey
               /\ db.f2p[db.p2f[p].fid] # NoRec
               /\ db.f2p[db.p2f[p].fid].path = p
         /\ \A i \in Fids : db.f2p[i] # NoRec => i < nextkey
         /\ disk # NoFile => \A i \in Fids : disk.f2p[i] # NoRec => i < disk.next
         /\ opened > 0 /\ mode = 1 /\ created = FALSE =>
               disk = GP!EmptyDb /\ nextkey >= 1
         /\ opened > 0 /\ mode = 2 =>
               /\ disk # NoFile /\ 1 <= disk.next /\ disk.next <= nextkey
               /\ \A i \in Fids : (db.f2p[i] # NoRec /\ i < disk.next) =>
                                     db.f2p[i] = disk.f2p[i]
  <1>1. GP!TypeOK
    BY DEF GPP!IInv, GPP!TypeOK, GP!TypeOK, GPP!Db, GP!Db, GPP!PathRec,
       GP!PathRec, GPP!FidRec, GP!FidRec, GPP!Fids, GP!Fids, GPP!Types, GP!Types
  <1>2. \A i \in Fids : db.f2p[i] # NoRec => i < nextkey
    BY DEF GPP!IInv, GPP!FreshIds, GPP!Fids, Fids
  <1>3. ASSUME NEW p \in Paths, db.p2f[p] # NoRec
        PROVE  /\ db.p2f[p].fid \in Fids /\ db.p2f[p].fid < nextkey
               /\ db.f2p[db.p2f[p].fid] # NoRec
               /\ db.f2p[db.p2f[p].fid].path = p
    <2>1. db.p2f[p] \in GP!PathRec
      BY <1>1, <1>3 DEF GP!TypeOK, GP!Db
    <2>2. db.f2p[db.p2f[p].fid] = [path |-> p, type |-> db.p2f[p].type]
      BY <1>3 DEF GPP!IInv, GPP!Consistent, GPP!Paired
    <2>3. [path |-> p, type |-> db.p2f[p].type] \in GP!FidRec
      BY <2>1 DEF GP!PathRec, GP!FidRec
    <2> QED BY <2>1, <2>2, <2>3, <1>2, GpathAssumption
            DEF GP!PathRec, GP!FidRec, GP!Fids, Fids
  <1>4. disk # NoFile => \A i \in Fids : disk.f2p[i] # NoRec => i < disk.next
    BY DEF GPP!IInv, GPP!FreshIds, GPP!HasFile, GPP!Fids, Fids
  <1>5. opened > 0 /\ mode = 1 /\ created = FALSE =>
               disk = GP!EmptyDb /\ nextkey >= 1
    BY DEF GPP!IInv, GPP!OpenImage, GPP!DbMode, GPP!EmptyDb, GP!EmptyDb, GPP!Fids,
       GP!Fids
  <1>6. opened > 0 /\ mode = 2 =>
               /\ disk # NoFile /\ 1 <= disk.next /\ disk.next <= nextkey
               /\ \A i \in Fids : (db.f2p[i] # NoRec /\ i < disk.next) =>
                                     db.f2p[i] = disk.f2p[i]
    BY DEF GPP!IInv, GPP!OpenImage, GPP!DbMode, GPP!HasFile, GPP!Fids, Fids
  <1> QED BY <1>1, <1>2, <1>3, <1>4, <1>5, <1>6

\* The assumptions of GpathProofs hold of the GPATH of gtags.
LEMMA GpathAssumptions ==
  GPP!BoundAssumption /\ GPP!NoRecAssumption /\ GPP!NoFileAssumption
  <1> USE GpathAssumption DEF GPP!PathRec, GP!PathRec, GPP!FidRec, GP!FidRec,
          GPP!Fids, GP!Fids, GPP!Types, GP!Types
  <1>1. GPP!BoundAssumption
    BY DEF GPP!BoundAssumption, MaxOpen
  <1>2. GPP!NoRecAssumption
    BY DEF GPP!NoRecAssumption
  <1>3. GPP!NoFileAssumption
    BY DEF GPP!NoFileAssumption, GPP!Db, GP!Db
  <1> QED BY <1>1, <1>2, <1>3

\* The two instances of Gpath are the same specification.
LEMMA SameGpath ==
  /\ GP!Init <=> GPP!Init
  /\ [GP!Next]_(GP!gpathVars) <=> [GPP!Next]_(GPP!gpathVars)
BY Zenon DEF GP!Init, GP!Next, GP!gpathVars, GP!gpath_open, GP!OpenAgain,
   GP!OpenCreate, GP!OpenExisting, GP!DbMode, GP!HasFile, GP!gpath_put,
   GP!gpath_path2fid, GP!WithFile, GP!gpath_delete, GP!WithoutFile,
   GP!gpath_close, GP!WithNextkey, GP!Exit, GP!EmptyDb, GP!Fids, GP!Types,
   GPP!Init, GPP!Next, GPP!gpathVars, GPP!gpath_open, GPP!OpenAgain,
   GPP!OpenCreate, GPP!OpenExisting, GPP!DbMode, GPP!HasFile, GPP!gpath_put,
   GPP!gpath_path2fid, GPP!WithFile, GPP!gpath_delete, GPP!WithoutFile,
   GPP!gpath_close, GPP!WithNextkey, GPP!Exit, GPP!EmptyDb, GPP!Fids, GPP!Types

\* The protocol and the invariant of GPATH hold in every state of gtags.
LEMMA SpecGpath == Spec => [](Protocol /\ GPP!IInv)
  <1>1. Init => Protocol /\ GPP!IInv
    BY InitProtocol, SameGpath, GpathAssumptions, GPP!InitIInv DEF Init
  <1>2. Protocol /\ GPP!IInv /\ [Next]_vars => (Protocol /\ GPP!IInv)'
    BY NextProtocol, SameGpath, GpathAssumptions, GPP!NextIInv
  <1> QED BY <1>1, <1>2, PTL DEF Spec

\* The table that gtags leaves behind is one where path and identifier agree
\* and NEXTKEY covers what is in use, whenever the process is killed.
THEOREM GpathCorrect == Spec => [](GP!Consistent /\ GP!FreshIds)
  <1>1. GPP!IInv => GP!Consistent /\ GP!FreshIds
    BY DEF GPP!IInv, GPP!Consistent, GPP!FreshIds, GPP!Paired, GPP!HasFile,
       GPP!Fids, GP!Consistent, GP!FreshIds, GP!Paired, GP!HasFile, GP!Fids
  <1> QED BY <1>1, SpecGpath, PTL

----------------------------------------------------------------------------
\* Types, one part of the state after the other.
LEMMA TreeStep ==
  ASSUME TreeType, [Next]_vars
  PROVE  TreeType'
  <1> USE GtagsAssumption DEF TreeType, Times
  <1>1. ASSUME NEW p \in Paths, Write(p) PROVE TreeType'
    BY <1>1 DEF Write
  <1>2. ASSUME NEW p \in Paths, Remove(p) PROVE TreeType'
    BY <1>2 DEF Remove
  <1>3. ASSUME NEW p \in Paths, Reconfigure(p) PROVE TreeType'
    BY <1>3 DEF Reconfigure, tree, GP!Types
  <1>4. CASE Tick
    BY <1>4 DEF Tick, tree
  <1>5. CASE UNCHANGED <<tree, lang, clock>>
    BY <1>5 DEF tree
  <1>6. CASE Create
    BY <1>5, <1>6 DEF Create, CreateGTAGS, CreateGRTAGS, CreateFile,
       CreateCloseGTAGS, CreateCloseGPATH, CreateCloseGRTAGS
  <1>7. CASE Incremental
    <2>1. UNCHANGED <<tree, lang, clock>>
      BY <1>7 DEF Incremental, WholeUpdate, UpdateAll, UpdateOne, StartUpdate, Inspect,
         MakeDeleteList, SkipTags, OpenGTAGS, OpenGRTAGS, DeleteTags, AddTags,
         CloseGTAGS, CloseGRTAGS, DeletePath, PutOther, Touch, CloseGPATH
    <2> QED BY <1>5, <2>1
  <1>8. CASE ProcessExit \/ Die \/ Crash
    BY <1>5, <1>8 DEF ProcessExit, Die, Crash
  <1>9. CASE UNCHANGED vars
    BY <1>5, <1>9 DEF vars
  <1> QED BY <1>1, <1>2, <1>3, <1>4, <1>6, <1>7, <1>8, <1>9 DEF Next, Environment

\* The history variables keep their types.
LEMMA HistoryStep ==
  ASSUME TreeType, HistoryType, [Next]_vars
  PROVE  HistoryType'
  <1> USE GtagsAssumption DEF TreeType, HistoryType, Times
  <1>0. ASSUME UNCHANGED history PROVE HistoryType'
    BY <1>0 DEF history
  <1>1. ASSUME NEW p \in Paths, Reconfigure(p) PROVE HistoryType'
    BY <1>1 DEF Reconfigure
  <1>2. CASE \/ \E p \in Paths : Write(p) \/ Remove(p)
             \/ Tick
    BY <1>0, <1>2 DEF Write, Remove, Tick
  <1>3. CASE Crash
    <2>1. (torn \in BOOLEAN)'
      BY <1>3, Zenon DEF Crash
    <2> QED BY <1>3, <2>1 DEF Crash, ForgetMemory
  <1>4. CASE CreateGTAGS
    BY <1>4 DEF CreateGTAGS
  <1>5. CASE CreateCloseGTAGS
    <2>1. (torn \in BOOLEAN)'
      BY <1>5, Zenon DEF CreateCloseGTAGS
    <2> QED BY <1>5, <2>1 DEF CreateCloseGTAGS
  <1>6. CASE Create /\ ~ CreateGTAGS /\ ~ CreateCloseGTAGS
    BY <1>0, <1>6 DEF Create, CreateGRTAGS, CreateFile, CreateCloseGPATH,
       CreateCloseGRTAGS
  <1>7. CASE UpdateAll \/ \E p \in Paths : UpdateOne(p)
    BY <1>7 DEF UpdateAll, UpdateOne, StartUpdate
  <1>8. CASE CloseGTAGS \/ Touch
    <2>1. blind' \in [Paths -> SUBSET Times]
      BY <1>8 DEF CloseGTAGS, Touch, Blinded
    <2> QED BY <1>8, <2>1 DEF CloseGTAGS, Touch
  <1>9. CASE /\ Incremental /\ ~ CloseGTAGS /\ ~ Touch /\ ~ UpdateAll
             /\ ~ \E p \in Paths : UpdateOne(p)
    <2>1. UNCHANGED history
      BY <1>9 DEF Incremental, WholeUpdate, Inspect, MakeDeleteList, SkipTags, OpenGTAGS,
         OpenGRTAGS, DeleteTags, AddTags, CloseGRTAGS, DeletePath, PutOther,
         CloseGPATH
    <2> QED BY <1>0, <2>1
  <1>10. CASE ProcessExit \/ Die
    BY <1>10 DEF ProcessExit, Die, ForgetMemory
  <1>11. CASE UNCHANGED vars
    BY <1>0, <1>11 DEF vars
  <1> QED BY <1>1, <1>2, <1>3, <1>4, <1>5, <1>6, <1>7, <1>8, <1>9, <1>10, <1>11
          DEF Next, Environment

\* What the records of GPATH name are paths and identifiers.
LEMMA GpathRecords ==
  ASSUME GP!TypeOK
  PROVE  /\ \A p \in Paths : db.p2f[p] # NoRec => db.p2f[p].fid \in Fids
         /\ \A i \in Fids : db.f2p[i] # NoRec => db.f2p[i].path \in Paths
         /\ disk # NoFile =>
              \A p \in Paths : disk.p2f[p] # NoRec => disk.p2f[p].fid \in Fids
BY DEF GP!TypeOK, GP!Db, GP!PathRec, GP!FidRec, GP!Fids, Fids

\* The lists of incremental and updatetags keep their types.
LEMMA ListsStep ==
  ASSUME GP!TypeOK, TagsType, ListsType, [Next]_vars
  PROVE  ListsType'
  <1>0. ASSUME UNCHANGED lists PROVE ListsType'
    BY <1>0 DEF lists, ListsType
  <1>1. CASE \/ \E p \in Paths : Write(p) \/ Remove(p) \/ Reconfigure(p)
             \/ Tick
    BY <1>0, <1>1 DEF Write, Remove, Reconfigure, Tick
  <1>2. CASE Crash \/ ProcessExit \/ Die
    BY <1>2, GtagsAssumption DEF Crash, ProcessExit, Die, ForgetMemory, ListsType,
       Times
  <1>3. CASE CreateGTAGS \/ CreateCloseGTAGS \/ CreateCloseGPATH \/ CreateCloseGRTAGS
    BY <1>0, <1>3 DEF CreateGTAGS, CreateCloseGTAGS, CreateCloseGPATH,
       CreateCloseGRTAGS
  <1>4. CASE CreateGRTAGS \/ \E p \in Paths : CreateFile(p)
    BY <1>4 DEF CreateGRTAGS, CreateFile, ListsType
  <1>5. CASE UpdateAll
    BY <1>5 DEF UpdateAll, StartUpdate, TagsType, ListsType
  <1>6. ASSUME NEW p \in Paths, UpdateOne(p) PROVE ListsType'
    <2>1. disk.p2f[p] # NoRec => disk.p2f[p].fid \in Fids
      BY <1>6, GpathRecords DEF UpdateOne, StartUpdate, TagFilesExist, GP!HasFile
    <2> QED BY <1>6, <2>1 DEF UpdateOne, StartUpdate, TagsType, ListsType
  <1>7. ASSUME NEW p \in Paths, Inspect(p) PROVE ListsType'
    <2>1. GP!gpath_path2fid(p) # NoRec => GP!gpath_path2fid(p).fid \in Fids
      BY GpathRecords DEF GP!gpath_path2fid
    <2> QED BY <1>7, <2>1 DEF Inspect, ListsType
  <1>8. CASE MakeDeleteList
    <2>1. Gone \subseteq Fids /\ \A i \in Gone : GP!gpath_fid2path(i).path \in Paths
      BY GpathRecords DEF Gone, GP!gpath_fid2path
    <2> QED BY <1>8, <2>1 DEF MakeDeleteList, ListsType
  <1>9. CASE SkipTags \/ OpenGTAGS \/ OpenGRTAGS \/ DeleteTags \/ CloseGTAGS
             \/ CloseGRTAGS \/ Touch \/ CloseGPATH
    BY <1>0, <1>9 DEF SkipTags, OpenGTAGS, OpenGRTAGS, DeleteTags, CloseGTAGS,
       CloseGRTAGS, Touch, CloseGPATH
  <1>10. ASSUME NEW p \in Paths, AddTags(p) \/ DeletePath(p) \/ PutOther(p)
         PROVE  ListsType'
    BY <1>10 DEF AddTags, DeletePath, PutOther, ListsType
  <1>11. CASE UNCHANGED vars
    BY <1>0, <1>11 DEF vars
  <1> QED BY <1>1, <1>2, <1>3, <1>4, <1>5, <1>6, <1>7, <1>8, <1>9, <1>10, <1>11
          DEF Next, Environment, Create, Incremental, WholeUpdate

\* The tag files exist as long as they are needed.
FilesExist == pc \in Updating => gtags # NoFile /\ grtags # NoFile

\* A new tag file and its image are tag files.
LEMMA NewTags == NewFile \in Tags /\ NewImage \in Tags
BY DEF NewFile, NewImage, NoTags, Tags

\* gtags_put adds to the records of its identifier, or changes nothing.
LEMMA PutTags ==
  ASSUME NEW T \in Tags, NEW p \in Paths, NEW i \in Fids, TreeType,
         lang[p] = "source" => Exists(p)
  PROVE  /\ gtags_put(T, i, p) \in Tags
         /\ \A j \in Fids : j # i => gtags_put(T, i, p).rec[j] = T.rec[j]
         /\ \/ gtags_put(T, i, p).rec[i] = T.rec[i]
            \/ gtags_put(T, i, p).rec[i] =
                 Append(T.rec[i], [path |-> p, ver |-> text[p]])
  <1>1. CASE lang[p] # "source"
    BY <1>1 DEF gtags_put
  <1>2. CASE lang[p] = "source"
    <2>1. [path |-> p, ver |-> text[p]] \in TagRec
      BY <1>2, GtagsAssumption DEF TreeType, Exists, TagRec
    <2>2. T.rec \in [Fids -> Seq(TagRec)]
      BY DEF Tags
    <2>3. Append(T.rec[i], [path |-> p, ver |-> text[p]]) \in Seq(TagRec)
      BY <2>1, <2>2
    <2> QED BY <1>2, <2>2, <2>3 DEF gtags_put, Tags
  <1> QED BY <1>1, <1>2

\* gtags_delete leaves the records of an identifier or removes them all.
LEMMA DeleteFromTags ==
  ASSUME NEW T \in Tags, NEW ids
  PROVE  /\ gtags_delete(T, ids) \in Tags
         /\ \A j \in Fids : \/ gtags_delete(T, ids).rec[j] = T.rec[j]
                            \/ gtags_delete(T, ids).rec[j] = <<>>
  <1>1. T.rec \in [Fids -> Seq(TagRec)] /\ <<>> \in Seq(TagRec) /\ T.ok \in BOOLEAN
    BY DEF Tags
  <1> QED BY <1>1 DEF gtags_delete, Tags

\* The identifier gpath_put has given or found.
LEMMA PutFid ==
  ASSUME Protocol, GPP!IInv, opened > 0, created = FALSE,
         NEW p \in Paths, NEW t \in GP!Types, GP!gpath_put(p, t)
  PROVE  /\ FidOf(p) \in Fids /\ FidOf(p) < nextkey'
         /\ nextkey \in Nat /\ nextkey' \in Nat /\ nextkey <= nextkey' /\ disk' = disk
         /\ db'.f2p[FidOf(p)] # NoRec /\ db'.f2p[FidOf(p)].path = p
         /\ \A i \in Fids : i # FidOf(p) => db'.f2p[i] = db.f2p[i]
         /\ db.f2p[FidOf(p)] # NoRec => db.f2p[FidOf(p)].path = p
         /\ db.f2p[FidOf(p)] = NoRec => FidOf(p) = nextkey
  <1>1. CASE GP!gpath_path2fid(p) # NoRec
    <2>1. /\ FidOf(p) = db.p2f[p].fid
          /\ nextkey' = nextkey /\ db' = db /\ disk' = disk
      BY <1>1 DEF GP!gpath_put, GP!gpathVars, FidOf, GP!gpath_path2fid
    <2>2. nextkey \in Nat
      BY GpathFacts, GpathAssumption DEF GP!TypeOK
    <2>3. /\ db.p2f[p].fid \in Fids /\ db.p2f[p].fid < nextkey
          /\ db.f2p[db.p2f[p].fid] # NoRec
          /\ db.f2p[db.p2f[p].fid].path = p
      BY <1>1, GpathFacts DEF GP!gpath_path2fid
    <2>4. db.p2f[p].fid \in Nat
      BY <2>3, GpathAssumption DEF Fids
    <2>5. /\ FidOf(p) \in Fids /\ FidOf(p) < nextkey'
          /\ nextkey <= nextkey' /\ nextkey' \in Nat
      BY <2>1, <2>2, <2>3, <2>4
    <2>6. db'.f2p[FidOf(p)] # NoRec /\ db'.f2p[FidOf(p)].path = p
      BY <2>1, <2>3
    <2>7. /\ \A i \in Fids : i # FidOf(p) => db'.f2p[i] = db.f2p[i]
          /\ db.f2p[FidOf(p)] # NoRec => db.f2p[FidOf(p)].path = p
          /\ db.f2p[FidOf(p)] = NoRec => FidOf(p) = nextkey
      BY <2>1, <2>3
    <2> QED BY <2>1, <2>2, <2>5, <2>6, <2>7
  <1>2. CASE GP!gpath_path2fid(p) = NoRec
    <2>1. /\ FidOf(p) = nextkey /\ nextkey' = nextkey + 1 /\ nextkey <= MaxFid
          /\ db' = GP!WithFile(db, p, nextkey, t) /\ disk' = disk
      BY <1>2 DEF GP!gpath_put, FidOf
    <2>2. mode \in {1, 2}
      BY DEF Protocol, Creating, Updating, Ending
    <2>3. nextkey >= 1 /\ nextkey \in Nat
      <3>1. nextkey \in Nat /\ (disk # NoFile => disk.next \in Nat)
        BY GpathFacts, GpathAssumption DEF GP!TypeOK, GP!Db
      <3>2. mode = 1 => nextkey >= 1
        BY GpathFacts, Zenon
      <3>3. mode = 2 => disk # NoFile /\ 1 <= disk.next /\ disk.next <= nextkey
        BY GpathFacts, Zenon
      <3> QED BY <3>1, <3>2, <3>3, <2>2
    <2>4. nextkey \in Fids
      BY <2>1, <2>3, GpathAssumption DEF Fids
    <2>5. db.f2p \in [Fids -> GP!FidRec \cup {NoRec}]
      BY GpathFacts DEF GP!TypeOK, GP!Db, GP!Fids, Fids
    <2>6. db'.f2p = [db.f2p EXCEPT ![nextkey] = [path |-> p, type |-> t]]
      BY <2>1 DEF GP!WithFile
    <2>7. [path |-> p, type |-> t] # NoRec
      BY GpathAssumption DEF GP!FidRec
    <2>8. db.f2p[nextkey] = NoRec
      BY <2>3, <2>4, GpathFacts
    <2> QED BY <2>1, <2>3, <2>4, <2>5, <2>6, <2>7, <2>8
  <1> QED BY <1>1, <1>2

\* A parse puts its tags into both images, under the identifier GPATH gives.
LEMMA ParseIntoTags ==
  ASSUME Protocol, GPP!IInv, TreeType, TagsType, opened > 0, created = FALSE,
         NEW p \in Paths, lang[p] = "source" => Exists(p), ParseInto(p)
  PROVE  /\ FidOf(p) \in Fids
         /\ gtop' = [GTAGS |-> gtags_put(gtop.GTAGS, FidOf(p), p),
                     GRTAGS |-> gtags_put(gtop.GRTAGS, FidOf(p), p)]
         /\ gtop' \in [GTAGS: Tags, GRTAGS: Tags]
  <1>1. FidOf(p) \in Fids
    BY PutFid DEF ParseInto, GP!Types
  <1>2. gtop' = [GTAGS |-> gtags_put(gtop.GTAGS, FidOf(p), p),
                 GRTAGS |-> gtags_put(gtop.GRTAGS, FidOf(p), p)]
    BY DEF ParseInto
  <1>3. gtop.GTAGS \in Tags /\ gtop.GRTAGS \in Tags
    BY DEF TagsType
  <1>4. /\ gtags_put(gtop.GTAGS, FidOf(p), p) \in Tags
        /\ gtags_put(gtop.GRTAGS, FidOf(p), p) \in Tags
    BY <1>1, <1>3, PutTags
  <1> QED BY <1>1, <1>2, <1>4

\* The tag files keep their types, and exist when an update works on them.
LEMMA TagsStep ==
  ASSUME Protocol, GPP!IInv, TreeType, TagsType, FilesExist, [Next]_vars
  PROVE  TagsType' /\ FilesExist'
  <1> USE DEF FilesExist, Updating, TagsType
  <1>0. /\ gtop.GTAGS \in Tags /\ gtop.GRTAGS \in Tags
        /\ NewFile \in Tags /\ NewImage \in Tags /\ NoFile \notin Tags
        /\ clock \in Times /\ 0 \in Times
    BY NewTags, TagsAssumption, GtagsAssumption DEF TreeType, Times
  <1>1. CASE Environment \/ ProcessExit \/ Die
    <2>1. UNCHANGED tagFiles
          /\ (UNCHANGED <<pc, gtop>> \/ (pc' = "idle" /\ gtop' = Closed))
      BY <1>1 DEF Environment, Write, Remove, Reconfigure, Tick, Crash, ProcessExit,
         Die, ForgetMemory
    <2> QED BY <2>1, <1>0 DEF tagFiles, Closed
  <1>2. CASE CreateGTAGS \/ CreateGRTAGS
    BY <1>2, <1>0 DEF CreateGTAGS, CreateGRTAGS
  <1>3. ASSUME NEW p \in Paths, CreateFile(p) PROVE TagsType' /\ FilesExist'
    <2>1. pc = "create" /\ pc' = pc /\ UNCHANGED tagFiles
      BY <1>3 DEF CreateFile
    <2>2. CASE UNCHANGED gtop
      BY <2>1, <2>2 DEF tagFiles
    <2>3. CASE Exists(p) /\ ParseInto(p)
      <3>1. opened > 0 /\ created = FALSE
        BY <2>1 DEF Protocol, Creating, Ending
      <3>2. gtop' \in [GTAGS: Tags, GRTAGS: Tags]
        BY <2>3, <3>1, ParseIntoTags
      <3> QED BY <2>1, <3>2 DEF tagFiles
    <2> QED BY <1>3, <2>2, <2>3 DEF CreateFile
  <1>4. CASE CreateCloseGTAGS \/ CreateCloseGPATH \/ CreateCloseGRTAGS
    BY <1>4, <1>0 DEF CreateCloseGTAGS, CreateCloseGPATH, CreateCloseGRTAGS,
       tagFiles
  <1>5. CASE UpdateAll \/ \E p \in Paths : UpdateOne(p)
    <2>1. TagFilesExist /\ UNCHANGED <<tagFiles, gtop>>
      BY <1>5 DEF UpdateAll, UpdateOne, StartUpdate
    <2> QED BY <2>1 DEF TagFilesExist, tagFiles
  <1>6. CASE \/ \E p \in Paths : Inspect(p) \/ DeletePath(p) \/ PutOther(p)
             \/ MakeDeleteList \/ SkipTags \/ CloseGPATH
    <2>1. UNCHANGED <<tagFiles, gtop>> /\ pc \in Updating
      BY <1>6 DEF Inspect, DeletePath, PutOther, MakeDeleteList, SkipTags, CloseGPATH
    <2> QED BY <2>1 DEF tagFiles
  <1>7. CASE OpenGTAGS \/ OpenGRTAGS
    BY <1>7, <1>0 DEF OpenGTAGS, OpenGRTAGS, tagFiles
  <1>8. CASE DeleteTags
    <2>1. /\ gtags_delete(gtop.GTAGS, deleteset) \in Tags
          /\ gtags_delete(gtop.GRTAGS, deleteset) \in Tags
      BY <1>0, DeleteFromTags
    <2> QED BY <1>8, <2>1 DEF DeleteTags, tagFiles
  <1>9. ASSUME NEW p \in Paths, AddTags(p) PROVE TagsType' /\ FilesExist'
    <2>1. /\ pc = "add" /\ pc' = pc /\ UNCHANGED tagFiles
          /\ lang[p] = "source" => Exists(p)
          /\ ParseInto(p)
      BY <1>9 DEF AddTags, CannotParse
    <2>2. opened > 0 /\ created = FALSE
      BY <2>1 DEF Protocol, Ending
    <2>3. gtop' \in [GTAGS: Tags, GRTAGS: Tags]
      BY <2>1, <2>2, ParseIntoTags
    <2> QED BY <2>1, <2>3 DEF tagFiles
  <1>10. CASE CloseGTAGS \/ CloseGRTAGS \/ Touch
    BY <1>10, <1>0 DEF CloseGTAGS, CloseGRTAGS, Touch, tagFiles
  <1>11. CASE UNCHANGED vars
    BY <1>11 DEF vars, tagFiles
  <1> QED BY <1>1, <1>2, <1>3, <1>4, <1>5, <1>6, <1>7, <1>8, <1>9, <1>10, <1>11
          DEF Next, Create, Incremental, WholeUpdate

Typed == TypeOK /\ FilesExist

\* The initial state has its type.
LEMMA InitTyped == Init => Typed
  <1> SUFFICES ASSUME Init PROVE Typed
    OBVIOUS
  <1> USE GtagsAssumption DEF Init, Times
  <1>1. TreeType
    BY DEF TreeType
  <1>2. TagsType
    BY NewTags DEF TagsType, Closed
  <1>3. ListsType
    BY DEF ListsType
  <1>4. torn \in BOOLEAN
    BY Zenon
  <1>5. HistoryType
    BY <1>4 DEF HistoryType
  <1>6. GP!TypeOK
    BY SameGpath, GpathAssumptions, GPP!InitIInv, GpathFacts
  <1> QED BY <1>1, <1>2, <1>3, <1>5, <1>6 DEF Typed, TypeOK, FilesExist, Updating

\* All states of gtags have their type.
LEMMA SpecTyped == Spec => [](Protocol /\ GPP!IInv /\ Typed)
  <1>1. ASSUME Protocol, GPP!IInv, Typed, [Next]_vars, Protocol', GPP!IInv'
        PROVE  Typed'
    <2>1. TreeType' /\ HistoryType' /\ ListsType' /\ TagsType' /\ FilesExist'
      BY <1>1, TreeStep, HistoryStep, ListsStep, TagsStep DEF Typed, TypeOK
    <2>2. GP!TypeOK'
      BY <1>1, GpathFacts, PTL
    <2>3. pc' \in {"idle"} \cup Creating \cup Updating \cup Ending
      BY <1>1 DEF Protocol
    <2> QED BY <2>1, <2>2, <2>3 DEF Typed, TypeOK, Creating, Updating, Ending
  <1> QED BY <1>1, InitTyped, SpecGpath, PTL DEF Spec

\* Every state of the process, its files and its tables is well typed.
THEOREM GtagsTypeCorrect == Spec => []TypeOK
BY SpecTyped, PTL DEF Typed

----------------------------------------------------------------------------
(* Identifiers.  gtags writes GTAGS, GRTAGS and GPATH at three different   *)
(* moments.  What it reads and writes agrees with one of two tables: the   *)
(* file GPATH, or the image GPATH is about to become.                      *)

\* No record is under an identifier that is still to be issued.
Below(T, n) == \A i \in Fids : T.rec[i] # <<>> => i < n

\* Where the table has a file, the records are the tags of that file.
Owned(T, d) == \A i \in Fids : d.f2p[i] # NoRec =>
                 \A k \in DOMAIN T.rec[i] : T.rec[i][k].path = d.f2p[i].path

OnDisk(T, f) == Below(T, f.next) /\ Owned(T, f)
InMemory(T, n, d, f) == Below(T, n) /\ Owned(T, d) /\ Owned(T, f)

Memory(T) == InMemory(T, nextkey, db, disk)

\* From the writing of GTAGS to that of GPATH.
Window == {"close_GRTAGS_MODIFY", "paths", "close"}

IdsClean ==
  /\ pc \in {"open_GRTAGS", "create"} => Memory(gtop.GTAGS)
  /\ pc = "create" => Memory(gtop.GRTAGS) /\ grtags = NewFile
  /\ pc = "close_GPATH" => /\ Memory(gtags) /\ Memory(gtop.GRTAGS)
                           /\ gtags # NoFile /\ grtags = NewFile
  /\ pc = "close_GRTAGS" => /\ OnDisk(gtags, disk) /\ OnDisk(gtop.GRTAGS, disk)
                            /\ gtags # NoFile /\ grtags = NewFile
  /\ ~ torn =>
     /\ TagFilesExist /\ disk.next # 0 /\ pc \notin Window =>
          OnDisk(gtags, disk) /\ OnDisk(grtags, disk)
     /\ pc = "open_GRTAGS_MODIFY" => Memory(gtop.GTAGS)
     /\ pc \in {"delete", "add"} => Memory(gtop.GTAGS) /\ Memory(gtop.GRTAGS)
     /\ pc = "close_GRTAGS_MODIFY" => Memory(gtags) /\ Memory(gtop.GRTAGS)
     /\ pc \in {"paths", "close"} => Memory(gtags) /\ Memory(grtags)

\* A file without records agrees with every table.
LEMMA NoTagsClean ==
  ASSUME NEW T \in {NewFile, NewImage}, NEW n, NEW d, NEW f
  PROVE  InMemory(T, n, d, f) /\ OnDisk(T, f)
BY DEF NewFile, NewImage, NoTags, InMemory, OnDisk, Below, Owned

\* What agrees with the file agrees with the image loaded from it.
LEMMA LoadedClean ==
  ASSUME GPP!IInv, opened > 0, mode = 2, NEW T \in Tags, OnDisk(T, disk)
  PROVE  Memory(T)
  <1>1. disk # NoFile /\ 1 <= disk.next /\ disk.next <= nextkey
    BY GpathFacts, Zenon
  <1>2. \A i \in Fids : (db.f2p[i] # NoRec /\ i < disk.next) =>
                           db.f2p[i] = disk.f2p[i]
    BY GpathFacts, Zenon
  <1>3. nextkey \in Nat /\ disk.next \in Nat
    BY <1>1, GpathFacts, GpathAssumption DEF GP!TypeOK, GP!Db
  <1>4. Below(T, disk.next) /\ Owned(T, disk)
    BY DEF OnDisk
  <1>5. Below(T, nextkey)
    BY <1>1, <1>3, <1>4, GpathAssumption DEF Below, Fids
  <1>6. Owned(T, db)
    <2> SUFFICES ASSUME NEW i \in Fids, db.f2p[i] # NoRec, NEW k \in DOMAIN T.rec[i]
                 PROVE  T.rec[i][k].path = db.f2p[i].path
      BY DEF Owned
    <2>1. CASE i < disk.next
      BY <2>1, <1>2, <1>4 DEF Owned
    <2>2. CASE ~ (i < disk.next)
      <3>1. T.rec[i] = <<>>
        BY <2>2, <1>4 DEF Below
      <3> QED BY <3>1
    <2> QED BY <2>1, <2>2
  <1> QED BY <1>4, <1>5, <1>6 DEF Memory, InMemory

\* gpath_put gives an identifier no record is under, and the tags that are put
\* under it are those of its file.
LEMMA PutClean ==
  ASSUME Protocol, GPP!IInv, TreeType, opened > 0, created = FALSE,
         NEW p \in Paths, NEW t \in GP!Types, GP!gpath_put(p, t),
         NEW T \in Tags, Memory(T)
  PROVE  /\ InMemory(T, nextkey', db', disk')
         /\ (lang[p] = "source" => Exists(p)) =>
              InMemory(gtags_put(T, FidOf(p), p), nextkey', db', disk')
  <1> DEFINE i == FidOf(p)
  <1>1. /\ i \in Fids /\ i < nextkey' /\ nextkey \in Nat /\ nextkey' \in Nat
        /\ nextkey <= nextkey' /\ disk' = disk
    BY PutFid
  <1>2. /\ db'.f2p[i] # NoRec /\ db'.f2p[i].path = p
        /\ \A j \in Fids : j # i => db'.f2p[j] = db.f2p[j]
        /\ db.f2p[i] # NoRec => db.f2p[i].path = p
        /\ db.f2p[i] = NoRec => i = nextkey
    BY PutFid
  <1>3. disk.f2p[i] # NoRec => disk.f2p[i].path = p
    <2>1. CASE mode = 1
      <3>1. disk = GP!EmptyDb
        BY <2>1, GpathFacts, Zenon
      <3>2. GP!EmptyDb.f2p[i] = NoRec
        BY <1>1 DEF GP!EmptyDb, GP!Fids, Fids
      <3> QED BY <3>1, <3>2
    <2>2. CASE mode = 2
      <3>1. disk # NoFile /\ 1 <= disk.next /\ disk.next <= nextkey
        BY <2>2, GpathFacts, Zenon
      <3>2. db.f2p[i] # NoRec /\ i < disk.next => db.f2p[i] = disk.f2p[i]
        BY <2>2, <1>1, GpathFacts, Zenon
      <3>3. disk.f2p[i] # NoRec => i < disk.next
        BY <3>1, <1>1, GpathFacts, Zenon
      <3>4. disk.next \in Nat /\ i \in Nat
        BY <1>1, <3>1, GpathFacts, GpathAssumption DEF GP!TypeOK, GP!Db, Fids
      <3> QED BY <1>1, <1>2, <3>1, <3>2, <3>3, <3>4
    <2> QED BY <2>1, <2>2 DEF Protocol, Creating, Updating, Ending
  <1>4. Below(T, nextkey) /\ Owned(T, db) /\ Owned(T, disk)
    BY DEF Memory, InMemory
  <1>5. \A k \in DOMAIN T.rec[i] : T.rec[i][k].path = p
    <2>1. CASE db.f2p[i] # NoRec
      BY <2>1, <1>1, <1>2, <1>4 DEF Owned
    <2>2. CASE db.f2p[i] = NoRec
      <3>1. T.rec[i] = <<>>
        BY <2>2, <1>1, <1>2, <1>4 DEF Below
      <3> QED BY <3>1
    <2> QED BY <2>1, <2>2
  <1>6. ASSUME NEW U \in Tags,
               \A j \in Fids : j # i => U.rec[j] = T.rec[j],
               \A k \in DOMAIN U.rec[i] : U.rec[i][k].path = p
        PROVE  InMemory(U, nextkey', db', disk')
    <2>1. Below(U, nextkey')
      BY <1>1, <1>4, <1>6, GpathAssumption DEF Below, Fids
    <2>2. Owned(U, db')
      BY <1>1, <1>2, <1>4, <1>6 DEF Owned
    <2>3. Owned(U, disk')
      BY <1>1, <1>3, <1>4, <1>6 DEF Owned
    <2> QED BY <2>1, <2>2, <2>3 DEF InMemory
  <1>7. InMemory(T, nextkey', db', disk')
    BY <1>5, <1>6
  <1>8. ASSUME lang[p] = "source" => Exists(p)
        PROVE  InMemory(gtags_put(T, i, p), nextkey', db', disk')
    <2> DEFINE U == gtags_put(T, i, p)
    <2>1. /\ U \in Tags
          /\ \A j \in Fids : j # i => U.rec[j] = T.rec[j]
          /\ \/ U.rec[i] = T.rec[i]
             \/ U.rec[i] = Append(T.rec[i], [path |-> p, ver |-> text[p]])
      BY <1>1, <1>8, PutTags
    <2>2. \A k \in DOMAIN U.rec[i] : U.rec[i][k].path = p
      <3> DEFINE r == [path |-> p, ver |-> text[p]]
      <3>1. T.rec[i] \in Seq(TagRec)
        BY <1>1 DEF Tags
      <3>2. CASE U.rec[i] = T.rec[i]
        BY <3>2, <1>5
      <3>3. CASE U.rec[i] = Append(T.rec[i], r)
        <4>1. \A k \in DOMAIN Append(T.rec[i], r) :
                \/ k \in DOMAIN T.rec[i] /\ Append(T.rec[i], r)[k] = T.rec[i][k]
                \/ Append(T.rec[i], r)[k] = r
          BY <3>1
        <4> QED BY <3>3, <4>1, <1>5
      <3> QED BY <3>2, <3>3, <2>1
    <2> HIDE DEF U
    <2>3. InMemory(U, nextkey', db', disk')
      BY <2>1, <2>2, <1>6
    <2> QED BY <2>3 DEF U
  <1> QED BY <1>7, <1>8

\* Deleting records, and deleting files, leaves nothing under a wrong name.
LEMMA DeleteClean ==
  ASSUME NEW T \in Tags, NEW ids, NEW n, NEW d, NEW f, InMemory(T, n, d, f)
  PROVE  InMemory(gtags_delete(T, ids), n, d, f)
  <1>1. \A j \in Fids : \/ gtags_delete(T, ids).rec[j] = T.rec[j]
                        \/ gtags_delete(T, ids).rec[j] = <<>>
    BY DeleteFromTags
  <1> QED BY <1>1 DEF InMemory, Below, Owned

\* An image in memory stays clean when a path is deleted from GPATH.
LEMMA PathDeletedClean ==
  ASSUME GPP!IInv, NEW p \in Paths, GP!gpath_delete(p), NEW T \in Tags, Memory(T)
  PROVE  InMemory(T, nextkey', db', disk')
  <1>1. nextkey' = nextkey /\ disk' = disk
    BY DEF GP!gpath_delete
  <1>2. \A j \in Fids : db'.f2p[j] # NoRec => db'.f2p[j] = db.f2p[j]
    <2>1. CASE GP!gpath_path2fid(p) = NoRec
      BY <2>1 DEF GP!gpath_delete
    <2>2. CASE GP!gpath_path2fid(p) # NoRec
      <3>1. db'.f2p = [db.f2p EXCEPT ![db.p2f[p].fid] = NoRec]
        BY <2>2 DEF GP!gpath_delete, GP!WithoutFile
      <3>2. db.f2p \in [Fids -> GP!FidRec \cup {NoRec}]
        BY GpathFacts DEF GP!TypeOK, GP!Db, GP!Fids, Fids
      <3> QED BY <3>1, <3>2
    <2> QED BY <2>1, <2>2
  <1> QED BY <1>1, <1>2 DEF Memory, InMemory, Owned

\* The last gpath_close makes the image the file.
LEMMA CommitClean ==
  ASSUME Protocol, GP!gpath_close, opened = 1, created = FALSE,
         pc \in Creating \cup Updating
  PROVE  disk'.next = nextkey /\ \A T \in Tags : Memory(T) => OnDisk(T, disk')
  <1>1. disk' = GP!WithNextkey(db, nextkey)
    BY DEF Protocol, Creating, Updating, Ending, GP!gpath_close, GP!DbMode
  <1> QED BY <1>1 DEF GP!WithNextkey, Memory, InMemory, OnDisk, Owned

\* A process killed when nothing in the window has been written leaves files
\* that agree with the old GPATH.
LEMMA UntornClean ==
  ASSUME Protocol, GPP!IInv, pc \in {"paths", "close"}, ~ Torn,
         gtags \in Tags, grtags \in Tags, Memory(gtags), Memory(grtags)
  PROVE  OnDisk(gtags, disk) /\ OnDisk(grtags, disk)
  <1>1. mode = 2 /\ opened > 0
    BY DEF Protocol, Updating
  <1>2. disk # NoFile /\ 1 <= disk.next /\ disk.next <= nextkey
    BY <1>1, GpathFacts, Zenon
  <1>3. nextkey \in Nat /\ disk.next \in Nat
    BY <1>2, GpathFacts, GpathAssumption DEF GP!TypeOK, GP!Db
  <1>4. \A i \in disk.next .. nextkey - 1 : gtags.rec[i] = <<>> /\ grtags.rec[i] = <<>>
    BY DEF Torn
  <1>5. Below(gtags, nextkey) /\ Below(grtags, nextkey)
    BY DEF Memory, InMemory
  <1>6. \A i \in Fids : i < nextkey /\ ~ (i < disk.next) => i \in disk.next .. nextkey - 1
    BY <1>3, GpathAssumption DEF Fids
  <1>7. Below(gtags, disk.next) /\ Below(grtags, disk.next)
    BY <1>4, <1>5, <1>6 DEF Below
  <1> QED BY <1>7 DEF Memory, InMemory, OnDisk

\* gpath_open of an open table, and gpath_close of one opened twice, change
\* nothing; the first gpath_open to modify loads the file.
LEMMA GpathQuiet ==
  /\ GP!gpath_open(1) /\ opened > 0 => UNCHANGED <<nextkey, db, disk>>
  /\ GP!gpath_open(2) /\ opened > 0 => UNCHANGED <<nextkey, db, disk>>
  /\ GP!gpath_close /\ opened > 1 => UNCHANGED <<nextkey, db, disk>>
  /\ GP!gpath_open(2) /\ opened = 0 => /\ disk.next # 0 /\ disk' = disk
                                       /\ db' = disk /\ nextkey' = disk.next
BY DEF GP!gpath_open, GP!OpenAgain, GP!OpenCreate, GP!OpenExisting, GP!gpath_close,
   GP!DbMode

\* Everything the invariant reads but the program counter.
files == <<gtags, grtags, gtop, torn, nextkey, db, disk>>

\* createtags keeps the identifiers clean, call by call.
LEMMA CreateIds ==
  ASSUME Protocol, GPP!IInv, Typed, IdsClean, Create
  PROVE  IdsClean'
  <1> USE DEF Creating, Updating, Ending, Window
  <1>0. /\ gtop.GTAGS \in Tags /\ gtop.GRTAGS \in Tags
        /\ NewFile \in Tags /\ NewFile # NoFile /\ NoFile \notin Tags
    BY NewTags, TagsAssumption DEF Typed, TypeOK, TagsType
  <1>1. CASE CreateGTAGS
    <2>1. /\ pc' = "open_GRTAGS"
          /\ gtop'.GTAGS = NewImage
      BY <1>1 DEF CreateGTAGS
    <2>2. disk'.next = 0
      <3>1. pc = "idle" /\ GP!gpath_open(1)
        BY <1>1 DEF CreateGTAGS
      <3>2. opened = 0 /\ created = FALSE
        BY <3>1 DEF Protocol
      <3> QED BY <3>1, <3>2 DEF GP!gpath_open, GP!OpenAgain, GP!OpenCreate,
                 GP!OpenExisting, GP!DbMode, GP!EmptyDb
    <2>3. InMemory(gtop'.GTAGS, nextkey', db', disk')
      BY <2>1, NoTagsClean
    <2> QED BY <2>1, <2>2, <2>3 DEF IdsClean, Memory
  <1>2. CASE CreateGRTAGS
    <2>1. /\ pc = "open_GRTAGS" /\ pc' = "create" /\ grtags' = NewFile
          /\ gtop' = [GTAGS |-> gtop.GTAGS, GRTAGS |-> NewImage]
          /\ GP!gpath_open(1) /\ torn' = torn
      BY <1>2 DEF CreateGRTAGS, history
    <2>2. opened > 0 /\ mode = 1 /\ created = FALSE
      BY <2>1 DEF Protocol
    <2>3. UNCHANGED <<nextkey, db, disk>> /\ disk.next = 0
      <3>1. disk = GP!EmptyDb
        BY <2>2, GpathFacts, Zenon
      <3> QED BY <2>1, <2>2, <3>1, GpathQuiet DEF GP!EmptyDb
    <2>4. InMemory(gtop'.GTAGS, nextkey', db', disk')
      BY <2>1, <2>3 DEF IdsClean, Memory
    <2>5. InMemory(gtop'.GRTAGS, nextkey', db', disk')
      BY <2>1, NoTagsClean
    <2> QED BY <2>1, <2>3, <2>4, <2>5 DEF IdsClean, Memory
  <1>3. ASSUME NEW p \in Paths, CreateFile(p) PROVE IdsClean'
    <2>1. /\ pc = "create" /\ pc' = pc /\ grtags' = grtags /\ torn' = torn
          /\ Memory(gtop.GTAGS) /\ Memory(gtop.GRTAGS) /\ grtags = NewFile
      BY <1>3 DEF CreateFile, tagFiles, history, IdsClean
    <2>2. opened > 0 /\ mode = 1 /\ created = FALSE
      BY <2>1 DEF Protocol
    <2>3. disk = GP!EmptyDb
      BY <2>2, GpathFacts, Zenon
    <2>4. disk' = disk
      BY <1>3 DEF CreateFile, ParseInto, GP!gpath_put, gpath, GP!gpathVars
    <2>5. /\ InMemory(gtop'.GTAGS, nextkey', db', disk')
          /\ InMemory(gtop'.GRTAGS, nextkey', db', disk')
      <3>1. CASE UNCHANGED <<gtop, gpath>>
        BY <3>1, <2>1 DEF gpath, Memory
      <3>2. CASE GP!gpath_put(p, "other") /\ UNCHANGED gtop
        BY <3>2, <2>1, <2>2, <1>0, PutClean DEF GP!Types, Typed, TypeOK
      <3>3. CASE Exists(p) /\ ParseInto(p)
        BY <3>3, <2>1, <2>2, <1>0, PutClean
           DEF ParseInto, GP!Types, Typed, TypeOK
      <3> QED BY <1>3, <3>1, <3>2, <3>3 DEF CreateFile
    <2>6. disk'.next = 0
      BY <2>3, <2>4 DEF GP!EmptyDb
    <2> QED BY <2>1, <2>5, <2>6 DEF IdsClean, Memory
  <1>4. CASE CreateCloseGTAGS
    <2>1. /\ pc = "create" /\ pc' = "close_GPATH" /\ grtags' = grtags
          /\ gtags' = gtop.GTAGS /\ gtop' = gtop /\ GP!gpath_close
      BY <1>4 DEF CreateCloseGTAGS
    <2>2. opened > 0 /\ opened > 1 /\ mode = 1 /\ created = FALSE
      BY <2>1 DEF Protocol
    <2>3. UNCHANGED <<nextkey, db, disk>> /\ disk.next = 0
      <3>1. disk = GP!EmptyDb
        BY <2>2, GpathFacts, Zenon
      <3> QED BY <2>1, <2>2, <3>1, GpathQuiet DEF GP!EmptyDb
    <2> QED BY <2>1, <2>3, <1>0 DEF IdsClean, Memory
  <1>5. CASE CreateCloseGPATH
    <2>1. /\ pc = "close_GPATH" /\ pc' = "close_GRTAGS"
          /\ UNCHANGED <<gtags, grtags, gtop, torn>> /\ GP!gpath_close
      BY <1>5 DEF CreateCloseGPATH, tagFiles, history
    <2>2. opened = 1 /\ created = FALSE
      BY <2>1 DEF Protocol
    <2>3. /\ Memory(gtags) /\ Memory(gtop.GRTAGS) /\ gtags \in Tags
          /\ gtags # NoFile /\ grtags = NewFile
      BY <2>1 DEF IdsClean, Typed, TypeOK, TagsType
    <2>4. OnDisk(gtags, disk') /\ OnDisk(gtop.GRTAGS, disk')
      BY <2>1, <2>2, <2>3, <1>0, CommitClean
    <2>5. OnDisk(NewFile, disk')
      BY NoTagsClean
    <2> QED BY <2>1, <2>3, <2>4, <2>5 DEF IdsClean
  <1>6. CASE CreateCloseGRTAGS
    BY <1>6 DEF CreateCloseGRTAGS, IdsClean, gpath, history
  <1> QED BY <1>1, <1>2, <1>3, <1>4, <1>5, <1>6 DEF Create

\* Edits, kills and the end of a process keep the identifiers clean.
LEMMA EndIds ==
  ASSUME Protocol, GPP!IInv, Typed, IdsClean,
         Environment \/ ProcessExit \/ Die \/ UNCHANGED vars
  PROVE  IdsClean'
  <1> USE DEF Creating, Updating, Ending, Window
  <1>0. ASSUME UNCHANGED <<pc, files>> PROVE IdsClean'
    BY <1>0 DEF files, IdsClean, Memory, TagFilesExist, GP!HasFile
  <1>1. CASE \E p \in Paths : Write(p) \/ Remove(p) \/ Reconfigure(p)
    BY <1>0, <1>1 DEF Write, Remove, Reconfigure, files, gpath, tagFiles, history
  <1>2. CASE Tick \/ UNCHANGED vars
    BY <1>0, <1>2 DEF Tick, vars, files, gpath, tagFiles, history
  <1>3. CASE ProcessExit \/ Die
    <2>1. /\ pc \in {"exit", "open_GRTAGS_MODIFY", "add"} /\ pc' = "idle"
          /\ UNCHANGED <<gtags, grtags, torn, disk>>
      BY <1>3 DEF ProcessExit, Die, ForgetMemory, GP!Exit, tagFiles
    <2> QED BY <2>1 DEF IdsClean, TagFilesExist, GP!HasFile
  <1>4. CASE Crash
    <2>1. /\ pc # "idle" /\ pc' = "idle" /\ UNCHANGED <<gtags, grtags, disk>>
          /\ torn' = (torn \/ Torn)
      BY <1>4 DEF Crash, ForgetMemory, GP!Exit, tagFiles
    <2> SUFFICES ASSUME ~ torn', TagFilesExist', disk'.next # 0
                 PROVE  OnDisk(gtags, disk) /\ OnDisk(grtags, disk)
      BY <2>1 DEF IdsClean
    <2>2. ~ torn /\ ~ Torn
      BY <2>1
    <2>3. TagFilesExist /\ disk.next # 0
      BY <2>1 DEF TagFilesExist, GP!HasFile
    <2>4. gtags \in Tags /\ grtags \in Tags
      BY <2>3 DEF TagFilesExist, Typed, TypeOK, TagsType
    <2>5. CASE pc \in Window
      <3>1. pc \in {"paths", "close"}
        BY <2>2, <2>5 DEF Torn
      <3> QED BY <2>2, <2>4, <3>1, UntornClean DEF IdsClean
    <2>6. CASE pc \notin Window
      BY <2>2, <2>3, <2>6 DEF IdsClean
    <2> QED BY <2>5, <2>6
  <1> QED BY <1>1, <1>2, <1>3, <1>4 DEF Environment

\* incremental and updatetags keep the identifiers clean, call by call.
LEMMA UpdateIds ==
  ASSUME Protocol, GPP!IInv, Typed, IdsClean, Incremental, GPP!IInv', Protocol'
  PROVE  IdsClean'
  <1> USE DEF Creating, Updating, Ending, Window
  <1>0. /\ gtop.GTAGS \in Tags /\ gtop.GRTAGS \in Tags
        /\ gtags \in Tags \cup {NoFile} /\ grtags \in Tags \cup {NoFile}
        /\ TreeType
    BY DEF Typed, TypeOK, TagsType
  \* While an update runs the three files exist and GPATH has a NEXTKEY.
  <1>a. pc \in Updating => /\ gtags \in Tags /\ grtags \in Tags /\ TagFilesExist
                           /\ opened > 0 /\ mode = 2 /\ created = FALSE
                           /\ disk.next # 0
    <2> SUFFICES ASSUME pc \in Updating
                 PROVE  /\ gtags \in Tags /\ grtags \in Tags /\ TagFilesExist
                        /\ opened > 0 /\ mode = 2 /\ created = FALSE
                        /\ disk.next # 0
      OBVIOUS
    <2>1. opened > 0 /\ mode = 2 /\ created = FALSE
      BY DEF Protocol
    <2>2. disk # NoFile /\ 1 <= disk.next
      BY <2>1, GpathFacts, Zenon
    <2> QED BY <1>0, <2>1, <2>2 DEF Typed, FilesExist, TagFilesExist, GP!HasFile
  <1>b. ASSUME pc \in Updating \ Window, ~ torn
        PROVE  /\ OnDisk(gtags, disk) /\ OnDisk(grtags, disk)
               /\ Memory(gtags) /\ Memory(grtags)
    <2>1. OnDisk(gtags, disk) /\ OnDisk(grtags, disk)
      BY <1>a, <1>b DEF IdsClean
    <2> QED BY <1>a, <1>b, <2>1, LoadedClean
  <1>1. CASE UpdateAll \/ \E p \in Paths : UpdateOne(p)
    <2>1. /\ pc = "idle" /\ pc' \in {"inspect", "decide", "close"}
          /\ UNCHANGED <<gtags, grtags, gtop, torn>>
      BY <1>1 DEF UpdateAll, UpdateOne, StartUpdate, tagFiles
    <2>2. TagFilesExist /\ GP!gpath_open(2) /\ opened = 0
      BY <1>1, <2>1 DEF UpdateAll, UpdateOne, StartUpdate, Protocol
    <2>3. disk.next # 0 /\ disk' = disk /\ db' = disk /\ nextkey' = disk.next
      BY <2>2, GpathQuiet
    <2>4. ASSUME ~ torn
          PROVE  /\ OnDisk(gtags, disk') /\ OnDisk(grtags, disk')
                 /\ InMemory(gtags, nextkey', db', disk')
                 /\ InMemory(grtags, nextkey', db', disk')
      <3>1. OnDisk(gtags, disk) /\ OnDisk(grtags, disk)
        BY <2>1, <2>2, <2>3, <2>4 DEF IdsClean
      <3> QED BY <2>3, <3>1 DEF OnDisk, InMemory
    <2> QED BY <2>1, <2>4 DEF IdsClean, Memory
  <1>2. CASE OpenGTAGS
    <2>1. /\ pc = "decide" /\ pc' = "open_GRTAGS_MODIFY"
          /\ UNCHANGED <<gtags, grtags, torn>> /\ gtop'.GTAGS = gtags
          /\ GP!gpath_open(2)
      BY <1>2 DEF OpenGTAGS, tagFiles, history
    <2>2. UNCHANGED <<nextkey, db, disk>>
      BY <2>1, <1>a, GpathQuiet
    <2>3. ~ torn => OnDisk(gtags, disk) /\ OnDisk(grtags, disk) /\ Memory(gtags)
      BY <2>1, <1>b
    <2> QED BY <2>1, <2>2, <2>3 DEF IdsClean, Memory
  <1>3. CASE OpenGRTAGS
    <2>1. /\ pc = "open_GRTAGS_MODIFY" /\ pc' = "delete"
          /\ UNCHANGED <<gtags, grtags, torn>>
          /\ gtop' = [GTAGS |-> gtop.GTAGS, GRTAGS |-> grtags] /\ GP!gpath_open(2)
      BY <1>3 DEF OpenGRTAGS, tagFiles, history
    <2>2. UNCHANGED <<nextkey, db, disk>>
      BY <2>1, <1>a, GpathQuiet
    <2>3. ~ torn => /\ OnDisk(gtags, disk) /\ OnDisk(grtags, disk)
                    /\ Memory(gtop.GTAGS) /\ Memory(grtags)
      BY <2>1, <1>b DEF IdsClean
    <2> QED BY <2>1, <2>2, <2>3 DEF IdsClean, Memory
  <1>4. CASE DeleteTags
    <2>1. /\ pc = "delete" /\ pc' = "add"
          /\ UNCHANGED <<gtags, grtags, torn, nextkey, db, disk>>
          /\ gtop' = [GTAGS |-> gtags_delete(gtop.GTAGS, deleteset),
                      GRTAGS |-> gtags_delete(gtop.GRTAGS, deleteset)]
      BY <1>4 DEF DeleteTags, tagFiles, history, gpath
    <2>2. ~ torn => OnDisk(gtags, disk) /\ OnDisk(grtags, disk)
      BY <2>1, <1>b
    <2>3. ~ torn => /\ InMemory(gtop'.GTAGS, nextkey, db, disk)
                    /\ InMemory(gtop'.GRTAGS, nextkey, db, disk)
      BY <2>1, <1>0, DeleteClean DEF IdsClean, Memory
    <2> QED BY <2>1, <2>2, <2>3 DEF IdsClean, Memory
  <1>5. ASSUME NEW p \in Paths, AddTags(p) PROVE IdsClean'
    <2>1. /\ pc = "add" /\ pc' = "add" /\ UNCHANGED <<gtags, grtags, torn>>
          /\ lang[p] = "source" => Exists(p)
          /\ gtop' = [GTAGS |-> gtags_put(gtop.GTAGS, FidOf(p), p),
                      GRTAGS |-> gtags_put(gtop.GRTAGS, FidOf(p), p)]
      BY <1>5 DEF AddTags, CannotParse, ParseInto, tagFiles, history
    <2>2. GP!gpath_put(p, "source")
      BY <1>5 DEF AddTags, ParseInto
    <2>3. disk' = disk
      BY <2>2 DEF GP!gpath_put, GP!gpathVars
    <2>4. ~ torn => OnDisk(gtags, disk) /\ OnDisk(grtags, disk)
      BY <2>1, <1>b
    <2>5. ~ torn => /\ InMemory(gtop'.GTAGS, nextkey', db', disk')
                    /\ InMemory(gtop'.GRTAGS, nextkey', db', disk')
      BY <2>1, <2>2, <1>0, <1>a, PutClean DEF IdsClean, GP!Types
    <2> QED BY <2>1, <2>3, <2>4, <2>5 DEF IdsClean, Memory
  <1>6. CASE CloseGTAGS \/ CloseGRTAGS
    <2>1. /\ GP!gpath_close /\ gtop' = gtop /\ torn' = torn
          /\ \/ /\ pc = "add" /\ pc' = "close_GRTAGS_MODIFY"
                /\ gtags' = gtop.GTAGS
             \/ /\ pc = "close_GRTAGS_MODIFY" /\ pc' = "paths"
                /\ gtags' = gtags /\ grtags' = gtop.GRTAGS
      BY <1>6 DEF CloseGTAGS, CloseGRTAGS, history
    <2>2. UNCHANGED <<nextkey, db, disk>>
      <3>1. opened > 1
        BY <2>1 DEF Protocol
      <3> QED BY <2>1, <3>1, GpathQuiet
    <2> QED BY <2>1, <2>2 DEF IdsClean, Memory
  <1>7. CASE SkipTags
    <2>1. /\ pc = "decide" /\ pc' \in {"paths", "close"} /\ UNCHANGED files
      BY <1>7 DEF SkipTags, files, tagFiles, history, gpath
    <2>2. ~ torn => Memory(gtags) /\ Memory(grtags)
      BY <2>1, <1>b
    <2> QED BY <2>1, <2>2 DEF IdsClean, Memory, files
  <1>8. ASSUME NEW p \in Paths, DeletePath(p) \/ PutOther(p) PROVE IdsClean'
    <2>1. /\ pc = "paths" /\ pc' = "paths" /\ UNCHANGED <<gtags, grtags, torn>>
          /\ GP!gpath_delete(p) \/ GP!gpath_put(p, "other")
      BY <1>8 DEF DeletePath, PutOther, tagFiles, history
    <2>2. ~ torn => /\ InMemory(gtags, nextkey', db', disk')
                    /\ InMemory(grtags, nextkey', db', disk')
      BY <2>1, <1>0, <1>a, PutClean, PathDeletedClean DEF IdsClean, GP!Types
    <2> QED BY <2>1, <2>2 DEF IdsClean, Memory
  <1>9. CASE (\E p \in Paths : Inspect(p)) \/ MakeDeleteList \/ Touch
    <2>1. /\ \/ pc = "inspect" /\ pc' \in {"inspect", "decide"}
             \/ pc = "paths" /\ pc' = "close"
          /\ UNCHANGED files
      BY <1>9 DEF Inspect, MakeDeleteList, Touch, files, tagFiles, history, gpath
    <2> QED BY <2>1 DEF IdsClean, Memory, files, TagFilesExist, GP!HasFile
  <1>10. CASE CloseGPATH
    <2>1. /\ pc = "close" /\ pc' = "exit" /\ UNCHANGED <<gtags, grtags, torn>>
      BY <1>10 DEF CloseGPATH, tagFiles, history
    <2>2. ~ torn => OnDisk(gtags, disk') /\ OnDisk(grtags, disk')
      <3>1. GP!gpath_close /\ opened = 1 /\ created = FALSE
        BY <1>10, <2>1 DEF CloseGPATH, Protocol
      <3> QED BY <2>1, <3>1, <1>a, CommitClean DEF IdsClean
    <2> QED BY <2>1, <2>2 DEF IdsClean
  <1> QED BY <1>1, <1>2, <1>3, <1>4, <1>5, <1>6, <1>7, <1>8, <1>9, <1>10
          DEF Incremental, WholeUpdate

\* The identifiers are clean in every state of gtags.
LEMMA SpecIds == Spec => [](Protocol /\ GPP!IInv /\ Typed /\ IdsClean)
  <1>1. Init => IdsClean
    BY DEF Init, IdsClean, TagFilesExist
  <1>2. ASSUME Protocol, GPP!IInv, Typed, IdsClean, [Next]_vars,
               Protocol', GPP!IInv'
        PROVE  IdsClean'
    BY <1>2, CreateIds, UpdateIds, EndIds DEF Next
  <1> QED BY <1>1, <1>2, SpecTyped, PTL DEF Spec

\* However edits, updates, kills and remakes follow one another, an identifier
\* that gpath_put has still to issue has no tags, unless a process was killed
\* between the writing of two of the three files.
THEOREM NewIdsAreCleanCorrect == Spec => []NewIdsAreClean
  <1>1. GPP!IInv /\ Typed /\ IdsClean => NewIdsAreClean
    <2> SUFFICES ASSUME GPP!IInv, IdsClean, Usable, ~ torn,
                        NEW i \in Fids, i >= disk.next
                 PROVE  gtags.rec[i] = <<>> /\ grtags.rec[i] = <<>>
      BY DEF NewIdsAreClean
    <2>1. Below(gtags, disk.next) /\ Below(grtags, disk.next)
      BY DEF IdsClean, Usable, Window, OnDisk
    <2>2. i \in Nat /\ disk.next \in Nat
      BY GpathFacts, GpathAssumption
         DEF Usable, TagFilesExist, GP!HasFile, GP!TypeOK, GP!Db, Fids
    <2>3. ~ (i < disk.next)
      BY <2>2
    <2> QED BY <2>1, <2>3 DEF Below
  <1> QED BY <1>1, SpecIds, PTL

\* Nor does a file ever show the tags of another file, one that had its
\* identifier before: the tags under it are its own.
THEOREM NoForeignTagsCorrect == Spec => []NoForeignTags
  <1>1. GPP!IInv /\ IdsClean => NoForeignTags
    <2> SUFFICES ASSUME GPP!IInv, IdsClean, Usable, ~ torn, NEW p \in Paths,
                        NEW n \in DOMAIN Shown(gtags, p)
                 PROVE  Shown(gtags, p)[n].path = p
      BY DEF NoForeignTags
    <2>1. Owned(gtags, disk)
      BY DEF IdsClean, Usable, Window, OnDisk
    <2>2. disk # NoFile
      BY DEF Usable, TagFilesExist, GP!HasFile
    <2>3. CASE disk.p2f[p] = NoRec
      BY <2>3 DEF Shown
    <2>4. CASE disk.p2f[p] # NoRec
      <3> DEFINE i == disk.p2f[p].fid
      <3>1. disk.p2f[p] \in GP!PathRec
        BY <2>2, <2>4, GpathFacts DEF GP!TypeOK, GP!Db
      <3>2. disk.f2p[i] = [path |-> p, type |-> disk.p2f[p].type]
        BY <2>2, <2>4 DEF GPP!IInv, GPP!Consistent, GPP!Paired, GPP!HasFile
      <3>3. [path |-> p, type |-> disk.p2f[p].type] \in GP!FidRec
        BY <3>1 DEF GP!PathRec, GP!FidRec
      <3>4. i \in Fids /\ disk.f2p[i] # NoRec /\ disk.f2p[i].path = p
        BY <3>1, <3>2, <3>3, GpathAssumption DEF GP!PathRec, GP!Fids, Fids
      <3>5. Shown(gtags, p) = gtags.rec[i]
        BY <2>4 DEF Shown
      <3> QED BY <2>1, <3>4, <3>5 DEF Owned
    <2> QED BY <2>3, <2>4
  <1> QED BY <1>1, SpecIds, PTL
----------------------------------------------------------------------------
\* One version.  GTAGS and GRTAGS hold the same versions of the same files.  A parse
\* only adds records, so what was under an identifier must be gone before the file is
\* parsed again: the argument follows the add list and the delete set from the
\* inspection of the tree to the parsing.

\* Both have the same records, at most one under an identifier.
Same(T, U) == \A i \in Fids : T.rec[i] = U.rec[i] /\ Len(T.rec[i]) <= 1

\* A file to be parsed that GPATH knows: its identifier is to be deleted from.
Scheduled == \A p \in addlist : db.p2f[p] # NoRec => db.p2f[p].fid \in deleteset

\* ... and then has no tags.
Cleared == \A p \in addlist :
             db.p2f[p] # NoRec => gtop.GTAGS.rec[db.p2f[p].fid] = <<>>

BothEnded == /\ gtags # NoFile /\ grtags # NoFile
             /\ gtags.ok /\ grtags.ok
             /\ pc # "close_GRTAGS_MODIFY"

FilesSame == BothEnded => Same(gtags, grtags)

InSync ==
  /\ pc = "idle" => addlist = {}
  /\ pc = "open_GRTAGS" => gtop.GTAGS = NewImage /\ \A p \in Paths : db.p2f[p] = NoRec
  /\ pc \in {"open_GRTAGS", "create"} => gtags = NewFile
  /\ pc = "create" => /\ Same(gtop.GTAGS, gtop.GRTAGS)
                      /\ unread \subseteq Paths /\ \A p \in unread : db.p2f[p] = NoRec
  /\ pc \in {"close_GPATH", "close_GRTAGS"} => Same(gtags, gtop.GRTAGS)
  /\ pc \in {"inspect", "decide", "open_GRTAGS_MODIFY"} => gtags.ok
  /\ pc \in {"inspect", "decide", "open_GRTAGS_MODIFY", "delete"} => Scheduled
  /\ ~ torn =>
     /\ FilesSame
     /\ pc = "open_GRTAGS_MODIFY" => gtop.GTAGS = gtags
     /\ pc \in {"delete", "add"} => Same(gtop.GTAGS, gtop.GRTAGS)
     /\ pc = "add" => Cleared
     /\ pc = "close_GRTAGS_MODIFY" => Same(gtags, gtop.GRTAGS)

\* What the invariant reads.
syncVars == <<pc, addlist, deleteset, unread, files>>

\* Two files without records are the same.
LEMMA EmptySame == Same(NewImage, NewImage)
BY DEF Same, NewImage, NoTags

\* Deleting from both leaves them the same.
LEMMA DeleteSame ==
  ASSUME NEW T \in Tags, NEW U \in Tags, NEW ids, Same(T, U)
  PROVE  /\ Same(gtags_delete(T, ids), gtags_delete(U, ids))
         /\ \A i \in Fids : i \in ids => gtags_delete(T, ids).rec[i] = <<>>
BY DEF Same, gtags_delete

\* So does parsing one file into both, where nothing was.
LEMMA PutSame ==
  ASSUME NEW T \in Tags, NEW U \in Tags, NEW p, NEW i \in Fids,
         Same(T, U), T.rec[i] = <<>>
  PROVE  /\ Same(gtags_put(T, i, p), gtags_put(U, i, p))
         /\ \A j \in Fids : j # i => gtags_put(T, i, p).rec[j] = T.rec[j]
  <1> DEFINE r == [path |-> p, ver |-> text[p]]
  <1>1. CASE lang[p] # "source"
    BY <1>1 DEF gtags_put
  <1>2. CASE lang[p] = "source"
    <2>1. T.rec \in [Fids -> Seq(TagRec)] /\ U.rec \in [Fids -> Seq(TagRec)]
      BY DEF Tags
    <2>2. /\ gtags_put(T, i, p).rec = [T.rec EXCEPT ![i] = Append(T.rec[i], r)]
          /\ gtags_put(U, i, p).rec = [U.rec EXCEPT ![i] = Append(U.rec[i], r)]
      BY <1>2 DEF gtags_put
    <2>3. U.rec[i] = <<>>
      BY DEF Same
    <2>4. Len(Append(<<>>, r)) = 1
      OBVIOUS
    <2> HIDE DEF r
    <2>5. /\ gtags_put(T, i, p).rec[i] = Append(<<>>, r)
          /\ gtags_put(U, i, p).rec[i] = Append(<<>>, r)
          /\ \A j \in Fids : j # i => /\ gtags_put(T, i, p).rec[j] = T.rec[j]
                                      /\ gtags_put(U, i, p).rec[j] = U.rec[j]
      BY <2>1, <2>2, <2>3
    <2>6. Len(T.rec[i]) <= 1 /\ \A j \in Fids : T.rec[j] = U.rec[j] /\ Len(T.rec[j]) <= 1
      BY DEF Same
    <2>7. ASSUME NEW j \in Fids
          PROVE  /\ gtags_put(T, i, p).rec[j] = gtags_put(U, i, p).rec[j]
                 /\ Len(gtags_put(T, i, p).rec[j]) <= 1
      <3>1. CASE j = i
        BY <3>1, <2>4, <2>5
      <3>2. CASE j # i
        BY <3>2, <2>5, <2>6
      <3> QED BY <3>1, <3>2
    <2> QED BY <2>5, <2>7 DEF Same
  <1> QED BY <1>1, <1>2

\* gpath_put changes the record of its path only, and gives no identifier of
\* another.
LEMMA PutPath ==
  ASSUME Protocol, GPP!IInv, opened > 0, created = FALSE,
         NEW p \in Paths, NEW t \in GP!Types, GP!gpath_put(p, t),
         NEW q \in Paths, q # p
  PROVE  /\ db'.p2f[q] = db.p2f[q]
         /\ db.p2f[q] # NoRec => db.p2f[q].fid \in Fids /\ db.p2f[q].fid # FidOf(p)
  <1>1. db'.p2f[q] = db.p2f[q]
    <2>1. db.p2f \in [Paths -> GP!PathRec \cup {NoRec}]
      BY GpathFacts DEF GP!TypeOK, GP!Db
    <2> QED BY <2>1 DEF GP!gpath_put, GP!gpathVars, GP!WithFile
  <1>2. ASSUME db.p2f[q] # NoRec
        PROVE  db.p2f[q].fid \in Fids /\ db.p2f[q].fid # FidOf(p)
    <2>1. /\ db.p2f[q].fid \in Fids /\ db.f2p[db.p2f[q].fid] # NoRec
          /\ db.f2p[db.p2f[q].fid].path = q
      BY <1>2, GpathFacts
    <2>2. db.f2p[FidOf(p)] # NoRec => db.f2p[FidOf(p)].path = p
      BY PutFid
    <2> QED BY <2>1, <2>2
  <1> QED BY <1>1, <1>2

\* A parse finds nothing under the identifier of its file: it was cleared, or
\* the identifier is new.
LEMMA ParseSame ==
  ASSUME Protocol, GPP!IInv, Typed, opened > 0, created = FALSE,
         NEW p \in Paths, ParseInto(p), Memory(gtop.GTAGS),
         Same(gtop.GTAGS, gtop.GRTAGS),
         db.p2f[p] # NoRec => gtop.GTAGS.rec[db.p2f[p].fid] = <<>>
  PROVE  /\ Same(gtop'.GTAGS, gtop'.GRTAGS)
         /\ \A j \in Fids : j # FidOf(p) => gtop'.GTAGS.rec[j] = gtop.GTAGS.rec[j]
  <1>1. GP!gpath_put(p, "source") /\ "source" \in GP!Types
    BY DEF ParseInto, GP!Types
  <1>2. FidOf(p) \in Fids /\ nextkey \in Nat
    BY <1>1, PutFid
  <1>3. gtop.GTAGS.rec[FidOf(p)] = <<>>
    <2>1. CASE db.p2f[p] # NoRec
      BY <2>1 DEF FidOf, GP!gpath_path2fid
    <2>2. CASE db.p2f[p] = NoRec
      <3>1. FidOf(p) = nextkey
        BY <2>2 DEF FidOf, GP!gpath_path2fid
      <3>2. ~ (nextkey < nextkey)
        BY <1>2
      <3> QED BY <1>2, <3>1, <3>2 DEF Memory, InMemory, Below
    <2> QED BY <2>1, <2>2
  <1>4. gtop.GTAGS \in Tags /\ gtop.GRTAGS \in Tags
    BY DEF Typed, TypeOK, TagsType
  <1>5. /\ gtop'.GTAGS = gtags_put(gtop.GTAGS, FidOf(p), p)
        /\ gtop'.GRTAGS = gtags_put(gtop.GRTAGS, FidOf(p), p)
    BY DEF ParseInto
  <1> QED BY <1>2, <1>3, <1>4, <1>5, PutSame

----------------------------------------------------------------------------
\* Edits, kills and the end of a process.
LEMMA EndSync ==
  ASSUME Typed, InSync, Environment \/ ProcessExit \/ Die \/ UNCHANGED vars
  PROVE  InSync'
  <1>0. ASSUME UNCHANGED syncVars PROVE InSync'
    BY <1>0 DEF syncVars, files, InSync, FilesSame, BothEnded, Scheduled, Cleared
  <1>1. CASE (\E p \in Paths : Write(p) \/ Remove(p) \/ Reconfigure(p))
             \/ Tick \/ UNCHANGED vars
    BY <1>0, <1>1 DEF Write, Remove, Reconfigure, Tick, vars, syncVars, files, gpath,
       tagFiles, history, lists
  <1>2. CASE ProcessExit \/ Die
    <2>1. /\ pc \in {"exit", "open_GRTAGS_MODIFY", "add"} /\ pc' = "idle"
          /\ UNCHANGED <<gtags, grtags, torn>> /\ addlist' = {}
      BY <1>2 DEF ProcessExit, Die, ForgetMemory, tagFiles
    <2> QED BY <2>1 DEF InSync, FilesSame, BothEnded
  <1>3. CASE Crash
    <2>1. /\ pc' = "idle" /\ UNCHANGED <<gtags, grtags>> /\ addlist' = {}
          /\ torn' = (torn \/ Torn)
      BY <1>3 DEF Crash, ForgetMemory, tagFiles
    <2>2. ~ torn' => ~ torn /\ pc # "close_GRTAGS_MODIFY"
      BY <2>1 DEF Torn
    <2> QED BY <2>1, <2>2 DEF InSync, FilesSame, BothEnded
  <1> QED BY <1>1, <1>2, <1>3 DEF Environment

\* createtags, call by call.
LEMMA CreateSync ==
  ASSUME Protocol, GPP!IInv, Typed, IdsClean, InSync, Create
  PROVE  InSync'
  <1> USE DEF Creating, Updating, Ending
  <1>0. NewFile.ok = FALSE
    BY DEF NewFile
  <1>1. CASE CreateGTAGS
    <2>1. /\ pc' = "open_GRTAGS" /\ gtop'.GTAGS = NewImage /\ gtags' = NewFile
      BY <1>1 DEF CreateGTAGS
    <2>2. db' = GP!EmptyDb
      <3>1. opened = 0 /\ created = FALSE /\ GP!gpath_open(1)
        BY <1>1 DEF CreateGTAGS, Protocol
      <3> QED BY <3>1 DEF GP!gpath_open, GP!OpenAgain, GP!OpenCreate, GP!OpenExisting,
                 GP!DbMode
    <2>3. \A p \in Paths : db'.p2f[p] = NoRec
      BY <2>2 DEF GP!EmptyDb
    <2> QED BY <2>1, <2>3, <1>0 DEF InSync, FilesSame, BothEnded
  <1>2. CASE CreateGRTAGS
    <2>1. /\ pc = "open_GRTAGS" /\ pc' = "create" /\ grtags' = NewFile /\ gtags' = gtags
          /\ gtop'.GTAGS = gtop.GTAGS /\ gtop'.GRTAGS = NewImage
          /\ GP!gpath_open(1) /\ unread' \subseteq Paths
      BY <1>2 DEF CreateGRTAGS
    <2>2. db' = db
      BY <2>1, GpathQuiet DEF Protocol
    <2>3. Same(gtop'.GTAGS, gtop'.GRTAGS)
      BY <2>1, EmptySame DEF InSync
    <2>4. \A p \in unread' : db'.p2f[p] = NoRec
      BY <2>1, <2>2 DEF InSync
    <2> QED BY <2>1, <2>3, <2>4, <1>0 DEF InSync, FilesSame, BothEnded
  <1>3. ASSUME NEW p \in Paths, CreateFile(p) PROVE InSync'
    <2>1. /\ pc = "create" /\ pc' = pc /\ UNCHANGED <<gtags, grtags, torn>>
          /\ p \in unread /\ unread' = unread \ {p}
      BY <1>3 DEF CreateFile, tagFiles, history
    <2>2. opened > 0 /\ created = FALSE
      BY <2>1 DEF Protocol
    <2>3. /\ Same(gtop.GTAGS, gtop.GRTAGS) /\ unread \subseteq Paths
          /\ \A q \in unread : db.p2f[q] = NoRec
          /\ Memory(gtop.GTAGS)
      BY <2>1 DEF InSync, IdsClean
    <2>4. \A q \in unread' : db'.p2f[q] = NoRec
      <3>1. CASE UNCHANGED gpath
        BY <2>1, <2>3, <3>1 DEF gpath
      <3>2. CASE \E t \in GP!Types : GP!gpath_put(p, t)
        BY <2>1, <2>2, <2>3, <3>2, PutPath
      <3> QED BY <1>3, <3>1, <3>2 DEF CreateFile, ParseInto, GP!Types
    <2>5. Same(gtop'.GTAGS, gtop'.GRTAGS)
      <3>1. CASE UNCHANGED gtop
        BY <2>3, <3>1
      <3>2. CASE ParseInto(p)
        BY <2>1, <2>2, <2>3, <3>2, ParseSame
      <3> QED BY <1>3, <3>1, <3>2 DEF CreateFile
    <2> QED BY <2>1, <2>3, <2>4, <2>5, <1>0 DEF InSync, FilesSame, BothEnded
  <1>4. CASE CreateCloseGTAGS
    <2>1. /\ pc = "create" /\ pc' = "close_GPATH" /\ grtags' = grtags
          /\ gtags' = gtop.GTAGS /\ gtop' = gtop
      BY <1>4 DEF CreateCloseGTAGS
    <2> QED BY <2>1, <1>0 DEF InSync, IdsClean, FilesSame, BothEnded
  <1>5. CASE CreateCloseGPATH \/ CreateCloseGRTAGS
    <2>1. /\ UNCHANGED <<gtags, gtop, torn>>
          /\ \/ pc = "close_GPATH" /\ pc' = "close_GRTAGS" /\ grtags' = grtags
             \/ pc = "close_GRTAGS" /\ pc' = "exit" /\ grtags' = gtop.GRTAGS
      BY <1>5 DEF CreateCloseGPATH, CreateCloseGRTAGS, tagFiles, history
    <2> QED BY <2>1, <1>0 DEF InSync, IdsClean, FilesSame, BothEnded
  <1> QED BY <1>1, <1>2, <1>3, <1>4, <1>5 DEF Create

\* incremental and updatetags, call by call.
LEMMA UpdateSync ==
  ASSUME Protocol, GPP!IInv, Typed, IdsClean, InSync, Incremental
  PROVE  InSync'
  <1> USE DEF Creating, Updating, Ending
  <1>0. /\ gtop.GTAGS \in Tags /\ gtop.GRTAGS \in Tags
        /\ addlist \subseteq Paths
    BY DEF Typed, TypeOK, TagsType, ListsType
  <1>a. pc \in Updating => /\ opened > 0 /\ created = FALSE
                           /\ gtags # NoFile /\ grtags # NoFile
    BY DEF Protocol, Typed, FilesExist
  <1>1. CASE UpdateAll \/ \E p \in Paths : UpdateOne(p)
    <2>1. /\ pc = "idle" /\ pc' \in {"inspect", "decide", "close"}
          /\ UNCHANGED <<gtags, grtags, gtop, torn>> /\ gtags.ok
          /\ GP!gpath_open(2) /\ opened = 0 /\ addlist = {}
      BY <1>1 DEF UpdateAll, UpdateOne, StartUpdate, tagFiles, Protocol, InSync
    <2>2. db' = disk
      BY <2>1, GpathQuiet
    <2>3. pc' # "close" => Scheduled'
      BY <1>1, <2>1, <2>2 DEF UpdateAll, UpdateOne, Scheduled
    <2> QED BY <2>1, <2>3 DEF InSync, FilesSame, BothEnded
  <1>2. ASSUME NEW p \in Paths, Inspect(p) PROVE InSync'
    <2>1. pc = "inspect" /\ pc' = pc /\ UNCHANGED files
      BY <1>2 DEF Inspect, files, tagFiles, history, gpath
    <2>2. Scheduled'
      <3>1. Scheduled /\ db' = db
        BY <2>1 DEF InSync, files
      <3>2. deleteset \subseteq deleteset'
        BY <1>2 DEF Inspect
      <3>3. \A q \in addlist' : q # p => q \in addlist
        BY <1>2 DEF Inspect
      <3>4. p \in addlist' /\ db.p2f[p] # NoRec =>
              p \in addlist \/ db.p2f[p].fid \in deleteset'
        BY <1>2 DEF Inspect, GP!gpath_path2fid
      <3> QED BY <3>1, <3>2, <3>3, <3>4 DEF Scheduled
    <2> QED BY <2>1, <2>2 DEF InSync, FilesSame, BothEnded, files
  <1>3. CASE MakeDeleteList \/ SkipTags
    <2>1. /\ \/ pc = "inspect" /\ pc' = "decide"
             \/ pc = "decide" /\ pc' \in {"paths", "close"}
          /\ UNCHANGED <<files, addlist>> /\ deleteset \subseteq deleteset'
      BY <1>3 DEF MakeDeleteList, SkipTags, files, tagFiles, history, gpath, lists
    <2> QED BY <2>1 DEF InSync, FilesSame, BothEnded, files, Scheduled
  <1>4. CASE OpenGTAGS
    <2>1. /\ pc = "decide" /\ pc' = "open_GRTAGS_MODIFY"
          /\ UNCHANGED <<gtags, grtags, torn, addlist, deleteset>>
          /\ gtop'.GTAGS = gtags /\ GP!gpath_open(2)
      BY <1>4 DEF OpenGTAGS, tagFiles, history, lists
    <2>2. db' = db
      BY <2>1, <1>a, GpathQuiet
    <2> QED BY <2>1, <2>2 DEF InSync, FilesSame, BothEnded, Scheduled
  <1>5. CASE OpenGRTAGS
    <2>1. /\ pc = "open_GRTAGS_MODIFY" /\ pc' = "delete" /\ grtags.ok
          /\ UNCHANGED <<gtags, grtags, torn, addlist, deleteset>>
          /\ gtop'.GTAGS = gtop.GTAGS /\ gtop'.GRTAGS = grtags /\ GP!gpath_open(2)
      BY <1>5 DEF OpenGRTAGS, tagFiles, history, lists
    <2>2. db' = db
      BY <2>1, <1>a, GpathQuiet
    <2> QED BY <2>1, <2>2, <1>a DEF InSync, FilesSame, BothEnded, Scheduled
  <1>6. CASE DeleteTags
    <2>1. /\ pc = "delete" /\ pc' = "add"
          /\ UNCHANGED <<gtags, grtags, torn, addlist, db>>
          /\ gtop'.GTAGS = gtags_delete(gtop.GTAGS, deleteset)
          /\ gtop'.GRTAGS = gtags_delete(gtop.GRTAGS, deleteset)
      BY <1>6 DEF DeleteTags, tagFiles, history, gpath, lists
    <2>2. ASSUME ~ torn PROVE Same(gtop'.GTAGS, gtop'.GRTAGS) /\ Cleared'
      <3>1. Same(gtop.GTAGS, gtop.GRTAGS) /\ Scheduled
        BY <2>1, <2>2 DEF InSync
      <3>2. /\ Same(gtop'.GTAGS, gtop'.GRTAGS)
            /\ \A i \in Fids : i \in deleteset => gtop'.GTAGS.rec[i] = <<>>
        BY <2>1, <3>1, <1>0, DeleteSame
      <3>3. \A p \in Paths : db.p2f[p] # NoRec => db.p2f[p].fid \in Fids
        BY GpathFacts
      <3> QED BY <2>1, <3>1, <3>2, <3>3, <1>0 DEF Scheduled, Cleared
    <2> QED BY <2>1, <2>2 DEF InSync, FilesSame, BothEnded
  <1>7. ASSUME NEW p \in Paths, AddTags(p) PROVE InSync'
    <2>1. /\ pc = "add" /\ pc' = pc /\ UNCHANGED <<gtags, grtags, torn>>
          /\ p \in addlist /\ addlist' = addlist \ {p} /\ ParseInto(p)
      BY <1>7 DEF AddTags, tagFiles, history
    <2>2. ASSUME ~ torn PROVE Same(gtop'.GTAGS, gtop'.GRTAGS) /\ Cleared'
      <3>1. Same(gtop.GTAGS, gtop.GRTAGS) /\ Cleared /\ Memory(gtop.GTAGS)
        BY <2>1, <2>2 DEF InSync, IdsClean
      <3>2. db.p2f[p] # NoRec => gtop.GTAGS.rec[db.p2f[p].fid] = <<>>
        BY <2>1, <3>1 DEF Cleared
      <3>3. /\ Same(gtop'.GTAGS, gtop'.GRTAGS)
            /\ \A j \in Fids : j # FidOf(p) => gtop'.GTAGS.rec[j] = gtop.GTAGS.rec[j]
        BY <2>1, <3>1, <3>2, <1>a, ParseSame
      <3>4. ASSUME NEW q \in addlist', db'.p2f[q] # NoRec
            PROVE  gtop'.GTAGS.rec[db'.p2f[q].fid] = <<>>
        <4>1. q \in addlist /\ q \in Paths /\ q # p
          BY <2>1, <1>0
        <4>2. GP!gpath_put(p, "source") /\ "source" \in GP!Types
          BY <2>1 DEF ParseInto, GP!Types
        <4>3. /\ db'.p2f[q] = db.p2f[q]
              /\ db.p2f[q] # NoRec => db.p2f[q].fid \in Fids /\ db.p2f[q].fid # FidOf(p)
          BY <2>1, <4>1, <4>2, <1>a, PutPath
        <4> QED BY <3>1, <3>3, <3>4, <4>1, <4>3 DEF Cleared
      <3> QED BY <3>3, <3>4 DEF Cleared
    <2> QED BY <2>1, <2>2 DEF InSync, FilesSame, BothEnded
  <1>8. CASE CloseGTAGS \/ CloseGRTAGS
    <2>1. /\ gtop' = gtop /\ torn' = torn
          /\ \/ /\ pc = "add" /\ pc' = "close_GRTAGS_MODIFY" /\ gtags' = gtop.GTAGS
             \/ /\ pc = "close_GRTAGS_MODIFY" /\ pc' = "paths"
                /\ gtags' = gtags /\ grtags' = gtop.GRTAGS
      BY <1>8 DEF CloseGTAGS, CloseGRTAGS, history
    <2> QED BY <2>1 DEF InSync, FilesSame, BothEnded
  <1>9. CASE (\E p \in Paths : DeletePath(p) \/ PutOther(p)) \/ Touch \/ CloseGPATH
    <2>1. /\ pc \in {"paths", "close"} /\ pc' \in {"paths", "close", "exit"}
          /\ UNCHANGED <<gtags, grtags, torn>>
      BY <1>9 DEF DeletePath, PutOther, Touch, CloseGPATH, tagFiles, history
    <2> QED BY <2>1 DEF InSync, FilesSame, BothEnded
  <1> QED BY <1>1, <1>2, <1>3, <1>4, <1>5, <1>6, <1>7, <1>8, <1>9
          DEF Incremental, WholeUpdate

\* The two files are in step in every state of gtags.
LEMMA SpecSync == Spec => [](Protocol /\ GPP!IInv /\ Typed /\ IdsClean /\ InSync)
  <1>1. Init => InSync
    BY DEF Init, InSync, FilesSame, BothEnded
  <1>2. ASSUME Protocol, GPP!IInv, Typed, IdsClean, InSync, [Next]_vars
        PROVE  InSync'
    BY <1>2, CreateSync, UpdateSync, EndSync DEF Next
  <1> QED BY <1>1, <1>2, SpecIds, PTL DEF Spec

\* GTAGS and GRTAGS, written at different moments, hold tags of the same
\* versions of the same files, and of one version of each, however edits,
\* updates, kills and changes of the langmap follow one another.
THEOREM OneVersionCorrect == Spec => []OneVersion
  <1>1. InSync => OneVersion
    BY DEF InSync, FilesSame, BothEnded, Same, OneVersion, Usable, TagFilesExist
  <1> QED BY <1>1, SpecSync, PTL
=============================================================================
