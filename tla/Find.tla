-------------------------------- MODULE Find --------------------------------
(***************************************************************************)
(* The traversal of the source tree (libutil/find.c).                      *)
(*                                                                         *)
(* find_open lists the root; each find_read goes on from where the last    *)
(* one stopped, depth first, with a stack of the listings it has begun,    *)
(* and returns one file.  The tree may be edited between any two of its    *)
(* system calls.                                                           *)
(*                                                                         *)
(* A directory is known by its real path: Dirs are the real directories,   *)
(* and an entry that names one is the directory's own entry or a symbolic  *)
(* link to it.  The two cannot be told apart by stat, and are not here.    *)
(***************************************************************************)
EXTENDS Naturals, Sequences, FiniteSets

CONSTANTS
  Dirs,        \* real directories, in the tree and outside of it
  Root,        \* rootdir
  Above,       \* the directories rootdir is in
  Names,       \* names of entries
  File,        \* a regular file
  Nothing,     \* no entry, a dead link, or neither a file nor a directory
  Trees,       \* the trees the program may be started on
  SkipFiles,   \* the skip variable: units such as "GTAGS" ...
  SkipDirs,    \* ... units such as "CVS/" ...
  SkipPaths,   \* ... full paths such as "/lib/y.c" ...
  SkipTrees,   \* ... and full paths of directories, such as "/lib/"
  Suffixed,    \* the names with a suffix of the langmap
  Lists,       \* the file lists of option -f: sequences of paths, and of ...
  NoPath,      \* ... lines that are empty, a comment or outside of the tree
  Edited,      \* bound on the edits: the entries they are made of ...
  MaxEdits     \* ... and how many they are

Nodes == Dirs \cup {File, Nothing}

ASSUME FindAssumption ==
  /\ Root \in Dirs /\ Above \subseteq Dirs \ {Root}
  /\ File # Nothing /\ File \notin Dirs /\ Nothing \notin Dirs
  /\ Trees \subseteq [Dirs -> [Names -> Nodes]]
  /\ SkipFiles \subseteq Names /\ SkipDirs \subseteq Names
  /\ SkipPaths \subseteq Seq(Names) /\ SkipTrees \subseteq Seq(Names)
  /\ Suffixed \subseteq Names
  /\ NoPath \notin Seq(Names) /\ Lists \subseteq Seq(Seq(Names) \cup {NoPath})
  /\ IsFiniteSet(Dirs) /\ Edited \subseteq Dirs \X Names /\ MaxEdits \in Nat

VARIABLES
  tree,       \* the entries of every directory
  find_mode,  \* "0", "FIND_OPEN" or "FILELIST_OPEN"
  find_eof,
  dir,        \* the path of the directory, as the names from the root
  stack,      \* the directories begun: [dirp, real, rest]
  sb,         \* the listing getdirs has built, until it is pushed
  ip,         \* the lines of the file list not read yet
  val,        \* what find_read returned last: a path, and if it is a source
  pc,         \* where the program is
  edits,      \* the edits made
  got,        \* history: the files returned
  kept,       \* history: the files that were there since find_open
  quiet       \* history: no edit since find_open

iterator == <<find_mode, find_eof, dir, stack, sb, ip, val, pc>>
vars == <<tree, iterator, edits, got, kept, quiet>>

----------------------------------------------------------------------------
\* Which paths are skipped, and which are sources.

Prefixed(p, q) == Len(q) <= Len(p) /\ SubSeq(p, 1, Len(q)) = q

\* skipthisfile of a path that names a file: prepare_skip ends a unit with
\* "$" unless it ends with "/", and then it matches below the directory.
SkipsFile(p) ==
  \/ p[Len(p)] \in SkipFiles
  \/ \E n \in 1 .. Len(p) - 1 : p[n] \in SkipDirs
  \/ p \in SkipPaths
  \/ \E t \in SkipTrees : Len(t) < Len(p) /\ Prefixed(p, t)

\* ... and of one that names a directory, which ends with "/".
SkipsDir(p) ==
  \/ \E n \in 1 .. Len(p) : p[n] \in SkipDirs
  \/ \E t \in SkipTrees : Prefixed(p, t)

issourcefile(p) == p[Len(p)] \in Suffixed

\* realpath of a directory, or what is there instead.
Real(p) ==
  LET at[n \in 0 .. Len(p)] ==
        IF n = 0 THEN Root
        ELSE IF at[n - 1] \in Dirs THEN tree[at[n - 1]][p[n]] ELSE Nothing
  IN  at[Len(p)]

Top == stack[Len(stack)]

\* *(curp->dirp) = 0
Truncated(d, entry) == SubSeq(d, 1, entry.dirp)

\* Mutant: only the directory it is in is looked at.
MUT_has_symlinkloop_Top(real) ==
  \/ real \in Above \cup {Root}
  \/ Top.real = real

\* Mutant: the directories above the root are not looked at.
MUT_has_symlinkloop_NotAbove(real) ==
  real = Root \/ \E i \in DOMAIN stack : stack[i].real = real

\* The directory is the root, above it, or one whose listing is begun.
has_symlinkloop(real) ==
  \/ real \in Above \cup {Root}
  \/ \E i \in DOMAIN stack : stack[i].real = real

\* What getdirs lists: what is neither a file nor a directory is never returned.
Listing(real) ==
  {[name |-> n, isdir |-> tree[real][n] \in Dirs] :
     n \in {m \in Names : tree[real][m] # Nothing}}

----------------------------------------------------------------------------
\* The files that a traversal of the tree should return, with the directories
\* they are in: no directory is in itself or holds the root.
MaxNesting == Cardinality(Dirs \ Above)

Chain(p) == [n \in 1 .. Len(p) |-> Real(SubSeq(p, 1, n - 1))]

Traversable(p) ==
  /\ Real(p) = File /\ ~ SkipsFile(p)
  /\ \A n \in 2 .. Len(p) :
       /\ ~ SkipsDir(SubSeq(p, 1, n - 1))
       /\ Chain(p)[n] \notin Above
       /\ \A m \in 1 .. n - 1 : Chain(p)[m] # Chain(p)[n]

Placed(ps) == {[path |-> p, chain |-> Chain(p)] : p \in ps}

Traversed ==
  Placed({p \in UNION {[1 .. n -> Names] : n \in 1 .. MaxNesting} : Traversable(p)})

\* ... and the ones a file list asks for.
Asked(lines) ==
  Placed({p \in {lines[n] : n \in DOMAIN lines} \ {NoPath} :
            Real(p) = File /\ ~ SkipsFile(p)})

----------------------------------------------------------------------------
Init ==
  /\ tree \in Trees
  /\ find_mode = "0" /\ find_eof = FALSE
  /\ dir = << >> /\ stack = << >> /\ sb = {} /\ ip = << >> /\ val = << >>
  /\ pc = "start"
  /\ edits = 0 /\ got = {} /\ kept = {} /\ quiet = TRUE

\* The start directory is the root; "./" is never a loop.
find_open ==
  /\ pc = "start"
  /\ find_mode' = "FIND_OPEN"
  /\ stack' = <<[dirp |-> 0, real |-> Root, rest |-> Listing(Root)]>>
  /\ dir' = << >>
  /\ kept' = Traversed
  /\ pc' = "caller"
  /\ UNCHANGED <<tree, find_eof, sb, ip, val, edits, got, quiet>>

find_open_filelist(lines) ==
  /\ pc = "start"
  /\ find_mode' = "FILELIST_OPEN"
  /\ ip' = lines
  /\ kept' = Asked(lines)
  /\ pc' = "caller"
  /\ UNCHANGED <<tree, find_eof, dir, stack, sb, val, edits, got, quiet>>

\* The caller (gtags) asks for the next file until there is none.
find_read ==
  /\ pc = "caller" /\ ~ find_eof
  /\ pc' = "read"
  /\ UNCHANGED <<tree, find_mode, find_eof, dir, stack, sb, ip, val, edits,
                 got, kept, quiet>>

\* A file that exists is returned; one that is gone is warned of.
Return(p) ==
  IF Real(p) = File /\ ~ SkipsFile(p)
  THEN /\ val' = <<p, issourcefile(p)>>
       /\ got' = got \cup {p}
       /\ pc' = "caller"
  ELSE UNCHANGED <<val, got, pc>>

\* Mutant: curp->p stays on the entry.
MUT_Taken_NotPast(e) == stack

\* The entry e of the directory is taken: curp->p is past it.
Taken(e) == [stack EXCEPT ![Len(stack)] =
               [dirp |-> Top.dirp, real |-> Top.real, rest |-> Top.rest \ {e}]]

TakeFile(e) ==
  /\ find_mode = "FIND_OPEN" /\ pc = "read"
  /\ e \in Top.rest /\ ~ e.isdir
  /\ stack' = Taken(e)
  /\ Return(Append(dir, e.name))
  /\ UNCHANGED <<tree, find_mode, find_eof, dir, sb, ip, edits, kept, quiet>>

TakeDir(e) ==
  /\ find_mode = "FIND_OPEN" /\ pc = "read"
  /\ e \in Top.rest /\ e.isdir
  /\ stack' = Taken(e)
  /\ IF SkipsDir(Append(dir, e.name))
     THEN UNCHANGED <<dir, pc>>
     ELSE dir' = Append(dir, e.name) /\ pc' = "loop"
  /\ UNCHANGED <<tree, find_mode, find_eof, sb, ip, val, edits, got, kept, quiet>>

\* die
Die == pc' = "dead" /\ UNCHANGED <<dir, sb, stack>>

\* Mutant: the name of the directory stays in dir.
MUT_Ignore_NoReset ==
  /\ pc' = "read"
  /\ UNCHANGED <<dir, sb, stack>>

\* getdirs has failed: the directory is ignored.
Ignore ==
  /\ dir' = Truncated(dir, Top)
  /\ pc' = "read"
  /\ UNCHANGED <<sb, stack>>

\* Mutant: a loop is as fatal as a directory that is gone.
MUT_CheckLoop_DiesOfLoop ==
  /\ pc = "loop"
  /\ \/ /\ Real(dir) \notin Dirs \/ has_symlinkloop(Real(dir))
        /\ Die
     \/ /\ Real(dir) \in Dirs /\ ~ has_symlinkloop(Real(dir))
        /\ pc' = "list"
        /\ UNCHANGED <<dir, sb, stack>>
  /\ UNCHANGED <<tree, find_mode, find_eof, ip, val, edits, got, kept, quiet>>

\* getdirs, its first part: the real path of the directory is looked at.
CheckLoop ==
  /\ pc = "loop"
  /\ \/ Real(dir) \notin Dirs /\ Die
     \/ Real(dir) \in Dirs /\ has_symlinkloop(Real(dir)) /\ Ignore
     \/ /\ Real(dir) \in Dirs /\ ~ has_symlinkloop(Real(dir))
        /\ pc' = "list"
        /\ UNCHANGED <<dir, sb, stack>>
  /\ UNCHANGED <<tree, find_mode, find_eof, ip, val, edits, got, kept, quiet>>

\* ... its second: opendir, readdir and stat.
getdirs ==
  /\ pc = "list"
  /\ \/ Real(dir) \notin Dirs /\ Ignore
     \/ /\ Real(dir) \in Dirs
        /\ sb' = Listing(Real(dir))
        /\ pc' = "push"
        /\ UNCHANGED <<dir, stack>>
  /\ UNCHANGED <<tree, find_mode, find_eof, ip, val, edits, got, kept, quiet>>

\* The entry pushed takes its real path from a third look at the directory.
Push ==
  /\ pc = "push"
  /\ \/ Real(dir) \notin Dirs /\ Die
     \/ /\ Real(dir) \in Dirs
        /\ stack' = Append(stack, [dirp |-> Len(dir), real |-> Real(dir), rest |-> sb])
        /\ sb' = {}
        /\ pc' = "read"
        /\ UNCHANGED dir
  /\ UNCHANGED <<tree, find_mode, find_eof, ip, val, edits, got, kept, quiet>>

\* The listing is at its end: back to the directory above, or NULL.
Pop ==
  /\ find_mode = "FIND_OPEN" /\ pc = "read" /\ Top.rest = {}
  /\ stack' = SubSeq(stack, 1, Len(stack) - 1)
  /\ IF Len(stack) = 1
     THEN find_eof' = TRUE /\ pc' = "caller" /\ UNCHANGED dir
     ELSE /\ dir' = Truncated(dir, stack[Len(stack) - 1])
          /\ UNCHANGED <<find_eof, pc>>
  /\ UNCHANGED <<tree, find_mode, sb, ip, val, edits, got, kept, quiet>>

\* A line of the file list is read.
find_read_filelist ==
  /\ find_mode = "FILELIST_OPEN" /\ pc = "read"
  /\ IF ip = << >>
     THEN find_eof' = TRUE /\ pc' = "caller" /\ UNCHANGED <<ip, val, got>>
     ELSE /\ ip' = Tail(ip)
          /\ IF Head(ip) = NoPath THEN UNCHANGED <<val, got, pc>> ELSE Return(Head(ip))
          /\ UNCHANGED find_eof
  /\ UNCHANGED <<tree, find_mode, dir, stack, sb, edits, kept, quiet>>

\* gtags closes the iterator when it has returned NULL, and opens no other.
find_close ==
  /\ pc = "caller" /\ find_eof
  /\ find_mode' = "0" /\ find_eof' = FALSE
  /\ pc' = "closed"
  /\ UNCHANGED <<tree, dir, stack, sb, ip, val, edits, got, kept, quiet>>

\* Someone makes, removes or replaces the entry n of directory d.
Edit(d, n, node) ==
  /\ edits < MaxEdits /\ pc \notin {"dead", "closed"}
  /\ node # tree[d][n]
  /\ tree' = [tree EXCEPT ![d] = [tree[d] EXCEPT ![n] = node]]
  /\ edits' = edits + 1
  /\ quiet' = (pc = "start")
  /\ kept' = {k \in kept : Real(k.path)' = File /\ Chain(k.path)' = k.chain}
  /\ UNCHANGED <<iterator, got>>

Traverse ==
  \/ find_open
  \/ \E lines \in Lists : find_open_filelist(lines)
  \/ find_read
  \/ \E e \in [name : Names, isdir : BOOLEAN] : TakeFile(e) \/ TakeDir(e)
  \/ CheckLoop \/ getdirs \/ Push \/ Pop
  \/ find_read_filelist
  \/ find_close

Next == Traverse \/ \E e \in Edited, node \in Nodes : Edit(e[1], e[2], node)

\* gtags goes from one find_read to the next without waiting for anyone.
Spec == Init /\ [][Next]_vars /\ WF_vars(Traverse)

----------------------------------------------------------------------------
Paths == Seq(Names)
Entries == [name : Names, isdir : BOOLEAN]

\* Every variable has its type.
TypeOK ==
  /\ tree \in [Dirs -> [Names -> Nodes]]
  /\ find_mode \in {"0", "FIND_OPEN", "FILELIST_OPEN"} /\ find_eof \in BOOLEAN
  /\ dir \in Paths
  /\ stack \in Seq([dirp : Nat, real : Dirs, rest : SUBSET Entries])
  /\ sb \in SUBSET Entries
  /\ ip \in Seq(Paths \cup {NoPath})
  /\ val \in {<< >>} \cup (Paths \X BOOLEAN)
  /\ pc \in {"start", "caller", "read", "loop", "list", "push", "dead", "closed"}
  /\ edits \in 0 .. MaxEdits /\ quiet \in BOOLEAN
  /\ got \subseteq Paths

\* What find_read leaves when it returns: the buffer dir holds the path of the
\* listing on top of the stack, and dirp its end, so that the next call makes
\* the paths of the right directory whatever was ignored or popped before.
DirIsTop ==
  pc \in {"caller", "read"} /\ stack # << >> => Len(dir) = Top.dirp

\* A traversal returns no path twice, however the tree is edited meanwhile:
\* gtags would put the tags of the file twice.
FilesOnce ==
  [][/\ find_mode = "FIND_OPEN" /\ pc = "read"
     /\ pc' = "caller" /\ ~ find_eof'
     => val'[1] \notin got]_vars

\* A file that was in its place during the whole traversal, its directories
\* unmoved, has been returned when find_read returns NULL, whatever was edited
\* around it.
FoundAll == find_eof => \A k \in kept : k.path \in got

\* With no edit, the files returned are those of the tree, each by the paths
\* that pass through no directory twice.
QuietExact ==
  find_eof /\ quiet /\ find_mode = "FIND_OPEN" => got = {k.path : k \in Traversed}

\* The traversal is given up only because the tree was edited: a link that is
\* dead or loops is ignored.
DiesOnlyOfEdits == pc = "dead" => ~ quiet

\* Edits that race with the check for loops can put a directory below itself,
\* but each of them once at the most.
NestingBound == Len(stack) <= MaxNesting + edits

\* The traversal ends, though links make the tree infinite: find_read returns
\* NULL in the end, if it does not die.
Terminates == pc = "caller" ~> find_eof \/ pc = "dead"
=============================================================================
