----------------------------- MODULE FindProofs -----------------------------
(***************************************************************************)
(* For every tree, whatever is edited and how often, the traversal of Find *)
(* returns no path twice, returns every file that stays where it is, nests *)
(* no deeper than there are directories and edits, and dies of edits only; *)
(* of a tree that is left alone it returns the files and nothing else.     *)
(*                                                                         *)
(* None of these is inductive.  What is: no path that was returned lies at *)
(* or below an entry that is still to be taken (Fresh); each file that     *)
(* stays is returned or below such an entry (FoundInv); while nobody edits *)
(* the tree the listings begun are true of it (QuietInv).                  *)
(***************************************************************************)
EXTENDS Find, FiniteSetTheorems, SequenceTheorems, TLAPS

Descending == {"loop", "list", "push"}

\* How the stack, the buffer dir and the state of the program go together.
Shape ==
  /\ pc = "start" => find_mode = "0" /\ got = {}
  /\ find_mode # "FIND_OPEN" => stack = << >> /\ pc \notin Descending
  /\ find_mode = "FIND_OPEN" /\ ~ find_eof => stack # << >>
  /\ find_eof => pc = "caller" /\ stack = << >>
  /\ \A i \in DOMAIN stack : stack[i].dirp = i - 1
  /\ pc \in {"caller", "read"} /\ stack # << >> => Len(dir) = Len(stack) - 1
  /\ pc \in Descending => Len(dir) = Len(stack)
  /\ stack # << >> => Len(dir) >= Len(stack) - 1

\* A listing has no name twice.
Distinct(entries) == \A e, f \in entries : e.name = f.name => e = f

\* The path g agrees with dir in its first n names.
Agrees(g, n) == Len(g) >= n /\ \A k \in 1 .. n : g[k] = dir[k]

\* The entry e of the listing i is not the way to the path g.
NotTo(i, e, g) == Agrees(g, i - 1) => Len(g) < i \/ g[i] # e.name

Fresh ==
  /\ Distinct(sb)
  /\ \A i \in DOMAIN stack : Distinct(stack[i].rest)
  /\ \A i \in DOMAIN stack : \A e \in stack[i].rest :
       i <= Len(dir) => e.name # dir[i]
  /\ \A i \in DOMAIN stack : \A e \in stack[i].rest : \A g \in got : NotTo(i, e, g)
  /\ pc \in Descending => \A g \in got : ~ Agrees(g, Len(dir))

FindInv == TypeOK /\ Shape /\ Fresh
----------------------------------------------------------------------------
\* The program starts with nothing returned and nothing listed.
LEMMA InitInv == Init => FindInv
<1> SUFFICES ASSUME Init PROVE FindInv OBVIOUS
<1>1. TypeOK
  <2>1. tree \in [Dirs -> [Names -> Nodes]] /\ edits \in 0 .. MaxEdits
    BY FindAssumption DEF Init
  <2>2. find_eof \in BOOLEAN /\ quiet \in BOOLEAN BY DEF Init
  <2> QED BY <2>1, <2>2 DEF Init, TypeOK, Paths
<1>2. Shape BY DEF Init, Shape, Descending
<1>3. Fresh BY DEF Init, Fresh, Distinct, NotTo, Agrees, Descending
<1> QED BY <1>1, <1>2, <1>3 DEF FindInv

\* getdirs lists entries, no name twice.
LEMMA ListingType ==
  ASSUME NEW real PROVE Listing(real) \in SUBSET Entries /\ Distinct(Listing(real))
<1>1. ASSUME NEW e \in Listing(real)
      PROVE  e \in Entries /\ e.isdir = (tree[real][e.name] \in Dirs)
  <2>1. PICK n \in Names : e = [name |-> n, isdir |-> tree[real][n] \in Dirs]
    BY DEF Listing
  <2>2. (tree[real][n] \in Dirs) \in BOOLEAN OBVIOUS
  <2> QED BY <2>1, <2>2, Zenon DEF Entries
<1>2. Distinct(Listing(real)) BY <1>1 DEF Distinct, Listing
<1> QED BY <1>1, <1>2

\* The top of the stack.
LEMMA TopType ==
  ASSUME FindInv, find_mode = "FIND_OPEN", ~ find_eof
  PROVE  /\ Len(stack) \in Nat \ {0} /\ Len(stack) \in DOMAIN stack
         /\ Top = stack[Len(stack)] /\ Top.dirp = Len(stack) - 1
         /\ Top \in [dirp : Nat, real : Dirs, rest : SUBSET Entries]
<1> DEFINE T == [dirp : Nat, real : Dirs, rest : SUBSET Entries]
<1>1. stack \in Seq(T) /\ stack # << >> BY DEF FindInv, TypeOK, Shape
<1> HIDE DEF T
<1>2. Len(stack) \in Nat \ {0} /\ Len(stack) \in DOMAIN stack BY <1>1
<1>3. stack[Len(stack)] \in T BY <1>1, <1>2
<1>4. stack[Len(stack)].dirp = Len(stack) - 1 BY <1>2 DEF FindInv, Shape
<1> QED BY <1>2, <1>3, <1>4 DEF Top, T

\* find_open: only the root is listed.
LEMMA OpenInv == FindInv /\ find_open => FindInv'
<1> SUFFICES ASSUME FindInv, find_open PROVE FindInv' OBVIOUS
<1> USE DEF find_open
<1> DEFINE root == [dirp |-> 0, real |-> Root, rest |-> Listing(Root)]
<1>0. /\ root \in [dirp : Nat, real : Dirs, rest : SUBSET Entries]
      /\ Distinct(root.rest)
  BY ListingType, FindAssumption
<1>1. TypeOK'
  <2>1. stack' \in Seq([dirp : Nat, real : Dirs, rest : SUBSET Entries]) BY <1>0
  <2>2. dir' \in Paths BY DEF Paths
  <2> QED BY <2>1, <2>2 DEF FindInv, TypeOK
<1>2. Shape' BY DEF FindInv, TypeOK, Shape, Descending
<1>3. Fresh'
  BY <1>0 DEF FindInv, TypeOK, Shape, Fresh, Distinct, NotTo, Agrees, Descending
<1> QED BY <1>1, <1>2, <1>3 DEF FindInv

\* find_open_filelist touches no stack.
LEMMA OpenListInv ==
  ASSUME NEW lines \in Lists, FindInv, find_open_filelist(lines) PROVE FindInv'
<1> USE DEF find_open_filelist
<1>1. TypeOK'
  <2>1. ip' \in Seq(Paths \cup {NoPath}) BY FindAssumption DEF Paths
  <2> QED BY <2>1 DEF FindInv, TypeOK
<1>2. Shape' BY DEF FindInv, TypeOK, Shape, Descending
<1>3. Fresh' BY DEF FindInv, TypeOK, Shape, Fresh, Distinct, NotTo, Agrees, Descending
<1> QED BY <1>1, <1>2, <1>3 DEF FindInv

\* find_read goes on from where the last call stopped.
LEMMA ReadInv == FindInv /\ find_read => FindInv'
<1> SUFFICES ASSUME FindInv, find_read PROVE FindInv' OBVIOUS
<1> USE DEF find_read
<1>1. TypeOK' BY DEF FindInv, TypeOK
<1>2. Shape' BY DEF FindInv, TypeOK, Shape, Descending
<1>3. Fresh' BY DEF FindInv, TypeOK, Shape, Fresh, Distinct, NotTo, Agrees, Descending
<1> QED BY <1>1, <1>2, <1>3 DEF FindInv

\* The program is in find_read of a traversal.
LEMMA ReadingShape ==
  ASSUME FindInv, find_mode = "FIND_OPEN", pc = "read"
  PROVE  /\ ~ find_eof /\ dir \in Seq(Names)
         /\ Len(dir) \in Nat /\ Len(dir) = Len(stack) - 1 /\ Top.dirp = Len(dir)
<1>1. ~ find_eof BY DEF FindInv, Shape
<1>2. Len(stack) \in Nat \ {0} /\ Top.dirp = Len(stack) - 1 BY <1>1, TopType
<1>3. Len(dir) = Len(stack) - 1 BY <1>2 DEF FindInv, Shape
<1> QED BY <1>1, <1>2, <1>3 DEF FindInv, TypeOK, Paths

\* An entry taken leaves the listing on top and nothing else.
LEMMA TakenFacts ==
  ASSUME NEW e, FindInv, find_mode = "FIND_OPEN", pc = "read", stack' = Taken(e)
  PROVE  /\ stack' \in Seq([dirp : Nat, real : Dirs, rest : SUBSET Entries])
         /\ Len(stack') = Len(stack) /\ DOMAIN stack' = DOMAIN stack
         /\ \A i \in DOMAIN stack : stack'[i].dirp = stack[i].dirp
         /\ \A i \in DOMAIN stack : stack'[i].rest \subseteq stack[i].rest
         /\ e \notin stack'[Len(stack)].rest
<1> DEFINE T == [dirp : Nat, real : Dirs, rest : SUBSET Entries]
           new == [dirp |-> Top.dirp, real |-> Top.real, rest |-> Top.rest \ {e}]
<1>1. Top \in T /\ Top = stack[Len(stack)] /\ Len(stack) \in DOMAIN stack
  BY TopType, ReadingShape
<1>2. new \in T BY <1>1
<1>3. stack \in Seq(T) BY DEF FindInv, TypeOK
<1>4. new.dirp = Top.dirp /\ new.rest = Top.rest \ {e} OBVIOUS
<1>5. stack' = [stack EXCEPT ![Len(stack)] = new] BY DEF Taken
<1> HIDE DEF T, new
<1>6. /\ stack' \in Seq(T) /\ Len(stack') = Len(stack) /\ DOMAIN stack' = DOMAIN stack
      /\ stack'[Len(stack)] = new
      /\ \A i \in DOMAIN stack : i # Len(stack) => stack'[i] = stack[i]
  BY <1>1, <1>2, <1>3, <1>5
<1>7. stack'[Len(stack)].dirp = stack[Len(stack)].dirp
      /\ stack'[Len(stack)].rest = stack[Len(stack)].rest \ {e}
  BY <1>1, <1>4, <1>6
<1> QED BY <1>6, <1>7 DEF T

\* A file: nothing is left to take that leads to its path again.
LEMMA TakeFileInv ==
  ASSUME NEW e \in Entries, FindInv, TakeFile(e) PROVE FindInv'
<1> DEFINE N == Len(stack)
           p == Append(dir, e.name)
<1>1. /\ find_mode = "FIND_OPEN" /\ pc = "read" /\ stack' = Taken(e)
      /\ find_mode' = find_mode /\ find_eof' = find_eof /\ dir' = dir /\ sb' = sb
      /\ e \in Top.rest
  BY DEF TakeFile
<1>2. /\ N \in Nat \ {0} /\ N \in DOMAIN stack /\ Top = stack[N]
      /\ ~ find_eof /\ dir \in Seq(Names) /\ Len(dir) = N - 1
  BY <1>1, TopType, ReadingShape
<1>3. /\ p \in Seq(Names) /\ Len(p) = N /\ p[N] = e.name
      /\ \A k \in 1 .. N - 1 : p[k] = dir[k]
  BY <1>2 DEF Entries
<1>4. /\ pc' \in {"caller", "read"}
      /\ got' = got \/ got' = got \cup {p}
      /\ val' \in {<< >>} \cup (Paths \X BOOLEAN)
  <2>1. CASE Real(p) = File /\ ~ SkipsFile(p)
    <3>1. issourcefile(p) \in BOOLEAN BY DEF issourcefile
    <3>2. val' = <<p, issourcefile(p)>> /\ got' = got \cup {p} /\ pc' = "caller"
      BY <2>1 DEF TakeFile, Return
    <3> QED BY <3>1, <3>2, <1>3 DEF Paths
  <2>2. CASE ~ (Real(p) = File /\ ~ SkipsFile(p))
    BY <2>2, <1>1 DEF TakeFile, Return, FindInv, TypeOK
  <2> QED BY <2>1, <2>2
<1>5. TypeOK'
  <2>1. stack' \in Seq([dirp : Nat, real : Dirs, rest : SUBSET Entries])
    BY <1>1, TakenFacts
  <2>2. got' \subseteq Paths BY <1>3, <1>4 DEF FindInv, TypeOK, Paths
  <2> QED BY <1>1, <1>4, <2>1, <2>2 DEF FindInv, TypeOK, TakeFile
<1>6. Shape'
  <2>1. /\ Len(stack') = N /\ DOMAIN stack' = DOMAIN stack /\ stack' # << >>
        /\ \A i \in DOMAIN stack' : stack'[i].dirp = i - 1
    BY <1>1, <1>2, TakenFacts DEF FindInv, Shape
  <2> QED BY <1>1, <1>2, <1>4, <2>1 DEF Shape, Descending
<1>7. Fresh'
  <2>1. /\ DOMAIN stack' = DOMAIN stack
        /\ \A i \in DOMAIN stack : stack'[i].rest \subseteq stack[i].rest
        /\ e \notin stack'[N].rest
    BY <1>1, TakenFacts
  <2>2. Distinct(sb)' /\ \A i \in DOMAIN stack' : Distinct(stack'[i].rest)
    BY <1>1, <2>1 DEF FindInv, Fresh, Distinct
  <2>3. \A i \in DOMAIN stack' : \A f \in stack'[i].rest :
           i <= Len(dir') => f.name # dir'[i]
    BY <1>1, <2>1 DEF FindInv, Fresh
  <2>4. ASSUME NEW i \in DOMAIN stack', NEW f \in stack'[i].rest, NEW g \in got'
        PROVE  NotTo(i, f, g)'
    <3>1. CASE g \in got BY <1>1, <2>1, <3>1 DEF FindInv, Fresh, NotTo, Agrees
    <3>2. CASE g = p
      <4>1. i \in 1 .. N /\ f \in stack[i].rest BY <1>2, <2>1 DEF FindInv, TypeOK
      <4>2. CASE i = N
        <5>1. f.name # e.name BY <1>1, <1>2, <2>1, <4>1, <4>2 DEF FindInv, Fresh, Distinct
        <5> QED BY <5>1, <4>2, <3>2, <1>3 DEF NotTo
      <4>3. CASE i < N
        <5>1. f.name # dir[i] BY <1>2, <2>1, <4>1, <4>3 DEF FindInv, Fresh
        <5>2. p[i] = dir[i] BY <1>2, <1>3, <4>1, <4>3
        <5> QED BY <5>1, <5>2, <3>2 DEF NotTo
      <4> QED BY <4>1, <4>2, <4>3, <1>2
    <3> QED BY <3>1, <3>2, <1>4
  <2>5. pc' \notin Descending BY <1>4 DEF Descending
  <2> QED BY <2>2, <2>3, <2>4, <2>5 DEF Fresh
<1> QED BY <1>5, <1>6, <1>7 DEF FindInv

\* A directory that is skipped, or whose path is now in dir.
LEMMA TakeDirInv ==
  ASSUME NEW e \in Entries, FindInv, TakeDir(e) PROVE FindInv'
<1> DEFINE N == Len(stack)
           p == Append(dir, e.name)
<1>1. /\ find_mode = "FIND_OPEN" /\ pc = "read" /\ stack' = Taken(e)
      /\ find_mode' = find_mode /\ find_eof' = find_eof /\ sb' = sb /\ got' = got
      /\ e \in Top.rest
  BY DEF TakeDir
<1>2. /\ N \in Nat \ {0} /\ N \in DOMAIN stack /\ Top = stack[N]
      /\ ~ find_eof /\ dir \in Seq(Names) /\ Len(dir) = N - 1
  BY <1>1, TopType, ReadingShape
<1>3. /\ p \in Seq(Names) /\ Len(p) = N /\ p[N] = e.name
      /\ \A k \in 1 .. N - 1 : p[k] = dir[k]
  BY <1>2 DEF Entries
<1>4. \/ dir' = dir /\ pc' = "read"
      \/ dir' = p /\ pc' = "loop"
  BY <1>1 DEF TakeDir
<1>5. /\ stack' \in Seq([dirp : Nat, real : Dirs, rest : SUBSET Entries])
      /\ Len(stack') = N /\ DOMAIN stack' = DOMAIN stack /\ DOMAIN stack = 1 .. N
      /\ \A i \in DOMAIN stack : stack'[i].dirp = stack[i].dirp
      /\ \A i \in DOMAIN stack : stack'[i].rest \subseteq stack[i].rest
      /\ e \notin stack'[N].rest
  <2>1. DOMAIN stack = 1 .. N BY DEF FindInv, TypeOK
  <2> QED BY <1>1, <2>1, TakenFacts
<1>6. TypeOK' BY <1>1, <1>2, <1>3, <1>4, <1>5 DEF FindInv, TypeOK, TakeDir, Paths
<1>7. Shape'
  <2>1. stack' # << >> /\ \A i \in DOMAIN stack' : stack'[i].dirp = i - 1
    BY <1>2, <1>5 DEF FindInv, Shape
  <2> QED BY <1>1, <1>2, <1>3, <1>4, <1>5, <2>1 DEF Shape, Descending
<1>8. Fresh'
  <2>1. Distinct(sb)' /\ \A i \in DOMAIN stack' : Distinct(stack'[i].rest)
    BY <1>1, <1>5 DEF FindInv, Fresh, Distinct
  <2>2. CASE dir' = dir /\ pc' = "read"
    BY <1>1, <1>5, <2>1, <2>2 DEF FindInv, Fresh, NotTo, Agrees, Descending
  <2>3. CASE dir' = p /\ pc' = "loop"
    <3>1. ASSUME NEW i \in DOMAIN stack', NEW f \in stack'[i].rest, i <= Len(dir')
          PROVE  f.name # dir'[i]
      <4>1. CASE i = N
        BY <1>1, <1>2, <1>3, <1>5, <2>3, <4>1 DEF FindInv, Fresh, Distinct
      <4>2. CASE i < N
        BY <1>2, <1>3, <1>5, <2>3, <4>2 DEF FindInv, Fresh
      <4> QED BY <4>1, <4>2, <1>2, <1>5
    <3>2. ASSUME NEW i \in DOMAIN stack', NEW f \in stack'[i].rest, NEW g \in got'
          PROVE  NotTo(i, f, g)'
      <4>1. NotTo(i, f, g) BY <1>1, <1>5 DEF FindInv, Fresh
      <4>2. \A k \in 1 .. i - 1 : dir'[k] = dir[k] BY <1>2, <1>3, <1>5, <2>3
      <4> QED BY <4>1, <4>2 DEF NotTo, Agrees
    <3>3. ASSUME NEW g \in got', Agrees(g, Len(dir))' PROVE FALSE
      <4>1. NotTo(N, e, g) BY <1>1, <1>2 DEF FindInv, Fresh
      <4>2. Len(g) >= N /\ \A k \in 1 .. N : g[k] = p[k] BY <3>3, <2>3, <1>3 DEF Agrees
      <4>3. Len(g) \in Nat BY <1>1 DEF FindInv, TypeOK, Paths
      <4>4. Agrees(g, N - 1) BY <4>2, <4>3, <1>2, <1>3 DEF Agrees
      <4>5. g[N] = e.name BY <4>2, <1>2, <1>3
      <4> QED BY <4>1, <4>2, <4>3, <4>4, <4>5, <1>2 DEF NotTo
    <3> QED BY <2>1, <3>1, <3>2, <3>3 DEF Fresh
  <2> QED BY <1>4, <2>2, <2>3
<1> QED BY <1>6, <1>7, <1>8 DEF FindInv

\* The program is in the middle of a directory.
LEMMA DescendingShape ==
  ASSUME FindInv, pc \in Descending
  PROVE  /\ find_mode = "FIND_OPEN" /\ ~ find_eof /\ dir \in Seq(Names)
         /\ Len(stack) \in Nat \ {0} /\ Len(dir) = Len(stack)
         /\ DOMAIN stack = 1 .. Len(stack) /\ Top.dirp = Len(stack) - 1
<1>1. find_mode = "FIND_OPEN" /\ ~ find_eof BY DEF FindInv, Shape, Descending
<1>2. Len(stack) \in Nat \ {0} /\ Top.dirp = Len(stack) - 1 BY <1>1, TopType
<1>3. Len(dir) = Len(stack) BY DEF FindInv, Shape
<1> QED BY <1>1, <1>2, <1>3 DEF FindInv, TypeOK, Paths

\* A directory ignored: dir is cut back to where it was.
LEMMA IgnoreInv ==
  ASSUME FindInv, pc \in Descending, Ignore,
         UNCHANGED <<tree, find_mode, find_eof, ip, val, edits, got, kept, quiet>>
  PROVE  FindInv'
<1> DEFINE N == Len(stack)
<1>1. /\ find_mode = "FIND_OPEN" /\ ~ find_eof /\ dir \in Seq(Names)
      /\ N \in Nat \ {0} /\ Len(dir) = N /\ DOMAIN stack = 1 .. N
      /\ Top.dirp = N - 1
  BY DescendingShape
<1>2. dir' \in Seq(Names) /\ Len(dir') = N - 1 /\ \A k \in 1 .. N - 1 : dir'[k] = dir[k]
  BY <1>1 DEF Ignore, Truncated
<1>3. stack' = stack /\ sb' = sb /\ pc' = "read" BY DEF Ignore
<1>4. TypeOK' BY <1>2, <1>3 DEF FindInv, TypeOK, Paths
<1>5. Shape' BY <1>1, <1>2, <1>3 DEF FindInv, Shape, Descending
<1>6. Fresh'
  <2>1. ASSUME NEW i \in DOMAIN stack, NEW f \in stack[i].rest, NEW g \in got
        PROVE  NotTo(i, f, g)'
    <3>1. NotTo(i, f, g) BY DEF FindInv, Fresh
    <3>2. \A k \in 1 .. i - 1 : dir'[k] = dir[k] BY <1>1, <1>2
    <3> QED BY <3>1, <3>2 DEF NotTo, Agrees
  <2>2. ASSUME NEW i \in DOMAIN stack, NEW f \in stack[i].rest, i <= Len(dir')
        PROVE  f.name # dir'[i]
    BY <2>2, <1>1, <1>2 DEF FindInv, Fresh
  <2> QED BY <1>3, <2>1, <2>2 DEF FindInv, Fresh, Distinct, Descending
<1> QED BY <1>4, <1>5, <1>6 DEF FindInv

\* die: the program stops where it is.
LEMMA DieInv ==
  ASSUME FindInv, pc \in Descending, Die,
         UNCHANGED <<tree, find_mode, find_eof, ip, val, edits, got, kept, quiet>>
  PROVE  FindInv'
<1>1. /\ find_mode = "FIND_OPEN" /\ ~ find_eof /\ Len(dir) = Len(stack)
      /\ Len(stack) \in Nat \ {0}
  BY DescendingShape
<1>2. pc' = "dead" /\ dir' = dir /\ stack' = stack /\ sb' = sb BY DEF Die
<1>3. TypeOK' BY <1>2 DEF FindInv, TypeOK
<1>4. Shape' BY <1>1, <1>2 DEF FindInv, Shape, Descending
<1>5. Fresh' BY <1>2 DEF FindInv, Fresh, Distinct, NotTo, Agrees, Descending
<1> QED BY <1>3, <1>4, <1>5 DEF FindInv

\* The check for loops moves nothing unless it gives up the directory.
LEMMA CheckLoopInv == FindInv /\ CheckLoop => FindInv'
<1> SUFFICES ASSUME FindInv, CheckLoop PROVE FindInv' OBVIOUS
<1>1. pc \in Descending BY DEF CheckLoop, Descending
<1>2. CASE Die BY <1>1, <1>2, DieInv DEF CheckLoop
<1>3. CASE Ignore BY <1>1, <1>3, IgnoreInv DEF CheckLoop
<1>4. CASE pc' = "list" /\ UNCHANGED <<dir, sb, stack>>
  <2>1. TypeOK' BY <1>4 DEF FindInv, TypeOK, CheckLoop
  <2>2. Shape' BY <1>1, <1>4 DEF FindInv, Shape, Descending, CheckLoop
  <2>3. Fresh'
    BY <1>1, <1>4 DEF FindInv, Fresh, Distinct, NotTo, Agrees, Descending, CheckLoop
  <2> QED BY <2>1, <2>2, <2>3 DEF FindInv
<1> QED BY <1>2, <1>3, <1>4 DEF CheckLoop

\* The listing of a directory, or its end.
LEMMA GetdirsInv == FindInv /\ getdirs => FindInv'
<1> SUFFICES ASSUME FindInv, getdirs PROVE FindInv' OBVIOUS
<1>1. pc \in Descending BY DEF getdirs, Descending
<1>2. CASE Ignore BY <1>1, <1>2, IgnoreInv DEF getdirs
<1>3. CASE sb' = Listing(Real(dir)) /\ pc' = "push" /\ UNCHANGED <<dir, stack>>
  <2>1. sb' \in SUBSET Entries /\ Distinct(sb') BY <1>3, ListingType
  <2>2. TypeOK' BY <1>3, <2>1 DEF FindInv, TypeOK, getdirs
  <2>3. Shape' BY <1>1, <1>3 DEF FindInv, Shape, Descending, getdirs
  <2>4. Fresh'
    BY <1>1, <1>3, <2>1 DEF FindInv, Fresh, Distinct, NotTo, Agrees, Descending, getdirs
  <2> QED BY <2>2, <2>3, <2>4 DEF FindInv
<1> QED BY <1>2, <1>3 DEF getdirs

\* A directory begun: nothing returned lies below it yet.
LEMMA PushInv == FindInv /\ Push => FindInv'
<1> SUFFICES ASSUME FindInv, Push PROVE FindInv' OBVIOUS
<1> DEFINE N == Len(stack)
           T == [dirp : Nat, real : Dirs, rest : SUBSET Entries]
           new == [dirp |-> Len(dir), real |-> Real(dir), rest |-> sb]
<1>1. pc \in Descending BY DEF Push, Descending
<1>2. CASE Die BY <1>1, <1>2, DieInv DEF Push
<1>3. CASE /\ Real(dir) \in Dirs /\ stack' = Append(stack, new) /\ sb' = {}
           /\ pc' = "read" /\ dir' = dir
  <2>1. /\ find_mode = "FIND_OPEN" /\ ~ find_eof /\ dir \in Seq(Names)
        /\ N \in Nat \ {0} /\ Len(dir) = N /\ DOMAIN stack = 1 .. N
    BY <1>1, DescendingShape
  <2>2. new \in T /\ new.dirp = N /\ new.rest = sb
    BY <1>3, <2>1 DEF FindInv, TypeOK
  <2>3. stack \in Seq(T) BY DEF FindInv, TypeOK
  <2> HIDE DEF T, new
  <2>4. /\ stack' \in Seq(T) /\ Len(stack') = N + 1 /\ DOMAIN stack' = 1 .. N + 1
        /\ stack'[N + 1] = new /\ \A i \in 1 .. N : stack'[i] = stack[i]
    BY <1>3, <2>1, <2>2, <2>3
  <2>5. /\ find_mode' = find_mode /\ find_eof' = find_eof /\ got' = got
    BY DEF Push
  <2>6. TypeOK' BY <1>3, <2>4 DEF FindInv, TypeOK, Push, T
  <2>7. Shape'
    <3>1. \A i \in DOMAIN stack' : stack'[i].dirp = i - 1
      BY <2>1, <2>2, <2>4 DEF FindInv, Shape
    <3>2. stack' # << >> BY <2>1, <2>4
    <3> QED BY <1>3, <2>1, <2>4, <2>5, <3>1, <3>2 DEF Shape, Descending
  <2>8. Fresh'
    <3>1. \A i \in DOMAIN stack' : Distinct(stack'[i].rest)
      BY <2>1, <2>2, <2>4 DEF FindInv, Fresh
    <3>2. ASSUME NEW i \in DOMAIN stack', NEW f \in stack'[i].rest, i <= Len(dir')
          PROVE  f.name # dir'[i]
      BY <1>3, <2>1, <2>4, <3>2 DEF FindInv, Fresh
    <3>3. ASSUME NEW i \in DOMAIN stack', NEW f \in stack'[i].rest, NEW g \in got'
          PROVE  NotTo(i, f, g)'
      <4>1. CASE i \in 1 .. N
        BY <1>3, <2>1, <2>4, <2>5, <4>1 DEF FindInv, Fresh, NotTo, Agrees
      <4>2. CASE i = N + 1
        <5>1. ~ Agrees(g, N) BY <1>1, <2>1, <2>5 DEF FindInv, Fresh
        <5>2. i - 1 = N BY <4>2, <2>1
        <5>3. ~ Agrees(g, i - 1)' BY <5>1, <5>2, <1>3 DEF Agrees
        <5> QED BY <5>3 DEF NotTo
      <4> QED BY <4>1, <4>2, <2>1, <2>4
    <3> QED BY <1>3, <3>1, <3>2, <3>3 DEF Fresh, Distinct, Descending
  <2> QED BY <2>6, <2>7, <2>8 DEF FindInv
<1> QED BY <1>2, <1>3 DEF Push

\* A directory at its end: dir is cut back to the one above.
LEMMA PopInv == FindInv /\ Pop => FindInv'
<1> SUFFICES ASSUME FindInv, Pop PROVE FindInv' OBVIOUS
<1> DEFINE N == Len(stack)
           T == [dirp : Nat, real : Dirs, rest : SUBSET Entries]
<1>1. find_mode = "FIND_OPEN" /\ pc = "read" BY DEF Pop
<1>2. /\ N \in Nat \ {0} /\ ~ find_eof /\ dir \in Seq(Names) /\ Len(dir) = N - 1
  BY <1>1, TopType, ReadingShape
<1>3. stack \in Seq(T) /\ DOMAIN stack = 1 .. N BY DEF FindInv, TypeOK
<1>4. /\ stack' \in Seq(T) /\ Len(stack') = N - 1 /\ DOMAIN stack' = 1 .. N - 1
      /\ \A i \in 1 .. N - 1 : stack'[i] = stack[i]
  <2> HIDE DEF T
  <2> QED BY <1>2, <1>3 DEF Pop
<1>8. DOMAIN stack = 1 .. N /\ DOMAIN stack' = 1 .. N - 1 BY <1>3, <1>4
<1>9. \A i \in 1 .. N - 1 : i \in 1 .. N /\ stack'[i] = stack[i] BY <1>2, <1>4
<1>5. find_mode' = find_mode /\ sb' = sb /\ got' = got BY DEF Pop
<1>6. CASE N = 1
  <2>1. stack' = << >> BY <1>4, <1>6
  <2>2. find_eof' = TRUE /\ pc' = "caller" /\ dir' = dir BY <1>6 DEF Pop
  <2>3. find_eof' \in BOOLEAN BY <2>2
  <2>4. TypeOK' BY <1>4, <2>2, <2>3 DEF FindInv, TypeOK, Pop
  <2>5. Shape' BY <1>1, <1>5, <2>1, <2>2 DEF Shape, Descending
  <2>6. Fresh' BY <1>5, <2>1, <2>2 DEF FindInv, Fresh, Distinct, Descending
  <2> QED BY <2>4, <2>5, <2>6 DEF FindInv
<1>7. CASE N # 1
  <2>1. stack[N - 1].dirp = N - 2
    <3>1. N - 1 \in DOMAIN stack BY <1>2, <1>7, <1>8
    <3>2. stack[N - 1].dirp = (N - 1) - 1 BY <3>1 DEF FindInv, Shape
    <3> QED BY <3>2, <1>2
  <2>2. /\ dir' = Truncated(dir, stack[N - 1])
        /\ find_eof' = find_eof /\ pc' = pc
    BY <1>7 DEF Pop
  <2>3. /\ dir' \in Seq(Names) /\ Len(dir') = N - 2
        /\ \A k \in 1 .. N - 2 : dir'[k] = dir[k]
    BY <1>2, <1>7, <2>1, <2>2 DEF Truncated
  <2>4. TypeOK' BY <1>4, <2>2, <2>3 DEF FindInv, TypeOK, Pop, Paths
  <2>5. Shape'
    <3>1. \A i \in DOMAIN stack' : stack'[i].dirp = i - 1
      BY <1>8, <1>9 DEF FindInv, Shape
    <3>2. stack' # << >> BY <1>2, <1>4, <1>7
    <3> QED BY <1>1, <1>2, <1>4, <1>5, <2>2, <2>3, <3>1, <3>2 DEF Shape, Descending
  <2>6. Fresh'
    <3>1. \A i \in DOMAIN stack' : Distinct(stack'[i].rest)
      BY <1>8, <1>9 DEF FindInv, Fresh
    <3>2. ASSUME NEW i \in DOMAIN stack', NEW f \in stack'[i].rest, i <= Len(dir')
          PROVE  f.name # dir'[i]
      BY <1>2, <1>8, <1>9, <2>3, <3>2 DEF FindInv, Fresh
    <3>3. ASSUME NEW i \in DOMAIN stack', NEW f \in stack'[i].rest, NEW g \in got'
          PROVE  NotTo(i, f, g)'
      <4>1. NotTo(i, f, g) BY <1>5, <1>8, <1>9 DEF FindInv, Fresh
      <4>2. \A k \in 1 .. i - 1 : dir'[k] = dir[k] BY <1>2, <1>4, <2>3
      <4> QED BY <4>1, <4>2 DEF NotTo, Agrees
    <3> QED BY <1>1, <1>5, <2>2, <3>1, <3>2, <3>3 DEF FindInv, Fresh, Distinct, Descending
  <2> QED BY <2>4, <2>5, <2>6 DEF FindInv
<1> QED BY <1>6, <1>7

\* A line of a file list touches no stack.
LEMMA FileListInv == FindInv /\ find_read_filelist => FindInv'
<1> SUFFICES ASSUME FindInv, find_read_filelist PROVE FindInv' OBVIOUS
<1>1. /\ find_mode = "FILELIST_OPEN" /\ pc = "read" /\ stack = << >>
      /\ UNCHANGED <<tree, find_mode, dir, stack, sb, edits, kept, quiet>>
  BY DEF FindInv, Shape, find_read_filelist
<1>2. CASE ip = << >>
  <2>1. find_eof' = TRUE /\ pc' = "caller" /\ UNCHANGED <<ip, val, got>>
    BY <1>2 DEF find_read_filelist
  <2>2. find_eof' \in BOOLEAN BY <2>1
  <2>3. TypeOK' BY <1>1, <2>1, <2>2 DEF FindInv, TypeOK
  <2> QED BY <1>1, <2>1, <2>3 DEF FindInv, Shape, Fresh, Distinct, Descending
<1>3. CASE ip # << >>
  <2>1. ip' = Tail(ip) /\ find_eof' = find_eof BY <1>3 DEF find_read_filelist
  <2>2. ip' \in Seq(Paths \cup {NoPath}) /\ Head(ip) \in Paths \cup {NoPath}
    BY <1>3, <2>1 DEF FindInv, TypeOK
  <2>3. /\ val' \in {<< >>} \cup (Paths \X BOOLEAN) /\ got' \subseteq Paths
        /\ pc' \in {"caller", "read"}
    <3>1. CASE UNCHANGED <<val, got, pc>> BY <1>1, <3>1 DEF FindInv, TypeOK
    <3>2. CASE Head(ip) # NoPath /\ Return(Head(ip))
      <4>1. Head(ip) \in Paths BY <2>2, <3>2
      <4>2. issourcefile(Head(ip)) \in BOOLEAN BY DEF issourcefile
      <4>3. CASE /\ val' = <<Head(ip), issourcefile(Head(ip))>>
                 /\ got' = got \cup {Head(ip)} /\ pc' = "caller"
        BY <4>1, <4>2, <4>3 DEF FindInv, TypeOK
      <4> QED BY <3>1, <3>2, <4>3 DEF Return
    <3> QED BY <1>3, <3>1, <3>2 DEF find_read_filelist
  <2>4. TypeOK' BY <1>1, <2>1, <2>2, <2>3 DEF FindInv, TypeOK
  <2> QED BY <1>1, <2>1, <2>3, <2>4 DEF FindInv, Shape, Fresh, Distinct, Descending
<1> QED BY <1>2, <1>3

\* find_close finds the stack empty.
LEMMA CloseInv == FindInv /\ find_close => FindInv'
<1> SUFFICES ASSUME FindInv, find_close PROVE FindInv' OBVIOUS
<1>1. stack = << >> /\ stack' = stack BY DEF FindInv, Shape, find_close
<1>2. find_eof' = FALSE /\ find_mode' = "0" /\ pc' = "closed" BY DEF find_close
<1>3. find_eof' \in BOOLEAN BY <1>2
<1>4. TypeOK' BY <1>2, <1>3 DEF FindInv, TypeOK, find_close
<1>5. Shape' BY <1>1, <1>2 DEF Shape, Descending
<1>6. Fresh'
  BY <1>1, <1>2 DEF FindInv, Fresh, Distinct, Descending, find_close
<1> QED BY <1>4, <1>5, <1>6 DEF FindInv

\* An edit of the tree changes nothing the program has in memory.
LEMMA EditInv ==
  ASSUME NEW d \in Dirs, NEW n \in Names, NEW node \in Nodes, FindInv, Edit(d, n, node)
  PROVE  FindInv'
<1>1. UNCHANGED <<find_mode, find_eof, dir, stack, sb, ip, val, pc, got>>
  BY DEF Edit, iterator
<1>2. TypeOK'
  <2>1. tree' \in [Dirs -> [Names -> Nodes]] BY DEF Edit, FindInv, TypeOK
  <2>2. edits' \in 0 .. MaxEdits BY FindAssumption DEF Edit, FindInv, TypeOK
  <2>3. quiet' \in BOOLEAN
    <3>1. (pc = "start") \in BOOLEAN OBVIOUS
    <3> QED BY <3>1, Zenon DEF Edit
  <2> QED BY <1>1, <2>1, <2>2, <2>3 DEF FindInv, TypeOK
<1>3. Shape' BY <1>1 DEF FindInv, Shape, Descending
<1>4. Fresh' BY <1>1 DEF FindInv, Fresh, Distinct, NotTo, Agrees, Descending
<1> QED BY <1>2, <1>3, <1>4 DEF FindInv

\* Every step keeps the invariant.
LEMMA NextInv == FindInv /\ [Next]_vars => FindInv'
<1> SUFFICES ASSUME FindInv, [Next]_vars PROVE FindInv' OBVIOUS
<1>1. CASE Traverse
  <2>1. CASE find_open BY <2>1, OpenInv
  <2>2. CASE \E lines \in Lists : find_open_filelist(lines) BY <2>2, OpenListInv
  <2>3. CASE find_read BY <2>3, ReadInv
  <2>4. CASE \E e \in [name : Names, isdir : BOOLEAN] : TakeFile(e) \/ TakeDir(e)
    BY <2>4, TakeFileInv, TakeDirInv DEF Entries
  <2>5. CASE CheckLoop BY <2>5, CheckLoopInv
  <2>6. CASE getdirs BY <2>6, GetdirsInv
  <2>7. CASE Push BY <2>7, PushInv
  <2>8. CASE Pop BY <2>8, PopInv
  <2>9. CASE find_read_filelist BY <2>9, FileListInv
  <2>10. CASE find_close BY <2>10, CloseInv
  <2> QED
    BY <1>1, <2>1, <2>2, <2>3, <2>4, <2>5, <2>6, <2>7, <2>8, <2>9, <2>10 DEF Traverse
<1>2. CASE \E e \in Edited, node \in Nodes : Edit(e[1], e[2], node)
  <2>1. PICK e \in Edited, node \in Nodes : Edit(e[1], e[2], node) BY <1>2
  <2>2. e[1] \in Dirs /\ e[2] \in Names BY FindAssumption
  <2> QED BY <2>1, <2>2, EditInv
<1>3. CASE UNCHANGED vars
  <2>1. UNCHANGED <<tree, find_mode, find_eof, dir, stack, sb, ip, val, pc, edits,
                    got, kept, quiet>>
    BY <1>3 DEF vars, iterator
  <2>2. TypeOK' BY <2>1 DEF FindInv, TypeOK
  <2>3. Shape' BY <2>1 DEF FindInv, Shape, Descending
  <2>4. Fresh' BY <2>1 DEF FindInv, Fresh, Distinct, NotTo, Agrees, Descending
  <2> QED BY <2>2, <2>3, <2>4 DEF FindInv
<1> QED BY <1>1, <1>2, <1>3 DEF Next

\* The invariant of the traversal, for every tree and every number of edits.
THEOREM FindInvariant == Spec => []FindInv
<1> QED BY InitInv, NextInv, PTL DEF Spec

\* Every variable of find has its type.
THEOREM FindTypes == Spec => []TypeOK
<1>1. FindInv => TypeOK BY DEF FindInv
<1> QED BY <1>1, FindInvariant, PTL

\* Whenever find_read returns, the buffer dir is the path of the listing on
\* top of the stack.
THEOREM DirIsTopHolds == Spec => []DirIsTop
<1>1. FindInv => DirIsTop
  <2> SUFFICES ASSUME FindInv, pc \in {"caller", "read"}, stack # << >>
               PROVE  Len(dir) = Top.dirp
    BY DEF DirIsTop
  <2>1. find_mode = "FIND_OPEN" /\ ~ find_eof BY DEF FindInv, Shape
  <2>2. Top.dirp = Len(stack) - 1 BY <2>1, TopType
  <2> QED BY <2>2 DEF FindInv, Shape
<1> QED BY <1>1, FindInvariant, PTL

\* A path that find_read of a traversal returns was not returned before,
\* whatever was edited in between.
THEOREM FilesOnceHolds == Spec => FilesOnce
<1> DEFINE Once == (/\ find_mode = "FIND_OPEN" /\ pc = "read"
                    /\ pc' = "caller" /\ ~ find_eof') => val'[1] \notin got
<1>1. ASSUME FindInv, [Next]_vars PROVE Once
  <2> SUFFICES ASSUME find_mode = "FIND_OPEN", pc = "read", pc' = "caller", ~ find_eof'
               PROVE  val'[1] \notin got
    OBVIOUS
  <2>1. PICK e \in [name : Names, isdir : BOOLEAN] : TakeFile(e)
    BY <1>1 DEF Next, Traverse, find_open, find_open_filelist, find_read, TakeDir,
       CheckLoop, getdirs, Push, Pop, find_read_filelist, find_close, Edit, vars, iterator
  <2> DEFINE p == Append(dir, e.name)
             N == Len(stack)
  <2>2. val' = <<p, issourcefile(p)>> BY <2>1 DEF TakeFile, Return
  <2>3. /\ N \in Nat \ {0} /\ N \in DOMAIN stack /\ Top = stack[N]
        /\ dir \in Seq(Names) /\ Len(dir) = N - 1
    BY <1>1, TopType, ReadingShape
  <2>4. /\ Len(p) = N /\ p[N] = e.name /\ \A k \in 1 .. N - 1 : p[k] = dir[k]
    BY <2>3
  <2>5. e \in stack[N].rest BY <2>1, <2>3 DEF TakeFile
  <2>6. ASSUME p \in got PROVE FALSE
    <3>1. NotTo(N, e, p) BY <1>1, <2>3, <2>5, <2>6 DEF FindInv, Fresh
    <3>2. Agrees(p, N - 1) BY <2>3, <2>4 DEF Agrees
    <3> QED BY <3>1, <3>2, <2>3, <2>4 DEF NotTo
  <2> QED BY <2>2, <2>6
<1>2. ASSUME FindInv, [Next]_vars
      PROVE  [/\ find_mode = "FIND_OPEN" /\ pc = "read"
              /\ pc' = "caller" /\ ~ find_eof'
              => val'[1] \notin got]_vars
  BY <1>1, <1>2
<1> QED BY <1>2, FindInvariant, PTL DEF Spec, FilesOnce
----------------------------------------------------------------------------
\* The real directories that have a listing begun.
Begun == {stack[i].real : i \in DOMAIN stack} \ Above

\* A directory on the stack twice, or above the root, is there by an edit; so
\* it will be if the directory about to be pushed is no longer what was checked.
NestInv ==
  /\ Len(stack) <= Cardinality(Begun) + edits
  /\ pc \in {"list", "push"} /\ has_symlinkloop(Real(dir))
     => Len(stack) + 1 <= Cardinality(Begun) + edits

\* There are no more of them than directories.
LEMMA BegunFinite ==
  ASSUME TypeOK
  PROVE  /\ Begun \subseteq Dirs \ Above /\ IsFiniteSet(Begun)
         /\ Cardinality(Begun) \in Nat /\ MaxNesting \in Nat
         /\ Cardinality(Begun) <= MaxNesting
         /\ edits \in Nat /\ Len(stack) \in Nat
<1>1. Begun \subseteq Dirs \ Above
  <2> DEFINE T == [dirp : Nat, real : Dirs, rest : SUBSET Entries]
  <2>1. \A i \in DOMAIN stack : stack[i].real \in Dirs
    <3>1. stack \in Seq(T) BY DEF TypeOK
    <3> HIDE DEF T
    <3>2. \A i \in DOMAIN stack : stack[i] \in T BY <3>1
    <3> QED BY <3>2 DEF T
  <2> QED BY <2>1 DEF Begun
<1>2. IsFiniteSet(Dirs \ Above) BY FindAssumption, FS_Subset
<1>3. edits \in Nat /\ Len(stack) \in Nat BY FindAssumption DEF TypeOK
<1> QED BY <1>1, <1>2, <1>3, FS_Subset, FS_CardinalityType DEF MaxNesting

\* A step that leaves the real paths on the stack, and is not at a directory.
LEMMA NestSame ==
  ASSUME TypeOK, NestInv, Len(stack') = Len(stack), DOMAIN stack' = DOMAIN stack,
         \A i \in DOMAIN stack : stack'[i].real = stack[i].real,
         edits' = edits, pc' \notin {"list", "push"}
  PROVE  NestInv'
<1>1. Begun' = Begun BY DEF Begun
<1>2. Cardinality(Begun)' = Cardinality(Begun) BY <1>1
<1> QED BY <1>2 DEF NestInv

\* What the check found stays true until someone edits the tree.
LEMMA CheckStays ==
  ASSUME tree' = tree, dir' = dir, stack' = stack
  PROVE  has_symlinkloop(Real(dir))' = has_symlinkloop(Real(dir))
BY DEF has_symlinkloop, Real

\* The program between two edits.
LEMMA NestTraverse == FindInv /\ NestInv /\ Traverse => NestInv'
<1> SUFFICES ASSUME FindInv, NestInv, Traverse PROVE NestInv' OBVIOUS
<1> USE DEF FindInv
<1>1. CASE find_open
  <2>1. /\ Len(stack') = 1 /\ DOMAIN stack' = {1} /\ stack'[1].real = Root
        /\ pc' = "caller" /\ edits' = edits
    BY <1>1 DEF find_open
  <2>2. Begun' = {Root} BY <2>1, FindAssumption DEF Begun
  <2>3. Cardinality(Begun)' = 1 BY <2>2, FS_Singleton
  <2> QED BY <2>1, <2>3, BegunFinite DEF NestInv
<1>2. CASE \/ \E lines \in Lists : find_open_filelist(lines)
           \/ find_read \/ find_read_filelist \/ find_close
  <2>1. stack' = stack /\ edits' = edits
    BY <1>2 DEF find_open_filelist, find_read, find_read_filelist, find_close
  <2>2. pc' \notin {"list", "push"}
    BY <1>2 DEF find_open_filelist, find_read, find_read_filelist, find_close, Return
  <2> QED BY <2>1, <2>2, NestSame
<1>3. CASE \E e \in [name : Names, isdir : BOOLEAN] : TakeFile(e) \/ TakeDir(e)
  <2>1. PICK e \in [name : Names, isdir : BOOLEAN] : TakeFile(e) \/ TakeDir(e) BY <1>3
  <2>2. /\ find_mode = "FIND_OPEN" /\ pc = "read" /\ stack' = Taken(e)
        /\ edits' = edits /\ pc' \notin {"list", "push"}
    BY <2>1 DEF TakeFile, TakeDir, Return
  <2>3. Len(stack') = Len(stack) /\ DOMAIN stack' = DOMAIN stack
    BY <2>2, TakenFacts
  <2>4. \A i \in DOMAIN stack : stack'[i].real = stack[i].real
    BY <2>2, TopType, ReadingShape DEF Taken, TypeOK
  <2> QED BY <2>2, <2>3, <2>4, NestSame
<1>4. CASE CheckLoop
  <2>1. stack' = stack /\ edits' = edits BY <1>4 DEF CheckLoop, Die, Ignore
  <2>2. CASE pc' \notin {"list", "push"} BY <2>1, <2>2, NestSame
  <2>3. CASE pc' \in {"list", "push"}
    <3>1. /\ ~ has_symlinkloop(Real(dir))
          /\ tree' = tree /\ dir' = dir
      BY <1>4, <2>3 DEF CheckLoop, Die, Ignore
    <3>2. ~ has_symlinkloop(Real(dir))' BY <2>1, <3>1, CheckStays
    <3>3. Begun' = Begun BY <2>1 DEF Begun
    <3>4. Cardinality(Begun)' = Cardinality(Begun) BY <3>3
    <3> QED BY <2>1, <3>2, <3>4 DEF NestInv
  <2> QED BY <2>2, <2>3
<1>5. CASE getdirs
  <2>1. stack' = stack /\ edits' = edits /\ tree' = tree /\ pc = "list"
    BY <1>5 DEF getdirs, Ignore
  <2>2. CASE pc' \notin {"list", "push"} BY <2>1, <2>2, NestSame
  <2>3. CASE pc' \in {"list", "push"}
    <3>1. dir' = dir BY <1>5, <2>3 DEF getdirs, Ignore
    <3>2. has_symlinkloop(Real(dir))' = has_symlinkloop(Real(dir))
      BY <2>1, <3>1, CheckStays
    <3>3. Begun' = Begun BY <2>1 DEF Begun
    <3>4. Cardinality(Begun)' = Cardinality(Begun) BY <3>3
    <3> QED BY <2>1, <3>2, <3>4 DEF NestInv
  <2> QED BY <2>2, <2>3
<1>6. CASE Push
  <2> DEFINE N == Len(stack)
             new == [dirp |-> Len(dir), real |-> Real(dir), rest |-> sb]
  <2>1. pc = "push" /\ edits' = edits /\ pc' \notin {"list", "push"}
    BY <1>6 DEF Push, Die
  <2>2. CASE stack' = stack BY <2>1, <2>2, NestSame
  <2>3. CASE Real(dir) \in Dirs /\ stack' = Append(stack, new)
    <3>1. N \in Nat /\ DOMAIN stack = 1 .. N BY DEF TypeOK
    <3>2. /\ Len(stack') = N + 1 /\ DOMAIN stack' = 1 .. N + 1
          /\ stack'[N + 1].real = Real(dir)
          /\ \A i \in 1 .. N : stack'[i] = stack[i]
      <4>1. new.real = Real(dir) OBVIOUS
      <4> HIDE DEF new
      <4> QED BY <2>3, <3>1, <4>1 DEF TypeOK
    <3>3. Begun' = Begun \cup ({Real(dir)} \ Above)
      <4>1. {stack'[i].real : i \in DOMAIN stack'}
            = {stack[i].real : i \in DOMAIN stack} \cup {Real(dir)}
        BY <3>1, <3>2
      <4> QED BY <4>1 DEF Begun
    <3>4. CASE has_symlinkloop(Real(dir))
      <4>1. N + 1 <= Cardinality(Begun) + edits BY <2>1, <3>4 DEF NestInv
      <4>2. IsFiniteSet(Begun') /\ Begun \subseteq Begun'
        <5>1. IsFiniteSet(Begun \cup {Real(dir)}) BY BegunFinite, FS_AddElement
        <5>2. Begun' \subseteq Begun \cup {Real(dir)} /\ Begun \subseteq Begun' BY <3>3
        <5> QED BY <5>1, <5>2, FS_Subset
      <4>3. Cardinality(Begun) <= Cardinality(Begun)' /\ Cardinality(Begun)' \in Nat
        BY <4>2, FS_Subset, FS_CardinalityType
      <4> QED BY <2>1, <3>2, <4>1, <4>3, BegunFinite DEF NestInv
    <3>5. CASE ~ has_symlinkloop(Real(dir))
      <4>1. Real(dir) \notin Begun /\ Real(dir) \notin Above
        BY <3>5 DEF has_symlinkloop, Begun
      <4>2. Begun' = Begun \cup {Real(dir)} BY <3>3, <4>1
      <4>3. Cardinality(Begun)' = Cardinality(Begun) + 1
        BY <4>1, <4>2, BegunFinite, FS_AddElement
      <4> QED BY <2>1, <3>1, <3>2, <4>3, BegunFinite DEF NestInv
    <3> QED BY <3>4, <3>5
  <2> QED BY <1>6, <2>2, <2>3 DEF Push, Die
<1>7. CASE Pop
  <2> DEFINE N == Len(stack)
  <2>1. find_mode = "FIND_OPEN" /\ pc = "read" /\ edits' = edits BY <1>7 DEF Pop
  <2>2. N \in Nat \ {0} /\ DOMAIN stack = 1 .. N
    <3>1. DOMAIN stack = 1 .. N BY DEF TypeOK
    <3> QED BY <2>1, <3>1, TopType, ReadingShape
  <2>3. /\ Len(stack') = N - 1 /\ DOMAIN stack' = 1 .. N - 1
        /\ \A i \in 1 .. N - 1 : stack'[i] = stack[i]
    BY <1>7, <2>2 DEF Pop, TypeOK
  <2>4. pc' \notin {"list", "push"} BY <1>7, <2>1 DEF Pop
  <2>5. Begun \subseteq Begun' \cup {stack[N].real} /\ Begun' \subseteq Begun
    BY <2>2, <2>3 DEF Begun
  <2>6. IsFiniteSet(Begun') BY <2>5, BegunFinite, FS_Subset
  <2>7. Cardinality(Begun) <= Cardinality(Begun)' + 1 /\ Cardinality(Begun)' \in Nat
    <3> DEFINE more == Begun' \cup {stack[N].real}
    <3>1. /\ IsFiniteSet(more) /\ Cardinality(Begun)' \in Nat
          /\ \/ Cardinality(more) = Cardinality(Begun)'
             \/ Cardinality(more) = Cardinality(Begun)' + 1
      BY <2>6, FS_AddElement, FS_CardinalityType
    <3>2. Cardinality(Begun) <= Cardinality(more) BY <2>5, <3>1, FS_Subset
    <3> QED BY <3>1, <3>2, BegunFinite
  <2> QED BY <2>1, <2>2, <2>3, <2>4, <2>7, BegunFinite DEF NestInv
<1> QED BY <1>1, <1>2, <1>3, <1>4, <1>5, <1>6, <1>7 DEF Traverse

\* The traversal nests no deeper than there are directories, and once more for
\* every edit: no links make it descend for ever.
THEOREM NestingBoundHolds == Spec => []NestingBound
<1>1. Init => NestInv
  <2> SUFFICES ASSUME Init PROVE NestInv OBVIOUS
  <2>1. Begun = {} BY DEF Init, Begun
  <2> QED BY <2>1, FS_EmptySet DEF Init, NestInv
<1>2. FindInv /\ NestInv /\ [Next]_vars => NestInv'
  <2> SUFFICES ASSUME FindInv, NestInv, [Next]_vars PROVE NestInv' OBVIOUS
  <2>1. CASE Traverse BY <2>1, NestTraverse
  <2>2. CASE \E e \in Edited, node \in Nodes : Edit(e[1], e[2], node)
    <3>1. stack' = stack /\ edits' = edits + 1 BY <2>2 DEF Edit, iterator
    <3>2. Begun' = Begun BY <3>1 DEF Begun
    <3>3. Cardinality(Begun)' = Cardinality(Begun) BY <3>2
    <3> QED BY <3>1, <3>3, BegunFinite DEF NestInv, FindInv
  <2>3. CASE UNCHANGED vars
    <3>1. stack' = stack /\ edits' = edits /\ tree' = tree /\ dir' = dir /\ pc' = pc
      BY <2>3 DEF vars, iterator
    <3>2. has_symlinkloop(Real(dir))' = has_symlinkloop(Real(dir))
      BY <3>1, CheckStays
    <3>3. Begun' = Begun BY <3>1 DEF Begun
    <3>4. Cardinality(Begun)' = Cardinality(Begun) BY <3>3
    <3> QED BY <3>1, <3>2, <3>4 DEF NestInv
  <2> QED BY <2>1, <2>2, <2>3 DEF Next
<1>3. FindInv /\ NestInv => NestingBound
  BY BegunFinite DEF FindInv, NestInv, NestingBound
<1> QED BY <1>1, <1>2, <1>3, FindInvariant, PTL DEF Spec
----------------------------------------------------------------------------
\* A set of numbers that is not empty has a least one: of the sets of numbers
\* below its elements one has no smaller.
LEMMA LeastExists ==
  ASSUME NEW S, S \subseteq Nat, S # {}
  PROVE  \E i \in S : \A j \in S : i <= j
<1>1. PICK k \in S : TRUE OBVIOUS
<1> DEFINE UpTo(i) == {j \in S : j <= i}
           Starts == {UpTo(i) : i \in UpTo(k)}
           R == StrictSubsetOrdering(0 .. k)
<1>2. k \in Nat /\ k \in UpTo(k) BY <1>1
<1>3. IsFiniteSet(0 .. k) BY <1>2, FS_Interval
<1>4. IsWellFoundedOn(R, SUBSET (0 .. k))
  BY <1>3, FS_StrictSubsetOrderingWellFounded, FS_FiniteSubsetsOfFinite
<1>5. UpTo(k) \in Starts BY <1>2, Zenon
<1>6. Starts \subseteq SUBSET (0 .. k)
  <2> SUFFICES ASSUME NEW i \in S, i <= k, NEW j \in S, j <= i PROVE j \in 0 .. k
    BY Zenon
  <2>1. i \in Nat /\ j \in Nat BY <1>1
  <2> QED BY <1>2, <2>1
<1>7. \E x \in Starts : \A y \in Starts : <<y, x>> \notin R
  <2> HIDE DEF Starts, R
  <2> QED BY <1>4, <1>5, <1>6, WFMin
<1>8. PICK i \in UpTo(k) : \A y \in Starts : <<y, UpTo(i)>> \notin R BY <1>7, Zenon
<1>9. \A j \in S : i <= j
  <2>1. i \in Nat /\ \A j \in S : j \in Nat BY <1>8
  <2> SUFFICES ASSUME NEW j \in S, j < i PROVE FALSE BY <2>1
  <2>2. j <= k /\ i <= i /\ ~ (i <= j) /\ \A m \in S : m <= j => m <= i
    BY <1>2, <1>8, <2>1
  <2>3. UpTo(j) \in Starts /\ UpTo(i) \in Starts BY <1>8, <2>2, Zenon
  <2>4. UpTo(j) \subseteq UpTo(i) /\ UpTo(j) # UpTo(i)
    <3>1. i \in UpTo(i) /\ i \notin UpTo(j) BY <1>8, <2>2, Zenon
    <3> QED BY <2>2, <3>1, Zenon
  <2>5. <<UpTo(j), UpTo(i)>> \in R
    <3> HIDE DEF Starts, UpTo
    <3> QED BY <1>6, <2>3, <2>4 DEF StrictSubsetOrdering
  <2> QED BY <1>8, <2>3, <2>5
<1> QED BY <1>8, <1>9

\* One name further along the path p.
NextPlace(g, p, n) ==
  IF n = 0 THEN Root
  ELSE IF g[n - 1] \in Dirs THEN tree[g[n - 1]][p[n]] ELSE Nothing
Walk(g, p, m) == g = [n \in 0 .. m |-> NextPlace(g, p, n)]

\* Real is a recursion over the path; here is what it comes to.
LEMMA WalkExists ==
  ASSUME NEW p, NEW m \in Nat PROVE \E g : Walk(g, p, m)
<1> DEFINE Bad == {k \in Nat : ~ \E g : Walk(g, p, k)}
<1> SUFFICES ASSUME m \in Bad PROVE FALSE OBVIOUS
<1>1. PICK k \in Bad : \A j \in Bad : k <= j
  <2>1. Bad \subseteq Nat /\ Bad # {} OBVIOUS
  <2> HIDE DEF Bad
  <2> QED BY <2>1, LeastExists
<1>2. CASE k = 0
  <2> DEFINE g == [n \in 0 .. 0 |-> Root]
  <2>1. Walk(g, p, 0) BY DEF Walk, NextPlace
  <2> QED BY <1>2, <2>1
<1>3. CASE k # 0
  <2>1. k - 1 \in Nat /\ k - 1 \notin Bad
    <3>1. k \in Nat OBVIOUS
    <3>2. k - 1 \in Nat /\ ~ (k <= k - 1) BY <1>3, <3>1
    <3> HIDE DEF Bad
    <3> QED BY <1>1, <3>2
  <2>2. PICK g : Walk(g, p, k - 1) BY <2>1
  <2> DEFINE h == [n \in 0 .. k |-> IF n = k THEN NextPlace(g, p, k) ELSE g[n]]
  <2>3. \A n \in 0 .. k - 1 : g[n] = NextPlace(g, p, n) BY <2>2 DEF Walk
  <2>4. \A n \in 0 .. k - 1 : h[n] = g[n] BY <2>1
  <2>5. \A n \in 0 .. k : NextPlace(h, p, n) = NextPlace(g, p, n)
    BY <2>1, <2>4 DEF NextPlace
  <2>6. \A n \in 0 .. k : h[n] = NextPlace(h, p, n)
    <3> SUFFICES ASSUME NEW n \in 0 .. k PROVE h[n] = NextPlace(g, p, n) BY <2>5
    <3>1. CASE n = k BY <2>1, <3>1
    <3>2. CASE n # k BY <2>1, <2>3, <2>4, <3>2
    <3> QED BY <3>1, <3>2
  <2>7. Walk(h, p, k)
    <3>1. h = [n \in 0 .. k |-> h[n]] OBVIOUS
    <3> HIDE DEF h
    <3> QED BY <2>6, <3>1 DEF Walk
  <2> QED BY <2>7
<1> QED BY <1>2, <1>3

\* Two walks along the same names are at the same places.
LEMMA WalkUnique ==
  ASSUME NEW p, NEW q, NEW k \in Nat, NEW m \in Nat, m <= k,
         NEW g, NEW h, Walk(g, p, k), Walk(h, q, m),
         \A n \in 1 .. m : p[n] = q[n]
  PROVE  \A n \in 0 .. m : g[n] = h[n]
<1> DEFINE Bad == {n \in 0 .. m : g[n] # h[n]}
<1> SUFFICES ASSUME Bad # {} PROVE FALSE OBVIOUS
<1>1. PICK n \in Bad : \A j \in Bad : n <= j
  <2>1. Bad \subseteq Nat OBVIOUS
  <2> HIDE DEF Bad
  <2> QED BY <2>1, LeastExists
<1>2. n \in 0 .. m /\ n \in 0 .. k /\ g[n] # h[n] OBVIOUS
<1>3. g[n] = NextPlace(g, p, n) /\ h[n] = NextPlace(h, q, n) BY <1>2 DEF Walk
<1>4. n # 0 BY <1>2, <1>3 DEF NextPlace
<1>5. g[n - 1] = h[n - 1] /\ p[n] = q[n]
  <2>1. n - 1 \in 0 .. m /\ ~ (n <= n - 1) /\ n \in 1 .. m BY <1>2, <1>4
  <2>2. n - 1 \notin Bad
    <3> HIDE DEF Bad
    <3> QED BY <1>1, <2>1
  <2> QED BY <2>1, <2>2
<1> QED BY <1>2, <1>3, <1>4, <1>5 DEF NextPlace

LEMMA RealWalk ==
  ASSUME NEW p \in Seq(Names), NEW g, Walk(g, p, Len(p))
  PROVE  Real(p) = g[Len(p)]
<1> DEFINE at == CHOOSE h : Walk(h, p, Len(p))
<1>1. Len(p) \in Nat OBVIOUS
<1>2. Walk(at, p, Len(p)) BY <1>1, WalkExists
<1>3. Real(p) = at[Len(p)] BY DEF Real, Walk, NextPlace
<1>4. at[Len(p)] = g[Len(p)]
  <2>1. \A n \in 1 .. Len(p) : p[n] = p[n] OBVIOUS
  <2> HIDE DEF at
  <2>2. \A n \in 0 .. Len(p) : at[n] = g[n] BY ONLY <1>1, <1>2, <2>1, WalkUnique, Walk(g, p, Len(p))
  <2> QED BY <1>1, <2>2
<1> QED BY <1>3, <1>4

\* The real path of a prefix.
LEMMA RealPrefix ==
  ASSUME NEW p \in Seq(Names), NEW q \in Seq(Names), NEW n \in Names,
         Len(p) = Len(q) + 1, p[Len(p)] = n, \A k \in 1 .. Len(q) : p[k] = q[k]
  PROVE  Real(p) = IF Real(q) \in Dirs THEN tree[Real(q)][n] ELSE Nothing
<1>0. Len(p) \in Nat /\ Len(q) \in Nat OBVIOUS
<1>1. PICK g : Walk(g, p, Len(p)) BY <1>0, WalkExists
<1>2. PICK h : Walk(h, q, Len(q)) BY <1>0, WalkExists
<1>3. Real(p) = g[Len(p)] /\ Real(q) = h[Len(q)] BY <1>1, <1>2, RealWalk
<1>4. g[Len(q)] = h[Len(q)]
  <2>1. Len(q) <= Len(p) /\ Len(q) <= Len(q) BY <1>0
  <2>2. \A k \in 0 .. Len(q) : g[k] = h[k]
    BY ONLY <1>0, <1>1, <1>2, <2>1, WalkUnique, \A k \in 1 .. Len(q) : p[k] = q[k]
  <2> QED BY <1>0, <2>2
<1>5. g[Len(p)] = NextPlace(g, p, Len(p)) BY <1>1 DEF Walk
<1> QED BY <1>0, <1>3, <1>4, <1>5 DEF NextPlace
\* The entries say that the i-th name of p is a file or a directory, as it is.
Leads(entries, p, i) ==
  i <= Len(p) /\ \E e \in entries : e.name = p[i] /\ e.isdir = (i < Len(p))

\* The traversal will still come to the path p.
Ahead(p) ==
  \/ \E i \in DOMAIN stack : Agrees(p, i - 1) /\ Leads(stack[i].rest, p, i)
  \/ /\ pc \in Descending
     /\ Len(p) > Len(dir) /\ Agrees(p, Len(dir))
     /\ pc = "push" => Leads(sb, p, Len(dir) + 1)

\* The file of k is where it was when find_open was called.
Standing(k) ==
  /\ k.path \in Seq(Names)
  /\ Real(k.path) = File /\ ~ SkipsFile(k.path) /\ k.chain = Chain(k.path)

NoLoop(k) ==
  \A n \in 2 .. Len(k.path) :
    /\ ~ SkipsDir(SubSeq(k.path, 1, n - 1))
    /\ k.chain[n] \notin Above
    /\ \A m \in 1 .. n - 1 : k.chain[m] # k.chain[n]

\* The listings begun on the way to k are those of its directories.
Passed(k) ==
  \A i \in DOMAIN stack :
    i <= Len(k.path) /\ Agrees(k.path, i - 1) => stack[i].real = k.chain[i]

Coming(k) == Passed(k) /\ (k.path \in got \/ Ahead(k.path))

FoundInv ==
  /\ pc = "start" => kept = {}
  /\ find_eof => find_mode # "0" /\ (find_mode = "FILELIST_OPEN" => ip = << >>)
  /\ \A k \in kept : Standing(k)
  /\ find_mode = "FIND_OPEN" /\ pc # "dead" =>
       \A k \in kept : NoLoop(k) /\ Coming(k)
  /\ find_mode = "FILELIST_OPEN" =>
       \A k \in kept : k.path \in got \/ \E n \in DOMAIN ip : ip[n] = k.path
----------------------------------------------------------------------------
\* The walk to a file that is there passes through directories only.
LEMMA StandingTree ==
  ASSUME TypeOK, NEW k, Standing(k)
  PROVE  /\ Len(k.path) \in Nat \ {0} /\ k.chain[1] = Root
         /\ \A n \in 1 .. Len(k.path) :
              /\ k.chain[n] = Real(SubSeq(k.path, 1, n - 1)) /\ k.chain[n] \in Dirs
              /\ tree[k.chain[n]][k.path[n]]
                   = IF n = Len(k.path) THEN File ELSE k.chain[n + 1]
<1> DEFINE p == k.path
           L == Len(p)
<1>1. p \in Seq(Names) /\ L \in Nat /\ Real(p) = File /\ k.chain = Chain(p)
  BY DEF Standing
<1>2. PICK g : Walk(g, p, L) BY <1>1, WalkExists
<1>3. g[L] = File BY <1>1, <1>2, RealWalk
<1>4. \A n \in 0 .. L : g[n] = NextPlace(g, p, n) BY <1>2 DEF Walk
<1>5. L # 0 BY <1>3, <1>4, FindAssumption DEF NextPlace
<1>6. \A n \in 0 .. L : Real(SubSeq(p, 1, n)) = g[n]
  <2> SUFFICES ASSUME NEW n \in 0 .. L PROVE Real(SubSeq(p, 1, n)) = g[n] OBVIOUS
  <2> DEFINE q == SubSeq(p, 1, n)
  <2>1. q \in Seq(Names) /\ Len(q) = n /\ n \in Nat /\ n <= L
        /\ \A j \in 1 .. n : p[j] = q[j]
    BY <1>1
  <2> HIDE DEF q
  <2>2. PICK h : Walk(h, q, n) BY <2>1, WalkExists
  <2>3. Real(q) = h[n] BY <2>1, <2>2, RealWalk
  <2>4. \A j \in 0 .. n : g[j] = h[j]
    <3>1. L \in Nat /\ n \in Nat /\ n <= L BY <1>1, <2>1
    <3>2. \A j \in 1 .. n : p[j] = q[j] BY <2>1
    <3> HIDE DEF p, L
    <3> QED BY ONLY <1>2, <2>2, <3>1, <3>2, WalkUnique
  <2> QED BY <2>1, <2>3, <2>4 DEF q
\* From where there is no directory the walk comes to nothing.
<1>7. \A n \in 0 .. L - 1 : g[n] \in Dirs
  <2> SUFFICES ASSUME NEW n \in 0 .. L - 1, g[n] \notin Dirs PROVE FALSE OBVIOUS
  <2> DEFINE Bad == {m \in n + 1 .. L : g[m] # Nothing}
  <2>1. L \in Bad BY <1>1, <1>3, FindAssumption
  <2>2. PICK m \in Bad : \A j \in Bad : m <= j
    <3>1. Bad \subseteq Nat /\ Bad # {} BY <2>1
    <3> HIDE DEF Bad
    <3> QED BY <3>1, LeastExists
  <2>3. m \in n + 1 .. L /\ m \in 0 .. L /\ m # 0 /\ g[m] # Nothing BY <1>1
  <2>4. g[m - 1] \notin Dirs
    <3>1. CASE m - 1 = n BY <3>1
    <3>2. CASE m - 1 # n
      <4>1. m - 1 \in n + 1 .. L /\ ~ (m <= m - 1) BY <2>3, <3>2
      <4>2. m - 1 \notin Bad
        <5> HIDE DEF Bad
        <5> QED BY <2>2, <4>1
      <4> QED BY <4>1, <4>2, FindAssumption
    <3> QED BY <3>1, <3>2
  <2> QED BY <1>4, <2>3, <2>4 DEF NextPlace
<1>8. ASSUME NEW n \in 1 .. L
      PROVE  /\ k.chain[n] = Real(SubSeq(p, 1, n - 1)) /\ k.chain[n] = g[n - 1]
             /\ tree[k.chain[n]][p[n]] = g[n]
  <2>1. n - 1 \in 0 .. L - 1 /\ n - 1 \in 0 .. L /\ n \in 0 .. L /\ n # 0 BY <1>1
  <2>2. k.chain[n] = Real(SubSeq(p, 1, n - 1)) BY <1>1 DEF Chain
  <2>3. k.chain[n] = g[n - 1] BY <1>6, <2>1, <2>2
  <2> QED BY <1>4, <1>7, <2>1, <2>2, <2>3 DEF NextPlace
<1>9. k.chain[1] = Root
  <2>1. g[0] = Root /\ 1 \in 1 .. L BY <1>1, <1>4, <1>5 DEF NextPlace
  <2> QED BY <1>8, <2>1
<1>10. ASSUME NEW n \in 1 .. L
       PROVE  /\ k.chain[n] \in Dirs
              /\ tree[k.chain[n]][p[n]] = IF n = L THEN File ELSE k.chain[n + 1]
  <2>1. n - 1 \in 0 .. L - 1 BY <1>1
  <2>2. n # L => n + 1 \in 1 .. L /\ (n + 1) - 1 = n BY <1>1
  <2>3. n # L => k.chain[n + 1] = g[n] BY <1>8, <2>2
  <2> QED BY <1>3, <1>7, <1>8, <2>1, <2>3
<1> QED BY <1>1, <1>5, <1>8, <1>9, <1>10

\* What a listing says of a name.
LEMMA ListingFacts ==
  ASSUME NEW real
  PROVE  /\ \A n \in Names : tree[real][n] # Nothing =>
              \E e \in Listing(real) : e.name = n /\ e.isdir = (tree[real][n] \in Dirs)
         /\ \A e \in Listing(real) :
              /\ e.name \in Names /\ tree[real][e.name] # Nothing
              /\ e.isdir = (tree[real][e.name] \in Dirs)
<1>1. ASSUME NEW n \in Names, tree[real][n] # Nothing
      PROVE  \E e \in Listing(real) : e.name = n /\ e.isdir = (tree[real][n] \in Dirs)
  <2> DEFINE e == [name |-> n, isdir |-> tree[real][n] \in Dirs]
  <2>1. e \in Listing(real) BY <1>1 DEF Listing
  <2>2. e.name = n /\ e.isdir = (tree[real][n] \in Dirs) OBVIOUS
  <2> HIDE DEF e
  <2> QED BY <2>1, <2>2
<1>2. ASSUME NEW e \in Listing(real)
      PROVE  /\ e.name \in Names /\ tree[real][e.name] # Nothing
             /\ e.isdir = (tree[real][e.name] \in Dirs)
  <2>1. PICK n \in Names : /\ tree[real][n] # Nothing
                           /\ e = [name |-> n, isdir |-> tree[real][n] \in Dirs]
    BY DEF Listing
  <2>2. e.name = n /\ e.isdir = (tree[real][n] \in Dirs) BY <2>1
  <2> QED BY <2>1, <2>2
<1> QED BY <1>1, <1>2

\* The listing of a directory on the way leads on.
LEMMA StandingListed ==
  ASSUME TypeOK, NEW k, Standing(k), NEW i \in 1 .. Len(k.path)
  PROVE  Leads(Listing(k.chain[i]), k.path, i)
<1>1. /\ Len(k.path) \in Nat /\ k.path[i] \in Names /\ i <= Len(k.path)
  BY DEF Standing
<1>2. /\ tree[k.chain[i]][k.path[i]] = IF i = Len(k.path) THEN File ELSE k.chain[i + 1]
      /\ i # Len(k.path) => k.chain[i + 1] \in Dirs
  <2>1. i # Len(k.path) => i + 1 \in 1 .. Len(k.path) BY <1>1
  <2> QED BY <2>1, StandingTree
<1>3. /\ tree[k.chain[i]][k.path[i]] # Nothing
      /\ (tree[k.chain[i]][k.path[i]] \in Dirs) <=> (i < Len(k.path))
  BY <1>1, <1>2, FindAssumption
<1>4. PICK e \in Listing(k.chain[i]) :
        e.name = k.path[i] /\ e.isdir = (tree[k.chain[i]][k.path[i]] \in Dirs)
  BY <1>1, <1>3, ListingFacts
<1>5. e.isdir = (i < Len(k.path)) BY <1>3, <1>4
<1> QED BY <1>1, <1>4, <1>5 DEF Leads

\* If dir is on the way to k it is the directory that k is in.
LEMMA StandingDir ==
  ASSUME TypeOK, NEW k, Standing(k), Len(k.path) > Len(dir), Agrees(k.path, Len(dir))
  PROVE  /\ Real(dir) = k.chain[Len(dir) + 1] /\ Real(dir) \in Dirs
         /\ SubSeq(k.path, 1, Len(dir)) = dir
<1>1. k.path \in Seq(Names) /\ dir \in Seq(Names) BY DEF Standing, TypeOK, Paths
<1>2. SubSeq(k.path, 1, Len(dir)) = dir BY <1>1 DEF Agrees
<1>3. Len(dir) + 1 \in 1 .. Len(k.path) /\ (Len(dir) + 1) - 1 = Len(dir) BY <1>1
<1>4. k.chain[Len(dir) + 1] = Real(SubSeq(k.path, 1, Len(dir)))
      /\ k.chain[Len(dir) + 1] \in Dirs
  BY <1>3, StandingTree
<1> QED BY <1>2, <1>4
----------------------------------------------------------------------------
\* A file that stands goes on standing while the tree is as it is.
LEMMA StandingStays ==
  ASSUME NEW k, Standing(k), tree' = tree PROVE Standing(k)'
<1>1. \A p : Real(p)' = Real(p) BY DEF Real
<1>2. \A p : Chain(p)' = Chain(p) BY <1>1 DEF Chain
<1> QED BY <1>1, <1>2, Zenon DEF Standing

\* A path and the directory it goes through, one name longer.
LEMMA PrefixAppend ==
  ASSUME NEW S, NEW s \in Seq(S), NEW d \in Seq(S), NEW x \in S,
         Len(d) < Len(s), s[Len(d) + 1] = x, \A j \in 1 .. Len(d) : s[j] = d[j]
  PROVE  SubSeq(s, 1, Len(d) + 1) = Append(d, x)
<1> DEFINE n == Len(d) + 1
<1>1. n \in Nat /\ Len(s) \in Nat /\ n <= Len(s) /\ Len(d) = n - 1 /\ 1 \in Nat
  OBVIOUS
<1>2. /\ SubSeq(s, 1, n) \in Seq(S) /\ Len(SubSeq(s, 1, n)) = n
      /\ \A j \in 1 .. n : SubSeq(s, 1, n)[j] = s[j]
  BY <1>1
<1>3. /\ Append(d, x) \in Seq(S) /\ Len(Append(d, x)) = n
      /\ \A j \in 1 .. n : Append(d, x)[j] = s[j]
  BY <1>1
<1> HIDE DEF n
<1>4. \A j \in 1 .. n : SubSeq(s, 1, n)[j] = Append(d, x)[j] BY <1>2, <1>3
<1>5. SubSeq(s, 1, n) = Append(d, x) BY <1>1, <1>2, <1>3, <1>4, SeqEqual
<1> QED BY <1>5 DEF n

\* Nothing that an open traversal does moves a file.
LEMMA FoundStep ==
  ASSUME FoundInv, tree' = tree, kept' = kept, find_mode = "FIND_OPEN",
         find_mode' = "FIND_OPEN", pc # "dead", pc' # "start",
         \A k \in kept : pc' # "dead" => Coming(k)'
  PROVE  FoundInv'
<1>1. \A k \in kept : Standing(k) /\ NoLoop(k) BY DEF FoundInv
<1>2. ASSUME NEW k \in kept PROVE Standing(k)'
  <2>1. Standing(k) BY <1>1
  <2> QED BY <2>1 DEF Standing, Chain, Real
<1>3. \A k \in kept : NoLoop(k)' BY <1>1 DEF NoLoop
<1> QED BY <1>2, <1>3 DEF FoundInv

\* dir goes on being the way to where the listings are.
LEMMA PassedStays ==
  ASSUME NEW k, Passed(k), DOMAIN stack' \subseteq DOMAIN stack, DOMAIN stack \subseteq Nat,
         \A i \in DOMAIN stack' : stack'[i].real = stack[i].real,
         \A i \in DOMAIN stack' : \A j \in 1 .. i - 1 : dir'[j] = dir[j]
  PROVE  /\ Passed(k)'
         /\ \A i \in DOMAIN stack' : Agrees(k.path, i - 1)' <=> Agrees(k.path, i - 1)
<1>1. ASSUME NEW i \in DOMAIN stack'
      PROVE  Agrees(k.path, i - 1)' <=> Agrees(k.path, i - 1)
  BY DEF Agrees
<1> QED BY <1>1 DEF Passed

\* The start: every file is ahead.
LEMMA FoundOpen == FindInv /\ FoundInv /\ find_open => FoundInv'
<1> SUFFICES ASSUME FindInv, FoundInv, find_open PROVE FoundInv' OBVIOUS
<1> USE DEF find_open
<1>1. /\ tree' = tree /\ find_mode' = "FIND_OPEN" /\ pc' = "caller" /\ find_eof' = find_eof
      /\ DOMAIN stack' = {1} /\ stack'[1].real = Root /\ stack'[1].rest = Listing(Root)
      /\ kept' = Traversed /\ TypeOK /\ ~ find_eof
  BY DEF FindInv, Shape
<1>2. ASSUME NEW k \in kept' PROVE Standing(k) /\ NoLoop(k)
  <2>1. PICK p \in UNION {[1 .. n -> Names] : n \in 1 .. MaxNesting} :
          Traversable(p) /\ k = [path |-> p, chain |-> Chain(p)]
    BY <1>1 DEF Traversed, Placed
  <2>2. PICK n \in 1 .. MaxNesting : p \in [1 .. n -> Names] BY <2>1
  <2>3. p \in Seq(Names)
    <3>1. n \in Nat OBVIOUS
    <3> QED BY <2>2, <3>1
  <2>4. k.path = p /\ k.chain = Chain(p) BY <2>1
  <2> QED BY <2>1, <2>3, <2>4 DEF Standing, NoLoop, Traversable
<1>3. ASSUME NEW k \in kept' PROVE Standing(k)'
  <2>1. Standing(k) BY <1>2
  <2>2. tree' = tree BY <1>1
  <2> QED BY <2>1, <2>2, StandingStays
<1>4. ASSUME NEW k \in kept' PROVE NoLoop(k)'
  <2>1. NoLoop(k) BY <1>2
  <2> QED BY <2>1 DEF NoLoop
<1>5. ASSUME NEW k \in kept' PROVE Coming(k)'
  <2>1. Standing(k) BY <1>2
  <2>2. Len(k.path) \in Nat \ {0} /\ k.chain[1] = Root BY <1>1, <2>1, StandingTree
  <2>3. Passed(k)' BY <1>1, <2>2 DEF Passed
  <2>4. Leads(Listing(Root), k.path, 1) BY <1>1, <2>1, <2>2, StandingListed
  <2>5. Leads(stack'[1].rest, k.path, 1) BY <1>1, <2>4
  <2>6. Agrees(k.path, 1 - 1)' BY <2>2 DEF Agrees
  <2>7. Leads(stack[1].rest, k.path, 1)' BY <2>5 DEF Leads
  <2>8. Ahead(k.path)' BY <1>1, <2>6, <2>7 DEF Ahead
  <2> QED BY <2>3, <2>8 DEF Coming
<1> QED BY <1>1, <1>3, <1>4, <1>5 DEF FoundInv

\* A file list asks for the files in it.
LEMMA FoundOpenList ==
  ASSUME NEW lines \in Lists, FindInv, FoundInv, find_open_filelist(lines)
  PROVE  FoundInv'
<1> USE DEF find_open_filelist
<1>1. /\ tree' = tree /\ find_mode' = "FILELIST_OPEN" /\ pc' = "caller"
      /\ find_eof' = find_eof /\ ip' = lines /\ kept' = Asked(lines) /\ ~ find_eof
  BY DEF FindInv, Shape
<1>2. lines \in Seq(Seq(Names) \cup {NoPath}) BY FindAssumption
<1>3. ASSUME NEW k \in kept'
      PROVE  Standing(k)' /\ \E n \in DOMAIN ip' : ip'[n] = k.path
  <2>1. PICK p \in {lines[n] : n \in DOMAIN lines} \ {NoPath} :
          Real(p) = File /\ ~ SkipsFile(p) /\ k = [path |-> p, chain |-> Chain(p)]
    BY <1>1 DEF Asked, Placed
  <2>2. PICK n \in DOMAIN lines : p = lines[n] BY <2>1
  <2>3. p \in Seq(Names) BY <1>2, <2>1, <2>2
  <2>4. k.path = p /\ k.chain = Chain(p) BY <2>1
  <2>5. Standing(k) BY <2>1, <2>3, <2>4 DEF Standing
  <2>6. Standing(k)' BY <1>1, <2>5 DEF Standing, Chain, Real
  <2> QED BY <1>1, <2>2, <2>4, <2>6
<1> QED BY <1>1, <1>3 DEF FoundInv

\* find_read is called, or a file list read: the tree is as before.
LEMMA FoundRead == FindInv /\ FoundInv /\ find_read => FoundInv'
<1> SUFFICES ASSUME FindInv, FoundInv, find_read PROVE FoundInv' OBVIOUS
<1>1. /\ UNCHANGED <<tree, find_mode, find_eof, dir, stack, sb, ip, got, kept>>
      /\ pc = "caller" /\ pc' = "read" /\ ~ find_eof
  BY DEF find_read
<1>2. ASSUME NEW k \in kept PROVE Standing(k)'
  <2>1. Standing(k) BY DEF FoundInv
  <2>2. tree' = tree BY <1>1
  <2> QED BY <2>1, <2>2, StandingStays
<1>3. ASSUME NEW k \in kept, Coming(k) PROVE Coming(k)'
  BY <1>1, <1>3 DEF Coming, Passed, Ahead, Leads, Agrees, Descending
<1>4. \A k \in kept : NoLoop(k) => NoLoop(k)' BY DEF NoLoop
<1> QED BY <1>1, <1>2, <1>3, <1>4 DEF FoundInv

\* The line that is taken from a file list is returned if it is kept.
LEMMA FoundFileList == FindInv /\ FoundInv /\ find_read_filelist => FoundInv'
<1> SUFFICES ASSUME FindInv, FoundInv, find_read_filelist PROVE FoundInv' OBVIOUS
<1>1. /\ tree' = tree /\ find_mode = "FILELIST_OPEN" /\ find_mode' = "FILELIST_OPEN"
      /\ kept' = kept /\ pc = "read" /\ pc' \in {"read", "caller"}
      /\ ip \in Seq(Paths \cup {NoPath}) /\ NoPath \notin Seq(Names) /\ ~ find_eof
  BY FindAssumption DEF find_read_filelist, Return, FindInv, TypeOK, Shape
<1>2. ASSUME NEW k \in kept PROVE Standing(k) /\ Standing(k)'
  <2>1. Standing(k) BY DEF FoundInv
  <2>2. tree' = tree BY <1>1
  <2> QED BY <2>1, <2>2, StandingStays
<1>3. find_eof' => ip' = << >> BY <1>1 DEF find_read_filelist
<1>4. ASSUME NEW k \in kept PROVE k.path \in got' \/ \E n \in DOMAIN ip' : ip'[n] = k.path
  <2>1. got \subseteq got' BY DEF find_read_filelist, Return
  <2>2. CASE k.path \in got BY <2>1, <2>2
  <2>3. CASE k.path \notin got
    <3>1. PICK n \in DOMAIN ip : ip[n] = k.path BY <1>1, <2>3 DEF FoundInv
    <3>2. ip # << >> /\ n \in 1 .. Len(ip) /\ Head(ip) = ip[1] /\ Len(ip) \in Nat
      BY <1>1, <3>1
    <3>3. ip' = Tail(ip) BY <3>2 DEF find_read_filelist
    <3>4. CASE n = 1
      <4>1. Head(ip) = k.path BY <3>1, <3>2, <3>4
      <4>2. Head(ip) # NoPath /\ Real(Head(ip)) = File /\ ~ SkipsFile(Head(ip))
        BY <1>1, <1>2, <4>1 DEF Standing
      <4> QED BY <3>2, <4>1, <4>2 DEF find_read_filelist, Return
    <3>5. CASE n # 1
      <4>1. n - 1 \in DOMAIN ip' /\ ip'[n - 1] = ip[n] BY <1>1, <3>2, <3>3, <3>5
      <4> QED BY <3>1, <4>1
    <3> QED BY <3>4, <3>5
  <2> QED BY <2>2, <2>3
<1> QED BY <1>1, <1>2, <1>3, <1>4 DEF FoundInv
----------------------------------------------------------------------------
\* An entry taken: what was ahead still is, but for what that entry leads to.
LEMMA AheadTaken ==
  ASSUME NEW e \in Entries, NEW k, FindInv, find_mode = "FIND_OPEN", pc = "read",
         stack' = Taken(e), Passed(k), Standing(k), Ahead(k.path),
         \A j \in 1 .. Len(stack) - 1 : dir'[j] = dir[j]
  PROVE  /\ Passed(k)'
         /\ \/ Ahead(k.path)'
            \/ /\ Agrees(k.path, Len(stack) - 1) /\ Len(stack) <= Len(k.path)
               /\ k.path[Len(stack)] = e.name /\ e.isdir = (Len(stack) < Len(k.path))
<1> DEFINE N == Len(stack)
           p == k.path
<1>1. /\ N \in Nat \ {0} /\ N \in DOMAIN stack /\ Top = stack[N] /\ DOMAIN stack = 1 .. N
  BY TopType, ReadingShape DEF FindInv, TypeOK
<1>2. /\ DOMAIN stack' = DOMAIN stack
      /\ \A i \in DOMAIN stack : stack'[i].real = stack[i].real
      /\ \A i \in DOMAIN stack : i # N => stack'[i] = stack[i]
      /\ stack'[N].rest = stack[N].rest \ {e}
  BY <1>1 DEF Taken
<1>3. \A i \in DOMAIN stack' : \A j \in 1 .. i - 1 : dir'[j] = dir[j]
  BY <1>1, <1>2
<1>4. /\ Passed(k)'
      /\ \A i \in DOMAIN stack' : Agrees(p, i - 1)' <=> Agrees(p, i - 1)
  BY <1>1, <1>2, <1>3, PassedStays
<1>5. PICK i \in DOMAIN stack : Agrees(p, i - 1) /\ Leads(stack[i].rest, p, i)
  BY DEF Ahead, Descending
<1>6. PICK f \in stack[i].rest : f.name = p[i] /\ f.isdir = (i < Len(p))
  BY <1>5 DEF Leads
<1>7. i <= Len(p) BY <1>5 DEF Leads
<1>8. CASE f \in stack'[i].rest
  <2>1. Leads(stack[i].rest, p, i)' BY <1>6, <1>7, <1>8 DEF Leads
  <2>2. Agrees(p, i - 1)' /\ i \in DOMAIN stack' BY <1>2, <1>4, <1>5
  <2>3. Ahead(p)' BY <2>1, <2>2 DEF Ahead
  <2> QED BY <1>4, <2>3
<1>9. CASE f \notin stack'[i].rest
  <2>1. i = N /\ f = e BY <1>1, <1>2, <1>6, <1>9
  <2> QED BY <1>4, <1>5, <1>6, <1>7, <2>1
<1> QED BY <1>8, <1>9

\* A file is taken: if it is kept it is returned.
LEMMA FoundTakeFile ==
  ASSUME NEW e \in Entries, FindInv, FoundInv, TakeFile(e) PROVE FoundInv'
<1> DEFINE N == Len(stack)
<1>1. /\ find_mode = "FIND_OPEN" /\ find_mode' = find_mode /\ pc = "read" /\ ~ e.isdir
      /\ stack' = Taken(e) /\ tree' = tree /\ kept' = kept /\ dir' = dir
      /\ pc' \in {"read", "caller"}
  BY DEF TakeFile, Return
<1>2. N \in Nat \ {0} /\ dir \in Seq(Names) /\ Len(dir) = N - 1
  BY <1>1, TopType, ReadingShape
<1>3. got \subseteq got' BY DEF TakeFile, Return
<1>4. ASSUME NEW k \in kept PROVE Coming(k)'
  <2>1. Standing(k) /\ Passed(k) /\ (k.path \in got \/ Ahead(k.path))
    BY <1>1 DEF FoundInv, Coming
  <2>2. CASE k.path \in got
    <3>0. DOMAIN stack = 1 .. N BY DEF FindInv, TypeOK
    <3>1. DOMAIN stack' = DOMAIN stack /\ DOMAIN stack \subseteq Nat
      BY <1>1, <3>0, TakenFacts
    <3>2. \A i \in DOMAIN stack : stack'[i].real = stack[i].real
      BY <1>1, TopType, ReadingShape DEF Taken, FindInv, TypeOK
    <3>3. Passed(k)' BY <1>1, <2>1, <3>1, <3>2, PassedStays
    <3> QED BY <1>3, <2>2, <3>3 DEF Coming
  <2>3. CASE Ahead(k.path)
    <3>1. Passed(k)' BY <1>1, <2>1, <2>3, AheadTaken
    <3>2. CASE Ahead(k.path)' BY <3>1, <3>2 DEF Coming
    <3>3. CASE /\ Agrees(k.path, N - 1) /\ N <= Len(k.path)
               /\ k.path[N] = e.name /\ e.isdir = (N < Len(k.path))
      <4>0. ~ (N < Len(k.path)) BY <1>1, <3>3, Zenon
      <4>1. k.path \in Seq(Names) /\ Len(k.path) = N
        BY <1>2, <2>1, <3>3, <4>0 DEF Standing
      <4>2. k.path = Append(dir, e.name) BY <1>2, <3>3, <4>1 DEF Agrees, Entries
      <4>3. k.path \in got' BY <2>1, <4>2 DEF TakeFile, Return, Standing
      <4> QED BY <3>1, <4>3 DEF Coming
    <3> QED BY <1>1, <2>1, <2>3, <3>2, <3>3, AheadTaken
  <2> QED BY <2>1, <2>2, <2>3
<1> QED BY <1>1, <1>4, FoundStep

\* A directory is taken: if a kept file is in it it is not skipped.
LEMMA FoundTakeDir ==
  ASSUME NEW e \in Entries, FindInv, FoundInv, TakeDir(e) PROVE FoundInv'
<1> DEFINE N == Len(stack)
<1>1. /\ find_mode = "FIND_OPEN" /\ find_mode' = find_mode /\ pc = "read" /\ e.isdir
      /\ stack' = Taken(e) /\ tree' = tree /\ kept' = kept /\ got' = got
      /\ pc' \in {"read", "loop"}
  BY DEF TakeDir
<1>2. N \in Nat \ {0} /\ dir \in Seq(Names) /\ Len(dir) = N - 1
  BY <1>1, TopType, ReadingShape
<1>3. \A j \in 1 .. N - 1 : dir'[j] = dir[j] BY <1>1, <1>2 DEF TakeDir
<1>4. ASSUME NEW k \in kept PROVE Coming(k)'
  <2>1. /\ Standing(k) /\ Passed(k) /\ (k.path \in got \/ Ahead(k.path))
        /\ NoLoop(k)
    BY <1>1 DEF FoundInv, Coming
  <2>2. CASE k.path \in got
    <3>0. DOMAIN stack = 1 .. N BY DEF FindInv, TypeOK
    <3>1. DOMAIN stack' = DOMAIN stack /\ DOMAIN stack = 1 .. N
      BY <1>1, <3>0, TakenFacts
    <3>2. \A i \in DOMAIN stack : stack'[i].real = stack[i].real
      BY <1>1, TopType, ReadingShape DEF Taken, FindInv, TypeOK
    <3>3. \A i \in DOMAIN stack' : \A j \in 1 .. i - 1 : dir'[j] = dir[j]
      BY <1>2, <1>3, <3>1
    <3>4. Passed(k)' BY <2>1, <3>1, <3>2, <3>3, PassedStays
    <3> QED BY <1>1, <2>2, <3>4 DEF Coming
  <2>3. CASE Ahead(k.path)
    <3>1. Passed(k)' BY <1>1, <1>3, <2>1, <2>3, AheadTaken
    <3>2. CASE Ahead(k.path)' BY <3>1, <3>2 DEF Coming
    <3>3. CASE /\ Agrees(k.path, N - 1) /\ N <= Len(k.path)
               /\ k.path[N] = e.name /\ e.isdir = (N < Len(k.path))
      <4>0. N < Len(k.path) BY <1>1, <3>3, Zenon
      <4>1. k.path \in Seq(Names) /\ N < Len(k.path) /\ Len(k.path) \in Nat
        BY <2>1, <4>0 DEF Standing
      <4>2. SubSeq(k.path, 1, N) = Append(dir, e.name)
        <5>1. N = Len(dir) + 1 /\ Len(dir) < Len(k.path) BY <1>2, <4>1
        <5>2. e.name \in Names /\ k.path[Len(dir) + 1] = e.name
          BY <3>3, <5>1 DEF Entries
        <5>3. \A j \in 1 .. Len(dir) : k.path[j] = dir[j]
          BY <1>2, <3>3 DEF Agrees
        <5>4. SubSeq(k.path, 1, Len(dir) + 1) = Append(dir, e.name)
          BY <1>2, <4>1, <5>1, <5>2, <5>3, PrefixAppend, Zenon
        <5> QED BY <5>1, <5>4
      <4>3. N + 1 \in 2 .. Len(k.path) /\ (N + 1) - 1 = N BY <1>2, <4>1
      <4>4. ~ SkipsDir(Append(dir, e.name)) BY <2>1, <4>2, <4>3 DEF NoLoop
      <4>5. dir' = Append(dir, e.name) /\ pc' = "loop" BY <4>4 DEF TakeDir
      <4>6. Len(dir') = N /\ \A j \in 1 .. N : k.path[j] = dir'[j]
        BY <1>2, <3>3, <4>1, <4>5 DEF Agrees, Entries
      <4>7. Agrees(k.path, Len(dir))' BY <1>2, <4>1, <4>6 DEF Agrees
      <4>8. Ahead(k.path)' BY <4>1, <4>5, <4>6, <4>7 DEF Ahead, Descending
      <4> QED BY <3>1, <4>8 DEF Coming
    <3> QED BY <1>1, <1>3, <2>1, <2>3, <3>2, <3>3, AheadTaken
  <2> QED BY <2>1, <2>2, <2>3
<1> QED BY <1>1, <1>4, FoundStep
\* A directory that holds a kept file is no loop, and it is there.
LEMMA KeptBelow ==
  ASSUME FindInv, FoundInv, pc \in Descending, NEW k \in kept,
         Len(k.path) > Len(dir), Agrees(k.path, Len(dir))
  PROVE  /\ Real(dir) \in Dirs /\ ~ has_symlinkloop(Real(dir))
         /\ Real(dir) = k.chain[Len(dir) + 1]
<1> DEFINE N == Len(stack)
<1>1. /\ find_mode = "FIND_OPEN" /\ dir \in Seq(Names) /\ N \in Nat \ {0} /\ Len(dir) = N
      /\ DOMAIN stack = 1 .. N
  BY DescendingShape
<1>2. Standing(k) /\ NoLoop(k) /\ Passed(k) /\ TypeOK
  BY <1>1 DEF FoundInv, Coming, FindInv, Descending
<1>3. Real(dir) \in Dirs /\ Real(dir) = k.chain[N + 1] BY <1>1, <1>2, StandingDir
<1>4. k.path \in Seq(Names) /\ Len(k.path) \in Nat /\ k.chain[1] = Root
  BY <1>2, StandingTree DEF Standing
<1>5. N + 1 \in 2 .. Len(k.path) /\ \A i \in 1 .. N : i \in 1 .. (N + 1) - 1
  BY <1>1, <1>4
<1>6. k.chain[N + 1] \notin Above /\ \A i \in 1 .. N : k.chain[i] # k.chain[N + 1]
  BY <1>2, <1>5 DEF NoLoop
<1>7. ASSUME NEW i \in DOMAIN stack PROVE stack[i].real = k.chain[i]
  <2>1. i \in 1 .. N /\ i <= Len(k.path) BY <1>1, <1>5
  <2>2. Agrees(k.path, i - 1) BY <1>1, <1>4, <2>1 DEF Agrees
  <2> QED BY <1>2, <2>1, <2>2 DEF Passed
<1>8. 1 \in 1 .. N BY <1>1
<1> QED BY <1>1, <1>3, <1>4, <1>6, <1>7, <1>8 DEF has_symlinkloop

\* A directory is ignored: no kept file is in it.
LEMMA FoundIgnore ==
  ASSUME FindInv, FoundInv, pc \in Descending, Ignore,
         Real(dir) \notin Dirs \/ has_symlinkloop(Real(dir)),
         UNCHANGED <<tree, find_mode, find_eof, ip, val, edits, got, kept, quiet>>
  PROVE  FoundInv'
<1> DEFINE N == Len(stack)
<1>1. /\ find_mode = "FIND_OPEN" /\ dir \in Seq(Names)
      /\ N \in Nat \ {0} /\ Len(dir) = N /\ DOMAIN stack = 1 .. N /\ Top.dirp = N - 1
  BY DescendingShape
<1>2. \A j \in 1 .. N - 1 : dir'[j] = dir[j] BY <1>1 DEF Ignore, Truncated
<1>3. stack' = stack /\ pc' = "read" /\ pc # "dead" BY DEF Ignore, Descending
<1>4. ASSUME NEW k \in kept PROVE Coming(k)'
  <2>1. Passed(k) /\ (k.path \in got \/ Ahead(k.path))
    BY <1>1, <1>3 DEF FoundInv, Coming
  <2>2. \A i \in DOMAIN stack' : \A j \in 1 .. i - 1 : dir'[j] = dir[j]
    BY <1>1, <1>2, <1>3
  <2>3. DOMAIN stack \subseteq Nat BY <1>1
  <2>4. /\ Passed(k)'
        /\ \A i \in DOMAIN stack' : Agrees(k.path, i - 1)' <=> Agrees(k.path, i - 1)
    BY <1>3, <2>1, <2>2, <2>3, PassedStays
  <2>5. ASSUME Ahead(k.path) PROVE Ahead(k.path)'
    <3>1. PICK i \in DOMAIN stack : Agrees(k.path, i - 1) /\ Leads(stack[i].rest, k.path, i)
      BY <2>5, KeptBelow DEF Ahead
    <3>2. Agrees(k.path, i - 1)' /\ Leads(stack[i].rest, k.path, i)' /\ i \in DOMAIN stack'
      BY <1>3, <2>4, <3>1 DEF Leads
    <3> QED BY <3>2 DEF Ahead
  <2> QED BY <2>1, <2>4, <2>5 DEF Coming
<1> QED BY <1>1, <1>3, <1>4, FoundStep

\* The program goes on in the directory; its listing, if it has it, leads on.
LEMMA FoundGoesOn ==
  ASSUME FindInv, FoundInv, pc \in Descending, UNCHANGED <<dir, stack>>,
         pc' \in {"list", "push", "dead"}, pc' = "push" => sb' = Listing(Real(dir)),
         UNCHANGED <<tree, find_mode, find_eof, ip, val, edits, got, kept, quiet>>
  PROVE  FoundInv'
<1>1. find_mode = "FIND_OPEN" /\ dir \in Seq(Names) /\ Len(dir) \in Nat
  BY DescendingShape
<1>2. pc # "dead" BY DEF Descending
<1>3. ASSUME NEW k \in kept, pc' # "dead" PROVE Coming(k)'
  <2>1. /\ Standing(k) /\ Passed(k) /\ TypeOK
        /\ (k.path \in got \/ Ahead(k.path))
    BY <1>1, <1>2 DEF FoundInv, Coming, FindInv
  <2>2. Passed(k)' BY <2>1 DEF Passed, Agrees
  <2>3. ASSUME NEW i \in DOMAIN stack, Agrees(k.path, i - 1), Leads(stack[i].rest, k.path, i)
        PROVE  Ahead(k.path)'
    <3>1. Agrees(k.path, i - 1)' /\ Leads(stack[i].rest, k.path, i)' /\ i \in DOMAIN stack'
      BY <2>3 DEF Agrees, Leads
    <3> QED BY <3>1 DEF Ahead
  <2>4. ASSUME Len(k.path) > Len(dir), Agrees(k.path, Len(dir)) PROVE Ahead(k.path)'
    <3>1. Agrees(k.path, Len(dir))' /\ (Len(k.path) > Len(dir))'
      BY <2>4 DEF Agrees
    <3>2. k.path \in Seq(Names) /\ Len(dir) + 1 \in 1 .. Len(k.path)
      BY <1>1, <2>1, <2>4 DEF Standing
    <3>3. Leads(Listing(Real(dir)), k.path, Len(dir) + 1)
      BY <2>1, <2>4, <3>2, StandingDir, StandingListed
    <3>4. pc' = "push" => Leads(sb, k.path, Len(dir) + 1)'
      BY <3>3 DEF Leads
    <3> QED BY <1>3, <3>1, <3>4 DEF Ahead, Descending
  <2> QED BY <2>1, <2>2, <2>3, <2>4 DEF Coming, Ahead
<1> QED BY <1>1, <1>2, <1>3, FoundStep

\* The parts of getdirs, up to the push.
LEMMA FoundCheck == FindInv /\ FoundInv /\ CheckLoop => FoundInv'
<1> SUFFICES ASSUME FindInv, FoundInv, CheckLoop PROVE FoundInv' OBVIOUS
<1>1. /\ pc \in Descending
      /\ UNCHANGED <<tree, find_mode, find_eof, ip, val, edits, got, kept, quiet>>
  BY DEF CheckLoop, Descending
<1>2. CASE Die BY <1>1, <1>2, FoundGoesOn DEF Die
<1>3. CASE (Real(dir) \notin Dirs \/ has_symlinkloop(Real(dir))) /\ Ignore
  BY <1>1, <1>3, FoundIgnore
<1>4. CASE pc' = "list" /\ UNCHANGED <<dir, sb, stack>> BY <1>1, <1>4, FoundGoesOn
<1> QED BY <1>2, <1>3, <1>4 DEF CheckLoop

LEMMA FoundGetdirs == FindInv /\ FoundInv /\ getdirs => FoundInv'
<1> SUFFICES ASSUME FindInv, FoundInv, getdirs PROVE FoundInv' OBVIOUS
<1>1. /\ pc \in Descending
      /\ UNCHANGED <<tree, find_mode, find_eof, ip, val, edits, got, kept, quiet>>
  BY DEF getdirs, Descending
<1>2. CASE Real(dir) \notin Dirs /\ Ignore BY <1>1, <1>2, FoundIgnore
<1>3. CASE sb' = Listing(Real(dir)) /\ pc' = "push" /\ UNCHANGED <<dir, stack>>
  BY <1>1, <1>3, FoundGoesOn
<1> QED BY <1>2, <1>3 DEF getdirs

\* The listing that getdirs has made is pushed: what it leads to is ahead.
LEMMA FoundPush == FindInv /\ FoundInv /\ Push => FoundInv'
<1> SUFFICES ASSUME FindInv, FoundInv, Push PROVE FoundInv' OBVIOUS
<1> DEFINE N == Len(stack)
           T == [dirp : Nat, real : Dirs, rest : SUBSET Entries]
           new == [dirp |-> Len(dir), real |-> Real(dir), rest |-> sb]
<1>1. /\ pc \in Descending /\ pc = "push"
      /\ UNCHANGED <<tree, find_mode, find_eof, ip, val, edits, got, kept, quiet>>
  BY DEF Push, Descending
<1>2. CASE Die BY <1>1, <1>2, FoundGoesOn DEF Die
<1>3. CASE /\ Real(dir) \in Dirs /\ stack' = Append(stack, new)
           /\ pc' = "read" /\ dir' = dir
  <2>1. /\ find_mode = "FIND_OPEN" /\ dir \in Seq(Names)
        /\ N \in Nat \ {0} /\ Len(dir) = N /\ DOMAIN stack = 1 .. N
    BY <1>1, DescendingShape
  <2>2. new \in T /\ new.real = Real(dir) /\ new.rest = sb
    BY <1>3, <2>1 DEF FindInv, TypeOK
  <2>3. stack \in Seq(T) BY DEF FindInv, TypeOK
  <2> HIDE DEF T, new
  <2>4. /\ DOMAIN stack' = 1 .. N + 1 /\ stack'[N + 1] = new
        /\ \A i \in 1 .. N : stack'[i] = stack[i]
    BY <1>3, <2>1, <2>2, <2>3
  <2>5. ASSUME NEW k \in kept PROVE Coming(k)'
    <3>1. /\ Standing(k) /\ Passed(k) /\ TypeOK
          /\ (k.path \in got \/ Ahead(k.path))
      BY <1>1, <2>1 DEF FoundInv, Coming, FindInv
    <3>2. Len(k.path) \in Nat BY <3>1 DEF Standing
    <3>3. \A i \in DOMAIN stack' : Agrees(k.path, i - 1)' <=> Agrees(k.path, i - 1)
      BY <1>3 DEF Agrees
    <3>4. Passed(k)'
      <4> SUFFICES ASSUME NEW i \in DOMAIN stack', i <= Len(k.path), Agrees(k.path, i - 1)'
                   PROVE  stack'[i].real = k.chain[i]
        BY DEF Passed
      <4>1. CASE i \in 1 .. N BY <2>1, <2>4, <3>1, <3>3, <4>1 DEF Passed
      <4>2. CASE i = N + 1
        <5>1. Len(k.path) > Len(dir) /\ i - 1 = Len(dir) BY <2>1, <3>2, <4>2
        <5>2. Agrees(k.path, Len(dir)) BY <3>3, <5>1
        <5>3. Real(dir) = k.chain[Len(dir) + 1] BY <1>1, <5>1, <5>2, KeptBelow
        <5> QED BY <2>1, <2>2, <2>4, <4>2, <5>3
      <4> QED BY <2>1, <2>4, <4>1, <4>2
    <3>5. ASSUME NEW i \in DOMAIN stack, Agrees(k.path, i - 1), Leads(stack[i].rest, k.path, i)
          PROVE  Ahead(k.path)'
      <4>1. i \in DOMAIN stack' /\ stack'[i] = stack[i] BY <2>1, <2>4
      <4>2. Agrees(k.path, i - 1)' /\ Leads(stack[i].rest, k.path, i)'
        BY <3>3, <3>5, <4>1 DEF Leads
      <4> QED BY <4>1, <4>2 DEF Ahead
    <3>6. ASSUME Agrees(k.path, Len(dir)), Leads(sb, k.path, Len(dir) + 1)
          PROVE  Ahead(k.path)'
      <4>1. PICK i \in DOMAIN stack' : i = N + 1 /\ i - 1 = Len(dir) BY <2>1, <2>4
      <4>2. stack'[i].rest = sb /\ i = Len(dir) + 1 BY <2>1, <2>2, <2>4, <4>1
      <4>3. Leads(stack'[i].rest, k.path, i) BY <3>6, <4>2
      <4>4. Agrees(k.path, i - 1) BY <3>6, <4>1
      <4>5. Agrees(k.path, i - 1)' BY <3>3, <4>4
      <4>6. Leads(stack[i].rest, k.path, i)' BY <4>3 DEF Leads
      <4> QED BY <4>5, <4>6 DEF Ahead
    <3> QED BY <1>1, <3>1, <3>4, <3>5, <3>6 DEF Coming, Ahead
  <2>6. pc # "dead" /\ pc' # "start" BY <1>1, <1>3
  <2> QED BY <1>1, <2>1, <2>5, <2>6, FoundStep
<1> QED BY <1>2, <1>3 DEF Push
\* A listing at its end leads to nothing: what is ahead is in one below it.
LEMMA FoundPop == FindInv /\ FoundInv /\ Pop => FoundInv'
<1> SUFFICES ASSUME FindInv, FoundInv, Pop PROVE FoundInv' OBVIOUS
<1> DEFINE N == Len(stack)
<1>1. /\ find_mode = "FIND_OPEN" /\ pc = "read" /\ Top.rest = {} /\ pc' \in {"read", "caller"}
      /\ UNCHANGED <<tree, find_mode, sb, ip, val, edits, got, kept, quiet>>
  BY DEF Pop
<1>2. /\ N \in Nat \ {0} /\ dir \in Seq(Names) /\ Len(dir) = N - 1
      /\ Top = stack[N] /\ DOMAIN stack = 1 .. N
  BY <1>1, TopType, ReadingShape DEF FindInv, TypeOK
<1>3. /\ DOMAIN stack' = 1 .. N - 1 /\ \A i \in 1 .. N - 1 : stack'[i] = stack[i]
  BY <1>2 DEF Pop, FindInv, TypeOK
<1>4. \A j \in 1 .. N - 2 : dir'[j] = dir[j]
  <2>1. CASE N = 1 BY <2>1
  <2>2. CASE N # 1
    <3>1. N - 1 \in DOMAIN stack BY <1>2, <2>2
    <3>2. stack[N - 1].dirp = N - 2 BY <1>2, <3>1 DEF FindInv, Shape
    <3>3. dir' = SubSeq(dir, 1, N - 2) BY <2>2, <3>2 DEF Pop, Truncated
    <3> QED BY <1>2, <2>2, <3>3
  <2> QED BY <2>1, <2>2
<1>5. ASSUME NEW k \in kept PROVE Coming(k)'
  <2>1. Passed(k) /\ (k.path \in got \/ Ahead(k.path)) BY <1>1 DEF FoundInv, Coming
  <2>2. /\ DOMAIN stack' \subseteq DOMAIN stack /\ DOMAIN stack \subseteq Nat
        /\ \A i \in DOMAIN stack' : stack'[i] = stack[i]
        /\ \A i \in DOMAIN stack' : \A j \in 1 .. i - 1 : dir'[j] = dir[j]
    BY <1>2, <1>3, <1>4
  <2>3. /\ Passed(k)'
        /\ \A i \in DOMAIN stack' : Agrees(k.path, i - 1)' <=> Agrees(k.path, i - 1)
    BY <2>1, <2>2, PassedStays
  <2>4. ASSUME Ahead(k.path) PROVE Ahead(k.path)'
    <3>1. PICK i \in DOMAIN stack : Agrees(k.path, i - 1) /\ Leads(stack[i].rest, k.path, i)
      BY <1>1, <2>4 DEF Ahead, Descending
    <3>2. i # N BY <1>1, <1>2, <3>1 DEF Leads
    <3>3. i \in DOMAIN stack' BY <1>2, <1>3, <3>2
    <3>4. Agrees(k.path, i - 1)' /\ Leads(stack[i].rest, k.path, i)'
      BY <2>2, <2>3, <3>1, <3>3 DEF Leads
    <3> QED BY <3>3, <3>4 DEF Ahead
  <2> QED BY <1>1, <2>1, <2>3, <2>4 DEF Coming
<1> QED BY <1>1, <1>5, FoundStep

\* The end: nothing is asked of a closed iterator.
LEMMA FoundClose == FindInv /\ FoundInv /\ find_close => FoundInv'
<1> SUFFICES ASSUME FindInv, FoundInv, find_close PROVE FoundInv' OBVIOUS
<1>1. /\ tree' = tree /\ kept' = kept /\ find_mode' = "0" /\ pc' = "closed" /\ ~ find_eof'
  BY DEF find_close
<1>2. ASSUME NEW k \in kept PROVE Standing(k)'
  <2>1. Standing(k) BY DEF FoundInv
  <2>2. tree' = tree BY <1>1
  <2> QED BY <2>1, <2>2, StandingStays
<1> QED BY <1>1, <1>2 DEF FoundInv

\* An edit: what is kept stands.
LEMMA FoundEdit ==
  ASSUME NEW d \in Dirs, NEW n \in Names, NEW node \in Nodes, FoundInv, Edit(d, n, node)
  PROVE  FoundInv'
<1>1. UNCHANGED <<find_mode, find_eof, dir, stack, sb, ip, val, pc, got>>
  BY DEF Edit, iterator
<1>2. kept' = {k \in kept : Real(k.path)' = File /\ Chain(k.path)' = k.chain}
  BY DEF Edit
<1>3. ASSUME NEW k \in kept' PROVE k \in kept /\ Standing(k)'
  <2>1. k \in kept /\ Real(k.path)' = File /\ Chain(k.path)' = k.chain BY <1>2
  <2>2. Standing(k) BY <2>1 DEF FoundInv
  <2> QED BY <2>1, <2>2 DEF Standing, SkipsFile, Prefixed
<1>4. ASSUME NEW k \in kept', Coming(k) PROVE Coming(k)'
  BY <1>1, <1>4 DEF Coming, Passed, Ahead, Leads, Agrees, Descending
<1>5. \A k \in kept' : NoLoop(k) => NoLoop(k)' BY DEF NoLoop, SkipsDir, Prefixed
<1> QED BY <1>1, <1>3, <1>4, <1>5 DEF FoundInv

\* Every step keeps what is kept found or ahead.
LEMMA FoundNext == FindInv /\ FoundInv /\ [Next]_vars => FoundInv'
<1> SUFFICES ASSUME FindInv, FoundInv, [Next]_vars PROVE FoundInv' OBVIOUS
<1>1. CASE Traverse
  <2>1. CASE find_open BY <2>1, FoundOpen
  <2>2. CASE \E lines \in Lists : find_open_filelist(lines) BY <2>2, FoundOpenList
  <2>3. CASE find_read BY <2>3, FoundRead
  <2>4. CASE \E e \in [name : Names, isdir : BOOLEAN] : TakeFile(e) \/ TakeDir(e)
    BY <2>4, FoundTakeFile, FoundTakeDir DEF Entries
  <2>5. CASE CheckLoop BY <2>5, FoundCheck
  <2>6. CASE getdirs BY <2>6, FoundGetdirs
  <2>7. CASE Push BY <2>7, FoundPush
  <2>8. CASE Pop BY <2>8, FoundPop
  <2>9. CASE find_read_filelist BY <2>9, FoundFileList
  <2>10. CASE find_close BY <2>10, FoundClose
  <2> QED
    BY <1>1, <2>1, <2>2, <2>3, <2>4, <2>5, <2>6, <2>7, <2>8, <2>9, <2>10 DEF Traverse
<1>2. CASE \E e \in Edited, node \in Nodes : Edit(e[1], e[2], node)
  <2>1. PICK e \in Edited, node \in Nodes : Edit(e[1], e[2], node) BY <1>2
  <2>2. e[1] \in Dirs /\ e[2] \in Names BY FindAssumption
  <2> QED BY <2>1, <2>2, FoundEdit
<1>3. CASE UNCHANGED vars
  <2>1. UNCHANGED <<tree, find_mode, find_eof, dir, stack, sb, ip, val, pc, got, kept>>
    BY <1>3 DEF vars, iterator
  <2>2. ASSUME NEW k \in kept PROVE Standing(k)'
    <3>1. Standing(k) BY DEF FoundInv
    <3> QED BY <2>1, <3>1 DEF Standing, Chain, Real
  <2>3. ASSUME NEW k \in kept, Coming(k) PROVE Coming(k)'
    BY <2>1, <2>3 DEF Coming, Passed, Ahead, Leads, Agrees, Descending
  <2>4. \A k \in kept : NoLoop(k) => NoLoop(k)' BY DEF NoLoop
  <2> QED BY <2>1, <2>2, <2>3, <2>4 DEF FoundInv
<1> QED BY <1>1, <1>2, <1>3 DEF Next

\* The invariant of what is found, for every tree and every number of edits.
LEMMA FoundInvariant == Spec => []FoundInv
<1>1. Init => FoundInv
  <2> SUFFICES ASSUME Init PROVE FoundInv OBVIOUS
  <2>1. kept = {} /\ ~ find_eof BY DEF Init
  <2> QED BY <2>1 DEF FoundInv
<1> QED BY <1>1, FoundNext, FindInvariant, PTL DEF Spec

\* A file that is there during the whole traversal, its directories unmoved, is
\* returned before find_read returns NULL, whatever is edited around it.
THEOREM FoundAllHolds == Spec => []FoundAll
<1>1. FindInv /\ FoundInv => FoundAll
  <2> SUFFICES ASSUME FindInv, FoundInv, find_eof, NEW k \in kept PROVE k.path \in got
    BY DEF FoundAll
  <2>1. /\ pc = "caller" /\ stack = << >> /\ find_mode \in {"FIND_OPEN", "FILELIST_OPEN"}
    BY DEF FindInv, TypeOK, Shape, FoundInv
  <2>2. CASE find_mode = "FIND_OPEN"
    <3>1. Coming(k) BY <2>1, <2>2 DEF FoundInv
    <3> QED BY <2>1, <3>1 DEF Coming, Ahead, Descending
  <2>3. CASE find_mode = "FILELIST_OPEN" BY <2>3 DEF FoundInv
  <2> QED BY <2>1, <2>2, <2>3
<1> QED BY <1>1, FindInvariant, FoundInvariant, PTL
----------------------------------------------------------------------------
\* While nobody edits the tree, what the program has in memory is true of it.
Begins(i) ==
  /\ stack[i].real = Real(SubSeq(dir, 1, i - 1)) /\ stack[i].real \notin Above
  /\ stack[i].rest \subseteq Listing(stack[i].real)
  /\ i > 1 => ~ SkipsDir(SubSeq(dir, 1, i - 1))
  /\ \A j \in 1 .. i - 1 : stack[j].real # stack[i].real

TrueOfTree ==
  /\ kept = Traversed
  /\ got \subseteq {k.path : k \in Traversed}
  /\ \A i \in DOMAIN stack : Begins(i)
  /\ pc \in Descending => Real(dir) \in Dirs /\ ~ SkipsDir(dir)
  /\ pc \in {"list", "push"} => ~ has_symlinkloop(Real(dir))
  /\ pc = "push" => sb \subseteq Listing(Real(dir))

QuietInv ==
  /\ pc = "dead" => ~ quiet
  /\ quiet /\ find_mode = "FIND_OPEN" => TrueOfTree
----------------------------------------------------------------------------
\* The root is where the walk begins.
LEMMA RealRoot == Real(<< >>) = Root
<1> DEFINE p == << >>
<1>1. p \in Seq(Names) /\ Len(p) = 0 OBVIOUS
<1>2. PICK g : Walk(g, p, 0) BY WalkExists
<1>3. g[0] = Root BY <1>2 DEF Walk, NextPlace
<1> HIDE DEF p
<1>4. Real(p) = g[0] BY <1>1, <1>2, RealWalk
<1> QED BY <1>3, <1>4 DEF p

\* The real path of the entry n of the directory q.
LEMMA RealAppend ==
  ASSUME NEW q \in Seq(Names), NEW n \in Names
  PROVE  Real(Append(q, n)) = IF Real(q) \in Dirs THEN tree[Real(q)][n] ELSE Nothing
<1> DEFINE p == Append(q, n)
<1>1. /\ p \in Seq(Names) /\ Len(p) = Len(q) + 1 /\ p[Len(p)] = n
      /\ \A k \in 1 .. Len(q) : p[k] = q[k]
  OBVIOUS
<1> HIDE DEF p
<1>2. Real(p) = IF Real(q) \in Dirs THEN tree[Real(q)][n] ELSE Nothing
  BY <1>1, RealPrefix
<1> QED BY <1>2 DEF p

\* The tree is as it was, and so is what is said of it.
LEMMA SameTree ==
  ASSUME tree' = tree
  PROVE  /\ Traversed' = Traversed
         /\ \A real : Listing(real)' = Listing(real)
         /\ \A p : Real(p)' = Real(p)
<1>1. ASSUME NEW p PROVE Real(p)' = Real(p) BY DEF Real
<1>2. ASSUME NEW real PROVE Listing(real)' = Listing(real) BY DEF Listing
<1>3. Traversed' = Traversed
  BY DEF Traversed, Placed, Traversable, Chain, Real, SkipsFile, SkipsDir, Prefixed, MaxNesting
<1> QED BY <1>1, <1>2, <1>3
\* dir reaches to the listing on top.
LEMMA DirReaches ==
  ASSUME FindInv
  PROVE  /\ dir \in Seq(Names) /\ Len(dir) \in Nat /\ Len(stack) \in Nat
         /\ DOMAIN stack = 1 .. Len(stack)
         /\ \A i \in DOMAIN stack : i - 1 \in 0 .. Len(dir) /\ stack[i].real \in Dirs
<1> DEFINE T == [dirp : Nat, real : Dirs, rest : SUBSET Entries]
<1>1. dir \in Seq(Names) /\ stack \in Seq(T) BY DEF FindInv, TypeOK, Paths
<1>2. \A i \in DOMAIN stack : stack[i].real \in Dirs
  <2>1. \A i \in DOMAIN stack : stack[i] \in T
    <3> HIDE DEF T
    <3> QED BY <1>1
  <2> QED BY <2>1
<1>3. Len(dir) \in Nat /\ Len(stack) \in Nat /\ DOMAIN stack = 1 .. Len(stack)
  <2> HIDE DEF T
  <2> QED BY <1>1
<1>4. stack # << >> => Len(dir) >= Len(stack) - 1 BY DEF FindInv, Shape
<1>5. ASSUME NEW i \in DOMAIN stack PROVE i - 1 \in 0 .. Len(dir)
  <2>1. stack # << >> BY <1>3
  <2> QED BY <1>3, <1>4, <2>1
<1> QED BY <1>1, <1>2, <1>3, <1>5

\* A listing that stays on the stack, dir the same up to it.
LEMMA BeginsStay ==
  ASSUME FindInv, FindInv', tree' = tree, NEW i \in DOMAIN stack, i \in DOMAIN stack',
         Begins(i), \A j \in 1 .. i : stack'[j].real = stack[j].real,
         stack'[i].rest \subseteq stack[i].rest,
         \A j \in 1 .. i - 1 : dir'[j] = dir[j]
  PROVE  Begins(i)'
<1>1. /\ dir \in Seq(Names) /\ i - 1 \in 0 .. Len(dir) /\ i \in 1 .. i /\ i \in Nat
  BY DirReaches
<1>2. dir' \in Seq(Names) /\ i - 1 \in 0 .. Len(dir')
  <2>1. /\ dir' \in Seq(Names) /\ Len(dir') \in Nat /\ Len(stack') \in Nat
        /\ DOMAIN stack' = 1 .. Len(stack')
    BY DEF FindInv, TypeOK, Paths
  <2>2. stack' # << >> => Len(dir') >= Len(stack') - 1 BY DEF FindInv, Shape
  <2> QED BY <1>1, <2>1, <2>2
<1>3. SubSeq(dir', 1, i - 1) = SubSeq(dir, 1, i - 1) BY <1>1, <1>2
<1>4. \A q : Real(q)' = Real(q) BY SameTree
<1>5. stack'[i].real = Real(SubSeq(dir, 1, i - 1))' BY <1>1, <1>3, <1>4 DEF Begins
<1>6. stack'[i].rest \subseteq Listing(stack[i].real)' BY <1>1, SameTree DEF Begins
<1>7. i > 1 => ~ SkipsDir(SubSeq(dir', 1, i - 1)) BY <1>3 DEF Begins
<1>8. /\ stack'[i].real \notin Above
      /\ \A j \in 1 .. i - 1 : stack'[j].real # stack'[i].real
  BY <1>1 DEF Begins
<1> QED BY <1>1, <1>5, <1>6, <1>7, <1>8 DEF Begins
\* The listings begun are of different directories: there are no more than that.
LEMMA NestingBounded ==
  ASSUME FindInv, \A i \in DOMAIN stack : Begins(i)
  PROVE  Len(stack) <= MaxNesting
<1> DEFINE N == Len(stack)
           f == [i \in 1 .. N |-> stack[i].real]
<1>1. N \in Nat /\ DOMAIN stack = 1 .. N /\ \A i \in 1 .. N : stack[i].real \in Dirs \ Above
  BY DirReaches DEF Begins
<1>2. f \in [1 .. N -> Dirs \ Above] BY <1>1
<1>3. ASSUME NEW i \in 1 .. N, NEW j \in 1 .. N, i # j PROVE f[i] # f[j]
  <2>1. i \in 1 .. j - 1 \/ j \in 1 .. i - 1 BY <1>1, <1>3
  <2>2. stack[i].real # stack[j].real BY <1>1, <2>1 DEF Begins
  <2> QED BY <2>2
<1>4. f \in Injection(1 .. N, Dirs \ Above)
  <2> HIDE DEF f
  <2> QED BY <1>2, <1>3 DEF Injection, IsInjective
<1>5. IsFiniteSet(Dirs \ Above) BY FindAssumption, FS_Subset
<1>6. Cardinality(1 .. N) <= Cardinality(Dirs \ Above)
  <2> HIDE DEF f
  <2> QED BY <1>4, <1>5, FS_Injection
<1>7. Cardinality(1 .. N) = N BY <1>1, FS_Interval
<1> QED BY <1>6, <1>7 DEF MaxNesting

\* A path that is returned is one of the tree's.
LEMMA ReturnedTraversed ==
  ASSUME FindInv, TrueOfTree, find_mode = "FIND_OPEN", pc = "read", NEW n \in Names,
         Real(Append(dir, n)) = File, ~ SkipsFile(Append(dir, n))
  PROVE  Append(dir, n) \in {k.path : k \in Traversed}
<1> DEFINE p == Append(dir, n)
           N == Len(stack)
<1>1. /\ N \in Nat \ {0} /\ dir \in Seq(Names) /\ Len(dir) = N - 1 /\ DOMAIN stack = 1 .. N
  BY TopType, ReadingShape, DirReaches
<1>2. p \in Seq(Names) /\ Len(p) = N BY <1>1
<1>3. \A i \in 1 .. N : SubSeq(p, 1, i - 1) = SubSeq(dir, 1, i - 1) BY <1>1
<1>4. \A i \in DOMAIN stack : Begins(i) BY DEF TrueOfTree
<1>5. N \in 1 .. MaxNesting
  <2>1. N <= MaxNesting /\ MaxNesting \in Nat
    BY <1>4, NestingBounded, BegunFinite DEF FindInv
  <2> QED BY <1>1, <2>1
<1> HIDE DEF p
<1>6. p \in [1 .. N -> Names] BY <1>2
<1>7. \A i \in 1 .. N : Chain(p)[i] = stack[i].real
  BY <1>1, <1>2, <1>3, <1>4 DEF Chain, Begins
<1>8. Traversable(p)
  <2>0. Real(p) = File /\ ~ SkipsFile(p) BY DEF p
  <2> SUFFICES ASSUME NEW i \in 2 .. Len(p)
               PROVE  /\ ~ SkipsDir(SubSeq(p, 1, i - 1))
                      /\ Chain(p)[i] \notin Above
                      /\ \A m \in 1 .. i - 1 : Chain(p)[m] # Chain(p)[i]
    BY <2>0 DEF Traversable
  <2>1. i \in 1 .. N /\ i > 1 /\ \A m \in 1 .. i - 1 : m \in 1 .. N BY <1>1, <1>2
  <2>2. Begins(i) BY <1>1, <1>4, <2>1
  <2>3. ~ SkipsDir(SubSeq(p, 1, i - 1)) BY <1>3, <2>1, <2>2 DEF Begins
  <2> QED BY <1>7, <2>1, <2>2, <2>3 DEF Begins
<1>9. p \in UNION {[1 .. m -> Names] : m \in 1 .. MaxNesting} BY <1>5, <1>6
<1>10. [path |-> p, chain |-> Chain(p)] \in Traversed
  BY <1>8, <1>9, Zenon DEF Traversed, Placed
<1>11. [path |-> p, chain |-> Chain(p)].path = p OBVIOUS
<1>12. p \in {k.path : k \in Traversed} BY <1>10, <1>11, Zenon
<1> QED BY <1>12 DEF p

\* find_open: the tree is as the root's listing says.
LEMMA QuietOpen == FindInv /\ FindInv' /\ find_open => QuietInv'
<1> SUFFICES ASSUME FindInv, FindInv', find_open PROVE QuietInv' OBVIOUS
<1>1. /\ tree' = tree /\ pc' = "caller" /\ got' = got /\ got = {} /\ dir' = << >>
      /\ DOMAIN stack' = {1} /\ stack'[1].real = Root /\ stack'[1].rest = Listing(Root)
      /\ kept' = Traversed
  BY DEF find_open, FindInv, Shape
<1>2. Traversed' = Traversed /\ Listing(Root)' = Listing(Root) /\ Real(<< >>)' = Root
  BY <1>1, SameTree, RealRoot
<1>3. Begins(1)'
  <2>1. SubSeq(<< >>, 1, 0) = << >> OBVIOUS
  <2>2. SubSeq(dir', 1, 1 - 1) = << >> BY <1>1, <2>1
  <2>3. stack'[1].real = Real(SubSeq(dir, 1, 1 - 1))' BY <1>1, <1>2, <2>2
  <2>4. stack'[1].rest \subseteq Listing(stack[1].real)' BY <1>1, SameTree
  <2> QED BY <1>1, <2>3, <2>4, FindAssumption DEF Begins
<1>4. TrueOfTree' BY <1>1, <1>2, <1>3 DEF TrueOfTree, Descending
<1> QED BY <1>1, <1>4 DEF QuietInv
\* A file is taken: what is returned is one of the tree's.
LEMMA QuietTakeFile ==
  ASSUME NEW e \in Entries, FindInv, FindInv', TrueOfTree, TakeFile(e)
  PROVE  TrueOfTree'
<1> DEFINE N == Len(stack)
<1>1. /\ find_mode = "FIND_OPEN" /\ pc = "read" /\ stack' = Taken(e) /\ tree' = tree
      /\ kept' = kept /\ dir' = dir /\ pc' \in {"read", "caller"} /\ e.name \in Names
  BY DEF TakeFile, Return, Entries
<1>2. /\ N \in DOMAIN stack /\ Top = stack[N] /\ DOMAIN stack = 1 .. N /\ N \in Nat \ {0}
  BY <1>1, TopType, ReadingShape, DirReaches
<1>3. /\ DOMAIN stack' = DOMAIN stack
      /\ \A i \in DOMAIN stack : stack'[i].real = stack[i].real
      /\ \A i \in DOMAIN stack : stack'[i].rest \subseteq stack[i].rest
  BY <1>1, <1>2 DEF Taken
<1>4. ASSUME NEW i \in DOMAIN stack' PROVE Begins(i)'
  <2>1. /\ i \in DOMAIN stack /\ Begins(i)
        /\ \A j \in 1 .. i : stack'[j].real = stack[j].real
    BY <1>2, <1>3 DEF TrueOfTree
  <2> QED BY <1>1, <1>3, <2>1, BeginsStay
<1>5. Traversed' = Traversed BY <1>1, SameTree
<1>6. got' \subseteq {k.path : k \in Traversed}
  <2>1. got \subseteq {k.path : k \in Traversed} BY DEF TrueOfTree
  <2>2. CASE got' = got BY <2>1, <2>2
  <2>3. CASE /\ Real(Append(dir, e.name)) = File /\ ~ SkipsFile(Append(dir, e.name))
             /\ got' = got \cup {Append(dir, e.name)}
    BY <1>1, <2>1, <2>3, ReturnedTraversed
  <2> QED BY <2>2, <2>3 DEF TakeFile, Return
<1>7. got' \subseteq {k.path : k \in Traversed}' BY <1>5, <1>6
<1> QED BY <1>1, <1>4, <1>5, <1>7 DEF TrueOfTree, Descending

\* A directory is taken: it is there, and is not skipped.
LEMMA QuietTakeDir ==
  ASSUME NEW e \in Entries, FindInv, FindInv', TrueOfTree, TakeDir(e)
  PROVE  TrueOfTree'
<1> DEFINE N == Len(stack)
           p == Append(dir, e.name)
<1>1. /\ find_mode = "FIND_OPEN" /\ pc = "read" /\ stack' = Taken(e) /\ tree' = tree
      /\ kept' = kept /\ got' = got /\ e.name \in Names /\ e \in Top.rest
      /\ \/ pc' = "read" /\ dir' = dir
         \/ pc' = "loop" /\ dir' = p /\ ~ SkipsDir(p)
  BY DEF TakeDir, Entries
<1>2. /\ N \in DOMAIN stack /\ Top = stack[N] /\ DOMAIN stack = 1 .. N /\ N \in Nat \ {0}
      /\ dir \in Seq(Names) /\ Len(dir) = N - 1 /\ stack[N].real \in Dirs
  BY <1>1, TopType, ReadingShape, DirReaches
<1>3. /\ DOMAIN stack' = DOMAIN stack
      /\ \A i \in DOMAIN stack : stack'[i].real = stack[i].real
      /\ \A i \in DOMAIN stack : stack'[i].rest \subseteq stack[i].rest
  BY <1>1, <1>2 DEF Taken
<1>4. ASSUME NEW i \in DOMAIN stack' PROVE Begins(i)'
  <2>1. /\ i \in DOMAIN stack /\ Begins(i)
        /\ \A j \in 1 .. i : stack'[j].real = stack[j].real
    BY <1>2, <1>3 DEF TrueOfTree
  <2>2. \A j \in 1 .. i - 1 : dir'[j] = dir[j] BY <1>1, <1>2, <2>1
  <2> QED BY <1>1, <1>3, <2>1, <2>2, BeginsStay
<1>5. Traversed' = Traversed BY <1>1, SameTree
<1>6. Real(p) \in Dirs
  <2>1. SubSeq(dir, 1, N - 1) = dir BY <1>2
  <2>2. Real(dir) = stack[N].real /\ e \in Listing(stack[N].real)
    BY <1>1, <1>2, <2>1 DEF TrueOfTree, Begins
  <2>3. e.isdir /\ e.isdir = (tree[Real(dir)][e.name] \in Dirs)
    BY <2>2, ListingFacts DEF TakeDir
  <2>4. tree[Real(dir)][e.name] \in Dirs BY <2>3, Zenon
  <2> QED BY <1>1, <1>2, <2>2, <2>4, RealAppend
<1>7. pc' = "loop" => Real(dir)' \in Dirs /\ ~ SkipsDir(dir')
  BY <1>1, <1>6, SameTree
<1>8. got' \subseteq {k.path : k \in Traversed}' BY <1>1, <1>5 DEF TrueOfTree
<1> QED BY <1>1, <1>4, <1>5, <1>7, <1>8 DEF TrueOfTree, Descending
\* What is below the top stays, dir cut back to it or left alone.
LEMMA QuietBack ==
  ASSUME FindInv, FindInv', TrueOfTree, tree' = tree, kept' = kept, got' = got,
         DOMAIN stack' \subseteq DOMAIN stack,
         \A i \in DOMAIN stack' : stack'[i] = stack[i],
         \A i \in DOMAIN stack' : \A j \in 1 .. i - 1 : dir'[j] = dir[j],
         pc' \notin Descending
  PROVE  TrueOfTree'
<1>1. ASSUME NEW i \in DOMAIN stack' PROVE Begins(i)'
  <2>1. i \in DOMAIN stack /\ Begins(i) /\ DOMAIN stack' = 1 .. Len(stack')
    BY DEF TrueOfTree, FindInv, TypeOK
  <2>2. Len(stack') \in Nat BY DEF FindInv, TypeOK
  <2>3. \A j \in 1 .. i : j \in DOMAIN stack' BY <2>1, <2>2
  <2> QED BY <2>1, <2>3, BeginsStay
<1>2. Traversed' = Traversed BY SameTree
<1>3. got' \subseteq {k.path : k \in Traversed}' BY <1>2 DEF TrueOfTree
<1>4. kept' = Traversed' BY <1>2 DEF TrueOfTree
<1> QED BY <1>1, <1>3, <1>4 DEF TrueOfTree, Descending

\* The program goes on in a directory.
LEMMA QuietGoesOn ==
  ASSUME FindInv, FindInv', TrueOfTree, UNCHANGED <<tree, kept, got, dir, stack>>,
         pc \in Descending, pc' \in {"list", "push"}, ~ has_symlinkloop(Real(dir)),
         pc' = "push" => sb' = Listing(Real(dir))
  PROVE  TrueOfTree'
<1>1. ASSUME NEW i \in DOMAIN stack' PROVE Begins(i)'
  <2>1. i \in DOMAIN stack /\ Begins(i) BY DEF TrueOfTree
  <2> QED BY <2>1, BeginsStay
<1>2. /\ Traversed' = Traversed /\ Real(dir)' = Real(dir)
      /\ Listing(Real(dir))' = Listing(Real(dir))
  BY SameTree
<1>3. got' \subseteq {k.path : k \in Traversed}' /\ kept' = Traversed'
  BY <1>2 DEF TrueOfTree
<1>4. ~ has_symlinkloop(Real(dir))' BY CheckStays
<1>5. Real(dir)' \in Dirs /\ ~ SkipsDir(dir)' BY <1>2 DEF TrueOfTree, SkipsDir, Prefixed
<1>6. pc' = "push" => sb' \subseteq Listing(Real(dir))' BY <1>2
<1> QED BY <1>1, <1>3, <1>4, <1>5, <1>6 DEF TrueOfTree

\* A directory ignored for a loop.
LEMMA QuietIgnore ==
  ASSUME FindInv, FindInv', TrueOfTree, pc \in Descending, Ignore,
         UNCHANGED <<tree, kept, got>>
  PROVE  TrueOfTree'
<1>1. /\ dir \in Seq(Names) /\ Len(stack) \in Nat \ {0} /\ Len(dir) = Len(stack)
      /\ DOMAIN stack = 1 .. Len(stack) /\ Top.dirp = Len(stack) - 1
  BY DescendingShape
<1>2. stack' = stack /\ pc' = "read" BY DEF Ignore
<1>3. \A j \in 1 .. Len(stack) - 1 : dir'[j] = dir[j] BY <1>1 DEF Ignore, Truncated
<1>4. \A i \in DOMAIN stack' : \A j \in 1 .. i - 1 : dir'[j] = dir[j] BY <1>1, <1>2, <1>3
<1> QED BY <1>2, <1>4, QuietBack DEF Descending

\* The parts of getdirs.
LEMMA QuietGetdirs ==
  ASSUME FindInv, FindInv', TrueOfTree, CheckLoop \/ getdirs
  PROVE  TrueOfTree' /\ pc' # "dead"
<1>1. /\ pc \in Descending /\ Real(dir) \in Dirs
      /\ UNCHANGED <<tree, kept, got>>
  BY DEF CheckLoop, getdirs, Descending, TrueOfTree
<1>2. CASE Ignore
  <2>1. pc' # "dead" BY <1>2 DEF Ignore
  <2> QED BY <1>1, <1>2, <2>1, QuietIgnore
<1>3. CASE CheckLoop /\ ~ Ignore
  <2>1. pc' = "list" /\ UNCHANGED <<dir, stack>> /\ ~ has_symlinkloop(Real(dir))
    BY <1>1, <1>3 DEF CheckLoop
  <2> QED BY <1>1, <2>1, QuietGoesOn
<1>4. CASE getdirs /\ ~ Ignore
  <2>1. /\ pc' = "push" /\ UNCHANGED <<dir, stack>> /\ sb' = Listing(Real(dir))
        /\ pc = "list"
    BY <1>1, <1>4 DEF getdirs
  <2>2. ~ has_symlinkloop(Real(dir)) BY <2>1 DEF TrueOfTree
  <2> QED BY <1>1, <2>1, <2>2, QuietGoesOn
<1> QED BY <1>2, <1>3, <1>4

\* A directory is begun.
LEMMA QuietPush ==
  ASSUME FindInv, FindInv', TrueOfTree, Push PROVE TrueOfTree' /\ pc' # "dead"
<1> DEFINE N == Len(stack)
           T == [dirp : Nat, real : Dirs, rest : SUBSET Entries]
           new == [dirp |-> Len(dir), real |-> Real(dir), rest |-> sb]
<1>1. /\ pc \in Descending /\ pc = "push" /\ UNCHANGED <<tree, kept, got>>
      /\ Real(dir) \in Dirs /\ ~ SkipsDir(dir) /\ ~ has_symlinkloop(Real(dir))
      /\ sb \subseteq Listing(Real(dir))
  BY DEF Push, Descending, TrueOfTree
<1>2. stack' = Append(stack, new) /\ pc' = "read" /\ dir' = dir BY <1>1 DEF Push
<1>3. /\ dir \in Seq(Names) /\ N \in Nat \ {0} /\ Len(dir) = N /\ DOMAIN stack = 1 .. N
  BY <1>1, DescendingShape
<1>4. new \in T /\ new.real = Real(dir) /\ new.rest = sb
  BY <1>1, <1>3 DEF FindInv, TypeOK
<1>5. stack \in Seq(T) BY DEF FindInv, TypeOK
<1> HIDE DEF T, new
<1>6. /\ DOMAIN stack' = 1 .. N + 1 /\ stack'[N + 1] = new
      /\ \A i \in 1 .. N : stack'[i] = stack[i]
  BY <1>2, <1>3, <1>4, <1>5
<1>7. Traversed' = Traversed /\ Real(dir)' = Real(dir) BY <1>1, <1>2, SameTree
<1>8. ASSUME NEW i \in DOMAIN stack' PROVE Begins(i)'
  <2>1. CASE i \in 1 .. N
    <3>1. Begins(i) BY <1>3, <2>1 DEF TrueOfTree
    <3>2. \A j \in 1 .. i : stack'[j] = stack[j] BY <1>6, <2>1
    <3> QED BY <1>1, <1>2, <1>3, <1>6, <2>1, <3>1, <3>2, BeginsStay
  <2>2. CASE i = N + 1
    <3>1. SubSeq(dir, 1, i - 1) = dir BY <1>3, <2>2
    <3>2. stack'[i].real = Real(dir) /\ stack'[i].rest = sb BY <1>4, <1>6, <2>2
    <3>3. stack'[i].real = Real(SubSeq(dir, 1, i - 1))'
      <4>1. Real(SubSeq(dir, 1, i - 1))' = Real(SubSeq(dir, 1, i - 1))
        BY <1>1, <1>2, <3>1, SameTree
      <4> QED BY <3>1, <3>2, <4>1
    <3>4. stack'[i].rest \subseteq Listing(stack[i].real)'
      <4>1. \A real : Listing(real)' = Listing(real) BY <1>1, SameTree
      <4> QED BY <1>1, <3>2, <4>1
    <3>5. \A j \in 1 .. i - 1 : stack'[j].real # stack'[i].real
      BY <1>1, <1>3, <1>6, <2>2, <3>2 DEF has_symlinkloop
    <3>6. stack'[i].real \notin Above /\ ~ SkipsDir(SubSeq(dir', 1, i - 1))
      BY <1>1, <1>2, <3>1, <3>2 DEF has_symlinkloop
    <3> QED BY <3>3, <3>4, <3>5, <3>6 DEF Begins
  <2> QED BY <1>3, <1>6, <2>1, <2>2
<1>9. got' \subseteq {k.path : k \in Traversed}' /\ kept' = Traversed'
  BY <1>1, <1>7 DEF TrueOfTree
<1> QED BY <1>2, <1>8, <1>9 DEF TrueOfTree, Descending

\* A listing is at its end.
LEMMA QuietPop ==
  ASSUME FindInv, FindInv', TrueOfTree, Pop PROVE TrueOfTree' /\ pc' # "dead"
<1> DEFINE N == Len(stack)
<1>1. /\ find_mode = "FIND_OPEN" /\ pc = "read" /\ pc' \in {"read", "caller"}
      /\ UNCHANGED <<tree, got, kept>>
  BY DEF Pop
<1>2. /\ N \in Nat \ {0} /\ dir \in Seq(Names) /\ Len(dir) = N - 1 /\ DOMAIN stack = 1 .. N
  BY <1>1, TopType, ReadingShape, DirReaches
<1>3. /\ DOMAIN stack' = 1 .. N - 1 /\ \A i \in 1 .. N - 1 : stack'[i] = stack[i]
  BY <1>2 DEF Pop, FindInv, TypeOK
<1>4. \A j \in 1 .. N - 2 : dir'[j] = dir[j]
  <2>1. CASE N = 1 BY <2>1
  <2>2. CASE N # 1
    <3>1. N - 1 \in DOMAIN stack BY <1>2, <2>2
    <3>2. stack[N - 1].dirp = N - 2 BY <1>2, <3>1 DEF FindInv, Shape
    <3>3. dir' = SubSeq(dir, 1, N - 2) BY <2>2, <3>2 DEF Pop, Truncated
    <3> QED BY <1>2, <2>2, <3>3
  <2> QED BY <2>1, <2>2
<1>5. /\ DOMAIN stack' \subseteq DOMAIN stack
      /\ \A i \in DOMAIN stack' : stack'[i] = stack[i]
      /\ \A i \in DOMAIN stack' : \A j \in 1 .. i - 1 : dir'[j] = dir[j]
      /\ pc' \notin Descending /\ pc' # "dead"
  BY <1>1, <1>2, <1>3, <1>4 DEF Descending
<1> QED BY <1>1, <1>5, QuietBack

\* Every step keeps it until there is an edit.
LEMMA QuietNext == FindInv /\ FindInv' /\ QuietInv /\ [Next]_vars => QuietInv'
<1> SUFFICES ASSUME FindInv, FindInv', QuietInv, [Next]_vars PROVE QuietInv' OBVIOUS
<1>1. CASE find_open BY <1>1, QuietOpen
<1>2. CASE \E lines \in Lists : find_open_filelist(lines)
  <2>1. pc' = "caller" /\ find_mode' = "FILELIST_OPEN" BY <1>2 DEF find_open_filelist
  <2> QED BY <2>1 DEF QuietInv
<1>3. CASE find_read
  <2>1. /\ UNCHANGED <<tree, kept, got, dir, stack, find_mode, quiet>> /\ pc' = "read"
    BY <1>3 DEF find_read
  <2> QED BY <2>1, QuietBack DEF QuietInv, Descending
<1>4. ASSUME NEW e \in Entries, TakeFile(e) PROVE QuietInv'
  <2>1. find_mode = "FIND_OPEN" /\ quiet' = quiet /\ pc' # "dead"
    BY <1>4 DEF TakeFile, Return
  <2> QED BY <1>4, <2>1, QuietTakeFile DEF QuietInv
<1>5. ASSUME NEW e \in Entries, TakeDir(e) PROVE QuietInv'
  <2>1. find_mode = "FIND_OPEN" /\ quiet' = quiet /\ pc' # "dead"
    BY <1>5 DEF TakeDir
  <2> QED BY <1>5, <2>1, QuietTakeDir DEF QuietInv
<1>6. CASE CheckLoop \/ getdirs
  <2>1. quiet' = quiet /\ pc \in Descending BY <1>6 DEF CheckLoop, getdirs, Descending
  <2>2. find_mode = "FIND_OPEN" BY <2>1, DescendingShape
  <2> QED BY <1>6, <2>1, <2>2, QuietGetdirs DEF QuietInv
<1>7. CASE Push
  <2>1. quiet' = quiet /\ pc \in Descending BY <1>7 DEF Push, Descending
  <2>2. find_mode = "FIND_OPEN" BY <2>1, DescendingShape
  <2> QED BY <1>7, <2>1, <2>2, QuietPush DEF QuietInv
<1>8. CASE Pop
  <2>1. find_mode = "FIND_OPEN" /\ quiet' = quiet BY <1>8 DEF Pop
  <2> QED BY <1>8, <2>1, QuietPop, QuietBack DEF QuietInv
<1>9. CASE find_read_filelist \/ find_close
  <2>1. find_mode' # "FIND_OPEN" /\ pc' # "dead"
    BY <1>9 DEF find_read_filelist, find_close, Return
  <2> QED BY <2>1 DEF QuietInv
<1>10. CASE \E e \in Edited, node \in Nodes : Edit(e[1], e[2], node)
  <2>1. /\ UNCHANGED <<pc, find_mode>> /\ quiet' = (pc = "start")
        /\ pc \notin {"dead", "closed"}
    BY <1>10 DEF Edit, iterator
  <2>2. CASE pc = "start"
    <3>1. find_mode' = "0" /\ pc' = "start" BY <2>1, <2>2 DEF FindInv, Shape
    <3> QED BY <3>1 DEF QuietInv
  <2>3. CASE pc # "start"
    <3>1. ~ quiet' BY <2>1, <2>3
    <3> QED BY <3>1 DEF QuietInv
  <2> QED BY <2>2, <2>3
<1>11. CASE UNCHANGED vars
  <2>1. UNCHANGED <<tree, kept, got, dir, stack, find_mode, quiet, pc, sb>>
    BY <1>11 DEF vars, iterator
  <2>2. ASSUME TrueOfTree PROVE TrueOfTree'
    <3>1. CASE pc \notin Descending BY <2>1, <2>2, <3>1, QuietBack
    <3>2. CASE pc \in Descending
      <4>1. ASSUME NEW i \in DOMAIN stack' PROVE Begins(i)'
        <5>1. i \in DOMAIN stack /\ Begins(i) BY <2>1, <2>2 DEF TrueOfTree
        <5> QED BY <2>1, <5>1, BeginsStay
      <4>2. /\ Traversed' = Traversed /\ Real(dir)' = Real(dir)
            /\ Listing(Real(dir))' = Listing(Real(dir))
        BY <2>1, SameTree
      <4>3. has_symlinkloop(Real(dir))' = has_symlinkloop(Real(dir))
        BY <2>1, CheckStays
      <4>4. got' \subseteq {k.path : k \in Traversed}' /\ kept' = Traversed'
        BY <2>1, <2>2, <4>2 DEF TrueOfTree
      <4> QED BY <2>1, <2>2, <4>1, <4>2, <4>3, <4>4 DEF TrueOfTree, Descending
    <3> QED BY <3>1, <3>2
  <2> QED BY <2>1, <2>2 DEF QuietInv
<1> QED
  BY <1>1, <1>2, <1>3, <1>4, <1>5, <1>6, <1>7, <1>8, <1>9, <1>10, <1>11
  DEF Next, Traverse, Entries

LEMMA QuietInvariant == Spec => []QuietInv
<1>1. Init => QuietInv BY DEF Init, QuietInv
<1> QED BY <1>1, QuietNext, FindInvariant, PTL DEF Spec

\* The traversal is given up only because the tree was edited under it: a link
\* that is dead or loops is ignored.
THEOREM DiesOnlyOfEditsHolds == Spec => []DiesOnlyOfEdits
<1>1. QuietInv => DiesOnlyOfEdits BY DEF QuietInv, DiesOnlyOfEdits
<1> QED BY <1>1, QuietInvariant, PTL

\* Of a tree that nobody edits the traversal returns the files that are in it
\* and no others, each by the paths that pass through no directory twice.
THEOREM QuietExactHolds == Spec => []QuietExact
<1>1. FoundAll /\ QuietInv => QuietExact
  BY DEF FoundAll, QuietInv, TrueOfTree, QuietExact
<1> QED BY <1>1, FoundAllHolds, QuietInvariant, PTL
=============================================================================
