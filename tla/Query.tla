------------------------------- MODULE Query -------------------------------
(***************************************************************************)
(* A query of global: where the tag files of the user's project are        *)
(* (libutil/getdbpath.c), what one tag file answers, and when the trees of *)
(* the library path are asked too (tagsearch and completion of global.c).  *)
(*                                                                         *)
(* A directory is the sequence of names that leads to it from "/", and a   *)
(* word a sequence of letters.  Symbolic links are left out.               *)
(***************************************************************************)
EXTENDS Integers, Sequences, SequencesExt, FiniteSetsExt

CONSTANTS Worlds,       \* [dirs, gtags, rootfile, env, cwd, near]: the file system, the user's place
                        \* and the words that have a place below it
          Queries,      \* [command, word, db, options]: options is a subset of {"T", "l", "i"}
          LowerCase,    \* tolower and
          UpperCase     \* toupper

VARIABLES world, query,
          root, dbpath,   \* of setupdbpath
          libs,           \* what is left of GTAGSLIBPATH
          answers,        \* what was printed: [db, words]
          stage           \* what is done next, or how the process ended

queryVars == <<world, query, root, dbpath, libs, answers, stage>>

Nowhere == <<"NULL">>
Unset == [abs |-> FALSE, names |-> <<"NULL">>]
isdir(names) == names \in world.dirs
HasGTAGS(names) == names \in DOMAIN world.gtags

\* Where GTAGS of a tree may be: in it, in its obj, and below /usr/obj.
ObjPlaces(candidate) == <<candidate, Append(candidate, "obj"), <<"usr", "obj">> \o candidate>>
gtagsexist(candidate) ==
  LET p == ObjPlaces(candidate)
      hits == {i \in DOMAIN p : HasGTAGS(p[i])}
  IN  IF hits = {} THEN Nowhere ELSE p[Min(hits)]

----------------------------------------------------------------------------
(* What one database answers: the words printed, in order.                 *)

Letters == DOMAIN LowerCase
Lower(w) == [i \in DOMAIN w |-> LowerCase[w[i]]]
isalpha(c) == LowerCase[c] # UpperCase[c]

\* Every letter is its own small or capital form; a tag is in a database once for these readings.
ASSUME QueryAssumption ==
  /\ LowerCase \in [Letters -> Letters] /\ UpperCase \in [Letters -> Letters]
  /\ \A x, y \in Letters : LowerCase[x] = LowerCase[y] => x \in {LowerCase[y], UpperCase[y]}
  /\ \A w \in Worlds :
       /\ w.cwd \in Seq(STRING) /\ w.env.GTAGSLIBPATH \in Seq(Seq(STRING))
       /\ Nowhere \notin DOMAIN w.gtags
       /\ \A db \in DOMAIN w.gtags : w.gtags[db] \in Seq(Seq(Letters)) /\ IsInjective(w.gtags[db])
  /\ \A q \in Queries : q.command \in {"search", "complete"} /\ q.word \in Seq(Letters)

\* Those words that are in S, in their order.
Chosen(words, S) ==
  LET first[n \in 0 .. Len(words)] ==
        IF n = 0 THEN <<>>
        ELSE IF words[n] \in S THEN Append(first[n - 1], words[n]) ELSE first[n - 1]
  IN  first[Len(words)]

Begins(words, prefix) == Chosen(words, {w \in ToSet(words) : IsPrefix(prefix, w)})
\* Without regard to case: two prefix readings, of the first letter as a capital and as a small one.
completion_tags(words, prefix) ==
  IF prefix # <<>> /\ isalpha(prefix[1]) /\ "i" \in query.options
  THEN Chosen(Begins(words, <<UpperCase[prefix[1]]>>) \o Begins(words, <<LowerCase[prefix[1]]>>),
              {w \in ToSet(words) : IsPrefix(Lower(prefix), Lower(w))})
  ELSE Begins(words, prefix)

\* With -l search passes over what is not below the current directory.
InSight == IF "l" \in query.options THEN world.near ELSE {query.word}

Answers(db) ==
  IF query.command = "complete" THEN completion_tags(world.gtags[db], query.word)
  ELSE Chosen(world.gtags[db], {query.word} \cap InSight)

----------------------------------------------------------------------------

QueryInitOf(worlds, queries) ==
  /\ world \in worlds /\ query \in queries
  /\ root = <<>> /\ dbpath = <<>> /\ libs = <<>> /\ answers = <<>> /\ stage = "setupdbpath"
QueryInit == QueryInitOf(Worlds, Queries)

IsDirPath(p) == p.abs /\ isdir(p.names)

\* GTAGSROOT is set; GTAGSDBPATH counts only then.
FromEnvironment ==
  /\ stage = "setupdbpath" /\ world.env.GTAGSROOT # Unset
  /\ LET r == world.env.GTAGSROOT
         d == world.env.GTAGSDBPATH
         ok == IsDirPath(r) /\ (d # Unset => IsDirPath(d))
         db == IF d # Unset THEN d.names ELSE gtagsexist(r.names)
     IN  /\ stage' = IF ~ok THEN "bad path" ELSE IF db = Nowhere THEN "GTAGS not found" ELSE "search"
         /\ IF stage' = "search" THEN root' = r.names /\ dbpath' = db ELSE UNCHANGED <<root, dbpath>>
  /\ UNCHANGED <<world, query, libs, answers>>

StartHere ==
  /\ stage = "setupdbpath" /\ world.env.GTAGSROOT = Unset
  /\ root' = world.cwd /\ stage' = "up"
  /\ UNCHANGED <<world, query, dbpath, libs, answers>>

GoUp ==
  /\ stage = "up" /\ gtagsexist(root) = Nowhere
  /\ IF root = <<>> THEN stage' = "GTAGS not found" /\ root' = root
     ELSE stage' = stage /\ root' = Front(root)
  /\ UNCHANGED <<world, query, dbpath, libs, answers>>

FoundUp ==
  /\ stage = "up" /\ gtagsexist(root) # Nowhere
  /\ dbpath' = gtagsexist(root) /\ stage' = "rootfile"
  /\ UNCHANGED <<world, query, root, libs, answers>>

\* The file GTAGSROOT.  Its line is tested from the current directory and taken from the root.
ReadRootFile ==
  /\ stage = "rootfile"
  /\ IF root \notin DOMAIN world.rootfile THEN stage' = "search" /\ root' = root
     ELSE LET s == world.rootfile[root]
              tested == IF s.abs THEN s.names ELSE world.cwd \o s.names
              taken == IF s.abs THEN s.names ELSE root \o s.names
          IN  \/ ~isdir(tested) /\ stage' = "search" /\ root' = root
              \/ isdir(tested) /\ isdir(taken) /\ stage' = "search" /\ root' = taken
              \/ isdir(tested) /\ ~isdir(taken) /\ stage' = "NULL copied" /\ root' = root
  /\ UNCHANGED <<world, query, dbpath, libs, answers>>

With(db) == IF Answers(db) = <<>> THEN answers ELSE Append(answers, [db |-> db, words |-> Answers(db)])

\* tagsearch and completion, in the project.
SearchProject ==
  /\ stage = "search"
  /\ IF ~HasGTAGS(dbpath) THEN stage' = "died" /\ UNCHANGED <<libs, answers>>
     ELSE /\ answers' = With(dbpath)
          /\ stage' = "library"
          /\ libs' = IF /\ query.db = "GTAGS" /\ "l" \notin query.options
                        /\ Answers(dbpath) = <<>> \/ "T" \in query.options
                     THEN world.env.GTAGSLIBPATH ELSE <<>>
  /\ UNCHANGED <<world, query, root, dbpath>>

MUT_SearchLibrary_Own ==
  /\ stage = "library" /\ libs # <<>>
  /\ LET db == gtagsexist(Head(libs))
     IN  IF db = Nowhere THEN libs' = Tail(libs) /\ answers' = answers
         ELSE /\ answers' = With(db)
              /\ libs' = IF Answers(db) # <<>> /\ "T" \notin query.options THEN <<>> ELSE Tail(libs)
  /\ UNCHANGED <<world, query, root, dbpath, stage>>
\* ... and in the next tree of the library, unless it is the project.
SearchLibrary ==
  /\ stage = "library" /\ libs # <<>>
  /\ LET db == gtagsexist(Head(libs))
     IN  IF db \in {Nowhere, dbpath} THEN libs' = Tail(libs) /\ answers' = answers
         ELSE /\ answers' = With(db)
              /\ libs' = IF Answers(db) # <<>> /\ "T" \notin query.options THEN <<>> ELSE Tail(libs)
  /\ UNCHANGED <<world, query, root, dbpath, stage>>

EndQuery ==
  /\ stage = "library" /\ libs = <<>> /\ stage' = "end"
  /\ UNCHANGED <<world, query, root, dbpath, libs, answers>>

QueryNext == FromEnvironment \/ StartHere \/ GoUp \/ FoundUp \/ ReadRootFile
             \/ SearchProject \/ SearchLibrary \/ EndQuery

QuerySpec == QueryInit /\ [][QueryNext]_queryVars

----------------------------------------------------------------------------
(* What the user was promised.                                             *)

\* The trees at and above the user that have tag files, by the length of their path.
TreeDb(n) == gtagsexist(SubSeq(world.cwd, 1, n))
Above == {n \in 0 .. Len(world.cwd) : TreeDb(n) # Nowhere}

\* The trees of the library path that have some, if the query is for them too.
LibraryDb(i) == gtagsexist(world.env.GTAGSLIBPATH[i])
Library == IF query.db = "GTAGS" /\ "l" \notin query.options
           THEN {i \in DOMAIN world.env.GTAGSLIBPATH : LibraryDb(i) # Nowhere} ELSE {}

\* The words of a database that are asked for.  Of a prefix that begins with no letter -i is
\* forgotten.
WordsAsked(db) ==
  LET nocase == "i" \in query.options /\ (query.word = <<>> \/ isalpha(query.word[1]))
  IN  {w \in ToSet(world.gtags[db]) :
         IF query.command = "search" THEN w = query.word /\ ("l" \in query.options => w \in world.near)
         ELSE IF nocase THEN IsPrefix(Lower(query.word), Lower(w)) ELSE IsPrefix(query.word, w)}

\* A query is answered from the project the user is in, the nearest above him; by each tag file
\* with every word asked for, once; the library is asked only if the project has none, or with -T,
\* and without -T the first tree that has one answers alone; no database answers twice unless
\* the library path names it twice (setupdbpath, tagsearch, completion).
QueryRight ==
  /\ stage \in {"rootfile", "search", "library", "end"} /\ world.env.GTAGSROOT = Unset =>
       Above # {} /\ dbpath = TreeDb(Max(Above))
  /\ stage = "GTAGS not found" /\ world.env.GTAGSROOT = Unset => Above = {}
  /\ \A i \in DOMAIN answers :
       /\ ToSet(answers[i].words) = WordsAsked(answers[i].db)
       /\ IsInjective(answers[i].words)
  /\ stage = "end" =>
       LET from == [i \in DOMAIN answers |-> answers[i].db]
           able == {db \in {dbpath} \cup {LibraryDb(i) : i \in Library} : WordsAsked(db) # {}}
       IN  /\ ToSet(from) \subseteq able
           /\ "T" \in query.options => ToSet(from) = able
           /\ "T" \notin query.options /\ able # {} => Len(from) = 1
           /\ dbpath \in able => from[1] = dbpath
           /\ "T" \notin query.options /\ from # <<>> /\ from[1] # dbpath =>
                \E n \in Library : /\ from[1] = LibraryDb(n)
                                  /\ \A i \in Library : i < n => WordsAsked(LibraryDb(i)) = {}
           /\ (\A i, j \in Library : LibraryDb(i) = LibraryDb(j) => i = j) => IsInjective(from)
=============================================================================
