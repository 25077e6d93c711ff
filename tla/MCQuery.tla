------------------------------ MODULE MCQuery ------------------------------
(***************************************************************************)
(* The instance of Query that TLC checks: a project with another inside    *)
(* it, two trees of a library, tag files beside the sources or in one of   *)
(* the two obj directories, every setting of the environment.              *)
(***************************************************************************)
EXTENDS Query

\* "under" is an underscore.
MCLowerCase == [a |-> "a", b |-> "b", A |-> "a", B |-> "b", under |-> "under"]
MCUpperCase == [a |-> "A", b |-> "B", A |-> "A", B |-> "B", under |-> "under"]

MCDirs == {<<>>, <<"p">>, <<"p", "q">>, <<"p", "obj">>, <<"l">>, <<"m">>, <<"usr", "obj", "l">>}
MCWordsOf(n) ==
  CASE n = 0 -> <<>>
    [] n = 1 -> << <<"A", "b">>, <<"under", "a">>, <<"a">>, <<"a", "B">> >>
    [] n = 2 -> << <<"a", "B">>, <<"b">> >>
MCAbs(names) == [abs |-> TRUE, names |-> names]
MCRel(names) == [abs |-> FALSE, names |-> names]

\* Tag files in some of the places, some of them without a word.
MCDbs == {<<"p">>, <<"p", "q">>, <<"p", "obj">>, <<"l">>, <<"usr", "obj", "l">>, <<"m">>}
MCGtags ==
  UNION {[S -> {MCWordsOf(n)}] : S \in {S \in SUBSET MCDbs : Cardinality(S) < 3}, n \in {1}}
  \cup [MCDbs \ {<<"p", "obj">>} -> {MCWordsOf(n) : n \in 0 .. 2}]
MCRootFiles ==
  {[d \in {} |-> MCAbs(<<>>)], [d \in {<<"p">>} |-> MCAbs(<<"m">>)], [d \in {<<"p">>} |-> MCAbs(<<"x">>)],
   [d \in {<<"p">>} |-> MCRel(<<"q">>)], [d \in {<<"p">>} |-> MCRel(<<"p">>)]}
MCLibs == {<<>>, << <<"l">>, <<"x">>, <<"m">> >>, << <<"m">>, <<"p">>, <<"l">> >>}
MCEnvs ==
  [GTAGSROOT : {Unset}, GTAGSDBPATH : {MCAbs(<<"m">>)}, GTAGSLIBPATH : MCLibs]
  \cup [GTAGSROOT : {MCAbs(<<"p">>)}, GTAGSDBPATH : {Unset, MCAbs(<<"m">>), MCRel(<<"m">>)},
        GTAGSLIBPATH : MCLibs]
  \cup [GTAGSROOT : {MCAbs(<<"x">>), MCRel(<<"p">>)}, GTAGSDBPATH : {Unset}, GTAGSLIBPATH : {<<>>}]
\* A user in the root of his project is above all of it.
MCNear(tags, env) == IF <<"p", "q">> \in DOMAIN tags /\ env.GTAGSROOT = Unset THEN {{<<"a">>}}
                     ELSE {{}, {<<"a">>}}
MCWorlds ==
  UNION {[dirs : {MCDirs}, gtags : {t}, rootfile : {[d \in {} |-> MCAbs(<<>>)]}, env : {e},
          cwd : {<<"p", "q">>}, near : MCNear(t, e)] : t \in MCGtags, e \in MCEnvs}
  \cup {[dirs |-> MCDirs, gtags |-> t, rootfile |-> f, env |-> e, cwd |-> c, near |-> {<<"a">>}] :
     t \in {t \in MCGtags : Cardinality(DOMAIN t) < 3}, f \in MCRootFiles,
     e \in {e \in MCEnvs : e.GTAGSROOT = Unset /\ e.GTAGSLIBPATH = <<>>}, c \in {<<"p">>, <<>>}}
MCQueries ==
  [command : {"search"}, word : {<<"a">>}, db : {"GTAGS", "GRTAGS"}, options : {{}, {"T"}, {"l"}}]
  \cup [command : {"complete"}, word : {<<>>, <<"a">>, <<"under">>}, db : {"GTAGS"}, options : {{}, {"T", "i"}, {"i"}}]
============================================================================
