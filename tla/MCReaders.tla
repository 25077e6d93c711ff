----------------------------- MODULE MCReaders -----------------------------
(***************************************************************************)
(* What reads the tag files, in one run: a behaviour is one of one of the  *)
(* components, while the others stay as they begin.                        *)
(***************************************************************************)
EXTENDS MCCompactTags, HtagsIndex, TagRecord, Anchor, Cscope, MCToken, PathName

VARIABLE unit    \* the component that runs

\* Names, among them some of methods and some like abbreviations, and images made
\* of pieces.
MCAbbreviations == <<[c |-> "d", name |-> <<"d", "e">>], [c |-> "t", name |-> <<"b">>]>>
MCNames ==
  {s \in UNION {[1 .. n -> {"a", "@", " ", "."}] : n \in 1 .. 3} : Head(s) # " " /\ Last(s) # "."}
  \cup {<<"a", ":", ":", "n">>, <<"d", "e">>, <<"d">>, <<"n">>, <<"a", " ", ":", ":", "n">>}
MCPieces == {<<"a">>, <<"n">>, <<"@">>, <<"{">>, <<"1">>, <<"d", "e">>, <<"e">>}
            \cup {Blanks(n) : n \in {1, 4, 9, 10, 12}}
MCImages(l) == {FlattenSeq(s) : s \in UNION {[1 .. n -> MCPieces] : n \in 0 .. l}}
MCTagSet ==
  [name : MCNames, image : {<<>>}, compact : {TRUE}]
  \cup [name : MCNames, image : MCImages(1), compact : {FALSE}]
  \cup [name : {<<"a">>, <<"d">>, <<"@", "n">>, <<"a", "n">>}, image : MCImages(3), compact : {FALSE}]

\* The files of Anchor: none of them, one or two of a command line.
MCTagAt(l, t, ty) == [line |-> l, tag |-> t, type |-> ty]
MCNoAnchors == [GTAGS |-> <<>>, GRTAGS |-> <<>>]
MCAnchors == {
  MCNoAnchors,
  [GTAGS |-> <<MCTagAt(1, "x", "D")>>, GRTAGS |-> <<MCTagAt(1, "y", "R")>>],
  [GTAGS |-> <<MCTagAt(1, "x", "D"), MCTagAt(3, "y", "D")>>,
   GRTAGS |-> <<MCTagAt(2, "x", "R"), MCTagAt(2, "x", "R"), MCTagAt(3, "x", "R")>>],
  [GTAGS |-> <<MCTagAt(2, "x", "D"), MCTagAt(2, "y", "D")>>, GRTAGS |-> <<>>],
  [GTAGS |-> <<MCTagAt(2, "x", "T")>>, GRTAGS |-> <<MCTagAt(3, "x", "R")>>] }
MCFiles == [other : {FALSE}, length : {1, 4}, anchors : MCAnchors]
           \cup {[other |-> TRUE, length |-> 1, anchors |-> MCNoAnchors]}
MCProjects == UNION {[1 .. n -> MCFiles] : n \in 1 .. 3}

\* What global prints for htags: each tag a number of times; and two methods of a name.
MCRecord(name, lno) == [key |-> name, name |-> name, lno |-> lno]
MCTimes(name, n) == [i \in 1 .. n |-> MCRecord(name, i)]
MCGTAGS == {MCTimes("f", a) \o MCTimes("ff", b) \o MCTimes("g", c) : a, b, c \in 0 .. 3}
MCGRTAGS == {<<>>, MCTimes("f", 1), MCTimes("f", 2), MCTimes("f", 1) \o MCTimes("g", 3)}
MCMethods == <<[key |-> "g", name |-> "A.g", lno |-> 1], [key |-> "g", name |-> "B.g", lno |-> 1]>>
MCDatabases == [GTAGS : MCGTAGS, GRTAGS : MCGRTAGS] \cup [GTAGS : {MCMethods}, GRTAGS : {<<>>}]
MCLetter == [f |-> "f", ff |-> "f", g |-> "g"]
MCNoTags == [GTAGS |-> <<>>, GRTAGS |-> <<>>]

\* The paths of a GPATH: any of some, in their order.
MCPaths == << <<"a.h">>, <<"d", "a.h">>, <<"d", "e", "a.h">>, <<"d", "e", "x">>, <<"d", "y">>, <<"z", "w">> >>
MCGPATHs == {[i \in DOMAIN s |-> [path |-> s[i], id |-> 2 * i]] :
               s \in {SelectSeq(MCPaths, LAMBDA p: p \in S) : S \in SUBSET ToSet(MCPaths)}}
MCLine(name, n) == [last |-> name, line |-> n]
MCIncludes == {<<>>, <<MCLine("a.h", 1)>>, <<MCLine("a.h", 1), MCLine("s.h", 2), MCLine("a.h", 3)>>}

\* References for the screen: none, one, pages of lines that wrap, one taller than it.
MCAnswers ==
  [heights : {<<>>, <<1>>, <<3>>, <<2, 1>>, <<1, 1, 1, 1, 1>>, <<1, 2, 1, 2, 1, 1, 1>>, <<2, 1, 4, 1, 2, 1>>},
   bad : {FALSE}]
  \cup {[heights |-> <<1, 1>>, bad |-> TRUE]}

\* The user above, in, below and beside the root; arguments of up to five parts, of two
\* names, dots and nothing (doubled slashes), absolute ones too.
MCBlank == <<"a", " ">>
MCParts == {<<"a">>, MCBlank, <<".">>, <<".", ".">>, <<>>}
MCJoined(s) == FlattenSeq([i \in DOMAIN s |-> IF i = 1 THEN s[i] ELSE <<"/">> \o s[i]])
MCPathOf(s) == FlattenSeq([i \in DOMAIN s |-> <<"/">> \o s[i]])

\* Of a name that comes to nothing ("./", "a/../") rel2abs reads the byte before its buffer.
MCSpellings == {s \in {MCJoined(p) : p \in UNION {[1 .. n -> MCParts] : n \in 1 .. 5}} :
                  normalize_pathname(s) # <<>>}
MCPlace(root, cwd) == [root |-> MCPathOf(root), cwd |-> MCPathOf(cwd)]
MCPlaces == {
  MCPlace(<<<<"a">>>>, <<<<"a">>>>),
  MCPlace(<<<<"a">>>>, <<<<"a">>, MCBlank>>),
  MCPlace(<<<<"a">>, MCBlank>>, <<<<"a">>, <<"a">>>>),
  MCPlace(<<<<"a">>, MCBlank>>, <<<<"a">>>>),
  [root |-> <<"/">>, cwd |-> <<"/">> \o MCBlank],
  [root |-> <<"/", "a">>, cwd |-> <<"/">>] }

ReadersInit ==
  /\ unit \in {"compact", "htags", "record", "pages", "cscope", "tokens", "names"}
  /\ Init
  /\ IF unit = "htags" THEN \/ HtagsInitOf(MCDatabases, {<<>>}, {<<>>})
                            \/ HtagsInitOf({MCNoTags}, MCGPATHs, MCIncludes)
     ELSE HtagsInitOf({MCNoTags}, {<<>>}, {<<>>})
  /\ IF unit = "record" THEN RecordInit
     ELSE RecordInitOf({[name |-> <<"a">>, image |-> <<>>, compact |-> TRUE]}) /\ extract
  /\ IF unit = "pages" THEN AnchorInit ELSE AnchorInitOf({<<>>})
  /\ IF unit = "cscope" THEN CscopeInit ELSE CscopeInitOf({FALSE})
  /\ IF unit = "tokens" THEN TokenInit ELSE TokenInitOf({<<>>})
  /\ IF unit = "names" THEN NameInit ELSE NameInitOf({[root |-> <<"/">>, cwd |-> <<"/">>]}, {<<"a">>}) /\ encoding = TRUE

ReadersNext ==
  /\ UNCHANGED unit
  /\ IF unit = "compact" THEN Next ELSE UNCHANGED vars
  /\ IF unit = "htags" THEN HtagsNext ELSE UNCHANGED htagsVars
  /\ IF unit = "record" THEN RecordNext ELSE UNCHANGED recordVars
  /\ IF unit = "pages" THEN AnchorNext ELSE UNCHANGED anchorVars
  /\ IF unit = "cscope" THEN CscopeNext ELSE UNCHANGED cscopeVars
  /\ IF unit = "tokens" THEN TokenNext ELSE UNCHANGED tokenVars
  /\ IF unit = "names" THEN NameNext ELSE UNCHANGED nameVars

readersVars == <<unit, vars, htagsVars, recordVars, anchorVars, cscopeVars, tokenVars,
                 nameVars>>
ReadersSpec == ReadersInit /\ [][ReadersNext]_readersVars
=============================================================================
