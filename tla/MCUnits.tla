------------------------------ MODULE MCUnits ------------------------------
(***************************************************************************)
(* The components that nobody calls but from one place at a time, in one   *)
(* run: a behaviour is one of one of them, while the others stay as they   *)
(* begin.                                                                  *)
(***************************************************************************)
EXTENDS Gpath, Idset, Mpool, MCCppParser, GtagsRead, Literal, MCConf, MCQuery

VARIABLE unit    \* the component that runs

UnitsInit ==
  /\ unit \in {"gpath", "idset", "mpool", "C", "C++", "Java", "tags", "literal",
              "conf", "query"}
  /\ Init
  /\ IF unit = "idset" THEN IdsetInit ELSE IdsetInit /\ size = 0
  /\ MpoolInit
  /\ IF unit = "C" THEN CParserInit /\ classes = <<>> /\ starts = {} /\ classname = 0 ELSE CppInit
  /\ IF unit = "tags" THEN GtagsReadInit
     ELSE GtagsReadInitOf(FileOf([n \in DOMAIN TagNames |-> <<>>]), {}, "GSYMS")
  /\ IF unit = "literal" THEN LiteralInit ELSE LiteralInitOf({<<>>}, {<<>>}, {{}})
  /\ IF unit = "conf" THEN ConfInit ELSE ConfInitOf({<<>>})
  /\ IF unit = "query" THEN QueryInit ELSE QueryInitOf({[cwd |-> <<>>]}, {[word |-> <<>>]})

UnitsNext ==
  /\ UNCHANGED unit
  /\ IF unit = "gpath" THEN Next ELSE UNCHANGED gpathVars
  /\ IF unit = "idset" THEN IdsetNext ELSE UNCHANGED idsetVars
  /\ IF unit = "mpool" THEN MpoolNext ELSE UNCHANGED mpoolVars
  /\ CASE unit = "C" -> CParserNext /\ UNCHANGED <<inClass, starts>>
       [] unit = "C++" -> CppNext
       [] unit = "Java" -> JavaNext
       [] OTHER -> UNCHANGED cppVars
  /\ IF unit = "tags" THEN GtagsReadNext ELSE UNCHANGED readVars
  /\ IF unit = "literal" THEN LiteralNext ELSE UNCHANGED literalVars
  /\ IF unit = "conf" THEN ConfNext ELSE UNCHANGED confVars
  /\ IF unit = "query" THEN QueryNext ELSE UNCHANGED queryVars

UnitsSpec == UnitsInit /\ [][UnitsNext]_<<unit, gpathVars, idsetVars, mpoolVars, cppVars, readVars,
                                    literalVars, confVars, queryVars>>

\* The requests of GtagsRead: all tags, one, a prefix; any tag, or some, accepted.
MCTagNames == << <<1>>, <<1, 2>>, <<2>> >>
MCSegments == {<<>>, << <<1, 1>> >>, << <<2, 1>>, <<1, 2>>, <<1, 1>> >>}
MCMatches == {ToSet(MCTagNames), {<<1, 2>>, <<2>>}, {<<1>>, <<2>>}}
MCAsked == {"record", "key", "path"} \X MCMatches \X BOOLEAN
MCRequests ==
  {[mode |-> x[1], first |-> <<>>, prefix |-> FALSE, match |-> x[2], sort |-> x[3]] : x \in MCAsked}
  \cup {[mode |-> x[1], first |-> f, prefix |-> TRUE, match |-> x[2], sort |-> x[3]] :
          x \in MCAsked, f \in {<<1>>, <<1, 2>>}}
  \cup {[mode |-> m, first |-> <<1>>, prefix |-> FALSE, match |-> ToSet(MCTagNames), sort |-> s] :
          m \in {"record", "key", "path"}, s \in BOOLEAN}

\* Words and texts of Literal.
MCWords == UNION {[1 .. n -> {"a", "b"}] : n \in 1 .. 3}
MCShort == {w \in MCWords : Len(w) <= 2}
MCPatterns == {<<w>> : w \in MCWords}
              \cup {<<v, w>> : v \in {w \in MCWords : Len(w) = 2}, w \in MCShort}
              \cup {<< <<"a", "A">> >>, << <<"a", "b">>, <<"A">> >>}
MCTexts == UNION {[1 .. n -> {"a", "b", newline}] : n \in 0 .. 4}
           \cup {w \o <<"A", newline>> : w \in MCWords}
MCFolded == [a |-> "a", b |-> "b", A |-> "a", newline |-> newline]
MCOptions == {{}, {"i"}, {"V"}, {"path"}, {"V", "path"}}
=============================================================================
