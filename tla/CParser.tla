------------------------------ MODULE CParser ------------------------------
(***************************************************************************)
(* The parser of C and yacc sources (libparser/C.c).  It builds no tree: it *)
(* reads token after token, knows where it is by the brace level it keeps, *)
(* and records the names that a text defines.                              *)
(*                                                                         *)
(* A text is any sequence of pieces: what may stand at the top, in a body, *)
(* on a line of its own; and the braces, extern "C" blocks, conditionals   *)
(* and yacc sections that the pieces are in, which may begin and end at    *)
(* any place where a C text has them.  Tokens are classes of tokens: "sym" *)
(* and "def" are names, "def" where the text defines one; with "(" or "{"  *)
(* if that is what comes next (peekc).  "attribute" is __attribute__,      *)
(* "extern" the word before a string.  Numbers, strings, comments, the     *)
(* names yyparse and YYSTYPE that the parser adds, references, the words   *)
(* of .notfunction, SCM_DEFINE and the options -b and -e are left out.     *)
(***************************************************************************)
EXTENDS Integers, Sequences, SequencesExt

CONSTANTS MAXPIFSTACK,
          Items,       \* pieces that may stand at the top of a text
          Statements,  \* pieces that may stand in a body
          Lines,       \* pieces that may stand in both: macros, #include
          Heads,       \* beginnings of what has a body, at the top
          Blocks,      \* beginnings of blocks, in a body
          Rules,       \* pieces of the rules of a yacc file
          MaxDepth,    \* bound on the braces open at once
          MaxConds,    \* bound on the conditionals open at once
          Yaccs        \* whether the text is a yacc file

VARIABLES calls,       \* the functions and loops of the parser, each with its locals
          ahead,       \* pushbacktoken: the token that will be read again
          level,       \* the brace level
          ifs,         \* stack[1 .. piflevel]
          macro,       \* savelevel in a macro definition (startmacro), else -1
          yaccstatus, inC,
          found,       \* the names recorded as defined since the piece began
          piece, rest, \* the piece of the text, and what of it is still to be read
          text         \* what the piece is in

cparserVars == <<calls, ahead, level, ifs, macro, yaccstatus, inC, found, piece, rest, text>>

None == "none"
Symbols == {"sym", "sym(", "sym{", "def", "def(", "def{"}
BeforeParen == {"sym(", "def("}
BeforeBrace == {"sym{", "def{"}
Defined == {"def", "def(", "def{"}
Opens == {"#if", "#if 0"}
Conditionals == Opens \cup {"#else", "#endif"}
Specials == {"(", ")", "{", "}", ",", ";", "="}
Sections == {"%%", "%{", "%}"}

Dead == <<>>    \* no call is left: the parser has died

----------------------------------------------------------------------------
(* The text.  A conditional stands for its first branch, which the others  *)
(* agree with in the end, and an "#if 0" without #else for nothing.        *)

PieceRead == rest = <<>> /\ ahead = None
Shape == [depth |-> text.depth, externs |-> text.externs]

Go(p, after) == /\ piece' = p /\ rest' = p
                /\ text' = after
                /\ found' = <<>>
                /\ UNCHANGED <<calls, ahead, level, ifs, macro, yaccstatus, inC>>

InCode == text.part \in {"prologue", "C"} \/ text.depth > 0

Plain == \E p \in Lines \cup (IF text.depth > 0 THEN Statements
                              ELSE IF InCode THEN Items
                              ELSE IF text.part = "rules" THEN Rules ELSE {}) :
           Go(p, text)

Open == /\ text.depth < MaxDepth
        /\ \E p \in IF text.depth > 0 THEN Blocks
                    ELSE IF InCode THEN Heads
                    ELSE IF text.part = "rules" THEN {<<"{">>} ELSE {} :
             Go(p, [text EXCEPT !.depth = @ + 1])

Close == /\ text.depth > 0
         /\ Go(<<"}">>, [text EXCEPT !.depth = @ - 1])

Extern == /\ text.depth = 0 /\ text.externs = 0 /\ InCode
          /\ Go(<<"extern", "{">>, [text EXCEPT !.externs = 1])
EndExtern == /\ text.depth = 0 /\ text.externs = 1
             /\ Go(<<"}">>, [text EXCEPT !.externs = 0])

If(t) == /\ Len(text.conds) < MaxConds
         /\ Go(<<t, "sym", "newline">>,
               [text EXCEPT !.conds = Append(@, [start |-> Shape, first |-> <<>>,
                                                 zero |-> t = "#if 0"])])

Cond == Last(text.conds)
BranchEnds == text.conds # <<>> /\ Cond.first \in {<<>>, <<Shape>>}
Back(shape) == [text EXCEPT !.depth = shape.depth, !.externs = shape.externs]

Else == /\ BranchEnds
        /\ Go(<<"#else", "newline">>,
              [Back(Cond.start) EXCEPT !.conds[Len(text.conds)].first = <<Shape>>])

Endif == /\ BranchEnds
         /\ Go(<<"#endif", "newline">>,
               [Back(IF Cond.zero /\ Cond.first = <<>> THEN Cond.start ELSE Shape)
                  EXCEPT !.conds = Front(@)])

Section(t, from, to) == /\ text.part = from /\ text.depth = 0 /\ text.externs = 0
                        /\ text.conds = <<>>
                        /\ Go(<<t>>, [text EXCEPT !.part = to])

NextPiece ==
  /\ PieceRead /\ calls # Dead
  /\ \/ Plain \/ Open \/ Close \/ Extern \/ EndExtern
     \/ \E t \in Opens : If(t)
     \/ Else \/ Endif
     \/ Section("%{", "declarations", "prologue")
     \/ Section("%}", "prologue", "declarations")
     \/ Section("%%", "declarations", "rules")
     \/ Section("%%", "rules", "C")

----------------------------------------------------------------------------
(* Reading a token, and what the parser does after it.                     *)

levels == <<level, ifs>>
settings == <<macro, yaccstatus, inC>>

\* n, flag and tok are the locals of the function or the loop.
Frame(f) == [fn |-> f, n |-> 0, flag |-> FALSE, tok |-> None]
Top == Last(calls)
In(f) == calls # Dead /\ Top.fn = f

Stay == UNCHANGED calls /\ ahead' = None
Call(frame) == calls' = Append(calls, frame) /\ ahead' = None
Become(frame) == calls' = Append(Front(calls), frame) /\ ahead' = None
Return == calls' = Front(calls) /\ ahead' = None
ReturnBefore(t) == calls' = Front(calls) /\ ahead' = t
BecomeBefore(frame, t) == calls' = Append(Front(calls), frame) /\ ahead' = t
Count(n) == Become([Top EXCEPT !.n = n])

\* PUT with PARSER_DEF.
Put(tok) == found' = Append(found, tok)
PutIf(cond, tok) == found' = IF cond THEN Append(found, tok) ELSE found

\* nexttoken passes over the special characters that the caller does not name, but
\* a token pushed back is there again.
Interesting ==
  CASE Top.fn \in {"macro arguments", "process_attribute", "function arguments"} -> {"(", ")"}
    [] Top.fn = "typedef" -> Specials \ {"="}
    [] Top.fn \in {"typedef tag", "typedef tag name", "typedef body"} -> {"{", "}", ",", ";"}
    [] Top.fn = "declarators" -> {"(", ")", ",", ";"}
    [] Top.fn = "function_definition" -> Specials
    [] Top.fn = "enumerator_list" -> Specials \ {";"}
    [] OTHER -> {"{", "}", "=", ";"}
Seen(t) == t \notin Specials \/ ahead # None \/ t \in Interesting

PassOver(t) == ~ Seen(t) /\ Stay /\ UNCHANGED <<levels, settings, found>>

----------------------------------------------------------------------------
(* Conditionals (condition_macro).                                         *)

IfEntry(t) == [start |-> level, end |-> -1, if0only |-> t = "#if 0"]

\* Mutant: an #else does not go back to the level of the #if.
MUT_LevelsAfter_NoReset(t) ==
  CASE t \in Opens -> level' = level /\ ifs' = Append(ifs, IfEntry(t))
    [] t = "#else" -> UNCHANGED levels
    [] t = "#endif" -> UNCHANGED level /\ ifs' = IF ifs = <<>> THEN ifs ELSE Front(ifs)

\* The level after a conditional is that of its first branch.  Without an #if, #else
\* uses the entry 0, whose level is 0.
LevelsAfter(t) ==
  CASE t \in Opens -> level' = level /\ ifs' = Append(ifs, IfEntry(t))
    [] t = "#else" /\ ifs = <<>> -> level' = 0 /\ UNCHANGED ifs
    [] t = "#else" /\ ifs # <<>> ->
         /\ level' = Last(ifs).start
         /\ ifs' = [ifs EXCEPT ![Len(ifs)].end = IF @ = -1 THEN level ELSE @,
                               ![Len(ifs)].if0only = FALSE]
    [] t = "#endif" /\ ifs = <<>> -> UNCHANGED levels
    [] t = "#endif" /\ ifs # <<>> ->
         /\ level' = CASE Last(ifs).if0only -> Last(ifs).start
                       [] ~ Last(ifs).if0only /\ Last(ifs).end # -1 -> Last(ifs).end
                       [] OTHER -> level
         /\ ifs' = Front(ifs)

\* condition_macro: too many open ones, and the parser dies.
condition_macro(t) ==
  /\ t \in Conditionals
  /\ LevelsAfter(t)
  /\ IF t \in Opens /\ Len(ifs) + 1 >= MAXPIFSTACK
     THEN calls' = Dead /\ ahead' = None
     ELSE Call(Frame("rest of line"))
  /\ UNCHANGED <<settings, found>>

HasConditionals == {"C_family", "typedef body", "declarators", "function arguments",
                    "function_definition", "enumerator_list"}

RestOfLine(t) == /\ In("rest of line")
                 /\ IF t = "newline" THEN Return ELSE Stay
                 /\ UNCHANGED <<levels, settings, found>>

----------------------------------------------------------------------------
(* The main loop (C_family).                                               *)

Main(t) == In("C_family") /\ t \notin Conditionals

MainSymbol(t) ==
  /\ Main(t) /\ t \in Symbols
  /\ IF t \in BeforeParen /\ inC /\ level = 0 /\ macro = -1
     THEN Call([Frame("function arguments") EXCEPT !.tok = t]) ELSE Stay
  /\ UNCHANGED <<levels, settings, found>>

MainOpen(t) ==
  /\ Main(t) /\ t = "{"
  /\ inC' = (inC \/ (yaccstatus = "rules" /\ level = 0))
  /\ level' = level + 1
  /\ Stay /\ UNCHANGED <<ifs, macro, yaccstatus, found>>

\* A brace too many, as at the end of an extern "C" block, leaves the level at 0.
MainClose(t) ==
  /\ Main(t) /\ t = "}"
  /\ level' = IF level = 0 THEN 0 ELSE level - 1
  /\ inC' = (inC /\ ~ (yaccstatus = "rules" /\ level <= 1))
  /\ Stay /\ UNCHANGED <<ifs, macro, yaccstatus, found>>

MainNewline(t) ==
  /\ Main(t) /\ t = "newline"
  /\ level' = IF macro # -1 THEN macro ELSE level
  /\ macro' = -1
  /\ Stay /\ UNCHANGED <<ifs, yaccstatus, inC, found>>

MainSection(t) ==
  /\ Main(t) /\ t \in Sections
  /\ level' = 0
  /\ yaccstatus' = CASE t # "%%" -> yaccstatus
                     [] t = "%%" /\ yaccstatus = "declarations" -> "rules"
                     [] t = "%%" /\ yaccstatus # "declarations" -> "programs"
  /\ inC' = CASE t = "%{" -> TRUE [] t = "%}" -> FALSE [] t = "%%" -> yaccstatus' = "programs"
  /\ Stay /\ UNCHANGED <<ifs, macro, found>>

MainDefine(t) ==
  /\ Main(t) /\ t = "#define"
  /\ macro' = level
  /\ Call(Frame("macro name"))
  /\ UNCHANGED <<levels, yaccstatus, inC, found>>

\* The keywords that have a function or a loop of their own, and the others.
MainKeyword(t) ==
  /\ Main(t)
  /\ \/ t = "#include" /\ Call(Frame("rest of line"))
     \/ t = "extern" /\ Call(Frame("extern"))
     \/ t \in {"struct", "enum"} /\ Call([Frame("tag") EXCEPT !.flag = (t = "enum")])
     \/ t = "typedef" /\ Call([Frame("typedef") EXCEPT !.n = level])
     \/ t = "attribute" /\ Call(Frame("process_attribute"))
     \/ t \in {"word", "const", "=", ";"} /\ Stay
  /\ UNCHANGED <<levels, settings, found>>

MacroName(t) ==
  /\ In("macro name")
  /\ CASE t \in BeforeParen -> Become(Frame("macro arguments"))
       [] t \in Symbols \ BeforeParen -> Return
       [] OTHER -> ReturnBefore(t)
  /\ PutIf(t \in Symbols, t)
  /\ UNCHANGED <<levels, settings>>

MacroArguments(t) ==
  /\ In("macro arguments") /\ Seen(t)
  /\ CASE t = ")" -> Return [] t = "newline" -> ReturnBefore(t) [] OTHER -> Stay
  /\ UNCHANGED <<levels, settings, found>>

\* extern "C": the brace of a block is not counted.
ExternC(t) ==
  /\ In("extern") /\ Seen(t)
  /\ CASE t = "newline" -> Stay [] t = "{" -> Return [] OTHER -> ReturnBefore(t)
  /\ UNCHANGED <<levels, settings, found>>

\* enumerator_list is called when the first brace was read, which it counts; n is
\* savelevel, flag in_expression.
BeginList(under) ==
  /\ calls' = Append(under, [Frame("enumerator_list") EXCEPT !.n = level])
  /\ level' = level + 1
  /\ ahead' = None
  /\ UNCHANGED ifs

enumerator_list(t) ==
  /\ In("enumerator_list") /\ t \notin Conditionals /\ Seen(t)
  /\ level' = CASE t \in {"{", "("} -> level + 1 [] t \in {"}", ")"} -> level - 1
                [] OTHER -> level
  /\ CASE t \in {"}", ")"} /\ level - 1 = Top.n -> Return
       [] t = "," /\ level = Top.n + 1 -> Become([Top EXCEPT !.flag = FALSE])
       [] t = "=" -> Become([Top EXCEPT !.flag = TRUE])
       [] OTHER -> Stay
  /\ PutIf(t \in Symbols /\ ~ Top.flag, t)
  /\ UNCHANGED <<ifs, settings>>

\* struct, union, enum: the attributes, the name, and what follows it.
Tag(t) ==
  /\ In("tag") \/ In("tag name")
  /\ Seen(t)
  /\ \/ In("tag") /\ t = "attribute" /\ Call(Frame("process_attribute")) /\ UNCHANGED levels
     \/ In("tag") /\ t \in Symbols /\ Become([Top EXCEPT !.fn = "tag name"])
        /\ UNCHANGED levels
     \/ ~ (In("tag") /\ t \in Symbols \cup {"attribute"}) /\ t = "{" /\ Top.flag
        /\ BeginList(Front(calls))
     \/ ~ (In("tag") /\ t \in Symbols \cup {"attribute"}) /\ ~ (t = "{" /\ Top.flag)
        /\ ReturnBefore(t) /\ UNCHANGED levels
  /\ PutIf(In("tag") /\ t \in BeforeBrace, t)
  /\ UNCHANGED settings

----------------------------------------------------------------------------
(* typedef: n is typedef_savelevel, tok savetok.                           *)

Typedef(t) ==
  /\ In("typedef") /\ Seen(t)
  /\ CASE t \in {"const", "newline"} -> Stay
       [] t \in {"struct", "enum"} ->
            Become([Top EXCEPT !.fn = "typedef tag", !.flag = (t = "enum")])
       [] OTHER -> Become([Top EXCEPT !.fn = "declarators"])
  /\ UNCHANGED <<levels, settings, found>>

TypedefTag(t) ==
  /\ In("typedef tag") \/ In("typedef tag name")
  /\ Seen(t)
  /\ LET next == [Frame(IF Top.flag THEN "declarators" ELSE "typedef body") EXCEPT !.n = Top.n]
     IN CASE In("typedef tag") /\ t = "attribute" ->
               Call(Frame("process_attribute")) /\ UNCHANGED levels
          [] In("typedef tag") /\ t \in Symbols ->
               Become([Top EXCEPT !.fn = "typedef tag name"]) /\ UNCHANGED levels
          [] t = "{" /\ Top.flag -> BeginList(Append(Front(calls), next))
          [] OTHER -> BecomeBefore(next, t) /\ UNCHANGED levels
  /\ PutIf(In("typedef tag") /\ t \in BeforeBrace, t)
  /\ UNCHANGED settings

TypedefBody(t) ==
  /\ In("typedef body") /\ t \notin Conditionals /\ Seen(t)
  /\ level' = CASE t = "{" -> level + 1 [] t = "}" -> level - 1 [] OTHER -> level
  /\ CASE t = ";" /\ level = Top.n -> Return
       [] t = "}" /\ level - 1 = Top.n -> Become([Frame("declarators") EXCEPT !.n = Top.n])
       [] t \in Symbols -> Become([Top EXCEPT !.tok = t])
       [] OTHER -> Stay
  /\ PutIf(t = ";" /\ level = Top.n /\ Top.tok # None, Top.tok)
  /\ UNCHANGED <<ifs, settings>>

\* The last name before a comma or the end is what is defined.
Declarators(t) ==
  /\ In("declarators") /\ t \notin Conditionals /\ Seen(t)
  /\ level' = CASE t = "(" -> level + 1 [] t = ")" -> level - 1 [] OTHER -> level
  /\ CASE t = ";" /\ level = Top.n -> Return
       [] t \in {",", ";"} /\ ~ (t = ";" /\ level = Top.n) -> Become([Top EXCEPT !.tok = None])
       [] t \in Symbols /\ level <= Top.n -> Become([Top EXCEPT !.tok = t])
       [] OTHER -> Stay
  /\ PutIf(t \in {",", ";"} /\ Top.tok # None, Top.tok)
  /\ UNCHANGED <<ifs, settings>>

----------------------------------------------------------------------------
\* process_attribute: any token ends it while no bracket is open.
process_attribute(t) ==
  /\ In("process_attribute") /\ Seen(t)
  /\ LET n == CASE t = "(" -> Top.n + 1 [] t = ")" -> Top.n - 1 [] OTHER -> Top.n
     IN  IF n = 0 THEN Return ELSE Count(n)
  /\ UNCHANGED <<levels, settings, found>>

\* The first loop of function_definition: the arguments.
FunctionArguments(t) ==
  /\ In("function arguments") /\ t \notin Conditionals /\ Seen(t)
  /\ CASE t = "(" -> Count(Top.n + 1)
       [] t = ")" /\ Top.n = 1 -> Become([Frame("function_definition") EXCEPT !.tok = Top.tok])
       [] t = ")" /\ Top.n # 1 -> Count(Top.n - 1)
       [] OTHER -> Stay
  /\ UNCHANGED <<levels, settings, found>>

\* Mutant: the declarations of an old style header end it.
MUT_function_definition_NoIsdefine(t) ==
  /\ In("function_definition") /\ t \notin Conditionals /\ Seen(t)
  /\ CASE t = "attribute" -> Call(Frame("process_attribute"))
       [] t = "(" -> Count(Top.n + 1)
       [] t = ")" -> Count(Top.n - 1)
       [] t = "{" -> ReturnBefore(t)
       [] t \in {",", ";", "}", "="} -> Return
       [] OTHER -> Stay
  /\ PutIf(t = "{", Top.tok)
  /\ UNCHANGED <<levels, settings>>

\* The second loop: what follows decides; flag is isdefine, which the declarations of
\* an old style header set.  The body is left to the main loop.
function_definition(t) ==
  /\ In("function_definition") /\ t \notin Conditionals /\ Seen(t)
  /\ CASE t = "attribute" -> Call(Frame("process_attribute"))
       [] t = "(" -> Count(Top.n + 1)
       [] t = ")" -> Count(Top.n - 1)
       [] Top.n = 0 /\ t \notin Specials \cup {"attribute", "newline"} ->
            Become([Top EXCEPT !.flag = TRUE])
       [] t = "{" -> ReturnBefore(t)
       [] t \in {"}", "="} \/ (t \in {",", ";"} /\ ~ Top.flag) -> Return
       [] OTHER -> Stay
  /\ PutIf(t = "{", Top.tok)
  /\ UNCHANGED <<levels, settings>>

----------------------------------------------------------------------------
CParserInit ==
  /\ calls = <<Frame("C_family")>> /\ ahead = None
  /\ level = 0 /\ ifs = <<>> /\ macro = -1
  /\ \E yacc \in Yaccs :
       /\ yaccstatus = IF yacc THEN "declarations" ELSE "programs"
       /\ inC = ~ yacc
       /\ text = [part |-> IF yacc THEN "declarations" ELSE "C",
                  depth |-> 0, externs |-> 0, conds |-> <<>>]
  /\ found = <<>> /\ piece = <<>> /\ rest = <<>>

Parse(t) ==
  \/ PassOver(t)
  \/ Top.fn \in HasConditionals /\ condition_macro(t)
  \/ RestOfLine(t)
  \/ MainSymbol(t) \/ MainOpen(t) \/ MainClose(t) \/ MainNewline(t)
  \/ MainSection(t) \/ MainDefine(t) \/ MainKeyword(t)
  \/ MacroName(t) \/ MacroArguments(t) \/ ExternC(t) \/ Tag(t) \/ enumerator_list(t)
  \/ Typedef(t) \/ TypedefTag(t) \/ TypedefBody(t) \/ Declarators(t)
  \/ process_attribute(t) \/ FunctionArguments(t) \/ function_definition(t)

Read == /\ calls # Dead /\ ~ PieceRead
        /\ Parse(IF ahead # None THEN ahead ELSE Head(rest))
        /\ rest' = IF ahead # None THEN rest ELSE Tail(rest)
        /\ UNCHANGED <<piece, text>>

CParserNext == NextPiece \/ Read

CParserSpec == CParserInit /\ [][CParserNext]_cparserVars

----------------------------------------------------------------------------
Between == PieceRead /\ calls # Dead

\* Between two pieces of a text the parser is in its main loop and its brace level is
\* the number of braces open there, whatever lists, typedefs, headers, macros and
\* conditionals it has read (level, condition_macro).
LevelIsDepth == Between => /\ In("C_family") /\ macro = -1
                           /\ level = text.depth
                           /\ Len(ifs) = Len(text.conds)

\* The names recorded as defined are those that the text defines: functions, whichever
\* form their headers have, macros, tags with a body, enumerators and the names that
\* a typedef declares; and no name that is only called, declared or used.
DefinitionsFound == Between => found = SelectSeq(piece, LAMBDA t : t \in Defined)
=============================================================================
