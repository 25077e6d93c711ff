----------------------------- MODULE CppParser -----------------------------
(***************************************************************************)
(* The parser of C++ (libparser/Cpp.c): the machine of CParser, with which *)
(* it shares conditionals, enumerator lists, typedefs and attributes, and  *)
(* with it a stack of the classes it is in and three flags that last from  *)
(* a word to the brace or semicolon after it.  The count of the namespaces *)
(* that are open, which only keeps a warning quiet, is left out.           *)
(*                                                                         *)
(* A class is known by the number of classes that it and its outer classes *)
(* are; "ctor(" is the name of the class a text is in.                     *)
(***************************************************************************)
EXTENDS CParser

CONSTANTS MAXCLASSSTACK,
          CppItems,   \* pieces that may stand in a namespace and in a class
          MemberItems,    \* pieces that may stand in a class
          CppHeads,   \* beginnings, [kind, tokens], of what has a body, in a namespace or class
          MemberHeads, \* the same, in a class
          CppDepth    \* bound on the braces open at once

VARIABLES classes,    \* stack[1 .. classlevel]
          starts,     \* the flags that are set: "class", "throw", "equal"
          classname   \* for the brace to come; 0 when nothing will read it

inClass == <<classes, classname>>
cppVars == <<cparserVars, inClass, starts>>

----------------------------------------------------------------------------
(* The text.  The branches of a conditional leave the classes and the      *)
(* namespaces as they are at its #if, and no macro in a class closes a     *)
(* brace it has not opened: the parser does not undo what either does to   *)
(* its stack.                                                              *)

NumberOf(open, kinds) == Len(SelectSeq(open, LAMBDA k : k \in kinds))
Counted == {"class", "body"}
TextIn(open) == [text EXCEPT !.open = open, !.depth = NumberOf(open, Counted)]
InNamespace == text.open = <<>> \/ Last(text.open) = "namespace"
InClass == text.open # <<>> /\ Last(text.open) = "class"

CppLines == {p \in Lines : "}" \in ToSet(p) /\ "{" \notin ToSet(p) => "class" \notin ToSet(text.open)}
CppPlain == \E p \in CppLines \cup (IF InNamespace THEN CppItems
                                 ELSE IF InClass THEN CppItems \cup MemberItems ELSE Statements) :
              Go(p, text)

CppOpen == /\ Len(text.open) < CppDepth
           /\ \E h \in IF InNamespace THEN {h \in CppHeads : h.kind # "block"}
                       ELSE IF InClass THEN {h \in CppHeads : h.kind \in Counted} \cup MemberHeads
                       ELSE {h \in CppHeads : h.kind \in {"block", "class"}} :
                Go(h.tokens, TextIn(Append(text.open, IF h.kind = "block" THEN "body" ELSE h.kind)))

CppClose == /\ text.open # <<>>
            /\ \E tail \in IF Last(text.open) = "class" THEN {<<"}", ";">>, <<"}", "sym", ";">>}
                           ELSE {<<"}">>} :
                 Go(tail, TextIn(Front(text.open)))

CppIf(t) == /\ Len(text.conds) < MaxConds
            /\ Go(<<t, "sym", "newline">>,
                  [text EXCEPT !.conds = Append(@, [start |-> text.open, first |-> <<>>,
                                                    zero |-> t = "#if 0"])])

Scope(open) == SubSeq(open, 1, Max({0} \cup {i \in DOMAIN open : open[i] # "body"}))
CppBranchEnds == /\ text.conds # <<>>
                 /\ Cond.first \in {<<>>, <<text.open>>}
                 /\ Scope(text.open) = Scope(Cond.start)

CppElse == /\ CppBranchEnds
           /\ Go(<<"#else", "newline">>,
                 [TextIn(Cond.start) EXCEPT !.conds[Len(text.conds)].first = <<text.open>>])

CppEndif == /\ CppBranchEnds
            /\ Go(<<"#endif", "newline">>,
                  [TextIn(IF Cond.zero /\ Cond.first = <<>> THEN Cond.start ELSE text.open)
                     EXCEPT !.conds = Front(@)])

CppNextPiece ==
  /\ PieceRead /\ calls # Dead
  /\ CppPlain \/ CppOpen \/ CppClose \/ (\E t \in Opens : CppIf(t)) \/ CppElse \/ CppEndif
  /\ UNCHANGED <<inClass, starts>>

----------------------------------------------------------------------------
(* The main loop (Cpp).                                                    *)

\* peekc: what comes after the token that is read.
Peek == IF ahead # None \/ Len(rest) < 2 THEN None ELSE rest[2]
CppSymbols == Symbols \cup {"ctor("}
ClassLevel == IF classes = <<>> THEN 0 ELSE Last(classes).level
ClassOf(t) == IF t = "ctor(" THEN NumberOf(text.open, {"class"}) ELSE 0
CppSettings == <<settings, inClass>>

CppSymbol(t) ==
  /\ Main(t) /\ t \in CppSymbols
  /\ IF t \in BeforeParen \cup {"ctor("} /\ starts = {} /\ level = ClassLevel /\ macro = -1
     THEN Call([Frame("function arguments") EXCEPT !.tok = t]) ELSE Stay
  /\ UNCHANGED <<levels, CppSettings, starts, found>>

\* Mutant: a brace that closes a class leaves it on the stack.
MUT_CppClosed_Below(lev) == IF lev < ClassLevel - 1 THEN Front(classes) ELSE classes

CppClosed(lev) == IF lev < ClassLevel THEN Front(classes) ELSE classes

\* The brace of a namespace is not counted: its end is a brace too many.
CppCloseBrace(t) ==
  /\ Main(t) /\ t = "}"
  /\ level' = IF level = 0 THEN 0 ELSE level - 1
  /\ classes' = CppClosed(level')
  /\ Stay /\ UNCHANGED <<ifs, settings, classname, starts, found>>

CppOpenBrace(t) ==
  /\ Main(t) /\ t = "{"
  /\ level' = level + 1
  /\ IF "class" \in starts /\ Len(classes) + 1 >= MAXCLASSSTACK
     THEN calls' = Dead /\ ahead' = None /\ UNCHANGED classes
     ELSE /\ classes' = IF "class" \in starts
                        THEN Append(classes, [name |-> classname, level |-> level + 1]) ELSE classes
          /\ Stay
  /\ starts' = starts \ {"class", "throw"} /\ classname' = 0
  /\ UNCHANGED <<ifs, settings, found>>

CppFlag(t) ==
  /\ Main(t)
  /\ \/ t = "=" /\ starts' = starts \cup {"equal"}
     \/ t = ";" /\ starts' = starts \ {"throw", "equal"}
     \/ t = "throw" /\ starts' = starts \cup {"throw"}
  /\ Stay /\ UNCHANGED <<levels, CppSettings, found>>

\* using, namespace, class, template, operator and new have loops of their own.
CppKeyword(t) ==
  /\ Main(t)
  /\ \/ t \in {"using", "namespace", "class", "template", "operator", "new"} /\ Call(Frame(t))
     \/ t \in {"<", ">"} /\ Stay
  /\ UNCHANGED <<levels, CppSettings, starts, found>>

\* What is shared with CParser; there "=" and ";" mean nothing.
CppAsC(t) ==
  /\ \/ MainNewline(t) \/ MainDefine(t)
     \/ t \notin {"=", ";"} /\ MainKeyword(t)
  /\ UNCHANGED <<inClass, starts>>

Using(t) ==
  /\ In("using") /\ Seen(t)
  /\ IF t = "namespace" THEN Become(Frame("using namespace")) ELSE ReturnBefore(t)
  /\ UNCHANGED <<levels, CppSettings, starts, found>>

UsingNamespace(t) ==
  /\ In("using namespace") /\ Seen(t)
  /\ IF t \in CppSymbols THEN Return ELSE ReturnBefore(t)
  /\ UNCHANGED <<levels, CppSettings, starts, found>>

\* No newline is a token here.
Namespace(t) ==
  /\ In("namespace") \/ In("namespace name")
  /\ Seen(t)
  /\ CASE t = "newline" -> Stay
       [] t \in CppSymbols /\ In("namespace") -> Become(Frame("namespace name"))
       [] OTHER -> Return
  /\ PutIf(t \in CppSymbols /\ In("namespace"), t)
  /\ UNCHANGED <<levels, settings, inClass, starts>>

CppExtern(t) ==
  /\ ExternC(t)
  /\ UNCHANGED <<inClass, starts>>

\* A class that is only declared is passed over.
Class(t) ==
  /\ In("class") /\ Seen(t)
  /\ Return
  /\ classname' = IF t \in CppSymbols /\ Peek # ";" THEN NumberOf(text.open, {"class"}) ELSE classname
  /\ starts' = IF t \in CppSymbols /\ Peek # ";" THEN starts \cup {"class"} ELSE starts
  /\ PutIf(t \in CppSymbols /\ Peek # ";", t)
  /\ UNCHANGED <<levels, settings, classes>>

\* A new reads one token; a template up to the bracket that closes it.
NewToken(t) == /\ In("new") /\ Seen(t) /\ Return
               /\ UNCHANGED <<levels, CppSettings, starts, found>>

Template(t) ==
  /\ In("template")
  /\ CASE t = "<" -> Count(Top.n + 1)
       [] t = ">" /\ Top.n = 1 -> Return
       [] t = ">" /\ Top.n # 1 -> Count(Top.n - 1)
       [] OTHER -> Stay
  /\ UNCHANGED <<levels, CppSettings, starts, found>>

Operator(t) ==
  /\ In("operator") /\ Seen(t)
  /\ CASE t = "{" -> ReturnBefore(t) [] t = ";" -> Return [] OTHER -> Stay
  /\ UNCHANGED <<levels, CppSettings, starts, found>>

\* The first loop of function_definition, which knows a declaration when it sees the
\* semicolon, and reads it.
CppArguments(t) ==
  /\ \/ FunctionArguments(t) /\ ~ (t = ")" /\ Top.n = 1 /\ Peek = ";")
     \/ /\ In("function arguments") /\ t = ")" /\ Top.n = 1 /\ Peek = ";"
        /\ Become(Frame("new"))
        /\ UNCHANGED <<levels, settings, found>>
  /\ UNCHANGED <<inClass, starts>>

\* The second loop.  The name of the class is no definition.
CppDefinition(t) ==
  /\ In("function_definition") /\ t \notin Conditionals /\ Seen(t)
  /\ CASE t = "attribute" -> Call(Frame("process_attribute"))
       [] t = "(" -> Count(Top.n + 1)
       [] t = ")" -> Count(Top.n - 1)
       [] t \in {",", ";"} /\ Top.n = 0 -> Return
       [] t = "{" -> ReturnBefore(t)
       [] t \in {"}", "="} -> Return
       [] OTHER -> Stay
  /\ PutIf(t = "{" /\ (classes = <<>> \/ Last(classes).name # ClassOf(Top.tok)), Top.tok)
  /\ UNCHANGED <<levels, CppSettings, starts>>

CppInit ==
  /\ calls = <<Frame("C_family")>> /\ ahead = None
  /\ level = 0 /\ ifs = <<>> /\ macro = -1 /\ yaccstatus = "programs" /\ inC = TRUE
  /\ text = [part |-> "C", depth |-> 0, externs |-> 0, conds |-> <<>>, open |-> <<>>]
  /\ found = <<>> /\ piece = <<>> /\ rest = <<>>
  /\ classes = <<>> /\ starts = {} /\ classname = 0

Shared(t) ==
  /\ \/ PassOver(t)
     \/ Top.fn \in HasConditionals /\ condition_macro(t)
     \/ RestOfLine(t) \/ MacroName(t) \/ MacroArguments(t) \/ Tag(t) \/ enumerator_list(t)
     \/ Typedef(t) \/ TypedefTag(t) \/ TypedefBody(t) \/ Declarators(t) \/ process_attribute(t)
  /\ UNCHANGED <<inClass, starts>>

CppParse(t) ==
  \/ Shared(t)
  \/ CppSymbol(t) \/ CppOpenBrace(t) \/ CppCloseBrace(t) \/ CppFlag(t) \/ CppKeyword(t) \/ CppAsC(t)
  \/ Using(t) \/ UsingNamespace(t) \/ Namespace(t) \/ CppExtern(t) \/ Class(t)
  \/ NewToken(t) \/ Template(t) \/ Operator(t) \/ CppArguments(t) \/ CppDefinition(t)

CppRead == /\ calls # Dead /\ ~ PieceRead
           /\ CppParse(IF ahead # None THEN ahead ELSE Head(rest))
           /\ rest' = IF ahead # None THEN rest ELSE Tail(rest)
           /\ UNCHANGED <<piece, text>>

CppNext == CppNextPiece \/ CppRead
CppSpec == CppInit /\ [][CppNext]_cppVars

----------------------------------------------------------------------------
Depths == [i \in DOMAIN text.open |-> NumberOf(SubSeq(text.open, 1, i), Counted)]
ClassesOpen == SetToSortSeq({i \in DOMAIN text.open : text.open[i] = "class"}, <)

\* Between two pieces of a C++ or Java text the stack has the classes the text is in,
\* each with the level of its body, wherever functions, conditionals and other classes
\* have begun and ended in between.  Only then a member is told from a call, and a
\* constructor from a function (Cpp, function_definition, java).
ClassesRight ==
  Between /\ "open" \in DOMAIN text =>
    /\ classes = [k \in DOMAIN ClassesOpen |-> [name |-> k, level |-> Depths[ClassesOpen[k]]]]
    /\ "class" \notin starts
=============================================================================
