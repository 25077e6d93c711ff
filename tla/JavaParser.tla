----------------------------- MODULE JavaParser -----------------------------
(***************************************************************************)
(* The parser of Java (libparser/java.c): the stack of classes of          *)
(* CppParser without its conditionals, headers and macros.  A name before  *)
(* the bracket of its arguments is a method if it stands in a class and    *)
(* not in an initialiser.  "sym." is a name with a point after it.         *)
(***************************************************************************)
EXTENDS CppParser

CONSTANTS JavaItems,  \* pieces that may stand in a class
          JavaStatements, \* pieces that may stand in a body
          JavaHeads   \* beginnings, [kind, tokens], of classes and bodies in a class

----------------------------------------------------------------------------
JavaNextPiece ==
  /\ PieceRead /\ calls # Dead
  /\ \/ text.open # <<>> /\ \E p \in IF InClass THEN JavaItems ELSE JavaStatements : Go(p, text)
     \/ /\ Len(text.open) < CppDepth
        /\ \E h \in {h \in JavaHeads : InClass \/ h.kind = "class"} :
             Go(h.tokens, TextIn(Append(text.open, h.kind)))
     \/ text.open # <<>> /\ Go(<<"}">>, TextIn(Front(text.open)))
  /\ UNCHANGED <<inClass, starts>>

----------------------------------------------------------------------------
JavaSettings == <<levels, settings, inClass, starts>>
JavaSymbols == CppSymbols \cup {"sym."}

IsMethod(t) ==
  /\ t \in BeforeParen \cup {"ctor("} /\ starts = {}
  /\ level = ClassLevel
  /\ classes = <<>> \/ Last(classes).name # ClassOf(t)

JavaSymbol(t) ==
  /\ In("C_family") /\ t \in JavaSymbols
  /\ IF t = "sym." THEN Call(Frame("path")) ELSE Stay
  /\ PutIf(IsMethod(t), t)
  /\ UNCHANGED JavaSettings

\* The rest of a name with points; a word after the last point is passed over.
JavaPath(t) ==
  /\ In("path") /\ Seen(t)
  /\ IF t = "sym." THEN Stay ELSE Return
  /\ PutIf(t # "sym." /\ IsMethod(t), t)
  /\ UNCHANGED JavaSettings

JavaOpenBrace(t) == CppOpenBrace(t)
JavaCloseBrace(t) == CppCloseBrace(t)

JavaFlag(t) ==
  /\ In("C_family")
  /\ \/ t = "=" /\ starts' = starts \cup {"equal"}
     \/ t = ";" /\ starts' = {}
     \/ t = "throws" /\ starts' = starts \cup {"throw"}
  /\ Stay /\ UNCHANGED <<levels, settings, inClass, found>>

\* class, interface and enum; new and instanceof.
JavaKeyword(t) ==
  /\ In("C_family")
  /\ CASE t \in {"java class", "java new"} -> Call(Frame(t)) [] t = "word" -> Stay [] OTHER -> FALSE
  /\ UNCHANGED <<JavaSettings, found>>

JavaClass(t) ==
  /\ In("java class") /\ Seen(t)
  /\ Return
  /\ classname' = IF t \in JavaSymbols THEN NumberOf(text.open, {"class"}) ELSE classname
  /\ starts' = IF t \in JavaSymbols THEN starts \cup {"class"} ELSE starts
  /\ PutIf(t \in JavaSymbols, t)
  /\ UNCHANGED <<levels, settings, classes>>

JavaNew(t) ==
  /\ In("java new") /\ Seen(t)
  /\ IF t = "sym." THEN Stay ELSE Return
  /\ UNCHANGED <<JavaSettings, found>>

JavaInit == CppInit

JavaParse(t) ==
  \/ PassOver(t) /\ UNCHANGED <<inClass, starts>>
  \/ JavaSymbol(t) \/ JavaPath(t) \/ JavaOpenBrace(t) \/ JavaCloseBrace(t) \/ JavaFlag(t)
  \/ JavaKeyword(t) \/ JavaClass(t) \/ JavaNew(t)

JavaRead == /\ calls # Dead /\ ~ PieceRead
            /\ JavaParse(Head(rest))
            /\ rest' = Tail(rest)
            /\ UNCHANGED <<piece, text>>

JavaNext == JavaNextPiece \/ JavaRead
JavaSpec == JavaInit /\ [][JavaNext]_cppVars
=============================================================================
