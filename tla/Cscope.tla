------------------------------- MODULE Cscope -------------------------------
(***************************************************************************)
(* The screen of gtags-cscope: the references found by a search or read    *)
(* from a file, shown page by page, chosen for the editor and marked for a *)
(* change (gtags-cscope/display.c, command.c, edit.c, and main).           *)
(*                                                                         *)
(* The file of references is read through one position, which display      *)
(* leaves at the next page; nextline says which line that should be.  A    *)
(* reference is the number of rows it takes on the screen.                 *)
(***************************************************************************)
EXTENDS Integers, Sequences, FiniteSetsExt

CONSTANTS Answers,   \* [heights, bad]: references, bad if one of them has not the format
          Screens    \* rows for references a screen may have

\* A line of a reference takes a row; where there is no row dispinit ends the program.
ASSUME CscopeAssumption ==
  /\ \A answer \in Answers : answer.heights \in Seq(Nat \ {0}) /\ answer.bad \in BOOLEAN
  /\ IsFiniteSet(Screens) /\ Screens # {} /\ Screens \subseteq Nat \ {0}

VARIABLES refsfound,             \* what is in the file of references
          position,              \* the line of it to be read next
          totallines, nextline, topline, disprefs, curdispline, mdisprefs,
          selecting, field, mouse,
          changing, change,      \* the lines marked, while changing
          screen,                \* the references on the screen, from above
          doing,                 \* "key", "display", "next page", "resize"
          abandoned              \* history: a change was left with nothing changed, and
                                 \* no page has been sought and shown since

paging == <<totallines, nextline, topline, disprefs>>
cursor == <<curdispline, selecting>>
marks == <<changing, change>>
cscopeVars == <<refsfound, position, paging, cursor, mdisprefs, field, mouse, marks, screen, doing, abandoned>>

FieldKinds == {"symbol", "definition", "change", "file"}
Found == Len(refsfound.heights)
Height(n) == IF field = "file" THEN 1 ELSE refsfound.heights[n]
Rows(from, count) == MapThenSumSet(Height, from .. from + count - 1)

----------------------------------------------------------------------------
(* display                                                                 *)

\* seekline stops at the end of the file, and stays at the first line for 0.
seekline(n) == LET line == Max({1, Min({n, Found + 1})}) IN
  /\ nextline' = line /\ position' = line
  /\ abandoned' = (abandoned /\ doing' = "key")

\* How many references from a line on fit; the first is shown whatever it takes.
PageFrom(from) ==
  Max({0} \cup {n \in 1 .. Min({mdisprefs, Found + 1 - from}) : n = 1 \/ Rows(from, n) <= mdisprefs})

\* A reference that has been begun and does not fit is read again.
GoesBack(from, n) == from + n <= Found /\ n < mdisprefs /\ Rows(from, n) < mdisprefs

\* Mutant: it is not.
MUT_ShowPage_NotBack(first, from) ==
  LET n == PageFrom(from) IN
  /\ topline' = first /\ disprefs' = n
  /\ screen' = [i \in 1 .. n |-> from + i - 1]
  /\ nextline' = first + n + (IF GoesBack(from, n) THEN 1 ELSE 0)
  /\ position' = from + n + (IF GoesBack(from, n) THEN 1 ELSE 0)

ShowPage(first, from) ==
  LET n == PageFrom(from) IN
  /\ topline' = first /\ disprefs' = n
  /\ screen' = [i \in 1 .. n |-> from + i - 1]
  /\ nextline' = first + n
  /\ position' = IF GoesBack(from, n) THEN first + n ELSE from + n

display ==
  /\ doing # "key"
  /\ doing' = IF doing = "resize" THEN "display" ELSE "key"
  /\ IF totallines = 0 THEN screen' = <<>> /\ UNCHANGED <<paging, position>>
     ELSE /\ UNCHANGED totallines
          /\ IF nextline > totallines THEN ShowPage(1, 1) ELSE ShowPage(nextline, position)
  /\ abandoned' = (abandoned /\ nextline <= totallines)
  /\ UNCHANGED <<refsfound, cursor, mdisprefs, field, mouse, marks>>

----------------------------------------------------------------------------
(* The commands.  What follows one is the display, or the next key.        *)

Command == doing = "key" /\ ~ changing
InChange == doing = "key" /\ changing
Redisplay == doing' = "display"
NextKey == doing' = "key"
KeepsRefs == UNCHANGED <<refsfound, mdisprefs, mouse, change, screen>>

\* Mutant: the line pointer is not restored.
MUT_editref_NoRestore(i) ==
  /\ nextline' = Max({1, Min({i + topline, Found + 1})})
  /\ position' = Min({nextline' + 1, Found + 1})
  /\ abandoned' = FALSE

\* editref reads one line and restores the pointer: of the first line on the screen.
editref(i) == seekline(topline)

\* search and readrefs: totallines is 0 if the format is not that of references.
NewRefs(answer) ==
  /\ refsfound' = answer
  /\ totallines' = (IF answer.bad THEN 0 ELSE Len(answer.heights))
  /\ nextline' = 1 /\ position' = (IF answer.bad THEN Len(answer.heights) + 1 ELSE 1)
  /\ disprefs' = 0 /\ abandoned' = FALSE
  /\ UNCHANGED <<mdisprefs, mouse, screen>>

\* A pattern is typed, or one of the last is repeated, in its field.
Search ==
  /\ Command /\ Redisplay
  /\ field' \in FieldKinds /\ (selecting => field' = field)
  /\ \E answer \in Answers :
       /\ NewRefs(answer)
       /\ IF answer.heights = <<>> THEN UNCHANGED cursor
          ELSE selecting' = TRUE /\ curdispline' = 0
       /\ changing' = (answer.heights # <<>> /\ field' = "change")
       /\ topline' = IF answer.heights # <<>> /\ field' \in {"definition", "file"} /\ totallines' <= 1
                     THEN 1 ELSE topline
  /\ change' = {}

\* readrefs of a file, of the output of a filter, and of global; a file that is empty
\* is ignored.
ReadRefs ==
  /\ Command
  /\ \E answer \in Answers, from \in {"<", "^", "global"} :
       /\ from = "^" => totallines # 0
       /\ IF answer.heights = <<>>
          THEN /\ IF from = "^" THEN Redisplay /\ seekline(topline)
                  ELSE NextKey /\ UNCHANGED <<nextline, position, abandoned>>
               /\ UNCHANGED <<refsfound, totallines, disprefs, curdispline, mdisprefs, mouse, screen>>
          ELSE /\ NewRefs(answer) /\ Redisplay
               /\ curdispline' = IF from = "global" THEN 0 ELSE curdispline
  /\ UNCHANGED <<topline, selecting, field, marks>>

Rebuild ==
  /\ Command
  /\ totallines' = 0 /\ disprefs' = 0 /\ topline' = 1 /\ nextline' = 1 /\ selecting' = FALSE
  /\ Redisplay
  /\ KeepsRefs /\ UNCHANGED <<position, curdispline, field, changing, abandoned>>

\* The line under the cursor, a letter, or a line a mouse points at.
Choose ==
  /\ Command /\ Redisplay
  /\ \E i \in -1 .. Max(Screens) :
       /\ \/ selecting /\ i = curdispline
          \/ selecting /\ ~ mouse /\ i >= 0
          \/ mouse /\ i = disprefs - 1
          \/ mouse /\ i \in 0 .. disprefs - 1
       /\ editref(i)
  /\ KeepsRefs /\ UNCHANGED <<totallines, topline, disprefs, cursor, field, changing>>

\* Tab, the arrows, and the fields a mouse points at.
MoveCursor ==
  /\ Command
  /\ \/ disprefs # 0 /\ selecting' = ~ selecting /\ UNCHANGED <<curdispline, field>>
     \/ /\ selecting
        /\ curdispline' \in ({curdispline + 1} \cap 1 .. disprefs - 1)
                            \cup ({curdispline - 1} \cap Nat) \cup {0}
        /\ UNCHANGED <<selecting, field>>
     \/ (selecting => mouse) /\ field' \in FieldKinds /\ UNCHANGED cursor
  /\ NextKey
  /\ KeepsRefs /\ UNCHANGED <<paging, position, changing, abandoned>>

\* '>' copies all lines to a file and shows nothing; '|', '!', '?' and ^E show the page
\* again.
GoThrough ==
  /\ doing = "key"
  /\ \/ ~ changing /\ totallines # 0 /\ NextKey
     \/ ~ changing /\ Redisplay
     \/ changing /\ Redisplay
  /\ seekline(topline)
  /\ KeepsRefs /\ UNCHANGED <<totallines, topline, disprefs, cursor, field, changing>>

----------------------------------------------------------------------------
(* The pages                                                               *)

NextPage ==
  /\ doing = "key" /\ (totallines # 0 \/ changing)
  /\ curdispline' = IF totallines # 0 THEN 0 ELSE curdispline
  /\ doing' = "next page"
  /\ KeepsRefs /\ UNCHANGED <<paging, position, selecting, field, changing, abandoned>>

\* The line to go back to.  nextline has no sign: below 0 is beyond the end.
PreviousLine ==
  LET back == nextline - mdisprefs IN
  IF back \in 2 .. mdisprefs THEN 1
  ELSE IF back = mdisprefs THEN totallines - mdisprefs + 1
  ELSE IF back < mdisprefs THEN Found + 1
  ELSE back - mdisprefs

PreviousPage ==
  /\ doing = "key" /\ (totallines # 0 \/ changing)
  /\ Redisplay
  /\ curdispline' = IF totallines # 0 THEN 0 ELSE curdispline
  /\ IF totallines <= 2 * mdisprefs THEN UNCHANGED <<nextline, position, abandoned>>
     ELSE seekline(PreviousLine)
  /\ KeepsRefs /\ UNCHANGED <<totallines, topline, disprefs, selecting, field, changing>>

\* A scrollbar, which only some terminals have: a page or a line up or down, or a percentage.
ScrollLines ==
  {IF nextline + mdisprefs > totallines
     THEN IF totallines < mdisprefs THEN Found + 1 ELSE totallines - mdisprefs + 1
     ELSE nextline,
   IF topline < mdisprefs THEN Found + 1 ELSE topline - mdisprefs,
   topline + 1,
   IF topline > 1 THEN topline - 1 ELSE nextline}
  \cup {(percent * totallines) \div 100 : percent \in 0 .. 100}

scrollbar ==
  /\ doing = "key" /\ mouse /\ Redisplay
  /\ IF totallines = 0 THEN UNCHANGED <<nextline, position, abandoned>>
     ELSE \E n \in ScrollLines : seekline(n)
  /\ KeepsRefs /\ UNCHANGED <<totallines, topline, disprefs, cursor, field, changing>>

\* command shows the page that comes, and main the one after it.
Resize ==
  /\ Command
  /\ mdisprefs' \in Screens
  /\ doing' = "resize"
  /\ UNCHANGED <<refsfound, mouse, change, screen, paging, position, cursor, field, changing, abandoned>>

----------------------------------------------------------------------------
(* changestring                                                            *)

Toggle(set) == (change \ set) \cup (set \ change)

\* '*' all lines of the page, or the line of a letter, on the screen or not.
mark ==
  /\ InChange
  /\ \/ change' = Toggle(topline .. nextline - 1)
     \/ \E i \in 0 .. Max(Screens) : change' = Toggle({topline + i} \cap 1 .. totallines)
  /\ NextKey
  /\ UNCHANGED <<refsfound, mdisprefs, mouse, screen, paging, position, cursor, field, changing, abandoned>>

MarkAll ==
  /\ InChange
  /\ change' = Toggle(1 .. totallines)
  /\ Redisplay /\ seekline(totallines)
  /\ UNCHANGED <<refsfound, mdisprefs, mouse, screen, totallines, topline, disprefs, cursor, field, changing>>

\* The references are read from the first on.  Where a file is changed the first is
\* sought again behind it; not so where the file of a marked line cannot be written, or
\* no line is marked: nextline is 1, and the file at the line behind that one or at its end.
LeaveChange ==
  /\ InChange
  /\ changing' = FALSE /\ change' = {}
  /\ \/ NextKey /\ UNCHANGED <<nextline, position, abandoned>>    \* ESC
     \/ change # {} /\ Redisplay /\ seekline(1)
     \/ /\ nextline' = 1
        /\ position' \in IF change = {} THEN {Found + 1} ELSE {n + 1 : n \in change}
        /\ abandoned' = TRUE
        /\ NextKey
  /\ UNCHANGED <<refsfound, mdisprefs, mouse, screen, totallines, topline, disprefs, cursor, field>>

----------------------------------------------------------------------------
CscopeInitOf(mice) ==
  /\ refsfound = [heights |-> <<>>, bad |-> FALSE]
  /\ position = 1 /\ totallines = 0 /\ nextline = 0 /\ topline = 1 /\ disprefs = 0
  /\ curdispline = 0 /\ selecting = FALSE /\ field = "symbol"
  /\ mdisprefs = Max(Screens) /\ mouse \in mice
  /\ changing = FALSE /\ change = {}
  /\ screen = <<>> /\ doing = "key" /\ abandoned = FALSE
CscopeInit == CscopeInitOf(BOOLEAN)

CscopeNext ==
  \/ display \/ Search \/ ReadRefs \/ Rebuild \/ Choose \/ MoveCursor \/ GoThrough
  \/ NextPage \/ PreviousPage \/ scrollbar \/ Resize \/ mark \/ MarkAll \/ LeaveChange
CscopeSpec == CscopeInit /\ [][CscopeNext]_cscopeVars

----------------------------------------------------------------------------
\* Whatever was searched, read, edited, marked, written to a file or scrolled, the
\* screen has the references from topline on, at least one if there are any: the line
\* chosen by its letter is then the one that is edited or changed.  Only a change that
\* was left with nothing changed leaves the file read to its end or half
\* (display, editref, mark, seekline).
PageRight ==
  doing = "key" /\ ~ abandoned =>
    /\ screen = [i \in 1 .. disprefs |-> topline + i - 1]
    /\ totallines # 0 => disprefs # 0

\* The next page goes on where this one ends, or from the first line after the last;
\* it is this one again after the lines were written to a file or edited.  No
\* reference is passed over, however many rows each takes (display, command).
NoneSkipped ==
  [][doing = "next page" /\ totallines # 0 /\ ~ abandoned =>
       screen'[1] \in {topline, topline + disprefs}
                      \cup (IF topline + disprefs > totallines THEN {1} ELSE {})]_cscopeVars
=============================================================================
