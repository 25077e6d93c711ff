------------------------------- MODULE Anchor -------------------------------
(***************************************************************************)
(* The links of the pages htags makes of source files: for each kind of    *)
(* tag one stream of anchors comes out of global -f, run over as many      *)
(* files as fit a command line (libutil/xargs.c); the anchors of a file    *)
(* are taken off the streams when its turn comes (htags/anchor.c), and     *)
(* become the links of its lines and tokens (htags/src2html.c).  All       *)
(* streams read the one list of files, each from a place of its own.       *)
(***************************************************************************)
EXTENDS Integers, Sequences, SequencesExt, FiniteSets, FiniteSetsExt

CONSTANTS Projects,   \* sequences of [other, length, anchors: [Dbs -> seq of anchors]]
          Dbs,        \* the kinds of tags
          LastLine,   \* lines of a file
          Limit       \* exec_line_limit, the command itself taken off

VARIABLES files,      \* GPATH, in the order gfind returns
          xp,         \* the streams
          page,       \* the file whose page is made
          line,       \* the line of it, 0: its head, -1: not loaded yet
          table, curp, CURRENTDEF, FIRST, LAST,  \* see anchor.c
          links,      \* what the page links: [line, prev, next, first, last]
          linked,     \* the anchors that have become a link
          asked       \* the anchors whose tokens the lexer has still to come to

anchorVars == <<files, xp, page, line, table, curp, CURRENTDEF, FIRST, LAST, links, linked, asked>>

\* The anchors of a file, [line, tag, type], as global -f prints them.
Records(f, db) == [k \in DOMAIN files[f].anchors[db] |-> [file |-> f, a |-> files[f].anchors[db][k]]]

----------------------------------------------------------------------------
(* xargs.c *)

NewStream == [open |-> TRUE, fptr |-> 1, path |-> 0, pipe |-> <<>>, result |-> <<>>, unread |-> FALSE]

\* The files of a command line, from a file on: those that are no sources are left
\* out, and the first that does not fit is kept in path.  [args, path, at]
RECURSIVE Arguments(_, _, _)
Arguments(args, f, length) ==
  IF f > Len(files) THEN [args |-> args, path |-> 0, at |-> f]
  ELSE IF files[f].other THEN Arguments(args, f + 1, length)
  ELSE IF length + files[f].length + 2 > Limit THEN [args |-> args, path |-> f, at |-> f + 1]
  ELSE Arguments(Append(args, f), f + 1, length + files[f].length + 3)

\* Mutant: the file that did not fit is read from the list again, after it.
MUT_FirstFile_NoPath(s) == s.fptr

\* The next file of a stream: the one that is kept, or that at its place.
FirstFile(s) == IF s.path # 0 THEN s.path ELSE s.fptr

\* execute_command: the output of global -f for the next files.
RECURSIVE Output(_, _)
Output(args, db) == IF args = <<>> THEN <<>> ELSE Records(Head(args), db) \o Output(Tail(args), db)

\* xargs_read: the stream, its result the next record, <<>> at the end.
RECURSIVE NextSegment(_, _)
NextSegment(s, db) ==
  LET c == Arguments(<<>>, FirstFile(s), 0)
      out == Output(c.args, db)
      s1 == [s EXCEPT !.path = c.path, !.fptr = c.at]
  IN IF c.args = <<>> THEN [s1 EXCEPT !.result = <<>>, !.open = FALSE]
     ELSE IF out = <<>> THEN NextSegment(s1, db)
     ELSE [s1 EXCEPT !.result = <<Head(out)>>, !.pipe = Tail(out)]

xargs_read(s, db) ==
  IF s.unread THEN [s EXCEPT !.unread = FALSE]
  ELSE IF s.pipe # <<>> THEN [s EXCEPT !.result = <<Head(s.pipe)>>, !.pipe = Tail(s.pipe)]
  ELSE NextSegment(s, db)

\* The loop of anchor_load over a stream.
RECURSIVE Take(_, _, _)
Take(s, db, taken) ==
  LET r == xargs_read(s, db)
  IN IF ~ s.open THEN [s |-> s, taken |-> taken]
     ELSE IF r.result = <<>> THEN [s |-> r, taken |-> taken]
     ELSE IF r.result[1].file # page THEN [s |-> [r EXCEPT !.unread = TRUE], taken |-> taken]
     ELSE Take(r, db, Append(taken, r.result[1].a))

----------------------------------------------------------------------------
(* anchor.c *)

RECURSIVE Joined(_, _)
Joined(dbs, taken) ==
  IF dbs = {} THEN <<>>
  ELSE LET db == CHOOSE d \in dbs : TRUE IN taken[db].taken \o Joined(dbs \ {db}, taken)

\* qsort by line: two of the orders in which the anchors of one line may come.
Sorted(s) ==
  LET one == SortSeq(s, LAMBDA a, b: a.line < b.line)
  IN {one, SortSeq(Reverse(s), LAMBDA a, b: a.line < b.line)}

DefLines(t) == {t[k].line : k \in {k \in DOMAIN t : t[k].type = "D"}}

anchor_load ==
  /\ line = -1
  /\ \E taken \in {[db \in Dbs |-> Take(xp[db], db, <<>>)]} :
       /\ xp' = [db \in Dbs |-> taken[db].s]
       /\ \E t \in Sorted(Joined(Dbs, taken)) :
            /\ table' = t
            /\ FIRST' = IF DefLines(t) = {} THEN 0 ELSE Min(DefLines(t))
            /\ LAST' = IF DefLines(t) = {} THEN 0 ELSE Max(DefLines(t))
  /\ curp' = 0
  /\ line' = 0
  /\ links' = {} /\ linked' = {} /\ asked' = {}
  /\ UNCHANGED <<files, page, CURRENTDEF>>

\* anchor_get and define_line find the first anchor of a line from curp on, 0: none.
Start == IF curp = 0 THEN 1 ELSE curp
Cluster(n) ==
  LET ks == {k \in Start .. Len(table) : table[k].line >= n}
  IN IF table = <<>> \/ table[Start].line > n \/ ks = {} THEN 0
     ELSE IF table[Min(ks)].line = n THEN Min(ks) ELSE 0
OnLine(n) == {k \in Max({Cluster(n), 1}) .. Len(table) : Cluster(n) # 0 /\ table[k].line = n}
CurpAfter(n) == IF Cluster(n) = 0 THEN curp ELSE Cluster(n)

define_line(n) == \E k \in OnLine(n) : table[k].type = "D"

LineOr0(ks, k) == IF ks = {} THEN 0 ELSE table[k].line
Definitions == {k \in DOMAIN table : table[k].type = "D"}

\* anchor_getlinks: the links are those of the definition of the line that is
\* nearest before CURRENTDEF, which the head of the page has set if it has any.
anchor_getlinks(n) ==
  LET cs == {k \in Definitions : table[k].line = n /\ k <= CURRENTDEF}
      before == {k \in Definitions : k < Max(cs)}
      after == {k \in Definitions : k > Max(cs)}
  IN [line |-> n,
      prev |-> IF cs = {} THEN 0 ELSE LineOr0(before, Max(before)),
      next |-> IF cs = {} THEN 0 ELSE LineOr0(after, Min(after)),
      first |-> IF n = FIRST \/ (n = -1 /\ FIRST = LAST) THEN 0 ELSE FIRST,
      last |-> IF n = LAST \/ (n = 0 /\ FIRST = LAST) THEN 0 ELSE LAST]

----------------------------------------------------------------------------
(* src2html.c *)

IsSource == ~ files[page].other

\* The head of the page, and the index of its definitions (anchor_first,
\* anchor_next).
PageHead ==
  /\ line = 0
  /\ links' = {anchor_getlinks(0)}
  /\ CURRENTDEF' = IF IsSource /\ Definitions # {} THEN Max(Definitions) ELSE CURRENTDEF
  /\ line' = IF IsSource THEN 1 ELSE LastLine + 1
  /\ asked' = IF IsSource THEN {k \in DOMAIN table : table[k].line = 1} ELSE {}
  /\ UNCHANGED <<files, xp, page, table, curp, FIRST, LAST, linked>>

\* put_begin_of_line
BeginOfLine ==
  /\ line \in 1 .. LastLine
  /\ ~ \E l \in links : l.line = line
  /\ define_line(line)
  /\ curp' = CurpAfter(line)
  /\ links' = links \cup {anchor_getlinks(line)}
  /\ UNCHANGED <<files, xp, page, line, table, CURRENTDEF, FIRST, LAST, linked, asked>>

\* A token of the line: it becomes a link if an anchor is left for it.
Token ==
  /\ line \in 1 .. LastLine /\ asked # {}
  /\ define_line(line) => \E l \in links : l.line = line
  /\ LET left == {k \in OnLine(line) \ linked : table[k].tag = table[Min(asked)].tag}
     IN linked' = IF left = {} THEN linked ELSE linked \cup {Min(left)}
  /\ asked' = asked \ {Min(asked)}
  /\ curp' = CurpAfter(line)
  /\ UNCHANGED <<files, xp, page, line, table, CURRENTDEF, FIRST, LAST, links>>

EndOfLine ==
  /\ line \in 1 .. LastLine /\ asked = {}
  /\ define_line(line) => \E l \in links : l.line = line
  /\ line' = line + 1
  /\ asked' = {k \in DOMAIN table : table[k].line = line + 1}
  /\ UNCHANGED <<files, xp, page, table, curp, CURRENTDEF, FIRST, LAST, links, linked>>

\* The foot of the page; anchor_unload if the file is a source.
PageFoot ==
  /\ line = LastLine + 1 /\ page <= Len(files)
  /\ page' = page + 1 /\ line' = IF page = Len(files) THEN LastLine + 1 ELSE -1
  /\ table' = <<>>
  /\ curp' = IF IsSource THEN 0 ELSE curp
  /\ FIRST' = IF IsSource THEN 0 ELSE FIRST
  /\ LAST' = IF IsSource THEN 0 ELSE LAST
  /\ links' = {} /\ linked' = {}
  /\ UNCHANGED <<files, xp, CURRENTDEF, asked>>

AnchorInitOf(projects) ==
  /\ files \in projects
  /\ xp = [db \in Dbs |-> NewStream]
  /\ page = 1 /\ line = -1
  /\ table = <<>> /\ curp = 0 /\ CURRENTDEF = 0 /\ FIRST = 0 /\ LAST = 0
  /\ links = {} /\ linked = {} /\ asked = {}

AnchorInit == AnchorInitOf(Projects)
AnchorNext == anchor_load \/ PageHead \/ BeginOfLine \/ Token \/ EndOfLine \/ PageFoot
AnchorSpec == AnchorInit /\ [][AnchorNext]_anchorVars

----------------------------------------------------------------------------
Times(s, a) == Cardinality({k \in DOMAIN s : s[k] = a})
OfFile == UNION {ToSet(files[page].anchors[db]) : db \in Dbs}
Loaded == /\ ToSet(table) = OfFile
          /\ \A a \in OfFile :
               Times(table, a) = FoldSet(LAMBDA db, n: n + Times(files[page].anchors[db], a), 0, Dbs)

\* A page is made while its file's anchors are there, all of them and no other's,
\* whichever files share a command line or have no anchors.  Its lines link the
\* definitions before and after them, of two on one line to the line itself, and
\* the first and the last; and at its end every anchor has become the link of a
\* token (xargs_read, xargs_unread, anchor_load, anchor_get, anchor_getlinks).
PagesRight ==
  line >= 0 /\ page <= Len(files) =>
    /\ Loaded
    /\ \A l \in links \cup {anchor_getlinks(-1)} :
         LET ks == {k \in Definitions : table[k].line = l.line}
             lines == DefLines(table)
             before == {n \in lines : n < l.line} \cup {n \in {l.line} : Cardinality(ks) > 1}
             after == {n \in lines : n > l.line}
             ends == {l.first, l.last} \ {0}
         IN /\ l.line > 0 => /\ l.prev = IF before = {} THEN 0 ELSE Max(before)
                             /\ l.next = IF after = {} THEN 0 ELSE Min(after)
            /\ ends \subseteq (IF lines = {} THEN {} ELSE {Min(lines), Max(lines)}) \ {l.line}
            /\ lines \ {l.line} # {} => ends # {}
    /\ line = LastLine + 1 /\ IsSource => linked = DOMAIN table
=============================================================================
