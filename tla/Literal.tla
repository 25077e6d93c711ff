------------------------------ MODULE Literal ------------------------------
(***************************************************************************)
(* The literal search of global -g (global/literal.c): an automaton is     *)
(* made of the lines of a pattern (cgotofn, cfail) and a file is run       *)
(* through it byte by byte (literal_search).                               *)
(*                                                                         *)
(* A list of nodes linked by "link" is named by the letters that lead to   *)
(* it, a node of it by the number of the word it came in with; kids[list]  *)
(* is its nodes, linked in the order of their numbers.  out and fail are   *)
(* the same for all nodes of a list, so no word is empty.                  *)
(***************************************************************************)
EXTENDS Integers, Sequences, SequencesExt, FiniteSets, FiniteSetsExt

CONSTANTS Patterns,    \* sequences of words
          Texts,       \* what a file holds
          Options,     \* the options given: subsets of {"i", "V", "path"}
          Folded       \* tolower, of the capitals; the others stay

VARIABLES words, data, options,
          kids, out, fail,                  \* the automaton w
          at,                               \* c: a list and a place in it
          p, linep, ccount, lineno,         \* the place in the text
          where,                            \* "comple", "search", "line", "finish", "die"
          printed                           \* [number, image] of each line printed

literalVars == <<words, data, options, kids, out, fail, at, p, linep, ccount, lineno, where, printed>>

newline == "newline"
lca(x) == Folded[x]
ccomp(x, y) == IF "i" \in options THEN lca(x) = lca(y) ELSE x = y

ASSUME LiteralAssumption ==
  /\ Folded \in [DOMAIN Folded -> DOMAIN Folded]
  /\ \A x \in DOMAIN Folded : Folded[x] = Folded[newline] => x = newline
  /\ \A ws \in Patterns : /\ ws # <<>> /\ ws \in Seq(Seq(DOMAIN Folded \ {newline}))
                          /\ \A i \in DOMAIN ws : ws[i] # <<>>
  /\ \A d \in Texts : d \in Seq(DOMAIN Folded)

----------------------------------------------------------------------------
(* cgotofn and cfail *)

Lists == UNION {Prefixes(words[i]) : i \in DOMAIN words}

\* The words that go through a list; the first of them made it.
Through(list) == {i \in DOMAIN words : IsPrefix(list, words[i])}
Came(list) == Min(Through(list))

\* The letter that node i of a list stands for, and the list it leads to.
To(list, i) == SubSeq(words[i], 1, Len(list) + 1)
Letter(list, i) == words[i][Len(list) + 1]
KidsOf(list) == {i \in Through(list) : Len(words[i]) > Len(list) /\ Came(To(list, i)) = i}

\* The last word is not marked if an earlier one begins with it.
Marked == {words[i] : i \in {i \in DOMAIN words : i < Len(words) \/ Came(words[i]) = i}}

\* Mutant: a list that nobody leads on from fails to the beginning.
MUT_FailLists_NoRoot(failOf, list) ==
  IF Len(list) <= 1 THEN {}
  ELSE {Append(f, Last(list)) : f \in failOf[Front(list)]} \cap Lists

\* The fail link of a list: the list its father's link leads to, or one of a single
\* letter.  The links of the father's link are not tried.
FailLists(failOf, list) ==
  IF Len(list) <= 1 THEN {}
  ELSE LET on == {Append(f, Last(list)) : f \in failOf[Front(list)]} \cap Lists
       IN IF on # {} THEN on ELSE {<<Last(list)>>} \cap Lists

FailLinks == LET failOf[list \in Lists] == FailLists(failOf, list) IN failOf
OutLists == LET o[list \in Lists] == list \in Marked \/ \E f \in FailLinks[list] : o[f]
            IN {list \in Lists : o[list]}

literal_comple ==
  /\ where = "comple"
  /\ where' = IF data = <<>> THEN "die" ELSE "search"    \* mmap(2) of no byte fails
  /\ kids' = [list \in Lists |-> KidsOf(list)]
  /\ fail' = FailLinks
  /\ out' = OutLists
  /\ UNCHANGED <<words, data, options, at, p, linep, ccount, lineno, printed>>

----------------------------------------------------------------------------
(* literal_search *)

Root == [list |-> <<>>, from |-> 1]
Leads(list, from, x) == {i \in kids[list] : i >= from /\ ccomp(Letter(list, i), x)}
Child(list, is) == [list |-> To(list, Min(is)), from |-> 1]

\* If no word begins with x, the last node of the first list stays.
FromRoot(is) == IF is # {} THEN Child(<<>>, is) ELSE [Root EXCEPT !.from = Max(kids[<<>>])]

\* From the node "from" of a list on; fallen: where the first node of each list comes to.
Onward(list, from, x, fallen) ==
  IF Leads(list, from, x) # {} THEN Child(list, Leads(list, from, x))
  ELSE IF fail[list] = {} THEN FromRoot(Leads(<<>>, 1, x))
  ELSE fallen[CHOOSE f \in fail[list] : TRUE]

Fallen(x) == LET fallen[list \in Lists] == Onward(list, 1, x, fallen) IN fallen
nstate(c, x) == Onward(c.list, c.from, x, Fallen(x))

\* The line from linep up to q is done; it is printed, or not.
LineDone(q, print) ==
  LET line == SubSeq(data, linep, q - 1)
      image == IF line # <<>> /\ Last(line) = newline THEN Front(line) ELSE line
  IN /\ printed' = IF print THEN Append(printed, [number |-> lineno, image |-> image]) ELSE printed
     /\ where' = IF print /\ "path" \in options THEN "finish" ELSE "search"
     /\ at' = Root /\ linep' = q /\ lineno' = lineno + 1

automaton == <<words, data, options, kids, out, fail>>

\* The byte at p goes through the automaton; the last byte of a file never does.
Examine ==
  /\ where = "search" /\ ccount > 1
  /\ ccount' = ccount - 1
  /\ \E c \in {nstate(at, data[p])} :
       \/ /\ c.list \in out
          /\ where' = "line" /\ at' = c
          /\ UNCHANGED <<p, linep, lineno, printed>>
       \/ /\ c.list \notin out /\ data[p] # newline
          /\ p' = p + 1 /\ at' = c
          /\ UNCHANGED <<where, linep, lineno, printed>>
       \/ /\ c.list \notin out /\ data[p] = newline
          /\ p' = p + 1
          /\ LineDone(p + 1, "V" \in options)
  /\ UNCHANGED automaton

\* The rest of a line in which a word was found.
RestOfMatch ==
  /\ where = "line"
  /\ p' = p + 1
  /\ ccount' = IF data[p] = newline THEN ccount ELSE ccount - 1
  /\ IF data[p] = newline \/ ccount <= 1 THEN LineDone(p + 1, "V" \notin options)
     ELSE UNCHANGED <<where, at, linep, lineno, printed>>
  /\ UNCHANGED automaton

Finish ==
  /\ where = "search" /\ ccount <= 1
  /\ where' = "finish"
  /\ UNCHANGED <<automaton, at, p, linep, ccount, lineno, printed>>

LiteralInitOf(patterns, texts, opts) ==
  /\ words \in patterns /\ data \in texts /\ options \in opts
  /\ kids = <<>> /\ out = {} /\ fail = <<>>
  /\ at = Root
  /\ p = 1 /\ linep = 1 /\ ccount = Len(data) /\ lineno = 1
  /\ where = "comple" /\ printed = <<>>

LiteralInit == LiteralInitOf(Patterns, Texts, Options)

LiteralNext == literal_comple \/ Examine \/ RestOfMatch \/ Finish
LiteralSpec == LiteralInit /\ [][LiteralNext]_literalVars

----------------------------------------------------------------------------
\* The lines of the text, by the place where they begin.
Newlines == {n \in DOMAIN data : data[n] = newline}
Starts == {1} \cup {n + 1 : n \in Newlines \ {Len(data)}}
LineNumber(s) == Cardinality({n \in Newlines : n < s}) + 1
End(s) == Min({n \in Newlines \cup {Len(data)} : n >= s})
Ended(s) == data[End(s)] = newline
LineAt(s) == SubSeq(data, s, IF Ended(s) THEN End(s) - 1 ELSE End(s))

OccursAt(word, line, n) ==
  /\ n + Len(word) <= Len(line)
  /\ \A k \in DOMAIN word : ccomp(word[k], line[n + k])
HasLiteral(line) == \E i \in DOMAIN words, n \in 0 .. Len(line) : OccursAt(words[i], line, n)

\* What may be printed of a line: of a file that ends in no newline the last byte is not.
Images(s) == {LineAt(s)} \cup (IF Ended(s) THEN {} ELSE {Front(LineAt(s))})

\* The lines to print; of those that -V asks for the last is not looked at to its end.
Selected == {s \in Starts : HasLiteral(LineAt(s)) # ("V" \in options)}
Wanted == IF "V" \in options THEN Selected \ {Max(Starts)} ELSE Selected

\* The links of cfail are those of Aho and Corasick: each to the longest list that
\* ends the list it leads from.
EndsIn(list, l) ==
  /\ Len(l) <= Len(list)
  /\ \A i \in 1 .. Len(l) : l[i] = list[Len(list) - Len(l) + i]
Behind(list) == {l \in Lists : l # <<>> /\ l # list /\ EndsIn(list, l)}
Longest(ls) == {l \in ls : \A k \in ls : Len(k) <= Len(l)}
LinkKept(list) ==
  \E l \in Longest(Behind(list)) :
    Len(l) > 1 => Front(l) \in Longest(Behind(Front(list)))
Direct == /\ \A list \in Lists : Behind(list) = {} \/ LinkKept(list)
          /\ "i" \in options => \A i \in DOMAIN words : \A x \in ToSet(words[i]) : lca(x) = x
          /\ ToSet(words) = Marked

\* Whatever the words, a line printed as one that has a literal has one, and under
\* its number; nothing is printed twice.  And of words whose links need one step
\* only, in a text whose last line is ended, the lines that have one are all
\* printed, of -V all that have none but the last (literal_search, cgotofn, cfail).
LiteralsFound ==
  /\ \A k \in DOMAIN printed :
       /\ \E s \in Starts : /\ printed[k].number = LineNumber(s)
                            /\ printed[k].image \in Images(s)
                            /\ "V" \in options \/ HasLiteral(LineAt(s))
       /\ \A j \in 1 .. k - 1 : printed[j].number < printed[k].number
  /\ where = "finish" /\ Direct /\ Last(data) = newline =>
       IF "path" \in options THEN Len(printed) = IF Wanted = {} THEN 0 ELSE 1
       ELSE {printed[k].number : k \in DOMAIN printed} = {LineNumber(s) : s \in Wanted}

\* The manual: -g prints the lines that match, and --literal says how a pattern is
\* taken (global/manual.in:41,119).
AllFound ==
  where = "finish" /\ options = {} =>
    \A s \in Selected : \E k \in DOMAIN printed : printed[k].number = LineNumber(s)
=============================================================================
