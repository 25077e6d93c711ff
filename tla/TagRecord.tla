----------------------------- MODULE TagRecord -----------------------------
(***************************************************************************)
(* The text of a tag record: gtags shortens the name and the image of a    *)
(* tag (gtags_put_using and flush_pool of libutil/gtagsop.c over           *)
(* libutil/compress.c) and global takes the record apart again (search of  *)
(* global/global.c).  A text is a sequence of characters.                  *)
(***************************************************************************)
EXTENDS Integers, Sequences, SequencesExt, FiniteSetsExt

CONSTANTS TagSet,        \* what parsers find: [name, image, compact]
          Abbreviations, \* name2ab: a sequence of [c, name]
          MaxLines       \* lines a tag of a compact record is on

VARIABLES tag,        \* the tag
          extract,    \* GTAGS_EXTRACTMETHOD
          key,        \* the key of the record
          record,     \* its text after the file identifier
          tagname,    \* what search takes for the name, uncompressed or not
          times,      \* lines of the record that search has printed
          shown       \* what it printed: [name, line, image]

recordVars == <<tag, extract, key, record, tagname, times, shown>>

Digits == <<"0", "1", "2", "3", "4", "5", "6", "7", "8", "9">>

Blanks(n) == [i \in 1 .. n |-> " "]
From(s, n) == SubSeq(s, n, Len(s))
Number(n) ==
  LET decimal[k \in 0 .. n] ==
        IF k < 10 THEN <<Digits[k + 1]>> ELSE Append(decimal[k \div 10], Digits[(k % 10) + 1])
  IN  decimal[n]

\* The method of a class: what is after the last dot or, if there is none, colons.
Dots(s) == {n \in DOMAIN s : s[n] = "."}
Colons(s) == {n \in 2 .. Len(s) : s[n - 1] = ":" /\ s[n] = ":"}
Method(s) == IF Dots(s) # {} THEN From(s, Max(Dots(s)) + 1)
             ELSE IF Colons(s) # {} THEN From(s, Max(Colons(s)) + 1) ELSE s

\* What parsers find has a name, and a method has one too; an abbreviation is of a letter of its own
\* that means nothing else after "@" ("ddefine ttypedef" is the only table there is).
ASSUME RecordAssumption ==
  /\ \A t \in TagSet : /\ t.name \in Seq(STRING) /\ t.image \in Seq(STRING) /\ t.compact \in BOOLEAN
                       /\ t.name # <<>> /\ Method(t.name) # <<>>
  /\ Abbreviations \in Seq([c : STRING, name : Seq(STRING)])
  /\ \A i \in DOMAIN Abbreviations :
       /\ Abbreviations[i].name # <<>>
       /\ Abbreviations[i].c \notin {"@", "n", "{"} \cup ToSet(Digits)
       /\ \A j \in DOMAIN Abbreviations : Abbreviations[i].c = Abbreviations[j].c => i = j

----------------------------------------------------------------------------
(* compress.c *)

\* Mutant: ten blanks and more are written like fewer.
MUT_RunOf_NoBraces(n) == IF n < 4 THEN Blanks(n) ELSE <<"@">> \o Number(n)

\* A run of blanks.
RunOf(n) == IF n < 4 THEN Blanks(n)
            ELSE IF n < 10 THEN <<"@">> \o Number(n)
            ELSE <<"@", "{">> \o Number(n) \o <<"}">>

\* How many characters of C a text begins with.
RunAt(s, C) == Max({n \in 0 .. Len(s) : \A i \in 1 .. n : s[i] \in C})

\* A text in pieces, one after the other: pieces[n] is what the last n characters begin with,
\* [text, length].
InTurn(last, pieces) ==
  LET rest[n \in 0 .. last] ==
        IF n = 0 THEN <<>>
        ELSE pieces[n].text \o rest[IF pieces[n].length < n THEN n - pieces[n].length ELSE 0]
  IN  rest
LastOf(s, n) == From(s, Len(s) - n + 1)

AbbreviationsOf(s) == {i \in DOMAIN Abbreviations : IsPrefix(Abbreviations[i].name, s)}

Written(s, name) ==
  LET blanks == RunAt(s, {" "})
      ab == Abbreviations[Min(AbbreviationsOf(s))]
  IN  IF s[1] = " " THEN [text |-> RunOf(blanks), length |-> blanks]
      ELSE IF s[1] = "@" THEN [text |-> <<"@", "@">>, length |-> 1]
      ELSE IF IsPrefix(name, s) THEN [text |-> <<"@", "n">>, length |-> Len(name)]
      ELSE IF AbbreviationsOf(s) # {} THEN [text |-> <<"@", ab.c>>, length |-> Len(ab.name)]
      ELSE [text |-> <<s[1]>>, length |-> 1]

compress(s, name) ==
  InTurn(Len(s), [n \in 1 .. Len(s) |-> Written(LastOf(s, n), name)])[Len(s)]

\* The number that s begins with.
Value(c) == CHOOSE d \in 0 .. 9 : Digits[d + 1] = c
DigitsAt(s) == RunAt(s, ToSet(Digits))
NumberAt(s) ==
  LET value[i \in 0 .. DigitsAt(s)] == IF i = 0 THEN 0 ELSE value[i - 1] * 10 + Value(s[i])
  IN  value[DigitsAt(s)]

\* What a letter stands for: the last of the table, nothing if it is not there.
NameOf(c) == LET is == {i \in DOMAIN Abbreviations : Abbreviations[i].c = c}
             IN IF is = {} THEN <<>> ELSE Abbreviations[Max(is)].name

\* What a text begins with stands for.
Read(s, name) ==
  LET c == s[2]
      after == From(s, 3)
  IN  IF s[1] # "@" THEN [text |-> <<s[1]>>, length |-> 1]
      ELSE IF c = "@" THEN [text |-> <<"@">>, length |-> 2]
      ELSE IF c = "n" THEN [text |-> name, length |-> 2]
      ELSE IF c = "{" THEN [text |-> Blanks(NumberAt(after)), length |-> DigitsAt(after) + 3]
      ELSE IF c \in ToSet(Digits) THEN [text |-> Blanks(Value(c)), length |-> 2]
      ELSE [text |-> NameOf(c), length |-> 2]

uncompress(s, name) ==
  InTurn(Len(s), [n \in 1 .. Len(s) |-> Read(LastOf(s, n), name)])[Len(s)]

----------------------------------------------------------------------------
(* gtagsop.c *)

KeyOfTag == IF extract THEN Method(tag.name) ELSE tag.name

LineNumbers == 1 .. MaxLines

\* gtags_put_using, in the standard format, or flush_pool: the numbers of the lines
\* of a compact record are kept apart.
gtags_put ==
  /\ record = <<>>
  /\ key' = KeyOfTag
  /\ record' = compress(tag.name, KeyOfTag) \o <<" ">> \o
               IF tag.compact THEN <<"#">>
               ELSE <<"1", " ">> \o compress(tag.image, KeyOfTag)
  /\ UNCHANGED <<tag, extract, tagname, times, shown>>

----------------------------------------------------------------------------
(* search of global.c *)

Blank(s) == Min({n \in DOMAIN s : s[n] = " "})
Field(s) == SubSeq(s, 1, Blank(s) - 1)
AfterField(s) == From(s, Blank(s) + 1)

Show(name, line, image) ==
  shown' = Append(shown, [name |-> name, line |-> line, image |-> image])

\* A standard record: its name, its number and its image, between single blanks.
ShowStandard ==
  /\ record # <<>> /\ ~ tag.compact /\ times = 0
  /\ times' = 1
  /\ tagname' = uncompress(Field(record), key)
  /\ Show(tagname', NumberAt(AfterField(record)),
          uncompress(AfterField(AfterField(record)), key))
  /\ UNCHANGED <<tag, extract, key, record>>

\* A compact record: the name is uncompressed again for each line, from the second
\* on out of the buffer it is written to.  A "@" in it then stands for something
\* else; what is left of it is not modelled further.
Garbled == <<"?">>
UncompressAgain == IF "@" \in ToSet(tagname) THEN Garbled ELSE tagname

ShowCompact ==
  /\ record # <<>> /\ tag.compact /\ times < MaxLines
  /\ times' = times + 1
  /\ tagname' = IF times = 0 THEN uncompress(Field(record), key) ELSE UncompressAgain
  /\ Show(tagname', times', tag.image)
  /\ UNCHANGED <<tag, extract, key, record>>

RecordInitOf(tags) ==
  /\ tag \in tags /\ extract \in BOOLEAN
  /\ key = <<>> /\ record = <<>> /\ tagname = <<>>
  /\ times = 0 /\ shown = <<>>

RecordInit == RecordInitOf(TagSet)

RecordNext == gtags_put \/ ShowStandard \/ ShowCompact
RecordSpec == RecordInit /\ [][RecordNext]_recordVars

----------------------------------------------------------------------------
\* The name is kept as one field: outside what the key stands for, it has only
\* runs of blanks that are shortened.
OneField == " " \notin ToSet(compress(tag.name, key))

\* What gtags wrote is what global shows: the name, the number and the image of a
\* tag, whatever is in them, its own marks included.  The name of a compact record
\* that has such a mark is right on the first line only (compress, uncompress,
\* gtags_put_using, flush_pool, search).
TagsKept ==
  \A k \in DOMAIN shown :
    OneField => /\ k = 1 \/ "@" \notin ToSet(tag.name) => shown[k].name = tag.name
                /\ shown[k].line = k
                /\ shown[k].image = tag.image
=============================================================================
