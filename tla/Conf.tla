------------------------------- MODULE Conf -------------------------------
(***************************************************************************)
(* The settings of a process (libutil/conf.c) and what the langmap among   *)
(* them decides (libutil/langmap.c): which files are source files, for     *)
(* find.c, and which language each is in, for parser.c.                    *)
(*                                                                         *)
(* A configuration file is a sequence of records [labels, fields]; a field *)
(* is an include= or tc= of a label, a value (name=value) or a flag        *)
(* (name).  Comments, continuation lines and blanks (trim) are left out;   *)
(* a langmap is a sequence of tokens: languages, suffixes with their dot,  *)
(* ":" and ",".                                                            *)
(***************************************************************************)
EXTENDS Integers, Sequences, SequencesExt, FiniteSetsExt

CONSTANTS allowed_nest_level,
          ConfFields,       \* what a record may have
          ConfFiles,        \* the configuration files
          GivenConfs,       \* values of GTAGSCONF that are settings themselves
          DEFAULTLANGMAP, DEFAULTSKIP

ASSUME ConfAssumption ==
  /\ allowed_nest_level \in Nat
  /\ \A file \in ConfFiles : file \in Seq([labels : Seq(STRING), fields : Seq(ConfFields)])

VARIABLES config,     \* the records of the file
          pending,    \* what includelabel has still to copy, of each record it is in
          confline,
          conf        \* "closed", "reading", "opened" or "died"

confVars == <<config, pending, confline, conf>>

NoRecord == [labels |-> <<>>, fields |-> <<>>]
Value(name, value) == [kind |-> "value", name |-> name, value |-> value]

\* The first record that has the label.
readrecord(label) ==
  LET hits == {i \in DOMAIN config : Contains(config[i].labels, label)}
  IN  IF hits = {} THEN NoRecord ELSE config[Min(hits)]

\* locatestring(p, ":include=") or, if there is none, of ":tc="; 0: none either.
At(kind, fields) == {i \in DOMAIN fields : fields[i].kind = kind}
NextInclude(fields) ==
  LET kind == IF At("include", fields) # {} THEN "include" ELSE "tc"
  IN  IF At(kind, fields) = {} THEN 0 ELSE Min(At(kind, fields))

\* A record is begun: includelabel, above its loop.
Enter(label, stack) ==
  IF Len(stack) + 1 > allowed_nest_level \/ readrecord(label) = NoRecord
  THEN conf' = "died" /\ pending' = <<>>
  ELSE conf' = "reading" /\ pending' = Append(stack, readrecord(label).fields)

----------------------------------------------------------------------------
(* getconfs and getconfb, of the line l.                                   *)

\* The names whose values are all collected.
Collected == {"langmap", "skip", "gtags_parser"}

Values(l, name) ==
  LET hits == SelectSeq(l, LAMBDA f: f.kind = "value" /\ f.name = name)
  IN  [i \in DOMAIN hits |-> hits[i].value]

MUT_Joined_NoComma(values) == FlattenSeq(values)
Joined(values) ==
  FlattenSeq([i \in DOMAIN values |-> IF i = 1 THEN values[i] ELSE <<",">> \o values[i]])

Exists(l, name) == Values(l, name) # <<>>
getconfs(l, name) ==
  IF name \in Collected THEN Joined(Values(l, name)) ELSE Head(Values(l, name))
getconfb(l, name) == \E i \in DOMAIN l : l[i].kind = "flag" /\ l[i].name = name

\* openconf, below its branches.
WithRequired(l) ==
  l \o (IF Exists(l, "langmap") THEN <<>> ELSE <<Value("langmap", DEFAULTLANGMAP)>>)
    \o (IF Exists(l, "skip") THEN <<>> ELSE <<Value("skip", DEFAULTSKIP)>>)

----------------------------------------------------------------------------

ConfInitOf(files) == config \in files /\ pending = <<>> /\ confline = <<>> /\ conf = "closed"
ConfInit == ConfInitOf(ConfFiles)

\* No file, or GTAGSCONF holds the settings.
OpenGiven(l) ==
  /\ conf = "closed"
  /\ confline' = WithRequired(l) /\ conf' = "opened"
  /\ UNCHANGED <<config, pending>>

\* label: GTAGSLABEL or "default".
OpenFile(label) ==
  /\ conf = "closed"
  /\ Enter(label, <<>>)
  /\ UNCHANGED <<config, confline>>

MUT_Include_NoRest ==
  /\ conf = "reading" /\ pending # <<>> /\ NextInclude(Last(pending)) # 0
  /\ LET p == Last(pending)
         q == NextInclude(p)
     IN  /\ confline' = confline \o SubSeq(p, 1, q - 1)
         /\ Enter(p[q].name, Append(Front(pending), <<>>))
  /\ UNCHANGED config
\* includelabel: what stands before the include is copied, and the record it names begun.
Include ==
  /\ conf = "reading" /\ pending # <<>> /\ NextInclude(Last(pending)) # 0
  /\ LET p == Last(pending)
         q == NextInclude(p)
     IN  /\ confline' = confline \o SubSeq(p, 1, q - 1)
         /\ Enter(p[q].name, Append(Front(pending), SubSeq(p, q + 1, Len(p))))
  /\ UNCHANGED config

\* ... and what is left when there is none.
EndRecordOf ==
  /\ conf = "reading" /\ pending # <<>> /\ NextInclude(Last(pending)) = 0
  /\ confline' = confline \o Last(pending)
  /\ pending' = Front(pending)
  /\ UNCHANGED <<config, conf>>

Opened ==
  /\ conf = "reading" /\ pending = <<>>
  /\ confline' = WithRequired(confline) /\ conf' = "opened"
  /\ UNCHANGED <<config, pending>>

closeconf ==
  /\ conf = "opened"
  /\ confline' = <<>> /\ conf' = "closed"
  /\ UNCHANGED <<config, pending>>

ConfNext ==
  \/ \E l \in GivenConfs : OpenGiven(l)
  \/ OpenFile("default")
  \/ Include \/ EndRecordOf \/ Opened \/ closeconf

ConfSpec == ConfInit /\ [][ConfNext]_confVars

----------------------------------------------------------------------------
(* The langmap: setup_langmap and decide_lang; make_suffixes.              *)

Separators == {":", ","}
Places(map) == {i \in DOMAIN map : map[i] \in Separators}

\* After a language comes ":", after a list ",".
SyntaxOK(map) ==
  LET s == SelectSeq(map, LAMBDA t: t \in Separators)
  IN  /\ Len(s) % 2 = 1
      /\ \A i \in DOMAIN s : s[i] = IF i % 2 = 1 THEN ":" ELSE ","

\* The strings setup_langmap makes of it: languages and lists in turn.
ActiveMap(map) ==
  LET ends == <<0>> \o SelectSeq([i \in 1 .. Len(map) + 1 |-> i],
                                LAMBDA i: i = Len(map) + 1 \/ i \in Places(map))
  IN  [i \in 1 .. Len(ends) - 1 |-> SubSeq(map, ends[i] + 1, ends[i + 1] - 1)]

NoLang == <<"NULL">>
decide_lang(map, suffix, forceCpp) ==
  LET active == ActiveMap(map)
      hits == {i \in DOMAIN active : i % 2 = 0 /\ Contains(active[i], suffix)}
  IN  CASE suffix = ".h" /\ forceCpp -> <<"cpp">>
        [] ~(suffix = ".h" /\ forceCpp) /\ hits = {} -> NoLang
        [] OTHER -> active[Min(hits) - 1]

\* The suffixes that stand where lists do.
make_suffixes(map) ==
  {map[i] : i \in {i \in DOMAIN map \ Places(map) :
                     Cardinality(Places(map) \cap 1 .. i) % 2 = 1}}

\* prepare_source: the suffixes as a regular expression.
LowerOf(suffix) == IF suffix = ".C" THEN ".c" ELSE suffix
SourceSuffix(l, suffix) ==
  IF getconfb(l, "icase_path")
  THEN \E s \in make_suffixes(getconfs(l, "langmap")) : LowerOf(s) = LowerOf(suffix)
  ELSE suffix \in make_suffixes(getconfs(l, "langmap"))

----------------------------------------------------------------------------
(* What a configuration file says.                                         *)

IsInclude(f) == f.kind \in {"include", "tc"}

Labels == {"default"} \cup UNION {{f.name : f \in ToSet(config[i].fields)} : i \in DOMAIN config}

\* The labels that can be read where n more records may be begun: they name a record, and so do
\* its includes.
Readable ==
  LET readable[n \in 0 .. allowed_nest_level] ==
        {label \in Labels :
           /\ n > 0 /\ readrecord(label) # NoRecord
           /\ \A f \in ToSet(readrecord(label).fields) : IsInclude(f) => f.name \in readable[n - 1]}
  IN  readable

\* Fields, each include replaced by the text of the label it names: the first i of them.
Replaced(fields, text) ==
  LET upto[i \in 0 .. Len(fields)] ==
        IF i = 0 THEN <<>>
        ELSE upto[i - 1] \o IF IsInclude(fields[i]) THEN text[fields[i].name] ELSE <<fields[i]>>
  IN  upto

\* What a label stands for there.
Meaning ==
  LET meaning[n \in 0 .. allowed_nest_level] ==
        [label \in Labels |->
           LET fields == readrecord(label).fields
           IN  IF n = 0 THEN <<>> ELSE Replaced(fields, meaning[n - 1])[Len(fields)]]
  IN  meaning

\* A tc= before an include= is passed over by the code, and its text kept.
Mixed == \E i \in DOMAIN config : \E t \in At("tc", config[i].fields) :
           \E j \in At("include", config[i].fields) : t < j

\* A configuration is refused if and only if an include names no record, or is nested too
\* deep or for ever; otherwise a record reads as if every include were replaced by what it names,
\* where it stands: of a value given twice the first counts, of a list all (includelabel, getconfs).
SettingsRight ==
  LET right == "default" \in Readable[allowed_nest_level]
  IN  /\ conf = "died" => ~right
      /\ conf = "reading" /\ pending = <<>> /\ ~Mixed =>
           /\ right
           /\ WithRequired(confline) = WithRequired(Meaning[allowed_nest_level]["default"])

\* A file that find takes for a source file has a parser, whichever records and defaults the
\* langmap was put together from, and a file with a parser is found; its language is that of the first
\* list it is in (prepare_source and parser_init read the same setting, and on their own).
SourcesHaveParsers ==
  conf = "opened" =>
    LET map == getconfs(confline, "langmap")
        values == Values(confline, "langmap")
    IN  /\ SyntaxOK(map) <=> \A i \in DOMAIN values : SyntaxOK(values[i])
        /\ SyntaxOK(map) => \A s \in {".c", ".C", ".h", ".java", ".y"} :
             /\ ~getconfb(confline, "icase_path") =>
                  /\ SourceSuffix(confline, s) <=> decide_lang(map, s, FALSE) # NoLang
                  /\ SourceSuffix(confline, s) => decide_lang(map, s, TRUE) # NoLang
             /\ decide_lang(map, s, FALSE) # NoLang =>
                  LET given == {i \in DOMAIN values : s \in make_suffixes(values[i])}
                  IN  decide_lang(map, s, FALSE) = decide_lang(values[Min(given)], s, FALSE)
=============================================================================
