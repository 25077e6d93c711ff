---------------------------- MODULE CompactTags ----------------------------
(***************************************************************************)
(* Tag records in compact format: gtags collects the lines of the tags of  *)
(* a file (gtags_put_using), folds them (flush_pool), and global unfolds   *)
(* them again, fetching the text of each line from the source file as it   *)
(* goes (search), or looks whether a line is among them                    *)
(* (decide_tag_by_context).                                                *)
(*                                                                         *)
(* Files and tags are numbered in the order strcmp gives their names.  A   *)
(* record holds tokens, its text without the file id and the name.         *)
(***************************************************************************)
EXTENDS Integers, Sequences, FiniteSets, FiniteSetsExt

CONSTANTS NFiles,     \* files, parsed one after the other
          NTags,      \* tag names
          MaxLine,    \* the last line of a file when it is parsed
          MaxPuts,    \* bound on the tags found, unless all are one tag in one file
          MaxToks,    \* tokens a record may have before it is put
          Lengths     \* lines a source file may have when it is read; -1: no file

ASSUME CompactTagsAssumption ==
  /\ NFiles \in Nat \ {0} /\ NTags \in Nat /\ MaxLine \in Nat /\ MaxPuts \in Nat
  /\ MaxToks \in Nat /\ Lengths \subseteq Nat \cup {-1}

VARIABLES
  pc,       \* "parse", "flush", "fold", "read", "unfold", "end"
  fid,      \* the file being parsed
  pool,     \* path_hash: how often each line was put under each tag
  todo,     \* entries of path_hash not yet written
  entry, rest, last, cont, rec,   \* the loop of flush_pool over one entry
  records,  \* the tag file
  queue, toks, n_last, n_cont,    \* the loops of search: records and numbers
  curpath, curtag, fp, lineno, last_lineno, src,  \* its place in a source file
  printed, count,
  put,      \* history: what was put
  wanted    \* history: the tags the pattern of the search matches

writer == <<fid, pool, todo, entry, rest, last, cont, rec, records, put>>
source == <<curpath, curtag, fp, lineno, last_lineno, src>>
reader == <<queue, toks, n_last, n_cont, source, printed, count, wanted>>
vars == <<pc, writer, reader>>

Files == 1 .. NFiles
Tags == 1 .. NTags
Lines == 1 .. MaxLine
NoLines == [n \in Lines |-> 0]
Some(bag) == {n \in Lines : bag[n] > 0}
RecToken(op, n) == [op |-> op, n |-> n]
NoText == <<0, 0>>

----------------------------------------------------------------------------
\* A parser finds a tag.  The order of the lines is lost in the sort of
\* flush_pool, their number is not.
gtags_put_using(t, n) ==
  /\ pc = "parse"
  /\ Cardinality(put) < MaxPuts \/ \A p \in put : p.tag = t /\ p.file = fid
  /\ pool[t][n] < 2
  /\ pool' = [pool EXCEPT ![t][n] = @ + 1]
  /\ put' = put \cup {[file |-> fid, tag |-> t, n |-> n]}
  /\ UNCHANGED <<pc, fid, todo, entry, rest, last, cont, rec, records, reader>>

gtags_flush ==
  /\ pc = "parse"
  /\ pc' = "flush"
  /\ todo' = {t \in Tags : Some(pool[t]) # {}}
  /\ UNCHANGED <<fid, pool, entry, rest, last, cont, rec, records, put, reader>>

\* flush_pool takes an entry, in the order of the hash, and sorts its lines.
NextEntry(t) ==
  /\ pc = "flush"
  /\ t \in todo
  /\ pc' = "fold"
  /\ todo' = todo \ {t}
  /\ entry' = t /\ rest' = pool[t] /\ rec' = <<>>
  /\ last' = 0 /\ cont' = 0
  /\ UNCHANGED <<fid, pool, records, put, reader>>

\* dbop_put of what is in the buffer.
Put(toksOfRec) ==
  records' = records \cup {[tag |-> entry, file |-> fid, toks |-> toksOfRec]}

\* A range that ends at last.
WithRange == IF cont > 0 THEN Append(rec, RecToken("dash", last - cont)) ELSE rec

\* A line that follows no other.
Separate(n) ==
  IF rec = <<>> THEN <<RecToken("head", n)>>
  ELSE Append(WithRange, RecToken("comma", n - last))

\* Mutant: a range may begin where the buffer is empty.
MUT_FoldNext_HeadRange(n) ==
  /\ cont' = IF cont = 0 THEN last ELSE cont
  /\ UNCHANGED <<rec, records>>

\* A line that follows the last one: a range goes on or begins, but not at the
\* head of a record.
FoldNext(n) ==
  /\ IF cont = 0 /\ rec = <<>>
       THEN rec' = <<RecToken("head", n)>> /\ UNCHANGED cont
       ELSE cont' = (IF cont = 0 THEN last ELSE cont) /\ UNCHANGED rec
  /\ UNCHANGED records

\* Another: the buffer is put when it is long.
FoldSeparate(n) ==
  /\ cont' = 0
  /\ IF Len(Separate(n)) > MaxToks THEN Put(Separate(n)) /\ rec' = <<>>
                                    ELSE rec' = Separate(n) /\ UNCHANGED records

Fold ==
  /\ pc = "fold"
  /\ Some(rest) # {}
  /\ LET n == Min(Some(rest))
     IN  /\ rest' = [rest EXCEPT ![n] = @ - 1]
         /\ IF n = last THEN UNCHANGED <<cont, rec, records>>
            ELSE IF last > 0 /\ n = last + 1 THEN FoldNext(n) ELSE FoldSeparate(n)
         /\ last' = n
  /\ UNCHANGED <<pc, fid, pool, todo, entry, put, reader>>

EndEntry ==
  /\ pc = "fold"
  /\ Some(rest) = {}
  /\ pc' = "flush"
  /\ IF WithRange # <<>> THEN Put(WithRange) ELSE UNCHANGED records
  /\ entry' = 0 /\ rec' = <<>> /\ last' = 0 /\ cont' = 0
  /\ UNCHANGED <<fid, pool, todo, rest, put, reader>>

\* strhash_reset, then the next file.
EndFlush ==
  /\ pc = "flush" /\ todo = {}
  /\ IF fid = NFiles THEN pc' = "read" /\ fid' = fid ELSE pc' = "parse" /\ fid' = fid + 1
  /\ pool' = [t \in Tags |-> NoLines]
  /\ rest' = NoLines
  /\ UNCHANGED <<todo, entry, last, cont, rec, records, put, reader>>

----------------------------------------------------------------------------
\* The records of a tag are a segment; segment_read sorts it by file and line.
\* queue has what is not yet read of them.
Before(r, s) ==
  \/ r.tag < s.tag
  \/ r.tag = s.tag /\ r.file < s.file
  \/ r.tag = s.tag /\ r.file = s.file /\ r.toks[1].n < s.toks[1].n

gtags_first(Q) ==
  /\ pc = "read" /\ wanted = {}
  /\ wanted' = Q
  /\ queue' = {r \in records : r.tag \in Q}
  /\ UNCHANGED <<pc, writer, toks, n_last, n_cont, source, printed, count>>

\* Mutant: the source file is not read again for another tag.
MUT_Reopen_NoRewind(r) ==
  IF r.file # curpath
  THEN /\ curpath' = r.file /\ curtag' = r.tag
       /\ fp' \in Lengths
       /\ lineno' = 0 /\ last_lineno' = 0
  ELSE /\ curtag' = r.tag /\ last_lineno' = (IF r.tag # curtag THEN 0 ELSE last_lineno)
       /\ UNCHANGED <<curpath, fp, lineno>>

\* Reopen or rewind the source file.
Reopen(r) ==
  IF r.file # curpath
  THEN /\ curpath' = r.file /\ curtag' = r.tag
       /\ fp' \in Lengths
       /\ lineno' = 0 /\ last_lineno' = 0
  ELSE IF r.tag # curtag
  THEN /\ curtag' = r.tag
       /\ lineno' = IF r.toks[1].n < last_lineno /\ fp # -1 THEN 0 ELSE lineno
       /\ last_lineno' = 0
       /\ UNCHANGED <<curpath, fp>>
  ELSE UNCHANGED <<curpath, curtag, fp, lineno, last_lineno>>

NextRecord(r) ==
  /\ pc = "read" /\ r \in queue
  /\ \A s \in queue : ~ Before(s, r)
  /\ pc' = "unfold"
  /\ queue' = queue \ {r}
  /\ toks' = r.toks
  /\ n_last' = 0 /\ n_cont' = 0
  /\ Reopen(r)
  /\ UNCHANGED <<writer, src, printed, count, wanted>>

\* strbuf_fgets up to line n, unless the file ends before.
Fetch(n) ==
  IF last_lineno # n /\ fp # -1 /\ lineno < n
  THEN IF n <= fp THEN lineno' = n /\ src' = <<curpath, n>> /\ UNCHANGED fp
                  ELSE lineno' = fp /\ src' = NoText /\ fp' = -1
  ELSE UNCHANGED <<lineno, src, fp>>

\* convert_put_using
PrintTag(n) ==
  /\ Fetch(n)
  /\ printed' = printed \cup {[tag |-> curtag, file |-> curpath, n |-> n, src |-> src']}
  /\ count' = count + 1
  /\ last_lineno' = n /\ n_last' = n
  /\ UNCHANGED <<curpath, curtag>>

\* Mutant: a range ends one line early.
MUT_UnfoldRange_Short ==
  /\ n_cont > 0
  /\ IF n_last + 1 >= n_cont
       THEN n_cont' = 0 /\ UNCHANGED <<source, printed, count, n_last>>
       ELSE PrintTag(n_last + 1) /\ UNCHANGED n_cont
  /\ UNCHANGED toks

\* The next line of a range.
UnfoldRange ==
  /\ n_cont > 0
  /\ IF n_last + 1 > n_cont
       THEN n_cont' = 0 /\ UNCHANGED <<source, printed, count, n_last>>
       ELSE PrintTag(n_last + 1) /\ UNCHANGED n_cont
  /\ UNCHANGED toks

\* The next number of the record.
UnfoldToken ==
  /\ n_cont = 0 /\ toks # <<>>
  /\ toks' = Tail(toks)
  /\ LET t == Head(toks)
     IN  /\ PrintTag(IF t.op = "head" THEN t.n
                  ELSE IF t.op = "dash" THEN n_last + 1 ELSE n_last + t.n)
         /\ n_cont' = IF t.op = "dash" THEN n_last + t.n ELSE 0

Unfold ==
  /\ pc = "unfold"
  /\ UnfoldRange \/ UnfoldToken
  /\ UNCHANGED <<pc, writer, queue, wanted>>

EndRecord ==
  /\ pc = "unfold" /\ n_cont = 0 /\ toks = <<>>
  /\ pc' = "read"
  /\ UNCHANGED <<writer, reader>>

EndSearch ==
  /\ pc = "read" /\ wanted # {} /\ queue = {}
  /\ pc' = "end"
  /\ UNCHANGED <<writer, reader>>

----------------------------------------------------------------------------
\* The line each token of a record leads to.
LineReached(toksOfRec) ==
  LET at[i \in 0 .. Len(toksOfRec)] == IF i = 0 THEN 0 ELSE at[i - 1] + toksOfRec[i].n
  IN  at

\* Whether a record of the tag in the file covers line l.
Mentions(r, l) ==
  \E i \in DOMAIN r.toks :
    \/ l = LineReached(r.toks)[i]
    \/ r.toks[i].op = "dash" /\ LineReached(r.toks)[i - 1] <= l /\ l <= LineReached(r.toks)[i]

\* At a definition of the tag its references are searched, else its definitions,
\* or, if it has none, other symbols.
decide_tag_by_context(t, f, l) ==
  IF \E r \in records : r.tag = t /\ r.file = f /\ Mentions(r, l) THEN "GRTAGS"
  ELSE IF \E r \in records : r.tag = t THEN "GTAGS" ELSE "GSYMS"

----------------------------------------------------------------------------
Init ==
  /\ pc = "parse" /\ fid = 1
  /\ pool = [t \in Tags |-> NoLines]
  /\ todo = {} /\ entry = 0 /\ rest = NoLines /\ last = 0 /\ cont = 0 /\ rec = <<>>
  /\ records = {} /\ put = {}
  /\ queue = {} /\ toks = <<>> /\ n_last = 0 /\ n_cont = 0
  /\ curpath = 0 /\ curtag = 0 /\ fp = -1 /\ lineno = 0 /\ last_lineno = 0
  /\ src = NoText /\ printed = {} /\ count = 0 /\ wanted = {}

Next ==
  \/ \E t \in Tags, n \in Lines : gtags_put_using(t, n)
  \/ gtags_flush
  \/ \E t \in Tags : NextEntry(t)
  \/ Fold \/ EndEntry \/ EndFlush
  \/ \E Q \in SUBSET Tags \ {{}} : gtags_first(Q)
  \/ \E r \in queue : NextRecord(r)
  \/ Unfold \/ EndRecord \/ EndSearch

Spec == Init /\ [][Next]_vars
----------------------------------------------------------------------------
Tokens == [op: {"head", "comma", "dash"}, n: Lines]

TypeOK ==
  /\ pc \in {"parse", "flush", "fold", "read", "unfold", "end"}
  /\ fid \in Files /\ pool \in [Tags -> [Lines -> 0 .. 2]] /\ rest \in [Lines -> 0 .. 2]
  /\ todo \subseteq Tags /\ entry \in 0 .. NTags
  /\ last \in 0 .. MaxLine /\ cont \in 0 .. MaxLine /\ rec \in Seq(Tokens)
  /\ \A r \in records : r.tag \in Tags /\ r.file \in Files /\ r.toks \in Seq(Tokens)
  /\ toks \in Seq(Tokens) /\ n_last \in 0 .. MaxLine /\ n_cont \in 0 .. MaxLine
  /\ curpath \in 0 .. NFiles /\ curtag \in 0 .. NTags /\ fp \in Lengths \cup {-1}
  /\ lineno \in 0 .. MaxLine /\ last_lineno \in 0 .. MaxLine
  /\ count \in Nat /\ wanted \subseteq Tags

\* What is folded is found again, whatever the mixture of ranges, differences,
\* repetitions and split records, and nothing else: decide_tag_by_context takes a
\* line for a definition of the tag exactly if it was put as one, and a tag for a
\* symbol exactly if it was never put.
Decides ==
  pc = "read" =>
    \A t \in Tags, f \in Files, l \in Lines :
      LET defs == {p \in put : p.tag = t}
      IN  decide_tag_by_context(t, f, l) =
            IF [file |-> f, tag |-> t, n |-> l] \in defs THEN "GRTAGS"
            ELSE IF defs # {} THEN "GTAGS" ELSE "GSYMS"

\* A search prints every tag it looks for, once, and no other.
PrintedOnce ==
  pc = "end" =>
    /\ {[file |-> x.file, tag |-> x.tag, n |-> x.n] : x \in printed}
         = {p \in put : p.tag \in wanted}
    /\ count = Cardinality({p \in put : p.tag \in wanted})

\* A line is printed with its own text, or with none when the file has turned
\* out to be too short, never with the text of another line or file.
ImagesRight ==
  \A x \in printed :
    \/ x.src = <<x.file, x.n>>
    \/ x.src = NoText /\ \E y \in printed : y.file = x.file /\ y.n > Min(Lengths)
=============================================================================
