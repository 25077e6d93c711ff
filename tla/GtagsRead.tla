----------------------------- MODULE GtagsRead -----------------------------
(***************************************************************************)
(* Reading tags (libutil/gtagsop.c over libutil/dbop.c): what gtags_first  *)
(* and gtags_next return from a tag file, whose records are in the order   *)
(* of their keys, those of one key in any order.  GRTAGS is two virtual    *)
(* files: the tags that GTAGS defines (GRTAGS) and the others (GSYMS).     *)
(***************************************************************************)
EXTENDS Integers, Sequences, SequencesExt

CONSTANTS TagNames,     \* the tags, in a sequence, in the order of strcmp
          Segments,     \* what a tag may have: sequences of [path, line]
          Requests,     \* what programs ask for
          MaxReads      \* bound on the requests of a program

VARIABLES records,      \* the tag file: [key, path, line], the meta record first
          defined,      \* the tags of GTAGS
          vfile,        \* which virtual file is read (gtop->db)
          request,      \* what is asked for
          reader,       \* the state of dbop, and the static variables
          array,         \* what is read and not yet returned
          answer,       \* what was returned
          reads,        \* how many requests there were
          reading       \* the last call returned something

readVars == <<records, defined, vfile, request, reader, array, answer, reads, reading>>

\* mode: whole records, keys (GTOP_KEY) or paths (GTOP_PATH); first: the key or
\* the prefix, <<>> to read all; match: the tags the regular expression accepts.
Request == [mode : {"record", "key", "path"}, first : ToSet(TagNames) \cup {<<>>},
            prefix : BOOLEAN, match : SUBSET ToSet(TagNames), sort : BOOLEAN]

\* A read by a whole key has no regular expression.
ASSUME RequestsAssumption ==
  \A req \in Requests :
    /\ req \in Request
    /\ req.first # <<>> /\ ~ req.prefix => req.match = ToSet(TagNames)

\* last: the record of lastkey and lastdat; name, result: the static variables of
\* is_defined_in_GTAGS.
NewReader == [cursor |-> 0, last |-> 0, unread |-> FALSE, prev |-> <<>>,
              name |-> <<>>, result |-> FALSE]
MetaRecord == [key |-> <<>>, path |-> 0, line |-> 0]
KeyOf(i) == records[i].key
LastKey(r) == KeyOf(r.last)

\* What a read yields: the reader after it and the record, 0: there is none.
Yields(r, i) == [r |-> r, at |-> i]

----------------------------------------------------------------------------
(* dbop.c *)

\* The key is one the read is for.
Within(req, key) == \/ req.first = <<>>
                    \/ req.prefix /\ IsPrefix(req.first, key)
                    \/ ~ req.prefix /\ key = req.first

\* The reader has taken record i.
Took(req, r, i) == [r EXCEPT !.cursor = i, !.last = i,
                             !.prev = IF req.mode = "key" THEN KeyOf(i) ELSE @]

\* dbop_next.  At the end of the file the cursor stays on the last record.
RECURSIVE NextFrom(_, _)
NextFrom(req, r) ==
  LET i  == r.cursor + 1
      r1 == Took(req, r, i)
  IN IF i > Len(records) THEN Yields(r, 0)
     ELSE IF records[i] = MetaRecord \/ (req.mode = "key" /\ r.prev = KeyOf(i))
     THEN NextFrom(req, [r EXCEPT !.cursor = i])
     ELSE IF ~ Within(req, KeyOf(i)) THEN Yields(r1, 0)
     ELSE IF KeyOf(i) \notin req.match THEN NextFrom(req, r1)
     ELSE Yields(r1, i)

dbop_next(req, r) == IF r.unread THEN Yields([r EXCEPT !.unread = FALSE], r.last)
                     ELSE NextFrom(req, r)

dbop_unread(r) == [r EXCEPT !.unread = TRUE]

\* dbop_first: from the first record on, or from the first that is not before the
\* key.
RECURSIVE FirstFrom(_, _, _)
FirstFrom(req, r, i) ==
  LET at == [r EXCEPT !.cursor = i]
  IN IF i > Len(records) THEN Yields(r, 0)
     ELSE IF records[i] = MetaRecord THEN FirstFrom(req, at, i + 1)
     ELSE IF ~ Within(req, KeyOf(i)) THEN Yields(at, 0)
     ELSE IF KeyOf(i) \notin req.match THEN FirstFrom(req, at, i + 1)
     ELSE Yields(Took(req, r, i), i)

Rank(key) == CHOOSE n \in DOMAIN TagNames : TagNames[n] = key
Before(req, i) == records[i] # MetaRecord /\ Rank(KeyOf(i)) < Rank(req.first)
dbop_first(req, r) ==
  FirstFrom(req, r, IF req.first = <<>> THEN 1
                    ELSE 2 + Cardinality({i \in DOMAIN records : Before(req, i)}))

----------------------------------------------------------------------------
(* gtagsop.c *)

\* Mutant: the last answer is taken for that of the next tag too.
MUT_is_defined_in_GTAGS_AnyName(r) ==
  IF r.name # <<>> THEN r
  ELSE [r EXCEPT !.name = LastKey(r), !.result = LastKey(r) \in defined]

\* is_defined_in_GTAGS: one get for each tag; the answer is in result.
is_defined_in_GTAGS(r) ==
  IF r.name = LastKey(r) THEN r
  ELSE [r EXCEPT !.name = LastKey(r), !.result = LastKey(r) \in defined]

\* VIRTUAL_GRTAGS_GSYMS_PROCESSING: from a record read on, the first of the
\* virtual file.
RECURSIVE Virtual(_, _)
Virtual(req, x) ==
  LET r == is_defined_in_GTAGS(x.r)
  IN IF x.at = 0 \/ vfile = "GTAGS" THEN x
     ELSE IF (vfile = "GRTAGS" /\ ~ r.result) \/ (vfile = "GSYMS" /\ r.result)
     THEN Virtual(req, dbop_next(req, r))
     ELSE Yields(r, x.at)

First(req, r) == Virtual(req, dbop_first(req, r))
NextOne(req, r) == Virtual(req, dbop_next(req, r))

\* compare_tags
TagBefore(a, b) == a.path < b.path \/ (a.path = b.path /\ a.line < b.line)

\* segment_read: the records of one tag.
RECURSIVE SegmentFrom(_, _, _, _)
SegmentFrom(req, r, tag, seg) ==
  LET x == NextOne(req, r)
  IN IF x.at = 0 THEN [r |-> x.r, seg |-> seg]
     ELSE IF tag \notin {<<>>, LastKey(x.r)} THEN [r |-> dbop_unread(x.r), seg |-> seg]
     ELSE SegmentFrom(req, x.r, LastKey(x.r), Append(seg, records[x.at]))

segment_read(req, r) ==
  LET s == SegmentFrom(req, r, <<>>, <<>>)
  IN [s EXCEPT !.seg = IF req.sort THEN SortSeq(@, TagBefore) ELSE @]

\* The paths of all records.
RECURSIVE PathsFrom(_, _, _)
PathsFrom(req, x, paths) ==
  IF x.at = 0 THEN [r |-> x.r, paths |-> paths]
  ELSE PathsFrom(req, NextOne(req, x.r), paths \cup {records[x.at].path})

\* In their order, or in that of the hash table they were collected in.
PathArrays(req, paths) ==
  IF req.sort THEN {SetToSortSeq(paths, <)} ELSE SetToSeqs(paths)

One(x) == IF x.at = 0 THEN <<>> ELSE <<KeyOf(x.at)>>

\* A call returns the first of s, if there is one; the reader is r.
Hands(r, s, before) ==
  /\ reader' = r
  /\ reading' = (s # <<>>)
  /\ array' = IF s = <<>> THEN s ELSE Tail(s)
  /\ answer' = IF s = <<>> THEN before ELSE Append(before, Head(s))

\* A program may ask again for keys (completion_tags, -i).
gtags_first(req) ==
  /\ ~ reading /\ reads < MaxReads
  /\ reads > 0 => request.mode = "key" /\ req.mode = "key"
  /\ \/ /\ req.mode = "path"
        /\ \E p \in {PathsFrom(req, First(req, reader), {})} :
             \E s \in PathArrays(req, p.paths) : Hands(p.r, s, <<>>)
     \/ /\ req.mode = "key"
        /\ \E x \in {First(req, reader)} : Hands(x.r, One(x), <<>>)
     \/ /\ req.mode = "record"
        /\ \E x \in {dbop_first(req, reader)} :
             \E s \in {IF x.at = 0 THEN [r |-> x.r, seg |-> <<>>]
                       ELSE segment_read(req, dbop_unread(x.r))} : Hands(s.r, s.seg, <<>>)
  /\ request' = req
  /\ reads' = reads + 1
  /\ UNCHANGED <<records, defined, vfile>>

gtags_next ==
  /\ reading
  /\ \/ /\ request.mode = "path" \/ array # <<>>
        /\ Hands(reader, array, answer)
     \/ /\ request.mode = "key"
        /\ \E x \in {NextOne(request, reader)} : Hands(x.r, One(x), answer)
     \/ /\ request.mode = "record" /\ array = <<>>
        /\ \E s \in {segment_read(request, reader)} : Hands(s.r, s.seg, answer)
  /\ UNCHANGED <<records, defined, vfile, request, reads>>

----------------------------------------------------------------------------
\* A tag file: the records of each tag, one tag after the other.
FileOf(segs) == <<MetaRecord>> \o FlattenSeq([n \in DOMAIN TagNames |->
  [k \in DOMAIN segs[n] |-> [key |-> TagNames[n], path |-> segs[n][k][1],
                             line |-> segs[n][k][2]]]])

GtagsReadInitOf(file, tags, virtual) ==
  /\ records = file /\ defined = tags /\ vfile = virtual
  /\ request = <<>>
  /\ reader = NewReader
  /\ array = <<>> /\ answer = <<>>
  /\ reads = 0
  /\ reading = FALSE

\* What is in GTAGS matters to GRTAGS and GSYMS alone.
GtagsReadInit ==
  \E segs \in [DOMAIN TagNames -> Segments] :
    \/ GtagsReadInitOf(FileOf(segs), ToSet(TagNames), "GTAGS")
    \/ \E tags \in SUBSET ToSet(TagNames), v \in {"GRTAGS", "GSYMS"} :
         GtagsReadInitOf(FileOf(segs), tags, v)

GtagsReadNext == (\E req \in Requests : gtags_first(req)) \/ gtags_next

GtagsReadSpec == GtagsReadInit /\ [][GtagsReadNext]_readVars

----------------------------------------------------------------------------
\* The records that are asked for.
Asked == SelectSeq(records, LAMBDA x: /\ x # MetaRecord
                                      /\ Within(request, x.key) /\ x.key \in request.match
                                      /\ CASE vfile = "GTAGS"  -> TRUE
                                           [] vfile = "GRTAGS" -> x.key \in defined
                                           [] vfile = "GSYMS"  -> x.key \notin defined)

KeyBefore(a, b) == Rank(a.key) < Rank(b.key) \/ (a.key = b.key /\ TagBefore(a, b))
PathsOf(s) == {s[i].path : i \in DOMAIN s}

\* A program that reads to the end has got what it asked for, each once, and in
\* order: the records of a tag by path and line, whatever their order in the file,
\* the keys, or the paths.  Nothing of one request or tag is left to another: the
\* record put back, the name of the last get, the last key (gtags_first, gtags_next,
\* segment_read, is_defined_in_GTAGS, dbop_first, dbop_next, dbop_unread).
AnswerRight ==
  reads > 0 =>
    LET right == CASE request.mode = "record" -> SortSeq(Asked, KeyBefore)
                   [] request.mode = "key" ->
                        SelectSeq(TagNames, LAMBDA t: \E i \in DOMAIN Asked : Asked[i].key = t)
                   [] request.mode = "path" -> SetToSortSeq(PathsOf(Asked), <)
    IN IF request.sort
       THEN IF reading THEN IsPrefix(answer, right) ELSE answer = right
       ELSE ~ reading => /\ Len(answer) = Len(right)
                         /\ ToSet(answer) = ToSet(right)
=============================================================================
