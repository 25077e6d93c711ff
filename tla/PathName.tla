----------------------------- MODULE PathName -----------------------------
(***************************************************************************)
(* The names of files (libutil/abs2rel.c, pathconvert.c, path.c).  A user  *)
(* who is in some directory names a file as he likes; global makes of it   *)
(* the name under which GPATH knows the file (normalize); it prints names  *)
(* as the user asked for (convert_pathname), with some characters encoded; *)
(* and whoever reads them gives them back, to global or to an update of    *)
(* one file.                                                               *)
(*                                                                         *)
(* A name is a sequence of characters.  Lengths (MAXPATHLEN) and drive     *)
(* letters are left out.                                                   *)
(***************************************************************************)
EXTENDS Integers, Sequences, SequencesExt, FiniteSetsExt, TLC

CONSTANTS Places,     \* [root, cwd]: real directories, as getcwd and realpath name them
          Spellings   \* what a user may give as the name of a file

VARIABLES place, argument,
          encoding,   \* whether set_encode_chars was called, for blanks
          known,      \* what normalize returned: the name in GPATH, or NotFound
          output,    \* what convert_pathname returned
          again,      \* the name the reader has of that for GPATH
          step        \* what was done last

nameVars == <<place, argument, encoding, known, output, again, step>>

NotFound == <<"NULL">>
Here == <<".", "/">>
Up == <<".", ".", "/">>

Behind(s, i) == SubSeq(s, i, Len(s))
isabspath(p) == p # <<>> /\ p[1] = "/"

----------------------------------------------------------------------------
(* normalize_pathname: p is what is left to read, q what is written.       *)

RECURSIVE Leading(_, _), Skip(_, _, _), Rest(_, _, _)

\* "./" and "../" at the head.
Leading(p, q) ==
  CASE IsPrefix(Here, p) -> Leading(Behind(p, 3), q)
    [] IsPrefix(Up, p)   -> Leading(Behind(p, 4), q \o Up)
    [] OTHER             -> [p |-> p, q |-> q]

\* q without its last name, but not less than the first "final" characters.
Chop(q, final) ==
  LET slashes == {i \in final + 1 .. Len(q) : q[i] = "/"}
  IN  SubSeq(q, 1, IF slashes = {} THEN final ELSE Max(slashes) - 1)

\* What stands between two names: any number of "/", "./" and "../".
MUT_Skip_Final(p, q, final) ==   \* a "../" written is taken back by the next one
  CASE p # <<>> /\ p[1] = "/" -> Skip(Tail(p), q, final)
    [] IsPrefix(Here, p)      -> Skip(Behind(p, 3), q, final)
    [] IsPrefix(Up, p)        ->
         IF Len(q) > final THEN Skip(Behind(p, 4), Chop(q, final), final)
         ELSE IF q = <<"/">> THEN Skip(Behind(p, 4), q, final)
         ELSE Skip(Behind(p, 4), q \o Up, final)
    [] OTHER                  -> [p |-> p, q |-> q, final |-> final]
Skip(p, q, final) ==
  CASE p # <<>> /\ p[1] = "/" -> Skip(Tail(p), q, final)
    [] IsPrefix(Here, p)      -> Skip(Behind(p, 3), q, final)
    [] IsPrefix(Up, p)        ->
         IF Len(q) > final THEN Skip(Behind(p, 4), Chop(q, final), final)
         ELSE IF q = <<"/">> THEN Skip(Behind(p, 4), q, final)
         ELSE Skip(Behind(p, 4), q \o Up, Len(q) + 3)
    [] OTHER                  -> [p |-> p, q |-> q, final |-> final]

Rest(p, q, final) ==
  CASE p = <<>>   -> q
    [] p # <<>> /\ p[1] # "/" -> Rest(Tail(p), Append(q, p[1]), final)
    [] OTHER      -> LET s == Skip(Tail(p), q, final)
                     IN  Rest(s.p, IF Len(s.q) > s.final THEN Append(s.q, "/") ELSE s.q, s.final)

normalize_pathname(path) ==
  LET l == IF isabspath(path) THEN Leading(Tail(path), <<"/">>) ELSE Leading(path, <<>>)
  IN  Rest(l.p, l.q, Len(l.q))

----------------------------------------------------------------------------
(* rel2abs and abs2rel.                                                    *)

\* base up to the slash before its last name; bp of the code is its length.
Above(base) ==
  LET slashes == {i \in DOMAIN base : base[i] = "/"}
  IN  IF base = <<>> THEN <<>>
      ELSE SubSeq(base, 1, Max(slashes) - 1)

RECURSIVE Climb(_, _)
\* "../", "./" and a last ".." of pp, applied to the directory bp.
Climb(pp, bp) ==
  CASE IsPrefix(Up, pp)    -> Climb(Behind(pp, 4), Above(bp))
    [] IsPrefix(Here, pp)  -> Climb(Behind(pp, 3), bp)
    [] pp = <<".", ".">>   -> [pp |-> <<>>, bp |-> Above(bp)]
    [] OTHER               -> [pp |-> pp, bp |-> bp]

Unslashed(base) == IF base # <<>> /\ Last(base) = "/" THEN Front(base) ELSE base

rel2abs(path, base) ==
  CASE isabspath(path)           -> path
    [] path = <<".">>            -> IF base = <<"/">> THEN base ELSE Unslashed(base)
    [] path = Here               -> Append(Unslashed(base), "/")
    [] OTHER ->
         LET c == Climb(path, Unslashed(base))
             slash == c.pp # <<>> \/ Last(path) = "/" \/ c.bp = <<>>
         IN  c.bp \o (IF slash THEN <<"/">> ELSE <<>>) \o c.pp

EndsAt(s, i) == i > Len(s) \/ (i = Len(s) /\ s[i] = "/")

abs2rel(path, base) ==
  IF ~isabspath(path) THEN path
  ELSE
    LET n == Len(LongestCommonPrefix({path, base}))
        common == {i \in 1 .. n : path[i] = "/"}
        branch == IF \/ Len(path) = n /\ Len(base) > n /\ base[n + 1] = "/"
                     \/ Len(base) = n /\ Len(path) > n /\ path[n + 1] = "/"
                  THEN n + 1
                  ELSE Max(common)
        ups == {i \in branch .. Len(base) - 1 : base[i] = "/"}
        climb == FlattenSeq([i \in 1 .. Cardinality(ups) |-> Up])
    IN  CASE EndsAt(path, n + 1) /\ EndsAt(base, n + 1) ->
               IF Len(path) > n \/ path[n] = "/" THEN Here ELSE <<".">>
          [] branch <= Len(path) -> climb \o Behind(path, branch + 1)
          [] OTHER               -> Front(climb)

\* normalize: root ends with a slash.
normalize(path, root, cwd) ==
  LET result == normalize_pathname(path)
      abs == IF isabspath(path) THEN result ELSE rel2abs(result, cwd)
  IN  CASE IsPrefix(root, abs)          -> Here \o Behind(abs, Len(root) + 1)
        [] root = Append(abs, "/")      -> Append(Here, "/")
        [] OTHER                        -> NotFound

----------------------------------------------------------------------------
(* What is printed, and read.                                             *)

Code == " " :> <<"2", "0">> @@ "%" :> <<"2", "5">>

Encoded(path) ==
  FlattenSeq([i \in DOMAIN path |->
                IF path[i] \in DOMAIN Code THEN <<"%">> \o Code[path[i]] ELSE <<path[i]>>])
RECURSIVE decode_path(_)
decode_path(path) ==
  CASE path = <<>>    -> <<>>
    [] path # <<>> /\ path[1] # "%" -> <<path[1]>> \o decode_path(Tail(path))
    [] OTHER -> <<CHOOSE c \in DOMAIN Code : Code[c] = SubSeq(path, 2, 3)>>
                  \o decode_path(Behind(path, 4))

WithSlash(root) == Append(Unslashed(root), "/")

convert_pathname(type, path) ==
  LET abs == Unslashed(place.root) \o Tail(path)
      name == CASE type = "through"  -> path
                [] type = "absolute" -> abs
                [] type = "relative" -> abs2rel(abs, place.cwd)
  IN  IF encoding THEN Encoded(name) ELSE name

\* gtags --single-update NAME, in the root.
Regularized(p) ==
  LET root == place.root
  IN  CASE isabspath(p) ->
             IF IsPrefix(Append(root, "/"), p) THEN Here \o Behind(p, Len(root) + 2) ELSE NotFound
        [] ~isabspath(p) -> IF IsPrefix(Here, p) THEN p ELSE Here \o p

----------------------------------------------------------------------------
(* What names mean, apart from how they are written.                       *)

RECURSIVE Parts(_), Resolved(_, _)
Parts(s) ==
  LET slashes == {i \in DOMAIN s : s[i] = "/"}
      first == Min(slashes)
  IN  IF slashes = {} THEN <<s>> ELSE <<SubSeq(s, 1, first - 1)>> \o Parts(Behind(s, first + 1))

\* The names that lead to it from "/".
Resolved(parts, at) ==
  CASE parts = <<>> -> at
    [] parts # <<>> /\ Head(parts) \in {<<>>, <<".">>} -> Resolved(Tail(parts), at)
    [] parts # <<>> /\ Head(parts) = <<".", ".">> ->
         Resolved(Tail(parts), IF at = <<>> THEN at ELSE Front(at))
    [] OTHER -> Resolved(Tail(parts), Append(at, Head(parts)))

Meant(s) ==
  IF isabspath(s) THEN Resolved(Parts(s), <<>>) ELSE Resolved(Parts(place.cwd) \o Parts(s), <<>>)
RootNames == Resolved(Parts(place.root), <<>>)

\* The name of GPATH for a file.
InGpath(names) ==
  <<".">> \o FlattenSeq([i \in 1 .. Len(names) - Len(RootNames) |-> <<"/">> \o names[i + Len(RootNames)]])
BelowRoot(names) == IsStrictPrefix(RootNames, names)
IsName(part) == part \notin {<<>>, <<".">>, <<".", ".">>}
NamesFile == IsName(Last(Parts(argument)))

\* Forms at which the code is wrong: "/.." at the head; and, for gtags --single-update, dots or
\* a second slash behind a name, and "/" as the root.
AboveAll == isabspath(argument) /\ Len(Leading(Tail(argument), <<"/">>).q) > 1
DotsInside ==
  LET parts == IF isabspath(argument) THEN Tail(Parts(argument)) ELSE Parts(argument)
  IN  \E i, j \in DOMAIN parts :
        /\ ~IsName(parts[j])
        /\ isabspath(argument) \/ parts[j] = <<>> \/ (i < j /\ IsName(parts[i]))

----------------------------------------------------------------------------

NameInitOf(places, arguments) ==
  /\ place \in places /\ argument \in arguments /\ encoding \in BOOLEAN
  /\ known = NotFound /\ output = NotFound /\ again = NotFound /\ step = "start"
NameInit == NameInitOf(Places, Spellings)

\* global -f NAME, and every other place where a user names a file.
Name ==
  /\ step = "start"
  /\ known' = normalize(argument, WithSlash(place.root), place.cwd)
  /\ step' = "named"
  /\ UNCHANGED <<place, argument, encoding, output, again>>

\* global -u --single-update=NAME
UpdateSingle ==
  /\ step = "start"
  /\ again' = Regularized(rel2abs(argument, place.cwd))
  /\ step' = "updated"
  /\ UNCHANGED <<place, argument, encoding, known, output>>

\* The file was found in GPATH.
PrintAs(type) ==
  /\ step = "named" /\ NamesFile
  /\ BelowRoot(Meant(argument)) /\ known = InGpath(Meant(argument))
  /\ output' = convert_pathname(type, known)
  /\ step' = type
  /\ UNCHANGED <<place, argument, encoding, known, again>>

GiveBack ==
  /\ step \in {"absolute", "relative"}
  /\ LET name == IF encoding THEN decode_path(output) ELSE output
     IN  again' = normalize(name, WithSlash(place.root), place.cwd)
  /\ step' = "given back"
  /\ UNCHANGED <<place, argument, encoding, known, output>>

NameNext == Name \/ UpdateSingle \/ GiveBack \/ \E t \in {"through", "absolute", "relative"} : PrintAs(t)

NameSpec == NameInit /\ [][NameNext]_nameVars

\* However a user names a file, from whatever directory, he gets the name GPATH has for it, or
\* none if it is outside (normalize); what global prints is accepted as the name of the same
\* file, where it was printed (convert_pathname, decode_path); and an update of one file is of
\* the file that was named (--single-update).
NamesRight ==
  /\ step = "named" /\ NamesFile /\ ~AboveAll /\ Meant(argument) # RootNames =>
       known = IF BelowRoot(Meant(argument)) THEN InGpath(Meant(argument)) ELSE NotFound
  /\ step = "given back" => again = InGpath(Meant(argument))
  /\ step = "updated" /\ NamesFile /\ ~DotsInside /\ place.root # <<"/">> =>
       again = IF BelowRoot(Meant(argument)) THEN InGpath(Meant(argument)) ELSE NotFound
============================================================================
