----------------------------- MODULE HtagsIndex -----------------------------
(***************************************************************************)
(* The indexes htags makes before the pages of the source files: the lists *)
(* of tags that are in several places and the cache of where a tag leads   *)
(* (htags/dupindex.c, cache.c), the definitions by their first letter      *)
(* (defineindex.c), the files by directory and the include files           *)
(* (fileindex.c, incop.c, path2url.c).                                     *)
(*                                                                         *)
(* A page is known by its directory and its number, and is what it lists.  *)
(* A page that is opened again loses what it had.                          *)
(***************************************************************************)
EXTENDS Integers, Sequences, SequencesExt, FiniteSets, FiniteSetsExt, TLC

CONSTANTS Databases,  \* what global prints: [GTAGS, GRTAGS -> records], in the order of keys
          Letter,     \* the first letter of a key
          GPATHs,     \* sequences of [path, id], in the order gfind_read returns them
          Includes,   \* sequences of [last, line]: the lines that include a file
          IncludeNames \* last names of the files that may be included

VARIABLES database, gpath, includes,
          where,      \* "dup", "define", "files", "include", "html", "die"
          db, input, prev, first_line, tag_count, entry_count, writing,  \* makedupindex
          cache, pages,
          alpha, alpha_count, defines,                               \* makedefineindex
          gfind, retry, dirs, basedir, src_count, fids, file_list,   \* makefileindex
          incs                                                       \* incop.c

dup == <<db, input, prev, first_line, tag_count, entry_count, writing>>
define == <<alpha, alpha_count, defines>>
file == <<gfind, retry, dirs, basedir, src_count, fids, file_list>>
htagsVars == <<database, gpath, includes, where, dup, cache, pages, define, file, incs>>

NONE == <<>>
Open(dir, id, list) == (<<dir, id>> :> list) @@ pages
\* A page as a browser gets it.
Page(dir, id) == IF <<dir, id>> \in DOMAIN pages THEN pages[<<dir, id>>] ELSE <<>>
PutIn(dir, id, item) == [pages EXCEPT ![<<dir, id>>] = Append(@, item)]

----------------------------------------------------------------------------
(* makedupindex *)

NextDb(d) == IF d = "GTAGS" THEN "GRTAGS" ELSE "GSYMS"

\* cache_put for the tag that is done: the page of its list, or its only place.
WithTag(page) ==
  LET line == IF writing THEN [page |-> page, n |-> entry_count] ELSE [at |-> first_line]
  IN IF writing \/ first_line # NONE THEN [cache EXCEPT ![db] = (prev :> line) @@ @] ELSE cache

\* Mutant: the page is counted by the tag that comes.
MUT_CloseTag_Count == WithTag(tag_count + 1)

\* The page of the tag before was opened when count was its number.
CloseTag == WithTag(tag_count)

NewTag ==
  /\ where = "dup" /\ input # <<>> /\ Head(input).name # prev
  /\ cache' = CloseTag
  /\ tag_count' = tag_count + 1
  /\ first_line' = Head(input) /\ prev' = Head(input).name
  /\ entry_count' = 0 /\ writing' = FALSE
  /\ input' = Tail(input)
  /\ UNCHANGED <<database, gpath, includes, where, db, pages, define, file, incs>>

Duplicate ==
  /\ where = "dup" /\ input # <<>> /\ Head(input).name = prev
  /\ pages' = IF first_line # NONE THEN Open(db, tag_count, <<first_line, Head(input)>>)
              ELSE PutIn(db, tag_count, Head(input))
  /\ entry_count' = entry_count + (IF first_line # NONE THEN 2 ELSE 1)
  /\ writing' = TRUE /\ first_line' = NONE
  /\ input' = Tail(input)
  /\ UNCHANGED <<database, gpath, includes, where, db, prev, tag_count, cache, define, file, incs>>

\* The keys of GTAGS, as global -c prints them.
Keys == LET keys == [i \in DOMAIN database.GTAGS |-> database.GTAGS[i].key]
            new(i) == i = 1 \/ keys[i] # keys[i - 1]
        IN [j \in 1 .. Cardinality({i \in DOMAIN keys : new(i)}) |->
              keys[CHOOSE i \in DOMAIN keys : new(i) /\ Cardinality({k \in 1 .. i : new(k)}) = j]]

EndOfTags ==
  /\ where = "dup" /\ input = <<>>
  /\ cache' = WithTag(tag_count)
  /\ db' = NextDb(db)
  /\ prev' = "" /\ first_line' = NONE /\ tag_count' = 0 /\ entry_count' = 0 /\ writing' = FALSE
  /\ IF db = "GTAGS" THEN where' = "dup" /\ input' = database.GRTAGS
     ELSE where' = "define" /\ input' = Keys
  /\ UNCHANGED <<database, gpath, includes, pages, define, file, incs>>

----------------------------------------------------------------------------
(* makedefineindex with the option -a *)

NewLetter(tag) == alpha = "" \/ Letter[tag] # alpha

DefineTag ==
  /\ where = "define" /\ input # <<>>
  /\ \E tag \in {Head(input)} :
       IF tag \notin DOMAIN cache.GTAGS
       THEN where' = "die" /\ UNCHANGED <<define, pages>>
       ELSE /\ alpha' = Letter[tag]
            /\ alpha_count' = 1 + (IF NewLetter(tag) THEN 0 ELSE alpha_count)
            /\ defines' = IF alpha # "" /\ NewLetter(tag)
                          THEN Append(defines, [alpha |-> alpha, count |-> alpha_count]) ELSE defines
            /\ pages' = IF NewLetter(tag) THEN Open("defines", Letter[tag], <<tag>>)
                        ELSE PutIn("defines", Letter[tag], tag)
            /\ UNCHANGED where
  /\ input' = Tail(input)
  /\ UNCHANGED <<database, gpath, includes, db, prev, first_line, tag_count, entry_count, writing, cache, file, incs>>

EndOfDefines ==
  /\ where = "define" /\ input = <<>>
  /\ where' = "files"
  /\ defines' = IF alpha = "" THEN defines ELSE Append(defines, [alpha |-> alpha, count |-> alpha_count])
  /\ UNCHANGED <<database, gpath, includes, dup, cache, pages, alpha, alpha_count, file, incs>>

----------------------------------------------------------------------------
(* makefileindex *)

\* path2fid, which gives a path its number when it is first asked.
Numbered(path) == IF path \in DOMAIN fids THEN fids
                  ELSE (path :> Max({0} \cup {fids[p] : p \in DOMAIN fids}) + 1) @@ fids

\* getpath: gfind_read at its end returns nothing again and again.
Reading == gfind + (IF retry THEN 0 ELSE 1)
AtEnd == Reading > Len(gpath)
Path == gpath[Reading].path
Inside == ~ AtEnd /\ IsStrictPrefix(basedir, Path)
Local == SubSeq(Path, Len(basedir) + 1, Len(Path))
Level == Len(dirs) - 1

\* What is printed in the list of a directory, that of the top to a string.
PutFile(level, dir, item) ==
  IF level = 0 THEN file_list' = Append(file_list, item) /\ UNCHANGED pages
  ELSE pages' = PutIn("files", fids[dir], item) /\ UNCHANGED file_list

\* A path below a directory below: the path is pushed back and the directory done.
EnterDirectory ==
  /\ where = "files" /\ Inside /\ Len(Local) > 1
  /\ basedir' = Append(basedir, Local[1])
  /\ gfind' = Reading /\ retry' = TRUE
  /\ dirs' = Append(dirs, 0)
  /\ fids' = Numbered(basedir')
  /\ pages' = Open("files", fids'[basedir'], <<>>)
  /\ UNCHANGED <<database, gpath, includes, where, dup, cache, define, src_count, file_list, incs>>

\* put_inc
WithInclude(path) ==
  LET name == Last(path)
      old == IF name \in DOMAIN incs THEN incs[name]
             ELSE [id |-> src_count', contents |-> <<>>, refs |-> <<>>]
  IN IF name \notin IncludeNames THEN incs
     ELSE (name :> [old EXCEPT !.contents = Append(@, path)]) @@ incs

PrintFile ==
  /\ where = "files" /\ Inside /\ Len(Local) = 1
  /\ gfind' = Reading /\ retry' = FALSE
  /\ src_count' = src_count + 1
  /\ incs' = WithInclude(Path)
  /\ dirs' = [dirs EXCEPT ![Len(dirs)] = @ + 1]
  /\ PutFile(Level, basedir, [fid |-> fids[Path]])
  /\ UNCHANGED <<database, gpath, includes, where, dup, cache, define, basedir, fids>>

\* The end of a directory: its name goes into the list of the one above.
LeaveDirectory ==
  /\ where = "files" /\ ~ Inside /\ Level > 0
  /\ gfind' = (IF AtEnd THEN gfind ELSE Reading) /\ retry' = ~ AtEnd
  /\ dirs' = [Front(dirs) EXCEPT ![Len(dirs) - 1] = @ + Last(dirs)]
  /\ basedir' = Front(basedir)
  /\ PutFile(Level - 1, Front(basedir), [dir |-> fids[basedir], n |-> Last(dirs)])
  /\ UNCHANGED <<database, gpath, includes, where, dup, cache, define, src_count, fids, incs>>

EndOfFiles ==
  /\ where = "files" /\ ~ Inside /\ Level = 0
  /\ where' = "include"
  /\ input' = includes
  /\ UNCHANGED <<database, gpath, includes, db, prev, first_line, tag_count, entry_count, writing,
                 cache, pages, define, file, incs>>

----------------------------------------------------------------------------
(* makeincludeindex *)

\* put_included
IncludeLine ==
  /\ where = "include" /\ input # <<>>
  /\ input' = Tail(input)
  /\ \E i \in {Head(input)} :
       incs' = IF i.last \in DOMAIN incs
               THEN [incs EXCEPT ![i.last].refs = Append(@, i.line)] ELSE incs
  /\ UNCHANGED <<database, gpath, includes, where, db, prev, first_line, tag_count, entry_count, writing,
                 cache, pages, define, file>>

Several(dir, field) ==
  LET names == {name \in DOMAIN incs : Len(incs[name][field]) > 1}
      named(id) == CHOOSE name \in names : incs[name].id = id
  IN [p \in {<<dir, incs[name].id>> : name \in names} |-> incs[named(p[2])][field]]

WriteIncludes ==
  /\ where = "include" /\ input = <<>>
  /\ where' = "html"
  /\ pages' = Several("I", "contents") @@ Several("J", "refs") @@ pages
  /\ UNCHANGED <<database, gpath, includes, dup, cache, define, file, incs>>

----------------------------------------------------------------------------
(* The links of the pages *)

\* put_anchor: what a tag leads to, <<>> if it is no link.
put_anchor(d, name) ==
  IF name \notin DOMAIN cache[d] THEN <<>>
  ELSE IF "page" \in DOMAIN cache[d][name] THEN Page(d, cache[d][name].page)
  ELSE <<cache[d][name].at>>

\* put_include_anchor, and src2html of get_included.
OneOr(dir, name, field) ==
  IF name \notin DOMAIN incs THEN <<>>
  ELSE IF Len(incs[name][field]) > 1 THEN Page(dir, incs[name].id)
  ELSE incs[name][field]
put_include_anchor(name) == OneOr("I", name, "contents")
get_included(name) == OneOr("J", name, "refs")

HtagsInitOf(databases, gpaths, lines) ==
  /\ database \in databases /\ gpath \in gpaths /\ includes \in lines
  /\ where = "dup" /\ db = "GTAGS" /\ input = database.GTAGS
  /\ prev = "" /\ first_line = NONE /\ tag_count = 0 /\ entry_count = 0 /\ writing = FALSE
  /\ cache = [d \in {"GTAGS", "GRTAGS"} |-> <<>>] /\ pages = <<>>
  /\ alpha = "" /\ alpha_count = 0 /\ defines = <<>>
  /\ gfind = 0 /\ retry = FALSE /\ dirs = <<0>> /\ basedir = <<>> /\ src_count = 0
  /\ fids = [p \in {gpath[i].path : i \in DOMAIN gpath} |->
               (CHOOSE g \in ToSet(gpath) : g.path = p).id]
  /\ file_list = <<>> /\ incs = <<>>

HtagsInit == HtagsInitOf(Databases, GPATHs, Includes)

HtagsNext == \/ NewTag \/ Duplicate \/ EndOfTags
             \/ DefineTag \/ EndOfDefines
             \/ EnterDirectory \/ PrintFile \/ LeaveDirectory \/ EndOfFiles
             \/ IncludeLine \/ WriteIncludes
HtagsSpec == HtagsInit /\ [][HtagsNext]_htagsVars

----------------------------------------------------------------------------
Paths == {gpath[i].path : i \in DOMAIN gpath}
Below(dir) == {p \in Paths : IsStrictPrefix(dir, p)}
Directories == UNION {{SubSeq(p, 1, n) : n \in 1 .. Len(p) - 1} : p \in Paths}
Entries(dir) == {[fid |-> fids[p]] : p \in {p \in Paths : Front(p) = dir}}
                \cup {[dir |-> fids[d], n |-> Cardinality(Below(d))] :
                        d \in {d \in Directories \cap DOMAIN fids : Front(d) = dir}}
Once(s, set) == ToSet(s) = set /\ Len(s) = Cardinality(set)
RecordsOf(d, name) == SelectSeq(database[d], LAMBDA r: r.name = name)
ByLetter(l) == SelectSeq(Keys, LAMBDA k: Letter[k] = l)
Methods == \E r \in ToSet(database.GTAGS) : r.name # r.key

\* In the pages to come every tag leads to all its places and to no other, be it
\* directly or by a list, and an include line to all files of that name and back.
\* Each definition is on the page of its letter, and each directory has one page,
\* with its files and directories once each and the number of files below.  htags
\* dies of a key that no tag has for a name, but not otherwise (makedupindex,
\* makedefineindex, print_directory, makeincludeindex, put_anchor).
IndexRight ==
  /\ where = "die" => Methods
  /\ where = "html" =>
       /\ ~ Methods => \A d \in DOMAIN cache :
            /\ \A name \in {r.name : r \in ToSet(database[d])} :
                 put_anchor(d, name) = RecordsOf(d, name)
            /\ \A name \in DOMAIN cache[d] :
                 "n" \in DOMAIN cache[d][name] => cache[d][name].n = Len(RecordsOf(d, name))
       /\ \A k \in ToSet(Keys) : Page("defines", Letter[k]) = ByLetter(Letter[k])
       /\ ToSet(defines) = {[alpha |-> Letter[k], count |-> Len(ByLetter(Letter[k]))] : k \in ToSet(Keys)}
       /\ Once(file_list, Entries(<<>>))
       /\ \A d \in Directories : d \in DOMAIN fids /\ Once(Page("files", fids[d]), Entries(d))
       /\ \A p, q \in DOMAIN fids : fids[p] = fids[q] => p = q
       /\ \A name \in IncludeNames : LET named == {p \in Paths : Last(p) = name} IN
            /\ Once(put_include_anchor(name), named)
            /\ named # {} => get_included(name) =
                 LET of == SelectSeq(includes, LAMBDA i: i.last = name) IN [k \in DOMAIN of |-> of[k].line]
=============================================================================
