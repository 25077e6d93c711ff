# GNU GLOBAL 6.2.6 in TLA+

The repository is the configuration of an Emacs: initialisation files, Emacs Lisp
packages, and one program in C, GNU GLOBAL 6.2.6 (`src/.emacs.d/plugin/global-6.2.6`),
a source code tagging system. The Lisp packages (CEDET, ECB, company, magit, ...) are
third-party and carried unchanged; the initialisation files set options. This project
models GLOBAL: `gtags`, which makes a tag database and keeps it up to date while the files
it describes go on changing; what it stands on, from the B-tree and its page cache to the
identifier sets; the parsers that find the tags; and what reads a database, `global`,
`htags` and `gtags-cscope`.
Paths below are relative to `src/.emacs.d/plugin/global-6.2.6/`.

## Inventory

| part | source | state | operations | hard behaviours | what makes it correct |
|---|---|---|---|---|---|
| GPATH | `libutil/gpathop.c` | a B-tree of two records per file and NEXTKEY; static `opened`, `_mode`, `created`, `_nextkey` | `gpath_open`, `gpath_put`, `gpath_path2fid`, `gpath_fid2path`, `gpath_delete`, `gpath_nextkey`, `gpath_close` | shared by count among three users, NEXTKEY written only by the last close, process may die | the two records agree; an identifier never names a second file |
| gtags | `gtags/gtags.c` | `addlist`, `deletelist`, `addlist_other`, `deleteset`, `findset`, the time of GTAGS | `createtags`, `incremental`, `updatetags` | files change meanwhile; three files written at three moments; kills; one-second clock; changed langmap | the database shows what the files are, or the next update will |
| tag files | `libutil/gtagsop.c` | GTAGS, GRTAGS: B-trees of tags under identifiers; compact-format pool; the answer of `is_defined_in_GTAGS` | `gtags_open`, `gtags_put_using`, `gtags_flush`, `gtags_delete`, `gtags_first/next`, `gtags_close` | deletion through the reading cursor; writes deferred to a sort process; lines folded into ranges | a tag put is read back once, a deleted one never |
| text of records | `libutil/compress.c` | one static buffer | `compress`, `uncompress`, `abbrev_open` | marks that occur in the text; the buffer read while it is written | what was written is shown |
| identifier sets | `libutil/idset.c` | words of bits, `min`, `max`, `lastid` | open, add, contains, first, next, count | boundaries of words | it is a set |
| find | `libutil/find.c` | stack of listings, one path buffer `dir` | `find_open`, `find_open_filelist`, `find_read`, `find_close` | entries vanish or change type after they were listed; links that loop, or come to loop between two looks at them | each path once, all that stayed, an end |
| scanner | `libutil/token.c` | one line of the file, its place `cp` in it, a token pushed back, flags for `#` and `%` | `nexttoken`, `peekc`, `pushbackchar`, `pushbacktoken` | reads ahead in the line and in the file behind it, through comments, and goes back | every token once, with its line, whatever was looked at |
| parsers | `libparser/C.c`, `Cpp.c`, `java.c` | brace level, stack of conditionals, stack of classes, a token pushed back, flags for a class head, a throw, an initialiser | one function for each construct | conditionals, macros and old forms that change the level; what a header turns out to be is known after it | the level is the depth; what is defined is recorded and nothing else |
| dbop | `libutil/dbop.c` | open B-tree, pipes to sort(1), last key | get, put, delete, first, next, unread, close | deferred writes, meta records | a bag of records |
| libdb | `libdb/bt_*.c` | pages, one cursor, a hint, a free list | put, get, seq, delete, sync | splits and page deletion under the cursor; duplicates across pages | an ordered map |
| mpool | `libdb/mpool.c` | pages in memory, LRU order, pins, dirty flags | new, get, put, sync, close | reuse of a page somebody holds, lost writes | pages read back as last written |
| global | `global/global.c`, `literal.c` | place in the source file it is quoting; the automaton of `-g` | query the database, print locations with their lines, search a text | the source files change or go; one open file for many records; fail links | every tag once, with its own line; every line that has the word |
| htags | `htags/*.c`, `libutil/xargs.c` | a stream of anchors for each kind of tag, the anchors of a page; the cache of where a tag leads; directories and identifiers of pages | `makedupindex`, `makedefineindex`, `makefileindex`, `makeincludeindex`, `makehtml` | streams that read one list of files, each from its own place; a record or path pushed back; last elements | every link leads to the place it names |
| gtags-cscope | `gtags-cscope/display.c`, `command.c`, `edit.c` | the file of references and one position in it; `nextline`, `topline`, `disprefs`; lines marked | search, read, page, choose, change | every command moves the one position; references that wrap | the page is the lines its letters choose |
| names of files | `libutil/abs2rel.c`, `pathconvert.c` | buffers | `normalize`, `rel2abs`, `abs2rel`, `convert_pathname`, `decode_path`, `--single-update` | a buffer rewritten in place; names with dots, doubled slashes, from anywhere | one name in GPATH for one file; what is printed is accepted again |
| configuration | `libutil/conf.c`, `langmap.c` | `confline`, `opened`; the records being copied | `openconf`, `getconfs`, `getconfb`, `decide_lang`, `make_suffixes` | records include one another; two readers of one setting | a record is what it includes; a file that is found has a parser |
| location of the tag files | `libutil/getdbpath.c`, `tagsearch` and `completion` of `global.c` | `root`, `dbpath`, what is left of GTAGSLIBPATH | `setupdbpath`, `gtagsexist`, a query | environment, files and directories each decide; the library asked only after the project | the nearest project answers, then the first library that can |
| other parsers, options | `libparser/`, ... | options of a process | | | data, abstracted |

`gtags` calls `find` for the files, GPATH for their identifiers, a parser for their tags
(through the callback `put_syms`) and gtagsop to store them; gtagsop and GPATH store
through dbop, libdb and mpool; `global` reads what was stored, `htags` and `gtags-cscope`
what `global` prints. Processes share only files: there is no lock
(`gtags/manual.in:172`).

## Modules

### Gpath and FileTable

`Gpath` is `libutil/gpathop.c`: its static variables, one operator per call. `db` is the
B-tree image a process holds, `disk` the file; the image becomes the file at the last
`gpath_close`. `Exit` is the end of a process at any point: the static variables are
those of a new process and the file stays as it is. The asserted preconditions (`opened`,
the mode, `gpath_delete` only in modify mode) are guards: a caller that breaks one stops
the program. `FileTable` is the promise of the file to the other parts: an identifier,
once issued, names its file or nothing until the table is made anew. `IsFileTable` states
that the file on disk, over all processes, implements it.

### Gtags

`Gtags` is `gtags` over a tree. It uses `Gpath` by `INSTANCE` with the same variables.

| in the model | in the code |
|---|---|
| `text`, `mtime`, `edits`, `clock`; `Write`, `Remove`, `Tick` | the files, and who edits them |
| `lang`, `Reconfigure` | `issourcefile` and the langmap; read once per process |
| `gtags`, `grtags`, `gtagsMtime` | the files GTAGS and GRTAGS and the time of GTAGS |
| `gtop` | the two GTOPs: images written by `gtags_close` |
| `CreateGTAGS` ... `CreateCloseGRTAGS` | `createtags`, call by call |
| `StartUpdate`, `UpdateAll`, `UpdateOne`, `Inspect`, `MakeDeleteList`, `SkipTags` | `incremental` up to the decision what to do |
| `OpenGTAGS` ... `CloseGRTAGS` | `updatetags` |
| `DeletePath`, `PutOther`, `Touch`, `CloseGPATH` | the rest of `incremental` |
| `Die`, `Crash`, `ProcessExit` | `die()`, a kill at any point, the end |
| `start`, `blind`, `torn`, `crashes`, `reconfs` | history for the properties, never read by a guard but for bounds |

`MCGtagsAll` adds to `Gtags` which trouble a behaviour has: others edit the files while gtags
runs and may be killed, or gtags is left alone and its user updates single files and changes
the langmap. Each property says of which of the two it speaks; what holds in both is said
of both.

Abstractions, each on purpose:

- All tags one parse finds are one record `[path, ver]`, in GTAGS (definitions) and in
  GRTAGS (references). Versions are numbered across files, so a record tells which text of
  which file it comes from.
- A tag file changes in one step, when it is closed. The code writes it page by page
  from the page cache at `dbop_close`; a kill inside that write is not modelled.
- `gtags_put_using` puts tags into the image. In the code, in standard format, they wait
  in a sort process until `gtags_close` and in compact format in a pool until
  `gtags_flush`; no call between reads them.
- `find_read` returns the files in any order. One step is `find_read` with the body of the
  loop behind it.
- A binary or skipped file is a file that is not there.
- An editor stamps a file with the present second. A tool that stamps it with an older
  time (`mv`, `cp -p`) escapes the comparison of times in the code, and is not modelled.
- GTAGS gets the time of its close. In the code a close without changes leaves the time and
  `utime` sets it three steps later.
- `fork`s, options and messages that touch none of this state are left out.

### Mpool and PageStore

`Mpool` is `libdb/mpool.c`: the queue and the hash table of buffers (`lru`, and the domain
of `buf`), `curcache`, `npages`, and the file. `mpool_get` has three actions, a page in the
cache, a page to be read, and a read that fails after a buffer was taken for it (the
buffer is lost then and still counted). `mpool_bkt` is `Reuse`, the first buffer of the
queue that is not pinned with its page written first if it is dirty, or `Allocate`.
A failing write leaves everything as it was and is no step; in `mpool_sync` it ends the
loop half way (`SyncFails`), and since `dbop_close` ignores what `__bt_close` returns, the
process goes on to its end. `ProcessEnds` ends the process at any point.

The B-tree above is any caller that obeys the `DEBUG` checks of `mpool.c`: it does not get a
page it holds and puts what it holds. `Change` and `Hold` are external. It passes
`MPOOL_DIRTY` when it has changed a page: if it does not, the change is lost, as it
should be.

`PageStore` is the promise: numbered pages that read back as last changed. When the
process dies, each page of the file is one of the versions that were put since the last sync;
pages of different ages may meet, and neither the code nor this promise excludes it.
`mpool_filter` (byte order) and a page written only in part are left out.

### CompactTags

One module for both ends of the compact format, since each is only right if the other is.
`gtags_put_using` collects lines in `pool` (`path_hash`), `gtags_flush` starts the loop of
`flush_pool` over its entries (`NextEntry`, `Fold`, `EndEntry`, `EndFlush`; one `Fold`
is one turn of the loop over the lines). `gtags_first` stands for `gtags_first`, `gtags_next`
and `segment_read` together: what they return is the records whose tags match, tag by tag
and sorted by file and line: `queue` has those not yet read, and `NextRecord` takes one that no
other comes before. `NextRecord` and `Unfold` are the loops of `search`, with the
source file it quotes: `fp` is -1 for `NULL` and else the number of lines the file has when
it is opened, which an edit since the last update may have changed. The text of a line is
the pair of its file and its number. A record is a sequence of tokens (`head`, `comma`, `dash`); its limit
in characters, `DBOP_PAGESIZE / 4`, is one in tokens. Left out: the standard format,
`COMPNAME`, `GTAGS_EXTRACTMETHOD`, `GTOP_NOSORT`, the path list of `-P`, and the part of
`decide_tag_by_context` that looks into `GTAGSLIBPATH`.

### Idset and IdCursor

`Idset` is `libutil/idset.c`. A word is the set of its bits; `END_OF_ID` is the greatest
`unsigned int`, so comparisons with it are comparisons of numbers. `Scan` is what the two
loops of `idset_next` find and `ScanFails` the `die("internal error")` behind them.
`idset_count` is a loop of three actions because it moves the cursor of the set it counts.
`IdCursor` is the promise: a set, and a cursor that visits it in order, also past members
added on the way.

### Find

`Find` is `libutil/find.c`. A path is a sequence of names. A directory is known by its real
path, so `tree` says for each real directory what each of its names leads to: a file,
nothing, or a real directory, be it the directory's own entry or a symbolic link. Every such
graph is a tree with links, so loops need no special treatment. One entry of the stack is
`dirp` (where its path ends in the buffer `dir`), `real`, and `rest`, the entries from
`curp->p` to `curp->end` as a set, since `readdir` returns them in any order. One call of
`find_read` is several steps, because the tree is edited in between: a file is tested and
returned (`TakeFile`), a directory is taken (`TakeDir`), looked at for loops (`CheckLoop`),
listed (`getdirs`), and looked at again for its real path (`Push`); `Pop` is the end of a
listing. `Die` is `die()` in `getrealpath` and `has_symlinkloop`. `SkipsFile` and
`SkipsDir` are what the regular expression and the list of `prepare_skip` match: a unit
ends with `$` and then matches files only, unless it ends with `/`.

`find_open_filelist` and `find_read_filelist` are there with what a line comes to: a path
in the tree, or nothing (empty, comment, outside). The listing of one directory
(`readdir` and `stat` of each entry) is one step. `val` with its leading blank is a path
and whether it is a source. Left out: the lengths of buffers, blanks in paths, messages,
and the copy of standard input. `gtags` opens one iterator in a process; `find_close` frees
the regular expressions without forgetting them, so a second one would not work, and the
model has none. `Gtags` takes from `Find` that each file comes once and in any order.

### Btree, Dbop and TagFile

`Btree` is the part of `libdb` that tag files use, as operators on a tree: pages of sorted
items, linked both ways on each level, one cursor, the hint of the last insertion and the
list of free pages. `bt_put` is `__bt_put` with `bt_fast`, `__bt_split`, `bt_page`, `bt_root`,
`bt_broot`, `bt_psplit` and the keys cut by `__bt_defpfx`; `bt_first` and `bt_seqadv` are
the reading, `bt_bdelete` and `bt_delete_cursor` the deletion with `__bt_pdelete`,
`__bt_relink` and `__bt_stkacq`. A key is a sequence of bytes. Sizes are counted in units, and an item's size
decides where a page splits and when its data go to overflow pages, as in the code.
Left out: `R_LAST`, `R_PREV`, `R_NOOVERWRITE`, `R_SETCURSOR`, deletion by key in a file
with duplicates, keys on overflow pages (a key is at most `MAXKEYLEN`, 300, of 8192 bytes),
record number trees, byte order.

`Dbop` is `libutil/dbop.c` in the sessions gtags has with a file: created or opened, records
deleted through the cursor by a scan (`gtags_delete`, one turn of its loop is `DeleteScan`)
or by key, put directly or through sort(1), closed. `sorting` is what sort(1) holds until
`dbop_close` drains it into the tree.
`TagFile` is the promise: a bag of records, a scan that deletes until nothing is left to
delete.

`Strays` is a constant: `FALSE` leaves out the insertions that split a page found beside the
page descended to, with the stack of the latter (`Astray`). They spoil the tree, which is
the finding of run `astray`; the run `btree` asks what holds as long as there is none.

### GtagsRead

`gtags_first` and `gtags_next` over `dbop_first`, `dbop_next` and `dbop_unread`, call by
call: whole records tag by tag and sorted (`segment_read`), keys, or paths; from GTAGS and
from GRTAGS, which is two virtual files, its records being asked of GTAGS by
`is_defined_in_GTAGS` with its static name and answer. The file is every small sequence of
records in the order of keys, those of one key in any order. A program makes two requests,
so that something of the first may be left to the second.

### TagRecord

`compress` and `uncompress` on texts that are sequences of characters, the one place where
characters matter: the loop of each takes the text in pieces (`InTurn`), and `Written` and `Read` are
its body, what one piece is and how long; `gtags_put`, which makes key and record; the fields
that `search` takes out of a record. `Garbled` is what `uncompress` leaves in its static buffer when it is given that
buffer (`global/global.c:1682`).

### CParser, CppParser and JavaParser

A parser is a machine of frames (`calls`, one for each function that reads tokens) over a
text. The text is made as it is read, of pieces whose definitions are known (`def`), so it is
every text of the pieces up to a depth: declarations, prototypes, macros, typedefs, tags,
function headers of every form the code tests for, bodies, conditionals with their two
branches, `extern "C"` and the sections of yacc. `NextPiece` and what it uses are the
text and external; the other actions are the branches of `C_family`, `Cpp` and `java` and of
their helpers. `LevelIsDepth` and `DefinitionsFound` compare what the parser keeps with what
the text has. `CppParser` extends `CParser`, sharing conditionals, lists, typedefs and
attributes, as the two files do by copies of the same functions; `JavaParser` extends it
again. The texts leave out what is listed under "Divergences": forms at which the
parser is wrong.

### Token

`libutil/token.c`, read character by character. The text is a sequence of pieces (symbols,
blanks, comments, strings, numbers, `#`, `%`, specials, newlines), so the tokens that a caller
is due are known (`NextToken`, `Given`) apart from the characters the code sees. `in` is the
line buffer: how much was read (`at`), whether `cp` and `sp` are not `NULL` (`held`, `open`),
`lineno` and `continued_line`. `mode` says in which loop of `nexttoken` or `peekc` the code is;
one turn is one action. `peekc` first reads in the line and then, at its end, in the file
(`look`), from where it goes back with `fseek`. The caller is external but for its calls:
it sets `crflag` before each call, and pushes a token back only when none is. `cmode`, `cppmode`
and `ymode` are on, so every branch is there. Left out: carriage returns, a last line
without a newline, `throwaway_nextchar`. No piece leads to what is listed of `token.c` under
"Divergences", except comments over two lines, of which run `peek` speaks.

### PathName

A name is a sequence of characters. `normalize_pathname` is the loop over the buffer, with
`final`, the place before which nothing is taken back; `rel2abs` and `abs2rel` with their
cases at `/`; `normalize` joins them. `convert_pathname` is what `global` prints with `-a`, without, or
with the path as it is in GPATH, `Encoded` or not. One behaviour is one user in one
place who names a file and then reads and gives back what was printed, or updates it alone
(`Regularized` is what `gtags` makes of the name `global` hands it). `Meant` and `InGpath` say what a
name means, independently of how it is written: the names from `/` on after dots and `..` are
resolved. Left out: drive letters, lengths, bytes that are not ASCII; a name whose last part is a dot
is no file and nothing is claimed of it.

### Literal

`cgotofn` and `cfail` make the automaton from words (`kids`, `out`, `fail`: lists of nodes
are named by the letters that lead to them), and `literal_search` takes a text through it
byte by byte with `-i`, `-V` and the output of paths. The nodes of a list are linked in the
order their words came in, so a node is named by the number of its word; `Fallen` is where the
first node of each list comes to with a byte, for the search may go down many fail links before it takes
one. `Folded` is `tolower`.

### Anchor, HtagsIndex

`Anchor` is what `makehtml` does for each page: the three streams of `xargs_open_with_file`
(`Arguments` is the filling of one command line; the path that did not fit is kept), the
anchors of a file (`anchor_load`), and what the lexer and `put_begin_of_line`,
`put_end_of_line` ask of them, in the order of the lines. The output of `global -f` is
external.

`HtagsIndex` is what comes before: `makedupindex` with the cache, `makedefineindex -a`,
`makefileindex` by the recursion of `print_directory` (`dirs` is its stack; `retry` is the
path pushed back), `put_inc`, `makeincludeindex`. A page is what it lists. A page opened
twice loses what it had, so an identifier used twice would show.

### Cscope

The screen of `gtags-cscope`. A reference is the number of rows it takes; `position` is the
place in the file of references, `nextline` what the program believes of it. One action per
command, each followed by the display or by the next key as the code has it (`doing`).
`Resize` displays twice, once in `command` and once in `main`. `LeaveChange` is what follows the
keys of `changestring`: it seeks the first line and reads all references, or those down to the first that cannot
be changed. If nothing is changed `nextline` stays 1 and the file where it was read to. From then on
`nextline` and `position` are apart until a command seeks a line; `abandoned` says so.

### Conf

A configuration file is a sequence of records, each with its labels and fields: includes (`include=`
or `tc=`), values and flags. `includelabel` calls itself, so `pending` is what every call has
still to copy; `Include` is one turn of its loop, `EndRecordOf` what is behind it, `Enter` what is above
it. `OpenGiven`, `OpenFile` and `Opened` are `openconf` by its branches and the defaults behind
them, `closeconf` its end. A langmap is a sequence of tokens; `ActiveMap` is what `setup_langmap` makes
of it, `decide_lang` and `make_suffixes` are the two ways to read it, the first used by the parser,
the second by `find`. `SettingsRight` compares `confline` with `Meaning`, in which every include
is replaced by what it names. Left out: comments, continuation lines and blanks (`trim`), the search
for the file (`configpath`), `getconfn`, and the values that have a default in `getconfs`.

### Query

One query of a user: `FromEnvironment`, or `StartHere`, `GoUp`, `FoundUp`, `ReadRootFile`, are
`setupdbpath`, one turn of its loop a step; `gtagsexist` looks in a directory and its two obj directories.
`SearchProject` and `SearchLibrary` are `tagsearch` and `completion`, which treat GTAGSLIBPATH alike;
`completion_tags` is the double prefix reading of `-i`. What one tag file answers to a search is that
of `GtagsRead`. A world is a set of directories, where tag files and files GTAGSROOT are, the
environment, the current directory, and the words that have a place below it (`near`); it does not change
during a query. With `-l` a search passes over the records of files that are not below the current
directory (`global.c:1590`), and asks no library; so does a completion, but it filters nothing. The model
filters words (`InSight`), not their single records. Left out: symbolic links, the environment's other names of obj, `getobjdir`.

### MCUnits and MCReaders

Components that are called from one place at a time share a run: a behaviour of `MCUnits` or
`MCReaders` is one of one component, which `unit` names, while the variables of the others
keep their first values. It is the union of their state spaces and not the product.

## Runs

| run | checks | shows |
|---|---|---|
| `trouble` | `StalenessSeen OneVersion NoForeignTags TagsOwnedUndisturbed` | gtags with edits between any two steps and a kill; gtags with langmap changes and single updates, nobody editing during a run |
| `live` | `CatchesUp` | updates catch up with edits again and again |
| `find` | `FoundAll QuietExact DiesOnlyOfEdits NestingBound FilesOnce Terminates` | every file once, those that stayed all found, no endless descent, and an end |
| `btree` | `TypeOK ReadsRight InOrder PagesAccounted IsTagFile` | a file is a bag of records under puts, splits, deletions through the cursor and sorted writing; no page overfull, lost or used twice |
| `units`: GPATH | `IsFileTable` | the promised table under every legal call sequence and every exit |
| `units`: mpool | `QueueMatches IsPageStore` | a store of pages, with failing reads and writes and kills |
| `units`: idset | `NoInternalError IsIdCursor` | the words of bits are a set with a cursor |
| `units`: parsers | `LevelIsDepth DefinitionsFound ClassesRight` | the level is the depth, the classes are those the text is in, what is defined is recorded |
| `units`: reading | `AnswerRight` | a request gets what it asks for, once and in order |
| `units`: conf | `SettingsRight SourcesHaveParsers` | a record reads as what it includes, circles are refused; a file that is found has a parser |
| `units`: query | `QueryRight` | the nearest project answers, then the library in its order; every word asked for, once |
| `units`: literal | `LiteralsFound` | what is printed is right, and complete where one fail link is enough |
| `readers`: compact | `Decides PrintedOnce ImagesRight` | what is folded is found and printed once with its own line, source files being whole or cut short |
| `readers`: htags | `IndexRight PagesRight` | tags, includes and lines lead to the places they name |
| `readers`: records | `TagsKept` | what was written is shown |
| `readers`: scanner | `TokensRight PeekRight` | the tokens of the text, once and with their lines, whatever was looked at or pushed back; a look ahead sees the first character that counts |
| `readers`: names | `NamesRight` | whatever form a user gives a name, he gets the file's name in GPATH; what is printed is accepted as the same file |
| `readers`: cscope | `PageRight NoneSkipped` | the page is the lines from `topline` on; paging leaves out nothing |
| `overlooked` | `UpdateSuffices`, violated | an edit in the second in which GTAGS was stamped is never noticed |
| `resaved` | `TagsOwned`, violated | a file removed and written again during an update leaves orphan tags |
| `gone` | `ImagesRight`, violated | when a source file is gone its tags are printed with a line of another file |
| `astray` | `ReadsRight`, violated | a split with the stack of the page beside: records no longer found |
| `literal` | `AllFound`, violated | a word that repeats its own beginning is not found |
| `peek` | `TokensAfterPeek`, violated | a look ahead takes away the beginning of a comment over two lines |

Bounds and why they are enough:

- `Gtags` and `Gpath` bound files (2), identifiers (3 or 4), edits (3 or 2), seconds (0 to 2),
  kills and langmap changes; the bounds are constants. Two files are enough for every hazard in
  which one file gets what belongs to another; three identifiers allow one hole and one
  identifier issued after it; three edits allow to make, change, and change again; three
  seconds allow before, in and after the second of an update. Files are interchangeable and
  Init and Next treat them alike, so safety runs use symmetry; the liveness run does not.
- `find` has a root, a subdirectory that links to a directory outside, which links back or to
  the directory above the root; two edits of any entry to anything, at any two moments. Two
  edits are enough to spoil a check and put it right again, or to spoil two checks one
  below the other.
- `btree`: pages of four to five records, keys of which one begins with another, data of one
  file on overflow pages, five writes in two sessions: splits of leaves, of a parent and of the
  root, duplicates on two pages, pages emptied and used again. Every item is smaller than
  half a page, as tag records are; a larger one meets the hole of `bt_psplit` (see
  below). `astray` has three symbols of two files and seven writes.
- mpool: three pages, one buffer before reuse begins, two held at once: every page is
  evicted, written, read back, and the cache grows because everything is pinned. idset: words
  of three bits and sizes to 8: full words, an empty word between, a last word that is not full.
- parsers: braces to a depth of three, one conditional open (with more inside the pieces),
  the stack of conditionals at its limit (`MAXPIFSTACK` 3) and of classes (3). Every sequence
  of pieces occurs, for a text has no bound on its length; only what is open at once has.
- scanner: texts of three pieces out of twenty-two, and a newline; tokens of four letters. A
  rule of the scanner joins two pieces (`#` and a name, `L` and a string, a comment and the end
  of its line) with at most one between them.
- reading: files of up to three tags with up to three records each, two requests.
- literal: all words of two letters to a length of three, alone and in pairs, all texts to a
  length of four.
- compact: two files, two tags, seven lines, records of two tokens, four tags found: a second
  file for the pool, a second tag for the rewinding of the source, files of three or seven lines
  when they are read. Tags that are all one in one file are not limited to four: every set of
  the seven lines occurs, so every mixture of ranges, differences and splits of records.
- htags: projects of up to three files, a command line that takes one or two; tags with no,
  one, two or three places; all sets of six paths in three levels of directories.
- names: one to five parts out of two names, `.`, `..` and nothing, so also absolute and with doubled
  slashes; users in, below, above and beside the root, and at `/`. Five parts are enough to go up above
  the root, come back and go on, and to mix kept and resolved `..`.
- conf: three records that include one another in every order, in circles, by labels that are missing,
  double or second; a nesting of three, where the code has 32: the limit is met by a circle and by a chain.
- query: a project in another, two trees of a library, two or none of the six places of tag files or
  nearly all of them, every form of the environment.
- cscope: answers of none to seven references, up to four rows each, screens of two and
  three rows, any keys.

`units`, `readers`, `btree` and `find` come to an end, of the text, of the program or of
its bounds, so deadlock is not checked there.

The antecedents of the conditional properties name known limits of the code and nothing
else. `blind`: the seconds in which an update was running (`overlooked`). `reconfs = 0`: the
langmap has not changed: the delete list goes by the type a file had when GPATH got
it (`gpathop.c:160`), so after a change of the langmap orphan tags stay. `torn`: a kill between
the writing of two of the three files; GTAGS is written before GPATH records NEXTKEY
(`gpathop.c:271`), so after such a kill identifiers under which GTAGS has tags are issued
again. `Direct` in `LiteralsFound`: no list needs a second fail link (`literal`).
`Overread` in `TokensRight` and `PeekRight`: a comment over two lines, where `peekc` was
called (`peek`); `Slashes`: a `/` that begins no comment.
`OneField` in `TagsKept`: a name with blanks is two fields. `Methods` in `IndexRight`: keys
that are not names (`makedefineindex` dies of them). `abandoned` in `PageRight` and
`NoneSkipped`: a change left with nothing changed, below. `AboveAll` and `DotsInside` in `NamesRight`:
forms the code does not treat, below. `~Mixed` in `SettingsRight`: no `tc=` before an `include=` in
one record. `icase_path` in `SourcesHaveParsers`, below. `GTAGSROOT = Unset` in `QueryRight`: else the user
says where the project is. Of a prefix that does not begin with a letter `WordsAsked` forgets `-i`.

Fairness (`FairSpec`, run `live`): a process that has started goes on to its end (the
operating system schedules it, and no step of it waits for another process); the user
runs `gtags -i` again and again, which is what the documentation asks of him
(`doc/global.texi:1933`, `gtags.el:343`). Nothing is assumed of edits, the clock or kills.
In `Find` the traversal goes on (`WF_vars(Traverse)`): `gtags` calls `find_read` until it
returns NULL and waits for nobody. The number of edits is bounded, and has to be for
`Terminates`: someone who adds a directory below each one listed is never caught up with.

## Proofs

The proofs hold for every value of the constants, where the runs check small ones. `UnitsProofs` is of
components that `MCUnits` runs (`Idset`, `Mpool`, `Conf`, `Query`), `ReadersProofs` of those of
`MCReaders` (`CompactTags`, `Cscope`, `TagRecord`); each has one section for a component. The others bear the names
of their modules. `InductionLemmas` is what they share.

Of the file table and gtags, in `GpathProofs`, `GtagsProofs` and `GtagsAllProofs`:

- `TypeCorrect`, `ConsistentCorrect`, `FreshIdsCorrect`, `GpathImplementsFileTable`: of
  `Gpath`, by one inductive invariant that says that both images are paired and that
  NEXTKEY (in memory or on disk) is above every identifier in use.
- `GpathByProtocol`: `Gtags` uses `Gpath` as `Gpath` expects. The invariant `Protocol`
  relates the program counter to the number of opens and the mode, so that each step of
  `Gtags` is a step of `Gpath` or leaves it alone. All theorems on `Gpath` then hold in
  `Gtags` (`GpathCorrect`).
- `GtagsTypeCorrect`: the type invariant of `Gtags`.
- `NewIdsAreCleanCorrect` and `NoForeignTagsCorrect`: by the invariant `IdsClean`. Neither
  property is inductive alone: a tag is put in memory under an identifier long before GTAGS,
  GRTAGS and GPATH reach the disk, in that order. `IdsClean` says of each image, in memory
  or on disk, that its tags lie below the NEXTKEY in force and belong to the file that the
  identifier names in the table that will be on disk with them, and, in the window between
  the three writes, how the mixture on disk is related to what is in memory.
- `OneVersionCorrect` by the invariant `InSync`. A parse only adds
  records, so nothing may be left under the identifier of a file on the add list when its turn
  comes. `Scheduled` follows such a file from the inspection of the tree: if GPATH knows it, its
  identifier is in the delete set; after the deletion `Cleared` says that both files have nothing
  under it. A parse of another file does not disturb that, for `gpath_put` gives no identifier
  of one path to another, and a file new to GPATH gets an identifier without tags (`IdsClean`).

- `StalenessSeenCorrect`, in `GtagsAllProofs`, by the invariant `EditsInv`. It follows each file
  last written before the second in which the process started (`Old`): until its turn comes it is
  on the add list or right, in the images in memory first and in the files after they are written;
  what is written later is newer than the stamp of GTAGS or in a blind second (`Clocks`). Every
  step of `AllSpec` is a step of `Spec`, so the invariants above hold there too, and `EditsInv`
  needs all of them: that a file on the add list starts without tags is `InSync`.
- `TagsOwnedCorrect`, there too, by `UserInv`: while the langmap stays, the type that GPATH has of
  a file is the one its name gives (`TypesHold`), so a source on the delete list has its
  identifier in the delete set before it is taken out of GPATH (`Kept`), and each tag file,
  in memory or on disk, has tags only where the table that goes with it has a path (`HasOwner`).

Of `Mpool`, in `UnitsProofs`, `MInv` is proved inductive: beside `HeldArePinned` and `NothingLost` it says
which versions of a page the file may hold, for a dirty page in memory is written at a
moment nobody chooses, and then the version that counts is the one in the buffer.
`HeldArePinnedHolds`, `NothingLostHolds` and `StoreImplemented` (every step is a step of
`PageStore` or a stutter) follow. Of the order of reuse the proofs use only that the page is
not pinned: any other policy would be as safe. `QueueMatchesHolds` adds to `MInv` that nothing is
in the queue twice and that its members are the pages in the table; each step does one of six
things to both (`QueueMoves`). `BoundedHolds`, which no run checks, adds a count: pinned pages are
in the B-tree's hands, so a cache that grows because all are pinned has no more pages than these.

Of `Idset`, in `UnitsProofs`, all the properties are proved for every width of a word and every size.
The heart is `NextFound`: from a member below the greatest, the scan of the rest of the
word and of the later words finds the least member above. It needs that no bit beyond the
size is ever set (`Clean`), that the cursor is on a member, and some arithmetic of division. For
`idset_count` the invariant says what it has counted: the members below the cursor.

`FindProofs` proves of the traversal, for every tree and any number of edits:

- `FilesOnceHolds` by `FindInv`: no path that was returned lies at or below an entry that is
  still to be taken (`Fresh`). It needs that a listing has no name twice, that the names in
  `dir` are no longer in the listings they were taken from, and that `dir`, `dirp` and the depth of
  the stack go together (`Shape`), from which `DirIsTopHolds` follows.
- `NestingBoundHolds` by `NestInv`, a count: the real paths on the stack are distinct but
  for one at most for every edit. Between the check for loops and the push the bound has
  one in hand if an edit has made the check untrue.

`ReadersProofs` proves of `CompactTags` what is folded to be what is found, for every number of files, tags
and lines and every limit on a record:

- `DecidesHolds` by `Writing`: what was put is at every moment what the records cover, the
  buffer, the range that is open and the lines still in the pool, and a
  record of the same tag and file begins above the end of the one before. A range cut by the
  limit and a range at the head of a record are the steps where it could fail.
- `PrintedOnceHolds` by `Searching`: what is printed is what the records already read
  cover, and of the current one what it covers up to `n_last`, which is the line of its last
  token read or lies in the range of that token. The count follows since every line
  printed is above all those printed of its tag and file.
- `ImagesRightHolds` by `TextsKept`: `src` is the text of the line at which the source file stands. With
  `Searching`, which says that the file stands at the line printed last, or not beyond the
  first line of the next record once `Reopen` has decided whether to rewind, the line
  printed is the one asked for. It assumes that every source file can be opened, of whatever length. Without that it
  is false, and the run `gone` shows how.

`ReadersProofs` proves of what else reads the tag files:

- `PageRightHolds` and `NoneSkippedHolds` of `Cscope`: what the screen shows is a page of the references
  and the letters are those of its lines, whatever rows the lines take, the next page begins behind it.
- `uncompressInverts`: what `compress` makes of any text `uncompress` makes the text again. Both go
  over the text in pieces (`InTurn`), so the proof goes piece by piece, by induction on how much of the text
  is left: what is written of a piece is read as that piece and the reading goes on behind it
  (`ComesBack`). After `@` is a mark, a letter of the table, one digit, or digits up to `}`; a digit
  behind a number without braces belongs to the text. That the digits of a number are read as that
  number is an induction of its own.
- `RecordTagsKept` of `TagRecord` from it: the fields that `search` cuts out at blanks are those that
  `gtags_put` joined, when the name is one field, and the name of a compact record, uncompressed a
  second time, stays if it has no mark.

`UnitsProofs` further proves:

- `ConfSettings` of `Conf`, for any records that include one another, in circles too, and any depth:
  `Meaning[d]` is what each label stands for when `d` more includes may be entered. `ConfInv` says that what
  was copied, followed by what every pending record will still give at its depth (`Follows`), is the
  meaning of the label asked for; and that every include still to come can be read at its depth (`Goes`)
  exactly if the label asked for could in the beginning (`Rights`).
- `QueryIsRight` of `Query`, for any file system, library path and words: `QueryInv` says for each stage what
  is known: climbing, that nothing below has tag files (`NoneBelow`); asking, that of the trees tried so far
  all that can answer have answered, each once, or without `-T` only the project or the
  first that can (`InOrder`). `AnswersAre` proves of the double prefix reading of `completion_tags` that it
  finds every word once: the capital and the small first letter are two letters, and no
  other letter folds to theirs.

`LiteralProofs` proves `LiteralSearch` for every pattern, text, set of options and folding of
capitals. It has two halves.

- What is printed is right, whatever the links: the list the automaton is in ends what was read of the line
  (`ReadNext`), for a list comes from a list that ends the one before by a letter for the byte
  (`StepGood`), down any number of fail links. A list that is out has a word at its end (`OutEnds`), so the
  word is in the line (`EndsThenHas`).
- What is printed is all, if the links are `Direct`: then the list is the longest that ends what was
  read (`Best`, kept by `StepBest`), because the link of a list is the longest behind it, first one and then all
  along the queue (`LongestIs`). A word that ends what was read would end that list, and such lists are out
  (`OutWhenEnds`); so if no list was out no word is in the line (`NothingThenNone`).

`LiteralInv` relates both to the place in the text: what is printed are the lines selected before the
one that is read (`Recorded`), each under its number, and in the rest of a line in which a word was found
(`Finding`) nothing is searched. The last byte of a file, which the code does not look at, is in
`FileDone` and `FileEnds`.

`InductionLemmas` has what the library states only with an operator as parameter: a set of numbers has
a least element, a finite one a greatest, from the well-foundedness of the
subsets of a finite set; induction over the members of a set, up to a number or by a rank; and that a function defined by
recursion exists (`RecursionExists`, `RankRecursion`), from which each such definition gets its equations. So
what is said of a text of any length (`compress`, `Chosen`, `LineReached`, `Replaced`) or of lists behind one
another (`FailLinks`, `OutLists`, `Fallen`) is proved by these.

The assumptions are those the modules state by name: bounds are natural numbers, the value
for nothing is not a value, `END_OF_ID` is not below a size; of `Literal`, that a pattern has a word, no word
is empty or has a newline (a newline ends a word), and no other byte folds to the newline.

Proved and no longer checked by a run: the type invariants of `Gtags`, `Find`, `Mpool` and
`Idset`, `Consistent` of `Gpath`, `NewIdsAreClean` of `Gtags`, `HeldArePinned` and `NothingLost` of `Mpool`, `DirIsTop` of `Find` and `BoundsAreRight` of `Idset`.

Proved and checked by no run: `Bounded` of `Mpool`.

Only model-checked: `Btree` and `Dbop`, `Anchor`, `PathName` and `GtagsRead`, whose definitions recur over trees and texts with `RECURSIVE`; `IndexRight` of `HtagsIndex`
and `SourcesHaveParsers` of `Conf`; `Token` and
the parsers, where TLC goes through every text of the pieces and the pieces are not the code's;
and `CatchesUp` and `Terminates`, since liveness under fairness
is out of the prover's reach.

## Divergences met while modelling

Six are findings with runs. The others were met while reading the code beside a
model; the models leave out the input that leads to them, and say so where they do.

- gtags: a single update stamps GTAGS with the present time though it looked at one file
  (`gtags.c:700`), and edits of other files become older than GTAGS. A file replaced by one
  with an older time (`mv`, `cp -p`) is not newer than GTAGS and never updated (`gtags.c:622`). If
  GRTAGS is missing an update dereferences NULL (`gtags.c:810`).
- libdb: if the new item goes to index 0 and fills half the page by itself, the right half
  begins with a slot nobody fills (`bt_split.c:721-737`); the cursor of a split page may be
  one place off.
- `token.c`: `peekc` reads a lone `/` and does not put it back, so in `a / (b)` it sees the `(`
  of a call; it does not see the end of a comment in `**/`, and not in a line that begins
  with it after a `*`. `##` and `::` are never returned when they are reserved words, and are
  returned as symbols when they are not. A symbol that is too long loses the character
  behind it. `#` is not joined to its name over a comment.
- `C.c`: after a macro call in an initialiser the next function may be lost;
  `#define EXTERN_C extern "C"` takes the end of its line with it; enumerators of
  `enum foo` with its brace on the next line are only references; a `#define` of a typedef
  without a semicolon swallows the functions after it, and so does `typedef` directly
  followed by `#if`; `typedef enum foo (*fn)(int);` leaves the level at -1; `#if 0 ... #else`
  with uneven braces takes the level of the part under `#if 0`; alternative prototypes in
  `#if` and `#else` before one body are misread; `typedef struct foo a, *b;` records the last name only.
- `Cpp.c`: of member initialisers with a comma the last is recorded as a function; a
  `#define` with `=` or `throw` and without a semicolon leaves its flag set and the next
  function is lost, and `class X *p;` does so with the flag for a class; class heads in
  the two branches of a conditional, and macros that close a brace in a class, leave the stack
  of classes wrong (it is popped once, `Cpp.c:238`). Java annotations and enum constants with
  arguments are recorded as methods.
- `compress.c`: a name in a compact record that has a mark is garbled from its second
  line on (`global.c:1682`); a name with blanks is two fields; an empty name, which
  `define('', 1)` in PHP makes, is never finished with.
- `literal.c`: beside the fail links, `-V` never prints the last line; `-i` does not find a word
  with capitals; the last word is not marked if an earlier one begins with it.
- htags: when the environment leaves less room than a path (`xargs.c:92-105`), a stream ends
  and its links are missing; two definitions on one line link back to their own line;
  `makedefineindex` dies when keys are not names (`defineindex.c:199`, extractmethod).
- gtags-cscope: a change left with no line marked, or of a file that cannot be written,
  leaves the file of references read to its end or half with `nextline` at 1: `command.c:266` says that
  the file stands at the next page, and the next page is then empty, again and again, or shows other lines
  than are chosen by its letters. `nextline` has no sign, so `-` on the first page shows the first page and never the last
  (`command.c:295`). Going back counts `mdisprefs` lines and not those shown, so lines
  that wrap are passed over. A change of the screen's size displays twice, and a page is
  passed over.
- Names: `/..` at the head of an absolute name is kept (`abs2rel.c:270`), so such a name is outside of the
  project; a last `.` or `..` is not resolved. Of a name that comes to nothing (`./`, `a/../`) `rel2abs`
  reads the byte before its buffer (`abs2rel.c:495`). `--single-update` takes the name as it stands
  (`gtags.c:373-393`): with dots or doubled slashes inside (`sub/../x.c`) the file gets a
  second identifier in GPATH; and with the root `/` an absolute name is refused.
- The location of the tag files: a relative path in a file GTAGSROOT is tested from the
  current directory and resolved from the root, and if there is nothing there NULL is copied
  (`getdbpath.c:302-312`). The file is looked for in the root, not where GTAGS was found
  (`getdbpath.c:290`).
- Configuration: `include=` is looked for before `tc=` (`conf.c:183`), so a `tc=` in front of an
  `include=` is kept as text. With `icase_path` `find` accepts suffixes in any case
  (`find.c:153`), the parser only as they are written (`langmap.c:121`): such a file gets an
  identifier and no tags, though `gtags/manual.in:136` says that the check of suffixes ignores case.
- `global -ci` forgets `-i` for a prefix that begins with `_` (`global.c:780`).

## Plan

Done: the modules and proofs above. Left, in this order:

1. `Mpool` under `Btree`: that the B-tree obeys what `Mpool` assumes of its caller.
2. Proofs: `IndexRight` of `HtagsIndex`, which needs the order of the keys; `SourcesHaveParsers` of `Conf`;
   `LevelIsDepth` of `CParser`.
3. The lexers of `htags` and the parsers of PHP and assembler, over texts of pieces as in
   `CParser`.

## Not modelled

Everything listed `not_modelled` in `PROJECT.json`, with its reason: third-party packages
(most of the files of the repository), front ends that only print, generated lexers and
tables, and data handling without a protocol. Of the parts that are modelled, what is left out is
said in the section of the module and in the note of the component.
