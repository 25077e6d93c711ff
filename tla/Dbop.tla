-------------------------------- MODULE Dbop --------------------------------
(***************************************************************************)
(* The records of the tag files (libutil/dbop.c) and the sessions in which *)
(* gtags changes them (gtagsop.c, gpathop.c): GTAGS and GRTAGS allow many  *)
(* records under a key, GPATH one.  A session on a tag file first deletes, *)
(* in one scan, the records of the files that changed, then writes the new *)
(* ones, through sort(1) where there is one.                               *)
(***************************************************************************)
EXTENDS Btree, Bags

CONSTANTS Keys,          \* the keys of records
          Fids,          \* the data: the file a record belongs to
          Tags,          \* the records that may be put, <<key, data>>
          MetaKey,       \* the key of the record that every tag file begins with
          MetaDat,       \* its data
          Heads,         \* what prefix reads ask for
          Kinds,         \* the kinds of files: TRUE, with one record under a key
          Sorts,         \* whether there is a sort(1) to write tags through
          MaxWrites,     \* bound on the records put and the keys deleted
          MaxSessions,   \* bound on the sessions
          Strays         \* insertions that split a page with a stack astray happen

ASSUME ConstantsAssumption == /\ Kinds \subseteq BOOLEAN /\ Sorts \subseteq BOOLEAN
                              /\ Tags \subseteq Keys \X Fids

VARIABLES tree,       \* the tree, in memory while the file is open
          piped,      \* records go through sort(1)
          sorting,    \* the bag of the lines given to sort(1), <<key, data>>
          phase,      \* where the session is
          drop,       \* the deleteset of gtags_delete
          sessions,   \* how many sessions there have been
          writes      \* how many records were put, how many keys deleted

dbopVars == <<tree, piped, sorting, phase, drop, sessions, writes>>

Line == (Keys \cup {MetaKey}) \X (Fids \cup {MetaDat})

IsMeta(item) == item.dat = MetaDat
ItemAt(t, e) == Item(t.page[e.pg], e.index)

----------------------------------------------------------------------------
(* Reading (dbop_get, dbop_first, dbop_next).                              *)

dbop_get(t, key) == bt_get(t, key)

\* The cursor at entry e, or at the first record after it that is no meta record.
RECURSIVE SkipMeta(_, _)
SkipMeta(t, e) ==
  LET t1 == bt_setcur(t, e)
  IN IF e = NoEntry THEN [t |-> t, at |-> NoEntry]
     ELSE IF IsMeta(ItemAt(t, e)) THEN SkipMeta(t1, bt_seqadv(t1))
     ELSE [t |-> t1, at |-> e]

\* Sequential reading: a meta record is told by its key or its data, which both
\* begin with a blank.
dbop_first(t) == SkipMeta(t, Leftmost(t, P_ROOT))
dbop_next(t) == SkipMeta(t, bt_seqadv(t))

\* The items an indexed read returns: from the first one on, as long as the key
\* is the one asked for, or begins with it.
ReadAll(t, key, prefix) ==
  LET Wanted(e) == LET k == ItemAt(t, e).key
                   IN IF prefix THEN IsPrefix(key, k) ELSE k = key
      RECURSIVE From(_, _, _)
      From(t1, e, n) ==
        IF e = NoEntry \/ n = 0 \/ ~ Wanted(e) THEN <<>>
        ELSE LET t2 == bt_setcur(t1, e)
             IN <<ItemAt(t, e)>> \o From(t2, bt_seqadv(t2), n - 1)
  IN From(t, bt_first(t, key), Len(Entries(t)) + 1)

----------------------------------------------------------------------------
(* Writing.                                                                *)

\* sort -k 1,1 in the C locale: by the key, then by the whole line.
LineBefore(a, b) == \/ bt_defcmp(a[1], b[1]) < 0
                    \/ a[1] = b[1] /\ a[2] <= b[2]
FirstLine(lines) ==
  CHOOSE l \in BagToSet(lines) : \A m \in BagToSet(lines) : LineBefore(l, m)

\* dbop_put
dbop_put(key, dat) ==
  \/ /\ piped
     /\ sorting' = sorting (+) SetToBag({<<key, dat>>})
     /\ UNCHANGED <<tree, piped>>
  \/ /\ ~ piped
     /\ Strays \/ ~ Astray(tree, key, dat)
     /\ tree' = bt_put(tree, key, dat)
     /\ UNCHANGED <<piped, sorting>>

\* The tree after the sorted lines were put into it, one by one; or no tree, if an
\* insertion goes astray and such are left out.
RECURSIVE Drained(_, _)
Drained(t, lines) ==
  LET l == FirstLine(lines)
  IN IF lines = EmptyBag THEN {t}
     ELSE IF ~ Strays /\ Astray(t, l[1], l[2]) THEN {}
     ELSE Drained(bt_put(t, l[1], l[2]), lines (-) SetToBag({l}))

\* dbop_close: the lines of sort(1) are put into the tree, in their order, and
\* the tree goes to the file.
dbop_close ==
  /\ phase \in {"start", "put"}
  /\ phase' = "closed"
  /\ \E t \in Drained(tree, sorting) : tree' = Reopened(t)
  /\ piped' = FALSE /\ sorting' = EmptyBag
  /\ UNCHANGED <<drop, sessions, writes>>

\* dbop_open: a new file, which gtags_open and gpath_open begin with the meta
\* record, or the one there is.  Only tags are written through sort(1).
Create ==
  /\ phase = "closed" /\ sessions = 0
  /\ sessions' = 1
  /\ phase' = "start"
  /\ piped' \in Sorts /\ (piped' => ~ tree.nodups)
  /\ IF piped'
     THEN sorting' = SetToBag({<<MetaKey, MetaDat>>}) /\ UNCHANGED tree
     ELSE tree' = bt_put(tree, MetaKey, MetaDat) /\ UNCHANGED sorting
  /\ UNCHANGED <<drop, writes>>

Modify ==
  /\ phase = "closed" /\ sessions \in 1 .. MaxSessions - 1
  /\ sessions' = sessions + 1
  /\ phase' = "start"
  /\ piped' \in Sorts /\ (piped' => ~ tree.nodups)
  /\ UNCHANGED <<tree, sorting, drop, writes>>

\* A record of a tag file, or of GPATH.
Put(key, fid) ==
  /\ phase \in {"start", "put"}
  /\ writes < MaxWrites
  /\ writes' = writes + 1
  /\ dbop_put(key, fid)
  /\ phase' = "put"
  /\ UNCHANGED <<drop, sessions>>

\* dbop_delete by a key, which only GPATH does, among its puts.
Delete(key) ==
  /\ phase \in {"start", "put"}
  /\ tree.nodups
  /\ writes < MaxWrites
  /\ writes' = writes + 1
  /\ tree' = bt_bdelete(tree, key)
  /\ phase' = "put"
  /\ UNCHANGED <<piped, sorting, drop, sessions>>

\* gtags_delete, before anything is put: one scan, one record a step.
gtags_delete(deleteset) ==
  /\ phase = "start" /\ sessions > 1 /\ ~ tree.nodups
  /\ drop' = deleteset
  /\ phase' = "first"
  /\ UNCHANGED <<tree, piped, sorting, sessions, writes>>

DeleteScan ==
  /\ phase \in {"first", "next"}
  /\ LET r == IF phase = "first" THEN dbop_first(tree) ELSE dbop_next(tree)
     IN IF r.at = NoEntry
        THEN /\ phase' = "put" /\ drop' = {}
             /\ tree' = r.t
        ELSE /\ phase' = "next" /\ UNCHANGED drop
             /\ tree' = IF ItemAt(r.t, r.at).dat \in drop
                        THEN bt_delete_cursor(r.t) ELSE r.t
  /\ UNCHANGED <<piped, sorting, sessions, writes>>

----------------------------------------------------------------------------
Init == /\ \E nodups \in Kinds : tree = EmptyTree(nodups)
        /\ piped = FALSE /\ sorting = EmptyBag
        /\ phase = "closed"
        /\ drop = {}
        /\ sessions = 0
        /\ writes = 0

Next == \/ Create \/ Modify
        \/ \E r \in Tags : Put(r[1], r[2])
        \/ \E key \in Keys : Delete(key)
        \/ \E D \in SUBSET Fids \ {{}} : gtags_delete(D)
        \/ DeleteScan
        \/ dbop_close

Spec == Init /\ [][Next]_dbopVars

----------------------------------------------------------------------------
(* Properties.                                                             *)

PageKinds == {"leaf", "internal", "overflow", "free"}

\* The variables have the values the code gives them, and no page is overfull.
TypeOK ==
  /\ \A pg \in DOMAIN tree.page :
       LET h == tree.page[pg]
       IN /\ h.kind \in PageKinds
          /\ {h.prev, h.next} \subseteq {P_INVALID} \cup DOMAIN tree.page
          /\ h.kind \notin {"leaf", "internal"} => h.items = <<>>
          /\ Room(h) >= 0
  /\ tree.free \in {P_INVALID} \cup DOMAIN tree.page
  /\ tree.cursor.mark \in {"unset", "acquire", "at", "before", "after"}
  /\ piped \in BOOLEAN
  /\ IsABag(sorting) /\ BagToSet(sorting) \subseteq Line
  /\ sorting # EmptyBag => piped
  /\ phase \in {"closed", "start", "first", "next", "put"}
  /\ drop \subseteq Fids
  /\ sessions \in 0 .. MaxSessions
  /\ writes \in 0 .. MaxWrites

\* What a reader finds under a key, or under all keys that begin with a string,
\* is every record there is, each once, in the order of the file, and a get finds
\* one of them if there is one; whatever insertions, splits and deletions there
\* were before (dbop_get, dbop_first, dbop_next over __bt_search, __bt_seqadv).
ReadsRight ==
  LET all == Entries(tree)
  IN /\ \A key \in Keys \cup {MetaKey} :
          \E found \in {SelectSeq(all, LAMBDA e: e.key = key)} :
            /\ ReadAll(tree, key, FALSE) = found
            /\ IF found = <<>> THEN dbop_get(tree, key) = <<>>
               ELSE dbop_get(tree, key) \in {<<item>> : item \in ToSet(found)}
     /\ \A head \in Heads :
          ReadAll(tree, head, TRUE) = SelectSeq(all, LAMBDA e: IsPrefix(head, e.key))

\* The records of the file are in the order of their keys, and each level of the
\* tree is the list of the children of the level above: both chains of links run
\* through it and every key lies between the keys that part its page from the
\* pages beside (bt_page, bt_root, bt_broot, __bt_relink, __bt_pdelete).
InOrder ==
  /\ LET es == Entries(tree)
     IN \A i \in 1 .. Len(es) - 1 : bt_defcmp(es[i].key, es[i + 1].key) <= 0
  /\ \A level \in Range(Levels(tree)) : Chained(tree, level) /\ Parted(tree, level)

\* Every page of the file is in one place: once in the tree, once in the chain of
\* the big data of one record, or once on the free list.  None is lost and none
\* is used twice (__bt_new, __bt_free, __ovfl_put, __ovfl_delete).
PagesAccounted ==
  LET used == FlattenSeq(Levels(tree)) \o OverflowPages(tree) \o FreePages(tree)
  IN Len(used) = Len(tree.page) /\ ToSet(used) = DOMAIN tree.page

\* The bag of the records of a sequence of items, as <<key, data>>.
BagOf(s) == [r \in {<<s[i].key, s[i].dat>> : i \in DOMAIN s} |->
               Cardinality({i \in DOMAIN s : <<s[i].key, s[i].dat>> = r})]

\* The records of the file, the lines on their way through sort(1) included (TLC
\* evaluates what a set binds once).
Records == CHOOSE bag \in {BagOf(s) (+) sorting : s \in {Entries(tree)}} : TRUE

Promised == INSTANCE TagFile WITH Keys <- Keys \cup {MetaKey},
                                  Data <- Fids \cup {MetaDat},
                                  recs <- Records,
                                  single <- tree.nodups

\* The file is a bag of records: a put adds one, a deletion by files takes out
\* the records of these files and no other, and is over only when none is left,
\* though the scan erases the record it stands on and the pages below it go.
IsTagFile == Promised!Spec
=============================================================================
