------------------------------- MODULE Btree -------------------------------
(***************************************************************************)
(* The B-tree of the tag files (libdb): pages of sorted items, the pages   *)
(* of each level linked both ways, one cursor.  Its operations are         *)
(* operators on a tree; the program that calls them is Dbop.               *)
(*                                                                         *)
(* A key is the sequence of its bytes, the NUL at its end included.  What  *)
(* an item takes of a page, its slot in linp included, is counted in       *)
(* units.  Indices count from 0, as in the code; page 0 is the meta page,  *)
(* and as a link it means that there is no page.                           *)
(***************************************************************************)
EXTENDS Integers, Sequences, SequencesExt, FiniteSetsExt

CONSTANTS Full,       \* the room for items on a page (bt_psize - BTDATAOFF)
          Overhead,   \* what an item takes beside its key and its data
          DatLen,     \* DatLen[d]: the size of the data d
          OvflSize    \* a larger pair has its data on pages of its own

P_INVALID == 0
P_ROOT == 1

NewPage(kind, prev, next) == [kind |-> kind, prev |-> prev, next |-> next,
                              items |-> <<>>]

NoCursor == [mark |-> "unset", pg |-> P_INVALID, index |-> 0, key |-> <<>>]
NoHint == [order |-> "not", pg |-> P_INVALID, index |-> 0]

\* nroot: the tree of a new file is one empty leaf.
EmptyTree(nodups) ==
  [page |-> <<NewPage("leaf", P_INVALID, P_INVALID)>>, free |-> P_INVALID,
   nodups |-> nodups, cursor |-> NoCursor, hint |-> NoHint]

\* What the file keeps: the pages, the free list and the flag.
Reopened(t) == [t EXCEPT !.cursor = NoCursor, !.hint = NoHint]

----------------------------------------------------------------------------
\* The first place at which two keys differ; 0: one begins with the other.
DiffersAt(a, b) ==
  LET D == {i \in 1 .. Min({Len(a), Len(b)}) : a[i] # b[i]}
  IN IF D = {} THEN 0 ELSE Min(D)

OrderAt(a, b, i) == IF i = 0 THEN Len(a) - Len(b) ELSE a[i] - b[i]
bt_defcmp(a, b) == OrderAt(a, b, DiffersAt(a, b))

\* How many bytes of b are needed to tell it from a, the key before it.
ToldAt(a, b, i) == CASE i # 0 -> i
                     [] i = 0 /\ Len(a) < Len(b) -> Len(a) + 1
                     [] i = 0 /\ Len(a) >= Len(b) -> Len(a)
bt_defpfx(a, b) == ToldAt(a, b, DiffersAt(a, b))

NextIndex(h) == Len(h.items)
Item(h, index) == h.items[index + 1]

\* __bt_cmp: the leftmost key of an internal level is less than any key.
bt_cmp(h, key, index) ==
  IF h.kind = "internal" /\ index = 0 /\ h.prev = P_INVALID
  THEN 1
  ELSE bt_defcmp(key, Item(h, index).key)

Matches(t, key, pg, index) == bt_cmp(t.page[pg], key, index) = 0

\* The room an item takes, and the room left on a page.
IsBig(key, dat) == Len(key) + DatLen[dat] > OvflSize
Need(item) ==
  Overhead + Len(item.key)
    + IF "pg" \in DOMAIN item \/ item.ovfl # P_INVALID THEN 0 ELSE DatLen[item.dat]
RECURSIVE Needs(_)
Needs(items) == IF items = <<>> THEN 0 ELSE Need(Head(items)) + Needs(Tail(items))
Room(h) == Full - Needs(h.items)

\* Mutant: forgets the slot in linp.
MUT_Fits_NoSlot(h, need) == need - 1 <= Room(h)

Fits(h, need) == need <= Room(h)

----------------------------------------------------------------------------
\* __bt_free: the page becomes the head of the free list.
bt_free(t, pg) ==
  [t EXCEPT !.page[pg] = NewPage("free", P_INVALID, t.free), !.free = pg]

\* __bt_new: a page from the free list, or one more at the end of the file.
bt_new(t) ==
  IF t.free = P_INVALID
  THEN [t  |-> [t EXCEPT !.page = Append(@, NewPage("free", P_INVALID, P_INVALID))],
        pg |-> Len(t.page) + 1]
  ELSE [t  |-> [t EXCEPT !.free = t.page[t.free].next], pg |-> t.free]

\* __bt_relink: link around a page that is about to go.
bt_relink(t, h) ==
  LET t1 == IF h.next = P_INVALID THEN t ELSE [t EXCEPT !.page[h.next].prev = h.prev]
  IN IF h.prev = P_INVALID THEN t1 ELSE [t1 EXCEPT !.page[h.prev].next = h.next]

\* __ovfl_put: data of that size on a chain of new pages, the last one linked
\* to none.
RECURSIVE ovfl_put(_, _)
ovfl_put(t, size) ==
  LET new  == bt_new(t)
      rest == IF size <= Full THEN [t |-> new.t, pg |-> P_INVALID]
              ELSE ovfl_put(new.t, size - Full)
  IN [t  |-> [rest.t EXCEPT !.page[new.pg] = NewPage("overflow", P_INVALID, rest.pg)],
      pg |-> new.pg]

\* __ovfl_delete: the pages of the chain are free.
RECURSIVE ovfl_delete(_, _, _)
ovfl_delete(t, pg, size) ==
  LET t1 == bt_free(t, pg)
  IN IF size <= Full THEN t1 ELSE ovfl_delete(t1, t.page[pg].next, size - Full)

----------------------------------------------------------------------------
(* __bt_search.  The result is the page and the index of the key or of its *)
(* place, and the stack of pages and indices that led to the leaf.         *)

\* The binary search on one page.
RECURSIVE Probe(_, _, _, _)
Probe(h, key, base, lim) ==
  LET index == base + lim \div 2
      cmp   == bt_cmp(h, key, index)
  IN IF lim = 0 THEN [exact |-> FALSE, index |-> base]
     ELSE IF cmp = 0 THEN [exact |-> TRUE, index |-> index]
     ELSE IF cmp > 0 THEN Probe(h, key, index + 1, (lim - 1) \div 2)
     ELSE Probe(h, key, base, lim \div 2)

\* The child in which the place p of the key on an internal page is.
ChildAt(p) == IF p.exact \/ p.index = 0 THEN p.index ELSE p.index - 1

RECURSIVE Descend(_, _, _, _)
Descend(t, key, pg, stack) ==
  LET h == t.page[pg]
      p == Probe(h, key, 0, NextIndex(h))
      i == ChildAt(p)
  IN IF h.kind = "leaf"
     THEN [pg |-> pg, index |-> p.index, exact |-> p.exact, stack |-> stack]
     ELSE Descend(t, key, Item(h, i).pg, Append(stack, [pg |-> pg, index |-> i]))

\* With duplicates the key may be at the edge of the page beside (__bt_sprev,
\* __bt_snext); the stack stays that of the page the search arrived at.
OrBeside(t, key, e) ==
  LET h == t.page[e.pg]
  IN IF e.exact \/ t.nodups
     THEN e
     ELSE IF /\ e.index = 0 /\ h.prev # P_INVALID
             /\ Matches(t, key, h.prev, NextIndex(t.page[h.prev]) - 1)
     THEN [e EXCEPT !.pg = h.prev, !.exact = TRUE,
                    !.index = NextIndex(t.page[h.prev]) - 1]
     ELSE IF e.index = NextIndex(h) /\ h.next # P_INVALID /\ Matches(t, key, h.next, 0)
     THEN [e EXCEPT !.pg = h.next, !.exact = TRUE, !.index = 0]
     ELSE e
bt_search(t, key) == OrBeside(t, key, Descend(t, key, P_ROOT, <<>>))

\* __bt_get: the record the search finds; <<>>: there is none.
Found(t, e) == IF e.exact THEN <<Item(t.page[e.pg], e.index)>> ELSE <<>>
bt_get(t, key) == Found(t, bt_search(t, key))

----------------------------------------------------------------------------
(* Reading through the cursor (__bt_seq).                                  *)

NoEntry == [pg |-> P_INVALID, index |-> 0]

\* __bt_setcur
bt_setcur(t, e) == [t EXCEPT !.cursor = [mark |-> "at", pg |-> e.pg,
                                         index |-> e.index, key |-> <<>>]]

EntryBefore(t, e) ==
  LET h == t.page[e.pg]
  IN IF e.index > 0 THEN [pg |-> e.pg, index |-> e.index - 1]
     ELSE IF h.prev = P_INVALID THEN NoEntry
     ELSE [pg |-> h.prev, index |-> NextIndex(t.page[h.prev]) - 1]

EntryAfter(t, e) ==
  IF e.index + 1 < NextIndex(t.page[e.pg]) THEN [pg |-> e.pg, index |-> e.index + 1]
  ELSE [pg |-> t.page[e.pg].next, index |-> 0]

RECURSIVE WalkBack(_, _, _)
WalkBack(t, key, e) ==
  LET b == EntryBefore(t, e)
  IN IF b # NoEntry /\ Matches(t, key, b.pg, b.index) THEN WalkBack(t, key, b) ELSE e

\* Mutant: whichever record of the key the search finds.
MUT_FirstFrom_Any(t, key, s) ==
  LET e == [pg |-> s.pg, index |-> s.index]
  IN IF ~ s.exact /\ s.index = NextIndex(t.page[s.pg]) THEN EntryAfter(t, e) ELSE e

\* __bt_first: the first record of the key, or the one after its place.
FirstFrom(t, key, s) ==
  LET e == [pg |-> s.pg, index |-> s.index]
  IN IF s.exact THEN IF t.nodups THEN e ELSE WalkBack(t, key, e)
     ELSE IF s.index = NextIndex(t.page[s.pg]) THEN EntryAfter(t, e)
     ELSE e
bt_first(t, key) == FirstFrom(t, key, bt_search(t, key))

\* __bt_seqset with R_FIRST
RECURSIVE Leftmost(_, _)
Leftmost(t, pg) ==
  LET h == t.page[pg]
  IN IF h.items = <<>> THEN NoEntry
     ELSE IF h.kind = "leaf" THEN [pg |-> pg, index |-> 0]
     ELSE Leftmost(t, Item(h, 0).pg)

\* Mutant: a cursor that moved forward to a duplicate moves once more.
MUT_bt_seqadv_NoAfter(t) ==
  LET c == t.cursor
      e == [pg |-> c.pg, index |-> c.index]
  IN CASE c.mark = "unset" -> Leftmost(t, P_ROOT)
       [] c.mark = "acquire" -> bt_first(t, c.key)
       [] c.mark \in {"after", "at", "before"} -> EntryAfter(t, e)

\* __bt_seqadv with R_NEXT.  The record at the cursor may be gone: then the
\* cursor is on a duplicate (after it or before it) or holds the key.
bt_seqadv(t) ==
  LET c == t.cursor
      e == [pg |-> c.pg, index |-> c.index]
  IN CASE c.mark = "unset" -> Leftmost(t, P_ROOT)
       [] c.mark = "acquire" -> bt_first(t, c.key)
       [] c.mark = "after" -> e
       [] c.mark \in {"at", "before"} -> EntryAfter(t, e)

----------------------------------------------------------------------------
(* Deletion (bt_delete.c).                                                 *)

OnRecord(c) == c.mark \in {"at", "after", "before"}

\* __bt_curdel: the cursor leaves a record that goes.
bt_curdel(t, pg, index) ==
  LET h    == t.page[pg]
      key  == Item(h, index).key
      last == NextIndex(h) - 1
      Dup(p, i) == ~ t.nodups /\ p # P_INVALID /\ Matches(t, key, p, i)
      To(mark, p, i) == [t EXCEPT !.cursor = [mark |-> mark, pg |-> p,
                                              index |-> i, key |-> <<>>]]
      before == EntryBefore(t, [pg |-> pg, index |-> index])
      after  == EntryAfter(t, [pg |-> pg, index |-> index])
  IN IF index > 0 /\ Dup(pg, index - 1) THEN To("before", pg, index - 1)
     ELSE IF index < last /\ Dup(pg, index + 1) THEN To("after", pg, index + 1)
     ELSE IF index = 0 /\ Dup(before.pg, before.index)
       THEN To("before", before.pg, before.index)
     ELSE IF index = last /\ Dup(after.pg, after.index)
       THEN To("after", after.pg, after.index)
     ELSE [t EXCEPT !.cursor = [mark |-> "acquire", pg |-> pg, index |-> index,
                                key |-> key]]

\* Mutant: the pages of big data are not given back.
MUT_FreeData_Leaks(t, item) == t

FreeData(t, item) == IF item.ovfl = P_INVALID THEN t
                     ELSE ovfl_delete(t, item.ovfl, DatLen[item.dat])

\* A record of the page is out; a cursor on one after it moves with it.
Erased(t, pg, index) ==
  LET c == t.cursor
  IN [t EXCEPT !.page[pg].items = RemoveAt(@, index + 1),
               !.cursor.index = IF OnRecord(c) /\ c.pg = pg /\ c.index > index
                                THEN @ - 1 ELSE @]

\* __bt_dleaf: one record goes.
bt_dleaf(t, pg, index) ==
  LET c  == t.cursor
      t1 == IF OnRecord(c) /\ c.pg = pg /\ c.index = index
            THEN bt_curdel(t, pg, index) ELSE t
  IN Erased(FreeData(t1, Item(t.page[pg], index)), pg, index)

\* The parents of a page that goes: one that had no other child goes too, but
\* for the root, which becomes an empty leaf.
RECURSIVE RemoveFromParents(_, _)
RemoveFromParents(t, stack) ==
  LET parent == Last(stack)
      h      == t.page[parent.pg]
  IN IF stack = <<>> THEN t
     ELSE IF NextIndex(h) > 1
     THEN [t EXCEPT !.page[parent.pg].items = RemoveAt(@, parent.index + 1)]
     ELSE IF parent.pg = P_ROOT
     THEN [t EXCEPT !.page[P_ROOT].kind = "leaf", !.page[P_ROOT].items = <<>>]
     ELSE RemoveFromParents(bt_free(bt_relink(t, h), parent.pg), Front(stack))

\* __bt_pdelete
bt_pdelete(t, stack, pg) ==
  LET t1 == RemoveFromParents(t, stack)
  IN IF pg = P_ROOT THEN t1 ELSE bt_free(bt_relink(t1, t1.page[pg]), pg)

\* The stack of the next page of the level.
RECURSIVE StepRight(_, _)
StepRight(t, stack) ==
  LET top == Last(stack)
      up  == StepRight(t, Front(stack))
  IN IF stack = <<>> THEN <<>>
     ELSE IF top.index # NextIndex(t.page[top.pg]) - 1
     THEN [stack EXCEPT ![Len(stack)].index = @ + 1]
     ELSE IF up = <<>> THEN <<>>
     ELSE Append(up, [pg |-> Item(t.page[Last(up).pg], Last(up).index).pg, index |-> 0])

\* __bt_stkacq: the stack of the page of the cursor.  The cursor keeps no key
\* (__bt_setcur dropped it), so that the search arrives at the first leaf; from
\* there the walk to the left finds nothing.
StackFrom(t, start) ==
  LET RECURSIVE Walk(_, _)
      Walk(pg, stack) ==
        IF pg = t.cursor.pg THEN stack
        ELSE IF t.page[pg].next = P_INVALID THEN start.stack
        ELSE Walk(t.page[pg].next, StepRight(t, stack))
  IN Walk(start.pg, start.stack)
bt_stkacq(t) == StackFrom(t, bt_search(t, <<>>))

DropEmpty(t, stack, pg) ==
  IF t.page[pg].items = <<>> THEN bt_pdelete(t, stack, pg) ELSE t
DeleteEntry(t, stack, pg, index) == DropEmpty(bt_dleaf(t, pg, index), stack, pg)

\* __bt_delete with R_CURSOR: nothing if the record at the cursor is gone.
bt_delete_cursor(t) ==
  LET c == t.cursor
  IN IF c.mark # "at" THEN t
     ELSE DeleteEntry(t, IF NextIndex(t.page[c.pg]) = 1 THEN bt_stkacq(t) ELSE <<>>,
                      c.pg, c.index)

\* __bt_delete by a key, of a tree without duplicates.
DeleteFound(t, e) == IF e.exact THEN DeleteEntry(t, e.stack, e.pg, e.index) ELSE t
bt_bdelete(t, key) == DeleteFound(t, bt_search(t, key))

----------------------------------------------------------------------------
(* Splits (bt_split.c).                                                    *)

\* What is on a page whose slot was never filled in (see PlaceOf).
Garbage == [key |-> <<>>, dat |-> 0, ovfl |-> P_INVALID]

\* bt_psplit.  Half of the room of the page, the new item at index skip
\* included, stays on the left.  A new item that fills the half alone, at index
\* 0, leaves a slot of the right page open that nobody fills.
LeftHalf(items, skip, new) ==
  LET top == Len(items)
      RECURSIVE Fill(_, _, _)
      Fill(nxt, off, used) ==
        LET sum  == used + Need(IF off = skip THEN new ELSE items[nxt + 1])
            next == IF off = skip THEN nxt ELSE nxt + 1
        IN IF nxt = top - 1 \/ (skip <= off /\ sum >= Full)
           THEN [nxt |-> nxt, off |-> off - 1]
           ELSE IF sum >= Full \div 2
           THEN [nxt |-> next, off |-> off]
           ELSE Fill(next, off + 1, sum)
  IN Fill(0, 0, 0)
Halves(items, skip, new, f) ==
  LET l == SubSeq(items, 1, f.nxt)
      r == SubSeq(items, f.nxt + 1, Len(items))
  IN IF skip <= f.off
     THEN [nxt |-> f.nxt, left |-> InsertAt(l, skip + 1, new),
           right |-> IF f.nxt = 0 THEN <<Garbage>> \o r ELSE r]
     ELSE [nxt |-> f.nxt, left |-> l, right |-> InsertAt(r, skip - f.nxt + 1, new)]
bt_psplit(items, skip, new) == Halves(items, skip, new, LeftHalf(items, skip, new))

\* The cursor on a page that splits.
CursorToHalf(t, pg, l, r, skip, nxt) ==
  LET c == t.cursor
      i == IF c.index >= skip THEN c.index + 1 ELSE c.index
  IN IF c.mark = "unset" \/ c.pg # pg THEN t
     ELSE [t EXCEPT !.cursor.pg = IF i < nxt THEN l ELSE r,
                    !.cursor.index = IF i < nxt THEN i ELSE i - nxt]

\* bt_broot: the root is an internal page with the two halves as its children.
bt_broot(t, l, r) ==
  [t EXCEPT !.page[P_ROOT].kind = "internal",
            !.page[P_ROOT].items = <<[key |-> <<>>, pg |-> l],
                                     [key |-> Item(t.page[r], 0).key, pg |-> r]>>]

\* bt_root: the root splits into two new pages.
SplitRoot(t, skip, new) ==
  LET h  == t.page[P_ROOT]
      n1 == bt_new(t)
      n2 == bt_new(n1.t)
      l  == n1.pg
      r  == n2.pg
      s  == bt_psplit(h.items, skip, new)
      t1 == [n2.t EXCEPT
               !.page[l] = [NewPage(h.kind, P_INVALID, r) EXCEPT !.items = s.left],
               !.page[r] = [NewPage(h.kind, l, P_INVALID) EXCEPT !.items = s.right]]
  IN [t |-> bt_broot(CursorToHalf(t1, P_ROOT, l, r, skip, s.nxt), l, r),
      l |-> l, r |-> r]

\* Mutant: the page after the new one keeps its link to the left half.
MUT_SplitPage_StalePrev(t, pg, skip, new) ==
  LET h  == t.page[pg]
      n  == bt_new(t)
      r  == n.pg
      s  == bt_psplit(h.items, skip, new)
  IN [t |-> [n.t EXCEPT !.page[r] = [NewPage(h.kind, pg, h.next) EXCEPT !.items = s.right],
                        !.page[pg].next = r, !.page[pg].items = s.left],
      l |-> pg, r |-> r]

\* bt_page: a new page to the right.  An item that comes after all others of the
\* level is alone on it.
SplitPage(t, pg, skip, new) ==
  LET h  == t.page[pg]
      n  == bt_new(t)
      r  == n.pg
      s  == bt_psplit(h.items, skip, new)
      t1 == [n.t EXCEPT !.page[r] = NewPage(h.kind, pg, h.next), !.page[pg].next = r]
      t2 == IF h.next = P_INVALID THEN t1 ELSE [t1 EXCEPT !.page[h.next].prev = r]
  IN [t |-> IF h.next = P_INVALID /\ skip = NextIndex(h)
            THEN [t1 EXCEPT !.page[r].items = <<new>>]
            ELSE CursorToHalf([t2 EXCEPT !.page[pg].items = s.left,
                                         !.page[r].items = s.right],
                              pg, pg, r, skip, s.nxt),
      l |-> pg, r |-> r]

\* The key of the new right page in its parent: no more of it than is needed,
\* but above leaves only, and never at the left edge of the level.
Separator(t, h, index, l, r) ==
  LET first == Item(t.page[r], 0).key
      last  == Item(t.page[l], NextIndex(t.page[l]) - 1).key
      n     == bt_defpfx(last, first)
  IN IF /\ t.page[r].kind = "leaf"
        /\ h.prev # P_INVALID \/ index > 1
        /\ n < Len(first)
     THEN SubSeq(first, 1, n)
     ELSE first

\* __bt_split: the new page goes to the parent, after the entry of the stack, and
\* the parent may have to split in its turn.
RECURSIVE bt_split(_, _, _, _, _)
ToParent(s, stack) ==
  LET parent == Last(stack)
      h      == s.t.page[parent.pg]
      index  == parent.index + 1
      entry  == [key |-> Separator(s.t, h, index, s.l, s.r), pg |-> s.r]
  IN IF stack = <<>> THEN s.t
     ELSE IF Fits(h, Need(entry))
     THEN [s.t EXCEPT !.page[parent.pg].items = InsertAt(@, index + 1, entry)]
     ELSE bt_split(s.t, Front(stack), parent.pg, index, entry)
bt_split(t, stack, pg, skip, new) ==
  ToParent(IF pg = P_ROOT THEN SplitRoot(t, skip, new) ELSE SplitPage(t, pg, skip, new),
           stack)

----------------------------------------------------------------------------
(* Insertion (bt_put.c).                                                   *)

\* bt_fast: the last insertion was at an edge of the tree; the new item may go
\* beside it.  The hint is dropped when it does not.
bt_fast(t, key, need) ==
  LET h       == t.page[t.hint.pg]
      index   == t.hint.index
      cmp     == bt_cmp(h, key, index)
      forward == t.hint.order = "forward"
  IN /\ Fits(h, need)
     /\ IF forward THEN h.next = P_INVALID /\ index = NextIndex(h) - 1 /\ cmp >= 0
        ELSE h.prev = P_INVALID /\ index = 0 /\ cmp <= 0

\* Where the key goes: [t, pg, index, exact, stack].
PlaceOf(t, key, need) ==
  LET o     == t.hint
      after == o.order = "forward" /\ ~ Matches(t, key, o.pg, o.index)
      index == IF after THEN o.index + 1 ELSE o.index
      miss  == [t EXCEPT !.hint = NoHint]
  IN IF o.order # "not" /\ bt_fast(t, key, need)
     THEN [t |-> [t EXCEPT !.hint.index = index],
           e |-> [pg |-> o.pg, index |-> index, stack |-> <<>>,
                  exact |-> Matches(t, key, o.pg, o.index)]]
     ELSE [t |-> miss, e |-> bt_search(miss, key)]

\* The hint an insertion at an edge of the tree leaves.
HintAfter(t, pg, index) ==
  LET h == t.page[pg]
  IN IF t.hint.order # "not" THEN t.hint
     ELSE IF h.next = P_INVALID
     THEN IF index = NextIndex(h) - 1
          THEN [order |-> "forward", pg |-> pg, index |-> index] ELSE NoHint
     ELSE IF h.prev = P_INVALID /\ index = 0
     THEN [order |-> "back", pg |-> pg, index |-> 0]
     ELSE NoHint

InsertOnPage(t, pg, index, item) ==
  LET c  == t.cursor
      t1 == [t EXCEPT !.page[pg].items = InsertAt(@, index + 1, item),
                      !.cursor.index = IF OnRecord(c) /\ c.pg = pg /\ c.index >= index
                                       THEN @ + 1 ELSE @]
  IN [t1 EXCEPT !.hint = HintAfter(t1, pg, index)]

\* __bt_put: a new record; without duplicates it takes the place of the one with
\* its key.
PutOnPage(t, e, item) ==
  IF Fits(t.page[e.pg], Need(item))
  THEN InsertOnPage(t, e.pg, e.index, item)
  ELSE bt_split(t, e.stack, e.pg, e.index, item)
PutAt(p, item) ==
  PutOnPage(IF p.e.exact /\ p.t.nodups THEN bt_dleaf(p.t, p.e.pg, p.e.index) ELSE p.t,
            p.e, item)
PutItem(t, item) == PutAt(PlaceOf(t, item.key, Need(item)), item)
bt_put(t, key, dat) ==
  LET o == IF IsBig(key, dat) THEN ovfl_put(t, DatLen[dat])
           ELSE [t |-> t, pg |-> P_INVALID]
  IN PutItem(o.t, [key |-> key, dat |-> dat, ovfl |-> o.pg])

\* The insertion of the key would split a page with the stack of the page beside.
StackOfBeside(t, e) == /\ e.stack # <<>>
                       /\ Item(t.page[Last(e.stack).pg], Last(e.stack).index).pg # e.pg
Astray(t, key, dat) ==
  LET item == [key |-> key, dat |-> dat, ovfl |-> IF IsBig(key, dat) THEN 1 ELSE 0]
      e    == PlaceOf(t, key, Need(item)).e
  IN ~ Fits(t.page[e.pg], Need(item)) /\ StackOfBeside(t, e)

----------------------------------------------------------------------------
(* What the tree holds.                                                    *)

\* The pages of a chain; one longer than the file is cut.
Chain(t, pg) ==
  LET N == Len(t.page)
      from[p \in 0 .. N, n \in 0 .. N] ==
        IF p = P_INVALID \/ n = 0 THEN <<>> ELSE <<p>> \o from[t.page[p].next, n - 1]
  IN from[pg, N]

\* The items of pages, one page after the other.
ItemsOf(t, pgs) == FlattenSeq([i \in DOMAIN pgs |-> t.page[pgs[i]].items])

\* The leaves from the left to the right, and the records on them.
LeafChain(t) ==
  LET first[pg \in DOMAIN t.page] ==
        IF t.page[pg].kind = "internal" THEN first[Item(t.page[pg], 0).pg] ELSE pg
  IN Chain(t, first[P_ROOT])
Entries(t) == ItemsOf(t, LeafChain(t))

\* The levels of the tree from the root down, each the children of the one above.
Levels(t) ==
  LET Below(level) ==
        LET items == ItemsOf(t, level) IN [i \in DOMAIN items |-> items[i].pg]
      RECURSIVE From(_)
      From(level) == IF \A i \in DOMAIN level : t.page[level[i]].kind = "leaf"
                     THEN <<level>>
                     ELSE <<level>> \o From(Below(level))
  IN From(<<P_ROOT>>)

\* A level is linked both ways, in its order.
Chained(t, level) ==
  \A i \in DOMAIN level :
    /\ t.page[level[i]].prev = IF i = 1 THEN P_INVALID ELSE level[i - 1]
    /\ t.page[level[i]].next = IF i = Len(level) THEN P_INVALID ELSE level[i + 1]

\* The keys in the leaves under a page.
KeysUnder(t, pg) ==
  LET RECURSIVE Under(_)
      Under(p) == LET h == t.page[p]
                  IN IF h.kind = "leaf" THEN {h.items[i].key : i \in DOMAIN h.items}
                     ELSE UNION {Under(h.items[i].pg) : i \in DOMAIN h.items}
  IN Under(pg)

\* The keys of internal pages part the leaves under them.  The first key of a page
\* parts nothing: its page is bounded by the keys above, and the pages that key was
\* cut from may be gone.
Parted(t, level) ==
  \A pg \in Range(level) :
    LET h == t.page[pg]
    IN h.kind = "internal" =>
         \A i \in 2 .. Len(h.items) :
           /\ \A k \in KeysUnder(t, h.items[i].pg) : bt_defcmp(h.items[i].key, k) <= 0
           /\ \A k \in KeysUnder(t, h.items[i - 1].pg) : bt_defcmp(k, h.items[i].key) <= 0

\* The pages that hold no records of their own.
FreePages(t) == Chain(t, t.free)
OverflowPages(t) ==
  LET big == SelectSeq(Entries(t), LAMBDA item: item.ovfl # P_INVALID)
  IN FlattenSeq([i \in DOMAIN big |-> Chain(t, big[i].ovfl)])
=============================================================================
