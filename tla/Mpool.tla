------------------------------- MODULE Mpool -------------------------------
(***************************************************************************)
(* The page cache beneath every B-tree (libdb/mpool.c).                    *)
(*                                                                         *)
(* The B-tree gets a page, which pins it, reads or changes it in place and *)
(* puts it back, saying whether it is dirty.  A page that is not pinned    *)
(* may lose its buffer to another page, the least recently used first; if  *)
(* it is dirty it is written first.  mpool_sync writes the dirty pages.    *)
(*                                                                         *)
(* The hash table is the domain of buf.  The B-tree is what its assertions *)
(* and the DEBUG checks of mpool.c ask: it gets no page it holds, puts     *)
(* only what it holds, and says so when it has changed a page.             *)
(***************************************************************************)
EXTENDS Integers, Sequences, FiniteSets

CONSTANTS Vals,      \* what a page may hold
          Hole,      \* what the file holds where no page was written
          MaxCache,  \* maxcache: buffers before reuse begins
          MaxPages,  \* bound on the pages of a file
          MaxBufs,   \* bound on the buffers ever allocated
          MaxHeld    \* bound on the pages the B-tree holds at once

ASSUME MpoolAssumption ==
  /\ MaxCache \in Nat /\ MaxPages \in Nat /\ MaxBufs \in Nat /\ MaxHeld \in Nat
  /\ Hole \notin Vals /\ Vals # {}

VARIABLES
  lru,       \* the queue of buffers by use, the least recent first
  buf,       \* the buffers: page number -> contents and flags
  curcache,  \* buffers allocated
  npages,    \* pages of the file, the new ones included
  file, fsize,   \* the file and its size in pages
  phase,     \* "closed", "open", or "synced"
  held,      \* the pages the B-tree has pointers to
  touched,   \* ... and those of them it has changed
  versions,  \* history: what the file may hold of each page after a kill
  peak       \* history: the most pages held at once

pool == <<lru, buf, curcache, npages>>
poolFile == <<file, fsize>>
client == <<held, touched>>
mpoolVars == <<pool, poolFile, phase, client, versions, peak>>

Pgnos == 0 .. MaxPages - 1
Cached == DOMAIN buf
Pinned(p) == buf[p].pinned
Dirty(p) == buf[p].dirty

\* CIRCLEQ_REMOVE, and CIRCLEQ_INSERT_TAIL after it.
Without(q, p) == LET i == CHOOSE i \in DOMAIN q : q[i] = p
                 IN SubSeq(q, 1, i - 1) \o SubSeq(q, i + 1, Len(q))

\* Mutant: the page stays at its old place too.
MUT_ToTail_NoRemove(q, p) == Append(q, p)

ToTail(q, p) == Append(Without(q, p), p)

\* A buffer is given to a page, pinned.
Give(b, p, v) ==
  [q \in DOMAIN b \cup {p} |->
     IF q = p THEN [val |-> v, dirty |-> FALSE, pinned |-> TRUE] ELSE b[q]]

Drop(b, p) == [q \in DOMAIN b \ {p} |-> b[q]]

\* mpool_write: the pages between the end of the file and p become holes.
mpool_write(p) ==
  /\ fsize' = IF p < fsize THEN fsize ELSE p + 1
  /\ file' = [q \in 0 .. fsize' - 1 |->
                IF q = p THEN buf[p].val ELSE IF q < fsize THEN file[q] ELSE Hole]

----------------------------------------------------------------------------
\* The first buffer of the queue that is not pinned.
FirstUnpinned(v) ==
  /\ v \in Cached /\ ~ Pinned(v)
  /\ \A n \in DOMAIN lru :
       lru[n] = v => \A m \in 1 .. n - 1 : Pinned(lru[m])

\* mpool_bkt, the buffer being one that page v gives up ...
Reuse(v) ==
  /\ curcache >= MaxCache
  /\ FirstUnpinned(v)
  /\ IF Dirty(v) THEN mpool_write(v) ELSE UNCHANGED poolFile
  /\ UNCHANGED curcache

\* ... or a new one: there is room, or every page is pinned.
Allocate ==
  /\ curcache < MaxCache \/ \A p \in Cached : Pinned(p)
  /\ curcache < MaxBufs
  /\ curcache' = curcache + 1
  /\ UNCHANGED poolFile

\* mpool_bkt fails if the page to write cannot be written; nothing has
\* changed then, and its callers return NULL.

Hold(p) == /\ p \notin held
           /\ Cardinality(held) < MaxHeld
           /\ held' = held \cup {p}
           /\ peak' = IF Cardinality(held) < peak THEN peak ELSE Cardinality(held) + 1

\* A new page at the end of the file.  Its buffer holds what it held before.
mpool_new(v) ==
  /\ phase = "open"
  /\ npages < MaxPages
  /\ npages' = npages + 1
  /\ Hold(npages)
  /\ touched' = touched \cup {npages}
  /\ \/ /\ Allocate
        /\ buf' = Give(buf, npages, v)
        /\ lru' = Append(lru, npages)
     \/ \E q \in Cached : /\ Reuse(q)
                          /\ buf' = Give(Drop(buf, q), npages, v)
                          /\ lru' = Append(Without(lru, q), npages)
  /\ versions' = [q \in 0 .. npages |-> IF q = npages THEN {Hole} ELSE versions[q]]
  /\ UNCHANGED phase

\* mpool_get of a page in the cache: it moves to the tail of the queue.
GetCached(p) ==
  /\ phase = "open"
  /\ p \in Cached
  /\ Hold(p)
  /\ buf' = [buf EXCEPT ![p] = [val |-> @.val, dirty |-> @.dirty, pinned |-> TRUE]]
  /\ lru' = ToTail(lru, p)
  /\ UNCHANGED <<curcache, npages, poolFile, phase, touched, versions>>

\* mpool_get of another page: a buffer, then pread.
GetRead(p) ==
  /\ phase = "open"
  /\ p < npages /\ p \notin Cached
  /\ Hold(p)
  /\ \/ /\ Allocate
        /\ p < fsize
        /\ buf' = Give(buf, p, file[p])
        /\ lru' = Append(lru, p)
     \/ \E q \in Cached : /\ Reuse(q)
                          /\ p < fsize'
                          /\ buf' = Give(Drop(buf, q), p, file'[p])
                          /\ lru' = Append(Without(lru, q), p)
  /\ UNCHANGED <<npages, phase, touched, versions>>

\* pread fails or the file is too short: NULL, and the buffer is lost, though
\* curcache still counts it.
GetFails(p) ==
  /\ phase = "open"
  /\ p < npages /\ p \notin Cached
  /\ \/ Allocate /\ UNCHANGED <<buf, lru>>
     \/ \E q \in Cached : Reuse(q) /\ buf' = Drop(buf, q) /\ lru' = Without(lru, q)
  /\ UNCHANGED <<npages, phase, client, versions, peak>>

mpool_get(p) == GetCached(p) \/ GetRead(p) \/ GetFails(p)

\* The B-tree changes a page it holds.
Change(p, v) ==
  /\ p \in held
  /\ buf' = [buf EXCEPT ![p] = [val |-> v, dirty |-> @.dirty, pinned |-> @.pinned]]
  /\ touched' = touched \cup {p}
  /\ UNCHANGED <<lru, curcache, npages, poolFile, phase, held, versions, peak>>

\* Mutant: the flag is set to what this caller says, whatever an earlier one said.
MUT_mpool_put_Overwrites(p, dirty) ==
  /\ p \in held
  /\ p \in touched => dirty
  /\ buf' = [buf EXCEPT ![p] = [val |-> @.val, pinned |-> FALSE, dirty |-> dirty]]
  /\ held' = held \ {p} /\ touched' = touched \ {p}
  /\ versions' = IF dirty THEN [versions EXCEPT ![p] = @ \cup {buf[p].val}]
                          ELSE versions
  /\ UNCHANGED <<lru, curcache, npages, poolFile, phase, peak>>

mpool_put(p, dirty) ==
  /\ p \in held
  /\ p \in touched => dirty
  /\ buf' = [buf EXCEPT ![p] = [val |-> @.val, pinned |-> FALSE,
                                dirty |-> @.dirty \/ dirty]]
  /\ held' = held \ {p} /\ touched' = touched \ {p}
  /\ versions' = IF dirty THEN [versions EXCEPT ![p] = @ \cup {buf[p].val}]
                          ELSE versions
  /\ UNCHANGED <<lru, curcache, npages, poolFile, phase, peak>>

\* A set of pages goes to the file.
WritePages(S) ==
  /\ \E last \in {p + 1 : p \in S} \cup {fsize} :
       (\A p \in S : p < last) /\ fsize <= last /\ fsize' = last
  /\ file' = [p \in 0 .. fsize' - 1 |->
                IF p \in S THEN buf[p].val ELSE IF p < fsize THEN file[p] ELSE Hole]
  /\ buf' = [p \in Cached |-> IF p \in S
               THEN [val |-> buf[p].val, dirty |-> FALSE, pinned |-> buf[p].pinned]
               ELSE buf[p]]

DirtyPages == {p \in Cached : Dirty(p)}

\* What the B-tree would read of a page.
Content(p) == IF p \in Cached THEN buf[p].val
              ELSE IF p < fsize THEN file[p] ELSE Hole

\* __bt_sync, from __bt_close, when the B-tree holds nothing.
mpool_sync ==
  /\ phase = "open"
  /\ held = {}
  /\ phase' = "synced"
  /\ WritePages(DirtyPages)
  /\ versions' = [p \in 0 .. npages - 1 |-> {Content(p)}]
  /\ UNCHANGED <<lru, curcache, npages, client, peak>>

\* A write fails when the pages before it in the queue are written.  The
\* caller of __bt_close looks at nothing, and the process goes on to its end.
SyncFails ==
  /\ phase = "open"
  /\ held = {}
  /\ phase' = "failed"
  /\ \E n \in 0 .. Len(lru) : WritePages({lru[m] : m \in 1 .. n} \cap DirtyPages)
  /\ UNCHANGED <<lru, curcache, npages, client, versions, peak>>

ForgetPool ==
  /\ phase' = "closed"
  /\ buf' = [p \in {} |-> 0]
  /\ lru' = <<>>
  /\ curcache' = 0 /\ npages' = 0
  /\ held' = {} /\ touched' = {} /\ peak' = 0
  /\ versions' = [p \in 0 .. fsize - 1 |-> {file[p]}]
  /\ UNCHANGED poolFile

\* mpool_close frees the buffers; __bt_close has synced them, unless the tree
\* was not modified or is to be abandoned.
mpool_close == phase \in {"open", "synced"} /\ held = {} /\ ForgetPool

\* The process ends.
ProcessEnds == phase # "closed" /\ ForgetPool

mpool_open ==
  /\ phase = "closed"
  /\ phase' = "open"
  /\ npages' = fsize
  /\ UNCHANGED <<lru, buf, curcache, poolFile, client, versions, peak>>

----------------------------------------------------------------------------
MpoolInit == /\ lru = <<>> /\ buf = [p \in {} |-> 0] /\ curcache = 0 /\ npages = 0
             /\ file = [p \in 0 .. -1 |-> Hole] /\ fsize = 0
             /\ phase = "closed" /\ held = {} /\ touched = {}
             /\ versions = [p \in 0 .. -1 |-> {}] /\ peak = 0

MpoolNext == \/ \E v \in Vals : mpool_new(v)
             \/ \E p \in Pgnos : mpool_get(p)
             \/ \E p \in Pgnos, v \in Vals : Change(p, v)
             \/ \E p \in Pgnos, dirty \in BOOLEAN : mpool_put(p, dirty)
             \/ mpool_sync \/ SyncFails \/ mpool_close \/ ProcessEnds \/ mpool_open

MpoolSpec == MpoolInit /\ [][MpoolNext]_mpoolVars
----------------------------------------------------------------------------
Buffer == [val: Vals \cup {Hole}, dirty: BOOLEAN, pinned: BOOLEAN]

MpoolTypeOK ==
  /\ Cached \subseteq Pgnos /\ buf \in [Cached -> Buffer]
  /\ lru \in Seq(Pgnos)
  /\ curcache \in 0 .. MaxBufs /\ npages \in 0 .. MaxPages
  /\ fsize \in 0 .. MaxPages /\ file \in [0 .. fsize - 1 -> Vals \cup {Hole}]
  /\ phase \in {"closed", "open", "synced", "failed"}
  /\ held \subseteq Pgnos /\ touched \subseteq held
  /\ peak \in 0 .. MaxHeld

\* The pages the B-tree has pointers to are in memory and keep their buffers:
\* a pin, which is a flag, covers every pointer.
HeldArePinned == \A p \in held : p \in Cached /\ Pinned(p)

\* A page that nobody has in hand and that is not dirty is in the file as it is
\* in memory, and a page out of memory is in the file: a buffer can be reused,
\* and the page read again, without a loss.
NothingLost ==
  phase = "open" =>
    \A p \in 0 .. npages - 1 :
      \/ p \in touched
      \/ p \in Cached /\ Dirty(p)
      \/ p < fsize /\ (p \in Cached => file[p] = buf[p].val)

\* The queue and the hash table hold the same buffers, each once.
QueueMatches ==
  /\ {lru[n] : n \in DOMAIN lru} = Cached
  /\ Len(lru) = Cardinality(Cached)

\* "If we don't find anything we grow the cache anyway": the cache outgrows its
\* limit no further than to the most pages that were ever pinned at once.
Bounded == Cardinality(Cached) <= (IF peak > MaxCache THEN peak ELSE MaxCache)

\* Evicting, reading back, writing in any order and growing cannot be seen
\* through mpool_get, and the end of the process at any point leaves of every
\* page a version the B-tree had put.
StoreSize == IF phase = "closed" THEN fsize ELSE npages
StoreContent == [p \in 0 .. StoreSize - 1 |-> Content(p)]
Store == INSTANCE PageStore WITH n <- StoreSize, content <- StoreContent
IsPageStore == Store!Spec
=============================================================================
