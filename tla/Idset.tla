------------------------------- MODULE Idset -------------------------------
(***************************************************************************)
(* Sets of identifiers as arrays of words (libutil/idset.c), with which    *)
(* gtags collects the files to delete and the files it met.                *)
(*                                                                         *)
(* A word is the set of the bits that are 1.  END_OF_ID, the largest       *)
(* unsigned number, is "no value"; a comparison with it is a comparison of *)
(* numbers.                                                                *)
(***************************************************************************)
EXTENDS Integers

CONSTANTS LONG_BIT,   \* bits of a word
          MaxSize,    \* bound on the size of a set
          END_OF_ID

ASSUME IdsetAssumption ==
  /\ LONG_BIT \in Nat \ {0} /\ MaxSize \in Nat
  /\ END_OF_ID \in Nat /\ END_OF_ID >= MaxSize /\ END_OF_ID > 1

VARIABLES set, size, min, max, lastid,  \* IDSET
          result,   \* the last call, its argument, and what it returned: END_OF_ID if nothing
          dead,     \* whether the process died
          counting, id, count,  \* the loop of idset_count
          before    \* history: lastid when the loop began

idset == <<set, size, min, max, lastid>>
loop == <<counting, id, count, before>>
idsetVars == <<idset, result, dead, loop>>

Ids == 0 .. MaxSize - 1
Bits == 0 .. LONG_BIT - 1
WordsFor(s) == (s + LONG_BIT - 1) \div LONG_BIT
IsEmpty == min = END_OF_ID
Returns(call, arg, value) == result' = <<call, arg, value>>
IsSet(i) == i % LONG_BIT \in set[i \div LONG_BIT]
Idle == ~ dead /\ ~ counting

----------------------------------------------------------------------------
idset_open(s) ==
  /\ Idle
  /\ set' = [w \in 0 .. WordsFor(s) - 1 |-> {}]
  /\ size' = s
  /\ min' = END_OF_ID /\ max' = END_OF_ID /\ lastid' = END_OF_ID
  /\ Returns("open", s, END_OF_ID)
  /\ UNCHANGED <<dead, loop>>

idset_empty ==
  /\ Idle
  /\ Returns("empty", 0, IF IsEmpty THEN 1 ELSE 0)
  /\ UNCHANGED <<idset, dead, loop>>

\* The first member is both, then each is one or none.
Bounds(i) ==
  /\ max' = IF IsEmpty \/ i > max THEN i ELSE max
  /\ min' = IF IsEmpty \/ i < min THEN i ELSE min

idset_add(i) ==
  /\ Idle
  /\ IF i >= size
       THEN dead' = TRUE /\ UNCHANGED idset
       ELSE /\ set' = [set EXCEPT ![i \div LONG_BIT] = @ \cup {i % LONG_BIT}]
            /\ Bounds(i)
            /\ UNCHANGED <<size, lastid, dead>>
  /\ Returns("add", i, END_OF_ID)
  /\ UNCHANGED loop

\* Mutant: the bounds are taken for bounds outside of the set.
MUT_idset_contains_Exclusive(i) ==
  /\ Idle
  /\ Returns("contains", i, IF ~ IsEmpty /\ min <= i /\ i < max /\ IsSet(i) THEN 1 ELSE 0)
  /\ UNCHANGED <<idset, dead, loop>>

idset_contains(i) ==
  /\ Idle
  /\ Returns("contains", i, IF ~ IsEmpty /\ min <= i /\ i <= max /\ IsSet(i) THEN 1 ELSE 0)
  /\ UNCHANGED <<idset, dead, loop>>

idset_first ==
  /\ Idle
  /\ lastid' = min /\ Returns("first", 0, min)
  /\ UNCHANGED <<set, size, min, max, dead, loop>>

\* The scan of idset_next: the bits that are left in the word of lastid, then the
\* words up to that of max, then the bits of the first of them with any.
Smallest(S) == CHOOSE i \in S : \A j \in S : i <= j
RestOfWord(last) == {b \in Bits : b > last % LONG_BIT /\ b \in set[last \div LONG_BIT]}

\* Mutant: the limit is the word of the maximum and not the one after it.
MUT_LaterWords_Limit(last) ==
  {w \in 0 .. max \div LONG_BIT - 1 : w > last \div LONG_BIT /\ set[w] # {}}

LaterWords(last) ==
  {w \in 0 .. max \div LONG_BIT : w > last \div LONG_BIT /\ set[w] # {}}

Scan(last) ==
  IF RestOfWord(last) # {}
  THEN (last \div LONG_BIT) * LONG_BIT + Smallest(RestOfWord(last))
  ELSE LET w == Smallest(LaterWords(last)) IN w * LONG_BIT + Smallest(set[w])

AtEnd(last) == IsEmpty \/ last >= max
ScanFails(last) == RestOfWord(last) = {} /\ LaterWords(last) = {}

\* The body of idset_next, with its "internal error", and what it returns.
MoveOn ==
  /\ dead' = (~ AtEnd(lastid) /\ ScanFails(lastid))
  /\ lastid' = IF AtEnd(lastid) \/ ScanFails(lastid) THEN lastid ELSE Scan(lastid)
  /\ UNCHANGED <<set, size, min, max>>
Found == IF AtEnd(lastid) THEN END_OF_ID ELSE Scan(lastid)

idset_next ==
  /\ Idle
  /\ MoveOn
  /\ Returns("next", 0, Found)
  /\ UNCHANGED loop

\* idset_count uses the cursor of the set for its loop.
BeginCount ==
  /\ Idle
  /\ lastid' = min /\ id' = min
  /\ counting' = TRUE /\ count' = 0 /\ before' = lastid
  /\ UNCHANGED <<set, size, min, max, dead, result>>

CountOne ==
  /\ ~ dead /\ counting /\ id # END_OF_ID
  /\ MoveOn
  /\ count' = count + 1 /\ id' = Found
  /\ UNCHANGED <<counting, before, result>>

EndCount ==
  /\ ~ dead /\ counting /\ id = END_OF_ID
  /\ Returns("count", 0, count)
  /\ counting' = FALSE /\ id' = 0 /\ count' = 0 /\ before' = 0
  /\ UNCHANGED <<idset, dead>>

----------------------------------------------------------------------------
IdsetInit ==
  /\ size \in 0 .. MaxSize
  /\ set = [w \in 0 .. WordsFor(size) - 1 |-> {}]
  /\ min = END_OF_ID /\ max = END_OF_ID /\ lastid = END_OF_ID
  /\ result = <<"open", size, END_OF_ID>> /\ dead = FALSE
  /\ counting = FALSE /\ id = 0 /\ count = 0 /\ before = 0

IdsetNext ==
  \/ \E s \in 0 .. MaxSize : idset_open(s)
  \/ idset_empty \/ idset_first \/ idset_next
  \/ BeginCount \/ CountOne \/ EndCount
  \/ \E i \in Ids : idset_add(i) \/ idset_contains(i)

IdsetSpec == IdsetInit /\ [][IdsetNext]_idsetVars
----------------------------------------------------------------------------
Members == {i \in 0 .. size - 1 : IsSet(i)}

IdsetTypeOK ==
  /\ size \in 0 .. MaxSize /\ set \in [0 .. WordsFor(size) - 1 -> SUBSET Bits]
  /\ {min, max, lastid} \subseteq Ids \cup {END_OF_ID}
  /\ dead \in BOOLEAN /\ counting \in BOOLEAN /\ count \in 0 .. MaxSize
  /\ {id, before} \subseteq 0 .. END_OF_ID /\ result[3] \in 0 .. END_OF_ID

\* The bounds, which end every loop and answer most calls of idset_contains, are
\* the least and the greatest member.
BoundsRight ==
  IF Members = {} THEN min = END_OF_ID /\ max = END_OF_ID
  ELSE {min, max} \subseteq Members /\ \A i \in Members : min <= i /\ i <= max

\* Only an identifier out of range stops the program: the scan of idset_next
\* never meets its "internal error".
NoInternalError == AtEnd(lastid) \/ ~ ScanFails(lastid)

\* The words of bits are the set: every call returns what it would return for a
\* set, and a loop visits each member once, in order, wherever words end.
Cursor == INSTANCE IdCursor WITH
  Sizes <- 0 .. MaxSize, EndOfId <- END_OF_ID, members <- Members,
  cursor <- IF counting THEN before ELSE lastid
IsIdCursor == Cursor!Spec
=============================================================================
