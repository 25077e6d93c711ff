------------------------------ MODULE TagFile ------------------------------
(***************************************************************************)
(* What a file of records promises to the programs that keep tags in it: a *)
(* bag of records, each under a key; with one record for a key if the file *)
(* is so.  A deletion by data goes on for several steps and ends only when *)
(* there is nothing left to delete.                                        *)
(***************************************************************************)
EXTENDS Naturals, Bags

CONSTANTS Keys, Data

VARIABLES recs,     \* the bag of the records <<key, data>>
          single,   \* a key has one record
          drop      \* the data whose records are being deleted

tagFileVars == <<recs, single, drop>>

Rec == Keys \X Data

\* The bag without some of its records, and without those under a key.
Without(bag, R) == [r \in BagToSet(bag) \ R |-> bag[r]]
Freed(bag, key) == Without(bag, {r \in BagToSet(bag) : r[1] = key})
With(bag, r) == bag (+) SetToBag({r})

Init == recs = EmptyBag /\ single \in BOOLEAN /\ drop = {}

Put(key, dat) ==
  /\ drop = {}
  /\ recs' = With(IF single THEN Freed(recs, key) ELSE recs, <<key, dat>>)
  /\ UNCHANGED <<single, drop>>

\* The record under a key, if there is one.
Delete(key) == /\ single /\ drop = {}
               /\ recs' = Freed(recs, key)
               /\ UNCHANGED <<single, drop>>

BeginDeletion(D) == /\ drop = {} /\ drop' = D
                    /\ UNCHANGED <<recs, single>>

DeleteOne(r) == /\ r[2] \in drop /\ r \in BagToSet(recs)
                /\ recs' = recs (-) SetToBag({r})
                /\ UNCHANGED <<single, drop>>

EndDeletion == /\ drop # {}
               /\ \A r \in BagToSet(recs) : r[2] \notin drop
               /\ drop' = {}
               /\ UNCHANGED <<recs, single>>

Next == \/ \E r \in Rec \cap BagToSet(recs') : Put(r[1], r[2])
        \/ \E key \in Keys : Delete(key)
        \/ \E D \in SUBSET Data \ {{}} : BeginDeletion(D)
        \/ \E key \in Keys, dat \in drop : DeleteOne(<<key, dat>>)
        \/ EndDeletion

Spec == Init /\ [][Next]_tagFileVars
=============================================================================
