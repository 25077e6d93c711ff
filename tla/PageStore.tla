----------------------------- MODULE PageStore -----------------------------
(***************************************************************************)
(* What a page cache promises the B-tree above it: numbered pages, each    *)
(* read back as it was last changed.  When the process ends early a page   *)
(* of the file is one of the versions the B-tree has returned since the    *)
(* last save, never anything else.                                         *)
(***************************************************************************)
EXTENDS Integers

CONSTANTS Vals,    \* what a page may hold
          Hole     \* a page of a file that was never written

VARIABLES n,         \* the number of pages
          content,   \* what each page holds
          versions   \* what the file may hold of it

Init == n = 0 /\ content = [p \in 0 .. -1 |-> Hole] /\ versions = [p \in 0 .. -1 |-> {}]

New(v) == /\ n' = n + 1
          /\ content' = [p \in 0 .. n |-> IF p = n THEN v ELSE content[p]]
          /\ versions' = [p \in 0 .. n |-> IF p = n THEN {Hole} ELSE versions[p]]

Change(p, v) == /\ content' = [content EXCEPT ![p] = v]
                /\ UNCHANGED <<n, versions>>

Return(p) == /\ versions' = [versions EXCEPT ![p] = @ \cup {content[p]}]
             /\ UNCHANGED <<n, content>>

Save == /\ versions' = [p \in 0 .. n - 1 |-> {content[p]}]
        /\ UNCHANGED <<n, content>>

\* Pages that were never saved may be missing at the end of the file.
Kill == /\ n' \in 0 .. n
        /\ \A p \in n' .. n - 1 : Hole \in versions[p]
        /\ content' \in [0 .. n' - 1 -> Vals \cup {Hole}]
        /\ \A p \in 0 .. n' - 1 : content'[p] \in versions[p]
        /\ versions' = [p \in 0 .. n' - 1 |-> {content'[p]}]

Next == \/ \E v \in Vals : New(v)
        \/ \E p \in 0 .. n - 1, v \in Vals : Change(p, v)
        \/ \E p \in 0 .. n - 1 : Return(p)
        \/ Save
        \/ Kill

Spec == Init /\ [][Next]_<<n, content, versions>>
=============================================================================
