------------------------------ MODULE IdCursor ------------------------------
(***************************************************************************)
(* What an identifier set promises: it is a set, and a cursor goes through *)
(* it in ascending order, also past members that are added on the way.     *)
(* result is the last call, its argument and what it returned.             *)
(***************************************************************************)
EXTENDS Integers, FiniteSets

CONSTANTS Sizes, EndOfId

VARIABLES members, size, cursor, result

Least(S) == IF S = {} THEN EndOfId ELSE CHOOSE i \in S : \A j \in S : i <= j
Greatest(S) == IF S = {} THEN EndOfId ELSE CHOOSE i \in S : \A j \in S : j <= i
Truth(b) == IF b THEN 1 ELSE 0

Opened(s) == <<"open", s, EndOfId>>

Init == /\ size \in Sizes
        /\ members = {} /\ cursor = EndOfId /\ result = Opened(size)

Open(s) == /\ size' = s /\ result' = Opened(s)
           /\ members' = {} /\ cursor' = EndOfId

Add(i) == /\ i < size
          /\ members' = members \cup {i}
          /\ result' = <<"add", i, EndOfId>>
          /\ UNCHANGED <<size, cursor>>

\* The program ends when a member is out of range.
AddFails(i) == /\ i >= size
               /\ result' = <<"add", i, EndOfId>>
               /\ UNCHANGED <<members, size, cursor>>

Contains(i) == /\ result' = <<"contains", i, Truth(i \in members)>>
               /\ UNCHANGED <<members, size, cursor>>

Empty == /\ result' = <<"empty", 0, Truth(members = {})>>
         /\ UNCHANGED <<members, size, cursor>>

First == /\ cursor' = Least(members)
         /\ result' = <<"first", 0, Least(members)>>
         /\ UNCHANGED <<members, size>>

\* At the end, and before a beginning, the cursor stays.
NextId == LET next == Least({i \in members : cursor < i})
          IN  /\ result' = <<"next", 0, next>>
              /\ cursor' = IF next = EndOfId THEN cursor ELSE next
              /\ UNCHANGED <<members, size>>

\* Counting goes through the set with the same cursor.
Count == /\ result' = <<"count", 0, Cardinality(members)>>
         /\ cursor' = Greatest(members)
         /\ UNCHANGED <<members, size>>

Next == \/ \E s \in Sizes : Open(s)
        \/ Empty \/ First \/ NextId \/ Count
        \/ \E i \in 0 .. EndOfId - 1 : Add(i) \/ AddFails(i) \/ Contains(i)

Spec == Init /\ [][Next]_<<members, size, cursor, result>>
=============================================================================
