------------------------------ MODULE UnitsProofs ------------------------------
(***************************************************************************)
(* Of the components that are called from one place at a time, what holds for*)
(* every value of their constants.                                         *)
(***************************************************************************)
EXTENDS Idset, Mpool, Conf, Query, InductionLemmas, SequenceTheorems

----------------------------------------------------------------------------
(***************************************************************************)
(* Idset: for every width of a word and every size the words of bits are the*)
(* set. The heart is that what idset_next finds by two scans, of the rest of a*)
(* word and of the words after it, is the next member.                     *)
(***************************************************************************)

Shape == size \in 0 .. MaxSize /\ set \in [0 .. WordsFor(size) - 1 -> SUBSET Bits]

\* The bits of the last word beyond the size are never set.
Clean == \A w \in 0 .. WordsFor(size) - 1 : \A b \in set[w] : w * LONG_BIT + b < size

OnMember == lastid = END_OF_ID \/ lastid \in Members

Below(n) == {i \in Members : i < n}

\* In the loop of idset_count: the members below id are counted.
Counted ==
  /\ counting /\ id # END_OF_ID =>
       id = lastid /\ lastid \in Members /\ count = Cardinality(Below(lastid))
  /\ counting /\ id = END_OF_ID => lastid = max /\ count = Cardinality(Members)

Flags == /\ dead \in BOOLEAN /\ counting \in BOOLEAN
         /\ id \in 0 .. END_OF_ID /\ before \in 0 .. END_OF_ID
         /\ ~ counting => count = 0

Answer == result[3] \in 0 .. END_OF_ID

SInv == Shape /\ Clean /\ BoundsRight /\ OnMember
IdsetInv == SInv /\ Counted /\ Flags /\ Answer
----------------------------------------------------------------------------
\* The word of an identifier (index0 = id / LONG_BIT) is a number.
LEMMA Quotient == ASSUME NEW L \in Nat \ {0}, NEW a \in Nat PROVE a \div L \in Nat
OBVIOUS

\* The bit of an identifier (index1 = id % LONG_BIT) is one of a word.
LEMMA Remainder == ASSUME NEW L \in Nat \ {0}, NEW a \in Nat PROVE a % L \in 0 .. L - 1
OBVIOUS

\* Word and bit make up the identifier again: index0 * LONG_BIT + i.
LEMMA Recompose ==
  ASSUME NEW L \in Nat \ {0}, NEW a \in Nat PROVE a = (a \div L) * L + (a % L)
<1>1. a % L = a - (a \div L) * L OBVIOUS
<1>2. (a \div L) * L \in Int
  <2>1. a \div L \in Nat BY Quotient
  <2> QED BY <2>1
<1> QED BY <1>1, <1>2

\* The word of what idset_next returns is the word it found.
LEMMA DivOf ==
  ASSUME NEW L \in Nat \ {0}, NEW w \in Nat, NEW b \in 0 .. L - 1
  PROVE  (w * L + b) \div L = w
OBVIOUS

\* The bit of what idset_next returns is the bit it found.
LEMMA ModOf ==
  ASSUME NEW L \in Nat \ {0}, NEW w \in Nat, NEW b \in 0 .. L - 1
  PROVE  (w * L + b) % L = b
OBVIOUS

\* A greater identifier is not in an earlier word.
LEMMA DivMono ==
  ASSUME NEW L \in Nat \ {0}, NEW a \in Nat, NEW b \in Nat, a <= b
  PROVE  a \div L <= b \div L
OBVIOUS

\* An identifier in a later word is greater.
LEMMA WordsApart ==
  ASSUME NEW L \in Nat \ {0}, NEW v \in Nat, NEW w \in Nat, v < w,
         NEW b \in 0 .. L - 1, NEW c \in 0 .. L - 1
  PROVE  v * L + b < w * L + c
<1>1. (v + 1) * L <= w * L OBVIOUS
<1>2. (v + 1) * L = v * L + L OBVIOUS
<1>3. v * L \in Int /\ w * L \in Int OBVIOUS
<1> QED BY <1>1, <1>2, <1>3

\* idset_open allocates the word of every identifier below the size.
LEMMA RoundedUp ==
  ASSUME NEW L \in Nat \ {0}, NEW s \in Nat, NEW i \in Nat, i < s
  PROVE  i \div L < (s + L - 1) \div L
<1>1. (i + L) \div L = i \div L + 1 OBVIOUS
<1>2. i + L <= s + L - 1 OBVIOUS
<1>3. (i + L) \div L <= (s + L - 1) \div L BY <1>2, DivMono
<1> QED BY <1>1, <1>3, Quotient

\* A word and a bit of it for every identifier below the size.
LEMMA Place ==
  ASSUME Shape, NEW i \in 0 .. size - 1
  PROVE  /\ i \in Nat /\ i \div LONG_BIT \in 0 .. WordsFor(size) - 1
         /\ i % LONG_BIT \in Bits
         /\ i = (i \div LONG_BIT) * LONG_BIT + (i % LONG_BIT)
<1>1. i \in Nat /\ size \in Nat /\ i < size /\ LONG_BIT \in Nat \ {0}
  BY IdsetAssumption DEF Shape
<1>2. i \div LONG_BIT \in Nat /\ i \div LONG_BIT < WordsFor(size)
  BY <1>1, Quotient, RoundedUp DEF WordsFor
<1>3. WordsFor(size) \in Nat BY <1>1, Quotient DEF WordsFor
<1>4. i \div LONG_BIT \in 0 .. WordsFor(size) - 1 BY <1>2, <1>3
<1> QED BY <1>1, <1>4, Remainder, Recompose DEF Bits

\* The bit of a word that is set is a member.
LEMMA BitIsMember ==
  ASSUME Shape, Clean, NEW w \in 0 .. WordsFor(size) - 1, NEW b \in set[w]
  PROVE  /\ w \in Nat /\ b \in Bits
         /\ w * LONG_BIT + b \in Members
<1>1. w \in Nat /\ b \in 0 .. LONG_BIT - 1 /\ LONG_BIT \in Nat \ {0} /\ size \in Nat
  BY IdsetAssumption DEF Shape, Bits
<1>2. w * LONG_BIT + b < size BY DEF Clean
<1>3. (w * LONG_BIT + b) \div LONG_BIT = w /\ (w * LONG_BIT + b) % LONG_BIT = b
  BY <1>1, DivOf, ModOf
<1>4. w * LONG_BIT + b \in 0 .. size - 1
  <2>1. w * LONG_BIT \in Nat BY <1>1
  <2> QED BY <2>1, <1>1, <1>2
<1>5. IsSet(w * LONG_BIT + b) BY <1>3 DEF IsSet
<1> QED BY <1>1, <1>4, <1>5 DEF Members, Bits

\* A member is a bit that is set in a word of the array.
LEMMA MemberIsBit ==
  ASSUME Shape, NEW i \in Members
  PROVE  /\ i \in 0 .. size - 1 /\ i \in Nat
         /\ i \div LONG_BIT \in 0 .. WordsFor(size) - 1
         /\ i % LONG_BIT \in set[i \div LONG_BIT]
  BY Place DEF Members, IsSet
----------------------------------------------------------------------------
\* The CHOOSE of Smallest has a value, the least element.
LEMMA SmallestIs ==
  ASSUME NEW S, S \subseteq Nat, S # {}
  PROVE  Smallest(S) \in S /\ \A j \in S : Smallest(S) <= j
  BY LeastExists DEF Smallest
----------------------------------------------------------------------------
\* The next member is where idset_next looks, and its scan finds it.
LEMMA NextFound ==
  ASSUME SInv, ~ AtEnd(lastid)
  PROVE  /\ ~ ScanFails(lastid) /\ lastid \in Members
         /\ Scan(lastid) \in Members /\ lastid < Scan(lastid)
         /\ \A j \in Members : lastid < j => Scan(lastid) <= j
<1> DEFINE W == LONG_BIT
           w0 == lastid \div W
<1>1. Shape /\ Clean /\ W \in Nat \ {0} /\ size \in 0 .. MaxSize
  BY IdsetAssumption DEF SInv, Shape
<1>2. max \in Members /\ \A i \in Members : i <= max
  BY DEF AtEnd, IsEmpty, SInv, BoundsRight
<1>3. max \in Nat /\ max < END_OF_ID
  BY <1>1, <1>2, MemberIsBit, IdsetAssumption
<1>4. lastid \in Members
  BY <1>3, IdsetAssumption DEF AtEnd, SInv, OnMember
<1>5. lastid \in Nat /\ lastid < max
  BY <1>1, <1>3, <1>4, MemberIsBit DEF AtEnd
<1>6. w0 \in 0 .. WordsFor(size) - 1 /\ w0 \in Nat /\ lastid % W \in Bits
      /\ lastid = w0 * W + (lastid % W)
  <2>1. lastid \in 0 .. size - 1 BY <1>1, <1>4, MemberIsBit
  <2> QED BY <1>1, <1>5, <2>1, Place, Quotient
\* A later member is in the rest of the word or in a later word.
<1>7. ASSUME NEW j \in Members, lastid < j
      PROVE  /\ j \in Nat /\ j % W \in Bits /\ j = (j \div W) * W + (j % W)
             /\ \/ j \div W = w0 /\ j % W \in RestOfWord(lastid)
                \/ w0 < j \div W /\ j \div W \in LaterWords(lastid)
  <2>1. j \in 0 .. size - 1 /\ j \in Nat /\ j % W \in set[j \div W]
    BY <1>1, MemberIsBit
  <2>2. j % W \in Bits /\ j = (j \div W) * W + (j % W) BY <1>1, <2>1, Place
  <2>3. j \div W \in Nat /\ max \div W \in Nat BY <1>1, <1>3, <2>1, Quotient
  <2>4. w0 <= j \div W /\ j \div W <= max \div W
    <3>1. lastid <= j /\ j <= max BY <1>2, <1>5, <1>7, <2>1
    <3>2. w0 <= j \div W BY <1>1, <1>5, <2>1, <3>1, DivMono
    <3>3. j \div W <= max \div W BY <1>1, <1>3, <2>1, <3>1, DivMono
    <3> QED BY <3>2, <3>3
  <2>5. CASE j \div W = w0
    <3>1. lastid % W < j % W
      <4>1. w0 * W \in Int BY <1>1, <1>6
      <4>2. lastid % W \in Int /\ j % W \in Int BY <1>1, <1>6, <2>2 DEF Bits
      <4> HIDE DEF W, w0
      <4> QED BY <4>1, <4>2, <1>6, <1>7, <2>2, <2>5
    <3> QED BY <2>1, <2>2, <2>5, <3>1 DEF RestOfWord
  <2>6. CASE j \div W # w0
    <3>1. w0 < j \div W BY <1>6, <2>3, <2>4, <2>6
    <3>2. j \div W \in 0 .. max \div W BY <2>3, <2>4
    <3> QED BY <2>1, <2>2, <3>1, <3>2 DEF LaterWords
  <2> QED BY <2>1, <2>2, <2>5, <2>6
<1>8. ~ ScanFails(lastid) BY <1>2, <1>5, <1>7 DEF ScanFails
<1>9. CASE RestOfWord(lastid) # {}
  <2> DEFINE b == Smallest(RestOfWord(lastid))
  <2>1. RestOfWord(lastid) \subseteq Nat BY <1>1 DEF RestOfWord, Bits
  <2>2. b \in RestOfWord(lastid) /\ \A c \in RestOfWord(lastid) : b <= c
    BY <1>9, <2>1, SmallestIs
  <2>3. b \in Bits /\ b > lastid % W /\ b \in set[w0] BY <2>2 DEF RestOfWord
  <2>4. Scan(lastid) = w0 * W + b BY <1>9 DEF Scan
  <2>5. w0 * W + b \in Members BY <1>1, <1>6, <2>3, BitIsMember
  <2>6. w0 * W \in Int /\ b \in Int /\ lastid % W \in Int
    BY <1>1, <1>6, <2>3 DEF Bits
  <2>7. lastid < w0 * W + b
    <3> HIDE DEF W, w0, b
    <3> QED BY <1>6, <2>3, <2>6
  <2>8. ASSUME NEW j \in Members, lastid < j PROVE w0 * W + b <= j
    <3>1. CASE j \div W = w0 /\ j % W \in RestOfWord(lastid)
      <4>1. b <= j % W /\ j = w0 * W + (j % W) BY <1>7, <2>2, <2>8, <3>1
      <4>2. j % W \in Int BY <1>1, <1>7, <2>8 DEF Bits
      <4> HIDE DEF W, w0, b
      <4> QED BY <2>6, <4>1, <4>2
    <3>2. CASE w0 < j \div W
      <4>1. j % W \in Bits /\ j = (j \div W) * W + (j % W) /\ j \in Nat BY <1>7, <2>8
      <4>2. j \div W \in Nat BY <1>1, <4>1, Quotient
      <4>3. w0 * W + b < (j \div W) * W + (j % W)
        BY <1>1, <1>6, <2>3, <3>2, <4>1, <4>2, WordsApart DEF Bits
      <4> HIDE DEF W, w0, b
      <4> QED BY <2>6, <4>1, <4>3
    <3> QED BY <1>7, <2>8, <3>1, <3>2
  <2> QED BY <1>4, <1>8, <2>4, <2>5, <2>7, <2>8
<1>10. CASE RestOfWord(lastid) = {}
  <2> DEFINE w == Smallest(LaterWords(lastid))
             b == Smallest(set[w])
  <2>1. LaterWords(lastid) \subseteq Nat /\ LaterWords(lastid) # {}
    BY <1>8, <1>10 DEF LaterWords, ScanFails
  <2>2. w \in LaterWords(lastid) /\ \A v \in LaterWords(lastid) : w <= v
    BY <2>1, SmallestIs
  <2>3. w \in 0 .. max \div W /\ w > w0 /\ set[w] # {} BY <2>2 DEF LaterWords
  <2>4. w \in 0 .. WordsFor(size) - 1 /\ w \in Nat
    <3>1. max \div W \in 0 .. WordsFor(size) - 1 BY <1>1, <1>2, MemberIsBit
    <3>2. max \div W \in Nat BY <1>1, <1>3, Quotient
    <3>3. WordsFor(size) \in Nat BY <1>1, Quotient DEF WordsFor
    <3> HIDE DEF W, w
    <3> QED BY <2>3, <3>1, <3>2, <3>3
  <2>5. set[w] \subseteq Nat BY <1>1, <2>4 DEF Shape, Bits
  <2>6. b \in set[w] /\ \A c \in set[w] : b <= c BY <2>3, <2>5, SmallestIs
  <2>7. Scan(lastid) = w * W + b BY <1>10 DEF Scan
  <2>8. w * W + b \in Members /\ b \in Bits BY <1>1, <2>4, <2>6, BitIsMember
  <2>9. w * W + b \in Int
    <3>1. b \in Int BY <2>8, <1>1 DEF Bits
    <3> HIDE DEF w, b
    <3> QED BY <1>1, <2>4, <3>1
  <2>10. lastid < w * W + b
    <3>1. w0 * W + (lastid % W) < w * W + b
      BY <1>1, <1>6, <2>3, <2>4, <2>8, WordsApart DEF Bits
    <3> QED BY <3>1, <1>6
  <2>11. ASSUME NEW j \in Members, lastid < j PROVE w * W + b <= j
    <3>1. j \div W \in LaterWords(lastid) /\ j % W \in Bits
          /\ j = (j \div W) * W + (j % W) /\ j \in Nat
      BY <1>7, <1>10, <2>11
    <3>2. w <= j \div W /\ j \div W \in Nat BY <1>1, <2>2, <3>1, Quotient
    <3>3. CASE w = j \div W
      <4>1. j % W \in set[w] BY <1>1, <3>3, MemberIsBit
      <4>2. b <= j % W /\ j = w * W + (j % W) BY <2>6, <3>1, <3>3, <4>1
      <4>3. b \in Int /\ j % W \in Int /\ w * W \in Int
        BY <1>1, <2>4, <2>8, <3>1 DEF Bits
      <4> HIDE DEF W, w, b
      <4> QED BY <4>2, <4>3
    <3>4. CASE w < j \div W
      <4>1. w * W + b < (j \div W) * W + (j % W)
        BY <1>1, <2>4, <2>8, <3>1, <3>2, <3>4, WordsApart DEF Bits
      <4> HIDE DEF W, w, b
      <4> QED BY <2>9, <3>1, <4>1
    <3> HIDE DEF w
    <3> QED BY <2>4, <3>2, <3>3, <3>4
  <2> QED BY <1>4, <1>8, <2>7, <2>8, <2>10, <2>11
<1> QED BY <1>9, <1>10
----------------------------------------------------------------------------
\* The members are a finite set of numbers.
LEMMA MembersFinite ==
  ASSUME Shape
  PROVE  /\ Members \subseteq Nat /\ Members \subseteq 0 .. size - 1
         /\ IsFiniteSet(Members) /\ Cardinality(Members) \in 0 .. MaxSize
<1>1. size \in Nat /\ size <= MaxSize /\ MaxSize \in Nat
  BY IdsetAssumption DEF Shape
<1>2. IsFiniteSet(0 .. size - 1) /\ Cardinality(0 .. size - 1) <= size
  <2>1. size - 1 \in Int BY <1>1
  <2>2. Cardinality(0 .. size - 1) = IF 0 > size - 1 THEN 0 ELSE (size - 1) - 0 + 1
    BY <2>1, FS_Interval
  <2>3. IsFiniteSet(0 .. size - 1) BY <2>1, FS_Interval
  <2> QED BY <1>1, <2>2, <2>3
<1>3. Members \in SUBSET (0 .. size - 1) BY DEF Members
<1>4. /\ IsFiniteSet(Members) /\ Cardinality(Members) \in Nat
      /\ Cardinality(Members) <= Cardinality(0 .. size - 1)
      /\ Cardinality(0 .. size - 1) \in Nat
  BY <1>2, <1>3, FS_Subset, FS_CardinalityType
<1> QED BY <1>1, <1>2, <1>3, <1>4

\* Going from a member to the next one counts it.
LEMMA CountNext ==
  ASSUME Shape, NEW i \in Members, NEW T, T \subseteq Members,
         \A j \in Members : j \in T <=> j <= i
  PROVE  Cardinality(T) = Cardinality(Below(i)) + 1 /\ Cardinality(T) \in 0 .. MaxSize
         /\ Cardinality(Below(i)) \in Nat
<1>1. \A j \in Members : j \in Nat BY MembersFinite
<1>2. T = Below(i) \cup {i} /\ i \notin Below(i) BY <1>1 DEF Below
<1>3. Below(i) \in SUBSET Members /\ T \in SUBSET Members BY DEF Below
<1>4. IsFiniteSet(Below(i)) /\ Cardinality(Below(i)) \in Nat /\ Cardinality(T) \in Nat
      /\ Cardinality(T) <= Cardinality(Members)
  BY <1>3, MembersFinite, FS_Subset, FS_CardinalityType
<1>5. Cardinality(T) = Cardinality(Below(i)) + 1 BY <1>2, <1>4, FS_AddElement
<1>6. Cardinality(Members) \in 0 .. MaxSize BY MembersFinite
<1> QED BY <1>4, <1>5, <1>6, IdsetAssumption
----------------------------------------------------------------------------
\* The state of a set that was opened.
LEMMA EmptyFacts ==
  ASSUME NEW s \in 0 .. MaxSize, size = s, set = [w \in 0 .. WordsFor(s) - 1 |-> {}],
         min = END_OF_ID, max = END_OF_ID, lastid = END_OF_ID
  PROVE  SInv /\ Members = {}
<1>1. Shape BY DEF Shape
<1>2. Clean BY DEF Clean
<1>3. Members = {} BY <1>1, MemberIsBit
<1> QED BY <1>1, <1>2, <1>3 DEF SInv, BoundsRight, OnMember

\* A bit that is added adds the member.
LEMMA AddFacts ==
  ASSUME SInv, NEW i \in Ids, i < size, Bounds(i), size' = size, lastid' = lastid,
         set' = [set EXCEPT ![i \div LONG_BIT] = @ \cup {i % LONG_BIT}]
  PROVE  SInv' /\ Members' = Members \cup {i}
<1>1. Shape /\ Clean /\ i \in 0 .. size - 1 /\ i \in Nat
      /\ size \in Nat /\ size <= END_OF_ID
  BY IdsetAssumption DEF SInv, Shape, Ids
<1> DEFINE v == i \div LONG_BIT
           a == i % LONG_BIT
<1>2. v \in 0 .. WordsFor(size) - 1 /\ a \in Bits /\ i = v * LONG_BIT + a
  BY <1>1, Place
<1>3. Shape'
  <2> HIDE DEF v, a
  <2>1. set \in [0 .. WordsFor(size) - 1 -> SUBSET Bits] /\ size \in 0 .. MaxSize
    BY <1>1 DEF Shape
  <2>2. set' = [set EXCEPT ![v] = @ \cup {a}] BY DEF v, a
  <2>3. set[v] \cup {a} \in SUBSET Bits BY <1>2, <2>1, Zenon
  <2>4. set' \in [0 .. WordsFor(size) - 1 -> SUBSET Bits]
    BY <1>2, <2>1, <2>2, <2>3, Zenon
  <2> QED BY <2>1, <2>4 DEF Shape, WordsFor, Bits
<1>4. \A w \in 0 .. WordsFor(size) - 1 :
        set'[w] = IF w = v THEN set[w] \cup {a} ELSE set[w]
  BY <1>1 DEF Shape
<1>5. Clean'
  <2> SUFFICES ASSUME NEW w \in 0 .. WordsFor(size) - 1, NEW b \in set'[w]
               PROVE  w * LONG_BIT + b < size
    BY DEF Clean, WordsFor
  <2>1. CASE b \in set[w] BY <1>1, <2>1 DEF Clean
  <2>2. CASE w = v /\ b = a
    <3> HIDE DEF v, a
    <3> QED BY <1>2, <2>2
  <2>3. set'[w] = IF w = v THEN set[w] \cup {a} ELSE set[w] BY <1>4, Zenon
  <2>4. b \in set[w] \/ (w = v /\ b = a)
    <3> HIDE DEF v, a
    <3> QED BY <2>3
  <2> QED BY <2>1, <2>2, <2>4
<1>6. Members' = Members \cup {i}
  <2> SUFFICES ASSUME NEW j \in 0 .. size - 1
               PROVE  IsSet(j)' <=> IsSet(j) \/ j = i
    BY <1>1 DEF Members
  <2>1. /\ j \div LONG_BIT \in 0 .. WordsFor(size) - 1
        /\ j = (j \div LONG_BIT) * LONG_BIT + (j % LONG_BIT)
    BY <1>1, Place
  <2>2. IsSet(j)' <=> IsSet(j) \/ (j \div LONG_BIT = v /\ j % LONG_BIT = a)
    <3>1. IsSet(j)' <=> j % LONG_BIT \in set'[j \div LONG_BIT] BY DEF IsSet
    <3> DEFINE w == j \div LONG_BIT
    <3>2. set'[w] = IF w = v THEN set[w] \cup {a} ELSE set[w] BY <1>4, <2>1, Zenon
    <3>3. IsSet(j) <=> j % LONG_BIT \in set[w] BY DEF IsSet
    <3> HIDE DEF v, a, w
    <3> QED BY <3>1, <3>2, <3>3 DEF w
  <2>3. j \div LONG_BIT = v /\ j % LONG_BIT = a => j = i
    <3> HIDE DEF v, a
    <3> QED BY <1>2, <2>1, Zenon
  <2> QED BY <2>2, <2>3
<1>7. BoundsRight'
  <2>1. ASSUME NEW j \in Members PROVE j \in Nat /\ j < END_OF_ID
    <3>1. j \in 0 .. size - 1 BY <1>1, MemberIsBit
    <3> QED BY <1>1, <3>1, IdsetAssumption
  <2>2. IsEmpty <=> Members = {} BY <2>1 DEF SInv, BoundsRight, IsEmpty
  <2>3. CASE Members = {}
    <3>1. min' = i /\ max' = i BY <2>2, <2>3 DEF Bounds
    <3> QED BY <1>1, <1>6, <2>3, <3>1 DEF BoundsRight
  <2>4. CASE Members # {}
    <3>1. {min, max} \subseteq Members /\ \A j \in Members : min <= j /\ j <= max
      BY <2>4 DEF SInv, BoundsRight
    <3>2. min' = (IF i < min THEN i ELSE min) /\ max' = (IF i > max THEN i ELSE max)
      BY <2>2, <2>4 DEF Bounds
    <3>3. min \in Nat /\ max \in Nat BY <2>1, <3>1
    <3>4. {min', max'} \subseteq Members' BY <1>6, <3>1, <3>2
    <3>5. \A j \in Members' : min' <= j /\ j <= max'
      BY <1>1, <1>6, <2>1, <3>1, <3>2, <3>3
    <3> QED BY <1>6, <3>4, <3>5 DEF BoundsRight
  <2> QED BY <2>3, <2>4
<1>8. OnMember' BY <1>6 DEF SInv, OnMember
<1> QED BY <1>3, <1>5, <1>6, <1>7, <1>8 DEF SInv
----------------------------------------------------------------------------
\* What min and max say of the members, END_OF_ID standing for none.
LEMMA MemberFacts ==
  ASSUME SInv
  PROVE  /\ \A j \in Members : j \in Ids /\ j \in Nat /\ j < END_OF_ID
         /\ IsEmpty <=> Members = {}
         /\ Members = {} => min = END_OF_ID /\ max = END_OF_ID /\ lastid = END_OF_ID
         /\ Members # {} => {min, max} \subseteq Members
                            /\ \A j \in Members : min <= j /\ j <= max
<1>1. Shape /\ size \in Nat /\ size <= MaxSize
      /\ MaxSize \in Nat /\ END_OF_ID \in Nat /\ MaxSize <= END_OF_ID
  BY IdsetAssumption DEF SInv, Shape
<1>2. ASSUME NEW j \in Members PROVE j \in Ids /\ j \in Nat /\ j < END_OF_ID
  <2>1. j \in 0 .. size - 1 BY <1>1, MemberIsBit
  <2> QED BY <1>1, <2>1 DEF Ids
<1>3. Members # {} => {min, max} \subseteq Members
                     /\ \A j \in Members : min <= j /\ j <= max
  BY DEF SInv, BoundsRight
<1>4. Members = {} => min = END_OF_ID /\ max = END_OF_ID /\ lastid = END_OF_ID
  BY DEF SInv, BoundsRight, OnMember
<1>5. IsEmpty <=> Members = {}
  <2>1. Members # {} => min # END_OF_ID BY <1>2, <1>3, <1>1
  <2> QED BY <1>4, <2>1 DEF IsEmpty
<1> QED BY <1>2, <1>3, <1>4, <1>5

\* A step that leaves the words alone and moves the cursor to a member.
LEMMA SameMembers ==
  ASSUME SInv, UNCHANGED <<set, size, min, max>>,
         lastid' = END_OF_ID \/ lastid' \in Members
  PROVE  SInv' /\ Members' = Members
<1>1. Members' = Members BY DEF Members, IsSet
<1>2. Shape' /\ Clean' BY DEF SInv, Shape, Clean, WordsFor, Bits
<1>3. BoundsRight' BY <1>1 DEF SInv, BoundsRight
<1>4. OnMember' BY <1>1 DEF OnMember
<1> QED BY <1>1, <1>2, <1>3, <1>4 DEF SInv

\* The body of idset_next, when the cursor is at its end and when it is not.
LEMMA MoveFacts ==
  ASSUME SInv, MoveOn
  PROVE  /\ SInv' /\ Members' = Members /\ dead' = FALSE
         /\ AtEnd(lastid) => /\ lastid' = lastid /\ Found = END_OF_ID
                             /\ \A j \in Members : ~ (lastid < j)
                             /\ lastid \in Members => lastid = max
         /\ ~ AtEnd(lastid) => /\ lastid' = Found /\ Found \in Members
                               /\ lastid \in Members /\ lastid < Found
                               /\ \A j \in Members : lastid < j => Found <= j
<1>1. CASE AtEnd(lastid)
  <2>1. lastid' = lastid /\ Found = END_OF_ID /\ dead' = FALSE
    BY <1>1 DEF MoveOn, Found
  <2>2. SInv' /\ Members' = Members
    <3>1. UNCHANGED <<set, size, min, max>> BY DEF MoveOn
    <3> QED BY <2>1, <3>1, SameMembers DEF SInv, OnMember
  <2>3. ASSUME NEW j \in Members PROVE ~ (lastid < j)
    <3>1. j \in Nat /\ j <= max /\ max \in Nat /\ lastid >= max /\ lastid \in Nat
      BY <1>1, MemberFacts, IdsetAssumption DEF AtEnd, SInv, OnMember
    <3> QED BY <3>1
  <2>4. lastid \in Members => lastid = max
    BY <1>1, MemberFacts DEF AtEnd
  <2> QED BY <1>1, <2>1, <2>2, <2>3, <2>4
<1>2. CASE ~ AtEnd(lastid)
  <2>1. /\ ~ ScanFails(lastid) /\ lastid \in Members
        /\ Scan(lastid) \in Members /\ lastid < Scan(lastid)
        /\ \A j \in Members : lastid < j => Scan(lastid) <= j
    BY <1>2, NextFound
  <2>2. lastid' = Scan(lastid) /\ Found = Scan(lastid) /\ dead' = FALSE
    BY <1>2, <2>1 DEF MoveOn, Found
  <2>3. SInv' /\ Members' = Members
    <3>1. UNCHANGED <<set, size, min, max>> BY DEF MoveOn
    <3> QED BY <2>1, <2>2, <3>1, SameMembers
  <2> QED BY <1>2, <2>1, <2>2, <2>3
<1> QED BY <1>1, <1>2
----------------------------------------------------------------------------
\* The least and the greatest of IdCursor.
LEMMA LeastOfCursor ==
  ASSUME NEW S, S \subseteq Nat, NEW i \in S, \A j \in S : i <= j
  PROVE  Cursor!Least(S) = i
<1>1. \A k \in S : (\A j \in S : k <= j) => k = i OBVIOUS
<1> QED BY <1>1 DEF Cursor!Least

\* An element that no other exceeds is the greatest of IdCursor.
LEMMA GreatestIs ==
  ASSUME NEW S, S \subseteq Nat, NEW i \in S, \A j \in S : j <= i
  PROVE  Cursor!Greatest(S) = i
<1>1. \A k \in S : (\A j \in S : j <= k) => k = i OBVIOUS
<1> QED BY <1>1 DEF Cursor!Greatest

\* Of no members the least and the greatest are END_OF_ID.
LEMMA NoneIs == Cursor!Least({}) = END_OF_ID /\ Cursor!Greatest({}) = END_OF_ID
  BY DEF Cursor!Least, Cursor!Greatest

\* A call that touches no flag and no loop keeps their types.
LEMMA FlagsStay ==
  ASSUME Flags, UNCHANGED <<dead, counting, id, count, before>> PROVE Flags'
  BY Zenon DEF Flags

\* The values that calls return fit below END_OF_ID.
LEMMA Numbers == /\ END_OF_ID \in 0 .. END_OF_ID /\ 0 \in 0 .. END_OF_ID /\ 1 \in 0 .. END_OF_ID
                 /\ \A n \in 0 .. MaxSize : n \in 0 .. END_OF_ID
  BY IdsetAssumption

CursorNow == IF counting THEN before ELSE lastid
cvars == <<Members, size, CursorNow, result>>
----------------------------------------------------------------------------
\* idset_open makes the empty set.
LEMMA OpenStep ==
  ASSUME IdsetInv, NEW s \in 0 .. MaxSize, idset_open(s)
  PROVE  IdsetInv' /\ Cursor!Open(s)
<1>1. /\ size' = s /\ set' = [w \in 0 .. WordsFor(s) - 1 |-> {}]
      /\ min' = END_OF_ID /\ max' = END_OF_ID /\ lastid' = END_OF_ID
      /\ result' = <<"open", s, END_OF_ID>> /\ ~ counting
      /\ UNCHANGED <<dead, counting, id, count, before>>
  BY DEF idset_open, Idle, Returns, loop
<1>2. SInv' /\ Members' = {}
  <2>1. Shape' BY <1>1 DEF Shape, WordsFor, Bits
  <2>2. Clean' BY <1>1 DEF Clean, WordsFor
  <2>3. Members' = {} 
    <3> SUFFICES ASSUME NEW i \in 0 .. s - 1 PROVE ~ IsSet(i)' BY <1>1 DEF Members
    <3>1. i \div LONG_BIT \in 0 .. WordsFor(s) - 1
      <4>1. s \in Nat /\ i \in Nat /\ i < s /\ LONG_BIT \in Nat \ {0} BY IdsetAssumption
      <4>2. i \div LONG_BIT \in Nat /\ i \div LONG_BIT < WordsFor(s)
        BY <4>1, Quotient, RoundedUp DEF WordsFor
      <4>3. WordsFor(s) \in Nat BY <4>1, Quotient DEF WordsFor
      <4> QED BY <4>2, <4>3
    <3> QED BY <1>1, <3>1 DEF IsSet
  <2> QED BY <1>1, <2>1, <2>2, <2>3 DEF SInv, BoundsRight, OnMember
<1>3. Counted' BY <1>1 DEF Counted
<1>4. Flags' /\ Answer' BY <1>1, FlagsStay, Numbers DEF IdsetInv, Answer
<1>5. Cursor!Open(s) BY <1>1, <1>2 DEF Cursor!Open, Cursor!Opened
<1> QED BY <1>2, <1>3, <1>4, <1>5 DEF IdsetInv

\* idset_empty answers by the least member.
LEMMA EmptyStep ==
  ASSUME IdsetInv, idset_empty
  PROVE  IdsetInv' /\ Cursor!Empty
<1>1. /\ UNCHANGED <<set, size, min, max, lastid, dead, counting, id, count, before>>
      /\ result' = <<"empty", 0, IF IsEmpty THEN 1 ELSE 0>> /\ ~ counting
  BY DEF idset_empty, Idle, Returns, loop, idset
<1>2. SInv' /\ Members' = Members
  BY <1>1, SameMembers DEF IdsetInv, SInv, OnMember
<1>3. Counted' BY <1>1 DEF Counted
<1>4. Flags' /\ Answer' BY <1>1, FlagsStay, Numbers DEF IdsetInv, Answer
<1>5. Cursor!Empty
  <2>1. IsEmpty <=> Members = {} BY MemberFacts DEF IdsetInv
  <2> QED BY <1>1, <1>2, <2>1 DEF Cursor!Empty, Cursor!Truth
<1> QED BY <1>2, <1>3, <1>4, <1>5 DEF IdsetInv

\* idset_first returns the least member.
LEMMA FirstStep ==
  ASSUME IdsetInv, idset_first
  PROVE  IdsetInv' /\ Cursor!First
<1>1. /\ UNCHANGED <<set, size, min, max, dead, counting, id, count, before>>
      /\ lastid' = min /\ result' = <<"first", 0, min>> /\ ~ counting
  BY DEF idset_first, Idle, Returns, loop
<1>2. SInv' /\ Members' = Members
  <2>1. min = END_OF_ID \/ min \in Members BY MemberFacts DEF IdsetInv
  <2> QED BY <1>1, <2>1, SameMembers DEF IdsetInv
<1>3. Counted' BY <1>1 DEF Counted
<1>4. Flags' /\ Answer'
  <2>1. min \in 0 .. END_OF_ID BY MemberFacts, IdsetAssumption DEF IdsetInv
  <2> QED BY <1>1, <2>1, FlagsStay DEF IdsetInv, Answer
<1>5. Cursor!Least(Members) = min
  <2>1. CASE Members = {} BY <2>1, NoneIs, MemberFacts DEF IdsetInv
  <2>2. CASE Members # {}
    <3>1. min \in Members /\ \A j \in Members : min <= j BY <2>2, MemberFacts DEF IdsetInv
    <3>2. Members \subseteq Nat BY MemberFacts DEF IdsetInv
    <3> QED BY <3>1, <3>2, LeastOfCursor
  <2> QED BY <2>1, <2>2
<1>6. Cursor!First BY <1>1, <1>2, <1>5 DEF Cursor!First
<1> QED BY <1>2, <1>3, <1>4, <1>6 DEF IdsetInv

\* idset_add adds one member, or the process dies.
LEMMA AddStep ==
  ASSUME IdsetInv, NEW i \in Ids, idset_add(i)
  PROVE  IdsetInv' /\ (Cursor!Add(i) \/ Cursor!AddFails(i))
<1>1. /\ UNCHANGED <<counting, id, count, before>> /\ ~ counting
      /\ result' = <<"add", i, END_OF_ID>>
  BY DEF idset_add, Idle, Returns, loop
<1>2. Counted' BY <1>1 DEF Counted
<1>3. Answer' BY <1>1, Numbers DEF Answer
<1>4. i \in Nat /\ size \in Nat BY IdsetAssumption DEF Ids, IdsetInv, SInv, Shape
<1>5. CASE i >= size
  <2>1. dead' = TRUE /\ UNCHANGED <<set, size, min, max, lastid>>
    BY <1>5 DEF idset_add, idset
  <2>2. SInv' /\ Members' = Members BY <2>1, SameMembers DEF IdsetInv, SInv, OnMember
  <2>3. Flags'
    <3>1. dead' \in BOOLEAN BY <2>1
    <3> QED BY <1>1, <3>1, Zenon DEF IdsetInv, Flags
  <2>4. Cursor!AddFails(i) BY <1>1, <1>5, <2>1, <2>2 DEF Cursor!AddFails
  <2> QED BY <1>2, <1>3, <2>2, <2>3, <2>4 DEF IdsetInv
<1>6. CASE i < size
  <2>1. /\ set' = [set EXCEPT ![i \div LONG_BIT] = @ \cup {i % LONG_BIT}]
        /\ Bounds(i) /\ UNCHANGED <<size, lastid, dead>>
    BY <1>4, <1>6 DEF idset_add
  <2>2. SInv' /\ Members' = Members \cup {i} BY <1>6, <2>1, AddFacts DEF IdsetInv
  <2>3. Flags' BY <1>1, <2>1, FlagsStay DEF IdsetInv
  <2>4. Cursor!Add(i) BY <1>1, <1>6, <2>1, <2>2 DEF Cursor!Add
  <2> QED BY <1>2, <1>3, <2>2, <2>3, <2>4 DEF IdsetInv
<1> QED BY <1>4, <1>5, <1>6

\* idset_contains answers by the bounds and the bit.
LEMMA ContainsStep ==
  ASSUME IdsetInv, NEW i \in Ids, idset_contains(i)
  PROVE  IdsetInv' /\ Cursor!Contains(i)
<1> DEFINE yes == ~ IsEmpty /\ min <= i /\ i <= max /\ IsSet(i)
<1>1. /\ UNCHANGED <<set, size, min, max, lastid, dead, counting, id, count, before>>
      /\ result' = <<"contains", i, IF yes THEN 1 ELSE 0>> /\ ~ counting
  BY DEF idset_contains, Idle, Returns, loop, idset
<1>2. SInv' /\ Members' = Members
  BY <1>1, SameMembers DEF IdsetInv, SInv, OnMember
<1>3. yes <=> i \in Members
  <2>1. CASE Members = {} BY <2>1, MemberFacts DEF IdsetInv
  <2>2. CASE Members # {}
    <3>1. ~ IsEmpty /\ {min, max} \subseteq Members
          /\ \A j \in Members : j \in Nat /\ min <= j /\ j <= max
      BY <2>2, MemberFacts DEF IdsetInv
    <3>2. i \in Members => yes BY <3>1 DEF Members
    <3>3. i <= max => i \in 0 .. size - 1
      <4>1. max \in 0 .. size - 1 BY <3>1 DEF Members
      <4>2. size \in Nat /\ MaxSize \in Nat BY IdsetAssumption DEF IdsetInv, SInv, Shape
      <4> QED BY <4>1, <4>2 DEF Ids
    <3>4. yes => i \in Members BY <3>3 DEF Members
    <3> QED BY <3>2, <3>4
  <2> QED BY <2>1, <2>2
<1>4. Counted' BY <1>1 DEF Counted
<1>5. Flags' /\ Answer' BY <1>1, FlagsStay, Numbers DEF IdsetInv, Answer
<1>6. Cursor!Contains(i)
  <2> HIDE DEF yes
  <2> QED BY <1>1, <1>2, <1>3 DEF Cursor!Contains, Cursor!Truth
<1> QED BY <1>2, <1>4, <1>5, <1>6 DEF IdsetInv

\* idset_next returns the next member and moves the cursor to it.
LEMMA NextStep ==
  ASSUME IdsetInv, idset_next
  PROVE  IdsetInv' /\ Cursor!NextId
<1> DEFINE later == {j \in Members : lastid < j}
<1>1. /\ UNCHANGED <<counting, id, count, before>> /\ ~ counting
      /\ result' = <<"next", 0, Found>> /\ MoveOn /\ dead = FALSE
  BY DEF idset_next, Idle, Returns, loop, IdsetInv, Flags
<1>2. SInv' /\ Members' = Members /\ dead' = FALSE BY <1>1, MoveFacts DEF IdsetInv
<1>3. Counted' BY <1>1 DEF Counted
<1>4. Members \subseteq Nat /\ \A j \in Members : j < END_OF_ID BY MemberFacts DEF IdsetInv
<1>5. Found = Cursor!Least(later)
      /\ lastid' = (IF Found = END_OF_ID THEN lastid ELSE Found) /\ Found \in 0 .. END_OF_ID
  <2>1. CASE AtEnd(lastid)
    <3>1. later = {} /\ Found = END_OF_ID /\ lastid' = lastid
      BY <1>1, <2>1, MoveFacts DEF IdsetInv
    <3> QED BY <3>1, NoneIs, Numbers
  <2>2. CASE ~ AtEnd(lastid)
    <3>1. /\ lastid' = Found /\ Found \in Members /\ lastid < Found
          /\ \A j \in Members : lastid < j => Found <= j
      BY <1>1, <2>2, MoveFacts DEF IdsetInv
    <3>2. Cursor!Least(later) = Found
      <4>1. Found \in later /\ later \subseteq Nat /\ \A j \in later : Found <= j
        BY <1>4, <3>1
      <4> HIDE DEF later
      <4> QED BY <4>1, LeastOfCursor
    <3>3. Found # END_OF_ID /\ Found \in 0 .. END_OF_ID BY <1>4, <3>1, IdsetAssumption
    <3> QED BY <3>1, <3>2, <3>3
  <2> QED BY <2>1, <2>2
<1>6. Flags' /\ Answer' BY <1>1, <1>2, <1>5, FlagsStay DEF IdsetInv, Answer
<1>7. size' = size BY <1>1 DEF MoveOn
<1>8. Cursor!NextId
  <2>1. result' = <<"next", 0, Cursor!Least(later)>> BY <1>1, <1>5
  <2>2. lastid' = IF Cursor!Least(later) = END_OF_ID THEN lastid ELSE Cursor!Least(later)
    BY <1>5
  <2> QED BY <1>1, <1>2, <1>7, <2>1, <2>2 DEF Cursor!NextId
<1> QED BY <1>2, <1>3, <1>6, <1>8 DEF IdsetInv
----------------------------------------------------------------------------
\* The steps of idset_count before its last show nothing to a caller.
LEMMA BeginCountStep ==
  ASSUME IdsetInv, BeginCount
  PROVE  IdsetInv' /\ UNCHANGED cvars
<1>1. /\ UNCHANGED <<set, size, min, max, dead, result>> /\ ~ counting /\ counting' = TRUE
      /\ lastid' = min /\ id' = min /\ count' = 0 /\ before' = lastid
  BY DEF BeginCount, Idle
<1>2. /\ min = END_OF_ID \/ min \in Members
      /\ \A j \in Members : j \in Nat /\ min <= j /\ j < END_OF_ID
      /\ min = END_OF_ID => Members = {} /\ max = END_OF_ID
      /\ lastid \in 0 .. END_OF_ID /\ min \in 0 .. END_OF_ID
  BY MemberFacts, IdsetAssumption DEF IdsetInv, SInv, OnMember, IsEmpty
<1>3. SInv' /\ Members' = Members BY <1>1, <1>2, SameMembers DEF IdsetInv
<1>4. Counted'
  <2>1. min # END_OF_ID => min \in Members /\ Below(min) = {}
    BY <1>2 DEF Below
  <2>2. Below(lastid)' = Below(min) BY <1>1, <1>3 DEF Below
  <2> QED BY <1>1, <1>2, <1>3, <2>1, <2>2, FS_EmptySet DEF Counted
<1>5. Flags' BY <1>1, <1>2, Zenon DEF IdsetInv, Flags
<1>6. Answer' BY <1>1 DEF IdsetInv, Answer
<1> QED BY <1>1, <1>3, <1>4, <1>5, <1>6 DEF IdsetInv, cvars, CursorNow

\* A step of the loop counts the member it leaves.
LEMMA CountOneStep ==
  ASSUME IdsetInv, CountOne
  PROVE  IdsetInv' /\ UNCHANGED cvars
<1>1. /\ UNCHANGED <<counting, before, result>> /\ counting /\ id # END_OF_ID
      /\ MoveOn /\ count' = count + 1 /\ id' = Found
  BY DEF CountOne
<1>2. SInv' /\ Members' = Members /\ dead' = FALSE /\ UNCHANGED <<size, max>>
  BY <1>1, MoveFacts DEF IdsetInv, MoveOn
<1>3. /\ lastid \in Members /\ count = Cardinality(Below(lastid)) /\ Shape
      /\ \A j \in Members : j \in Nat /\ j < END_OF_ID /\ j <= max
  BY <1>1, MemberFacts DEF IdsetInv, SInv, Counted
<1>4. CASE AtEnd(lastid)
  <2>1. lastid' = lastid /\ Found = END_OF_ID /\ lastid = max
    BY <1>1, <1>3, <1>4, MoveFacts DEF IdsetInv
  <2>2. Cardinality(Members) = count + 1
    <3>1. \A j \in Members : j \in Members <=> j <= lastid BY <1>3, <2>1
    <3> QED BY <1>3, <3>1, CountNext
  <2>3. Counted' BY <1>1, <1>2, <2>1, <2>2 DEF Counted
  <2>4. Flags' BY <1>1, <1>2, <2>1, Numbers, Zenon DEF IdsetInv, Flags
  <2> QED BY <1>1, <1>2, <2>3, <2>4 DEF IdsetInv, Answer, cvars, CursorNow
<1>5. CASE ~ AtEnd(lastid)
  <2>1. /\ lastid' = Found /\ Found \in Members /\ lastid < Found
        /\ \A j \in Members : lastid < j => Found <= j
    BY <1>1, <1>5, MoveFacts DEF IdsetInv
  <2>2. Cardinality(Below(Found)) = count + 1
    <3>1. Below(Found) \subseteq Members BY DEF Below
    <3>2. \A j \in Members : j \in Below(Found) <=> j <= lastid
      <4> SUFFICES ASSUME NEW j \in Members PROVE j < Found <=> j <= lastid
        BY DEF Below
      <4>1. j \in Nat /\ lastid \in Nat /\ Found \in Nat BY <1>3, <2>1
      <4> QED BY <2>1, <4>1
    <3> QED BY <1>3, <3>1, <3>2, CountNext
  <2>3. Below(lastid)' = Below(Found) BY <1>2, <2>1 DEF Below
  <2>4. Found # END_OF_ID /\ Found \in 0 .. END_OF_ID
    BY <1>3, <2>1, IdsetAssumption
  <2>5. Counted' BY <1>1, <1>2, <2>1, <2>2, <2>3, <2>4 DEF Counted
  <2>6. Flags' BY <1>1, <1>2, <2>4, Zenon DEF IdsetInv, Flags
  <2> QED BY <1>1, <1>2, <2>5, <2>6 DEF IdsetInv, Answer, cvars, CursorNow
<1> QED BY <1>4, <1>5

\* idset_count returns the number of members and leaves the cursor on the last.
LEMMA EndCountStep ==
  ASSUME IdsetInv, EndCount
  PROVE  IdsetInv' /\ Cursor!Count
<1>1. /\ UNCHANGED <<set, size, min, max, lastid, dead>> /\ counting /\ id = END_OF_ID
      /\ result' = <<"count", 0, count>> /\ counting' = FALSE
      /\ id' = 0 /\ count' = 0 /\ before' = 0
  BY DEF EndCount, Returns, idset
<1>2. lastid = max /\ count = Cardinality(Members) BY <1>1 DEF IdsetInv, Counted
<1>3. SInv' /\ Members' = Members
  BY <1>1, SameMembers DEF IdsetInv, SInv, OnMember
<1>4. count \in 0 .. END_OF_ID
  <2>1. count \in 0 .. MaxSize BY <1>2, MembersFinite DEF IdsetInv, SInv
  <2> QED BY <2>1, Numbers
<1>5. Counted' BY <1>1 DEF Counted
<1>6. Flags' /\ Answer'
  <2>1. Flags' BY <1>1, Numbers, Zenon DEF IdsetInv, Flags
  <2>2. Answer' BY <1>1, <1>4 DEF Answer
  <2> QED BY <2>1, <2>2
<1>7. Cursor!Greatest(Members) = max
  <2>1. CASE Members = {} BY <2>1, NoneIs, MemberFacts DEF IdsetInv
  <2>2. CASE Members # {}
    <3>1. max \in Members /\ Members \subseteq Nat /\ \A j \in Members : j <= max
      BY <2>2, MemberFacts DEF IdsetInv
    <3> QED BY <3>1, GreatestIs
  <2> QED BY <2>1, <2>2
<1>8. Cursor!Count
  <2>1. result' = <<"count", 0, Cardinality(Members)>> BY <1>1, <1>2
  <2>2. CursorNow' = Cursor!Greatest(Members)
    <3>1. CursorNow' = lastid' BY <1>1 DEF CursorNow
    <3> QED BY <1>1, <1>2, <1>7, <3>1
  <2>3. Cursor!Cardinality(Members) = Cardinality(Members)
    BY DEF Cursor!Cardinality, Cardinality
  <2> QED BY <1>1, <1>3, <2>1, <2>2, <2>3 DEF Cursor!Count, CursorNow
<1> QED BY <1>3, <1>5, <1>6, <1>8 DEF IdsetInv
----------------------------------------------------------------------------
\* A set just opened is an empty set with a cursor nowhere.
LEMMA IdsetBegins == IdsetInit => IdsetInv /\ Cursor!Init
<1> SUFFICES ASSUME IdsetInit PROVE IdsetInv /\ Cursor!Init OBVIOUS
<1>1. SInv /\ Members = {} BY EmptyFacts DEF IdsetInit
<1>2. Counted /\ Flags /\ Answer BY Numbers DEF IdsetInit, Counted, Flags, Answer
<1>3. Cursor!Init BY <1>1 DEF IdsetInit, Cursor!Init, Cursor!Opened
<1> QED BY <1>1, <1>2, <1>3 DEF IdsetInv

\* Every call is a call of IdCursor and keeps the invariant.
LEMMA IdsetStep == IdsetInv /\ [IdsetNext]_idsetVars => IdsetInv' /\ [Cursor!Next]_cvars
<1> SUFFICES ASSUME IdsetInv, [IdsetNext]_idsetVars PROVE IdsetInv' /\ [Cursor!Next]_cvars OBVIOUS
<1>1. ASSUME NEW s \in 0 .. MaxSize, idset_open(s) PROVE IdsetInv' /\ Cursor!Next
  BY <1>1, OpenStep DEF Cursor!Next
<1>2. CASE idset_empty BY <1>2, EmptyStep DEF Cursor!Next
<1>3. CASE idset_first BY <1>3, FirstStep DEF Cursor!Next
<1>4. CASE idset_next BY <1>4, NextStep DEF Cursor!Next
<1>5. CASE BeginCount BY <1>5, BeginCountStep
<1>6. CASE CountOne BY <1>6, CountOneStep
<1>7. CASE EndCount BY <1>7, EndCountStep DEF Cursor!Next
<1>8. ASSUME NEW i \in Ids PROVE i \in 0 .. END_OF_ID - 1
  BY IdsetAssumption DEF Ids
<1>9. ASSUME NEW i \in Ids, idset_add(i) PROVE IdsetInv' /\ Cursor!Next
  BY <1>8, <1>9, AddStep DEF Cursor!Next
<1>10. ASSUME NEW i \in Ids, idset_contains(i) PROVE IdsetInv' /\ Cursor!Next
  BY <1>8, <1>10, ContainsStep DEF Cursor!Next
<1>11. CASE UNCHANGED idsetVars
  <2>1. UNCHANGED <<set, size, min, max, lastid, result, dead, counting, id, count, before>>
    BY <1>11 DEF idsetVars, idset, loop
  <2>2. SInv' /\ Members' = Members BY <2>1, SameMembers DEF IdsetInv, SInv, OnMember
  <2>3. Below(lastid)' = Below(lastid) BY <2>1, <2>2 DEF Below
  <2>4. Counted' BY <2>1, <2>2, <2>3 DEF IdsetInv, Counted
  <2>5. Flags' /\ Answer' BY <2>1, FlagsStay DEF IdsetInv, Answer
  <2> QED BY <2>1, <2>2, <2>4, <2>5 DEF IdsetInv, cvars, CursorNow
<1> QED BY <1>1, <1>2, <1>3, <1>4, <1>5, <1>6, <1>7, <1>9, <1>10, <1>11 DEF IdsetNext

\* The inductive invariant: the words are clean, the bounds right, the cursor on
\* a member, and idset_count has counted what is below it.
THEOREM IdsetInvariant == IdsetSpec => []IdsetInv
<1>1. IdsetInit => IdsetInv BY IdsetBegins
<1>2. IdsetInv /\ [IdsetNext]_idsetVars => IdsetInv' BY IdsetStep
<1> QED BY <1>1, <1>2, PTL DEF IdsetSpec

\* The types, the bound of the count among them, hold for every size.
THEOREM IdsetTypes == IdsetSpec => []IdsetTypeOK
<1>1. IdsetInv => IdsetTypeOK
  <2> SUFFICES ASSUME IdsetInv PROVE IdsetTypeOK OBVIOUS
  <2>1. {min, max, lastid} \subseteq Ids \cup {END_OF_ID}
    BY MemberFacts DEF IdsetInv, SInv, OnMember
  <2>2. count \in 0 .. MaxSize
    <3>1. CASE ~ counting BY <3>1, IdsetAssumption DEF IdsetInv, Flags
    <3>2. CASE counting /\ id = END_OF_ID
      BY <3>2, MembersFinite DEF IdsetInv, SInv, Counted
    <3>3. CASE counting /\ id # END_OF_ID
      <4> DEFINE T == {j \in Members : j <= lastid}
      <4>1. lastid \in Members /\ count = Cardinality(Below(lastid)) /\ Shape
        BY <3>3 DEF IdsetInv, SInv, Counted
      <4>2. Cardinality(T) = count + 1 /\ Cardinality(T) \in 0 .. MaxSize /\ count \in Nat
        <5>1. T \subseteq Members /\ \A j \in Members : j \in T <=> j <= lastid OBVIOUS
        <5> HIDE DEF T
        <5> QED BY <4>1, <5>1, CountNext
      <4> HIDE DEF T
      <4> QED BY <4>2, IdsetAssumption
    <3> QED BY <3>1, <3>2, <3>3
  <2>3. Shape BY DEF IdsetInv, SInv
  <2>4. dead \in BOOLEAN /\ counting \in BOOLEAN BY Zenon DEF IdsetInv, Flags
  <2>5. {id, before} \subseteq 0 .. END_OF_ID /\ result[3] \in 0 .. END_OF_ID
    BY DEF IdsetInv, Flags, Answer
  <2> QED BY <2>1, <2>2, <2>3, <2>4, <2>5, Zenon DEF IdsetTypeOK, Shape
<1> QED BY <1>1, IdsetInvariant, PTL

\* The bounds that end every loop are the least and the greatest member.
THEOREM BoundsAreRight == IdsetSpec => []BoundsRight
<1>1. IdsetInv => BoundsRight BY DEF IdsetInv, SInv
<1> QED BY <1>1, IdsetInvariant, PTL

\* The scan of idset_next never runs past the last word.
THEOREM NeverInternalError == IdsetSpec => []NoInternalError
<1>1. IdsetInv => NoInternalError BY NextFound DEF IdsetInv, NoInternalError
<1> QED BY <1>1, IdsetInvariant, PTL

\* The words of bits are a set with a cursor, whatever the width of a word.
THEOREM IdsetImplementsCursor == IdsetSpec => IsIdCursor
<1>1. IdsetInit => Cursor!Init BY IdsetBegins
<1>2. IdsetInv /\ [IdsetNext]_idsetVars => [Cursor!Next]_cvars BY IdsetStep
<1> QED BY <1>1, <1>2, IdsetInvariant, PTL
    DEF IdsetSpec, IsIdCursor, Cursor!Spec, cvars, CursorNow

----------------------------------------------------------------------------
(***************************************************************************)
(* Mpool: pages that are held stay, none that was put is lost, and it implements*)
(* PageStore, for any number of pages and any moment of writing.           *)
(***************************************************************************)

Contents == Vals \cup {Hole}

Sound ==
  /\ npages \in Nat /\ fsize \in Nat
  /\ phase \in {"closed", "open", "synced", "failed"}
  /\ buf \in [Cached -> Buffer] /\ Cached \subseteq 0 .. npages - 1
  /\ file \in [0 .. fsize - 1 -> Contents]
  /\ versions \in [0 .. StoreSize - 1 -> SUBSET Contents]

\* What the B-tree holds is in memory and pinned.
Holding ==
  /\ touched \subseteq held /\ held \subseteq Cached
  /\ \A p \in held : Pinned(p)

Phases ==
  /\ phase = "closed" => Cached = {}
  /\ phase # "closed" => fsize <= npages
  /\ phase # "open" => held = {}

\* The file holds versions, and so does what may be written to it.
Versions ==
  /\ \A p \in 0 .. fsize - 1 : file[p] \in versions[p]
  /\ \A p \in 0 .. StoreSize - 1 : p >= fsize => Hole \in versions[p]
  /\ \A p \in Cached : Dirty(p) /\ p \notin touched => buf[p].val \in versions[p]

MInv == Sound /\ Holding /\ Phases /\ Versions /\ NothingLost

LEMMA Inside == \A p, n \in Nat : p < n => p \in 0 .. n - 1
OBVIOUS

\* The pages of a file that grows.
LEMMA Within ==
  \A a, b, n \in Nat :
    a <= b /\ b <= n =>
      /\ \A p \in 0 .. a - 1 : p \in 0 .. b - 1 /\ p < a
      /\ \A p \in a .. b - 1 : p \in 0 .. b - 1 /\ ~ (p < a) /\ p \in 0 .. n - 1 /\ p >= a
      /\ \A p \in 0 .. b - 1 : p < a \/ p \in a .. b - 1
<1> SUFFICES ASSUME NEW a \in Nat, NEW b \in Nat, NEW n \in Nat, a <= b, b <= n
    PROVE  /\ \A p \in 0 .. a - 1 : p \in 0 .. b - 1 /\ p < a
           /\ \A p \in a .. b - 1 : p \in 0 .. b - 1 /\ ~ (p < a) /\ p \in 0 .. n - 1 /\ p >= a
           /\ \A p \in 0 .. b - 1 : p < a \/ p \in a .. b - 1
  BY Zenon
<1> QED OBVIOUS

\* The pages of a file are the numbers below its size, and it only grows.
LEMMA Index ==
  /\ \A k \in Nat : \A i \in Nat : i < k => i \in 0 .. k - 1
  /\ \A k \in Nat : \A i \in 0 .. k - 1 : i \in Nat /\ i < k
  /\ \A k, l \in Nat : \A i \in Nat : i < k /\ k <= l => i < l
OBVIOUS
----------------------------------------------------------------------------
\* A buffer that is reused is not in the B-tree's hands, and its page is in the
\* file afterwards as it was in memory; other pages of the file stay.
LEMMA ReuseKeeps ==
  ASSUME MInv, phase = "open", NEW q, Reuse(q)
  PROVE  /\ q \in Cached /\ q \notin held
         /\ fsize' \in Nat /\ fsize <= fsize' /\ fsize' <= npages
         /\ q < fsize' /\ file'[q] = buf[q].val
         /\ file' \in [0 .. fsize' - 1 -> Contents]
         /\ \A p \in 0 .. fsize - 1 : p # q => file'[p] = file[p]
         /\ \A p \in fsize .. fsize' - 1 : p # q => file'[p] = Hole
         /\ \A p \in 0 .. fsize' - 1 : file'[p] \in versions[p]
<1> USE DEF StoreSize
<1>1. q \in Cached /\ ~ buf[q].pinned /\ q \notin held /\ q \in 0 .. npages - 1
  BY DEF Reuse, FirstUnpinned, MInv, Holding, Pinned, Sound
<1>2. /\ npages \in Nat /\ fsize \in Nat /\ fsize <= npages
      /\ file \in [0 .. fsize - 1 -> Contents]
      /\ buf[q].val \in Contents
      /\ \A p \in 0 .. fsize - 1 : file[p] \in versions[p]
      /\ \A p \in 0 .. npages - 1 : p >= fsize => Hole \in versions[p]
  BY <1>1 DEF MInv, Sound, Phases, Versions, Buffer, Contents
<1>3. CASE Dirty(q)
  <2>1. mpool_write(q)
    BY <1>3 DEF Reuse
  <2>2. buf[q].val \in versions[q]
    BY <1>1, <1>3 DEF MInv, Versions, Holding
  <2>3. fsize' \in Nat /\ fsize <= fsize' /\ fsize' <= npages /\ q < fsize'
    BY <1>1, <1>2, <2>1 DEF mpool_write
  <2>4. file' = [p \in 0 .. fsize' - 1 |->
                  IF p = q THEN buf[q].val ELSE IF p < fsize THEN file[p] ELSE Hole]
    BY <2>1 DEF mpool_write
  <2>5. fsize \in Nat /\ \A p \in 0 .. fsize - 1 : file[p] \in Contents
    BY <1>1, <1>2
  <2>6. buf[q].val \in Contents /\ Hole \in Contents
    BY <1>1, <1>2, <2>2 DEF Contents
  <2>7. \A p \in 0 .. fsize' - 1 : p < fsize => p \in 0 .. fsize - 1
    BY <2>3, <2>5
  <2>8. file' \in [0 .. fsize' - 1 -> Contents]
    BY <2>4, <2>5, <2>6, <2>7, Zenon
  <2>9. q \in 0 .. fsize' - 1 /\ file'[q] = buf[q].val
    <3>1. q \in Nat
      BY <1>1, <1>2
    <3>2. q \in 0 .. fsize' - 1
      BY <2>3, <3>1, Inside, Zenon
    <3> QED BY <2>4, <3>2, Zenon
  <2>13. fsize \in Nat /\ fsize' \in Nat /\ fsize <= fsize' /\ npages \in Nat /\ fsize' <= npages
    BY <1>2, <2>3, Zenon
  <2>14. /\ \A p \in 0 .. fsize - 1 : p \in 0 .. fsize' - 1 /\ p < fsize
         /\ \A p \in fsize .. fsize' - 1 :
              p \in 0 .. fsize' - 1 /\ ~ (p < fsize) /\ p \in 0 .. npages - 1 /\ p >= fsize
         /\ \A p \in 0 .. fsize' - 1 : p < fsize \/ p \in fsize .. fsize' - 1
    BY <2>13, Within, Zenon
  <2>10. ASSUME NEW p \in 0 .. fsize - 1, p # q PROVE file'[p] = file[p]
    <3>1. p \in 0 .. fsize' - 1 /\ p < fsize
      BY <2>10, <2>14, Zenon
    <3> QED BY <2>4, <2>10, <3>1, Zenon
  <2>11. ASSUME NEW p \in fsize .. fsize' - 1, p # q PROVE file'[p] = Hole
    <3>1. p \in 0 .. fsize' - 1 /\ ~ (p < fsize)
      BY <2>11, <2>14, Zenon
    <3> QED BY <2>4, <2>11, <3>1, Zenon
  <2>12. ASSUME NEW p \in 0 .. fsize' - 1 PROVE file'[p] \in versions[p]
    <3>1. CASE p = q
      BY <2>2, <2>9, <3>1
    <3>2. CASE p # q /\ p < fsize
      <4>1. p \in 0 .. fsize - 1
        BY <2>7, <2>12, <3>2, Zenon
      <4> QED BY <1>2, <2>10, <3>2, <4>1
    <3>3. CASE p # q /\ ~ (p < fsize)
      <4>1. p \in fsize .. fsize' - 1 /\ p \in 0 .. npages - 1 /\ p >= fsize
        BY <2>12, <2>14, <3>3, Zenon
      <4> QED BY <1>2, <2>11, <3>3, <4>1
    <3> QED BY <3>1, <3>2, <3>3
  <2> QED
    BY <1>1, <2>3, <2>8, <2>9, <2>10, <2>11, <2>12
<1>4. CASE ~ Dirty(q)
  <2>1. UNCHANGED <<file, fsize>>
    BY <1>4 DEF Reuse, poolFile
  <2>2. q < fsize /\ file[q] = buf[q].val
    BY <1>1, <1>4 DEF MInv, NothingLost, Holding
  <2> QED
    BY <1>1, <1>2, <2>1, <2>2
<1> QED
  BY <1>3, <1>4

\* Page p, which was not in memory, gets a buffer with v in it; of the others
\* the pages of C keep theirs.  What the file says goes on being so.
GiveStep(p, v, C) ==
  /\ phase = "open" /\ phase' = "open"
  /\ p \in Nat /\ p \notin Cached /\ v \in Contents
  /\ C \subseteq Cached /\ held \subseteq C
  /\ buf' = Give([q \in C |-> buf[q]], p, v)
  /\ npages' \in Nat /\ npages <= npages' /\ p < npages'
  /\ held' = held \cup {p}
  /\ touched \subseteq touched' /\ touched' \subseteq touched \cup {p}
FileStep(p, v, C) ==
  /\ fsize' \in Nat /\ fsize <= fsize' /\ fsize' <= npages
  /\ file' \in [0 .. fsize' - 1 -> Contents]
  /\ \A q \in 0 .. fsize' - 1 : file'[q] \in versions[q]
  /\ \A q \in 0 .. fsize - 1 : q \notin Cached \ C => file'[q] = file[q]
  /\ \A q \in Cached \ C : q < fsize' /\ file'[q] = buf[q].val
  /\ p \in touched' \/ (p < fsize' /\ file'[p] = v)
VersionStep ==
  /\ versions' \in [0 .. npages' - 1 -> SUBSET Contents]
  /\ \A q \in 0 .. npages - 1 : versions'[q] = versions[q]
  /\ \A q \in npages .. npages' - 1 : Hole \in versions'[q] /\ q \in touched'

\* A step of this kind keeps the invariant, whichever page gave up its buffer.
LEMMA GiveKeeps ==
  ASSUME MInv, NEW p, NEW v, NEW C,
         GiveStep(p, v, C), FileStep(p, v, C), VersionStep
  PROVE  MInv'
<1>1. /\ phase = "open" /\ phase' = "open"
      /\ p \in Nat /\ p \notin Cached /\ v \in Contents
      /\ C \subseteq Cached /\ held \subseteq C
      /\ npages' \in Nat /\ npages <= npages' /\ p < npages'
      /\ held' = held \cup {p}
      /\ touched \subseteq touched' /\ touched' \subseteq touched \cup {p}
  BY DEF GiveStep
<1>2. /\ Cached' = C \cup {p}
      /\ buf'[p] = [val |-> v, dirty |-> FALSE, pinned |-> TRUE]
      /\ \A q \in C : q # p => buf'[q] = buf[q]
      /\ buf' \in [Cached' -> {buf'[q] : q \in Cached'}]
  BY DEF GiveStep, Give, Cached
<1>3. /\ npages \in Nat /\ fsize \in Nat /\ fsize <= npages
      /\ Cached \subseteq 0 .. npages - 1
      /\ \A q \in Cached : buf[q] \in Buffer
  BY <1>1 DEF MInv, Sound, Phases
<1>4. /\ fsize' \in Nat /\ fsize <= fsize' /\ fsize' <= npages
      /\ \A q \in 0 .. fsize - 1 : q \notin Cached \ C => file'[q] = file[q]
      /\ \A q \in Cached \ C : q < fsize' /\ file'[q] = buf[q].val
      /\ p \in touched' \/ (p < fsize' /\ file'[p] = v)
  BY DEF FileStep
<1>5. /\ \A q \in 0 .. npages - 1 : versions'[q] = versions[q]
      /\ \A q \in npages .. npages' - 1 : Hole \in versions'[q] /\ q \in touched'
  BY DEF VersionStep
<1>6. Sound'
  <2>1. \A q \in Cached' : buf'[q] \in Buffer
    <3> SUFFICES ASSUME NEW q \in Cached' PROVE buf'[q] \in Buffer
      OBVIOUS
    <3>1. CASE q = p
      <4>1. v \in Contents /\ buf'[q] = [val |-> v, dirty |-> FALSE, pinned |-> TRUE]
        BY <3>1, <1>1, <1>2
      <4> QED BY <4>1 DEF Buffer, Contents
    <3>2. CASE q # p
      BY <3>2, <1>1, <1>2, <1>3
    <3> QED BY <3>1, <3>2
  <2>2. buf' \in [Cached' -> Buffer]
    BY <1>2, <2>1
  <2>3. Cached' \subseteq 0 .. npages' - 1
    BY <1>1, <1>2, <1>3
  <2>4. file' \in [0 .. fsize' - 1 -> Contents]
    BY DEF FileStep
  <2>5. versions' \in [0 .. StoreSize' - 1 -> SUBSET Contents]
    BY <1>1 DEF VersionStep, StoreSize
  <2> QED BY <1>1, <1>4, <2>2, <2>3, <2>4, <2>5 DEF Sound
<1>7. Holding'
  <2>1. touched \subseteq held /\ \A q \in held : buf[q].pinned
    BY DEF MInv, Holding, Pinned
  <2> QED BY <1>1, <1>2, <2>1 DEF Holding, Pinned
<1>8. Phases'
  BY <1>1, <1>3, <1>4 DEF Phases
<1>9. Versions'
  <2>1. \A q \in 0 .. fsize' - 1 : file'[q] \in versions'[q]
    <3>1. \A q \in 0 .. fsize' - 1 : file'[q] \in versions[q]
      BY DEF FileStep
    <3>2. ASSUME NEW q \in 0 .. fsize' - 1 PROVE q \in 0 .. npages - 1
      <4>1. fsize' \in Nat /\ fsize' <= npages /\ npages \in Nat
        BY <1>3, <1>4
      <4>2. q \in Nat /\ q < npages
        BY <4>1, Index, Zenon
      <4> QED BY <4>1, <4>2, Index, Zenon
    <3> QED BY <3>1, <3>2, <1>5
  <2>2. \A q \in 0 .. npages - 1 : q >= fsize => Hole \in versions[q]
    BY <1>1 DEF MInv, Versions, StoreSize
  <2>3. \A q \in 0 .. npages' - 1 : q >= fsize' => Hole \in versions'[q]
    <3> SUFFICES ASSUME NEW q \in 0 .. npages' - 1, q >= fsize'
                 PROVE  Hole \in versions'[q]
      OBVIOUS
    <3>1. CASE q < npages
      <4>1. q \in 0 .. npages - 1 /\ q >= fsize
        BY <3>1, <1>3, <1>4
      <4> QED BY <4>1, <2>2, <1>5
    <3>2. CASE q >= npages
      BY <3>2, <1>3, <1>5
    <3> QED BY <3>1, <3>2, <1>1, <1>3
  <2>4. \A q \in Cached : buf[q].dirty /\ q \notin touched => buf[q].val \in versions[q]
    BY DEF MInv, Versions, Dirty
  <2>5. \A q \in Cached' : buf'[q].dirty /\ q \notin touched' => buf'[q].val \in versions'[q]
    BY <1>1, <1>2, <1>3, <1>5, <2>4
  <2> QED BY <1>1, <2>1, <2>3, <2>5 DEF Versions, StoreSize, Dirty
<1>10. NothingLost'
  <2> SUFFICES ASSUME NEW q \in 0 .. npages' - 1
               PROVE  \/ q \in touched'
                      \/ q \in Cached' /\ buf'[q].dirty
                      \/ q < fsize' /\ (q \in Cached' => file'[q] = buf'[q].val)
    BY DEF NothingLost, Dirty
  <2>0. q < npages => \/ q \in touched
                      \/ q \in Cached /\ buf[q].dirty
                      \/ q < fsize /\ (q \in Cached => file[q] = buf[q].val)
    BY <1>1, <1>3 DEF MInv, NothingLost, Dirty
  <2>1. CASE q = p
    BY <2>1, <1>1, <1>2, <1>4
  <2>2. CASE q # p /\ q \in C
    <3>1. q < npages /\ q \in Cached /\ q \in Cached' /\ buf'[q] = buf[q]
      BY <2>2, <1>1, <1>2, <1>3
    <3>2. q < fsize => q < fsize' /\ file'[q] = file[q]
      BY <2>2, <1>3, <1>4
    <3> QED BY <2>0, <3>1, <3>2, <1>1
  <2>3. CASE q # p /\ q \in Cached \ C
    BY <2>3, <1>2, <1>4
  <2>4. CASE q # p /\ q \notin Cached /\ q < npages
    BY <2>0, <2>4, <1>1, <1>2, <1>3, <1>4
  <2>5. CASE q >= npages
    BY <2>5, <1>3, <1>5
  <2> QED BY <2>1, <2>2, <2>3, <2>4, <2>5, <1>1, <1>3
<1> QED BY <1>6, <1>7, <1>8, <1>9, <1>10 DEF MInv

\* Such a step changes what no other page reads as.
LEMMA GiveContent ==
  ASSUME MInv, NEW p, NEW v, NEW C, GiveStep(p, v, C), FileStep(p, v, C)
  PROVE  /\ Content(p)' = v
         /\ \A q \in 0 .. npages - 1 : q # p => Content(q)' = Content(q)
<1>1. /\ Cached' = C \cup {p} /\ buf'[p].val = v
      /\ \A q \in C : q # p => buf'[q] = buf[q]
  BY DEF GiveStep, Give, Cached
<1>2. /\ C \subseteq Cached /\ p \notin Cached /\ phase = "open" /\ touched \subseteq Cached
      /\ npages \in Nat /\ fsize \in Nat /\ fsize' \in Nat /\ fsize <= fsize'
  BY DEF GiveStep, FileStep, MInv, Sound, Holding
<1>3. Content(p)' = v
  BY <1>1 DEF Content
<1>4. ASSUME NEW q \in 0 .. npages - 1, q # p
      PROVE  Content(q)' = Content(q)
  <2>1. CASE q \in C
    BY <2>1, <1>1, <1>2, <1>4 DEF Content
  <2>2. CASE q \in Cached \ C
    BY <2>2, <1>1, <1>4 DEF Content, FileStep
  <2>3. CASE q \notin Cached
    <3>1. q < fsize
      BY <2>3, <1>2, <1>4 DEF MInv, NothingLost
    <3>2. q \in 0 .. fsize - 1 /\ q < fsize' /\ q \notin Cached \ C
      BY <2>3, <3>1, <1>2, <1>4
    <3>3. file'[q] = file[q]
      BY <3>2, Zenon DEF FileStep
    <3> QED BY <2>3, <3>1, <3>2, <3>3, <1>1, <1>2, <1>4 DEF Content
  <2> QED BY <2>1, <2>2, <2>3
<1> QED BY <1>3, <1>4

\* The two ways to a buffer are both such steps of the file.
LEMMA AllocateFile ==
  ASSUME MInv, phase = "open", Allocate, NEW p, NEW v,
         p \in touched' \/ (p < fsize /\ file[p] = v)
  PROVE  FileStep(p, v, Cached)
BY DEF Allocate, poolFile, FileStep, MInv, Sound, Phases, Versions

\* ... the second by the write of the page that gives up its buffer.
LEMMA ReuseFile ==
  ASSUME MInv, phase = "open", NEW r, Reuse(r), NEW p, NEW v,
         p \in touched' \/ (p < fsize' /\ file'[p] = v)
  PROVE  FileStep(p, v, Cached \ {r}) /\ r \in Cached /\ held \subseteq Cached \ {r}
<1>1. r \in Cached /\ r \notin held /\ held \subseteq Cached
  BY ReuseKeeps DEF MInv, Holding
<1>2. /\ fsize' \in Nat /\ fsize <= fsize' /\ fsize' <= npages
      /\ r < fsize' /\ file'[r] = buf[r].val
      /\ file' \in [0 .. fsize' - 1 -> Contents]
      /\ \A q \in 0 .. fsize - 1 : q # r => file'[q] = file[q]
      /\ \A q \in 0 .. fsize' - 1 : file'[q] \in versions[q]
  BY ReuseKeeps
<1>3. Cached \ (Cached \ {r}) = {r}
  BY <1>1
<1> QED BY <1>1, <1>2, <1>3 DEF FileStep

\* The buffers after the two ways.
LEMMA Buffers ==
  ASSUME MInv
  PROVE  /\ buf = [q \in Cached |-> buf[q]]
         /\ \A r : Drop(buf, r) = [q \in Cached \ {r} |-> buf[q]]
BY DEF MInv, Sound, Drop, Cached

\* mpool_new keeps the invariant and appends a page to the store.
LEMMA NewStep ==
  ASSUME MInv, NEW v \in Vals, mpool_new(v)
  PROVE  MInv' /\ Store!New(v)
<1>1. PICK p : p = npages
  OBVIOUS
<1>2. /\ phase = "open" /\ phase' = "open" /\ npages' = npages + 1
      /\ held' = held \cup {p} /\ touched' = touched \cup {p}
      /\ versions' = [q \in 0 .. npages |-> IF q = npages THEN {Hole} ELSE versions[q]]
  BY <1>1 DEF mpool_new, Hold
<1>3. /\ npages \in Nat /\ p \in Nat /\ p \notin Cached /\ v \in Contents
      /\ versions \in [0 .. npages - 1 -> SUBSET Contents]
  BY <1>1, <1>2 DEF MInv, Sound, Contents, StoreSize
<1>4. VersionStep
  BY <1>1, <1>2, <1>3 DEF VersionStep, Contents
<1>5. PICK C : GiveStep(p, v, C) /\ FileStep(p, v, C)
  <2>1. CASE Allocate /\ buf' = Give(buf, npages, v)
    <3>1. GiveStep(p, v, Cached)
      BY <2>1, <1>1, <1>2, <1>3, Buffers DEF GiveStep, MInv, Holding
    <3>2. FileStep(p, v, Cached)
      BY <2>1, <1>2, AllocateFile
    <3> QED BY <3>1, <3>2
  <2>2. ASSUME NEW r \in Cached, Reuse(r), buf' = Give(Drop(buf, r), npages, v)
        PROVE  \E C : GiveStep(p, v, C) /\ FileStep(p, v, C)
    <3>1. FileStep(p, v, Cached \ {r}) /\ held \subseteq Cached \ {r}
      BY <2>2, <1>2, ReuseFile
    <3>2. GiveStep(p, v, Cached \ {r})
      <4>1. Drop(buf, r) = [q \in Cached \ {r} |-> buf[q]]
        BY Buffers
      <4>2. buf' = Give([q \in Cached \ {r} |-> buf[q]], p, v)
        BY <2>2, <4>1, <1>1
      <4>3. Cached \ {r} \subseteq Cached
        OBVIOUS
      <4> QED BY <3>1, <4>2, <4>3, <1>1, <1>2, <1>3 DEF GiveStep
    <3> QED BY <3>1, <3>2
  <2> QED BY <2>1, <2>2 DEF mpool_new
<1>6. MInv'
  BY <1>4, <1>5, GiveKeeps
<1>7. Content(p)' = v /\ \A q \in 0 .. npages - 1 : q # p => Content(q)' = Content(q)
  BY <1>5, GiveContent
<1>8. StoreSize = npages /\ StoreSize' = npages + 1
  BY <1>2 DEF StoreSize
<1>9. StoreContent' = [q \in 0 .. npages |-> IF q = npages THEN v ELSE StoreContent[q]]
  <2>1. StoreContent' = [q \in 0 .. npages |-> Content(q)']
    BY <1>8, <1>3 DEF StoreContent
  <2>2. \A q \in 0 .. npages : Content(q)' = IF q = npages THEN v ELSE StoreContent[q]
    BY <1>1, <1>3, <1>7, <1>8 DEF StoreContent
  <2> QED BY <2>1, <2>2
<1> QED BY <1>2, <1>6, <1>8, <1>9 DEF Store!New

\* mpool_get of a page out of memory reads what the B-tree last left there.
LEMMA GetReadStep ==
  ASSUME MInv, NEW p \in Pgnos, GetRead(p)
  PROVE  MInv' /\ UNCHANGED <<StoreSize, StoreContent, versions>>
<1>1. /\ phase = "open" /\ phase' = "open" /\ npages' = npages /\ versions' = versions
      /\ p < npages /\ p \notin Cached
      /\ held' = held \cup {p} /\ touched' = touched
  BY DEF GetRead, Hold
<1>2. PICK v : v = file'[p]
  OBVIOUS
<1>3. /\ npages \in Nat /\ fsize \in Nat /\ fsize <= npages /\ p \in 0 .. npages - 1
      /\ file \in [0 .. fsize - 1 -> Contents]
      /\ versions \in [0 .. npages - 1 -> SUBSET Contents]
      /\ touched \subseteq Cached
  BY <1>1 DEF MInv, Sound, Phases, Holding, StoreSize, Pgnos
<1>4. p < fsize
  BY <1>1, <1>3 DEF MInv, NothingLost
<1>5. VersionStep
  BY <1>1, <1>3 DEF VersionStep
<1>6. PICK C : GiveStep(p, v, C) /\ FileStep(p, v, C) /\ file'[p] = file[p]
  <2>1. CASE Allocate /\ buf' = Give(buf, p, file[p])
    <3>1. file' = file /\ fsize' = fsize
      BY <2>1 DEF Allocate, poolFile
    <3>2. v \in Contents
      BY <3>1, <1>2, <1>3, <1>4
    <3>3. GiveStep(p, v, Cached)
      BY <2>1, <3>1, <3>2, <1>1, <1>2, <1>3, Buffers DEF GiveStep, MInv, Holding
    <3>4. FileStep(p, v, Cached)
      BY <2>1, <3>1, <1>1, <1>2, <1>4, AllocateFile
    <3> QED BY <3>1, <3>3, <3>4
  <2>2. ASSUME NEW r \in Cached, Reuse(r), buf' = Give(Drop(buf, r), p, file'[p])
        PROVE  \E C : GiveStep(p, v, C) /\ FileStep(p, v, C) /\ file'[p] = file[p]
    <3>1. /\ fsize <= fsize' /\ fsize' \in Nat
          /\ file' \in [0 .. fsize' - 1 -> Contents]
          /\ \A q \in 0 .. fsize - 1 : q # r => file'[q] = file[q]
      BY <2>2, <1>1, ReuseKeeps
    <3>2. p < fsize' /\ v \in Contents /\ file'[p] = file[p]
      <4>1. fsize \in Nat /\ fsize' \in Nat /\ fsize <= fsize' /\ p \in Nat /\ p < fsize
        <5>1. p \in 0 .. npages - 1 /\ npages \in Nat
          BY <1>3
        <5>2. p \in Nat
          BY <5>1
        <5> QED BY <5>2, <3>1, <1>3, <1>4, Zenon
      <4>2. p \in 0 .. fsize - 1 /\ p \in 0 .. fsize' - 1 /\ p < fsize'
        BY <4>1, Index, Zenon
      <4>3. r # p
        BY <1>1
      <4>4. \A q \in 0 .. fsize - 1 : q # r => file'[q] = file[q]
        BY <3>1
      <4>5. file'[p] = file[p]
        BY <4>2, <4>3, <4>4
      <4>6. v \in Contents
        BY <4>2, <3>1, <1>2
      <4> QED BY <4>2, <4>5, <4>6
    <3>3. FileStep(p, v, Cached \ {r}) /\ held \subseteq Cached \ {r}
      BY <2>2, <3>2, <1>1, <1>2, ReuseFile
    <3>4. GiveStep(p, v, Cached \ {r})
      <4>1. Drop(buf, r) = [q \in Cached \ {r} |-> buf[q]]
        BY Buffers
      <4>2. buf' = Give([q \in Cached \ {r} |-> buf[q]], p, v)
        BY <2>2, <4>1, <1>2
      <4>3. Cached \ {r} \subseteq Cached
        OBVIOUS
      <4> QED BY <3>2, <3>3, <4>2, <4>3, <1>1, <1>3 DEF GiveStep
    <3> QED BY <3>2, <3>3, <3>4
  <2> QED BY <2>1, <2>2 DEF GetRead
<1>7. MInv'
  BY <1>5, <1>6, GiveKeeps
<1>8. Content(p)' = v /\ \A q \in 0 .. npages - 1 : q # p => Content(q)' = Content(q)
  BY <1>6, GiveContent
<1>9. Content(p) = v
  BY <1>1, <1>2, <1>4, <1>6 DEF Content
<1>10. StoreSize = npages /\ StoreSize' = npages
  BY <1>1 DEF StoreSize
<1>11. StoreContent' = StoreContent
  BY <1>8, <1>9, <1>10 DEF StoreContent
<1> QED BY <1>1, <1>7, <1>10, <1>11

\* A change of buffers that takes none and gives none.
LEMMA SameBuffers ==
  ASSUME MInv, phase # "closed", phase' # "closed", UNCHANGED <<npages, file, fsize>>,
         Cached' = Cached, \A p \in Cached : buf'[p].val = buf[p].val
  PROVE  UNCHANGED <<StoreSize, StoreContent>>
BY DEF StoreSize, StoreContent, Content

\* mpool_get of a page in memory only moves it in the queue and pins it.
LEMMA GetCachedStep ==
  ASSUME MInv, NEW p \in Pgnos, GetCached(p)
  PROVE  MInv' /\ UNCHANGED <<StoreSize, StoreContent, versions>>
<1>1. /\ phase = "open" /\ phase' = "open" /\ p \in Cached
      /\ held' = held \cup {p}
      /\ UNCHANGED <<npages, file, fsize, touched, versions>>
      /\ buf' = [buf EXCEPT ![p] = [val |-> @.val, dirty |-> @.dirty, pinned |-> TRUE]]
  BY DEF GetCached, Hold, poolFile
<1>2. buf \in [Cached -> Buffer]
  BY DEF MInv, Sound
<1>3. /\ Cached' = Cached
      /\ buf'[p] = [val |-> buf[p].val, dirty |-> buf[p].dirty, pinned |-> TRUE]
      /\ \A q \in Cached : q # p => buf'[q] = buf[q]
  BY <1>1, <1>2 DEF Cached
<1>4. Sound'
  <2>1. \A q \in Cached : buf'[q] \in Buffer
    BY <1>1, <1>2, <1>3 DEF Buffer
  <2>2. buf' \in [Cached -> Buffer]
    BY <1>1, <1>2, <2>1
  <2> QED BY <1>1, <1>3, <2>2 DEF MInv, Sound, StoreSize
<1>5. Holding'
  BY <1>1, <1>3 DEF MInv, Holding, Pinned
<1>6. Phases'
  BY <1>1 DEF MInv, Phases
<1>7. Versions'
  <2>1. \A q \in Cached : buf'[q].dirty = buf[q].dirty /\ buf'[q].val = buf[q].val
    BY <1>3
  <2> QED BY <1>1, <1>3, <2>1 DEF MInv, Versions, StoreSize, Dirty
<1>8. NothingLost'
  <2>1. \A q \in Cached : buf'[q].dirty = buf[q].dirty /\ buf'[q].val = buf[q].val
    BY <1>3
  <2> QED BY <1>1, <1>3, <2>1 DEF MInv, NothingLost, Dirty
<1>9. UNCHANGED <<StoreSize, StoreContent>>
  BY <1>1, <1>3, SameBuffers
<1> QED BY <1>1, <1>4, <1>5, <1>6, <1>7, <1>8, <1>9 DEF MInv

\* A page that gives its buffer up for nothing reads from the file as before.
LEMMA GetFailsStep ==
  ASSUME MInv, NEW p \in Pgnos, GetFails(p)
  PROVE  MInv' /\ UNCHANGED <<StoreSize, StoreContent, versions>>
<1>1. /\ phase = "open" /\ phase' = "open"
      /\ npages' = npages /\ versions' = versions /\ held' = held /\ touched' = touched
  BY DEF GetFails, client
<1>2. CASE Allocate /\ UNCHANGED <<buf, lru>>
  <2>1. UNCHANGED <<npages, fsize, file, buf, phase, versions, held, touched>>
    BY <1>1, <1>2 DEF Allocate, poolFile
  <2> QED
    BY <2>1 DEF MInv, Sound, Holding, Phases, Versions, NothingLost, StoreSize, StoreContent,
                Content, Cached, Pinned, Dirty
<1>3. ASSUME NEW r \in Cached, Reuse(r), buf' = Drop(buf, r)
      PROVE  MInv' /\ UNCHANGED <<StoreSize, StoreContent>>
  <2>1. /\ r \notin held /\ r < fsize' /\ file'[r] = buf[r].val
        /\ fsize' \in Nat /\ fsize <= fsize' /\ fsize' <= npages
        /\ file' \in [0 .. fsize' - 1 -> Contents]
        /\ \A q \in 0 .. fsize - 1 : q # r => file'[q] = file[q]
        /\ \A q \in 0 .. fsize' - 1 : file'[q] \in versions[q]
    BY <1>1, <1>3, ReuseKeeps
  <2>2. buf' = [q \in Cached \ {r} |-> buf[q]]
    BY <1>3, Buffers
  <2>3. Cached' = Cached \ {r} /\ \A q \in Cached' : buf'[q] = buf[q]
    BY <2>2 DEF Cached
  <2>4. /\ npages \in Nat /\ fsize \in Nat /\ Cached \subseteq 0 .. npages - 1
        /\ \A q \in Cached : buf[q] \in Buffer
        /\ versions \in [0 .. npages - 1 -> SUBSET Contents]
        /\ touched \subseteq held /\ held \subseteq Cached
    BY <1>1 DEF MInv, Sound, Holding, StoreSize
  <2>13. \A q \in 0 .. npages - 1 : q < fsize /\ q # r => q < fsize' /\ file'[q] = file[q]
    <3>1. ASSUME NEW q \in 0 .. npages - 1, q < fsize, q # r
          PROVE  q \in 0 .. fsize - 1 /\ q < fsize'
      <4>1. fsize' \in Nat /\ fsize <= fsize' /\ npages \in Nat /\ fsize \in Nat
        BY <2>1, <2>4
      <4> QED BY <3>1, <4>1
    <3>2. \A q \in 0 .. fsize - 1 : q # r => file'[q] = file[q]
      BY <2>1
    <3> QED BY <3>1, <3>2
  <2>5. Sound'
    <3>1. buf' \in [Cached' -> Buffer]
      BY <2>2, <2>3, <2>4
    <3> QED BY <1>1, <2>1, <2>3, <2>4, <3>1 DEF Sound, StoreSize
  <2>6. Holding'
    BY <1>1, <2>1, <2>3 DEF MInv, Holding, Pinned
  <2>7. Phases'
    BY <1>1, <2>1 DEF MInv, Phases
  <2>8. Versions'
    <3>1. \A q \in 0 .. npages - 1 : q >= fsize' => Hole \in versions[q]
      BY <1>1, <2>1, <2>4 DEF MInv, Versions, StoreSize
    <3>2. \A q \in Cached' : buf'[q].dirty /\ q \notin touched => buf'[q].val \in versions[q]
      BY <2>3 DEF MInv, Versions, Dirty
    <3> QED BY <1>1, <2>1, <3>1, <3>2 DEF Versions, StoreSize, Dirty
  <2>9. ASSUME NEW q \in 0 .. npages - 1
        PROVE  /\ Content(q)' = Content(q)
               /\ \/ q \in touched'
                  \/ q \in Cached' /\ buf'[q].dirty
                  \/ q < fsize' /\ (q \in Cached' => file'[q] = buf'[q].val)
    <3>1. \/ q \in touched
          \/ q \in Cached /\ buf[q].dirty
          \/ q < fsize /\ (q \in Cached => file[q] = buf[q].val)
      BY <1>1 DEF MInv, NothingLost, Dirty
    <3>2. CASE q = r
      BY <3>2, <1>3, <2>1, <2>3 DEF Content
    <3>3. CASE q # r /\ q \in Cached
      <4>1. q \in Cached' /\ buf'[q] = buf[q]
        BY <3>3, <2>3
      <4>2. q < fsize => q < fsize' /\ file'[q] = file[q]
        BY <3>3, <2>13
      <4> QED BY <3>1, <3>3, <4>1, <4>2, <1>1 DEF Content
    <3>4. CASE q # r /\ q \notin Cached
      <4>1. q \notin Cached' /\ q < fsize
        BY <3>1, <3>4, <2>3, <2>4
      <4>2. q < fsize' /\ file'[q] = file[q]
        BY <3>4, <4>1, <2>13
      <4> QED BY <3>4, <4>1, <4>2 DEF Content
    <3> QED BY <3>2, <3>3, <3>4
  <2>10. NothingLost'
    BY <1>1, <2>9 DEF NothingLost, Dirty
  <2>11. StoreSize = npages /\ StoreSize' = npages
    BY <1>1 DEF StoreSize
  <2>12. StoreContent' = StoreContent
    BY <2>9, <2>11 DEF StoreContent
  <2> QED BY <2>5, <2>6, <2>7, <2>8, <2>10, <2>11, <2>12 DEF MInv
<1> QED BY <1>1, <1>2, <1>3 DEF GetFails

\* A change the B-tree makes in place is a change of the store.
LEMMA ChangeStep ==
  ASSUME MInv, NEW p \in Pgnos, NEW v \in Vals, Change(p, v)
  PROVE  MInv' /\ p \in 0 .. StoreSize - 1 /\ StoreSize' = StoreSize /\ Store!Change(p, v)
<1>1. /\ p \in held /\ touched' = touched \cup {p}
      /\ UNCHANGED <<npages, file, fsize, phase, held, versions>>
      /\ buf' = [buf EXCEPT ![p] = [val |-> v, dirty |-> @.dirty, pinned |-> @.pinned]]
  BY DEF Change, poolFile
<1>2. /\ buf \in [Cached -> Buffer] /\ p \in Cached /\ phase = "open"
      /\ npages \in Nat /\ Cached \subseteq 0 .. npages - 1 /\ v \in Contents
  BY <1>1 DEF MInv, Sound, Holding, Phases, Contents
<1>3. /\ Cached' = Cached
      /\ buf'[p] = [val |-> v, dirty |-> buf[p].dirty, pinned |-> buf[p].pinned]
      /\ \A q \in Cached : q # p => buf'[q] = buf[q]
  BY <1>1, <1>2 DEF Cached
<1>4. Sound'
  <2>1. buf[p] \in Buffer
    BY <1>2
  <2>2. buf'[p] \in Buffer
    BY <1>2, <1>3, <2>1 DEF Buffer, Contents
  <2>3. buf' \in [Cached -> Buffer]
    BY <1>1, <1>2, <1>3, <2>2
  <2> QED BY <1>1, <1>3, <2>3 DEF MInv, Sound, StoreSize
<1>5. Holding'
  <2>1. \A q \in Cached : buf'[q].pinned = buf[q].pinned
    BY <1>3
  <2> QED BY <1>1, <1>3, <2>1 DEF MInv, Holding, Pinned
<1>6. Phases'
  BY <1>1, <1>3 DEF MInv, Phases
<1>7. Versions'
  BY <1>1, <1>3 DEF MInv, Versions, StoreSize, Dirty
<1>8. NothingLost'
  BY <1>1, <1>3 DEF MInv, NothingLost, Dirty
<1>9. StoreSize = npages /\ StoreSize' = npages /\ p \in 0 .. npages - 1
  BY <1>1, <1>2 DEF StoreSize
<1>10. \A q \in 0 .. npages - 1 : Content(q)' = IF q = p THEN v ELSE Content(q)
  BY <1>1, <1>2, <1>3 DEF Content
<1>11. StoreContent' = [StoreContent EXCEPT ![p] = v]
  BY <1>9, <1>10 DEF StoreContent
<1> QED BY <1>1, <1>4, <1>5, <1>6, <1>7, <1>8, <1>9, <1>11 DEF MInv, Store!Change

\* A page that is put back dirty becomes one of the versions the file may hold.
LEMMA PutStep ==
  ASSUME MInv, NEW p \in Pgnos, NEW dirty \in BOOLEAN, mpool_put(p, dirty)
  PROVE  /\ MInv' /\ p \in 0 .. StoreSize - 1 /\ UNCHANGED <<StoreSize, StoreContent>>
         /\ Store!Return(p) \/ versions' = versions
<1>1. /\ p \in held /\ (p \in touched => dirty)
      /\ held' = held \ {p} /\ touched' = touched \ {p}
      /\ UNCHANGED <<npages, file, fsize, phase>>
      /\ buf' = [buf EXCEPT ![p] = [val |-> @.val, pinned |-> FALSE, dirty |-> @.dirty \/ dirty]]
      /\ versions' = IF dirty THEN [versions EXCEPT ![p] = @ \cup {buf[p].val}] ELSE versions
  BY DEF mpool_put, poolFile
<1>2. /\ buf \in [Cached -> Buffer] /\ p \in Cached /\ phase = "open"
      /\ npages \in Nat /\ Cached \subseteq 0 .. npages - 1
      /\ versions \in [0 .. npages - 1 -> SUBSET Contents]
      /\ buf[p].val \in Contents
  BY <1>1 DEF MInv, Sound, Holding, Phases, StoreSize, Buffer, Contents
<1>3. /\ Cached' = Cached
      /\ buf'[p] = [val |-> buf[p].val, pinned |-> FALSE, dirty |-> buf[p].dirty \/ dirty]
      /\ \A q \in Cached : q # p => buf'[q] = buf[q]
  BY <1>1, <1>2 DEF Cached
<1>4. /\ buf'[p].val = buf[p].val
      /\ (p \in touched => buf'[p].dirty) /\ (buf[p].dirty => buf'[p].dirty)
      /\ (buf'[p].dirty => buf[p].dirty \/ dirty)
  <2>1. buf'[p].val = buf[p].val /\ buf'[p].dirty = (buf[p].dirty \/ dirty)
    BY <1>3
  <2> QED BY <1>1, <2>1, Zenon
<1>5. StoreSize = npages /\ StoreSize' = npages /\ p \in 0 .. npages - 1
  BY <1>1, <1>2 DEF StoreSize
<1>6. /\ versions' \in [0 .. npages - 1 -> SUBSET Contents]
      /\ \A q \in 0 .. npages - 1 : versions[q] \subseteq versions'[q]
      /\ dirty => buf[p].val \in versions'[p]
      /\ \A q \in 0 .. npages - 1 : q # p => versions'[q] = versions[q]
  BY <1>1, <1>2, <1>5
<1>7. Sound'
  <2>1. buf'[p] \in Buffer
    <3>1. buf[p].dirty \/ dirty \in BOOLEAN
      OBVIOUS
    <3> QED BY <1>2, <1>3, <3>1 DEF Buffer, Contents
  <2>2. buf' \in [Cached -> Buffer]
    BY <1>1, <1>2, <1>3, <2>1
  <2> QED BY <1>1, <1>3, <1>5, <1>6, <2>2 DEF MInv, Sound
<1>8. Holding'
  BY <1>1, <1>3 DEF MInv, Holding, Pinned
<1>9. Phases'
  BY <1>1, <1>3 DEF MInv, Phases
<1>10. Versions'
  <2>1. \A q \in Cached' : buf'[q].dirty /\ q \notin touched' => buf'[q].val \in versions'[q]
    <3> SUFFICES ASSUME NEW q \in Cached', buf'[q].dirty, q \notin touched'
                 PROVE  buf'[q].val \in versions'[q]
      OBVIOUS
    <3>1. \A r \in Cached : buf[r].dirty /\ r \notin touched => buf[r].val \in versions[r]
      BY DEF MInv, Versions, Dirty
    <3>2. CASE q = p
      <4>1. CASE dirty
        BY <3>2, <4>1, <1>4, <1>6
      <4>2. CASE ~ dirty
        BY <3>1, <3>2, <4>2, <1>1, <1>2, <1>4
      <4> QED BY <4>1, <4>2
    <3>3. CASE q # p
      BY <3>1, <3>3, <1>1, <1>2, <1>3, <1>6
    <3> QED BY <3>2, <3>3
  <2>2. /\ \A q \in 0 .. fsize - 1 : file[q] \in versions[q] /\ q \in 0 .. npages - 1
        /\ \A q \in 0 .. npages - 1 : q >= fsize => Hole \in versions[q]
    BY <1>2, <1>5 DEF MInv, Versions, Phases, Sound
  <2> QED BY <1>1, <1>5, <1>6, <2>1, <2>2 DEF Versions, Dirty
<1>11. NothingLost'
  <2> SUFFICES ASSUME NEW q \in 0 .. npages - 1
               PROVE  \/ q \in touched'
                      \/ q \in Cached' /\ buf'[q].dirty
                      \/ q < fsize' /\ (q \in Cached' => file'[q] = buf'[q].val)
    BY <1>1 DEF NothingLost, Dirty
  <2>1. \/ q \in touched
        \/ q \in Cached /\ buf[q].dirty
        \/ q < fsize /\ (q \in Cached => file[q] = buf[q].val)
    BY <1>2 DEF MInv, NothingLost, Dirty
  <2>2. CASE q = p
    BY <2>1, <2>2, <1>1, <1>2, <1>3, <1>4
  <2>3. CASE q # p
    BY <2>1, <2>3, <1>1, <1>3
  <2> QED BY <2>2, <2>3
<1>12. UNCHANGED <<StoreSize, StoreContent>>
  BY <1>1, <1>2, <1>3, <1>4, SameBuffers
<1>13. Store!Return(p) \/ versions' = versions
  <2>1. StoreContent[p] = buf[p].val
    BY <1>2, <1>5 DEF StoreContent, Content
  <2> QED BY <1>1, <1>12, <2>1 DEF Store!Return
<1> QED BY <1>5, <1>7, <1>8, <1>9, <1>10, <1>11, <1>12, <1>13 DEF MInv

\* Pages in memory, dirty ones, go to the file while the B-tree holds nothing:
\* every page reads as before, the file holds versions only.
LEMMA WriteKeeps ==
  ASSUME MInv, NEW S, S \subseteq DirtyPages, WritePages(S), phase = "open", held = {}
  PROVE  /\ Cached' = Cached /\ buf' \in [Cached -> Buffer]
         /\ fsize' \in Nat /\ fsize <= fsize' /\ fsize' <= npages
         /\ file' \in [0 .. fsize' - 1 -> Contents]
         /\ \A p \in Cached : /\ buf'[p].val = buf[p].val
                              /\ buf'[p].dirty => buf[p].dirty /\ p \notin S
                              /\ buf[p].dirty /\ p \notin S => buf'[p].dirty
         /\ \A p \in S : p \in Cached /\ p < fsize' /\ file'[p] = buf[p].val
         /\ \A p \in 0 .. fsize' - 1 : p \notin S =>
              file'[p] = IF p < fsize THEN file[p] ELSE Hole
         /\ \A p \in 0 .. fsize' - 1 : file'[p] \in versions[p]
         /\ \A p \in 0 .. npages - 1 :
              p \notin S /\ p \notin Cached => p < fsize /\ p < fsize' /\ file'[p] = file[p]
<1>1. /\ npages \in Nat /\ fsize \in Nat /\ fsize <= npages
      /\ Cached \subseteq 0 .. npages - 1 /\ \A p \in Cached : buf[p] \in Buffer
      /\ file \in [0 .. fsize - 1 -> Contents] /\ touched = {}
  BY DEF MInv, Sound, Phases, Holding
<1>2. S \subseteq Cached /\ \A p \in S : buf[p].dirty
  BY DEF DirtyPages, Dirty
<1>3. buf' = [p \in Cached |-> IF p \in S
               THEN [val |-> buf[p].val, dirty |-> FALSE, pinned |-> buf[p].pinned]
               ELSE buf[p]]
  BY DEF WritePages
<1>4. Cached' = Cached
  BY <1>3 DEF Cached
<1>5. \A p \in Cached : /\ buf'[p].val = buf[p].val
                        /\ buf'[p].dirty => buf[p].dirty /\ p \notin S
                        /\ buf[p].dirty /\ p \notin S => buf'[p].dirty
  <2> SUFFICES ASSUME NEW p \in Cached
               PROVE  /\ buf'[p].val = buf[p].val
                      /\ buf'[p].dirty => buf[p].dirty /\ p \notin S
                      /\ buf[p].dirty /\ p \notin S => buf'[p].dirty
    OBVIOUS
  <2>1. CASE p \in S
    BY <1>3, <2>1
  <2>2. CASE p \notin S
    BY <1>3, <2>2
  <2> QED BY <2>1, <2>2
<1>6. buf' \in [Cached -> Buffer]
  <2>1. \A p \in Cached : [val |-> buf[p].val, dirty |-> FALSE, pinned |-> buf[p].pinned] \in Buffer
    BY <1>1 DEF Buffer
  <2> QED BY <1>1, <1>3, <2>1
<1>7. /\ fsize' \in Nat /\ fsize <= fsize' /\ fsize' <= npages
      /\ \A p \in S : p < fsize'
  <2>1. PICK last \in {p + 1 : p \in S} \cup {fsize} :
          (\A p \in S : p < last) /\ fsize <= last /\ fsize' = last
    BY DEF WritePages
  <2>2. last \in Nat /\ last <= npages
    <3>1. CASE last = fsize
      BY <3>1, <1>1
    <3>2. ASSUME NEW p \in S, last = p + 1 PROVE last \in Nat /\ last <= npages
      <4>1. p \in 0 .. npages - 1
        BY <1>1, <1>2
      <4> QED BY <3>2, <4>1, <1>1
    <3> QED BY <2>1, <3>1, <3>2
  <2> QED BY <2>1, <2>2
<1>8. file' = [p \in 0 .. fsize' - 1 |->
                IF p \in S THEN buf[p].val ELSE IF p < fsize THEN file[p] ELSE Hole]
  BY DEF WritePages
<1>9. \A p \in S : p \in Cached /\ p < fsize' /\ file'[p] = buf[p].val
  <2> SUFFICES ASSUME NEW p \in S PROVE p \in 0 .. fsize' - 1
    BY <1>2, <1>7, <1>8
  <2>1. p \in 0 .. npages - 1
    BY <1>1, <1>2
  <2> QED BY <2>1, <1>1, <1>7, Index, Zenon
<1>10. \A p \in 0 .. fsize' - 1 : p \notin S =>
         file'[p] = IF p < fsize THEN file[p] ELSE Hole
  BY <1>8
<1>11. ASSUME NEW p \in 0 .. fsize' - 1
       PROVE  file'[p] \in versions[p] /\ file'[p] \in Contents
  <2>1. /\ \A q \in 0 .. fsize - 1 : file[q] \in versions[q]
        /\ \A q \in 0 .. npages - 1 : q >= fsize => Hole \in versions[q]
        /\ \A q \in Cached : buf[q].dirty => buf[q].val \in versions[q]
    BY <1>1 DEF MInv, Versions, Dirty, StoreSize
  <2>2. CASE p \in S
    BY <2>1, <2>2, <1>1, <1>2, <1>9 DEF Buffer, Contents
  <2>3. CASE p \notin S /\ p < fsize
    <3>1. p \in 0 .. fsize - 1
      BY <2>3, <1>1, <1>7
    <3> QED BY <2>1, <2>3, <3>1, <1>1, <1>10
  <2>4. CASE p \notin S /\ ~ p < fsize
    <3>1. p \in 0 .. npages - 1 /\ p >= fsize
      <4>1. p \in Nat /\ p < npages
        BY <1>1, <1>7, Index, Zenon
      <4> QED BY <2>4, <4>1, <1>1
    <3> QED BY <2>1, <2>4, <3>1, <1>10 DEF Contents
  <2> QED BY <2>2, <2>3, <2>4
<1>12. file' \in [0 .. fsize' - 1 -> Contents]
  BY <1>8, <1>11
<1>13. ASSUME NEW p \in 0 .. npages - 1, p \notin S, p \notin Cached
       PROVE  p < fsize /\ p < fsize' /\ file'[p] = file[p]
  <2>1. p < fsize
    BY <1>1, <1>13 DEF MInv, NothingLost
  <2>2. p \in 0 .. fsize' - 1 /\ p < fsize'
    BY <2>1, <1>1, <1>7, <1>13, Index, Zenon
  <2> QED BY <2>1, <2>2, <1>10, <1>13
<1> QED BY <1>4, <1>5, <1>6, <1>7, <1>9, <1>10, <1>11, <1>12, <1>13

\* Every page reads afterwards as it did.
LEMMA WriteContent ==
  ASSUME MInv, NEW S, S \subseteq DirtyPages, WritePages(S), phase = "open", held = {},
         phase' # "closed", UNCHANGED npages
  PROVE  UNCHANGED <<StoreSize, StoreContent>>
<1>1. StoreSize = npages /\ StoreSize' = npages
  BY DEF StoreSize
<1>2. ASSUME NEW p \in 0 .. npages - 1 PROVE Content(p)' = Content(p)
  <2>1. Cached' = Cached /\ \A q \in Cached : buf'[q].val = buf[q].val
    BY WriteKeeps
  <2>2. CASE p \in Cached
    BY <2>1, <2>2 DEF Content
  <2>3. CASE p \notin Cached
    <3>1. p \notin S
      BY <2>3 DEF DirtyPages
    <3>2. p < fsize /\ p < fsize' /\ file'[p] = file[p]
      BY <2>3, <3>1, WriteKeeps
    <3> QED BY <2>1, <2>3, <3>2 DEF Content
  <2> QED BY <2>2, <2>3
<1> QED BY <1>1, <1>2 DEF StoreContent

\* A completed sync leaves of every page the version the B-tree last put.
LEMMA SyncStep ==
  ASSUME MInv, mpool_sync
  PROVE  MInv' /\ Store!Save
<1>1. /\ phase = "open" /\ phase' = "synced" /\ held = {}
      /\ WritePages(DirtyPages)
      /\ versions' = [p \in 0 .. npages - 1 |-> {Content(p)}]
      /\ UNCHANGED <<npages, held, touched>>
  BY DEF mpool_sync, client
<1>2. /\ Cached' = Cached /\ buf' \in [Cached -> Buffer]
      /\ fsize' \in Nat /\ fsize <= fsize' /\ fsize' <= npages
      /\ file' \in [0 .. fsize' - 1 -> Contents]
      /\ \A p \in Cached : buf'[p].dirty => buf[p].dirty /\ p \notin DirtyPages
  BY <1>1, WriteKeeps
<1>3. /\ \A p \in DirtyPages : p \in Cached /\ p < fsize' /\ file'[p] = buf[p].val
      /\ \A p \in 0 .. fsize' - 1 : p \notin DirtyPages =>
           file'[p] = IF p < fsize THEN file[p] ELSE Hole
      /\ \A p \in 0 .. npages - 1 :
           p \notin DirtyPages /\ p \notin Cached => p < fsize /\ p < fsize' /\ file'[p] = file[p]
  BY <1>1, WriteKeeps
<1>4. /\ npages \in Nat /\ fsize \in Nat /\ Cached \subseteq 0 .. npages - 1 /\ touched = {}
      /\ \A p \in Cached : buf[p] \in Buffer
      /\ file \in [0 .. fsize - 1 -> Contents]
  BY <1>1 DEF MInv, Sound, Holding
<1>5. ASSUME NEW p \in 0 .. npages - 1
      PROVE  p < fsize' /\ file'[p] = Content(p) /\ Content(p) \in Contents
  <2>0. p \in Nat
    BY <1>4, Index, Zenon
  <2>1. CASE p \in DirtyPages
    BY <2>1, <1>3, <1>4 DEF Content, Buffer, Contents
  <2>2. CASE p \in Cached /\ p \notin DirtyPages
    <3>1. p < fsize /\ file[p] = buf[p].val
      BY <2>2, <1>1, <1>4 DEF MInv, NothingLost, DirtyPages
    <3>2. p \in 0 .. fsize' - 1 /\ p < fsize'
      BY <3>1, <2>0, <1>2, <1>4, Index, Zenon
    <3> QED BY <2>2, <3>1, <3>2, <1>3, <1>4 DEF Content, Buffer, Contents
  <2>3. CASE p \notin Cached /\ p \notin DirtyPages
    <3>1. p < fsize /\ p < fsize' /\ file'[p] = file[p]
      BY <2>3, <1>3
    <3>2. p \in 0 .. fsize - 1
      BY <3>1, <2>0, <1>4, Index, Zenon
    <3> QED BY <2>3, <3>1, <3>2, <1>4 DEF Content
  <2> QED BY <2>1, <2>2, <2>3
<1>6. StoreSize = npages /\ StoreSize' = npages
  BY <1>1 DEF StoreSize
<1>7. Sound'
  <2>1. versions' \in [0 .. npages - 1 -> SUBSET Contents]
    BY <1>1, <1>5
  <2> QED BY <1>1, <1>2, <1>4, <1>6, <2>1 DEF Sound
<1>8. Holding'
  BY <1>1, <1>4 DEF Holding
<1>9. Phases'
  BY <1>1, <1>2 DEF Phases
<1>10. Versions'
  <2>1. \A p \in 0 .. fsize' - 1 : p \in 0 .. npages - 1
    <3> SUFFICES ASSUME NEW p \in 0 .. fsize' - 1 PROVE p \in 0 .. npages - 1
      OBVIOUS
    <3>1. p \in Nat /\ p < npages
      BY <1>2, <1>4, Index, Zenon
    <3> QED BY <3>1, <1>4, Index, Zenon
  <2>2. \A p \in 0 .. fsize' - 1 : file'[p] \in versions'[p]
    BY <2>1, <1>1, <1>5
  <2>3. \A p \in 0 .. npages - 1 : ~ p >= fsize'
    <3> SUFFICES ASSUME NEW p \in 0 .. npages - 1 PROVE ~ p >= fsize'
      OBVIOUS
    <3>1. p \in Nat /\ p < fsize'
      BY <1>4, <1>5, Index, Zenon
    <3> QED BY <3>1, <1>2
  <2>4. \A p \in Cached : ~ buf'[p].dirty
    BY <1>2 DEF DirtyPages, Dirty
  <2> QED BY <1>2, <1>6, <2>2, <2>3, <2>4 DEF Versions, Dirty
<1>11. NothingLost'
  BY <1>1 DEF NothingLost
<1>12. UNCHANGED <<StoreSize, StoreContent>>
  BY <1>1, WriteContent
<1>13. versions' = [p \in 0 .. StoreSize - 1 |-> {StoreContent[p]}]
  BY <1>1, <1>6 DEF StoreContent
<1> QED BY <1>7, <1>8, <1>9, <1>10, <1>11, <1>12, <1>13 DEF MInv, Store!Save

\* A sync that fails somewhere wrote versions too.
LEMMA SyncFailsStep ==
  ASSUME MInv, SyncFails
  PROVE  MInv' /\ UNCHANGED <<StoreSize, StoreContent, versions>>
<1>1. /\ phase = "open" /\ phase' = "failed" /\ held = {}
      /\ UNCHANGED <<npages, held, touched, versions>>
  BY DEF SyncFails, client
<1>2. PICK S : S \subseteq DirtyPages /\ WritePages(S)
  <2>1. PICK n \in 0 .. Len(lru) : WritePages({lru[m] : m \in 1 .. n} \cap DirtyPages)
    BY DEF SyncFails
  <2> QED BY <2>1
<1>3. /\ Cached' = Cached /\ buf' \in [Cached -> Buffer]
      /\ fsize' \in Nat /\ fsize <= fsize' /\ fsize' <= npages
      /\ file' \in [0 .. fsize' - 1 -> Contents]
      /\ \A p \in Cached : /\ buf'[p].val = buf[p].val
                           /\ buf'[p].dirty => buf[p].dirty /\ p \notin S
      /\ \A p \in 0 .. fsize' - 1 : file'[p] \in versions[p]
  BY <1>1, <1>2, WriteKeeps
<1>4. /\ npages \in Nat /\ fsize \in Nat /\ Cached \subseteq 0 .. npages - 1 /\ touched = {}
      /\ versions \in [0 .. npages - 1 -> SUBSET Contents]
  BY <1>1 DEF MInv, Sound, Holding, StoreSize
<1>5. StoreSize = npages /\ StoreSize' = npages
  BY <1>1 DEF StoreSize
<1>6. Sound'
  BY <1>1, <1>3, <1>4, <1>5 DEF Sound
<1>7. Holding'
  BY <1>1, <1>4 DEF Holding
<1>8. Phases'
  BY <1>1, <1>3 DEF Phases
<1>9. Versions'
  <2>1. \A p \in 0 .. npages - 1 : p >= fsize => Hole \in versions[p]
    BY <1>5 DEF MInv, Versions
  <2>2. \A p \in 0 .. npages - 1 : p >= fsize' => p >= fsize
    <3> SUFFICES ASSUME NEW p \in 0 .. npages - 1, p >= fsize' PROVE p >= fsize
      OBVIOUS
    <3>1. p \in Nat
      BY <1>4, Index, Zenon
    <3> QED BY <3>1, <1>3, <1>4
  <2>3. \A p \in Cached : buf[p].dirty => buf[p].val \in versions[p]
    BY <1>4 DEF MInv, Versions, Dirty
  <2>4. \A p \in Cached' : buf'[p].dirty => buf'[p].val \in versions'[p]
    BY <1>1, <1>3, <2>3
  <2> QED BY <1>1, <1>3, <1>5, <2>1, <2>2, <2>4 DEF Versions, Dirty
<1>10. NothingLost'
  BY <1>1 DEF NothingLost
<1>11. UNCHANGED <<StoreSize, StoreContent>>
  BY <1>1, <1>2, WriteContent
<1> QED BY <1>1, <1>6, <1>7, <1>8, <1>9, <1>10, <1>11 DEF MInv

\* The end of the process, or the pool's, leaves versions.
LEMMA ForgetStep ==
  ASSUME MInv, phase # "closed", ForgetPool
  PROVE  MInv' /\ Store!Kill
<1>1. /\ phase' = "closed" /\ buf' = [p \in {} |-> 0] /\ npages' = 0
      /\ held' = {} /\ touched' = {} /\ fsize' = fsize /\ file' = file
      /\ versions' = [p \in 0 .. fsize - 1 |-> {file[p]}]
  BY DEF ForgetPool, poolFile
<1>2. Cached' = {}
  BY <1>1 DEF Cached
<1>3. /\ npages \in Nat /\ fsize \in Nat /\ fsize <= npages
      /\ file \in [0 .. fsize - 1 -> Contents]
  BY DEF MInv, Sound, Phases
<1>4. StoreSize = npages /\ StoreSize' = fsize
  BY <1>1 DEF StoreSize
<1>5. MInv'
  <2>1. buf' \in [{} -> Buffer]
    BY <1>1
  <2>2. versions' \in [0 .. fsize - 1 -> SUBSET Contents]
    BY <1>1, <1>3
  <2>3. Sound'
    BY <1>1, <1>2, <1>3, <1>4, <2>1, <2>2 DEF Sound
  <2>4. Holding' /\ Phases' /\ NothingLost'
    BY <1>1, <1>2 DEF Holding, Phases, NothingLost
  <2>5. Versions'
    BY <1>1, <1>2, <1>3, <1>4 DEF Versions
  <2> QED BY <2>3, <2>4, <2>5 DEF MInv
<1>6. StoreContent' = file
  <2>1. \A p \in 0 .. fsize - 1 : Content(p)' = file[p]
    BY <1>1, <1>2, <1>3 DEF Content
  <2> QED BY <1>1, <1>3, <1>4, <2>1 DEF StoreContent
<1>7. /\ StoreSize' \in 0 .. StoreSize
      /\ \A p \in StoreSize' .. StoreSize - 1 : Hole \in versions[p]
      /\ \A p \in 0 .. StoreSize' - 1 : file[p] \in versions[p]
  BY <1>3, <1>4 DEF MInv, Versions
<1> QED BY <1>1, <1>3, <1>4, <1>5, <1>6, <1>7 DEF Store!Kill, Contents

\* A file that is opened holds what it held.
LEMMA PoolOpen ==
  ASSUME MInv, mpool_open
  PROVE  MInv' /\ UNCHANGED <<StoreSize, StoreContent, versions>>
<1>1. /\ phase = "closed" /\ phase' = "open" /\ npages' = fsize
      /\ UNCHANGED <<buf, file, fsize, held, touched, versions>>
  BY DEF mpool_open, poolFile, client
<1>2. Cached = {} /\ Cached' = {} /\ held = {} /\ touched = {} /\ fsize \in Nat
  BY <1>1 DEF MInv, Phases, Holding, Sound, Cached
<1>3. StoreSize = fsize /\ StoreSize' = fsize
  BY <1>1 DEF StoreSize
<1>4. MInv'
  BY <1>1, <1>2, <1>3 DEF MInv, Sound, Holding, Phases, Versions, NothingLost
<1>5. StoreContent' = StoreContent
  BY <1>1, <1>2, <1>3 DEF StoreContent, Content
<1> QED BY <1>1, <1>3, <1>4, <1>5

----------------------------------------------------------------------------
\* The first state, with an empty file.
LEMMA MpoolBegins == MpoolInit => MInv /\ Store!Init
<1> SUFFICES ASSUME MpoolInit PROVE MInv /\ Store!Init
  OBVIOUS
<1>1. Cached = {} /\ StoreSize = 0
  BY DEF MpoolInit, Cached, StoreSize
<1>2. 0 .. -1 = {}
  OBVIOUS
<1>3. MInv
  BY <1>1, <1>2 DEF MpoolInit, MInv, Sound, Holding, Phases, Versions, NothingLost
<1>4. StoreContent = [p \in 0 .. -1 |-> Hole]
  BY <1>1, <1>2 DEF StoreContent
<1> QED BY <1>1, <1>3, <1>4 DEF MpoolInit, Store!Init

\* Every step keeps the invariant and is one of the page store, or none.
LEMMA MpoolStep ==
  MInv /\ [MpoolNext]_mpoolVars => MInv' /\ [Store!Next]_<<StoreSize, StoreContent, versions>>
<1> SUFFICES ASSUME MInv, [MpoolNext]_mpoolVars
             PROVE  MInv' /\ [Store!Next]_<<StoreSize, StoreContent, versions>>
  OBVIOUS
<1>1. ASSUME NEW v \in Vals, mpool_new(v) PROVE MInv' /\ Store!Next
  BY <1>1, NewStep DEF Store!Next
<1>2. ASSUME NEW p \in Pgnos, mpool_get(p)
      PROVE  MInv' /\ UNCHANGED <<StoreSize, StoreContent, versions>>
  BY <1>2, GetCachedStep, GetReadStep, GetFailsStep DEF mpool_get
<1>3. ASSUME NEW p \in Pgnos, NEW v \in Vals, Change(p, v) PROVE MInv' /\ Store!Next
  BY <1>3, ChangeStep DEF Store!Next
<1>4. ASSUME NEW p \in Pgnos, NEW dirty \in BOOLEAN, mpool_put(p, dirty)
      PROVE  MInv' /\ [Store!Next]_<<StoreSize, StoreContent, versions>>
  BY <1>4, PutStep DEF Store!Next
<1>5. CASE mpool_sync
  BY <1>5, SyncStep DEF Store!Next
<1>6. CASE SyncFails
  BY <1>6, SyncFailsStep
<1>7. CASE mpool_close \/ ProcessEnds
  BY <1>7, ForgetStep DEF mpool_close, ProcessEnds, Store!Next
<1>8. CASE mpool_open
  BY <1>8, PoolOpen
<1>9. CASE UNCHANGED mpoolVars
  BY <1>9 DEF mpoolVars, pool, poolFile, client, MInv, Sound, Holding, Phases, Versions, NothingLost,
              StoreSize, StoreContent, Content, Cached, Pinned, Dirty
<1> QED BY <1>1, <1>2, <1>3, <1>4, <1>5, <1>6, <1>7, <1>8, <1>9 DEF MpoolNext

\* The invariant holds in every reachable state.
THEOREM MpoolInvariant == MpoolSpec => []MInv
BY MpoolBegins, MpoolStep, PTL DEF MpoolSpec

\* A page the B-tree has a pointer to keeps its buffer: the flag covers every
\* pointer (mpool_get, mpool_put, mpool_bkt).
THEOREM HeldArePinnedHolds == MpoolSpec => []HeldArePinned
<1>1. MInv => HeldArePinned
  BY DEF MInv, Holding, HeldArePinned
<1> QED BY <1>1, MpoolInvariant, PTL

\* A buffer can be reused and the page read again without a loss (mpool_bkt,
\* mpool_write).
THEOREM NothingLostHolds == MpoolSpec => []NothingLost
<1>1. MInv => NothingLost
  BY DEF MInv
<1> QED BY <1>1, MpoolInvariant, PTL

\* The cache is the page store: eviction, reading back, holes, growth and a
\* write that fails cannot be seen through it, and what a kill leaves of a page
\* is a version the B-tree put.
THEOREM StoreImplemented == MpoolSpec => IsPageStore
<1>1. MInv /\ [MpoolNext]_mpoolVars => [Store!Next]_<<StoreSize, StoreContent, versions>>
  BY MpoolStep
<1>2. MpoolInit => Store!Init
  BY MpoolBegins
<1> QED BY <1>1, <1>2, MpoolInvariant, PTL DEF MpoolSpec, IsPageStore, Store!Spec
----------------------------------------------------------------------------
ItemsOf(q) == {q[n] : n \in DOMAIN q}

\* Nothing is twice in a queue.
Once(q) == \A m, n \in DOMAIN q : q[m] = q[n] => m = n

\* The queue holds the pages in memory, each once.
Queue == lru \in Seq(Nat) /\ Once(lru) /\ ItemsOf(lru) = Cached

\* What is appended is the one new member.
LEMMA Appended ==
  ASSUME NEW q \in Seq(Nat), Once(q), NEW p \in Nat, p \notin ItemsOf(q)
  PROVE  /\ Append(q, p) \in Seq(Nat) /\ Once(Append(q, p))
         /\ ItemsOf(Append(q, p)) = ItemsOf(q) \cup {p}
<1> DEFINE a == Append(q, p)
<1>1. /\ a \in Seq(Nat) /\ Len(q) \in Nat
      /\ DOMAIN q = 1 .. Len(q) /\ DOMAIN a = 1 .. Len(q) + 1
      /\ a[Len(q) + 1] = p /\ \A n \in 1 .. Len(q) : a[n] = q[n]
  OBVIOUS
<1> HIDE DEF a
<1>2. \A n \in 1 .. Len(q) : q[n] # p
  BY <1>1 DEF ItemsOf
<1>3. \A n \in 1 .. Len(q) + 1 : n \in 1 .. Len(q) \/ n = Len(q) + 1
  BY <1>1
<1>4. \A n \in 1 .. Len(q) : n \in 1 .. Len(q) + 1
  BY <1>1
<1>5. Len(q) + 1 \in 1 .. Len(q) + 1
  BY <1>1
<1>6. Once(a)
  BY <1>1, <1>2, <1>3 DEF Once
<1>7. ItemsOf(a) = ItemsOf(q) \cup {p}
  BY <1>1, <1>3, <1>4, <1>5 DEF ItemsOf
<1> QED BY <1>1, <1>6, <1>7 DEF a

LEMMA RestLength ==
  \A l \in Nat : \A i \in 1 .. l : (IF i + 1 <= l THEN l - (i + 1) + 1 ELSE 0) = l - i
OBVIOUS

LEMMA Shifted ==
  \A l \in Nat : \A i \in 1 .. l : \A n \in i .. l - 1 :
    /\ n \in 1 .. (i - 1) + (l - i) /\ ~ n <= i - 1
    /\ n - (i - 1) \in 1 .. l - i
    /\ (n - (i - 1)) + i = n + 1
OBVIOUS

\* CIRCLEQ_REMOVE takes the one member out and leaves the others in order.
LEMMA Removed ==
  ASSUME NEW q \in Seq(Nat), Once(q), NEW p \in ItemsOf(q)
  PROVE  /\ Without(q, p) \in Seq(Nat) /\ Once(Without(q, p))
         /\ ItemsOf(Without(q, p)) = ItemsOf(q) \ {p}
<1> DEFINE i == CHOOSE i \in DOMAIN q : q[i] = p
           w == Without(q, p)
<1>1. i \in DOMAIN q /\ q[i] = p
  BY DEF ItemsOf
<1>2. w = SubSeq(q, 1, i - 1) \o SubSeq(q, i + 1, Len(q))
  BY DEF Without
<1> HIDE DEF i, w
<1>3. Len(q) \in Nat /\ DOMAIN q = 1 .. Len(q) /\ i \in 1 .. Len(q)
  BY <1>1
<1>4. /\ SubSeq(q, 1, i - 1) \in Seq(Nat) /\ Len(SubSeq(q, 1, i - 1)) = i - 1
      /\ \A n \in 1 .. i - 1 : SubSeq(q, 1, i - 1)[n] = q[n]
  <2>1. i - 1 \in Int /\ \A n \in 1 .. i - 1 : n \in DOMAIN q /\ q[n] \in Nat
    BY <1>3
  <2>2. /\ SubSeq(q, 1, i - 1) \in Seq(Nat)
        /\ Len(SubSeq(q, 1, i - 1)) = IF 1 <= i - 1 THEN (i - 1) - 1 + 1 ELSE 0
        /\ \A n \in 1 .. (i - 1) - 1 + 1 : SubSeq(q, 1, i - 1)[n] = q[1 + n - 1]
    BY <2>1, SubSeqProperties
  <2>3. (i - 1) - 1 + 1 = i - 1 /\ \A n \in 1 .. i - 1 : 1 + n - 1 = n
    BY <1>3
  <2>4. Len(SubSeq(q, 1, i - 1)) = i - 1
    BY <1>3, <2>2
  <2> QED BY <2>2, <2>3, <2>4
<1>5. /\ SubSeq(q, i + 1, Len(q)) \in Seq(Nat)
      /\ Len(SubSeq(q, i + 1, Len(q))) = Len(q) - i
      /\ \A n \in 1 .. Len(q) - i : SubSeq(q, i + 1, Len(q))[n] = q[n + i]
  <2>1. i + 1 \in Int /\ \A n \in i + 1 .. Len(q) : n \in DOMAIN q /\ q[n] \in Nat
    BY <1>3
  <2>2. /\ SubSeq(q, i + 1, Len(q)) \in Seq(Nat)
        /\ Len(SubSeq(q, i + 1, Len(q)))
             = IF i + 1 <= Len(q) THEN Len(q) - (i + 1) + 1 ELSE 0
        /\ \A n \in 1 .. Len(q) - (i + 1) + 1 :
             SubSeq(q, i + 1, Len(q))[n] = q[i + 1 + n - 1]
    <3> DEFINE from == i + 1
               upto == Len(q)
    <3>1. from \in Int /\ upto \in Int /\ \A j \in from .. upto : q[j] \in Nat
      BY <1>3, <2>1
    <3> HIDE DEF from, upto
    <3>2. /\ SubSeq(q, from, upto) \in Seq(Nat)
          /\ Len(SubSeq(q, from, upto)) = IF from <= upto THEN upto - from + 1 ELSE 0
          /\ \A n \in 1 .. upto - from + 1 : SubSeq(q, from, upto)[n] = q[from + n - 1]
      BY <3>1, SubSeqProperties
    <3> QED BY <3>2, Zenon DEF from, upto
  <2>3. /\ Len(q) - (i + 1) + 1 = Len(q) - i
        /\ \A n \in 1 .. Len(q) - i : i + 1 + n - 1 = n + i
    BY <1>3
  <2>4. Len(SubSeq(q, i + 1, Len(q))) = Len(q) - i
    BY <1>3, <2>2, RestLength, Zenon
  <2> QED BY <2>2, <2>3, <2>4
<1>6. /\ w \in Seq(Nat) /\ Len(w) = Len(q) - 1 /\ DOMAIN w = 1 .. Len(q) - 1
      /\ \A n \in 1 .. i - 1 : w[n] = q[n]
      /\ \A n \in i .. Len(q) - 1 : w[n] = q[n + 1]
  <2> DEFINE front == SubSeq(q, 1, i - 1)
             back == SubSeq(q, i + 1, Len(q))
  <2>1. /\ front \in Seq(Nat) /\ Len(front) = i - 1
        /\ \A n \in 1 .. i - 1 : front[n] = q[n]
        /\ back \in Seq(Nat) /\ Len(back) = Len(q) - i
        /\ \A n \in 1 .. Len(q) - i : back[n] = q[n + i]
        /\ w = front \o back
    BY <1>2, <1>4, <1>5
  <2> HIDE DEF front, back
  <2>2. /\ w \in Seq(Nat) /\ Len(w) = Len(front) + Len(back)
        /\ \A n \in 1 .. Len(front) + Len(back) :
             w[n] = IF n <= Len(front) THEN front[n] ELSE back[n - Len(front)]
    BY <2>1, ConcatProperties
  <2>3. Len(w) = Len(q) - 1 /\ DOMAIN w = 1 .. Len(q) - 1
    <3>1. (i - 1) + (Len(q) - i) = Len(q) - 1
      BY <1>3
    <3>2. DOMAIN w = 1 .. Len(w)
      BY <2>2
    <3> QED BY <2>1, <2>2, <3>1, <3>2
  <2>4. ASSUME NEW n \in 1 .. i - 1 PROVE w[n] = q[n]
    BY <1>3, <2>1, <2>2
  <2>5. ASSUME NEW n \in i .. Len(q) - 1 PROVE w[n] = q[n + 1]
    <3>1. /\ n \in 1 .. Len(front) + Len(back) /\ ~ n <= Len(front)
          /\ n - Len(front) \in 1 .. Len(q) - i
          /\ (n - Len(front)) + i = n + 1
      BY <1>3, <2>1, <2>5, Shifted, Zenon
    <3>2. w[n] = back[n - Len(front)]
      BY <2>2, <3>1, Zenon
    <3> QED BY <2>1, <3>1, <3>2, Zenon
  <2> QED BY <2>2, <2>3, <2>4, <2>5
<1>7. ASSUME NEW n \in 1 .. Len(q) - 1
      PROVE  \/ n < i /\ n \in 1 .. Len(q) /\ w[n] = q[n]
             \/ n >= i /\ n + 1 \in 1 .. Len(q) /\ w[n] = q[n + 1]
  <2>1. /\ n < i => n \in 1 .. i - 1 /\ n \in 1 .. Len(q)
        /\ n >= i => n \in i .. Len(q) - 1 /\ n + 1 \in 1 .. Len(q)
        /\ n < i \/ n >= i
    BY <1>3
  <2> QED BY <1>6, <2>1
<1>8. Once(w)
  <2>1. ASSUME NEW m \in 1 .. Len(q) - 1, NEW n \in 1 .. Len(q) - 1, w[m] = w[n]
        PROVE  m = n
    <3>1. /\ m \in Int /\ n \in Int /\ i \in Int
          /\ \A j, k \in 1 .. Len(q) : q[j] = q[k] => j = k
      BY <1>3 DEF Once
    <3>2. CASE m < i /\ n < i
      BY <1>7, <2>1, <3>1, <3>2
    <3>3. CASE m >= i /\ n >= i
      BY <1>7, <2>1, <3>1, <3>3
    <3>4. CASE m < i /\ n >= i
      BY <1>7, <2>1, <3>1, <3>4
    <3>5. CASE m >= i /\ n < i
      BY <1>7, <2>1, <3>1, <3>5
    <3> QED BY <3>1, <3>2, <3>3, <3>4, <3>5
  <2> QED BY <1>6, <2>1 DEF Once
<1>9. ASSUME NEW n \in 1 .. Len(q), n # i
      PROVE  \E m \in 1 .. Len(q) - 1 : w[m] = q[n]
  <2>1. CASE n < i
    BY <1>3, <1>6, <2>1
  <2>2. CASE n > i
    <3>1. n - 1 \in i .. Len(q) - 1 /\ n - 1 \in 1 .. Len(q) - 1 /\ (n - 1) + 1 = n
      BY <1>3, <2>2
    <3> QED BY <1>6, <3>1
  <2> QED BY <1>3, <1>9, <2>1, <2>2
<1>10. ASSUME NEW n \in 1 .. Len(q) - 1 PROVE w[n] \in ItemsOf(q) /\ w[n] # p
  <2>1. PICK m \in 1 .. Len(q) : m # i /\ w[n] = q[m]
    <3>1. n \in Int /\ i \in Int /\ (n < i => n # i) /\ (n >= i => n + 1 # i)
      BY <1>3
    <3> QED BY <1>7, <3>1
  <2> QED BY <1>1, <1>3, <2>1 DEF Once, ItemsOf
<1>11. ASSUME NEW x \in ItemsOf(w) PROVE x \in ItemsOf(q) \ {p}
  BY <1>6, <1>10, <1>11 DEF ItemsOf
<1>12. ASSUME NEW x \in ItemsOf(q), x # p PROVE x \in ItemsOf(w)
  <2>1. PICK n \in 1 .. Len(q) : x = q[n]
    BY <1>3, <1>12 DEF ItemsOf
  <2>2. PICK m \in 1 .. Len(q) - 1 : w[m] = q[n]
    BY <1>1, <1>9, <1>12, <2>1
  <2> QED BY <1>6, <2>1, <2>2 DEF ItemsOf
<1>13. ItemsOf(w) = ItemsOf(q) \ {p}
  BY <1>11, <1>12
<1> QED BY <1>6, <1>8, <1>13 DEF w

\* A queue without repetitions is as long as the set of its members is large.
LEMMA AsManyAsLong ==
  ASSUME NEW q \in Seq(Nat), Once(q)
  PROVE  IsFiniteSet(ItemsOf(q)) /\ Len(q) = Cardinality(ItemsOf(q))
<1>1. Len(q) \in Nat /\ DOMAIN q = 1 .. Len(q)
  OBVIOUS
<1>2. q \in [1 .. Len(q) -> ItemsOf(q)]
  BY <1>1 DEF ItemsOf
<1>3. q \in Bijection(1 .. Len(q), ItemsOf(q))
  BY <1>1, <1>2 DEF Bijection, Injection, Surjection, IsInjective, Once, ItemsOf
<1>4. ExistsBijection(1 .. Len(q), ItemsOf(q))
  BY <1>3 DEF ExistsBijection
<1>5. IsFiniteSet(1 .. Len(q)) /\ Cardinality(1 .. Len(q)) = Len(q)
  BY <1>1, FS_Interval
<1> QED BY <1>4, <1>5, FS_Bijection

LEMMA Giving == \A b, p, v : DOMAIN Give(b, p, v) = DOMAIN b \cup {p}
BY DEF Give

LEMMA Dropping == \A b, p : DOMAIN Drop(b, p) = DOMAIN b \ {p}
BY DEF Drop
\* What a step does to the queue and the hash table: nothing, a page more, one
\* page in the place of another, a page to the tail, a page less, or the end.
NewPage(p) == p \in Nat /\ p \notin Cached

QueueMoves ==
  \/ lru' = lru /\ Cached' = Cached
  \/ \E p : NewPage(p) /\ lru' = Append(lru, p) /\ Cached' = Cached \cup {p}
  \/ \E p, q : /\ NewPage(p) /\ q \in Cached
               /\ lru' = Append(Without(lru, q), p)
               /\ Cached' = (Cached \ {q}) \cup {p}
  \/ \E p : p \in Cached /\ lru' = ToTail(lru, p) /\ Cached' = Cached
  \/ \E q : q \in Cached /\ lru' = Without(lru, q) /\ Cached' = Cached \ {q}
  \/ lru' = <<>> /\ Cached' = {}

LEMMA StepMovesQueue == MInv /\ [MpoolNext]_mpoolVars => QueueMoves
<1> SUFFICES ASSUME MInv, [MpoolNext]_mpoolVars PROVE QueueMoves
  OBVIOUS
<1>1. NewPage(npages)
  BY DEF MInv, Sound, NewPage
<1>2. ASSUME NEW v \in Vals, mpool_new(v) PROVE QueueMoves
  <2>1. CASE buf' = Give(buf, npages, v) /\ lru' = Append(lru, npages)
    <3>1. Cached' = Cached \cup {npages}
      BY <2>1, Giving DEF Cached
    <3> QED BY <1>1, <2>1, <3>1 DEF QueueMoves
  <2>2. ASSUME NEW q \in Cached, buf' = Give(Drop(buf, q), npages, v),
               lru' = Append(Without(lru, q), npages)
        PROVE  QueueMoves
    <3>1. DOMAIN buf' = DOMAIN Drop(buf, q) \cup {npages}
      BY <2>2, Giving, Zenon
    <3>2. DOMAIN Drop(buf, q) = DOMAIN buf \ {q}
      BY Dropping, Zenon
    <3>3. Cached' = (Cached \ {q}) \cup {npages}
      BY <3>1, <3>2 DEF Cached
    <3> QED BY <1>1, <2>2, <3>3 DEF QueueMoves
  <2> QED BY <1>2, <2>1, <2>2 DEF mpool_new
<1>3. ASSUME NEW p \in Pgnos, GetCached(p) PROVE QueueMoves
  <2>1. p \in Cached /\ lru' = ToTail(lru, p) /\ Cached' = Cached
    BY <1>3 DEF GetCached, Cached
  <2> QED BY <2>1 DEF QueueMoves
<1>4. ASSUME NEW p \in Pgnos, GetRead(p) PROVE QueueMoves
  <2>1. NewPage(p)
    BY <1>4 DEF GetRead, NewPage, Pgnos
  <2>2. CASE buf' = Give(buf, p, file[p]) /\ lru' = Append(lru, p)
    <3>1. Cached' = Cached \cup {p}
      BY <2>2, Giving DEF Cached
    <3> QED BY <2>1, <2>2, <3>1 DEF QueueMoves
  <2>3. ASSUME NEW q \in Cached, buf' = Give(Drop(buf, q), p, file'[p]),
               lru' = Append(Without(lru, q), p)
        PROVE  QueueMoves
    <3>1. DOMAIN buf' = DOMAIN Drop(buf, q) \cup {p}
      BY <2>3, Giving, Zenon
    <3>2. DOMAIN Drop(buf, q) = DOMAIN buf \ {q}
      BY Dropping, Zenon
    <3>3. Cached' = (Cached \ {q}) \cup {p}
      BY <3>1, <3>2 DEF Cached
    <3> QED BY <2>1, <2>3, <3>3 DEF QueueMoves
  <2> QED BY <1>4, <2>2, <2>3 DEF GetRead
<1>5. ASSUME NEW p \in Pgnos, GetFails(p) PROVE QueueMoves
  <2>1. CASE UNCHANGED <<buf, lru>>
    BY <2>1 DEF QueueMoves, Cached
  <2>2. ASSUME NEW q \in Cached, buf' = Drop(buf, q), lru' = Without(lru, q)
        PROVE  QueueMoves
    <3>1. Cached' = Cached \ {q}
      BY <2>2, Dropping DEF Cached
    <3> QED BY <2>2, <3>1 DEF QueueMoves
  <2> QED BY <1>5, <2>1, <2>2 DEF GetFails
<1>6. ASSUME lru' = lru, Cached' = Cached PROVE QueueMoves
  BY <1>6 DEF QueueMoves
<1>7. ASSUME NEW p \in Pgnos, NEW v \in Vals, Change(p, v) PROVE QueueMoves
  BY <1>6, <1>7 DEF Change, Cached
<1>8. ASSUME NEW p \in Pgnos, NEW dirty \in BOOLEAN, mpool_put(p, dirty)
      PROVE  QueueMoves
  BY <1>6, <1>8 DEF mpool_put, Cached
<1>9. CASE mpool_sync
  BY <1>6, <1>9 DEF mpool_sync, WritePages, Cached
<1>10. CASE SyncFails
  BY <1>6, <1>10 DEF SyncFails, WritePages, Cached
<1>11. CASE mpool_close \/ ProcessEnds
  BY <1>11 DEF mpool_close, ProcessEnds, ForgetPool, QueueMoves, Cached
<1>12. CASE mpool_open
  BY <1>6, <1>12 DEF mpool_open, Cached
<1>13. CASE UNCHANGED mpoolVars
  BY <1>6, <1>13 DEF mpoolVars, pool, Cached
<1> QED BY <1>2, <1>3, <1>4, <1>5, <1>7, <1>8, <1>9, <1>10, <1>11, <1>12, <1>13
           DEF MpoolNext, mpool_get

LEMMA QueueStep == MInv /\ Queue /\ [MpoolNext]_mpoolVars => Queue'
<1> SUFFICES ASSUME MInv, Queue, [MpoolNext]_mpoolVars PROVE Queue'
  OBVIOUS
<1>1. lru \in Seq(Nat) /\ Once(lru) /\ ItemsOf(lru) = Cached
  BY DEF Queue
<1>2. QueueMoves
  BY StepMovesQueue
<1>3. SUFFICES lru' \in Seq(Nat) /\ Once(lru') /\ ItemsOf(lru') = Cached'
  BY DEF Queue, Once, ItemsOf
<1>4. CASE lru' = lru /\ Cached' = Cached
  BY <1>1, <1>4
<1>5. ASSUME NEW p, NewPage(p), lru' = Append(lru, p), Cached' = Cached \cup {p}
      PROVE  lru' \in Seq(Nat) /\ Once(lru') /\ ItemsOf(lru') = Cached'
  BY <1>1, <1>5, Appended DEF NewPage
<1>6. ASSUME NEW q \in Cached
      PROVE  /\ Without(lru, q) \in Seq(Nat) /\ Once(Without(lru, q))
             /\ ItemsOf(Without(lru, q)) = Cached \ {q}
  BY <1>1, Removed
<1>7. ASSUME NEW p, NEW q, NewPage(p), q \in Cached,
             lru' = Append(Without(lru, q), p),
             Cached' = (Cached \ {q}) \cup {p}
      PROVE  lru' \in Seq(Nat) /\ Once(lru') /\ ItemsOf(lru') = Cached'
  <2>1. p \in Nat /\ p \notin ItemsOf(Without(lru, q))
    BY <1>6, <1>7 DEF NewPage
  <2> QED BY <1>6, <1>7, <2>1, Appended
<1>8. ASSUME NEW p \in Cached, lru' = ToTail(lru, p), Cached' = Cached
      PROVE  lru' \in Seq(Nat) /\ Once(lru') /\ ItemsOf(lru') = Cached'
  <2>1. p \in Nat /\ p \notin ItemsOf(Without(lru, p))
    BY <1>6, <1>8 DEF MInv, Sound
  <2>2. lru' = Append(Without(lru, p), p)
    BY <1>8 DEF ToTail
  <2>3. ItemsOf(lru') = (Cached \ {p}) \cup {p}
    BY <1>6, <2>1, <2>2, Appended
  <2> QED BY <1>6, <1>8, <2>1, <2>2, <2>3, Appended
<1>9. CASE lru' = <<>> /\ Cached' = {}
  <2>1. DOMAIN lru' = {}
    BY <1>9
  <2> QED BY <1>9, <2>1 DEF Once, ItemsOf
<1> QED BY <1>2, <1>4, <1>5, <1>6, <1>7, <1>8, <1>9 DEF QueueMoves

LEMMA QueueBegins == MpoolInit => Queue
<1> SUFFICES ASSUME MpoolInit PROVE Queue
  OBVIOUS
<1>1. lru = <<>> /\ DOMAIN lru = {} /\ Cached = {}
  BY DEF MpoolInit, Cached
<1> QED BY <1>1 DEF Queue, Once, ItemsOf

\* The queue by which buffers are reused and the hash table by which pages are
\* found hold the same buffers, each once, whatever was removed and put at the
\* tail before (mpool_new, mpool_get, mpool_bkt).
THEOREM QueueMatchesHolds == MpoolSpec => []QueueMatches
<1>1. Queue => QueueMatches
  BY AsManyAsLong DEF Queue, QueueMatches, ItemsOf
<1> QED BY <1>1, QueueBegins, QueueStep, MpoolInvariant, PTL DEF MpoolSpec
----------------------------------------------------------------------------
\* A page in memory that is pinned is in the B-tree's hands, and the buffers in
\* memory are no more than those allocated.
Tallied ==
  /\ curcache \in Nat /\ peak \in Nat
  /\ \A p \in Cached : Pinned(p) => p \in held
  /\ Cardinality(Cached) <= curcache
  /\ Cardinality(held) <= peak
  /\ Bounded

CountInv == MInv /\ Queue /\ Tallied

LEMMA HeldFinite ==
  ASSUME CountInv
  PROVE  /\ IsFiniteSet(Cached) /\ Cardinality(Cached) \in Nat
         /\ IsFiniteSet(held) /\ Cardinality(held) \in Nat
<1>1. IsFiniteSet(Cached)
  BY AsManyAsLong DEF CountInv, Queue
<1>2. held \in SUBSET Cached
  BY DEF CountInv, MInv, Holding
<1> QED BY <1>1, <1>2, FS_Subset, FS_CardinalityType

LEMMA Holds ==
  ASSUME CountInv, NEW p, Hold(p)
  PROVE  /\ held' = held \cup {p} /\ peak' \in Nat /\ peak <= peak'
         /\ Cardinality(held') = Cardinality(held) + 1
         /\ Cardinality(held') <= peak'
<1>1. Cardinality(held \cup {p}) = Cardinality(held) + 1
  BY HeldFinite, FS_AddElement DEF Hold
<1> QED BY <1>1, HeldFinite DEF Hold, CountInv, Tallied

\* A page more by a new buffer: there is room, or every page is in the B-tree's
\* hands and the new one with them.
LEMMA AllocateCounts ==
  ASSUME CountInv, NEW p, Hold(p), Allocate, p \notin Cached,
         Cached' = Cached \cup {p}
  PROVE  /\ curcache' \in Nat /\ Cardinality(Cached') <= curcache' /\ Bounded'
<1>1. Cardinality(Cached') = Cardinality(Cached) + 1
  BY HeldFinite, FS_AddElement
<1>2. curcache \in Nat /\ Cardinality(Cached) <= curcache /\ curcache' = curcache + 1
  BY DEF CountInv, Tallied, Allocate
<1>3. /\ peak' \in Nat /\ Cardinality(held) + 1 <= peak'
  BY Holds
<1>4. MaxCache \in Nat
  BY MpoolAssumption
<1>5. CASE curcache < MaxCache
  BY <1>1, <1>2, <1>3, <1>4, <1>5, HeldFinite DEF Bounded, Cached
<1>6. CASE \A q \in Cached : Pinned(q)
  <2>1. Cached = held
    BY <1>6 DEF CountInv, Tallied, MInv, Holding
  <2> QED BY <1>1, <1>2, <1>3, <1>4, <2>1, HeldFinite DEF Bounded, Cached
<1> QED BY <1>2, <1>5, <1>6 DEF Allocate

\* A page in the place of another, or none: no more pages than before.
LEMMA NoMoreCounts ==
  ASSUME CountInv, curcache' = curcache, peak' \in Nat, peak <= peak',
         Cardinality(Cached') \in Nat, Cardinality(Cached') <= Cardinality(Cached)
  PROVE  /\ curcache' \in Nat /\ Cardinality(Cached') <= curcache' /\ Bounded'
<1>1. curcache \in Nat /\ Cardinality(Cached) <= curcache /\ peak \in Nat
  BY DEF CountInv, Tallied
<1>2. Cardinality(Cached) <= peak \/ Cardinality(Cached) <= MaxCache
  BY DEF CountInv, Tallied, Bounded
<1>3. MaxCache \in Nat /\ Cardinality(Cached) \in Nat
  BY MpoolAssumption, HeldFinite
<1>4. Cardinality(Cached') <= peak' \/ Cardinality(Cached') <= MaxCache
  BY <1>1, <1>2, <1>3
<1>5. Cardinality(Cached') <= (IF peak' > MaxCache THEN peak' ELSE MaxCache)
  BY <1>3, <1>4
<1> QED BY <1>1, <1>3, <1>5 DEF Bounded, Cached

LEMMA Recycled ==
  ASSUME CountInv, NEW q \in Cached, NEW p, p \notin Cached
  PROVE  /\ Cardinality(Cached \ {q}) \in Nat
         /\ Cardinality(Cached \ {q}) <= Cardinality(Cached)
         /\ Cardinality((Cached \ {q}) \cup {p}) = Cardinality(Cached)
<1>1. /\ IsFiniteSet(Cached \ {q}) /\ Cardinality(Cached \ {q}) = Cardinality(Cached) - 1
  BY HeldFinite, FS_RemoveElement
<1>2. Cardinality(Cached \ {q}) \in Nat
  BY <1>1, FS_CardinalityType
<1>3. Cardinality((Cached \ {q}) \cup {p}) = (Cardinality(Cached) - 1) + 1
  BY <1>1, FS_AddElement
<1> QED BY <1>1, <1>2, <1>3, HeldFinite

\* The other part of Tallied, after a step that gives page p a buffer.
LEMMA GivenPinned ==
  ASSUME CountInv, NEW p, held' = held \cup {p},
         \A r \in Cached' : r # p => r \in Cached /\ buf'[r].pinned = buf[r].pinned
  PROVE  \A r \in Cached' : buf'[r].pinned => r \in held'
BY DEF CountInv, Tallied, Pinned

\* A page more, by a new buffer or in place of another.
GivesPage(p, v) ==
  \/ Allocate /\ buf' = Give(buf, p, v)
  \/ \E q \in Cached : Reuse(q) /\ buf' = Give(Drop(buf, q), p, v)

LEMMA GiveCounts ==
  ASSUME CountInv, NEW p, NEW v, p \notin Cached, Hold(p), GivesPage(p, v)
  PROVE  Tallied'
<1>1. /\ held' = held \cup {p} /\ peak' \in Nat /\ peak <= peak'
      /\ Cardinality(held') <= peak'
  BY Holds
<1>2. CASE Allocate /\ buf' = Give(buf, p, v)
  <2>1. DOMAIN buf' = DOMAIN buf \cup {p}
    BY <1>2, Giving, Zenon
  <2>2. \A r \in DOMAIN buf : r # p => buf'[r] = buf[r]
    BY <1>2 DEF Give
  <2>3. \A r \in Cached' : r # p => r \in Cached /\ buf'[r].pinned = buf[r].pinned
    BY <2>1, <2>2 DEF Cached
  <2>4. Cached' = Cached \cup {p}
    BY <2>1 DEF Cached
  <2>5. curcache' \in Nat /\ Cardinality(Cached') <= curcache' /\ Bounded'
    BY <1>2, <2>4, AllocateCounts
  <2> QED BY <1>1, <2>3, <2>5, GivenPinned DEF Tallied, Pinned, Cached
<1>3. ASSUME NEW q \in Cached, Reuse(q), buf' = Give(Drop(buf, q), p, v)
      PROVE  Tallied'
  <2>1. DOMAIN buf' = DOMAIN Drop(buf, q) \cup {p}
    BY <1>3, Giving, Zenon
  <2>2. DOMAIN Drop(buf, q) = DOMAIN buf \ {q}
    BY Dropping, Zenon
  <2>3. \A r \in DOMAIN buf \ {q} : r # p => buf'[r] = buf[r]
    BY <1>3 DEF Give, Drop
  <2>4. \A r \in Cached' : r # p => r \in Cached /\ buf'[r].pinned = buf[r].pinned
    BY <2>1, <2>2, <2>3 DEF Cached
  <2>5. Cached' = (Cached \ {q}) \cup {p}
    BY <2>1, <2>2 DEF Cached
  <2>6. Cardinality(Cached') = Cardinality(Cached) /\ curcache' = curcache
    BY <1>3, <2>5, Recycled DEF Reuse
  <2>7. curcache' \in Nat /\ Cardinality(Cached') <= curcache' /\ Bounded'
    BY <1>1, <2>6, HeldFinite, NoMoreCounts
  <2> QED BY <1>1, <2>4, <2>7, GivenPinned DEF Tallied, Pinned, Cached
<1> QED BY <1>2, <1>3 DEF GivesPage

LEMMA NewCounts ==
  ASSUME CountInv, NEW v \in Vals, mpool_new(v)
  PROVE  Tallied'
<1>1. npages \notin Cached
  BY DEF CountInv, MInv, Sound
<1>2. Hold(npages) /\ GivesPage(npages, v)
  BY DEF mpool_new, GivesPage
<1> QED BY <1>1, <1>2, GiveCounts

LEMMA GetCachedCounts ==
  ASSUME CountInv, NEW p \in Pgnos, GetCached(p)
  PROVE  Tallied'
<1>1. Hold(p)
  BY DEF GetCached
<1>2. /\ held' = held \cup {p} /\ peak' \in Nat /\ peak <= peak'
      /\ Cardinality(held') <= peak'
  BY <1>1, Holds
<1>3. /\ Cached' = Cached /\ curcache' = curcache
      /\ \A r \in Cached' : r # p => r \in Cached /\ buf'[r].pinned = buf[r].pinned
  BY DEF GetCached, Cached
<1>4. curcache' \in Nat /\ Cardinality(Cached') <= curcache' /\ Bounded'
  BY <1>2, <1>3, HeldFinite, NoMoreCounts
<1> QED BY <1>2, <1>3, <1>4, GivenPinned DEF Tallied, Pinned, Cached

LEMMA GetReadCounts ==
  ASSUME CountInv, NEW p \in Pgnos, GetRead(p)
  PROVE  Tallied'
<1>1. p \notin Cached /\ Hold(p)
  BY DEF GetRead
<1>2. GivesPage(p, file[p]) \/ GivesPage(p, file'[p])
  BY DEF GetRead, GivesPage
<1> QED BY <1>1, <1>2, GiveCounts

\* Steps by which the pages in the B-tree's hands become no more.
LEMMA FewerCounts ==
  ASSUME CountInv, held' \subseteq held, peak' = peak, curcache' = curcache,
         Cached' \subseteq Cached,
         \A r \in Cached' : buf'[r].pinned => buf[r].pinned /\ (r \in held => r \in held')
  PROVE  Tallied'
<1>1. Cardinality(held') <= Cardinality(held) /\ Cardinality(held') \in Nat
  <2>1. held' \in SUBSET held
    OBVIOUS
  <2> QED BY <2>1, HeldFinite, FS_Subset, FS_CardinalityType
<1>2. Cardinality(Cached') <= Cardinality(Cached) /\ Cardinality(Cached') \in Nat
  <2>1. Cached' \in SUBSET Cached
    OBVIOUS
  <2> QED BY <2>1, HeldFinite, FS_Subset, FS_CardinalityType
<1>3. peak \in Nat /\ Cardinality(held) <= peak
  BY DEF CountInv, Tallied
<1>4. curcache' \in Nat /\ Cardinality(Cached') <= curcache' /\ Bounded'
  BY <1>2, <1>3, NoMoreCounts
<1>5. Cardinality(held') <= peak'
  BY <1>1, <1>3, HeldFinite
<1>6. \A r \in Cached' : buf'[r].pinned => r \in held'
  BY DEF CountInv, Tallied, Pinned
<1> QED BY <1>3, <1>4, <1>5, <1>6 DEF Tallied, Pinned, Cached

LEMMA GetFailsCounts ==
  ASSUME CountInv, NEW p \in Pgnos, GetFails(p)
  PROVE  Tallied'
<1>1. held' = held /\ peak' = peak
  BY DEF GetFails, client
<1>2. CASE Allocate /\ UNCHANGED <<buf, lru>>
  <2>1. curcache \in Nat /\ curcache' = curcache + 1 /\ buf' = buf
    BY <1>2 DEF Allocate, CountInv, Tallied
  <2> QED BY <1>1, <2>1, HeldFinite DEF CountInv, Tallied, Bounded, Cached, Pinned
<1>3. ASSUME NEW q \in Cached, Reuse(q), buf' = Drop(buf, q) PROVE Tallied'
  <2>1. Cached' = Cached \ {q} /\ \A r \in Cached' : buf'[r] = buf[r]
    BY <1>3 DEF Drop, Cached
  <2>2. curcache' = curcache
    BY <1>3 DEF Reuse
  <2> QED BY <1>1, <2>1, <2>2, FewerCounts
<1> QED BY <1>2, <1>3 DEF GetFails

LEMMA PutCounts ==
  ASSUME CountInv, NEW p \in Pgnos, NEW dirty \in BOOLEAN, mpool_put(p, dirty)
  PROVE  Tallied'
<1>1. /\ held' = held \ {p} /\ peak' = peak /\ curcache' = curcache /\ p \in held
      /\ Cached' = Cached
      /\ \A r \in Cached : r # p => buf'[r] = buf[r]
  BY DEF mpool_put, Cached
<1>2. p \in DOMAIN buf => buf'[p].pinned = FALSE
  BY DEF mpool_put
<1>3. \A r \in Cached' : buf'[r].pinned => buf[r].pinned /\ (r \in held => r \in held')
  BY <1>1, <1>2 DEF Cached
<1> QED BY <1>1, <1>3, FewerCounts

LEMMA SamePinsCount ==
  ASSUME CountInv, held' = held, peak' = peak, curcache' = curcache, Cached' = Cached,
         \A r \in Cached : buf'[r].pinned = buf[r].pinned
  PROVE  Tallied'
BY FewerCounts

LEMMA ForgetCounts ==
  ASSUME CountInv, ForgetPool
  PROVE  Tallied'
<1>1. curcache' = 0 /\ peak' = 0 /\ held' = {} /\ Cached' = {}
  BY DEF ForgetPool, Cached
<1>2. Cardinality(held') = 0 /\ Cardinality(Cached') = 0
  BY <1>1, FS_EmptySet
<1>3. MaxCache \in Nat
  BY MpoolAssumption
<1> QED BY <1>1, <1>2, <1>3 DEF Tallied, Bounded, Cached, Pinned

LEMMA CountStep == CountInv /\ [MpoolNext]_mpoolVars => CountInv'
<1> SUFFICES ASSUME CountInv, [MpoolNext]_mpoolVars PROVE Tallied'
  BY MpoolStep, QueueStep DEF CountInv
<1>1. ASSUME NEW v \in Vals, mpool_new(v) PROVE Tallied'
  BY <1>1, NewCounts
<1>2. ASSUME NEW p \in Pgnos, mpool_get(p) PROVE Tallied'
  BY <1>2, GetCachedCounts, GetReadCounts, GetFailsCounts DEF mpool_get
<1>3. ASSUME NEW p \in Pgnos, NEW v \in Vals, Change(p, v) PROVE Tallied'
  <2>1. /\ held' = held /\ peak' = peak /\ curcache' = curcache /\ Cached' = Cached
        /\ \A r \in Cached : buf'[r].pinned = buf[r].pinned
    BY <1>3 DEF Change, Cached
  <2> QED BY <2>1, SamePinsCount
<1>4. ASSUME NEW p \in Pgnos, NEW dirty \in BOOLEAN, mpool_put(p, dirty) PROVE Tallied'
  BY <1>4, PutCounts
<1>5. ASSUME NEW S, WritePages(S), UNCHANGED <<curcache, client, peak>> PROVE Tallied'
  <2>1. /\ held' = held /\ peak' = peak /\ curcache' = curcache /\ Cached' = Cached
        /\ \A r \in Cached : buf'[r].pinned = buf[r].pinned
    BY <1>5 DEF WritePages, Cached, client
  <2> QED BY <2>1, SamePinsCount
<1>6. CASE mpool_sync
  BY <1>5, <1>6 DEF mpool_sync
<1>7. CASE SyncFails
  BY <1>5, <1>7 DEF SyncFails
<1>8. CASE mpool_close \/ ProcessEnds
  BY <1>8, ForgetCounts DEF mpool_close, ProcessEnds
<1>9. CASE mpool_open \/ UNCHANGED mpoolVars
  <2>1. /\ held' = held /\ peak' = peak /\ curcache' = curcache /\ Cached' = Cached
        /\ buf' = buf
    BY <1>9 DEF mpool_open, mpoolVars, pool, client, Cached
  <2> QED BY <2>1, SamePinsCount
<1> QED BY <1>1, <1>2, <1>3, <1>4, <1>6, <1>7, <1>8, <1>9 DEF MpoolNext

LEMMA CountBegins == MpoolInit => CountInv
<1> SUFFICES ASSUME MpoolInit PROVE Tallied
  BY MpoolBegins, QueueBegins DEF CountInv
<1>1. curcache = 0 /\ peak = 0 /\ held = {} /\ Cached = {}
  BY DEF MpoolInit, Cached
<1>2. Cardinality(held) = 0 /\ Cardinality(Cached) = 0
  BY <1>1, FS_EmptySet
<1>3. MaxCache \in Nat
  BY MpoolAssumption
<1> QED BY <1>1, <1>2, <1>3 DEF Tallied, Bounded

\* A cache in which every buffer is pinned grows past its limit (mpool_bkt: "If
\* we don't find anything we grow the cache anyway"), and never holds more than
\* the pages that were pinned at once, though failed reads may have lost buffers.
THEOREM BoundedHolds == MpoolSpec => []Bounded
<1>1. CountInv => Bounded
  BY DEF CountInv, Tallied
<1> QED BY <1>1, CountBegins, CountStep, PTL DEF MpoolSpec

----------------------------------------------------------------------------
(***************************************************************************)
(* Conf: what the program has of its configuration is what the label it asked*)
(* for stands for, for every configuration and every depth that is allowed.*)
(***************************************************************************)

(* The text of a record.                                                    *)

\* What Replaced does from one field to the next.
Here(f, text) == IF IsInclude(f) THEN text[f.name] ELSE <<f>>

LEMMA ReplacedIs ==
  ASSUME NEW fields \in Seq(ConfFields), NEW text,
         \A i \in 1 .. Len(fields) : Here(fields[i], text) \in Seq(ConfFields)
  PROVE  /\ Replaced(fields, text) \in [0 .. Len(fields) -> Seq(ConfFields)]
         /\ Replaced(fields, text)[0] = <<>>
         /\ \A i \in 1 .. Len(fields) :
              Replaced(fields, text)[i] = Replaced(fields, text)[i - 1] \o Here(fields[i], text)
<1> DEFINE N == Len(fields)
           D == Seq(ConfFields)
           H(i) == Here(fields[i], text)
           Eq(h) == h = [i \in 0 .. N |-> IF i = 0 THEN <<>> ELSE h[i - 1] \o H(i)]
           R == Replaced(fields, text)
<1>0. N \in Nat OBVIOUS
<1>1. \E f : Eq(f)
  <2> DEFINE step == [i \in 1 .. N |-> [x \in D |-> x \o H(i)]]
  <2>1. step \in [1 .. N -> [D -> D]]
    <3>1. \A i \in 1 .. N : \A x \in D : x \o H(i) \in D BY ConcatProperties
    <3> HIDE DEF H, D, N
    <3> QED BY <3>1, Zenon
  <2>2. <<>> \in D OBVIOUS
  <2>3. \E f : Recurs(f, N, D, <<>>, step)
    <3> HIDE DEF D, step, N
    <3> QED BY <1>0, <2>1, <2>2, RecursionExists, Zenon
  <2>4. PICK f \in [0 .. N -> D] : f[0] = <<>> /\ \A i \in 1 .. N : f[i] = step[i][f[i - 1]]
    <3> HIDE DEF D, step, N
    <3> QED BY <2>3, Zenon DEF Recurs
  <2>5. \A i \in 1 .. N : f[i] = f[i - 1] \o H(i)
    <3> SUFFICES ASSUME NEW i \in 1 .. N PROVE f[i] = f[i - 1] \o H(i) OBVIOUS
    <3>1. f[i - 1] \in D BY <2>4
    <3>2. f[i] = step[i][f[i - 1]] BY <2>4, Zenon
    <3> HIDE DEF H, D, N
    <3> QED BY <3>1, <3>2, Zenon
  <2>6. Eq(f)
    <3>1. \A i \in 0 .. N : f[i] = IF i = 0 THEN <<>> ELSE f[i - 1] \o H(i)
      <4> HIDE DEF H, D, N
      <4>1. \A i \in 0 .. N : i = 0 \/ i \in 1 .. N BY <1>0
      <4> QED BY <2>4, <2>5, <4>1, Zenon
    <3> HIDE DEF H, D, N
    <3> QED BY <2>4, <3>1, Zenon
  <2> QED BY <2>6
<1>2. R = CHOOSE h : Eq(h) BY DEF Replaced, Here
<1>3. Eq(R)
  <2>1. PICK f : Eq(f) BY <1>1
  <2> HIDE DEF Eq
  <2> QED BY <2>1, <1>2, Zenon
<1>4. R[0] = <<>> /\ \A i \in 1 .. N : R[i] = R[i - 1] \o H(i)
  <2>1. Eq(R) BY <1>3, Zenon
  <2> HIDE DEF R, N, H
  <2>2. R = [i \in 0 .. N |-> IF i = 0 THEN <<>> ELSE R[i - 1] \o H(i)] BY <2>1, Zenon
  <2>3. \A i \in 0 .. N : R[i] = IF i = 0 THEN <<>> ELSE R[i - 1] \o H(i) BY <2>2, Zenon
  <2>4. 0 \in 0 .. N /\ \A i \in 1 .. N : i \in 0 .. N /\ i # 0 BY <1>0
  <2> QED BY <2>3, <2>4, Zenon
<1>5. R \in [0 .. N -> D]
  <2> DEFINE S == {i \in 0 .. N : R[i] \in D}
  <2>1. 0 \in S
    <3>1. 0 \in 0 .. N /\ <<>> \in D BY <1>0
    <3> HIDE DEF R, N, D
    <3> QED BY <1>4, <3>1, Zenon
  <2>2. \A i \in 1 .. N : i - 1 \in S => i \in S
    <3> SUFFICES ASSUME NEW i \in 1 .. N, R[i - 1] \in D PROVE R[i] \in D BY <1>0
    <3>1. H(i) \in D OBVIOUS
    <3>2. R[i] = R[i - 1] \o H(i) BY <1>4, Zenon
    <3> HIDE DEF R, H
    <3> QED BY <3>1, <3>2, ConcatProperties
  <2>3. \A i \in 0 .. N : i \in S
    <3> HIDE DEF S
    <3> QED BY <1>0, <2>1, <2>2, UpToInduction
  <2>4. \A i \in 0 .. N : R[i] \in D BY <2>3
  <2>5. R = [i \in 0 .. N |-> R[i]]
    <3> DEFINE B(i) == IF i = 0 THEN <<>> ELSE R[i - 1] \o H(i)
    <3>1. R = [i \in 0 .. N |-> B(i)] BY <1>3, Zenon
    <3> HIDE DEF R, N, B
    <3> QED BY <3>1, Zenon
  <2> HIDE DEF R, N, H, D
  <2> QED BY <2>4, <2>5
<1> QED BY <1>4, <1>5

\* Fields with no include before the i-th are copied.
LEMMA ReplacedPlain ==
  ASSUME NEW fields \in Seq(ConfFields), NEW text,
         \A i \in 1 .. Len(fields) : Here(fields[i], text) \in Seq(ConfFields),
         NEW n \in 0 .. Len(fields), \A i \in 1 .. n : ~IsInclude(fields[i])
  PROVE  Replaced(fields, text)[n] = SubSeq(fields, 1, n)
<1> DEFINE R == Replaced(fields, text)
           S == {i \in 0 .. n : R[i] = SubSeq(fields, 1, i)}
<1>0. n \in Nat /\ Len(fields) \in Nat /\ n <= Len(fields) OBVIOUS
<1>1. R[0] = <<>> /\ \A i \in 1 .. Len(fields) : R[i] = R[i - 1] \o Here(fields[i], text)
  BY ReplacedIs
<1> HIDE DEF R
<1>2. 0 \in S
  <2>1. SubSeq(fields, 1, 0) = <<>> OBVIOUS
  <2>2. 0 \in 0 .. n BY <1>0
  <2> QED BY <1>1, <2>1, <2>2, Zenon
<1>3. \A i \in 1 .. n : i - 1 \in S => i \in S
  <2> SUFFICES ASSUME NEW i \in 1 .. n, R[i - 1] = SubSeq(fields, 1, i - 1)
               PROVE  R[i] = SubSeq(fields, 1, i)
    BY <1>0
  <2>0. i \in 1 .. Len(fields) BY <1>0
  <2>1. R[i] = SubSeq(fields, 1, i - 1) \o <<fields[i]>>
    <3>1. Here(fields[i], text) = <<fields[i]>> BY <2>0 DEF Here
    <3> QED BY <1>1, <2>0, <3>1, Zenon
  <2>2. SubSeq(fields, 1, i - 1) \o <<fields[i]>> = SubSeq(fields, 1, i) BY <1>0
  <2> QED BY <2>1, <2>2
<1>4. \A i \in 0 .. n : i \in S
  <2> HIDE DEF S
  <2> QED BY <1>0, <1>2, <1>3, UpToInduction
<1>5. n \in S BY <1>0, <1>4
<1> QED BY <1>5 DEF R

\* What is replaced after a field does not depend on what stands before it.
LEMMA ReplacedRest ==
  ASSUME NEW fields \in Seq(ConfFields), NEW text,
         \A i \in 1 .. Len(fields) : Here(fields[i], text) \in Seq(ConfFields),
         NEW q \in 0 .. Len(fields)
  PROVE  LET rest == SubSeq(fields, q + 1, Len(fields))
         IN  /\ Replaced(rest, text)[Len(rest)] \in Seq(ConfFields)
             /\ Replaced(fields, text)[Len(fields)] =
                  Replaced(fields, text)[q] \o Replaced(rest, text)[Len(rest)]
<1> DEFINE rest == SubSeq(fields, q + 1, Len(fields))
           R == Replaced(fields, text)
           T == Replaced(rest, text)
           n == Len(fields) - q
           D == Seq(ConfFields)
           S == {i \in 0 .. n : R[q + i] = R[q] \o T[i]}
<1>0. n \in Nat /\ Len(fields) \in Nat /\ q \in Nat /\ q + n = Len(fields) OBVIOUS
<1>1. rest \in D /\ Len(rest) = n /\ \A i \in 1 .. n : rest[i] = fields[q + i]
  OBVIOUS
<1>2. \A i \in 1 .. n : Here(rest[i], text) \in D /\ Here(rest[i], text) = Here(fields[q + i], text)
  <2> SUFFICES ASSUME NEW i \in 1 .. n
               PROVE  Here(rest[i], text) \in D /\ Here(rest[i], text) = Here(fields[q + i], text)
    OBVIOUS
  <2>1. q + i \in 1 .. Len(fields) BY <1>0
  <2> HIDE DEF rest, D, n
  <2>2. rest[i] = fields[q + i] BY <1>1
  <2> QED BY <2>1, <2>2, Zenon DEF D
<1>3. /\ R \in [0 .. Len(fields) -> D]
      /\ \A i \in 1 .. Len(fields) : R[i] = R[i - 1] \o Here(fields[i], text)
  BY ReplacedIs
<1>4. /\ T \in [0 .. n -> D] /\ T[0] = <<>>
      /\ \A i \in 1 .. n : T[i] = T[i - 1] \o Here(rest[i], text)
  <2> HIDE DEF rest
  <2> QED BY <1>1, <1>2, ReplacedIs
<1> HIDE DEF R, T, rest
<1>5. 0 \in S
  <2>1. R[q] \in Seq(ConfFields) /\ q + 0 = q BY <1>0, <1>3
  <2>2. R[q] \o <<>> = R[q] BY <2>1, ConcatEmptySeq
  <2> QED BY <1>0, <1>4, <2>1, <2>2
<1>6. \A i \in 1 .. n : i - 1 \in S => i \in S
  <2> SUFFICES ASSUME NEW i \in 1 .. n, R[q + (i - 1)] = R[q] \o T[i - 1]
               PROVE  R[q + i] = R[q] \o T[i]
    <3>1. \A i \in 1 .. n : i \in 0 .. n BY <1>0
    <3> QED BY <3>1, Zenon
  <2> DEFINE H == Here(fields[q + i], text)
  <2>2. q + i \in 1 .. Len(fields) /\ (q + i) - 1 = q + (i - 1) /\ q \in 0 .. Len(fields) /\ i - 1 \in 0 .. n
    BY <1>0
  <2>1. R[q] \in D /\ T[i - 1] \in D /\ H \in D
    <3> HIDE DEF D, n
    <3> QED BY <1>2, <1>3, <1>4, <2>2, Zenon
  <2>3. R[q + i] = R[q + (i - 1)] \o H
    <3>1. R[q + i] = R[(q + i) - 1] \o H BY <1>3, <2>2, Zenon
    <3> QED BY <2>2, <3>1, Zenon
  <2>4. T[i] = T[i - 1] \o H BY <1>2, <1>4, Zenon
  <2>5. (R[q] \o T[i - 1]) \o H = R[q] \o (T[i - 1] \o H)
    <3> DEFINE a == R[q]
               b == T[i - 1]
    <3>1. a \in Seq(ConfFields) /\ b \in Seq(ConfFields) /\ H \in Seq(ConfFields) BY <2>1
    <3> HIDE DEF a, b, H
    <3>2. (a \o b) \o H = a \o (b \o H) BY <3>1, ConcatAssociative
    <3> QED BY <3>2 DEF a, b
  <2> HIDE DEF H
  <2> QED BY <2>3, <2>4, <2>5
<1>7. \A i \in 0 .. n : i \in S
  <2> HIDE DEF S, n
  <2> QED BY <1>0, <1>5, <1>6, UpToInduction
<1>8. n \in S /\ T[n] \in D
  <2>1. n \in 0 .. n BY <1>0
  <2> HIDE DEF S, n
  <2> QED BY <1>4, <1>7, <2>1
<1> QED BY <1>0, <1>1, <1>8 DEF R, T, rest

----------------------------------------------------------------------------
(* Records, and what their labels stand for.                               *)

MixedIn(fields) == \E t \in At("tc", fields) : \E j \in At("include", fields) : t < j

Names(fields) == \A i \in 1 .. Len(fields) : fields[i].name \in Labels

\* A record that is read is one of the file.
LEMMA RecordIs ==
  ASSUME config \in ConfFiles, NEW label
  PROVE  /\ readrecord(label).fields \in Seq(ConfFields)
         /\ Names(readrecord(label).fields)
         /\ ~Mixed => ~MixedIn(readrecord(label).fields)
<1> DEFINE hits == {i \in DOMAIN config : Contains(config[i].labels, label)}
           F == readrecord(label).fields
<1>1. config \in Seq([labels : Seq(STRING), fields : Seq(ConfFields)])
  BY ConfAssumption
<1>2. /\ DOMAIN config = 1 .. Len(config) /\ Len(config) \in Nat
      /\ \A i \in DOMAIN config : config[i].fields \in Seq(ConfFields)
  <2> DEFINE T == [labels : Seq(STRING), fields : Seq(ConfFields)]
  <2>1. \A i \in DOMAIN config : config[i] \in T
    <3> DEFINE c == config
    <3>1. c \in Seq(T) BY <1>1
    <3>2. \A i \in DOMAIN c : c[i] \in T
      <4> HIDE DEF T, c
      <4> QED BY <3>1
    <3> QED BY <3>2
  <2>2. \A r \in T : r.fields \in Seq(ConfFields) OBVIOUS
  <2> HIDE DEF T
  <2> QED BY <1>1, <2>1, <2>2
<1>3. CASE hits = {}
  <2>1. F = <<>>
    <3>1. readrecord(label) = NoRecord BY <1>3 DEF readrecord
    <3> QED BY <3>1 DEF NoRecord
  <2>2. <<>> \in Seq(ConfFields) /\ Names(<<>>) /\ ~MixedIn(<<>>)
    BY DEF Names, MixedIn, At
  <2> HIDE DEF F
  <2>3. F \in Seq(ConfFields) /\ Names(F) /\ ~MixedIn(F) BY <2>1, <2>2, Zenon
  <2> QED BY <2>3, Zenon DEF F
<1>4. CASE hits # {}
  <2> DEFINE k == Min(hits)
  <2>1. k \in hits
    <3>1. hits \subseteq Nat BY <1>2
    <3> HIDE DEF hits
    <3> QED BY <1>4, <3>1, LeastIs
  <2>2. F = config[k].fields BY <1>4 DEF readrecord
  <2>3. k \in DOMAIN config BY <2>1
  <2> HIDE DEF F, k
  <2>4. F \in Seq(ConfFields) BY <1>2, <2>2, <2>3, Zenon
  <2>5. \A i \in 1 .. Len(F) : F[i].name \in Labels
    <3> SUFFICES ASSUME NEW i \in 1 .. Len(F) PROVE F[i].name \in Labels OBVIOUS
    <3>1. F[i] \in ToSet(config[k].fields)
      <4>1. i \in DOMAIN F BY <2>4
      <4>2. F[i] \in ToSet(F) BY <4>1 DEF ToSet
      <4> QED BY <2>2, <4>2, Zenon
    <3> QED BY <2>3, <3>1 DEF Labels
  <2>6. ~Mixed => ~MixedIn(F) BY <2>2, <2>3, Zenon DEF Mixed, MixedIn
  <2> QED BY <2>4, <2>5, <2>6 DEF F, Names
<1> QED BY <1>3, <1>4

\* The labels that can be read where n more records may be begun.
LEMMA ReadableIs ==
  /\ Readable[0] = {}
  /\ \A n \in 1 .. allowed_nest_level : Readable[n] =
       {label \in Labels :
          /\ readrecord(label) # NoRecord
          /\ \A f \in ToSet(readrecord(label).fields) :
               IsInclude(f) => f.name \in Readable[n - 1]}
<1> DEFINE N == allowed_nest_level
           D == SUBSET Labels
           Next1(X) == {label \in Labels :
                          /\ readrecord(label) # NoRecord
                          /\ \A f \in ToSet(readrecord(label).fields) :
                               IsInclude(f) => f.name \in X}
           Eq(h) == h = [n \in 0 .. N |->
                           {label \in Labels :
                              /\ n > 0 /\ readrecord(label) # NoRecord
                              /\ \A f \in ToSet(readrecord(label).fields) :
                                   IsInclude(f) => f.name \in h[n - 1]}]
<1>0. N \in Nat BY ConfAssumption
<1>1. \E f : Eq(f)
  <2> DEFINE step == [i \in 1 .. N |-> [X \in D |-> Next1(X)]]
  <2>1. step \in [1 .. N -> [D -> D]]
    <3>1. \A X \in D : Next1(X) \in D OBVIOUS
    <3> HIDE DEF Next1, D, N
    <3> QED BY <3>1, Zenon
  <2>2. {} \in D OBVIOUS
  <2>3. \E f : Recurs(f, N, D, {}, step)
    <3> HIDE DEF D, step, N
    <3> QED BY <1>0, <2>1, <2>2, RecursionExists, Zenon
  <2>4. PICK f \in [0 .. N -> D] : f[0] = {} /\ \A i \in 1 .. N : f[i] = step[i][f[i - 1]]
    <3> HIDE DEF D, step, N
    <3> QED BY <2>3, Zenon DEF Recurs
  <2>5. \A i \in 1 .. N : f[i] = Next1(f[i - 1])
    <3> SUFFICES ASSUME NEW i \in 1 .. N PROVE f[i] = Next1(f[i - 1]) OBVIOUS
    <3>1. i - 1 \in 0 .. N BY <1>0
    <3>2. f[i - 1] \in D
      <4> HIDE DEF D, N
      <4> QED BY <3>1, Zenon
    <3>3. f[i] = step[i][f[i - 1]] BY <2>4, Zenon
    <3> HIDE DEF Next1, D, N
    <3> QED BY <3>2, <3>3, Zenon
  <2>6. \A i \in 0 .. N : f[i] = {label \in Labels :
                              /\ i > 0 /\ readrecord(label) # NoRecord
                              /\ \A g \in ToSet(readrecord(label).fields) :
                                   IsInclude(g) => g.name \in f[i - 1]}
    <3> SUFFICES ASSUME NEW i \in 0 .. N
                 PROVE  f[i] = {label \in Labels :
                              /\ i > 0 /\ readrecord(label) # NoRecord
                              /\ \A g \in ToSet(readrecord(label).fields) :
                                   IsInclude(g) => g.name \in f[i - 1]}
      OBVIOUS
    <3>1. CASE i = 0
      <4>1. ~ (i > 0) BY <3>1
      <4> HIDE DEF N, D
      <4> QED BY <2>4, <3>1, <4>1, Zenon
    <3>2. CASE i # 0
      <4>1. i > 0 /\ i \in 1 .. N BY <1>0, <3>2
      <4>2. f[i] = Next1(f[i - 1]) BY <2>5, <4>1, Zenon
      <4> QED BY <4>1, <4>2, Zenon
    <3> QED BY <3>1, <3>2
  <2>7. Eq(f)
    <3> DEFINE B(i) == {label \in Labels :
                              /\ i > 0 /\ readrecord(label) # NoRecord
                              /\ \A g \in ToSet(readrecord(label).fields) :
                                   IsInclude(g) => g.name \in f[i - 1]}
    <3>1. \A i \in 0 .. N : f[i] = B(i) BY <2>6, Zenon
    <3>2. Eq(f) <=> f = [i \in 0 .. N |-> B(i)] OBVIOUS
    <3> HIDE DEF B, N, D, Eq
    <3>3. f = [i \in 0 .. N |-> B(i)] BY <2>4, <3>1, Zenon
    <3> QED BY <3>2, <3>3, Zenon
  <2> QED BY <2>7, Zenon
<1>2. Readable = CHOOSE h : Eq(h) BY DEF Readable
<1>3. Eq(Readable)
  <2>1. PICK f : Eq(f) BY <1>1
  <2> HIDE DEF Eq
  <2> QED BY <2>1, <1>2, Zenon
<1>4. \A n \in 0 .. N : Readable[n] =
                           {label \in Labels :
                              /\ n > 0 /\ readrecord(label) # NoRecord
                              /\ \A f \in ToSet(readrecord(label).fields) :
                                   IsInclude(f) => f.name \in Readable[n - 1]}
  <2> DEFINE B(n) == {label \in Labels :
                              /\ n > 0 /\ readrecord(label) # NoRecord
                              /\ \A f \in ToSet(readrecord(label).fields) :
                                   IsInclude(f) => f.name \in Readable[n - 1]}
  <2>1. Readable = [n \in 0 .. N |-> B(n)] BY <1>3, Zenon
  <2>2. \A n \in 0 .. N : Readable[n] = B(n)
    <3> HIDE DEF B, N
    <3> QED BY <2>1, Zenon
  <2> QED BY <2>2, Zenon
<1>5. Readable[0] = {}
  <2>1. 0 \in 0 .. N /\ ~ (0 > 0) BY <1>0
  <2> QED BY <1>4, <2>1, Zenon
<1>6. ASSUME NEW n \in 1 .. N PROVE Readable[n] = Next1(Readable[n - 1])
  <2>1. n \in 0 .. N /\ n > 0 BY <1>0
  <2> QED BY <1>4, <2>1, Zenon
<1> QED BY <1>5, <1>6, Zenon

Texts == [Labels -> Seq(ConfFields)]

LEMMA HereIn ==
  ASSUME NEW fields \in Seq(ConfFields), Names(fields), NEW text \in Texts
  PROVE  \A i \in 1 .. Len(fields) : Here(fields[i], text) \in Seq(ConfFields)
<1> SUFFICES ASSUME NEW i \in 1 .. Len(fields) PROVE Here(fields[i], text) \in Seq(ConfFields)
  OBVIOUS
<1>1. fields[i] \in ConfFields /\ fields[i].name \in Labels BY DEF Names
<1>2. text[fields[i].name] \in Seq(ConfFields) BY <1>1 DEF Texts
<1>3. \A f \in ConfFields : <<f>> \in Seq(ConfFields) OBVIOUS
<1> QED BY <1>1, <1>2, <1>3, Zenon DEF Here

\* The text of a record is its fields, replaced with what the labels stand for one level further down.
LEMMA MeaningIs ==
  ASSUME config \in ConfFiles
  PROVE  /\ \A n \in 0 .. allowed_nest_level : Meaning[n] \in Texts
         /\ \A n \in 1 .. allowed_nest_level : \A label \in Labels :
              Meaning[n][label] =
                Replaced(readrecord(label).fields, Meaning[n - 1])[Len(readrecord(label).fields)]
<1> DEFINE N == allowed_nest_level
           D == Texts
           Next1(X) == [label \in Labels |->
                          Replaced(readrecord(label).fields, X)[Len(readrecord(label).fields)]]
           Eq(h) == h = [n \in 0 .. N |->
                           [label \in Labels |->
                              IF n = 0 THEN <<>>
                              ELSE Replaced(readrecord(label).fields, h[n - 1])
                                     [Len(readrecord(label).fields)]]]
           base == [label \in Labels |-> <<>>]
<1>0. N \in Nat BY ConfAssumption
<1>9. \A X \in D : Next1(X) \in D
  <2> SUFFICES ASSUME NEW X \in D, NEW label \in Labels
               PROVE  Replaced(readrecord(label).fields, X)[Len(readrecord(label).fields)] \in Seq(ConfFields)
    BY DEF Texts
  <2> DEFINE F == readrecord(label).fields
  <2>1. F \in Seq(ConfFields) /\ Names(F) BY RecordIs
  <2> HIDE DEF F
  <2>2. \A i \in 1 .. Len(F) : Here(F[i], X) \in Seq(ConfFields) BY <2>1, HereIn
  <2>3. Replaced(F, X) \in [0 .. Len(F) -> Seq(ConfFields)] BY <2>1, <2>2, ReplacedIs
  <2>4. Len(F) \in 0 .. Len(F) BY <2>1
  <2>5. Replaced(F, X)[Len(F)] \in Seq(ConfFields) BY <2>3, <2>4, Zenon
  <2> QED BY <2>5 DEF F
<1>1. \E f \in [0 .. N -> D] : Eq(f)
  <2> DEFINE step == [i \in 1 .. N |-> [X \in D |-> Next1(X)]]
  <2>1. step \in [1 .. N -> [D -> D]]
    <3> HIDE DEF Next1, D, N
    <3> QED BY <1>9, Zenon
  <2>2. base \in D BY DEF Texts
  <2>3. \E f : Recurs(f, N, D, base, step)
    <3> HIDE DEF D, step, N, base
    <3> QED BY <1>0, <2>1, <2>2, RecursionExists, Zenon
  <2>4. PICK f \in [0 .. N -> D] : f[0] = base /\ \A i \in 1 .. N : f[i] = step[i][f[i - 1]]
    <3> HIDE DEF D, step, N, base
    <3> QED BY <2>3, Zenon DEF Recurs
  <2>5. \A i \in 1 .. N : f[i] = Next1(f[i - 1])
    <3> SUFFICES ASSUME NEW i \in 1 .. N PROVE f[i] = Next1(f[i - 1]) OBVIOUS
    <3>1. i - 1 \in 0 .. N BY <1>0
    <3>2. f[i - 1] \in D
      <4> HIDE DEF D, N
      <4> QED BY <3>1, Zenon
    <3>3. f[i] = step[i][f[i - 1]] BY <2>4, Zenon
    <3> HIDE DEF Next1, D, N
    <3> QED BY <3>2, <3>3, Zenon
  <2> DEFINE B(i) == [label \in Labels |->
                        IF i = 0 THEN <<>>
                        ELSE Replaced(readrecord(label).fields, f[i - 1])
                               [Len(readrecord(label).fields)]]
  <2>6. \A i \in 0 .. N : f[i] = B(i)
    <3> SUFFICES ASSUME NEW i \in 0 .. N PROVE f[i] = B(i) OBVIOUS
    <3>1. CASE i = 0 BY <2>4, <3>1, Zenon
    <3>2. CASE i # 0
      <4>1. i \in 1 .. N BY <1>0, <3>2
      <4>2. f[i] = Next1(f[i - 1]) BY <2>5, <4>1, Zenon
      <4>3. B(i) = Next1(f[i - 1]) BY <3>2, Zenon
      <4> QED BY <4>2, <4>3, Zenon
    <3> QED BY <3>1, <3>2
  <2>7. Eq(f)
    <3>2. Eq(f) <=> f = [i \in 0 .. N |-> B(i)] OBVIOUS
    <3> HIDE DEF B, N, D, Eq
    <3>3. f = [i \in 0 .. N |-> B(i)] BY <2>4, <2>6, Zenon
    <3> QED BY <3>2, <3>3, Zenon
  <2> QED BY <2>4, <2>7, Zenon
<1>2. Meaning = CHOOSE h : Eq(h) BY DEF Meaning
<1>3. Eq(Meaning)
  <2>1. PICK f : Eq(f) BY <1>1
  <2> HIDE DEF Eq
  <2> QED BY <2>1, <1>2, Zenon
<1> DEFINE C(n) == [label \in Labels |->
                      IF n = 0 THEN <<>>
                      ELSE Replaced(readrecord(label).fields, Meaning[n - 1])
                             [Len(readrecord(label).fields)]]
<1>4. \A n \in 0 .. N : Meaning[n] = C(n)
  <2>1. Meaning = [n \in 0 .. N |-> C(n)] BY <1>3, Zenon
  <2> HIDE DEF C, N
  <2> QED BY <2>1, Zenon
<1>5. \A n \in 1 .. N : Meaning[n] = Next1(Meaning[n - 1])
  <2> SUFFICES ASSUME NEW n \in 1 .. N PROVE Meaning[n] = Next1(Meaning[n - 1]) OBVIOUS
  <2>1. n \in 0 .. N /\ n # 0 BY <1>0
  <2>2. Meaning[n] = C(n) BY <1>4, <2>1, Zenon
  <2>3. C(n) = Next1(Meaning[n - 1]) BY <2>1, Zenon
  <2> QED BY <2>2, <2>3, Zenon
<1>6. Meaning[0] \in D
  <2>1. 0 \in 0 .. N BY <1>0
  <2>2. Meaning[0] = base BY <1>4, <2>1, Zenon
  <2> QED BY <2>2 DEF Texts
<1>7. \A n \in 0 .. N : Meaning[n] \in D
  <2> DEFINE S == {n \in 0 .. N : Meaning[n] \in D}
  <2>1. 0 \in S BY <1>0, <1>6
  <2>2. \A n \in 1 .. N : n - 1 \in S => n \in S
    <3>1. \A n \in 1 .. N : n \in 0 .. N BY <1>0
    <3> HIDE DEF D, N, Next1
    <3> QED BY <1>5, <1>9, <3>1, Zenon
  <2>3. \A n \in 0 .. N : n \in S
    <3> HIDE DEF S
    <3> QED BY <1>0, <2>1, <2>2, UpToInduction
  <2> QED BY <2>3
<1>8. ASSUME NEW n \in 1 .. N, NEW label \in Labels
      PROVE  Meaning[n][label] =
                Replaced(readrecord(label).fields, Meaning[n - 1])[Len(readrecord(label).fields)]
  BY <1>5, Zenon
<1> QED BY <1>7, <1>8, Zenon

----------------------------------------------------------------------------
(* The invariant.  What pending has still to give is followed by frames:   *)
(* the text of the frames above, each level its own meaning of the labels. *)

Rights == "default" \in Readable[allowed_nest_level]

\* Every include that is still to come can be read.
Goes ==
  \A i \in 1 .. Len(pending) : \A j \in 1 .. Len(pending[i]) :
    IsInclude(pending[i][j]) => pending[i][j].name \in Readable[allowed_nest_level - i]

\* rest[i] is what the records up to the i-th give from here on.
RestOf(rest) ==
  /\ rest \in [0 .. Len(pending) -> Seq(ConfFields)] /\ rest[0] = <<>>
  /\ \A i \in 1 .. Len(pending) :
       rest[i] = Replaced(pending[i], Meaning[allowed_nest_level - i])[Len(pending[i])] \o rest[i - 1]

Follows ==
  \E rest : RestOf(rest) /\ confline \o rest[Len(pending)] = Meaning[allowed_nest_level]["default"]

ConfInv ==
  /\ config \in ConfFiles
  /\ pending \in Seq(Seq(ConfFields)) /\ Len(pending) <= allowed_nest_level
  /\ conf # "reading" => pending = <<>>
  /\ conf = "closed" => confline = <<>>
  /\ conf = "died" => ~Rights
  /\ conf = "reading" =>
       /\ confline \in Seq(ConfFields)
       /\ \A i \in 1 .. Len(pending) : Names(pending[i])
       /\ Rights => Goes
       /\ ~Mixed =>
            /\ \A i \in 1 .. Len(pending) : ~MixedIn(pending[i])
            /\ Goes => Rights
            /\ Follows

----------------------------------------------------------------------------
(* Includes.                                                               *)

LEMMA NextIncludeIs ==
  ASSUME NEW fields \in Seq(ConfFields)
  PROVE  /\ NextInclude(fields) \in 0 .. Len(fields)
         /\ NextInclude(fields) = 0 => \A j \in 1 .. Len(fields) : ~IsInclude(fields[j])
         /\ NextInclude(fields) # 0 =>
              /\ IsInclude(fields[NextInclude(fields)])
              /\ ~MixedIn(fields) =>
                   \A j \in 1 .. NextInclude(fields) - 1 : ~IsInclude(fields[j])
<1> DEFINE I == At("include", fields)
           T == At("tc", fields)
           q == NextInclude(fields)
<1>1. /\ DOMAIN fields = 1 .. Len(fields) /\ Len(fields) \in Nat
      /\ I \subseteq 1 .. Len(fields) /\ T \subseteq 1 .. Len(fields)
  BY DEF At
<1>2. \A j \in 1 .. Len(fields) : IsInclude(fields[j]) <=> (j \in I \/ j \in T)
  BY <1>1 DEF At, IsInclude
<1>3. ASSUME I # {} PROVE q \in I /\ \A j \in I : q <= j
  <2>1. q = Min(I) BY <1>3 DEF NextInclude
  <2>2. I \subseteq Nat BY <1>1
  <2> HIDE DEF I, q
  <2> QED BY <1>3, <2>1, <2>2, LeastIs
<1>4. ASSUME I = {}, T # {} PROVE q \in T /\ \A j \in T : q <= j
  <2>1. q = Min(T) BY <1>4 DEF NextInclude
  <2>2. T \subseteq Nat BY <1>1
  <2> HIDE DEF T, q
  <2> QED BY <1>4, <2>1, <2>2, LeastIs
<1>5. ASSUME I = {}, T = {} PROVE q = 0 BY <1>5 DEF NextInclude
<1>6. MixedIn(fields) <=> \E t \in T : \E j \in I : t < j BY DEF MixedIn
<1> HIDE DEF I, T, q
<1>7. CASE I # {}
  <2>0. q \in I BY <1>3, <1>7, Zenon
  <2>1. q \in 1 .. Len(fields) /\ q # 0 /\ q \in Nat BY <1>1, <2>0
  <2>2. IsInclude(fields[q]) BY <1>2, <1>3, <1>7, <2>1
  <2>3. ASSUME ~MixedIn(fields), NEW j \in 1 .. q - 1 PROVE ~IsInclude(fields[j])
    <3>1. j \in 1 .. Len(fields) /\ j < q /\ ~ (q <= j) BY <1>1, <2>1
    <3> QED BY <1>2, <1>3, <1>6, <1>7, <2>3, <3>1
  <2>4. q \in 0 .. Len(fields) BY <1>1, <2>1
  <2>5. ~MixedIn(fields) => \A j \in 1 .. q - 1 : ~IsInclude(fields[j]) BY <2>3, Zenon
  <2> QED BY <2>1, <2>2, <2>4, <2>5, Zenon DEF q
<1>8. CASE I = {} /\ T # {}
  <2>0. q \in T BY <1>4, <1>8, Zenon
  <2>1. q \in 1 .. Len(fields) /\ q # 0 /\ q \in Nat BY <1>1, <2>0
  <2>2. IsInclude(fields[q]) BY <1>2, <1>4, <1>8, <2>1
  <2>3. ASSUME NEW j \in 1 .. q - 1 PROVE ~IsInclude(fields[j])
    <3>1. j \in 1 .. Len(fields) /\ j < q /\ ~ (q <= j) BY <1>1, <2>1
    <3> QED BY <1>2, <1>4, <1>8, <2>3, <3>1
  <2>4. q \in 0 .. Len(fields) BY <1>1, <2>1
  <2>5. \A j \in 1 .. q - 1 : ~IsInclude(fields[j]) BY <2>3, Zenon
  <2> QED BY <2>1, <2>2, <2>4, <2>5, Zenon DEF q
<1>9. CASE I = {} /\ T = {}
  <2>1. q = 0 BY <1>5, <1>9
  <2> QED BY <1>1, <1>2, <1>9, <2>1 DEF q
<1> QED BY <1>7, <1>8, <1>9

\* A record with its first include replaced.
LEMMA IncludeReplaced ==
  ASSUME NEW fields \in Seq(ConfFields), Names(fields), NEW text \in Texts,
         NEW q \in 1 .. Len(fields), IsInclude(fields[q]),
         \A j \in 1 .. q - 1 : ~IsInclude(fields[j])
  PROVE  LET rest == SubSeq(fields, q + 1, Len(fields))
         IN  /\ Replaced(rest, text)[Len(rest)] \in Seq(ConfFields)
             /\ text[fields[q].name] \in Seq(ConfFields)
             /\ Replaced(fields, text)[Len(fields)] =
                  SubSeq(fields, 1, q - 1) \o (text[fields[q].name] \o Replaced(rest, text)[Len(rest)])
<1> DEFINE rest == SubSeq(fields, q + 1, Len(fields))
           a == SubSeq(fields, 1, q - 1)
           b == text[fields[q].name]
           c == Replaced(rest, text)[Len(rest)]
           R == Replaced(fields, text)
<1>1. \A i \in 1 .. Len(fields) : Here(fields[i], text) \in Seq(ConfFields) BY HereIn
<1>2. q \in 0 .. Len(fields) /\ q - 1 \in 0 .. Len(fields) /\ q \in 1 .. Len(fields) OBVIOUS
<1>3. c \in Seq(ConfFields) /\ R[Len(fields)] = R[q] \o c
  <2> HIDE DEF R
  <2> QED BY <1>1, <1>2, ReplacedRest DEF R
<1>4. R[q] = R[q - 1] \o Here(fields[q], text) BY <1>1, <1>2, ReplacedIs
<1>5. Here(fields[q], text) = b BY DEF Here
<1>6. R[q - 1] = a BY <1>1, <1>2, ReplacedPlain
<1>7. a \in Seq(ConfFields) BY <1>2
<1>8. b \in Seq(ConfFields) BY <1>1, <1>2, <1>5
<1> HIDE DEF a, b, c, R
<1>9. (a \o b) \o c = a \o (b \o c)
  <2>1. a \in Seq(ConfFields) /\ b \in Seq(ConfFields) /\ c \in Seq(ConfFields)
    BY <1>3, <1>7, <1>8, Zenon
  <2> QED BY <2>1, ConcatAssociative
<1>10. R[Len(fields)] = a \o (b \o c) BY <1>3, <1>4, <1>5, <1>6, <1>9, Zenon
<1> QED BY <1>3, <1>8, <1>10 DEF a, b, c, R

LEMMA SameFile ==
  ASSUME config' = config
  PROVE  /\ Labels' = Labels /\ Mixed' = Mixed /\ Readable' = Readable /\ Meaning' = Meaning
         /\ Rights' = Rights
<1>1. Labels' = Labels BY DEF Labels
<1>2. Mixed' = Mixed BY DEF Mixed
<1>3. Readable' = Readable BY <1>1 DEF Readable, Labels, readrecord, ToSet, IsInclude, NoRecord
<1>4. Meaning' = Meaning BY <1>1 DEF Meaning, Labels, readrecord
<1> QED BY <1>1, <1>2, <1>3, <1>4 DEF Rights

\* A label can be read if and only if it names a record, and its includes can be read below it.
LEMMA LabelReadable ==
  ASSUME config \in ConfFiles, NEW n \in 0 .. allowed_nest_level, NEW label \in Labels
  PROVE  label \in Readable[n] <=>
           /\ n > 0 /\ readrecord(label) # NoRecord
           /\ \A j \in 1 .. Len(readrecord(label).fields) :
                IsInclude(readrecord(label).fields[j]) =>
                  readrecord(label).fields[j].name \in Readable[n - 1]
<1> DEFINE F == readrecord(label).fields
<1>0. allowed_nest_level \in Nat /\ n \in Nat BY ConfAssumption
<1>1. F \in Seq(ConfFields) BY RecordIs
<1>2. CASE n = 0
  <2>1. label \notin Readable[n] /\ ~ (n > 0) BY <1>2, ReadableIs
  <2> QED BY <2>1, Zenon
<1>3. CASE n # 0
  <2>1. n \in 1 .. allowed_nest_level /\ n > 0 BY <1>0, <1>3
  <2>2. label \in Readable[n] <=>
          /\ readrecord(label) # NoRecord
          /\ \A f \in ToSet(F) : IsInclude(f) => f.name \in Readable[n - 1]
    BY <2>1, ReadableIs, Zenon
  <2> HIDE DEF F
  <2>3. ToSet(F) = {F[j] : j \in 1 .. Len(F)} BY <1>1 DEF ToSet
  <2>4. (\A f \in ToSet(F) : IsInclude(f) => f.name \in Readable[n - 1]) <=>
          \A j \in 1 .. Len(F) : IsInclude(F[j]) => F[j].name \in Readable[n - 1]
    BY <2>3, Zenon
  <2> QED BY <2>1, <2>2, <2>4, Zenon DEF F
<1> QED BY <1>2, <1>3

LEMMA DefaultIsLabel == "default" \in Labels
BY DEF Labels

\* The first record.
LEMMA OpenFileStep ==
  ASSUME ConfInv, OpenFile("default")
  PROVE  ConfInv'
<1> DEFINE N == allowed_nest_level
           F == readrecord("default").fields
           text == Meaning[N - 1]
           T == Replaced(F, text)[Len(F)]
<1>0. N \in Nat BY ConfAssumption
<1>1. /\ conf = "closed" /\ confline = <<>> /\ pending = <<>> /\ config' = config
      /\ confline' = confline /\ config \in ConfFiles
  BY DEF ConfInv, OpenFile
<1>2. Meaning' = Meaning /\ Readable' = Readable /\ Labels' = Labels /\ Mixed' = Mixed /\ Rights' = Rights
  BY <1>1, SameFile
<1>3. Len(<<>>) + 1 = 1 /\ Append(<<>>, F) = <<F>> OBVIOUS
<1>4. Enter("default", <<>>) BY DEF OpenFile
<1>5. CASE conf' = "died"
  <2>1. pending' = <<>> /\ (1 > N \/ readrecord("default") = NoRecord)
    BY <1>3, <1>4, <1>5 DEF Enter
  <2>2. ~Rights
    <3>1. ~ (N > 0) \/ readrecord("default") = NoRecord BY <1>0, <2>1
    <3>2. N \in 0 .. N BY <1>0
    <3> QED BY <1>1, <3>1, <3>2, DefaultIsLabel, LabelReadable, Zenon DEF Rights
  <2>3. /\ config' \in ConfFiles /\ conf' = "died" /\ pending' \in Seq(Seq(ConfFields))
        /\ Len(pending') <= N
    BY <1>0, <1>1, <1>5, <2>1
  <2> QED BY <1>2, <1>5, <2>1, <2>2, <2>3 DEF ConfInv
<1>6. CASE conf' # "died"
  <2>1. /\ conf' = "reading" /\ pending' = <<F>> /\ ~ (1 > N) /\ readrecord("default") # NoRecord
    BY <1>3, <1>4, <1>6 DEF Enter
  <2>2. N > 0 /\ N \in 1 .. N /\ N \in 0 .. N /\ N - 1 \in 0 .. N BY <1>0, <2>1
  <2>3. F \in Seq(ConfFields) /\ Names(F) /\ (~Mixed => ~MixedIn(F)) BY <1>1, RecordIs
  <2>4. Rights <=> \A j \in 1 .. Len(F) : IsInclude(F[j]) => F[j].name \in Readable[N - 1]
    BY <1>1, <2>1, <2>2, DefaultIsLabel, LabelReadable, Zenon DEF Rights
  <2>5. text \in Texts /\ Meaning[N]["default"] = T
    BY <1>1, <2>2, DefaultIsLabel, MeaningIs, Zenon
  <2>6. T \in Seq(ConfFields)
    <3>1. \A i \in 1 .. Len(F) : Here(F[i], text) \in Seq(ConfFields)
      <4> HIDE DEF F, text
      <4> QED BY <2>3, <2>5, HereIn
    <3>2. Replaced(F, text) \in [0 .. Len(F) -> Seq(ConfFields)]
      <4> HIDE DEF F, text
      <4> QED BY <2>3, <3>1, ReplacedIs
    <3>3. Len(F) \in 0 .. Len(F)
      <4> HIDE DEF F
      <4> QED BY <2>3
    <3> HIDE DEF F, text
    <3> QED BY <3>2, <3>3, Zenon
  <2> HIDE DEF F, text, T
  <2>7. Len(pending') = 1 /\ pending'[1] = F /\ pending' \in Seq(Seq(ConfFields))
    BY <2>1, <2>3
  <2>8. \A i \in 1 .. 1 : i = 1 OBVIOUS
  <2>9. Goes' <=> \A j \in 1 .. Len(F) : IsInclude(F[j]) => F[j].name \in Readable[N - 1]
    BY <1>2, <2>7 DEF Goes
  <2>10. Follows'
    <3> DEFINE first == [i \in 0 .. 1 |-> IF i = 0 THEN <<>> ELSE T]
    <3>0. first \in [0 .. 1 -> Seq(ConfFields)] /\ first[0] = <<>> /\ first[1] = T
      BY <2>6
    <3>1. PICK rest : rest \in [0 .. 1 -> Seq(ConfFields)] /\ rest[0] = <<>> /\ rest[1] = T
      <4> HIDE DEF first
      <4> QED BY <3>0, Zenon
    <3>2. T \o <<>> = T /\ <<>> \o T = T BY <2>6, ConcatEmptySeq
    <3>3. RestOf(rest)'
      <4>1. \A i \in 1 .. 1 :
              rest[i] = Replaced(pending'[i], Meaning'[N - i])[Len(pending'[i])] \o rest[i - 1]
        <5>1. rest[1] = Replaced(F, text)[Len(F)] \o rest[0] BY <3>1, <3>2, Zenon DEF T
        <5>2. rest[1] = Replaced(pending'[1], Meaning'[N - 1])[Len(pending'[1])] \o rest[0]
          BY <1>2, <2>7, <5>1, Zenon DEF text
        <5>3. 1 - 1 = 0 OBVIOUS
        <5> QED BY <2>8, <5>2, <5>3, Zenon
      <4>2. rest \in [0 .. Len(pending') -> Seq(ConfFields)] BY <2>7, <3>1, Zenon
      <4>3. \A i \in 1 .. Len(pending') :
              rest[i] = Replaced(pending'[i], Meaning'[N - i])[Len(pending'[i])] \o rest[i - 1]
        BY <2>7, <4>1, Zenon
      <4> QED BY <3>1, <4>2, <4>3, Zenon DEF RestOf
    <3>4. confline' \o rest[Len(pending')] = Meaning'[N]["default"]
      <4>1. confline' = <<>> /\ rest[Len(pending')] = T /\ Meaning'[N]["default"] = T
        BY <1>1, <1>2, <2>5, <2>7, <3>1, Zenon
      <4> QED BY <3>2, <4>1, Zenon
    <3> QED BY <3>3, <3>4, Zenon DEF Follows
  <2>11. confline' \in Seq(ConfFields) BY <1>1
  <2>12. \A i \in 1 .. Len(pending') :
           /\ \A j \in 1 .. Len(pending'[i]) : pending'[i][j].name \in Labels'
           /\ ~Mixed => ~MixedIn(pending'[i])
    <3>1. \A i \in 1 .. Len(F) : F[i].name \in Labels' BY <1>2, <2>3, Zenon DEF Names
    <3>2. \A i \in 1 .. Len(pending') : pending'[i] = F BY <2>7, <2>8, Zenon
    <3>3. (~Mixed => ~MixedIn(F)) BY <2>3
    <3> SUFFICES ASSUME NEW i \in 1 .. Len(pending')
                 PROVE  /\ \A j \in 1 .. Len(pending'[i]) : pending'[i][j].name \in Labels'
                        /\ ~Mixed => ~MixedIn(pending'[i])
      OBVIOUS
    <3>4. pending'[i] = F BY <3>2, Zenon
    <3> QED BY <3>1, <3>3, <3>4, Zenon
  <2>13. config' \in ConfFiles /\ Len(pending') <= N BY <1>0, <1>1, <2>2, <2>7
  <2> QED
    <3>1. Rights' => Goes' BY <1>2, <2>4, <2>9, Zenon
    <3>2. Goes' => Rights' BY <1>2, <2>4, <2>9, Zenon
    <3>3. \A i \in 1 .. Len(pending') : ~Mixed' => ~MixedIn(pending'[i]) BY <1>2, <2>12, Zenon
    <3> QED
      BY <2>1, <2>7, <2>10, <2>11, <2>12, <2>13, <3>1, <3>2, <3>3 DEF ConfInv, Names, MixedIn, At
<1> QED BY <1>5, <1>6

LEMMA Assoc ==
  ASSUME NEW D, NEW a, NEW b, NEW c, a \in Seq(D), b \in Seq(D), c \in Seq(D)
  PROVE  (a \o b) \o c = a \o (b \o c)
BY ConcatAssociative

LEMMA Joins ==
  ASSUME NEW D, NEW a, NEW b, a \in Seq(D), b \in Seq(D)
  PROVE  a \o b \in Seq(D)
BY ConcatProperties

LEMMA FrontIs ==
  ASSUME NEW D, NEW s \in Seq(D), s # <<>>
  PROVE  /\ Front(s) \in Seq(D) /\ Len(Front(s)) = Len(s) - 1
         /\ \A i \in 1 .. Len(s) - 1 : Front(s)[i] = s[i]
<1>1. Len(s) \in Nat /\ Len(s) # 0 BY EmptySeq
<1>2. \A i \in 1 .. Len(s) - 1 : s[i] \in D BY <1>1
<1> DEFINE n == Len(s) - 1
<1>3. n \in Int /\ 1 \in Int /\ n - 1 + 1 = n
  BY <1>1
<1>4. \A i \in 1 .. n : 1 + i - 1 = i BY <1>1
<1> HIDE DEF n
<1>5. /\ SubSeq(s, 1, n) \in Seq(D)
      /\ Len(SubSeq(s, 1, n)) = IF 1 <= n THEN n - 1 + 1 ELSE 0
      /\ \A i \in 1 .. n - 1 + 1 : SubSeq(s, 1, n)[i] = s[1 + i - 1]
  BY <1>2, <1>3, SubSeqProperties DEF n
<1>6. ~ (1 <= n) => n = 0
  <2>1. Len(s) - 1 \in Nat BY <1>1
  <2>2. n \in Nat BY <2>1 DEF n
  <2> QED BY <2>2
<1> QED BY <1>3, <1>4, <1>5, <1>6 DEF Front, n

\* An include.  d: the record it stands in; q: where.
LEMMA IncludeStep ==
  ASSUME ConfInv, Include
  PROVE  ConfInv'
<1> DEFINE N == allowed_nest_level
           d == Len(pending)
           p == pending[d]
           q == NextInclude(p)
           name == p[q].name
           r == SubSeq(p, q + 1, Len(p))
           st == Append(Front(pending), r)
           F == readrecord(name).fields
           text == Meaning[N - d]
           below == Meaning[N - (d + 1)]
           C == Replaced(r, text)[Len(r)]
           B == Replaced(F, below)[Len(F)]
           D == Seq(ConfFields)
<1>0. N \in Nat BY ConfAssumption
<1>1. /\ conf = "reading" /\ pending # <<>> /\ q # 0 /\ config' = config /\ config \in ConfFiles
      /\ confline' = confline \o SubSeq(p, 1, q - 1) /\ Enter(name, st)
  BY DEF ConfInv, Include, Last
<1>2. Meaning' = Meaning /\ Readable' = Readable /\ Labels' = Labels /\ Mixed' = Mixed /\ Rights' = Rights
  BY <1>1, SameFile
<1>3. /\ pending \in Seq(D) /\ d \in Nat /\ d # 0 /\ d <= N /\ d \in 1 .. d /\ N - d \in 0 .. N
  BY <1>0, <1>1 DEF ConfInv
<1>4. p \in D /\ \A i \in 1 .. d : pending[i] \in D
  BY <1>3
<1>5. /\ \A i \in 1 .. d : Names(pending[i])
      /\ Rights => Goes
      /\ ~Mixed => (\A i \in 1 .. d : ~MixedIn(pending[i])) /\ (Goes => Rights) /\ Follows
      /\ confline \in D
  BY <1>1, Zenon DEF ConfInv
<1>6. Names(p) /\ (~Mixed => ~MixedIn(p)) BY <1>3, <1>5, Zenon
<1>7. /\ q \in 1 .. Len(p) /\ Len(p) \in Nat /\ q \in Nat
      /\ IsInclude(p[q]) /\ (~Mixed => \A j \in 1 .. q - 1 : ~IsInclude(p[j]))
  <2> HIDE DEF p
  <2>1. q \in 0 .. Len(p) /\ IsInclude(p[q]) /\ (~MixedIn(p) => \A j \in 1 .. q - 1 : ~IsInclude(p[j]))
    BY <1>1, <1>4, NextIncludeIs, Zenon
  <2>2. Len(p) \in Nat BY <1>4
  <2> HIDE DEF q
  <2>3. q \in 1 .. Len(p) /\ q \in Nat BY <1>1, <2>1, <2>2
  <2> QED BY <1>6, <2>1, <2>2, <2>3, Zenon
<1> HIDE DEF q, p
<1>8. /\ r \in D /\ Len(r) = Len(p) - q /\ Len(r) \in Nat
      /\ \A j \in 1 .. Len(r) : r[j] = p[q + j] /\ q + j \in 1 .. Len(p)
  BY <1>4, <1>7
<1> HIDE DEF r
<1>9. name \in Labels BY <1>6, <1>7, Zenon DEF Names
<1>10. /\ st \in Seq(D) /\ Len(st) = d /\ st[d] = r /\ \A i \in 1 .. d - 1 : st[i] = pending[i]
  <2>1. Front(pending) \in Seq(D) /\ Len(Front(pending)) = d - 1
        /\ \A i \in 1 .. d - 1 : Front(pending)[i] = pending[i]
    <3> HIDE DEF D
    <3> QED BY <1>1, <1>3, FrontIs
  <2> HIDE DEF D, d
  <2> QED BY <1>3, <1>8, <2>1
<1> HIDE DEF name, st
<1>11. CASE conf' = "died"
  <2>1. pending' = <<>> /\ (d + 1 > N \/ readrecord(name) = NoRecord)
    BY <1>1, <1>10, <1>11 DEF Enter
  <2>2. ~Rights
    <3>1. ~ (N - d > 0) \/ readrecord(name) = NoRecord
      <4> HIDE DEF d
      <4> QED BY <1>0, <1>3, <2>1
    <3>2. name \notin Readable[N - d] BY <1>1, <1>3, <1>9, <3>1, LabelReadable, Zenon
    <3>3. ~Goes BY <1>3, <1>7, <3>2, Zenon DEF Goes, p, name
    <3> QED BY <1>5, <3>3
  <2>3. /\ config' \in ConfFiles /\ conf' = "died" /\ pending' \in Seq(Seq(ConfFields))
        /\ Len(pending') <= N
    BY <1>0, <1>1, <1>11, <2>1
  <2> QED BY <1>2, <1>11, <2>1, <2>2, <2>3 DEF ConfInv
<1>12. CASE conf' # "died"
  <2>1. conf' = "reading" /\ pending' = Append(st, F) /\ ~ (d + 1 > N) /\ readrecord(name) # NoRecord
    BY <1>1, <1>10, <1>12 DEF Enter
  <2>2. F \in D /\ Names(F) /\ (~Mixed => ~MixedIn(F)) BY <1>1, RecordIs
  <2> HIDE DEF F
  <2>3. /\ N - d > 0 /\ N - d \in 1 .. N /\ N - (d + 1) \in 0 .. N /\ (N - d) - 1 = N - (d + 1)
        /\ d + 1 \in Nat /\ d + 1 <= N
    <3> HIDE DEF d
    <3> QED BY <1>0, <1>3, <2>1
  <2>4. /\ pending' \in Seq(D) /\ Len(pending') = d + 1 /\ pending'[d + 1] = F /\ pending'[d] = r
        /\ \A i \in 1 .. d - 1 : pending'[i] = pending[i]
    <3> HIDE DEF D, d
    <3> QED BY <1>3, <1>10, <2>1, <2>2
  <2>5. \A i \in 1 .. d + 1 : i \in 1 .. d - 1 \/ i = d \/ i = d + 1
    <3> HIDE DEF d
    <3> QED BY <1>3
  <2>6. \A i \in 1 .. d - 1 : i \in 1 .. d /\ i \in 1 .. d + 1
    <3> HIDE DEF d
    <3> QED BY <1>3
  <2>7. name \in Readable[N - d] <=>
          \A j \in 1 .. Len(F) : IsInclude(F[j]) => F[j].name \in Readable[N - (d + 1)]
    <3>1. N - d \in 0 .. N BY <1>3
    <3> HIDE DEF d
    <3> QED BY <1>1, <1>9, <2>1, <2>3, <3>1, LabelReadable DEF F
  <2> DEFINE GoesAt(stack, i) ==
               \A j \in 1 .. Len(stack[i]) : IsInclude(stack[i][j]) => stack[i][j].name \in Readable[N - i]
  <2>8. Goes <=> \A i \in 1 .. d : GoesAt(pending, i) BY DEF Goes
  <2>9. Goes' <=> \A i \in 1 .. d + 1 : GoesAt(pending', i)
    BY <1>2, <2>4 DEF Goes
  <2>10. \A i \in 1 .. d - 1 : GoesAt(pending, i) <=> GoesAt(pending', i)
    BY <2>4, Zenon
  <2>11. GoesAt(pending', d + 1) <=> name \in Readable[N - d]
    BY <2>4, <2>7, Zenon
  <2>12. GoesAt(pending', d) <=>
           \A j \in 1 .. Len(r) : IsInclude(r[j]) => r[j].name \in Readable[N - d]
    BY <2>4, Zenon
  <2>13. GoesAt(pending, d) <=>
           \A j \in 1 .. Len(p) : IsInclude(p[j]) => p[j].name \in Readable[N - d]
    BY Zenon DEF p
  <2>14. GoesAt(pending, d) => GoesAt(pending', d) /\ GoesAt(pending', d + 1)
    <3> HIDE DEF GoesAt, d
    <3>1. ASSUME GoesAt(pending, d) PROVE name \in Readable[N - d]
      BY <1>7, <2>13, <3>1, Zenon DEF name
    <3>2. ASSUME GoesAt(pending, d) PROVE GoesAt(pending', d)
      BY <1>8, <2>12, <2>13, <3>2, Zenon
    <3> QED BY <2>11, <3>1, <3>2, Zenon
  <2>15. ~Mixed /\ GoesAt(pending', d) /\ GoesAt(pending', d + 1) => GoesAt(pending, d)
    <3> HIDE DEF GoesAt, d
    <3> SUFFICES ASSUME ~Mixed, GoesAt(pending', d), GoesAt(pending', d + 1),
                        NEW j \in 1 .. Len(p), IsInclude(p[j])
                 PROVE  p[j].name \in Readable[N - d]
      BY <2>13, Zenon
    <3>1. ~ (j \in 1 .. q - 1) BY <1>7, Zenon
    <3>2. CASE j = q BY <2>11, <3>2, Zenon DEF name
    <3>3. CASE j # q
      <4>1. j - q \in 1 .. Len(r) /\ q + (j - q) = j BY <1>7, <1>8, <3>1, <3>3
      <4>2. r[j - q] = p[j] BY <1>8, <4>1
      <4> QED BY <2>12, <4>1, <4>2, Zenon
    <3> QED BY <3>2, <3>3
  <2> HIDE DEF GoesAt
  <2>16. Goes => Goes'
    <3> SUFFICES ASSUME Goes, NEW i \in 1 .. d + 1 PROVE GoesAt(pending', i) BY <2>9, Zenon
    <3> QED BY <1>3, <2>5, <2>6, <2>8, <2>10, <2>14, Zenon
  <2>17. ~Mixed /\ Goes' => Goes
    <3> SUFFICES ASSUME ~Mixed, Goes', NEW i \in 1 .. d PROVE GoesAt(pending, i) BY <2>8, Zenon
    <3>1. i \in 1 .. d - 1 \/ i = d
      <4> HIDE DEF d
      <4> QED BY <1>3
    <3>2. d \in 1 .. d + 1 /\ d + 1 \in 1 .. d + 1
      <4> HIDE DEF d
      <4> QED BY <1>3
    <3> QED BY <2>6, <2>9, <2>10, <2>15, <3>1, <3>2, Zenon
  <2>18. ASSUME NEW i \in 1 .. d + 1
         PROVE  /\ \A j \in 1 .. Len(pending'[i]) : pending'[i][j].name \in Labels'
                /\ ~Mixed' => ~MixedIn(pending'[i])
    <3>1. CASE i \in 1 .. d - 1
      <4>1. i \in 1 .. d /\ pending'[i] = pending[i] BY <2>4, <2>6, <3>1, Zenon
      <4> QED BY <1>2, <1>5, <4>1, Zenon DEF Names
    <3>2. CASE i = d
      <4>1. pending'[i] = r BY <2>4, <3>2, Zenon
      <4>2. \A j \in 1 .. Len(r) : r[j].name \in Labels BY <1>6, <1>8, Zenon DEF Names
      <4>3. MixedIn(r) => MixedIn(p)
        <5>1. DOMAIN r = 1 .. Len(r) /\ DOMAIN p = 1 .. Len(p) BY <1>4, <1>8
        <5> SUFFICES ASSUME NEW t \in At("tc", r), NEW j \in At("include", r), t < j
                     PROVE  MixedIn(p)
          BY DEF MixedIn
        <5>2. t \in 1 .. Len(r) /\ j \in 1 .. Len(r) /\ r[t].kind = "tc" /\ r[j].kind = "include"
          BY <5>1 DEF At
        <5>3. q + t \in At("tc", p) /\ q + j \in At("include", p) BY <1>8, <5>1, <5>2 DEF At
        <5>4. q + t < q + j BY <1>7, <5>2
        <5> QED BY <5>3, <5>4 DEF MixedIn
      <4> QED BY <1>2, <1>6, <4>1, <4>2, <4>3, Zenon
    <3>3. CASE i = d + 1
      <4>1. pending'[i] = F BY <2>4, <3>3, Zenon
      <4> QED BY <1>2, <2>2, <4>1, Zenon DEF Names
    <3> QED BY <2>5, <3>1, <3>2, <3>3
  <2>19. ASSUME ~Mixed PROVE Follows'
    <3>1. PICK rest : RestOf(rest) /\ confline \o rest[d] = Meaning[N]["default"]
      BY <1>5, <2>19, Zenon DEF Follows
    <3>2. text \in Texts /\ below \in Texts /\ text[name] = B
      <4>1. Meaning[N - d][name] = Replaced(F, Meaning[(N - d) - 1])[Len(F)]
        BY <1>1, <1>9, <2>3, MeaningIs, Zenon DEF F
      <4> HIDE DEF d
      <4> QED BY <1>1, <1>3, <2>3, <4>1, MeaningIs
    <3>3. /\ C \in D /\ text[name] \in D
          /\ Replaced(p, text)[Len(p)] = SubSeq(p, 1, q - 1) \o (text[name] \o C)
      <4>1. \A j \in 1 .. q - 1 : ~IsInclude(p[j]) BY <1>7, <2>19
      <4> HIDE DEF text
      <4> QED BY <1>4, <1>6, <1>7, <3>2, <4>1, IncludeReplaced DEF r, name
    <3> DEFINE a == confline
               b == SubSeq(p, 1, q - 1)
               w == rest[d - 1]
               T == text[name]
               h == [i \in 0 .. d + 1 |-> IF i = d + 1 THEN T \o (C \o w)
                                          ELSE IF i = d THEN C \o w ELSE rest[i]]
    <3>4. /\ rest \in [0 .. d -> D] /\ rest[0] = <<>>
          /\ \A i \in 1 .. d : rest[i] =
               Replaced(pending[i], Meaning[N - i])[Len(pending[i])] \o rest[i - 1]
      BY <3>1, Zenon DEF RestOf
    <3>5. d - 1 \in 0 .. d /\ \A i \in 0 .. d - 1 : i \in 0 .. d /\ i # d /\ i # d + 1 /\ i \in 0 .. d + 1
      <4> HIDE DEF d
      <4> QED BY <1>3
    <3>6. a \in D /\ b \in D /\ w \in D /\ T \in D /\ C \in D
      <4>1. w \in D
        <5> HIDE DEF D, d
        <5> QED BY <3>4, <3>5, Zenon
      <4>2. b \in D BY <1>4, <1>7
      <4> QED BY <1>5, <3>3, <4>1, <4>2
    <3>7. rest[d] = (b \o (T \o C)) \o w
      <4>1. rest[d] = Replaced(p, text)[Len(p)] \o w BY <1>3, <3>4, Zenon DEF p
      <4> QED BY <3>3, <4>1, Zenon
    <3> HIDE DEF a, b, w, T, C, h, text, below, B
    <3>8. C \o w \in D /\ T \o (C \o w) \in D
      <4>1. C \o w \in D BY <3>6, ConcatProperties
      <4> DEFINE x == C \o w
      <4> HIDE DEF x
      <4>2. T \o x \in D BY <3>6, <4>1, ConcatProperties DEF x
      <4> QED BY <4>1, <4>2 DEF x
    <3>9. a \o ((b \o (T \o C)) \o w) = (a \o b) \o (T \o (C \o w))
      <4> DEFINE tc == T \o C
                 cw == C \o w
                 tcw == T \o cw
      <4>a. a \in D BY <3>6
      <4>b. b \in D BY <3>6
      <4>t. T \in D BY <3>6
      <4>c. C \in D BY <3>6
      <4>w. w \in D BY <3>6
      <4>1. tc \in D BY <4>t, <4>c, Joins
      <4>2. cw \in D BY <4>c, <4>w, Joins
      <4>3. tc \o w = tcw BY <4>t, <4>c, <4>w, Assoc
      <4> HIDE DEF tc, cw
      <4>4. tcw \in D BY <4>2, <4>t, Joins
      <4> HIDE DEF tcw
      <4>5. (b \o tc) \o w = b \o (tc \o w) BY <4>1, <4>b, <4>w, Assoc
      <4>6. (a \o b) \o tcw = a \o (b \o tcw) BY <4>4, <4>a, <4>b, Assoc
      <4>7. a \o ((b \o tc) \o w) = (a \o b) \o tcw BY <4>3, <4>5, <4>6, Zenon
      <4> QED BY <4>7 DEF tc, cw, tcw
    <3>10. /\ h \in [0 .. d + 1 -> D] /\ h[0] = <<>> /\ h[d] = C \o w /\ h[d + 1] = T \o (C \o w)
           /\ \A i \in 0 .. d - 1 : h[i] = rest[i]
      <4>1. \A i \in 0 .. d + 1 : i # d + 1 /\ i # d => i \in 0 .. d
        <5> HIDE DEF d
        <5> QED BY <1>3
      <4>2. d \in 0 .. d + 1 /\ d + 1 \in 0 .. d + 1 /\ 0 \in 0 .. d - 1 /\ d # d + 1
        <5> HIDE DEF d
        <5> QED BY <1>3
      <4>3. \A i \in 0 .. d - 1 : h[i] = rest[i]
        <5> HIDE DEF d
        <5> QED BY <3>5, Zenon DEF h
      <4>4. h[d] = C \o w /\ h[d + 1] = T \o (C \o w)
        <5> HIDE DEF d
        <5> QED BY <4>2, Zenon DEF h
      <4>5. \A i \in 0 .. d : rest[i] \in D
        <5> HIDE DEF D, d
        <5> QED BY <3>4, Zenon
      <4>6. h \in [0 .. d + 1 -> D]
        <5> HIDE DEF D, d
        <5> QED BY <3>8, <4>1, <4>5, Zenon DEF h
      <4> QED BY <3>4, <4>2, <4>3, <4>4, <4>6, Zenon
    <3>11. PICK g : /\ g \in [0 .. d + 1 -> D] /\ g[0] = <<>> /\ g[d] = C \o w /\ g[d + 1] = T \o (C \o w)
                    /\ \A i \in 0 .. d - 1 : g[i] = rest[i]
      BY <3>10, Zenon
    <3>12. ASSUME NEW i \in 1 .. d + 1
           PROVE  g[i] = Replaced(pending'[i], Meaning'[N - i])[Len(pending'[i])] \o g[i - 1]
      <4>1. CASE i \in 1 .. d - 1
        <5>1. i \in 1 .. d /\ pending'[i] = pending[i] BY <2>4, <2>6, <4>1, Zenon
        <5>2. i \in 0 .. d - 1 /\ i - 1 \in 0 .. d - 1
          <6> HIDE DEF d
          <6> QED BY <1>3, <4>1
        <5>3. g[i] = rest[i] /\ g[i - 1] = rest[i - 1] BY <3>11, <5>2, Zenon
        <5> QED BY <1>2, <3>4, <5>1, <5>3, Zenon
      <4>2. CASE i = d
        <5>1. d - 1 \in 0 .. d - 1
          <6> HIDE DEF d
          <6> QED BY <1>3
        <5>2. g[d - 1] = w BY <3>11, <5>1, Zenon DEF w
        <5>3. pending'[d] = r /\ C = Replaced(r, Meaning[N - d])[Len(r)] BY <2>4, Zenon DEF C, text
        <5> QED BY <1>2, <3>11, <4>2, <5>2, <5>3, Zenon
      <4>3. CASE i = d + 1
        <5>1. (d + 1) - 1 = d
          <6> HIDE DEF d
          <6> QED BY <1>3
        <5>2. T = Replaced(F, Meaning[N - (d + 1)])[Len(F)] BY <3>2, Zenon DEF T, B, below
        <5>3. g[(d + 1) - 1] = C \o w BY <3>11, <5>1, Zenon
        <5> QED BY <1>2, <2>4, <3>11, <4>3, <5>2, <5>3, Zenon
      <4> QED BY <2>5, <4>1, <4>2, <4>3
    <3>13. RestOf(g)' BY <2>4, <3>11, <3>12, Zenon DEF RestOf
    <3>14. confline' \o g[Len(pending')] = Meaning'[N]["default"]
      <4>1. confline' \o g[Len(pending')] = (a \o b) \o (T \o (C \o w))
        BY <1>1, <2>4, <3>11, Zenon DEF a, b
      <4>2. Meaning'[N]["default"] = a \o ((b \o (T \o C)) \o w)
        BY <1>2, <3>1, <3>7, Zenon DEF a
      <4> QED BY <3>9, <4>1, <4>2, Zenon
    <3> QED BY <3>13, <3>14, Zenon DEF Follows
  <2>20. confline' \in D
    <3>1. SubSeq(p, 1, q - 1) \in D BY <1>4, <1>7
    <3> DEFINE b == SubSeq(p, 1, q - 1)
    <3>2. b \in D /\ confline \in D /\ confline' = confline \o b BY <1>1, <1>5, <3>1, Zenon
    <3> HIDE DEF b
    <3>3. confline \o b \in D BY <3>2, ConcatProperties
    <3> QED BY <3>2, <3>3, Zenon
  <2>21. config' \in ConfFiles /\ Len(pending') <= N BY <1>1, <2>3, <2>4
  <2>22. (Rights' => Goes') /\ (~Mixed' => (Goes' => Rights') /\ Follows')
    BY <1>2, <1>5, <2>16, <2>17, <2>19, Zenon
  <2> QED
    BY <2>1, <2>4, <2>18, <2>20, <2>21, <2>22 DEF ConfInv, Names, MixedIn, At
<1> QED BY <1>11, <1>12

\* The last of a record.
LEMMA EndRecordStep ==
  ASSUME ConfInv, EndRecordOf
  PROVE  ConfInv'
<1> DEFINE N == allowed_nest_level
           d == Len(pending)
           p == pending[d]
           text == Meaning[N - d]
           D == Seq(ConfFields)
<1>0. N \in Nat BY ConfAssumption
<1>1. /\ conf = "reading" /\ pending # <<>> /\ NextInclude(p) = 0 /\ config' = config
      /\ config \in ConfFiles /\ conf' = conf
      /\ confline' = confline \o p /\ pending' = Front(pending)
  BY DEF ConfInv, EndRecordOf, Last
<1>2. Meaning' = Meaning /\ Readable' = Readable /\ Labels' = Labels /\ Mixed' = Mixed /\ Rights' = Rights
  BY <1>1, SameFile
<1>3. /\ pending \in Seq(D) /\ d \in Nat /\ d # 0 /\ d <= N /\ d \in 1 .. d /\ N - d \in 0 .. N
  BY <1>0, <1>1 DEF ConfInv
<1>4. p \in D /\ \A i \in 1 .. d : pending[i] \in D
  BY <1>3
<1>5. /\ \A i \in 1 .. d : Names(pending[i])
      /\ Rights => Goes
      /\ ~Mixed => (\A i \in 1 .. d : ~MixedIn(pending[i])) /\ (Goes => Rights) /\ Follows
      /\ confline \in D
  BY <1>1, Zenon DEF ConfInv
<1>6. Names(p) BY <1>3, <1>5, Zenon
<1>7. \A j \in 1 .. Len(p) : ~IsInclude(p[j])
  <2> HIDE DEF p
  <2> QED BY <1>1, <1>4, NextIncludeIs
<1>8. /\ pending' \in Seq(D) /\ Len(pending') = d - 1
      /\ \A i \in 1 .. d - 1 : pending'[i] = pending[i]
  <2> HIDE DEF D
  <2> QED BY <1>1, <1>3, FrontIs
<1> HIDE DEF p
<1>9. \A i \in 1 .. d - 1 : i \in 1 .. d
  <2> HIDE DEF d
  <2> QED BY <1>3
<1>10. \A i \in 1 .. d : i \in 1 .. d - 1 \/ i = d
  <2> HIDE DEF d
  <2> QED BY <1>3
<1> DEFINE GoesAt(stack, i) ==
             \A j \in 1 .. Len(stack[i]) : IsInclude(stack[i][j]) => stack[i][j].name \in Readable[N - i]
<1>11. Goes' <=> Goes
  <2>1. Goes <=> \A i \in 1 .. d : GoesAt(pending, i) BY DEF Goes
  <2>2. Goes' <=> \A i \in 1 .. d - 1 : GoesAt(pending', i) BY <1>2, <1>8 DEF Goes
  <2>3. \A i \in 1 .. d - 1 : GoesAt(pending, i) <=> GoesAt(pending', i) BY <1>8, Zenon
  <2>4. GoesAt(pending, d) BY <1>7, Zenon DEF p
  <2> HIDE DEF GoesAt, d
  <2> QED BY <1>9, <1>10, <2>1, <2>2, <2>3, <2>4, Zenon
<1>12. ASSUME ~Mixed PROVE Follows'
  <2>1. PICK rest : RestOf(rest) /\ confline \o rest[d] = Meaning[N]["default"]
    BY <1>5, <1>12, Zenon DEF Follows
  <2>2. /\ rest \in [0 .. d -> D] /\ rest[0] = <<>>
        /\ \A i \in 1 .. d : rest[i] =
             Replaced(pending[i], Meaning[N - i])[Len(pending[i])] \o rest[i - 1]
    BY <2>1, Zenon DEF RestOf
  <2>3. text \in Texts BY <1>1, <1>3, MeaningIs
  <2>4. Replaced(p, text)[Len(p)] = p
    <3> HIDE DEF text
    <3>1. \A i \in 1 .. Len(p) : Here(p[i], text) \in Seq(ConfFields) BY <1>4, <1>6, <2>3, HereIn
    <3>2. Len(p) \in 0 .. Len(p) /\ SubSeq(p, 1, Len(p)) = p BY <1>4
    <3> QED BY <1>4, <1>7, <3>1, <3>2, ReplacedPlain
  <2>5. rest[d] = p \o rest[d - 1] BY <1>3, <2>2, <2>4, Zenon DEF p
  <2>6. d - 1 \in 0 .. d /\ d - 1 \in 0 .. d - 1 /\ \A i \in 0 .. d - 1 : i \in 0 .. d
    <3> HIDE DEF d
    <3> QED BY <1>3
  <2> DEFINE w == rest[d - 1]
             h == [i \in 0 .. d - 1 |-> rest[i]]
  <2>7. w \in D /\ h \in [0 .. d - 1 -> D] /\ \A i \in 0 .. d - 1 : h[i] = rest[i]
    <3> HIDE DEF D, d
    <3> QED BY <2>2, <2>6, Zenon
  <2> HIDE DEF w, h
  <2>8. PICK g : g \in [0 .. d - 1 -> D] /\ \A i \in 0 .. d - 1 : g[i] = rest[i]
    BY <2>7, Zenon
  <2>9. 0 \in 0 .. d - 1 /\ \A i \in 1 .. d - 1 : i \in 0 .. d - 1 /\ i - 1 \in 0 .. d - 1
    <3> HIDE DEF d
    <3> QED BY <1>3
  <2>10. \A i \in 1 .. d - 1 :
           g[i] = Replaced(pending'[i], Meaning'[N - i])[Len(pending'[i])] \o g[i - 1]
    <3> SUFFICES ASSUME NEW i \in 1 .. d - 1
                 PROVE  g[i] = Replaced(pending'[i], Meaning'[N - i])[Len(pending'[i])] \o g[i - 1]
      OBVIOUS
    <3>1. g[i] = rest[i] /\ g[i - 1] = rest[i - 1] BY <2>8, <2>9, Zenon
    <3>2. pending'[i] = pending[i] /\ i \in 1 .. d BY <1>8, <1>9, Zenon
    <3> QED BY <1>2, <2>2, <3>1, <3>2, Zenon
  <2>11. g[0] = <<>> BY <2>2, <2>8, <2>9, Zenon
  <2>12. RestOf(g)' BY <1>8, <2>8, <2>10, <2>11, Zenon DEF RestOf
  <2>13. confline' \o g[Len(pending')] = Meaning'[N]["default"]
    <3>1. (confline \o p) \o w = confline \o (p \o w) BY <1>4, <1>5, <2>7, ConcatAssociative
    <3>2. g[Len(pending')] = w BY <1>8, <2>6, <2>8, Zenon DEF w
    <3> QED BY <1>1, <1>2, <2>1, <2>5, <3>1, <3>2, Zenon DEF w
  <2> QED BY <2>12, <2>13, Zenon DEF Follows
<1>13. confline' \in D BY <1>1, <1>4, <1>5, ConcatProperties
<1>14. ASSUME NEW i \in 1 .. d - 1
       PROVE  /\ \A j \in 1 .. Len(pending'[i]) : pending'[i][j].name \in Labels'
              /\ ~Mixed' => ~MixedIn(pending'[i])
  <2>1. i \in 1 .. d /\ pending'[i] = pending[i] BY <1>8, <1>9, Zenon
  <2> QED BY <1>2, <1>5, <2>1, Zenon DEF Names
<1>15. config' \in ConfFiles /\ Len(pending') <= N
  <2> HIDE DEF d
  <2> QED BY <1>0, <1>1, <1>3, <1>8
<1>16. (Rights' => Goes') /\ (~Mixed' => (Goes' => Rights') /\ Follows')
  BY <1>2, <1>5, <1>11, <1>12, Zenon
<1>17. \A i \in 1 .. Len(pending') :
         /\ \A j \in 1 .. Len(pending'[i]) : pending'[i][j].name \in Labels'
         /\ ~Mixed' => ~MixedIn(pending'[i])
  BY <1>8, <1>14, Zenon
<1>18. conf' = "reading" /\ conf' # "closed" /\ conf' # "died" BY <1>1
<1> QED
  BY <1>8, <1>13, <1>15, <1>16, <1>17, <1>18, Zenon DEF ConfInv, Names, MixedIn, At

LEMMA ConfInvStep ==
  ASSUME ConfInv, [ConfNext]_confVars
  PROVE  ConfInv'
<1>1. ASSUME UNCHANGED confVars PROVE ConfInv'
  <2>1. config' = config /\ pending' = pending /\ confline' = confline /\ conf' = conf
    BY <1>1 DEF confVars
  <2>2. Meaning' = Meaning /\ Readable' = Readable /\ Labels' = Labels /\ Mixed' = Mixed /\ Rights' = Rights
    BY <2>1, SameFile
  <2> QED BY <2>1, <2>2 DEF ConfInv, Names, MixedIn, At, Goes, Follows, RestOf
<1>2. ASSUME NEW l \in GivenConfs, OpenGiven(l) PROVE ConfInv'
  <2>1. config' = config /\ pending' = pending /\ conf' = "opened" /\ conf = "closed"
    BY <1>2 DEF OpenGiven
  <2> QED BY <2>1 DEF ConfInv
<1>3. ASSUME OpenFile("default") PROVE ConfInv' BY <1>3, OpenFileStep
<1>4. ASSUME Include PROVE ConfInv' BY <1>4, IncludeStep
<1>5. ASSUME EndRecordOf PROVE ConfInv' BY <1>5, EndRecordStep
<1>6. ASSUME Opened PROVE ConfInv'
  <2>1. config' = config /\ pending' = pending /\ conf' = "opened" /\ pending = <<>> BY <1>6 DEF Opened
  <2> QED BY <2>1 DEF ConfInv
<1>7. ASSUME closeconf PROVE ConfInv'
  <2>1. config' = config /\ pending' = pending /\ conf' = "closed" /\ conf = "opened" /\ confline' = <<>>
    BY <1>7 DEF closeconf
  <2> QED BY <2>1 DEF ConfInv
<1> QED BY <1>1, <1>2, <1>3, <1>4, <1>5, <1>6, <1>7 DEF ConfNext

\* The line that is read when nothing is pending is what the label stands for.
LEMMA ConfInvSettings ==
  ASSUME ConfInv
  PROVE  SettingsRight
<1>1. ASSUME conf = "reading", pending = <<>>, ~Mixed
      PROVE  Rights /\ confline = Meaning[allowed_nest_level]["default"]
  <2>1. Len(pending) = 0 /\ ~ \E i \in 1 .. 0 : TRUE BY <1>1
  <2>2. Goes BY <2>1 DEF Goes
  <2>3. Rights BY <1>1, <2>2 DEF ConfInv
  <2>4. Follows /\ confline \in Seq(ConfFields) BY <1>1 DEF ConfInv
  <2>5. PICK rest : rest[0] = <<>> /\ confline \o rest[0] = Meaning[allowed_nest_level]["default"]
    BY <2>1, <2>4, Zenon DEF Follows, RestOf
  <2>6. confline \o <<>> = confline BY <2>4, ConcatEmptySeq
  <2> QED BY <2>3, <2>5, <2>6, Zenon
<1>2. conf = "died" => ~Rights BY DEF ConfInv
<1> QED BY <1>1, <1>2, Zenon DEF SettingsRight, Rights

\* SettingsRight, for every configuration and every depth that is allowed.
THEOREM ConfSettings == ConfSpec => []SettingsRight
<1>1. ConfInit => ConfInv
  <2> SUFFICES ASSUME ConfInit PROVE ConfInv OBVIOUS
  <2>1. allowed_nest_level \in Nat /\ Len(<<>>) = 0 BY ConfAssumption
  <2> QED BY <2>1 DEF ConfInit, ConfInitOf, ConfInv
<1>2. ConfInv /\ [ConfNext]_confVars => ConfInv' BY ConfInvStep
<1>3. ConfInv => SettingsRight BY ConfInvSettings
<1> QED BY <1>1, <1>2, <1>3, PTL DEF ConfSpec

----------------------------------------------------------------------------
(***************************************************************************)
(* Query: its answers come from the nearest project, and from the trees of the*)
(* library that it is told to ask.                                         *)
(***************************************************************************)

(* Words in sequence.                                                      *)

LEMMA AppendIs ==
  ASSUME NEW T, NEW s \in Seq(T), NEW x \in T
  PROVE  /\ Append(s, x) \in Seq(T) /\ ToSet(Append(s, x)) = ToSet(s) \cup {x}
         /\ Append(s, x) # <<>> /\ Len(Append(s, x)) = Len(s) + 1
         /\ \A i \in 1 .. Len(s) : Append(s, x)[i] = s[i]
         /\ Append(s, x)[Len(s) + 1] = x
         /\ IsInjective(s) /\ x \notin ToSet(s) => IsInjective(Append(s, x))
<1> DEFINE a == Append(s, x)
           n == Len(s)
<1>1. /\ a \in Seq(T) /\ Len(a) = n + 1 /\ n \in Nat /\ DOMAIN s = 1 .. n /\ DOMAIN a = 1 .. n + 1
      /\ \A i \in 1 .. n : a[i] = s[i]
      /\ a[n + 1] = x
  OBVIOUS
<1>2. a # <<>> BY <1>1
<1> HIDE DEF a, n
<1>3. \A i \in 1 .. n + 1 : i \in 1 .. n \/ i = n + 1 BY <1>1
<1>4. \A i \in 1 .. n : i \in 1 .. n + 1 BY <1>1
<1>5. n + 1 \in 1 .. n + 1 BY <1>1
<1>6. ToSet(a) = ToSet(s) \cup {x}
  <2>1. ToSet(a) \subseteq ToSet(s) \cup {x} BY <1>1, <1>3, Zenon DEF ToSet
  <2>2. ToSet(s) \subseteq ToSet(a) BY <1>1, <1>4 DEF ToSet
  <2>3. x \in ToSet(a) BY <1>1, <1>5, Zenon DEF ToSet
  <2> QED BY <2>1, <2>2, <2>3
<1>7. ASSUME IsInjective(s), x \notin ToSet(s) PROVE IsInjective(a)
  <2> SUFFICES ASSUME NEW i \in 1 .. n + 1, NEW j \in 1 .. n + 1, a[i] = a[j] PROVE i = j
    BY <1>1, Zenon DEF IsInjective
  <2>1. \A k \in 1 .. n : s[k] # x BY <1>1, <1>7, Zenon DEF ToSet
  <2>2. CASE i = n + 1 /\ j = n + 1 BY <2>2
  <2>3. CASE i = n + 1 /\ j \in 1 .. n BY <1>1, <2>1, <2>3
  <2>4. CASE i \in 1 .. n /\ j = n + 1 BY <1>1, <2>1, <2>4
  <2>5. CASE i \in 1 .. n /\ j \in 1 .. n
    <3>1. s[i] = s[j] BY <1>1, <2>5
    <3> QED BY <1>1, <1>7, <2>5, <3>1, Zenon DEF IsInjective
  <2> QED BY <1>3, <2>2, <2>3, <2>4, <2>5
<1> QED BY <1>1, <1>2, <1>6, <1>7, Zenon DEF a, n

LEMMA ConcatIs ==
  ASSUME NEW T, NEW s \in Seq(T), NEW t \in Seq(T)
  PROVE  /\ s \o t \in Seq(T) /\ ToSet(s \o t) = ToSet(s) \cup ToSet(t)
         /\ IsInjective(s) /\ IsInjective(t) /\ ToSet(s) \cap ToSet(t) = {} => IsInjective(s \o t)
<1> DEFINE a == s \o t
           n == Len(s)
           m == Len(t)
<1>1. /\ a \in Seq(T) /\ Len(a) = n + m /\ n \in Nat /\ m \in Nat
      /\ DOMAIN s = 1 .. n /\ DOMAIN t = 1 .. m /\ DOMAIN a = 1 .. n + m
      /\ \A i \in 1 .. n : a[i] = s[i]
  BY ConcatProperties
<1>2. ASSUME NEW i \in 1 .. m PROVE a[n + i] = t[i] /\ n + i \in 1 .. n + m
  <2>1. n + i \in 1 .. n + m /\ ~ (n + i <= n) /\ n + i - n = i BY <1>1
  <2>2. a[n + i] = t[i] BY <1>1, <2>1, ConcatProperties
  <2> QED BY <2>1, <2>2
<1>3. \A i \in 1 .. n + m : i \notin 1 .. n => i - n \in 1 .. m /\ n + (i - n) = i BY <1>1
<1>4. \A i \in 1 .. n : i \in 1 .. n + m BY <1>1
<1> HIDE DEF a, n, m
<1>5. \A i \in 1 .. n + m : i \notin 1 .. n => a[i] = t[i - n] /\ i - n \in 1 .. m
  <2> TAKE i \in 1 .. n + m
  <2> HAVE i \notin 1 .. n
  <2>1. i - n \in 1 .. m /\ n + (i - n) = i BY <1>3
  <2> DEFINE k == i - n
  <2>2. k \in 1 .. m /\ n + k = i BY <2>1
  <2> HIDE DEF k
  <2>3. a[i] = t[k] BY <1>2, <2>2
  <2> QED BY <2>2, <2>3 DEF k
<1>6. ToSet(a) = ToSet(s) \cup ToSet(t)
  <2>1. ToSet(a) \subseteq ToSet(s) \cup ToSet(t)
    <3> SUFFICES ASSUME NEW i \in 1 .. n + m PROVE a[i] \in ToSet(s) \cup ToSet(t)
      BY <1>1, Zenon DEF ToSet
    <3>1. CASE i \in 1 .. n BY <1>1, <3>1, Zenon DEF ToSet
    <3>2. CASE i \notin 1 .. n BY <1>1, <1>5, <3>2, Zenon DEF ToSet
    <3> QED BY <3>1, <3>2
  <2>2. ToSet(s) \subseteq ToSet(a)
    <3> SUFFICES ASSUME NEW i \in 1 .. n PROVE s[i] \in ToSet(a) BY <1>1, Zenon DEF ToSet
    <3> QED BY <1>1, <1>4, Zenon DEF ToSet
  <2>3. ToSet(t) \subseteq ToSet(a)
    <3> SUFFICES ASSUME NEW i \in 1 .. m PROVE t[i] \in ToSet(a) BY <1>1, Zenon DEF ToSet
    <3>1. t[i] = a[n + i] /\ n + i \in DOMAIN a BY <1>1, <1>2
    <3> QED BY <3>1, Zenon DEF ToSet
  <2> QED BY <2>1, <2>2, <2>3
<1>7. ASSUME IsInjective(s), IsInjective(t), ToSet(s) \cap ToSet(t) = {} PROVE IsInjective(a)
  <2> SUFFICES ASSUME NEW i \in 1 .. n + m, NEW j \in 1 .. n + m, a[i] = a[j] PROVE i = j
    BY <1>1, Zenon DEF IsInjective
  <2>1. \A k \in 1 .. n, l \in 1 .. m : s[k] # t[l] BY <1>1, <1>7 DEF ToSet
  <2>2. CASE i \in 1 .. n /\ j \in 1 .. n
    <3>1. s[i] = s[j] BY <1>1, <2>2
    <3> QED BY <1>1, <1>7, <2>2, <3>1, Zenon DEF IsInjective
  <2>3. CASE i \in 1 .. n /\ j \notin 1 .. n BY <1>1, <1>5, <2>1, <2>3, Zenon
  <2>4. CASE i \notin 1 .. n /\ j \in 1 .. n BY <1>1, <1>5, <2>1, <2>4, Zenon
  <2>5. CASE i \notin 1 .. n /\ j \notin 1 .. n
    <3>1. t[i - n] = t[j - n] /\ i - n \in 1 .. m /\ j - n \in 1 .. m BY <1>5, <2>5
    <3>2. i - n = j - n BY <1>1, <1>7, <3>1, Zenon DEF IsInjective
    <3> QED BY <1>1, <3>2
  <2> QED BY <2>2, <2>3, <2>4, <2>5
<1> QED BY <1>1, <1>6, <1>7, Zenon DEF a

Keep(words, S, T) ==
  [n \in 1 .. Len(words) |-> [x \in Seq(T) |-> IF words[n] \in S THEN Append(x, words[n]) ELSE x]]

\* What is chosen is chosen in its order.
LEMMA ChosenIs ==
  ASSUME NEW T, NEW words \in Seq(T), NEW S
  PROVE  /\ Chosen(words, S) \in Seq(T) /\ ToSet(Chosen(words, S)) = ToSet(words) \cap S
         /\ IsInjective(words) => IsInjective(Chosen(words, S))
<1> DEFINE N == Len(words)
           Body(h, n) == IF n = 0 THEN <<>>
                         ELSE IF words[n] \in S THEN Append(h[n - 1], words[n]) ELSE h[n - 1]
           Eq(h) == h = [n \in 0 .. N |-> Body(h, n)]
           R == CHOOSE h : Eq(h)
           step == Keep(words, S, T)
<1>1. N \in Nat /\ DOMAIN words = 1 .. N /\ \A n \in 1 .. N : words[n] \in T OBVIOUS
<1>2. Chosen(words, S) = R[N] BY DEF Chosen
<1> HIDE DEF N
<1>3. /\ \A n \in 1 .. N : \A x \in Seq(T) :
            step[n][x] = IF words[n] \in S THEN Append(x, words[n]) ELSE x
      /\ step \in [1 .. N -> [Seq(T) -> Seq(T)]]
  <2>1. \A n \in 1 .. N : \A x \in Seq(T) : (IF words[n] \in S THEN Append(x, words[n]) ELSE x) \in Seq(T)
    BY <1>1, AppendIs
  <2> DEFINE v(n, x) == IF words[n] \in S THEN Append(x, words[n]) ELSE x
  <2>2. step = [n \in 1 .. N |-> [x \in Seq(T) |-> v(n, x)]] BY DEF Keep, N
  <2>3. \A n \in 1 .. N : \A x \in Seq(T) : v(n, x) \in Seq(T) BY <2>1
  <2>4. /\ \A n \in 1 .. N : \A x \in Seq(T) : step[n][x] = v(n, x)
        /\ step \in [1 .. N -> [Seq(T) -> Seq(T)]]
    <3> HIDE DEF v, step
    <3> QED BY <2>2, <2>3
  <2> QED BY <2>4
<1> HIDE DEF step
<1>4. PICK f : Recurs(f, N, Seq(T), <<>>, step)
  <2>1. <<>> \in Seq(T) OBVIOUS
  <2> QED BY <1>1, <1>3, <2>1, RecursionExists
<1>5. ASSUME NEW n \in 1 .. N
      PROVE  f[n - 1] \in Seq(T) /\ f[n] = IF words[n] \in S THEN Append(f[n - 1], words[n]) ELSE f[n - 1]
  <2>1. n - 1 \in 0 .. N BY <1>1
  <2>2. f[n - 1] \in Seq(T) BY <1>4, <2>1, Zenon DEF Recurs
  <2> QED BY <1>3, <1>4, <2>2, Zenon DEF Recurs
<1>6. Eq(f)
  <2>1. \A n \in 0 .. N : f[n] = Body(f, n)
    <3> SUFFICES ASSUME NEW n \in 0 .. N PROVE f[n] = Body(f, n) OBVIOUS
    <3>1. CASE n = 0 BY <1>4, <3>1, Zenon DEF Recurs
    <3>2. CASE n # 0
      <4>1. n \in 1 .. N BY <3>2
      <4> QED BY <1>5, <3>2, <4>1, Zenon
    <3> QED BY <3>1, <3>2
  <2> HIDE DEF Body
  <2> QED BY <1>4, <2>1, Zenon DEF Recurs
<1>7. Eq(R)
  <2> HIDE DEF Eq
  <2> QED BY <1>6, Zenon
<1> HIDE DEF R
<1>8. \A n \in 0 .. N : R[n] = Body(R, n)
  <2>1. R = [n \in 0 .. N |-> Body(R, n)] BY <1>7, Zenon
  <2> HIDE DEF Body
  <2> QED BY <2>1, Zenon
<1> DEFINE Seen(n) == {words[i] : i \in 1 .. n}
           Good(n) == /\ R[n] \in Seq(T) /\ ToSet(R[n]) = Seen(n) \cap S
                      /\ IsInjective(words) => IsInjective(R[n])
           Q == {n \in 0 .. N : Good(n)}
<1>9. 0 \in Q
  <2>1. 0 \in 0 .. N BY <1>1
  <2>2. R[0] = <<>> BY <1>8, <2>1, Zenon
  <2>3. 1 .. 0 = {} /\ <<>> \in Seq(T) OBVIOUS
  <2>4. ToSet(<<>>) = {} /\ IsInjective(<<>>) BY DEF ToSet, IsInjective
  <2>5. Seen(0) = {} BY <2>3
  <2>6. Good(0) BY <2>2, <2>3, <2>4, <2>5, Zenon
  <2> QED BY <2>1, <2>6
<1>10. ASSUME NEW n \in 1 .. N, n - 1 \in Q PROVE n \in Q
  <2>1. Good(n - 1) /\ n \in 0 .. N /\ n # 0 BY <1>10
  <2>2. R[n] = IF words[n] \in S THEN Append(R[n - 1], words[n]) ELSE R[n - 1] BY <1>8, <2>1, Zenon
  <2>3. Seen(n) = Seen(n - 1) \cup {words[n]}
    <3>1. \A i \in 1 .. n : i \in 1 .. n - 1 \/ i = n OBVIOUS
    <3>2. \A i \in 1 .. n - 1 : i \in 1 .. n OBVIOUS
    <3>3. n \in 1 .. n OBVIOUS
    <3>4. Seen(n) \subseteq Seen(n - 1) \cup {words[n]} BY <3>1, Zenon
    <3>5. Seen(n - 1) \subseteq Seen(n) BY <3>2, Zenon
    <3>6. words[n] \in Seen(n) BY <3>3, Zenon
    <3> HIDE DEF Seen
    <3> QED BY <3>4, <3>5, <3>6
  <2>4. IsInjective(words) => words[n] \notin Seen(n - 1)
    <3> SUFFICES ASSUME IsInjective(words), NEW i \in 1 .. n - 1, words[n] = words[i] PROVE FALSE
      BY Zenon
    <3>1. i \in 1 .. N /\ i # n BY <1>1
    <3> QED BY <1>1, <3>1, Zenon DEF IsInjective
  <2>5. Good(n)
    <3> DEFINE t == R[n - 1]
               w == words[n]
               earlier == Seen(n - 1)
    <3>1. /\ t \in Seq(T) /\ w \in T /\ ToSet(t) = earlier \cap S
          /\ IsInjective(words) => IsInjective(t) /\ w \notin earlier
      BY <1>1, <2>1, <2>4, Zenon
    <3>2. /\ Append(t, w) \in Seq(T) /\ ToSet(Append(t, w)) = ToSet(t) \cup {w}
          /\ IsInjective(t) /\ w \notin ToSet(t) => IsInjective(Append(t, w))
      <4> HIDE DEF t, w, earlier
      <4> QED BY <3>1, AppendIs
    <3>3. R[n] = (IF w \in S THEN Append(t, w) ELSE t) /\ Seen(n) = earlier \cup {w}
      BY <2>2, <2>3, Zenon
    <3> DEFINE all == Seen(n)
               r == R[n]
    <3>4. r \in Seq(T) /\ ToSet(r) = all \cap S /\ (IsInjective(words) => IsInjective(r))
      <4>1. r = (IF w \in S THEN Append(t, w) ELSE t) /\ all = earlier \cup {w} BY <3>3
      <4> HIDE DEF t, w, earlier, all, r
      <4>2. CASE w \in S
        <5>1. r = Append(t, w) BY <4>1, <4>2
        <5>2. ToSet(r) = all \cap S BY <3>1, <3>2, <4>1, <4>2, <5>1
        <5>3. IsInjective(words) => IsInjective(r) BY <3>1, <3>2, <5>1
        <5> QED BY <3>2, <5>1, <5>2, <5>3
      <4>3. CASE w \notin S
        <5>1. r = t BY <4>1, <4>3
        <5>2. earlier \cap S = all \cap S BY <4>1, <4>3
        <5> QED BY <3>1, <5>1, <5>2, Zenon
      <4> QED BY <4>2, <4>3
    <3> QED BY <3>4
  <2> QED BY <2>1, <2>5
<1>11. Good(N)
  <2>1. \A n \in 0 .. N : n \in Q
    <3> HIDE DEF Q
    <3> QED BY <1>1, <1>9, <1>10, UpToInduction
  <2>2. N \in 0 .. N BY <1>1
  <2> QED BY <2>1, <2>2
<1>12. Seen(N) = ToSet(words) BY <1>1, Zenon DEF ToSet
<1> QED BY <1>2, <1>11, <1>12, Zenon

----------------------------------------------------------------------------
(* What one database answers.                                              *)

LEMMA PrefixIs ==
  ASSUME NEW T, NEW s \in Seq(T), NEW t \in Seq(T)
  PROVE  IsPrefix(s, t) <=> Len(s) <= Len(t) /\ \A i \in 1 .. Len(s) : s[i] = t[i]
<1> DEFINE n == Len(s)
           m == Len(t)
           a == SubSeq(s, 1, n)
           b == SubSeq(t, 1, n)
<1>1. n \in Nat /\ m \in Nat /\ a = s OBVIOUS
<1>2. ASSUME n <= m
      PROVE  b \in Seq(T) /\ Len(b) = n /\ \A i \in 1 .. n : b[i] = t[i]
  <2>1. \A i \in 1 .. n : t[i] \in T BY <1>1, <1>2
  <2>2. n - 1 + 1 = n /\ (~ (1 <= n) => n = 0) /\ \A i \in 1 .. n - 1 + 1 : 1 + i - 1 = i /\ i \in 1 .. n
    BY <1>1
  <2>3. /\ b \in Seq(T) /\ Len(b) = (IF 1 <= n THEN n - 1 + 1 ELSE 0)
        /\ \A i \in 1 .. n - 1 + 1 : b[i] = t[1 + i - 1]
    <3> HIDE DEF n
    <3> QED BY <1>1, <2>1, SubSeqProperties
  <2> HIDE DEF n, m, b
  <2> QED BY <1>1, <2>2, <2>3
<1>3. ASSUME n <= m, a = b PROVE \A i \in 1 .. n : s[i] = t[i]
  <2> HIDE DEF n, m, b
  <2> QED BY <1>1, <1>2, <1>3
<1>4. ASSUME n <= m, \A i \in 1 .. n : s[i] = t[i] PROVE a = b
  <2>1. b \in Seq(T) /\ Len(b) = n /\ \A i \in 1 .. n : s[i] = b[i] BY <1>2, <1>4
  <2>2. s = b
    <3> HIDE DEF b
    <3> QED BY <2>1, SeqEqual
  <2> QED BY <1>1, <2>2
<1> QED BY <1>1, <1>3, <1>4 DEF IsPrefix

\* A word that begins with a letter.
LEMMA FirstIs ==
  ASSUME NEW T, NEW c \in T, NEW w \in Seq(T)
  PROVE  IsPrefix(<<c>>, w) <=> w # <<>> /\ w[1] = c
<1> DEFINE s == <<c>>
<1>1. s \in Seq(T) /\ Len(s) = 1 /\ s[1] = c /\ 1 .. 1 = {1} OBVIOUS
<1>2. 1 <= Len(w) <=> w # <<>> BY EmptySeq
<1> HIDE DEF s
<1>3. IsPrefix(s, w) <=> Len(s) <= Len(w) /\ \A i \in 1 .. Len(s) : s[i] = w[i]
  BY <1>1, PrefixIs
<1>4. IsPrefix(s, w) <=> w # <<>> /\ w[1] = c BY <1>1, <1>2, <1>3
<1> QED BY <1>4 DEF s

LEMMA LowerIs ==
  ASSUME NEW w \in Seq(Letters)
  PROVE  Lower(w) \in Seq(Letters) /\ Len(Lower(w)) = Len(w)
         /\ \A i \in 1 .. Len(w) : Lower(w)[i] = LowerCase[w[i]]
<1>1. \A c \in Letters : LowerCase[c] \in Letters BY QueryAssumption
<1>2. DOMAIN w = 1 .. Len(w) /\ Len(w) \in Nat /\ \A i \in 1 .. Len(w) : w[i] \in Letters OBVIOUS
<1>3. Lower(w) = [i \in 1 .. Len(w) |-> LowerCase[w[i]]] BY <1>2 DEF Lower
<1> QED BY <1>1, <1>2, <1>3

\* Words that begin alike but for the case of their letters.
LEMMA AlikeIs ==
  ASSUME NEW p \in Seq(Letters), NEW w \in Seq(Letters), p # <<>>, IsPrefix(Lower(p), Lower(w))
  PROVE  w # <<>> /\ w[1] \in {LowerCase[p[1]], UpperCase[p[1]]}
<1>1. /\ Lower(p) \in Seq(Letters) /\ Lower(w) \in Seq(Letters)
      /\ Len(Lower(p)) = Len(p) /\ Len(Lower(w)) = Len(w)
  BY LowerIs
<1>2. 1 \in 1 .. Len(p) /\ Len(p) \in Nat BY EmptySeq
<1>3. Len(p) <= Len(w) /\ \A i \in 1 .. Len(p) : Lower(p)[i] = Lower(w)[i]
  BY <1>1, PrefixIs
<1>4. 1 \in 1 .. Len(w) /\ w # <<>> BY <1>2, <1>3
<1>5. Lower(p)[1] = LowerCase[p[1]] /\ Lower(w)[1] = LowerCase[w[1]] BY <1>2, <1>4, LowerIs
<1>6. p[1] \in Letters /\ w[1] \in Letters BY <1>2, <1>4
<1>7. LowerCase[w[1]] = LowerCase[p[1]] BY <1>2, <1>3, <1>5
<1> QED BY <1>4, <1>6, <1>7, QueryAssumption

LEMMA BeginsIs ==
  ASSUME NEW words \in Seq(Seq(Letters)), NEW prefix
  PROVE  /\ Begins(words, prefix) \in Seq(Seq(Letters))
         /\ ToSet(Begins(words, prefix)) = {w \in ToSet(words) : IsPrefix(prefix, w)}
         /\ IsInjective(words) => IsInjective(Begins(words, prefix))
<1> DEFINE S == {w \in ToSet(words) : IsPrefix(prefix, w)}
<1>1. /\ Chosen(words, S) \in Seq(Seq(Letters)) /\ ToSet(Chosen(words, S)) = ToSet(words) \cap S
      /\ IsInjective(words) => IsInjective(Chosen(words, S))
  <2> HIDE DEF S
  <2> QED BY ChosenIs
<1>2. ToSet(words) \cap S = S OBVIOUS
<1> QED BY <1>1, <1>2, Zenon DEF Begins

Alike(words, prefix) == {w \in ToSet(words) : IsPrefix(Lower(prefix), Lower(w))}

\* The two readings of a prefix give each word that begins alike, once.
LEMMA TwoReadings ==
  ASSUME NEW words \in Seq(Seq(Letters)), IsInjective(words),
         NEW prefix \in Seq(Letters), prefix # <<>>, isalpha(prefix[1])
  PROVE  LET both == Begins(words, <<UpperCase[prefix[1]]>>) \o Begins(words, <<LowerCase[prefix[1]]>>)
             found == Chosen(both, Alike(words, prefix))
         IN  /\ found \in Seq(Seq(Letters)) /\ ToSet(found) = Alike(words, prefix)
             /\ IsInjective(found)
<1> DEFINE U == UpperCase[prefix[1]]
           L == LowerCase[prefix[1]]
           big == Begins(words, <<U>>)
           small == Begins(words, <<L>>)
           both == big \o small
           A == Alike(words, prefix)
           found == Chosen(both, A)
<1>1. U \in Letters /\ L \in Letters /\ U # L
  <2>1. prefix[1] \in Letters
    <3>1. 1 \in 1 .. Len(prefix) BY EmptySeq
    <3> QED BY <3>1
  <2> QED BY <2>1, QueryAssumption DEF isalpha
<1>2. \A w \in ToSet(words) : w \in Seq(Letters) BY DEF ToSet
<1>3. /\ big \in Seq(Seq(Letters)) /\ small \in Seq(Seq(Letters)) /\ IsInjective(big) /\ IsInjective(small)
      /\ ToSet(big) = {w \in ToSet(words) : IsPrefix(<<U>>, w)}
      /\ ToSet(small) = {w \in ToSet(words) : IsPrefix(<<L>>, w)}
  <2> HIDE DEF U, L
  <2> QED BY BeginsIs
<1> HIDE DEF big, small
<1>4. \A w \in ToSet(words) : /\ w \in ToSet(big) <=> w # <<>> /\ w[1] = U
                              /\ w \in ToSet(small) <=> w # <<>> /\ w[1] = L
  <2> HIDE DEF U, L
  <2> TAKE w \in ToSet(words)
  <2>1. w \in Seq(Letters) BY <1>2
  <2>2. IsPrefix(<<U>>, w) <=> w # <<>> /\ w[1] = U BY <1>1, <2>1, FirstIs
  <2>3. IsPrefix(<<L>>, w) <=> w # <<>> /\ w[1] = L BY <1>1, <2>1, FirstIs
  <2> QED BY <1>3, <2>2, <2>3, Zenon
<1>5. ToSet(big) \cap ToSet(small) = {}
  <2> HIDE DEF U, L
  <2>1. ToSet(big) \subseteq ToSet(words) BY <1>3
  <2> QED BY <1>1, <1>4, <2>1, Zenon
<1>6. /\ both \in Seq(Seq(Letters)) /\ ToSet(both) = ToSet(big) \cup ToSet(small) /\ IsInjective(both)
  <2>1. /\ big \o small \in Seq(Seq(Letters)) /\ ToSet(big \o small) = ToSet(big) \cup ToSet(small)
        /\ IsInjective(big \o small)
    <3> DEFINE T == Seq(Letters)
    <3>1. big \in Seq(T) /\ small \in Seq(T) BY <1>3
    <3> HIDE DEF T
    <3>2. /\ big \o small \in Seq(T) /\ ToSet(big \o small) = ToSet(big) \cup ToSet(small)
          /\ IsInjective(big \o small)
      BY <1>3, <1>5, <3>1, ConcatIs
    <3> QED BY <3>2 DEF T
  <2> QED BY <2>1, Zenon
<1> HIDE DEF both
<1>7. /\ found \in Seq(Seq(Letters)) /\ ToSet(found) = ToSet(both) \cap A /\ IsInjective(found)
  <2> HIDE DEF A
  <2> QED BY <1>6, ChosenIs
<1>8. A \subseteq ToSet(both)
  <2> SUFFICES ASSUME NEW w \in ToSet(words), IsPrefix(Lower(prefix), Lower(w)) PROVE w \in ToSet(both)
    BY DEF Alike
  <2>1. w # <<>> /\ w[1] \in {L, U} BY <1>2, AlikeIs
  <2> HIDE DEF U, L
  <2> QED BY <1>4, <1>6, <2>1
<1>9. ToSet(found) = A
  <2> HIDE DEF A, found
  <2> QED BY <1>7, <1>8
<1> QED BY <1>7, <1>9, Zenon DEF both, big, small

LEMMA AnswersAre ==
  ASSUME world \in Worlds, query \in Queries, NEW tree \in DOMAIN world.gtags
  PROVE  /\ Answers(tree) \in Seq(Seq(Letters)) /\ ToSet(Answers(tree)) = WordsAsked(tree)
         /\ IsInjective(Answers(tree))
<1> DEFINE words == world.gtags[tree]
           p == query.word
<1>1. words \in Seq(Seq(Letters)) /\ IsInjective(words) /\ p \in Seq(Letters)
      /\ query.command \in {"search", "complete"}
  BY QueryAssumption
<1>2. \A w \in ToSet(words) : w \in Seq(Letters) BY <1>1 DEF ToSet
<1>3. CASE query.command = "search"
  <2> DEFINE seen == {p} \cap InSight
  <2>1. Answers(tree) = Chosen(words, seen) BY <1>3 DEF Answers
  <2>2. WordsAsked(tree) = ToSet(words) \cap seen BY <1>3, Zenon DEF WordsAsked, InSight
  <2> HIDE DEF words, p, seen
  <2>3. /\ Chosen(words, seen) \in Seq(Seq(Letters)) /\ ToSet(Chosen(words, seen)) = ToSet(words) \cap seen
        /\ IsInjective(Chosen(words, seen))
    BY <1>1, ChosenIs
  <2> QED BY <2>1, <2>2, <2>3, Zenon
<1>4. CASE query.command = "complete"
  <2>1. Answers(tree) = completion_tags(words, p) /\ query.command # "search" BY <1>4 DEF Answers
  <2>2. CASE p # <<>> /\ isalpha(p[1]) /\ "i" \in query.options
    <3>1. WordsAsked(tree) = Alike(words, p)
      BY <2>1, <2>2, Zenon DEF WordsAsked, Alike
    <3> DEFINE found == Chosen(Begins(words, <<UpperCase[p[1]]>>) \o Begins(words, <<LowerCase[p[1]]>>),
                               Alike(words, p))
    <3>2. completion_tags(words, p) = found BY <2>2, Zenon DEF completion_tags, Alike
    <3>3. found \in Seq(Seq(Letters)) /\ ToSet(found) = Alike(words, p) /\ IsInjective(found)
      <4> HIDE DEF words, p
      <4> QED BY <1>1, <2>2, TwoReadings
    <3> HIDE DEF words, p, found
    <3> QED BY <2>1, <3>1, <3>2, <3>3, Zenon
  <2>3. CASE ~ (p # <<>> /\ isalpha(p[1]) /\ "i" \in query.options)
    <3>1. completion_tags(words, p) = Begins(words, p) BY <2>3, Zenon DEF completion_tags
    <3>2. /\ Begins(words, p) \in Seq(Seq(Letters)) /\ IsInjective(Begins(words, p))
          /\ ToSet(Begins(words, p)) = {w \in ToSet(words) : IsPrefix(p, w)}
      <4> HIDE DEF words, p
      <4> QED BY <1>1, BeginsIs
    <3>3. ASSUME NEW w \in ToSet(words), p = <<>> PROVE IsPrefix(p, w) /\ IsPrefix(Lower(p), Lower(w))
      <4>1. w \in Seq(Letters) /\ Lower(p) \in Seq(Letters) /\ Lower(w) \in Seq(Letters)
            /\ Len(p) = 0 /\ Len(Lower(p)) = 0 /\ Len(w) \in Nat /\ Len(Lower(w)) \in Nat
        <5>1. w \in Seq(Letters) BY <1>2
        <5>2. p \in Seq(Letters) /\ Len(p) = 0 BY <1>1, <3>3
        <5> HIDE DEF p, words
        <5>3. Lower(p) \in Seq(Letters) /\ Len(Lower(p)) = 0 BY <5>2, LowerIs
        <5>4. Lower(w) \in Seq(Letters) BY <5>1, LowerIs
        <5> QED BY <5>1, <5>2, <5>3, <5>4
      <4> HIDE DEF p, words
      <4>2. 1 .. 0 = {} /\ 0 <= Len(w) /\ 0 <= Len(Lower(w)) BY <4>1
      <4>3. IsPrefix(p, w) BY <1>1, <4>1, <4>2, PrefixIs
      <4>4. IsPrefix(Lower(p), Lower(w)) BY <4>1, <4>2, PrefixIs
      <4> QED BY <4>3, <4>4
    <3>4. WordsAsked(tree) = {w \in ToSet(words) : IsPrefix(p, w)}
      <4>1. CASE "i" \in query.options /\ (p = <<>> \/ isalpha(p[1]))
        <5>1. p = <<>> BY <2>3, <4>1
        <5>2. WordsAsked(tree) = {w \in ToSet(words) : IsPrefix(Lower(p), Lower(w))}
          BY <2>1, <4>1, Zenon DEF WordsAsked
        <5> HIDE DEF words, p
        <5> QED BY <3>3, <5>1, <5>2, Zenon
      <4>2. CASE ~ ("i" \in query.options /\ (p = <<>> \/ isalpha(p[1])))
        BY <2>1, <4>2, Zenon DEF WordsAsked
      <4> QED BY <4>1, <4>2
    <3> HIDE DEF words, p
    <3> QED BY <2>1, <3>1, <3>2, <3>4, Zenon
  <2> QED BY <2>2, <2>3
<1> QED BY <1>1, <1>3, <1>4

----------------------------------------------------------------------------
(* The order in which databases answer.                                    *)

Yields(tree) == WordsAsked(tree) # {}
EveryTree == "T" \in query.options
Tried(k) == {i \in Library : i <= k}
Able(k) == {tree \in {dbpath} \cup {LibraryDb(i) : i \in Tried(k)} : Yields(tree)}
Distinct == \A i, j \in Library : LibraryDb(i) = LibraryDb(j) => i = j
NoneBefore(n) == \A i \in Library : i < n => ~ Yields(LibraryDb(i))

\* The databases that have answered once k trees of the library were looked at.
InOrder(from, k) ==
  /\ ToSet(from) \subseteq Able(k)
  /\ EveryTree => ToSet(from) = Able(k)
  /\ ~ EveryTree /\ Able(k) # {} => Len(from) = 1
  /\ dbpath \in Able(k) => from[1] = dbpath
  /\ ~ EveryTree /\ from # <<>> /\ from[1] # dbpath =>
       \E n \in Tried(k) : from[1] = LibraryDb(n) /\ NoneBefore(n)
  /\ Distinct => IsInjective(from)

LEMMA LibraryIs ==
  ASSUME world \in Worlds
  PROVE  /\ world.env.GTAGSLIBPATH \in Seq(Seq(STRING))
         /\ Library \subseteq 1 .. Len(world.env.GTAGSLIBPATH)
         /\ \A i \in Library : i \in Nat /\ LibraryDb(i) # Nowhere
<1>1. world.env.GTAGSLIBPATH \in Seq(Seq(STRING)) BY QueryAssumption
<1> DEFINE lib == world.env.GTAGSLIBPATH
<1>2. DOMAIN lib = 1 .. Len(lib) /\ Len(lib) \in Nat BY <1>1
<1>3. \A i \in Library : i \in DOMAIN lib /\ LibraryDb(i) # Nowhere BY Zenon DEF Library
<1> HIDE DEF lib
<1>4. Library \subseteq 1 .. Len(lib) /\ \A i \in Library : i \in Nat BY <1>2, <1>3
<1> QED BY <1>1, <1>3, <1>4 DEF lib

\* Nothing but the project was asked.
LEMMA OrderBegins ==
  ASSUME world \in Worlds
  PROVE  /\ ~ Yields(dbpath) => InOrder(<<>>, 0)
         /\ Yields(dbpath) => InOrder(<<dbpath>>, 0)
<1>1. Tried(0) = {}
  <2>1. \A i \in Library : i \in 1 .. Len(world.env.GTAGSLIBPATH) /\ Len(world.env.GTAGSLIBPATH) \in Nat
    BY LibraryIs
  <2>2. \A i \in Library : ~ (i <= 0) BY <2>1
  <2> QED BY <2>2, Zenon DEF Tried
<1>2. Able(0) = {tree \in {dbpath} : Yields(tree)} BY <1>1, Zenon DEF Able
<1>3. ToSet(<<>>) = {} /\ IsInjective(<<>>) BY DEF ToSet, IsInjective
<1>4. ASSUME ~ Yields(dbpath) PROVE InOrder(<<>>, 0)
  <2>1. Able(0) = {} BY <1>2, <1>4, Zenon
  <2> QED BY <1>3, <2>1, Zenon DEF InOrder
<1>5. ASSUME Yields(dbpath) PROVE InOrder(<<dbpath>>, 0)
  <2> DEFINE f == <<dbpath>>
  <2>1. Able(0) = {dbpath} BY <1>2, <1>5, Zenon
  <2>2. Len(f) = 1 /\ f[1] = dbpath /\ DOMAIN f = {1} OBVIOUS
  <2> HIDE DEF f
  <2>3. ToSet(f) = {dbpath} /\ IsInjective(f) BY <2>2 DEF ToSet, IsInjective
  <2>4. InOrder(f, 0) BY <2>1, <2>2, <2>3, Zenon DEF InOrder
  <2> QED BY <2>4 DEF f
<1> QED BY <1>4, <1>5

\* A tree that has no tag files, those of the project, or no answer.
LEMMA OrderSkips ==
  ASSUME world \in Worlds, NEW k \in Nat, NEW from, InOrder(from, k),
         \/ k + 1 \notin Library
         \/ LibraryDb(k + 1) = dbpath
         \/ ~ Yields(LibraryDb(k + 1))
  PROVE  InOrder(from, k + 1)
<1>1. Tried(k) \subseteq Tried(k + 1) /\ \A i \in Tried(k + 1) : i \in Tried(k) \/ i = k + 1
  <2>1. \A i \in Library : i \in Nat BY LibraryIs
  <2>2. \A i \in Nat : (i <= k => i <= k + 1) /\ (i <= k + 1 => i <= k \/ i = k + 1) OBVIOUS
  <2> QED BY <2>1, <2>2, Zenon DEF Tried
<1>2. Able(k + 1) = Able(k)
  <2>1. Able(k) \subseteq Able(k + 1) BY <1>1, Zenon DEF Able
  <2>2. ASSUME NEW tree \in Able(k + 1) PROVE tree \in Able(k)
    <3>1. Yields(tree) /\ (tree = dbpath \/ \E i \in Tried(k + 1) : tree = LibraryDb(i)) BY <2>2, Zenon DEF Able
    <3>2. CASE tree = dbpath BY <3>1, <3>2, Zenon DEF Able
    <3>3. CASE \E i \in Tried(k + 1) : tree = LibraryDb(i)
      <4>1. PICK i \in Tried(k + 1) : tree = LibraryDb(i) BY <3>3
      <4>2. CASE i \in Tried(k) BY <3>1, <4>1, <4>2, Zenon DEF Able
      <4>3. CASE i = k + 1
        <5>1. i \in Library BY Zenon DEF Tried
        <5>2. tree = dbpath BY <3>1, <4>1, <4>3, <5>1
        <5> QED BY <3>1, <5>2, Zenon DEF Able
      <4> QED BY <1>1, <4>2, <4>3, Zenon
    <3> QED BY <3>1, <3>2, <3>3
  <2> QED BY <2>1, <2>2
<1> QED BY <1>1, <1>2, Zenon DEF InOrder

\* One that answers.
LEMMA OrderTakes ==
  ASSUME world \in Worlds, NEW k \in Nat, NEW D, NEW from \in Seq(D), InOrder(from, k),
         k + 1 \in Library, LibraryDb(k + 1) \in D, LibraryDb(k + 1) # dbpath, Yields(LibraryDb(k + 1)),
         EveryTree \/ from = <<>>
  PROVE  InOrder(Append(from, LibraryDb(k + 1)), k + 1)
<1> DEFINE tree == LibraryDb(k + 1)
           now == Append(from, tree)
<1>1. /\ Tried(k) \subseteq Tried(k + 1) /\ k + 1 \in Tried(k + 1)
      /\ \A i \in Tried(k + 1) : i \in Tried(k) \/ i = k + 1
      /\ \A i \in Tried(k) : i # k + 1 /\ i \in Library
      /\ \A i \in Library : i < k + 1 => i \in Tried(k)
  <2>1. \A i \in Library : i \in Nat BY LibraryIs
  <2>2. /\ \A i \in Nat : (i <= k => i <= k + 1 /\ i # k + 1) /\ (i <= k + 1 => i <= k \/ i = k + 1)
        /\ \A i \in Nat : i < k + 1 => i <= k
        /\ k + 1 <= k + 1
    OBVIOUS
  <2> QED BY <2>1, <2>2, Zenon DEF Tried
<1>2. Able(k + 1) = Able(k) \cup {tree}
  <2>1. Able(k) \subseteq Able(k + 1) BY <1>1, Zenon DEF Able
  <2>2. tree \in Able(k + 1) BY <1>1, Zenon DEF Able
  <2>3. Able(k + 1) \subseteq Able(k) \cup {tree} BY <1>1, Zenon DEF Able
  <2> HIDE DEF tree
  <2> QED BY <2>1, <2>2, <2>3
<1>3. dbpath \in Able(k + 1) => dbpath \in Able(k)
  <2>1. dbpath # tree OBVIOUS
  <2> HIDE DEF tree
  <2> QED BY <1>2, <2>1
<1>4. /\ now \in Seq(D) /\ ToSet(now) = ToSet(from) \cup {tree} /\ Len(now) = Len(from) + 1 /\ now # <<>>
      /\ \A i \in 1 .. Len(from) : now[i] = from[i]
      /\ now[Len(from) + 1] = tree
      /\ IsInjective(from) /\ tree \notin ToSet(from) => IsInjective(now)
  <2> HIDE DEF tree
  <2> QED BY AppendIs DEF tree
<1> HIDE DEF tree, now
<1>5. ToSet(now) \subseteq Able(k + 1) /\ (EveryTree => ToSet(now) = Able(k + 1))
  BY <1>2, <1>4, Zenon DEF InOrder
<1>6. Distinct => IsInjective(now)
  <2> SUFFICES ASSUME Distinct PROVE tree \notin ToSet(from) BY <1>4, Zenon DEF InOrder
  <2>1. SUFFICES ASSUME tree \in Able(k) PROVE FALSE BY Zenon DEF InOrder
  <2>2. PICK i \in Tried(k) : tree = LibraryDb(i) BY <2>1, Zenon DEF Able, tree
  <2> QED BY <1>1, <2>2, Zenon DEF Distinct, tree
<1>7. CASE EveryTree
  <2>1. dbpath \in Able(k + 1) => now[1] = dbpath
    <3> SUFFICES ASSUME dbpath \in Able(k) PROVE now[1] = dbpath BY <1>3
    <3>1. from[1] = dbpath /\ dbpath \in ToSet(from) BY <1>7, Zenon DEF InOrder
    <3>2. 1 \in 1 .. Len(from) BY <3>1 DEF ToSet
    <3> QED BY <1>4, <3>1, <3>2
  <2>2. InOrder(now, k + 1) BY <1>5, <1>6, <1>7, <2>1, Zenon DEF InOrder
  <2> QED BY <2>2 DEF now, tree
<1>8. CASE ~ EveryTree
  <2>1. from = <<>> /\ Len(from) = 0 BY <1>8
  <2>2. Able(k) = {} BY <1>8, <2>1 DEF InOrder
  <2>3. Len(now) = 1 /\ now[1] = tree BY <1>4, <2>1
  <2>4. NoneBefore(k + 1)
    <3> SUFFICES ASSUME NEW i \in Library, i < k + 1 PROVE ~ Yields(LibraryDb(i)) BY Zenon DEF NoneBefore
    <3>1. i \in Tried(k) BY <1>1
    <3> QED BY <2>2, <3>1, Zenon DEF Able
  <2>5. ~ (dbpath \in Able(k + 1)) BY <1>3, <2>2
  <2>6. \E n \in Tried(k + 1) : now[1] = LibraryDb(n) /\ NoneBefore(n) BY <1>1, <2>3, <2>4, Zenon DEF tree
  <2>7. InOrder(now, k + 1) BY <1>5, <1>6, <1>8, <2>3, <2>5, <2>6, Zenon DEF InOrder
  <2> QED BY <2>7 DEF now, tree
<1> QED BY <1>7, <1>8

\* Once one has answered alone, the others are not looked at.
LEMMA OrderAlone ==
  ASSUME world \in Worlds, NEW k \in Nat, NEW n \in Nat, k <= n, NEW D, NEW from \in Seq(D), InOrder(from, k),
         Library = {} \/ (~ EveryTree /\ from # <<>>)
  PROVE  InOrder(from, n)
<1>1. Tried(k) \subseteq Tried(n)
  <2>1. \A i \in Library : i \in Nat BY LibraryIs
  <2>2. \A i \in Nat : i <= k => i <= n OBVIOUS
  <2> QED BY <2>1, <2>2, Zenon DEF Tried
<1>2. Able(k) \subseteq Able(n) /\ (dbpath \in Able(n) => dbpath \in Able(k)) BY <1>1, Zenon DEF Able
<1>3. CASE Library = {}
  <2>1. Tried(k) = {} /\ Tried(n) = {} BY <1>3, Zenon DEF Tried
  <2>2. Able(k) = Able(n) BY <2>1, Zenon DEF Able
  <2> QED BY <2>1, <2>2, Zenon DEF InOrder
<1>4. CASE ~ EveryTree /\ from # <<>>
  <2>1. 1 \in DOMAIN from BY <1>4
  <2>2. from[1] \in ToSet(from) BY <2>1, Zenon DEF ToSet
  <2>3. Able(k) # {} BY <2>2, Zenon DEF InOrder
  <2>4. Len(from) = 1 BY <1>4, <2>3, Zenon DEF InOrder
  <2>5. ToSet(from) \subseteq Able(n) BY <1>2, Zenon DEF InOrder
  <2> QED BY <1>1, <1>2, <1>4, <2>4, <2>5, Zenon DEF InOrder
<1> QED BY <1>3, <1>4

----------------------------------------------------------------------------
(* The state of a query.                                                   *)

Free == world.env.GTAGSROOT = Unset
NoneBelow(n) == \A m \in n + 1 .. Len(world.cwd) : TreeDb(m) = Nowhere
Nearest(tree) == \E n \in 0 .. Len(world.cwd) : tree = TreeDb(n) /\ tree # Nowhere /\ NoneBelow(n)
Reply(tree) == [db |-> tree, words |-> Answers(tree)]
Replies == {Reply(d) : d \in {d \in DOMAIN world.gtags : Yields(d)}}
Sources(s) == [i \in DOMAIN s |-> s[i].db]
Left(k) == SubSeq(world.env.GTAGSLIBPATH, k + 1, Len(world.env.GTAGSLIBPATH))
AskedToo == query.db = "GTAGS" /\ "l" \notin query.options

Climbing(s) == s = "up"
Settled(s) == s \in {"rootfile", "search", "library", "end"}
Asking(s) == s \in {"library", "end"}
Lost(s) == s = "GTAGS not found"
Over(s) == s = "end"

\* k trees of the library were looked at.
Looked(k) ==
  /\ libs = Left(k) /\ InOrder(Sources(answers), k)
  /\ libs # <<>> => AskedToo /\ (EveryTree \/ answers = <<>>)

QueryInv ==
  /\ world \in Worlds /\ query \in Queries /\ answers \in Seq(Replies)
  /\ Climbing(stage) =>
       /\ Free
       /\ \E n \in 0 .. Len(world.cwd) : root = SubSeq(world.cwd, 1, n) /\ NoneBelow(n)
  /\ Settled(stage) /\ Free => Nearest(dbpath)
  /\ Lost(stage) /\ Free => \A m \in 0 .. Len(world.cwd) : TreeDb(m) = Nowhere
  /\ ~ Asking(stage) => answers = <<>>
  /\ Asking(stage) =>
       /\ dbpath \in DOMAIN world.gtags
       /\ \E k \in 0 .. Len(world.env.GTAGSLIBPATH) : Looked(k)
  /\ Over(stage) => libs = <<>>

LEMMA StagesAre ==
  /\ Climbing("up") /\ ~ Settled("up") /\ ~ Asking("up") /\ ~ Lost("up") /\ ~ Over("up")
  /\ ~ Climbing("setupdbpath") /\ ~ Settled("setupdbpath") /\ ~ Asking("setupdbpath")
  /\ ~ Lost("setupdbpath") /\ ~ Over("setupdbpath")
  /\ ~ Climbing("rootfile") /\ Settled("rootfile") /\ ~ Asking("rootfile") /\ ~ Lost("rootfile") /\ ~ Over("rootfile")
  /\ ~ Climbing("search") /\ Settled("search") /\ ~ Asking("search") /\ ~ Lost("search") /\ ~ Over("search")
  /\ ~ Climbing("library") /\ Settled("library") /\ Asking("library") /\ ~ Lost("library") /\ ~ Over("library")
  /\ ~ Climbing("end") /\ Settled("end") /\ Asking("end") /\ ~ Lost("end") /\ Over("end")
  /\ \A s \in {"bad path", "NULL copied", "died"} :
       ~ Climbing(s) /\ ~ Settled(s) /\ ~ Asking(s) /\ ~ Lost(s) /\ ~ Over(s)
  /\ ~ Climbing("GTAGS not found") /\ ~ Settled("GTAGS not found") /\ ~ Asking("GTAGS not found")
  /\ Lost("GTAGS not found") /\ ~ Over("GTAGS not found")
BY DEF Climbing, Settled, Asking, Lost, Over

LEMMA gtagsexistIs ==
  ASSUME NEW c, gtagsexist(c) # Nowhere
  PROVE  gtagsexist(c) \in DOMAIN world.gtags
<1> DEFINE p == ObjPlaces(c)
           hits == {i \in DOMAIN p : HasGTAGS(p[i])}
<1>1. hits # {} /\ gtagsexist(c) = p[Min(hits)] BY Zenon DEF gtagsexist
<1>2. DOMAIN p \subseteq Nat BY DEF ObjPlaces
<1>3. hits \subseteq Nat BY <1>2
<1>4. Min(hits) \in hits
  <2> HIDE DEF hits
  <2> QED BY <1>1, <1>3, LeastIs
<1> QED BY <1>1, <1>4, Zenon DEF HasGTAGS

LEMMA YieldsIs ==
  ASSUME world \in Worlds, query \in Queries, NEW tree \in DOMAIN world.gtags
  PROVE  Yields(tree) <=> Answers(tree) # <<>>
<1> DEFINE a == Answers(tree)
<1>1. a \in Seq(Seq(Letters)) /\ ToSet(a) = WordsAsked(tree) BY AnswersAre
<1> HIDE DEF a
<1>2. ToSet(a) # {} <=> a # <<>>
  <2>1. ASSUME a # <<>> PROVE ToSet(a) # {}
    <3>1. 1 \in DOMAIN a BY <1>1, <2>1
    <3> QED BY <3>1, Zenon DEF ToSet
  <2>2. ASSUME a = <<>> PROVE ToSet(a) = {} BY <2>2 DEF ToSet
  <2> QED BY <2>1, <2>2
<1> QED BY <1>1, <1>2, Zenon DEF Yields, a

LEMMA RepliesAre ==
  ASSUME NEW s \in Seq(Replies)
  PROVE  /\ Sources(s) \in Seq(DOMAIN world.gtags) /\ Len(Sources(s)) = Len(s)
         /\ s = <<>> <=> Sources(s) = <<>>
         /\ \A d \in DOMAIN world.gtags : Yields(d) =>
              /\ Append(s, Reply(d)) \in Seq(Replies)
              /\ Sources(Append(s, Reply(d))) = Append(Sources(s), d)
<1> DEFINE D == DOMAIN world.gtags
           n == Len(s)
           f == Sources(s)
<1>1. n \in Nat /\ DOMAIN s = 1 .. n /\ \A i \in 1 .. n : s[i] \in Replies OBVIOUS
<1>2. \A r \in Replies : r.db \in D /\ Yields(r.db) /\ r = Reply(r.db)
  BY DEF Replies, Reply
<1> HIDE DEF D, n
<1>3. f = [i \in 1 .. n |-> s[i].db] BY <1>1 DEF Sources
<1>4. f \in Seq(D) /\ Len(f) = n BY <1>1, <1>2, <1>3
<1> HIDE DEF f
<1>5. s = <<>> <=> f = <<>>
  <2>1. s = <<>> <=> n = 0 BY <1>1, EmptySeq DEF n
  <2>2. f = <<>> <=> n = 0 BY <1>4, EmptySeq
  <2> QED BY <2>1, <2>2
<1>6. ASSUME NEW d \in D, Yields(d)
      PROVE  Append(s, Reply(d)) \in Seq(Replies) /\ Sources(Append(s, Reply(d))) = Append(f, d)
  <2> DEFINE r == Reply(d)
             t == Append(s, r)
  <2>1. r \in Replies /\ r.db = d BY <1>6 DEF Replies, Reply, D
  <2> HIDE DEF r
  <2>2. /\ t \in Seq(Replies) /\ Len(t) = n + 1 /\ t[n + 1] = r
        /\ \A i \in 1 .. n : t[i] = s[i]
    BY <2>1 DEF n
  <2> HIDE DEF t
  <2>3. DOMAIN t = 1 .. n + 1 BY <1>1, <2>2
  <2> DEFINE g == Sources(t)
             h == Append(f, d)
  <2>4. g = [i \in 1 .. n + 1 |-> t[i].db] BY <2>3 DEF Sources
  <2>5. h \in Seq(D) /\ Len(h) = n + 1 /\ h[n + 1] = d /\ \A i \in 1 .. n : h[i] = f[i]
    BY <1>4
  <2> HIDE DEF g, h
  <2>6. \A i \in 1 .. n + 1 : i \in 1 .. n \/ i = n + 1 BY <1>1
  <2>7. \A i \in 1 .. n : f[i] = s[i].db BY <1>3
  <2>8. \A i \in 1 .. n + 1 : t[i].db = h[i]
    <3> TAKE i \in 1 .. n + 1
    <3>1. CASE i \in 1 .. n BY <2>2, <2>5, <2>7, <3>1, Zenon
    <3>2. CASE i = n + 1 BY <2>1, <2>2, <2>5, <3>2, Zenon
    <3> QED BY <2>6, <3>1, <3>2
  <2>9. DOMAIN h = 1 .. n + 1 BY <1>1, <2>5
  <2>10. h = [i \in 1 .. n + 1 |-> h[i]] BY <1>1, <2>5, <2>9
  <2>11. g = h BY <2>4, <2>8, <2>10
  <2> QED BY <2>2, <2>11, Zenon DEF g, h, t, r
<1> QED BY <1>4, <1>5, <1>6, Zenon DEF f, D, n

----------------------------------------------------------------------------
(* What the user asked does not change.                                    *)

LEMMA SameQuestion ==
  ASSUME world' = world, query' = query
  PROVE  /\ Free' = Free /\ AskedToo' = AskedToo /\ EveryTree' = EveryTree /\ Library' = Library
         /\ Replies' = Replies /\ Distinct' = Distinct
<1>1. ASSUME NEW tree PROVE Answers(tree)' = Answers(tree) /\ Yields(tree)' = Yields(tree)
  BY Zenon DEF Answers, InSight, completion_tags, Yields, WordsAsked
<1>2. ASSUME NEW c PROVE gtagsexist(c)' = gtagsexist(c) BY DEF gtagsexist, HasGTAGS
<1>3. Library' = Library BY <1>2 DEF Library, LibraryDb
<1>4. Replies' = Replies BY <1>1, Zenon DEF Replies, Reply
<1>5. Distinct' = Distinct BY <1>2, <1>3, Zenon DEF Distinct, LibraryDb
<1> QED BY <1>3, <1>4, <1>5 DEF Free, AskedToo, EveryTree

LEMMA SameTrees ==
  ASSUME world' = world, query' = query
  PROVE  /\ \A n : NoneBelow(n)' <=> NoneBelow(n)
         /\ \A tree : Nearest(tree)' <=> Nearest(tree)
         /\ \A n : TreeDb(n)' = TreeDb(n)
<1>1. ASSUME NEW c PROVE gtagsexist(c)' = gtagsexist(c) BY DEF gtagsexist, HasGTAGS
<1>2. ASSUME NEW n PROVE TreeDb(n)' = TreeDb(n) BY <1>1, Zenon DEF TreeDb
<1>3. ASSUME NEW n PROVE NoneBelow(n)' <=> NoneBelow(n) BY <1>2, Zenon DEF NoneBelow
<1>4. ASSUME NEW tree PROVE Nearest(tree)' <=> Nearest(tree)
  BY <1>2, <1>3, Zenon DEF Nearest
<1> QED BY <1>2, <1>3, <1>4, Zenon

LEMMA SameOrder ==
  ASSUME world' = world, query' = query, dbpath' = dbpath, NEW from, NEW k
  PROVE  InOrder(from, k)' <=> InOrder(from, k)
<1>1. ASSUME NEW tree PROVE Yields(tree)' = Yields(tree) BY Zenon DEF Yields, WordsAsked
<1>2. ASSUME NEW i PROVE LibraryDb(i)' = LibraryDb(i) BY DEF LibraryDb, gtagsexist, HasGTAGS
<1>3. Library' = Library /\ EveryTree' = EveryTree /\ Distinct' = Distinct BY SameQuestion
<1>4. Tried(k)' = Tried(k) BY <1>3, Zenon DEF Tried
<1>5. Able(k)' = Able(k) BY <1>1, <1>2, <1>4, Zenon DEF Able
<1>6. ASSUME NEW n PROVE NoneBefore(n)' <=> NoneBefore(n) BY <1>1, <1>2, <1>3, Zenon DEF NoneBefore
<1> QED BY <1>2, <1>3, <1>4, <1>5, <1>6, Zenon DEF InOrder

\* What a step must show of the state it leads to.
LEMMA QueryInvNext ==
  ASSUME QueryInv, world' = world, query' = query, answers' \in Seq(Replies),
         Climbing(stage') => Free /\ \E n \in 0 .. Len(world.cwd) :
                                        root' = SubSeq(world.cwd, 1, n) /\ NoneBelow(n),
         Settled(stage') /\ Free => Nearest(dbpath'),
         Lost(stage') /\ Free => \A m \in 0 .. Len(world.cwd) : TreeDb(m) = Nowhere,
         ~ Asking(stage') => answers' = <<>>,
         Asking(stage') =>
           /\ dbpath' = dbpath /\ dbpath \in DOMAIN world.gtags
           /\ \E k \in 0 .. Len(world.env.GTAGSLIBPATH) :
                /\ libs' = Left(k) /\ InOrder(Sources(answers'), k)
                /\ libs' # <<>> => AskedToo /\ (EveryTree \/ answers' = <<>>),
         Over(stage') => libs' = <<>>
  PROVE  QueryInv'
<1>1. /\ Free' = Free /\ AskedToo' = AskedToo /\ EveryTree' = EveryTree /\ Replies' = Replies
  BY SameQuestion
<1>2. /\ \A n : NoneBelow(n)' <=> NoneBelow(n)
      /\ \A n : TreeDb(n)' = TreeDb(n)
  BY SameTrees
<1>3. \A k : Left(k)' = Left(k) BY Zenon DEF Left
<1>4. (world \in Worlds /\ query \in Queries /\ answers \in Seq(Replies))'
  BY <1>1, Zenon DEF QueryInv
<1>5. (Climbing(stage) => Free /\ \E n \in 0 .. Len(world.cwd) : root = SubSeq(world.cwd, 1, n) /\ NoneBelow(n))'
  BY <1>1, <1>2, Zenon DEF Climbing
<1>6. (Settled(stage) /\ Free => Nearest(dbpath))'
  <2>1. PICK d : d = dbpath' BY Zenon
  <2>2. Nearest(d)' <=> Nearest(d) BY SameTrees, Zenon
  <2>3. Nearest(dbpath)' <=> Nearest(d)' BY <2>1, Zenon DEF Nearest
  <2>4. Settled(stage)' <=> Settled(stage') BY Zenon DEF Settled
  <2> QED BY <1>1, <2>1, <2>2, <2>3, <2>4, Zenon
<1>7. (Lost(stage) /\ Free => \A m \in 0 .. Len(world.cwd) : TreeDb(m) = Nowhere)'
  BY <1>1, <1>2, Zenon DEF Lost
<1>8. (~ Asking(stage) => answers = <<>>)' BY Zenon DEF Asking
<1>9. (Asking(stage) => /\ dbpath \in DOMAIN world.gtags
                        /\ \E k \in 0 .. Len(world.env.GTAGSLIBPATH) : Looked(k))'
  <2> SUFFICES ASSUME Asking(stage)'
               PROVE  (/\ dbpath \in DOMAIN world.gtags
                       /\ \E k \in 0 .. Len(world.env.GTAGSLIBPATH) : Looked(k))'
    BY Zenon
  <2>1. Asking(stage') BY Zenon DEF Asking
  <2>2. PICK k \in 0 .. Len(world.env.GTAGSLIBPATH) :
          /\ libs' = Left(k) /\ InOrder(Sources(answers'), k)
          /\ libs' # <<>> => AskedToo /\ (EveryTree \/ answers' = <<>>)
    BY <2>1, Zenon
  <2>3. PICK f : f = Sources(answers') BY Zenon
  <2>4. InOrder(f, k)' <=> InOrder(f, k) BY <2>1, SameOrder, Zenon
  <2>5. InOrder(Sources(answers), k)' <=> InOrder(f, k)'
    <3>1. (Sources(answers))' = f BY <2>3, Zenon DEF Sources
    <3> QED BY <3>1, Zenon DEF InOrder
  <2>6. Looked(k)' BY <1>1, <1>3, <2>2, <2>3, <2>4, <2>5, Zenon DEF Looked
  <2> QED BY <2>1, <2>2, <2>6, Zenon
<1>10. (Over(stage) => libs = <<>>)' BY Zenon DEF Over
<1> QED BY <1>4, <1>5, <1>6, <1>7, <1>8, <1>9, <1>10, Zenon DEF QueryInv

----------------------------------------------------------------------------
(* Each step keeps it.                                                     *)

LEMMA FromEnvironmentKeeps == QueryInv /\ FromEnvironment => QueryInv'
<1> SUFFICES ASSUME QueryInv, FromEnvironment PROVE QueryInv' OBVIOUS
<1>1. /\ world' = world /\ query' = query /\ answers' = answers /\ ~ Free
      /\ stage = "setupdbpath"
  BY DEF FromEnvironment, Free
<1>2. stage' = "bad path" \/ stage' = "GTAGS not found" \/ stage' = "search" BY DEF FromEnvironment
<1>3. ~ Climbing(stage') /\ ~ Asking(stage') /\ ~ Over(stage') BY <1>2, StagesAre
<1>4. ~ Asking(stage) BY <1>1, StagesAre
<1>5. answers' = <<>> /\ answers' \in Seq(Replies) BY <1>1, <1>4, Zenon DEF QueryInv
<1> QED BY <1>1, <1>3, <1>5, QueryInvNext, Zenon

LEMMA CwdIs ==
  ASSUME world \in Worlds
  PROVE  /\ world.cwd \in Seq(STRING) /\ Len(world.cwd) \in Nat
         /\ SubSeq(world.cwd, 1, Len(world.cwd)) = world.cwd
         /\ \A n \in 0 .. Len(world.cwd) :
              /\ Len(SubSeq(world.cwd, 1, n)) = n
              /\ n # 0 => n - 1 \in 0 .. Len(world.cwd) /\ Front(SubSeq(world.cwd, 1, n)) = SubSeq(world.cwd, 1, n - 1)
<1>1. world.cwd \in Seq(STRING) BY QueryAssumption
<1> DEFINE c == world.cwd
           N == Len(c)
<1> HIDE DEF c
<1>2. c \in Seq(STRING) BY <1>1 DEF c
<1>3. N \in Nat /\ SubSeq(c, 1, N) = c BY <1>2
<1> HIDE DEF N
<1>4. ASSUME NEW n \in 0 .. N
      PROVE  /\ SubSeq(c, 1, n) \in Seq(STRING) /\ Len(SubSeq(c, 1, n)) = n
             /\ \A i \in 1 .. n : SubSeq(c, 1, n)[i] = c[i]
  <2>1. n \in Nat /\ n - 1 + 1 = n /\ (~ (1 <= n) => n = 0) /\ \A i \in 1 .. n : 1 + i - 1 = i BY <1>3
  <2>2. \A i \in 1 .. n : c[i] \in STRING BY <1>2, <1>3 DEF N
  <2>3. /\ SubSeq(c, 1, n) \in Seq(STRING)
        /\ Len(SubSeq(c, 1, n)) = (IF 1 <= n THEN n - 1 + 1 ELSE 0)
        /\ \A i \in 1 .. n - 1 + 1 : SubSeq(c, 1, n)[i] = c[1 + i - 1]
    BY <2>1, <2>2, SubSeqProperties
  <2> DEFINE t == SubSeq(c, 1, n)
  <2> HIDE DEF t
  <2>4. t \in Seq(STRING) /\ Len(t) = n /\ \A i \in 1 .. n : t[i] = c[i] BY <2>1, <2>3 DEF t
  <2> QED BY <2>4 DEF t
<1>5. ASSUME NEW n \in 0 .. N, n # 0
      PROVE  n - 1 \in 0 .. N /\ Front(SubSeq(c, 1, n)) = SubSeq(c, 1, n - 1)
  <2>1. n - 1 \in 0 .. N /\ n \in 1 .. N BY <1>3, <1>5
  <2> DEFINE t == SubSeq(c, 1, n)
             u == SubSeq(c, 1, n - 1)
             v == SubSeq(t, 1, n - 1)
  <2>2. /\ t \in Seq(STRING) /\ Len(t) = n /\ \A i \in 1 .. n : t[i] = c[i] BY <1>4
  <2>3. /\ u \in Seq(STRING) /\ Len(u) = n - 1 /\ \A i \in 1 .. n - 1 : u[i] = c[i] BY <1>4, <2>1
  <2> HIDE DEF t, u
  <2>4. v \in Seq(STRING) /\ Len(v) = n - 1 /\ \A i \in 1 .. n - 1 : v[i] = t[i]
    <3> DEFINE m == n - 1
    <3>1. m \in Nat /\ m <= n /\ m - 1 + 1 = m /\ (~ (1 <= m) => m = 0)
          /\ \A i \in 1 .. m : 1 + i - 1 = i /\ i \in 1 .. n
      BY <2>1
    <3> HIDE DEF m
    <3>2. \A i \in 1 .. m : t[i] \in STRING BY <2>2, <3>1
    <3>3. /\ SubSeq(t, 1, m) \in Seq(STRING)
          /\ Len(SubSeq(t, 1, m)) = (IF 1 <= m THEN m - 1 + 1 ELSE 0)
          /\ \A i \in 1 .. m - 1 + 1 : SubSeq(t, 1, m)[i] = t[1 + i - 1]
      BY <3>1, <3>2, SubSeqProperties
    <3> DEFINE w == SubSeq(t, 1, m)
    <3> HIDE DEF w
    <3>4. w \in Seq(STRING) /\ Len(w) = m /\ \A i \in 1 .. m : w[i] = t[i] BY <3>1, <3>3 DEF w
    <3> QED BY <3>4 DEF w, m
  <2>5. v = u
    <3> DEFINE m == n - 1
    <3>1. Len(v) = m /\ Len(u) = m /\ \A i \in 1 .. m : i \in 1 .. n BY <1>5, <2>3, <2>4
    <3> HIDE DEF v, m
    <3>2. \A i \in 1 .. m : v[i] = u[i] BY <2>2, <2>3, <2>4, <3>1 DEF m
    <3> QED BY <2>3, <2>4, <3>1, <3>2, SeqEqual
  <2>6. Front(t) = v BY <2>2, Zenon DEF Front
  <2> QED BY <2>1, <2>5, <2>6, Zenon DEF t, u
<1> QED BY <1>2, <1>3, <1>4, <1>5, Zenon DEF c, N

LEMMA StartHereKeeps == QueryInv /\ StartHere => QueryInv'
<1> SUFFICES ASSUME QueryInv, StartHere PROVE QueryInv' OBVIOUS
<1>1. /\ world' = world /\ query' = query /\ answers' = answers /\ Free
      /\ stage = "setupdbpath" /\ stage' = "up" /\ root' = world.cwd
  BY DEF StartHere, Free
<1>2. ~ Settled(stage') /\ ~ Asking(stage') /\ ~ Lost(stage') /\ ~ Over(stage') BY <1>1, StagesAre
<1>3. ~ Asking(stage) BY <1>1, StagesAre
<1>4. answers' = <<>> /\ answers' \in Seq(Replies) BY <1>1, <1>3, Zenon DEF QueryInv
<1> DEFINE N == Len(world.cwd)
<1>5. N \in Nat /\ SubSeq(world.cwd, 1, N) = world.cwd BY CwdIs DEF QueryInv
<1>6. NoneBelow(N)
  <2> HIDE DEF N
  <2>1. \A m \in N + 1 .. N : FALSE BY <1>5
  <2> QED BY <2>1 DEF NoneBelow, N
<1>7. N \in 0 .. N
  <2> HIDE DEF N
  <2> QED BY <1>5
<1>8. \E n \in 0 .. N : root' = SubSeq(world.cwd, 1, n) /\ NoneBelow(n)
  <2> HIDE DEF N
  <2> QED BY <1>1, <1>5, <1>6, <1>7, Zenon
<1> QED BY <1>1, <1>2, <1>4, <1>8, QueryInvNext, Zenon

LEMMA GoUpKeeps == QueryInv /\ GoUp => QueryInv'
<1> SUFFICES ASSUME QueryInv, GoUp PROVE QueryInv' OBVIOUS
<1>1. /\ world' = world /\ query' = query /\ answers' = answers
      /\ stage = "up" /\ gtagsexist(root) = Nowhere
  BY DEF GoUp
<1>2. Climbing(stage) /\ ~ Asking(stage) BY <1>1, StagesAre
<1>3. answers' = <<>> /\ answers' \in Seq(Replies) /\ Free BY <1>1, <1>2, Zenon DEF QueryInv
<1> DEFINE N == Len(world.cwd)
<1>4. PICK n \in 0 .. N : root = SubSeq(world.cwd, 1, n) /\ NoneBelow(n) BY <1>2, Zenon DEF QueryInv
<1>5. /\ N \in Nat /\ Len(SubSeq(world.cwd, 1, n)) = n
      /\ n # 0 => n - 1 \in 0 .. N /\ Front(SubSeq(world.cwd, 1, n)) = SubSeq(world.cwd, 1, n - 1)
  BY CwdIs DEF QueryInv
<1>6. TreeDb(n) = Nowhere BY <1>1, <1>4, Zenon DEF TreeDb
<1>7. \A m \in n .. N : TreeDb(m) = Nowhere
  <2> HIDE DEF N
  <2>1. \A m \in n .. N : m = n \/ m \in n + 1 .. N BY <1>5
  <2>2. \A m \in n + 1 .. N : TreeDb(m) = Nowhere BY <1>4, Zenon DEF NoneBelow, N
  <2> QED BY <1>6, <2>1, <2>2, Zenon
<1>8. CASE root = <<>>
  <2>1. stage' = "GTAGS not found" BY <1>8 DEF GoUp
  <2>2. ~ Climbing(stage') /\ ~ Settled(stage') /\ ~ Asking(stage') /\ ~ Over(stage') BY <2>1, StagesAre
  <2>3. n = 0 BY <1>4, <1>5, <1>8
  <2>4. \A m \in 0 .. N : TreeDb(m) = Nowhere BY <1>7, <2>3
  <2> QED BY <1>1, <1>3, <2>2, <2>4, QueryInvNext, Zenon
<1>9. CASE root # <<>>
  <2>1. stage' = stage /\ root' = Front(root) BY <1>9 DEF GoUp
  <2>2. ~ Settled(stage') /\ ~ Asking(stage') /\ ~ Lost(stage') /\ ~ Over(stage') BY <1>1, <2>1, StagesAre
  <2>3. n # 0
    <3>1. root \in Seq(STRING)
      <4>1. world.cwd \in Seq(STRING) /\ n \in Int /\ N \in Nat /\ n <= N BY <1>5, CwdIs DEF QueryInv
      <4> QED BY <1>4, <4>1
    <3>2. Len(root) # 0 BY <1>9, <3>1, EmptySeq
    <3> QED BY <1>4, <1>5, <3>2
  <2>4. n - 1 \in 0 .. N /\ root' = SubSeq(world.cwd, 1, n - 1) BY <1>4, <1>5, <2>1, <2>3, Zenon
  <2>5. NoneBelow(n - 1)
    <3>1. \A m \in n - 1 + 1 .. Len(world.cwd) : m \in n .. N BY <1>5
    <3> QED BY <1>7, <3>1, Zenon DEF NoneBelow
  <2>6. \E m \in 0 .. N : root' = SubSeq(world.cwd, 1, m) /\ NoneBelow(m) BY <2>4, <2>5, Zenon
  <2> QED BY <1>1, <1>3, <2>2, <2>6, QueryInvNext, Zenon
<1> QED BY <1>8, <1>9

LEMMA FoundUpKeeps == QueryInv /\ FoundUp => QueryInv'
<1> SUFFICES ASSUME QueryInv, FoundUp PROVE QueryInv' OBVIOUS
<1>1. /\ world' = world /\ query' = query /\ answers' = answers
      /\ stage = "up" /\ gtagsexist(root) # Nowhere
      /\ dbpath' = gtagsexist(root) /\ stage' = "rootfile"
  BY DEF FoundUp
<1>2. Climbing(stage) /\ ~ Asking(stage) BY <1>1, StagesAre
<1>3. answers' = <<>> /\ answers' \in Seq(Replies) BY <1>1, <1>2, Zenon DEF QueryInv
<1>4. PICK n \in 0 .. Len(world.cwd) : root = SubSeq(world.cwd, 1, n) /\ NoneBelow(n)
  BY <1>2, Zenon DEF QueryInv
<1>5. Nearest(dbpath') BY <1>1, <1>4, Zenon DEF Nearest, TreeDb
<1>6. ~ Climbing(stage') /\ ~ Asking(stage') /\ ~ Lost(stage') /\ ~ Over(stage') BY <1>1, StagesAre
<1> QED BY <1>1, <1>3, <1>5, <1>6, QueryInvNext, Zenon

LEMMA ReadRootFileKeeps == QueryInv /\ ReadRootFile => QueryInv'
<1> SUFFICES ASSUME QueryInv, ReadRootFile PROVE QueryInv' OBVIOUS
<1>1. /\ world' = world /\ query' = query /\ answers' = answers /\ dbpath' = dbpath
      /\ stage = "rootfile"
  BY DEF ReadRootFile
<1>2. stage' = "search" \/ stage' = "NULL copied" BY Zenon DEF ReadRootFile
<1>3. Settled(stage) /\ ~ Asking(stage) BY <1>1, StagesAre
<1>4. answers' = <<>> /\ answers' \in Seq(Replies) BY <1>1, <1>3, Zenon DEF QueryInv
<1>5. Free => Nearest(dbpath') BY <1>1, <1>3, Zenon DEF QueryInv
<1>6. ~ Climbing(stage') /\ ~ Asking(stage') /\ ~ Lost(stage') /\ ~ Over(stage') BY <1>2, StagesAre
<1> QED BY <1>1, <1>4, <1>5, <1>6, QueryInvNext, Zenon

LEMMA LeftIs ==
  ASSUME world \in Worlds, NEW k \in 0 .. Len(world.env.GTAGSLIBPATH)
  PROVE  /\ Len(world.env.GTAGSLIBPATH) \in Nat
         /\ Left(0) = world.env.GTAGSLIBPATH
         /\ Left(Len(world.env.GTAGSLIBPATH)) = <<>>
         /\ Left(k) = <<>> => k = Len(world.env.GTAGSLIBPATH)
         /\ Left(k) # <<>> => /\ k + 1 \in 1 .. Len(world.env.GTAGSLIBPATH)
                              /\ k + 1 \in 0 .. Len(world.env.GTAGSLIBPATH)
                              /\ Head(Left(k)) = world.env.GTAGSLIBPATH[k + 1]
                              /\ Tail(Left(k)) = Left(k + 1)
<1> DEFINE T == Seq(STRING)
           lib == world.env.GTAGSLIBPATH
           N == Len(lib)
<1>1. lib \in Seq(T) BY QueryAssumption
<1>2. \A j : Left(j) = SubSeq(lib, j + 1, N) BY DEF Left
<1> HIDE DEF T, lib
<1>3. N \in Nat BY <1>1
<1>4. SubSeq(lib, 1, N) = lib /\ SubSeq(lib, N + 1, N) = <<>> BY <1>1
<1>5. SubSeq(lib, k + 1, N) = <<>> => k = N
  <2> SUFFICES ASSUME k # N PROVE SubSeq(lib, k + 1, N) # <<>> OBVIOUS
  <2>1. k + 1 \in 1 .. N /\ N - (k + 1) + 1 # 0 BY <1>3 DEF lib
  <2>2. Len(SubSeq(lib, k + 1, N)) = N - (k + 1) + 1 BY <1>1, <2>1
  <2> DEFINE s == SubSeq(lib, k + 1, N)
             m == N - (k + 1) + 1
  <2>3. Len(s) = m /\ m # 0 BY <2>1, <2>2
  <2> HIDE DEF s, m
  <2>4. s # <<>> BY <2>3
  <2> QED BY <2>4 DEF s
<1>6. ASSUME SubSeq(lib, k + 1, N) # <<>>
      PROVE  /\ k + 1 \in 1 .. N /\ k + 1 \in 0 .. N
             /\ Head(SubSeq(lib, k + 1, N)) = lib[k + 1]
             /\ Tail(SubSeq(lib, k + 1, N)) = SubSeq(lib, k + 1 + 1, N)
  <2>1. k # N BY <1>4, <1>6
  <2>2. k + 1 \in 1 .. N /\ k + 1 \in 0 .. N /\ k + 1 \in Nat BY <1>3, <2>1 DEF lib
  <2> DEFINE j == k + 1
             s == SubSeq(lib, j, N)
             t == SubSeq(lib, j + 1, N)
             u == Tail(s)
  <2>3. j \in 1 .. N BY <2>2
  <2> HIDE DEF j
  <2>4. /\ s \in Seq(T) /\ Len(s) = N - j + 1 /\ \A i \in 1 .. N - j + 1 : s[i] = lib[j + i - 1]
    <3>1. N \in Int /\ j \in Int /\ \A i \in j .. N : lib[i] \in T BY <1>1, <1>3, <2>3
    <3>2. /\ s \in Seq(T) /\ Len(s) = (IF j <= N THEN N - j + 1 ELSE 0)
          /\ \A i \in 1 .. N - j + 1 : s[i] = lib[j + i - 1]
      <4> HIDE DEF N
      <4> QED BY <3>1, SubSeqProperties
    <3>3. j <= N BY <2>3
    <3> QED BY <3>2, <3>3
  <2>5. /\ t \in Seq(T) /\ Len(t) = N - j /\ \A i \in 1 .. N - j : t[i] = lib[j + i]
    <3>1. N \in Int /\ j + 1 \in Int /\ \A i \in j + 1 .. N : lib[i] \in T BY <1>1, <1>3, <2>3
    <3> DEFINE h == j + 1
    <3>2. h \in Int /\ \A i \in h .. N : lib[i] \in T BY <3>1
    <3>3. N - h + 1 = N - j /\ (~ (h <= N) => N - j = 0) /\ \A i \in 1 .. N - j : h + i - 1 = j + i
      BY <1>3, <2>3
    <3> HIDE DEF h
    <3>4. /\ SubSeq(lib, h, N) \in Seq(T) /\ Len(SubSeq(lib, h, N)) = (IF h <= N THEN N - h + 1 ELSE 0)
          /\ \A i \in 1 .. N - h + 1 : SubSeq(lib, h, N)[i] = lib[h + i - 1]
      <4> HIDE DEF N
      <4> QED BY <1>3, <3>2, SubSeqProperties
    <3> DEFINE w == SubSeq(lib, h, N)
    <3> HIDE DEF w
    <3>5. w \in Seq(T) /\ Len(w) = N - j /\ \A i \in 1 .. N - j : w[i] = lib[j + i]
      BY <3>3, <3>4 DEF w
    <3> QED BY <3>5 DEF w, h
  <2> HIDE DEF s, t
  <2>6. Len(s) # 0 /\ s # <<>>
    <3>1. Len(s) # 0 BY <1>3, <2>3, <2>4
    <3> QED BY <3>1
  <2>7. Head(s) = lib[j]
    <3>1. Head(s) = s[1] BY <2>4, <2>6
    <3>2. 1 \in 1 .. N - j + 1 /\ j + 1 - 1 = j BY <1>3, <2>3
    <3> QED BY <2>4, <3>1, <3>2
  <2>8. u \in Seq(T) /\ Len(u) = N - j /\ \A i \in 1 .. N - j : u[i] = s[i + 1]
    <3>1. u \in Seq(T) /\ Len(u) = Len(s) - 1 /\ \A i \in 1 .. Len(u) : u[i] = s[i + 1] BY <2>4, <2>6
    <3>2. Len(s) - 1 = N - j BY <1>3, <2>3, <2>4
    <3> QED BY <3>1, <3>2
  <2> HIDE DEF u
  <2>9. \A i \in 1 .. N - j : u[i] = t[i]
    <3> TAKE i \in 1 .. N - j
    <3>1. i + 1 \in 1 .. N - j + 1 /\ j + (i + 1) - 1 = j + i BY <1>3, <2>3
    <3>2. s[i + 1] = lib[j + i] BY <2>4, <3>1
    <3> QED BY <2>5, <2>8, <3>2
  <2>10. u = t
    <3> DEFINE m == N - j
    <3>1. Len(u) = m /\ Len(t) = m /\ \A i \in 1 .. m : u[i] = t[i] BY <2>5, <2>8, <2>9
    <3> HIDE DEF m
    <3> QED BY <2>5, <2>8, <3>1, SeqEqual
  <2> QED BY <2>2, <2>7, <2>10 DEF u, s, t, j
<1>7. Left(0) = lib /\ Left(N) = <<>>
  <2>1. Left(0) = SubSeq(lib, 0 + 1, N) /\ Left(N) = SubSeq(lib, N + 1, N) BY <1>2, Zenon
  <2> QED BY <1>4, <2>1
<1> QED BY <1>2, <1>3, <1>5, <1>6, <1>7, Zenon DEF lib

LEMMA WithIs ==
  ASSUME QueryInv, NEW d \in DOMAIN world.gtags
  PROVE  /\ With(d) \in Seq(Replies)
         /\ ~ Yields(d) => With(d) = answers
         /\ Yields(d) => Sources(With(d)) = Append(Sources(answers), d)
<1>1. world \in Worlds /\ query \in Queries /\ answers \in Seq(Replies) BY DEF QueryInv
<1>2. Yields(d) <=> Answers(d) # <<>> BY <1>1, YieldsIs
<1>3. CASE Yields(d)
  <2>1. With(d) = Append(answers, Reply(d)) BY <1>2, <1>3, Zenon DEF With, Reply
  <2>2. /\ Append(answers, Reply(d)) \in Seq(Replies)
        /\ Sources(Append(answers, Reply(d))) = Append(Sources(answers), d)
    BY <1>1, <1>3, RepliesAre, Zenon
  <2> QED BY <1>3, <2>1, <2>2, Zenon
<1>4. CASE ~ Yields(d)
  <2>1. With(d) = answers BY <1>2, <1>4, Zenon DEF With
  <2> QED BY <1>1, <1>4, <2>1, Zenon
<1> QED BY <1>3, <1>4

LEMMA SearchProjectKeeps == QueryInv /\ SearchProject => QueryInv'
<1> SUFFICES ASSUME QueryInv, SearchProject PROVE QueryInv' OBVIOUS
<1>1. /\ world' = world /\ query' = query /\ dbpath' = dbpath /\ stage = "search"
  BY DEF SearchProject
<1>2. Settled(stage) /\ ~ Asking(stage) BY <1>1, StagesAre
<1>3. /\ world \in Worlds /\ query \in Queries /\ answers = <<>> /\ answers \in Seq(Replies)
      /\ Free => Nearest(dbpath)
  BY <1>2, Zenon DEF QueryInv
<1>4. CASE ~ HasGTAGS(dbpath)
  <2>1. stage' = "died" /\ answers' = answers BY <1>4 DEF SearchProject
  <2>2. ~ Climbing(stage') /\ ~ Settled(stage') /\ ~ Asking(stage') /\ ~ Lost(stage') /\ ~ Over(stage')
    BY <2>1, StagesAre
  <2>3. answers' = <<>> /\ answers' \in Seq(Replies) BY <1>3, <2>1
  <2> QED BY <1>1, <2>2, <2>3, QueryInvNext, Zenon
<1>5. CASE HasGTAGS(dbpath)
  <2> DEFINE lib == world.env.GTAGSLIBPATH
             N == Len(lib)
             goes == AskedToo /\ (Answers(dbpath) = <<>> \/ EveryTree)
  <2>1. answers' = With(dbpath) /\ stage' = "library" BY <1>5 DEF SearchProject
  <2>2. libs' = IF goes THEN lib ELSE <<>>
    BY <1>5, Zenon DEF SearchProject, AskedToo, EveryTree
  <2>3. dbpath \in DOMAIN world.gtags BY <1>5 DEF HasGTAGS
  <2>4. ~ Climbing(stage') /\ Asking(stage') /\ ~ Lost(stage') /\ ~ Over(stage') BY <2>1, StagesAre
  <2>5. /\ With(dbpath) \in Seq(Replies)
        /\ ~ Yields(dbpath) => With(dbpath) = answers
        /\ Yields(dbpath) => Sources(With(dbpath)) = Append(Sources(answers), dbpath)
    BY <2>3, WithIs
  <2>6. Sources(<<>>) = <<>> /\ Append(<<>>, dbpath) = <<dbpath>> BY DEF Sources
  <2> DEFINE f == Sources(answers')
  <2>7. InOrder(f, 0) /\ (Yields(dbpath) => f = <<dbpath>>)
    <3>1. CASE Yields(dbpath)
      <4>1. f = <<dbpath>> BY <1>3, <2>1, <2>5, <2>6, <3>1, Zenon
      <4> QED BY <1>3, <3>1, <4>1, OrderBegins, Zenon
    <3>2. CASE ~ Yields(dbpath)
      <4>1. f = <<>> BY <1>3, <2>1, <2>5, <2>6, <3>2, Zenon
      <4> QED BY <1>3, <3>2, <4>1, OrderBegins, Zenon
    <3> QED BY <3>1, <3>2
  <2>8. f \in Seq(DOMAIN world.gtags) BY <2>1, <2>5, RepliesAre, Zenon
  <2>9. Yields(dbpath) <=> Answers(dbpath) # <<>> BY <1>3, <2>3, YieldsIs
  <2>10. N \in Nat /\ Left(0) = lib /\ Left(N) = <<>> /\ 0 \in 0 .. N /\ N \in 0 .. N
    <3>1. lib \in Seq(Seq(STRING)) BY <1>3, LibraryIs
    <3>2. N \in Nat BY <3>1
    <3>3. 0 \in 0 .. N BY <3>2
    <3>4. N \in 0 .. N BY <3>2
    <3>5. Left(0) = lib /\ Left(N) = <<>> BY <1>3, <3>3, LeftIs, Zenon
    <3> QED BY <3>2, <3>3, <3>4, <3>5
  <2> HIDE DEF N, lib, f
  <2>11. \E k \in 0 .. N : /\ libs' = Left(k) /\ InOrder(f, k)
                           /\ libs' # <<>> => AskedToo /\ (EveryTree \/ answers' = <<>>)
    <3>1. CASE goes
      <4>1. libs' = Left(0) BY <2>2, <2>10, <3>1, Zenon
      <4>2. EveryTree \/ answers' = <<>> BY <1>3, <2>1, <2>5, <2>9, <3>1, Zenon
      <4> QED BY <2>7, <2>10, <3>1, <4>1, <4>2, Zenon
    <3>2. CASE ~ goes
      <4>1. libs' = <<>> BY <2>2, <3>2, Zenon
      <4>2. Library = {} \/ (~ EveryTree /\ f # <<>>)
        <5>1. CASE ~ AskedToo BY <5>1 DEF AskedToo, Library
        <5>2. CASE AskedToo
          <6>1. Yields(dbpath) /\ ~ EveryTree BY <2>9, <3>2, <5>2, Zenon
          <6>2. f = <<dbpath>> BY <2>7, <6>1
          <6>3. f # <<>> BY <6>2
          <6> QED BY <6>1, <6>3
        <5> QED BY <5>1, <5>2
      <4>3. InOrder(f, N)
        <5>1. 0 <= N /\ 0 \in Nat BY <2>10
        <5> QED BY <1>3, <2>7, <2>8, <2>10, <4>2, <5>1, OrderAlone, Zenon
      <4> QED BY <2>10, <4>1, <4>3, Zenon
    <3> QED BY <3>1, <3>2
  <2>12. \E k \in 0 .. Len(world.env.GTAGSLIBPATH) :
           /\ libs' = Left(k) /\ InOrder(Sources(answers'), k)
           /\ libs' # <<>> => AskedToo /\ (EveryTree \/ answers' = <<>>)
    BY <2>11, Zenon DEF N, lib, f
  <2>13. answers' \in Seq(Replies) BY <2>1, <2>5
  <2> QED BY <1>1, <1>3, <2>3, <2>4, <2>12, <2>13, QueryInvNext, Zenon
<1> QED BY <1>4, <1>5

LEMMA SearchLibraryKeeps == QueryInv /\ SearchLibrary => QueryInv'
<1> SUFFICES ASSUME QueryInv, SearchLibrary PROVE QueryInv' OBVIOUS
<1> DEFINE lib == world.env.GTAGSLIBPATH
           N == Len(lib)
           f == Sources(answers)
           g == Sources(answers')
<1>1. /\ world' = world /\ query' = query /\ dbpath' = dbpath /\ stage' = stage
      /\ stage = "library" /\ libs # <<>>
  BY DEF SearchLibrary
<1>2. /\ ~ Climbing(stage') /\ Settled(stage') /\ Asking(stage') /\ ~ Lost(stage') /\ ~ Over(stage')
  BY <1>1, StagesAre
<1>3. /\ world \in Worlds /\ query \in Queries /\ answers \in Seq(Replies)
      /\ Free => Nearest(dbpath)
      /\ dbpath \in DOMAIN world.gtags
  BY <1>1, <1>2, Zenon DEF QueryInv
<1>4. PICK k \in 0 .. N : Looked(k) BY <1>1, <1>2, Zenon DEF QueryInv
<1>5. /\ libs = Left(k) /\ InOrder(f, k) /\ AskedToo /\ (EveryTree \/ answers = <<>>)
  BY <1>1, <1>4, Zenon DEF Looked
<1>6. /\ k + 1 \in 1 .. N /\ k + 1 \in 0 .. N /\ Head(libs) = lib[k + 1] /\ Tail(libs) = Left(k + 1)
      /\ N \in Nat /\ Left(N) = <<>> /\ N \in 0 .. N
  <2>1. /\ k + 1 \in 1 .. N /\ k + 1 \in 0 .. N /\ Head(libs) = lib[k + 1] /\ Tail(libs) = Left(k + 1)
        /\ N \in Nat /\ Left(N) = <<>>
    BY <1>1, <1>3, <1>5, LeftIs, Zenon
  <2> HIDE DEF N
  <2>2. N \in 0 .. N BY <2>1
  <2> QED BY <2>1, <2>2, Zenon
<1> DEFINE tree == LibraryDb(k + 1)
<1>7. gtagsexist(Head(libs)) = tree BY <1>6, Zenon DEF LibraryDb
<1>8. tree # Nowhere => k + 1 \in Library /\ tree \in DOMAIN world.gtags
  <2> SUFFICES ASSUME tree # Nowhere PROVE k + 1 \in Library /\ tree \in DOMAIN world.gtags OBVIOUS
  <2>1. DOMAIN lib = 1 .. N
    <3>1. lib \in Seq(Seq(STRING)) BY <1>3, LibraryIs
    <3> QED BY <3>1
  <2>2. k + 1 \in Library BY <1>5, <1>6, <2>1, Zenon DEF Library, AskedToo
  <2>3. tree \in DOMAIN world.gtags BY gtagsexistIs, Zenon DEF LibraryDb
  <2> QED BY <2>2, <2>3
<1>9. f \in Seq(DOMAIN world.gtags) /\ (answers = <<>> <=> f = <<>>) BY <1>3, RepliesAre, Zenon
<1>10. k \in Nat /\ k + 1 \in Nat /\ k + 1 <= N
  <2> HIDE DEF N
  <2> QED BY <1>6
<1> DEFINE Later(ls, as, j) == /\ ls = Left(j) /\ InOrder(Sources(as), j)
                               /\ ls # <<>> => AskedToo /\ (EveryTree \/ as = <<>>)
<1>11. ASSUME answers' \in Seq(Replies), NEW j \in 0 .. N, Later(libs', answers', j) PROVE QueryInv'
  <2>1. \E m \in 0 .. Len(world.env.GTAGSLIBPATH) :
          /\ libs' = Left(m) /\ InOrder(Sources(answers'), m)
          /\ libs' # <<>> => AskedToo /\ (EveryTree \/ answers' = <<>>)
    BY <1>11, Zenon
  <2> QED BY <1>1, <1>2, <1>3, <1>11, <2>1, QueryInvNext, Zenon
<1>12. CASE tree \in {Nowhere, dbpath} \/ ~ Yields(tree)
  <2>1. answers' = answers /\ libs' = Tail(libs)
    <3>1. CASE tree \in {Nowhere, dbpath} BY <1>7, <3>1, Zenon DEF SearchLibrary
    <3>2. CASE tree \notin {Nowhere, dbpath}
      <4>1. ~ Yields(tree) /\ tree \in DOMAIN world.gtags BY <1>8, <1>12, <3>2
      <4>2. With(tree) = answers BY <4>1, WithIs, Zenon
      <4>3. Answers(tree) = <<>> BY <1>3, <4>1, YieldsIs, Zenon
      <4>4. answers' = With(tree) /\ libs' = Tail(libs) BY <1>7, <3>2, <4>3, Zenon DEF SearchLibrary
      <4> QED BY <4>2, <4>4
    <3> QED BY <3>1, <3>2
  <2>2. \/ k + 1 \notin Library
        \/ LibraryDb(k + 1) = dbpath
        \/ ~ Yields(LibraryDb(k + 1))
    <3>1. \A i \in Library : LibraryDb(i) # Nowhere BY <1>3, LibraryIs, Zenon
    <3> QED BY <1>12, <3>1
  <2>3. InOrder(f, k + 1) BY <1>3, <1>5, <1>10, <2>2, OrderSkips, Zenon
  <2>4. Later(libs', answers', k + 1) BY <1>5, <1>6, <2>1, <2>3, Zenon
  <2>5. answers' \in Seq(Replies) BY <1>3, <2>1, Zenon
  <2> HIDE DEF Later
  <2> QED BY <1>6, <1>11, <2>4, <2>5, Zenon
<1>13. CASE tree \notin {Nowhere, dbpath} /\ Yields(tree)
  <2>1. k + 1 \in Library /\ tree \in DOMAIN world.gtags /\ tree # dbpath /\ Yields(tree) BY <1>8, <1>13
  <2>2. Answers(tree) # <<>> BY <1>3, <2>1, YieldsIs, Zenon
  <2>3. /\ answers' = With(tree)
        /\ libs' = IF EveryTree THEN Tail(libs) ELSE <<>>
    <3>1. /\ answers' = With(tree)
          /\ libs' = IF Answers(tree) # <<>> /\ "T" \notin query.options THEN <<>> ELSE Tail(libs)
      BY <1>7, <1>13, Zenon DEF SearchLibrary
    <3> QED BY <2>2, <3>1, Zenon DEF EveryTree
  <2>4. /\ With(tree) \in Seq(Replies) /\ Sources(With(tree)) = Append(f, tree)
    BY <2>1, WithIs, Zenon
  <2>5. answers' \in Seq(Replies) /\ g = Append(f, tree) BY <2>3, <2>4, Zenon
  <2>6. InOrder(Append(f, tree), k + 1)
    <3>1. EveryTree \/ f = <<>> BY <1>5, <1>9, Zenon
    <3> HIDE DEF f
    <3> QED BY <1>3, <1>5, <1>9, <1>10, <2>1, <3>1, OrderTakes, Zenon
  <2>7. CASE EveryTree
    <3>1. libs' = Left(k + 1) BY <1>6, <2>3, <2>7, Zenon
    <3>2. Later(libs', answers', k + 1) BY <1>5, <2>5, <2>6, <2>7, <3>1, Zenon
    <3> HIDE DEF Later
    <3> QED BY <1>6, <1>11, <2>5, <3>2, Zenon
  <2>8. CASE ~ EveryTree
    <3>1. libs' = Left(N) /\ libs' = <<>> BY <1>6, <2>3, <2>8, Zenon
    <3>2. g \in Seq(DOMAIN world.gtags) /\ g # <<>>
      <4>1. g \in Seq(DOMAIN world.gtags) BY <2>5, RepliesAre, Zenon
      <4>2. Append(f, tree) # <<>>
        <5> HIDE DEF f, tree
        <5> QED BY <1>9, <2>1, AppendIs
      <4> QED BY <2>5, <4>1, <4>2, Zenon
    <3>3. InOrder(g, N)
      <4>1. InOrder(g, k + 1) BY <2>5, <2>6, Zenon
      <4> HIDE DEF g
      <4> QED BY <1>3, <1>6, <1>10, <2>8, <3>2, <4>1, OrderAlone, Zenon
    <3>4. Later(libs', answers', N) BY <3>1, <3>3, Zenon
    <3> HIDE DEF Later
    <3> QED BY <1>6, <1>11, <2>5, <3>4, Zenon
  <2> QED BY <2>7, <2>8
<1> QED BY <1>12, <1>13

LEMMA EndQueryKeeps == QueryInv /\ EndQuery => QueryInv'
<1> SUFFICES ASSUME QueryInv, EndQuery PROVE QueryInv' OBVIOUS
<1>1. /\ world' = world /\ query' = query /\ dbpath' = dbpath /\ answers' = answers /\ libs' = libs
      /\ stage = "library" /\ libs = <<>> /\ stage' = "end"
  BY DEF EndQuery
<1>2. Settled(stage) /\ Asking(stage) BY <1>1, StagesAre
<1>3. ~ Climbing(stage') /\ Settled(stage') /\ Asking(stage') /\ ~ Lost(stage') BY <1>1, StagesAre
<1>4. /\ answers' \in Seq(Replies) /\ (Free => Nearest(dbpath')) /\ dbpath \in DOMAIN world.gtags
      /\ libs' = <<>>
      /\ \E k \in 0 .. Len(world.env.GTAGSLIBPATH) : Looked(k)
  BY <1>1, <1>2, Zenon DEF QueryInv
<1>5. PICK k \in 0 .. Len(world.env.GTAGSLIBPATH) : Looked(k) BY <1>4, Zenon
<1>6. \E j \in 0 .. Len(world.env.GTAGSLIBPATH) :
        /\ libs' = Left(j) /\ InOrder(Sources(answers'), j)
        /\ libs' # <<>> => AskedToo /\ (EveryTree \/ answers' = <<>>)
  BY <1>1, <1>5, Zenon DEF Looked
<1> QED BY <1>1, <1>3, <1>4, <1>6, QueryInvNext, Zenon

LEMMA QueryStep == QueryInv /\ [QueryNext]_queryVars => QueryInv'
<1> SUFFICES ASSUME QueryInv, [QueryNext]_queryVars PROVE QueryInv' OBVIOUS
<1>1. CASE FromEnvironment BY <1>1, FromEnvironmentKeeps
<1>2. CASE StartHere BY <1>2, StartHereKeeps
<1>3. CASE GoUp BY <1>3, GoUpKeeps
<1>4. CASE FoundUp BY <1>4, FoundUpKeeps
<1>5. CASE ReadRootFile BY <1>5, ReadRootFileKeeps
<1>6. CASE SearchProject BY <1>6, SearchProjectKeeps
<1>7. CASE SearchLibrary BY <1>7, SearchLibraryKeeps
<1>8. CASE EndQuery BY <1>8, EndQueryKeeps
<1>9. CASE UNCHANGED queryVars
  <2>1. /\ world' = world /\ query' = query /\ root' = root /\ dbpath' = dbpath /\ libs' = libs
        /\ answers' = answers /\ stage' = stage
    BY <1>9 DEF queryVars
  <2>2. Asking(stage) =>
          \E k \in 0 .. Len(world.env.GTAGSLIBPATH) :
            /\ libs = Left(k) /\ InOrder(Sources(answers), k)
            /\ libs # <<>> => AskedToo /\ (EveryTree \/ answers = <<>>)
    BY Zenon DEF QueryInv, Looked
  <2>3. Asking(stage') =>
          /\ dbpath' = dbpath /\ dbpath \in DOMAIN world.gtags
          /\ \E k \in 0 .. Len(world.env.GTAGSLIBPATH) :
               /\ libs' = Left(k) /\ InOrder(Sources(answers'), k)
               /\ libs' # <<>> => AskedToo /\ (EveryTree \/ answers' = <<>>)
    BY <2>1, <2>2, Zenon DEF QueryInv
  <2>4. /\ answers' \in Seq(Replies)
        /\ Climbing(stage') => Free /\ \E n \in 0 .. Len(world.cwd) :
                                          root' = SubSeq(world.cwd, 1, n) /\ NoneBelow(n)
        /\ Settled(stage') /\ Free => Nearest(dbpath')
        /\ Lost(stage') /\ Free => \A m \in 0 .. Len(world.cwd) : TreeDb(m) = Nowhere
        /\ ~ Asking(stage') => answers' = <<>>
        /\ Over(stage') => libs' = <<>>
    BY <2>1, Zenon DEF QueryInv
  <2> QED BY <2>1, <2>3, <2>4, QueryInvNext, Zenon
<1> QED BY <1>1, <1>2, <1>3, <1>4, <1>5, <1>6, <1>7, <1>8, <1>9, Zenon DEF QueryNext

LEMMA QueryStart == QueryInit => QueryInv
<1> SUFFICES ASSUME QueryInit PROVE QueryInv OBVIOUS
<1>1. world \in Worlds /\ query \in Queries /\ answers = <<>> /\ stage = "setupdbpath"
  BY DEF QueryInit, QueryInitOf
<1>2. answers \in Seq(Replies) BY <1>1
<1>3. ~ Climbing(stage) /\ ~ Settled(stage) /\ ~ Asking(stage) /\ ~ Lost(stage) /\ ~ Over(stage)
  BY <1>1, StagesAre
<1> QED BY <1>1, <1>2, <1>3, Zenon DEF QueryInv

LEMMA QueryAlways == QuerySpec => []QueryInv
BY QueryStart, QueryStep, PTL DEF QuerySpec

----------------------------------------------------------------------------
(* What it says of the answers.                                            *)

LEMMA NearestIs ==
  ASSUME world \in Worlds, Nearest(dbpath)
  PROVE  Above # {} /\ dbpath = TreeDb(Max(Above))
<1> DEFINE N == Len(world.cwd)
<1>1. N \in Nat BY CwdIs
<1>2. PICK n \in 0 .. N : dbpath = TreeDb(n) /\ dbpath # Nowhere /\ NoneBelow(n) BY Zenon DEF Nearest
<1>3. n \in Above /\ Above \subseteq 0 .. N BY <1>2, Zenon DEF Above
<1>4. \A m \in n + 1 .. N : m \notin Above BY <1>2, Zenon DEF NoneBelow, Above
<1> HIDE DEF N
<1>5. Above \subseteq Nat /\ Above # {} /\ IsFiniteSet(Above)
  <2>1. IsFiniteSet(0 .. N) BY <1>1, FS_Interval
  <2>2. IsFiniteSet(Above)
    <3> DEFINE U == 0 .. N
    <3>1. Above \subseteq U /\ IsFiniteSet(U) BY <1>3, <2>1
    <3> HIDE DEF U
    <3> QED BY <3>1, FS_Subset
  <2>3. 0 .. N \subseteq Nat BY <1>1
  <2> QED BY <1>3, <2>2, <2>3, Zenon
<1>6. Max(Above) \in Above /\ \A j \in Above : Max(Above) >= j BY <1>5, MaxIs
<1>7. Max(Above) = n
  <2> DEFINE m == Max(Above)
  <2>1. m \in 0 .. N /\ m >= n /\ m \notin n + 1 .. N BY <1>3, <1>4, <1>6
  <2> HIDE DEF m
  <2>2. m = n BY <1>1, <2>1
  <2> QED BY <2>2 DEF m
<1> QED BY <1>2, <1>5, <1>7, Zenon

LEMMA AnswersRight ==
  ASSUME QueryInv, NEW i \in DOMAIN answers
  PROVE  /\ ToSet(answers[i].words) = WordsAsked(answers[i].db)
         /\ IsInjective(answers[i].words)
<1>1. world \in Worlds /\ query \in Queries /\ answers \in Seq(Replies) BY DEF QueryInv
<1>2. answers[i] \in Replies
  <2> DEFINE R == Replies
             s == answers
  <2>1. s \in Seq(R) /\ i \in DOMAIN s BY <1>1
  <2> HIDE DEF R, s
  <2>2. s[i] \in R BY <2>1
  <2> QED BY <2>2 DEF R, s
<1>3. PICK d \in DOMAIN world.gtags : answers[i] = Reply(d) BY <1>2, Zenon DEF Replies
<1>4. answers[i].db = d /\ answers[i].words = Answers(d) BY <1>3 DEF Reply
<1>5. ToSet(Answers(d)) = WordsAsked(d) /\ IsInjective(Answers(d)) BY <1>1, AnswersAre, Zenon
<1> QED BY <1>4, <1>5, Zenon

\* Once the whole library was looked at.
LEMMA EndIs ==
  ASSUME QueryInv, Over(stage)
  PROVE  InOrder(Sources(answers), Len(world.env.GTAGSLIBPATH)) /\ Tried(Len(world.env.GTAGSLIBPATH)) = Library
<1> DEFINE N == Len(world.env.GTAGSLIBPATH)
<1>1. world \in Worlds /\ libs = <<>> BY Zenon DEF QueryInv
<1>2. Asking(stage) BY DEF Over, Asking
<1>3. PICK k \in 0 .. N : Looked(k) BY <1>2, Zenon DEF QueryInv
<1>4. k = N BY <1>1, <1>3, LeftIs, Zenon DEF Looked
<1>5. InOrder(Sources(answers), N) BY <1>3, <1>4, Zenon DEF Looked
<1>6. \A i \in Library : i <= N
  <2>1. Library \subseteq 1 .. N BY <1>1, LibraryIs
  <2>2. N \in Nat BY <1>1, <1>3, LeftIs, Zenon
  <2> HIDE DEF N
  <2> QED BY <2>1, <2>2
<1>7. Tried(N) = Library
  <2> HIDE DEF N
  <2> QED BY <1>6, Zenon DEF Tried
<1> QED BY <1>5, <1>7, Zenon

LEMMA OrderRight ==
  ASSUME QueryInv, Over(stage)
  PROVE  LET from == [i \in DOMAIN answers |-> answers[i].db]
             able == {tree \in {dbpath} \cup {LibraryDb(i) : i \in Library} : WordsAsked(tree) # {}}
         IN  /\ ToSet(from) \subseteq able
             /\ "T" \in query.options => ToSet(from) = able
             /\ "T" \notin query.options /\ able # {} => Len(from) = 1
             /\ dbpath \in able => from[1] = dbpath
             /\ "T" \notin query.options /\ from # <<>> /\ from[1] # dbpath =>
                  \E n \in Library : /\ from[1] = LibraryDb(n)
                                    /\ \A i \in Library : i < n => WordsAsked(LibraryDb(i)) = {}
             /\ (\A i, j \in Library : LibraryDb(i) = LibraryDb(j) => i = j) => IsInjective(from)
<1> DEFINE N == Len(world.env.GTAGSLIBPATH)
           from == [i \in DOMAIN answers |-> answers[i].db]
           able == {tree \in {dbpath} \cup {LibraryDb(i) : i \in Library} : WordsAsked(tree) # {}}
<1>1. InOrder(Sources(answers), N) /\ Tried(N) = Library BY EndIs, Zenon
<1>2. Sources(answers) = from BY DEF Sources
<1> HIDE DEF N
<1>3. Able(N) = able BY <1>1, Zenon DEF Able, Yields
<1> HIDE DEF from, able
<1>4. InOrder(from, N) BY <1>1, <1>2
<1>5. /\ ToSet(from) \subseteq able
      /\ EveryTree => ToSet(from) = able
      /\ ~ EveryTree /\ able # {} => Len(from) = 1
      /\ dbpath \in able => from[1] = dbpath
      /\ ~ EveryTree /\ from # <<>> /\ from[1] # dbpath =>
           \E n \in Library : from[1] = LibraryDb(n) /\ NoneBefore(n)
      /\ Distinct => IsInjective(from)
  BY <1>1, <1>3, <1>4, Zenon DEF InOrder
<1>6. ~ EveryTree /\ from # <<>> /\ from[1] # dbpath =>
        \E n \in Library : /\ from[1] = LibraryDb(n)
                          /\ \A i \in Library : i < n => WordsAsked(LibraryDb(i)) = {}
  BY <1>5, Zenon DEF NoneBefore, Yields
<1> QED BY <1>5, <1>6, Zenon DEF EveryTree, Distinct, from, able

LEMMA RightIs == QueryInv => QueryRight
<1> SUFFICES ASSUME QueryInv PROVE QueryRight OBVIOUS
<1>1. world \in Worlds BY DEF QueryInv
<1>2. ASSUME stage \in {"rootfile", "search", "library", "end"}, world.env.GTAGSROOT = Unset
      PROVE  Above # {} /\ dbpath = TreeDb(Max(Above))
  <2>1. Nearest(dbpath) BY <1>2, Zenon DEF QueryInv, Settled, Free
  <2> QED BY <1>1, <2>1, NearestIs
<1>3. ASSUME stage = "GTAGS not found", world.env.GTAGSROOT = Unset
      PROVE  Above = {}
  <2>1. \A m \in 0 .. Len(world.cwd) : TreeDb(m) = Nowhere BY <1>3, Zenon DEF QueryInv, Lost, Free
  <2> QED BY <2>1, Zenon DEF Above
<1>4. \A i \in DOMAIN answers : /\ ToSet(answers[i].words) = WordsAsked(answers[i].db)
                                /\ IsInjective(answers[i].words)
  BY AnswersRight
<1>5. stage = "end" => Over(stage) BY DEF Over
<1> QED BY <1>2, <1>3, <1>4, <1>5, OrderRight, Zenon DEF QueryRight

\* A query is answered from the nearest project above the user; every tag file answers with
\* each word asked for, once; without -T one tag file answers, the project if it can and else
\* the first tree of the library path that can; with -T all that can answer, in any file system,
\* environment and query (setupdbpath, tagsearch and completion).
THEOREM QueryIsRight == QuerySpec => []QueryRight
BY QueryAlways, RightIs, PTL

=============================================================================
