-------------------------- MODULE InductionLemmas --------------------------
(***************************************************************************)
(* Least and greatest elements of sets of numbers; induction up to a       *)
(* number, over a set; functions that are defined by recursion.            *)
(***************************************************************************)
EXTENDS Integers, FiniteSetsExt, FiniteSetTheorems, TLAPS

\* A set of numbers that is not empty has a least one.
LEMMA LeastExists ==
  ASSUME NEW S, S \subseteq Nat, S # {}
  PROVE  \E i \in S : \A j \in S : i <= j
<1>1. PICK k \in S : TRUE OBVIOUS
<1> DEFINE UpTo(i) == {j \in S : j <= i}
           Starts == {UpTo(i) : i \in UpTo(k)}
           R == StrictSubsetOrdering(0 .. k)
<1>2. k \in Nat /\ k \in UpTo(k) BY <1>1
<1>3. IsFiniteSet(0 .. k) BY <1>2, FS_Interval
<1>4. IsWellFoundedOn(R, SUBSET (0 .. k))
  BY <1>3, FS_StrictSubsetOrderingWellFounded, FS_FiniteSubsetsOfFinite
<1>5. UpTo(k) \in Starts BY <1>2, Zenon
<1>6. Starts \subseteq SUBSET (0 .. k)
  <2> SUFFICES ASSUME NEW i \in S, i <= k, NEW j \in S, j <= i PROVE j \in 0 .. k
    BY Zenon
  <2>1. i \in Nat /\ j \in Nat BY <1>1
  <2> QED BY <1>2, <2>1
<1>7. \E x \in Starts : \A y \in Starts : <<y, x>> \notin R
  <2> HIDE DEF Starts, R
  <2> QED BY <1>4, <1>5, <1>6, WFMin
<1>8. PICK i \in UpTo(k) : \A y \in Starts : <<y, UpTo(i)>> \notin R BY <1>7, Zenon
<1>9. \A j \in S : i <= j
  <2>1. i \in Nat /\ \A j \in S : j \in Nat BY <1>8
  <2> SUFFICES ASSUME NEW j \in S, j < i PROVE FALSE BY <2>1
  <2>2. j <= k /\ i <= i /\ ~ (i <= j) /\ \A m \in S : m <= j => m <= i
    BY <1>2, <1>8, <2>1
  <2>3. UpTo(j) \in Starts /\ UpTo(i) \in SUBSET (0 .. k) /\ UpTo(j) \in SUBSET (0 .. k)
    <3>1. j \in UpTo(k) BY <2>2
    <3>2. UpTo(j) \in Starts /\ UpTo(i) \in Starts BY <1>8, <3>1, Zenon
    <3> QED BY <1>6, <3>2, Zenon
  <2>4. UpTo(j) \subseteq UpTo(i) /\ i \in UpTo(i) /\ i \notin UpTo(j)
    BY <1>8, <2>2, Zenon
  <2>5. <<UpTo(j), UpTo(i)>> \in R
    <3> HIDE DEF UpTo
    <3> QED BY <2>3, <2>4 DEF StrictSubsetOrdering
  <2> QED BY <1>8, <2>3, <2>5, Zenon
<1> QED BY <1>8, <1>9

LEMMA LeastIs ==
  ASSUME NEW S, S \subseteq Nat, S # {}
  PROVE  Min(S) \in S /\ \A j \in S : Min(S) <= j
BY LeastExists DEF Min

\* A finite set of numbers that is not empty has a greatest one: of the sets of
\* numbers from its elements up one has no smaller.
LEMMA GreatestExists ==
  ASSUME NEW S, S \subseteq Nat, S # {}, IsFiniteSet(S)
  PROVE  \E i \in S : \A j \in S : i >= j
<1> DEFINE UpFrom(i) == {j \in S : j >= i}
           Ends == {UpFrom(i) : i \in S}
           R == StrictSubsetOrdering(S)
<1>1. PICK k \in S : TRUE
  OBVIOUS
<1>2. IsWellFoundedOn(R, SUBSET S)
  BY FS_StrictSubsetOrderingWellFounded, FS_FiniteSubsetsOfFinite
<1>3. UpFrom(k) \in Ends
  BY <1>1, Zenon
<1>4. Ends \subseteq SUBSET S
  BY Zenon
<1>5. \E x \in Ends : \A y \in Ends : <<y, x>> \notin R
  <2> HIDE DEF Ends, R
  <2> QED BY <1>2, <1>3, <1>4, WFMin
<1>6. PICK i \in S : \A y \in Ends : <<y, UpFrom(i)>> \notin R
  BY <1>5, Zenon
<1>7. \A j \in S : i >= j
  <2>1. i \in Nat /\ \A j \in S : j \in Nat
    BY <1>6
  <2> SUFFICES ASSUME NEW j \in S, i < j PROVE FALSE
    BY <2>1
  <2>2. i >= i /\ ~ (i >= j) /\ \A m \in S : m >= j => m >= i
    BY <2>1
  <2>3. UpFrom(j) \in Ends /\ UpFrom(i) \in Ends
    BY <1>6, Zenon
  <2>4. UpFrom(j) \subseteq UpFrom(i) /\ UpFrom(j) # UpFrom(i)
    <3>1. i \in UpFrom(i) /\ i \notin UpFrom(j)
      BY <1>6, <2>2, Zenon
    <3> QED BY <2>2, <3>1, Zenon
  <2>5. <<UpFrom(j), UpFrom(i)>> \in R
    <3> HIDE DEF Ends, UpFrom
    <3> QED BY <1>4, <2>3, <2>4 DEF StrictSubsetOrdering
  <2> QED BY <1>6, <2>3, <2>5
<1> QED BY <1>6, <1>7

LEMMA MaxIs ==
  ASSUME NEW S, S \subseteq Nat, S # {}, IsFiniteSet(S)
  PROVE  Max(S) \in S /\ \A j \in S : Max(S) >= j
BY GreatestExists DEF Max

\* Induction up to N, over a set.
LEMMA UpToInduction ==
  ASSUME NEW N \in Nat, NEW S, 0 \in S, \A i \in 1 .. N : i - 1 \in S => i \in S
  PROVE  \A i \in 0 .. N : i \in S
<1> DEFINE Out == {i \in 0 .. N : i \notin S}
<1> SUFFICES ASSUME Out # {} PROVE FALSE OBVIOUS
<1>1. PICK i \in Out : \A j \in Out : i <= j
  <2>1. Out \subseteq Nat OBVIOUS
  <2> HIDE DEF Out
  <2> QED BY <2>1, LeastExists
<1>2. i \in 1 .. N /\ i - 1 \in 0 .. N /\ ~ (i <= i - 1) BY <1>1
<1>3. i - 1 \in S BY <1>1, <1>2
<1> QED BY <1>1, <1>2, <1>3

\* Induction up to N, over a set: from all that are smaller to the next.
LEMMA StrongInduction ==
  ASSUME NEW N \in Nat, NEW S, \A i \in 0 .. N : (\A j \in 0 .. i - 1 : j \in S) => i \in S
  PROVE  \A i \in 0 .. N : i \in S
<1> DEFINE Out == {i \in 0 .. N : i \notin S}
<1> SUFFICES ASSUME Out # {} PROVE FALSE OBVIOUS
<1>1. PICK i \in Out : \A j \in Out : i <= j
  <2>1. Out \subseteq Nat OBVIOUS
  <2> HIDE DEF Out
  <2> QED BY <2>1, LeastExists
<1>2. ASSUME NEW j \in 0 .. i - 1 PROVE j \in S
  <2>1. j \in 0 .. N /\ ~ (i <= j) BY <1>1
  <2> QED BY <1>1, <2>1
<1> QED BY <1>1, <1>2

\* A function that is defined by recursion; there is one.
Recurs(f, N, D, base, step) ==
  /\ f \in [0 .. N -> D] /\ f[0] = base
  /\ \A i \in 1 .. N : f[i] = step[i][f[i - 1]]

LEMMA RecursionExists ==
  ASSUME NEW N \in Nat, NEW D, NEW base \in D, NEW step \in [1 .. N -> [D -> D]]
  PROVE  \E f : Recurs(f, N, D, base, step)
<1> DEFINE Is(f, m) == f[0] = base /\ \A i \in 1 .. m : f[i] = step[i][f[i - 1]]
           S == {m \in 0 .. N : \E f \in [0 .. m -> D] : Is(f, m)}
<1>1. 0 \in S
  <2>1. [i \in 0 .. 0 |-> base] \in [0 .. 0 -> D] /\ Is([i \in 0 .. 0 |-> base], 0) OBVIOUS
  <2>2. 0 \in 0 .. N OBVIOUS
  <2> HIDE DEF Is
  <2> QED BY <2>1, <2>2, Zenon
<1>2. \A m \in 1 .. N : m - 1 \in S => m \in S
  <2> SUFFICES ASSUME NEW m \in 1 .. N, m - 1 \in S PROVE m \in S OBVIOUS
  <2>1. PICK f \in [0 .. m - 1 -> D] : Is(f, m - 1) OBVIOUS
  <2>2. f[m - 1] \in D BY <2>1
  <2>3. step[m][f[m - 1]] \in D BY <2>2
  <2> DEFINE g == [i \in 0 .. m |-> IF i = m THEN step[m][f[m - 1]] ELSE f[i]]
  <2>4. g \in [0 .. m -> D]
    <3>1. \A i \in 0 .. m : i # m => f[i] \in D BY <2>1
    <3> QED BY <2>3, <3>1
  <2>5. g[0] = base /\ \A i \in 1 .. m : g[i] = step[i][g[i - 1]]
    <3>1. 0 # m /\ m - 1 # m /\ g[0] = base BY <2>1
    <3>2. g[m] = step[m][g[m - 1]]
      <4>1. m \in 0 .. m /\ m - 1 \in 0 .. m /\ m - 1 # m OBVIOUS
      <4>2. g[m] = step[m][f[m - 1]] /\ g[m - 1] = f[m - 1]
        <5> HIDE DEF Is
        <5> QED BY <4>1, Zenon
      <4> HIDE DEF g
      <4> QED BY <4>2, Zenon
    <3>3. ASSUME NEW i \in 1 .. m, i # m PROVE g[i] = step[i][g[i - 1]]
      <4>1. i \in 0 .. m /\ i - 1 \in 0 .. m /\ i - 1 # m /\ i \in 1 .. m - 1 BY <3>3
      <4>2. g[i] = f[i] /\ g[i - 1] = f[i - 1]
        <5> HIDE DEF Is
        <5> QED BY <3>3, <4>1, Zenon
      <4> HIDE DEF g
      <4> QED BY <2>1, <4>1, <4>2, Zenon
    <3> HIDE DEF g, Is
    <3> QED BY <3>1, <3>2, <3>3, Zenon
  <2> HIDE DEF g
  <2> QED BY <2>4, <2>5
<1>3. N \in S
  <2>1. N \in 0 .. N OBVIOUS
  <2> HIDE DEF S
  <2>2. \A m \in 0 .. N : m \in S BY <1>1, <1>2, UpToInduction
  <2> QED BY <2>1, <2>2
<1>4. PICK f \in [0 .. N -> D] : Is(f, N) BY <1>3
<1> QED BY <1>4 DEF Recurs

\* Induction over the ranks of the elements of a set.
LEMMA RankInduction ==
  ASSUME NEW L, NEW rank \in [L -> Nat], NEW S,
         \A x \in L : (\A y \in L : rank[y] < rank[x] => y \in S) => x \in S
  PROVE  \A x \in L : x \in S
<1> DEFINE Ranks == {rank[x] : x \in {x \in L : x \notin S}}
<1> SUFFICES ASSUME Ranks # {} PROVE FALSE OBVIOUS
<1>1. Ranks \subseteq Nat OBVIOUS
<1>2. PICK i \in Ranks : \A j \in Ranks : i <= j
  <2> HIDE DEF Ranks
  <2> QED BY <1>1, LeastExists
<1>3. PICK x \in L : x \notin S /\ i = rank[x] BY <1>2
<1>4. ASSUME NEW y \in L, rank[y] < rank[x] PROVE y \in S
  <2>1. rank[y] \in Nat /\ rank[x] \in Nat OBVIOUS
  <2>2. ~ (rank[x] <= rank[y]) BY <1>4, <2>1
  <2>3. rank[y] \notin Ranks
    <3> HIDE DEF Ranks
    <3> QED BY <1>2, <1>3, <2>2
  <2> QED BY <2>3
<1> QED BY <1>3, <1>4

\* There is a function that is defined by recursion over the ranks of its arguments.
Ranked(L, N, rank, D, step) ==
  /\ N \in Nat /\ rank \in [L -> 0 .. N]
  /\ [L -> D] # {} /\ step \in [[L -> D] -> [L -> D]]
  /\ \A f, g \in [L -> D] : \A x \in L :
       (\A y \in L : rank[y] < rank[x] => f[y] = g[y]) => step[f][x] = step[g][x]
FixedBy(f, L, D, step) == f \in [L -> D] /\ f = step[f]

LEMMA RankRecursion ==
  ASSUME NEW L, NEW N, NEW rank, NEW D, NEW step, Ranked(L, N, rank, D, step)
  PROVE  \E f : FixedBy(f, L, D, step)
<1> DEFINE F == [L -> D]
<1>0. /\ N \in Nat /\ rank \in [L -> 0 .. N] /\ F # {} /\ step \in [F -> F]
      /\ \A f, g \in F : \A x \in L :
           (\A y \in L : rank[y] < rank[x] => f[y] = g[y]) => step[f][x] = step[g][x]
  BY DEF Ranked
<1>1. PICK base \in F : TRUE BY <1>0
<1> DEFINE M == N + 2
           steps == [i \in 1 .. M |-> step]
<1>2. M \in Nat /\ steps \in [1 .. M -> [F -> F]] /\ \A i \in 1 .. M : steps[i] = step
  <2>1. M \in Nat BY <1>0
  <2> HIDE DEF F, M
  <2>2. step \in [F -> F] BY <1>0
  <2> QED BY <2>1, <2>2
<1>3. PICK h : Recurs(h, M, F, base, steps)
  <2> HIDE DEF F, M, steps
  <2> QED BY <1>1, <1>2, RecursionExists
<1>4. h \in [0 .. M -> F] /\ \A i \in 1 .. M : h[i] = step[h[i - 1]]
  <2> HIDE DEF F, M, steps
  <2> QED BY <1>2, <1>3, Zenon DEF Recurs
<1> HIDE DEF M, steps
<1>5. /\ N + 1 \in 0 .. M /\ N + 2 \in 1 .. M /\ N + 2 - 1 = N + 1 /\ N + 1 \in Nat
      /\ \A i \in 0 .. N + 1 : i \in 0 .. M /\ i + 1 \in 1 .. M /\ i + 1 - 1 = i /\ i + 1 \in 0 .. M
  BY <1>0 DEF M
<1>a. ASSUME NEW i \in 0 .. N + 1 PROVE h[i + 1] = step[h[i]]
  <2> DEFINE j == i + 1
             k == j - 1
  <2>0. i \in 0 .. N + 1 => i + 1 \in 1 .. M /\ i + 1 - 1 = i BY <1>5, Zenon
  <2>1. j \in 1 .. M /\ k = i BY <2>0
  <2>2. h[j] = step[h[k]] BY <1>4, <2>1, Zenon
  <2> HIDE DEF k
  <2> QED BY <2>1, <2>2, Zenon
<1> DEFINE S == {i \in 0 .. N + 1 : \A x \in L : rank[x] < i => h[i + 1][x] = h[i][x]}
<1>6. 0 \in S
  <2>1. \A x \in L : ~ (rank[x] < 0) BY <1>0
  <2>2. 0 \in 0 .. N + 1 BY <1>0
  <2> QED BY <2>1, <2>2, Zenon
<1>7. \A i \in 1 .. N + 1 : i - 1 \in S => i \in S
  <2> SUFFICES ASSUME NEW i \in 1 .. N + 1, i - 1 \in S, NEW x \in L, rank[x] < i
               PROVE h[i + 1][x] = h[i][x]
    OBVIOUS
  <2>1. /\ i \in 1 .. M /\ i + 1 \in 1 .. M /\ i - 1 \in 0 .. M /\ i \in 0 .. M
        /\ i + 1 - 1 = i /\ i - 1 + 1 = i
    BY <1>5
  <2>2. h[i + 1] = step[h[i]] /\ h[i] = step[h[i - 1]]
    <3>1. i - 1 \in 0 .. N + 1 /\ i \in 0 .. N + 1 BY <1>0
    <3>2. h[i - 1 + 1] = step[h[i - 1]] BY <1>a, <3>1, Zenon
    <3> QED BY <1>a, <2>1, <3>1, <3>2, Zenon
  <2>3. h[i] \in F /\ h[i - 1] \in F BY <1>4, <2>1
  <2>4. ASSUME NEW y \in L, rank[y] < rank[x] PROVE h[i][y] = h[i - 1][y]
    <3>1. rank[y] \in Int /\ rank[x] \in Int BY <1>0
    <3>2. rank[y] < i - 1 BY <2>4, <3>1
    <3>3. \A z \in L : rank[z] < i - 1 => h[i - 1 + 1][z] = h[i - 1][z] OBVIOUS
    <3> QED BY <2>1, <3>2, <3>3, Zenon
  <2>5. step[h[i]][x] = step[h[i - 1]][x] BY <1>0, <2>3, <2>4, Zenon
  <2> QED BY <2>2, <2>5, Zenon
<1>8. N + 1 \in S
  <2>1. N + 1 \in 0 .. N + 1 BY <1>5
  <2> HIDE DEF S
  <2>2. \A i \in 0 .. N + 1 : i \in S BY <1>5, <1>6, <1>7, UpToInduction
  <2> QED BY <2>1, <2>2
<1> DEFINE f == h[N + 1]
<1>9. f \in F /\ step[f] \in F BY <1>0, <1>4, <1>5
<1>10. h[N + 1 + 1] = step[f]
  <2>1. N + 1 \in 0 .. N + 1 BY <1>5
  <2> QED BY <1>a, <2>1, Zenon
<1>11. ASSUME NEW x \in L PROVE step[f][x] = f[x]
  <2>1. rank[x] < N + 1 BY <1>0
  <2>2. h[N + 1 + 1][x] = h[N + 1][x] BY <1>8, <2>1
  <2> QED BY <1>10, <2>2, Zenon
<1> HIDE DEF f
<1>12. f = step[f] BY <1>9, <1>11
<1> QED BY <1>9, <1>12, Zenon DEF FixedBy
=============================================================================
