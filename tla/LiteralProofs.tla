--------------------------- MODULE LiteralProofs ---------------------------
(***************************************************************************)
(* The literal search: a line it prints has a literal, and of words whose  *)
(* links need one step only it prints all the lines that have one.         *)
(***************************************************************************)
EXTENDS Literal, InductionLemmas, SequenceTheorems

----------------------------------------------------------------------------
(* What ends in what.                                                      *)

LEMMA FrontLast ==
  ASSUME NEW T, NEW l \in Seq(T), l # <<>>
  PROVE  /\ Front(l) \in Seq(T) /\ Len(l) \in Nat \ {0} /\ Len(Front(l)) = Len(l) - 1 /\ Last(l) \in T
         /\ \A i \in 1 .. Len(l) - 1 : Front(l)[i] = l[i]
         /\ Last(l) = l[Len(l)]
         /\ l = Append(Front(l), Last(l))
<1> DEFINE n == Len(l)
           f == Front(l)
           m == n - 1
<1>1. n \in Nat \ {0} /\ \A i \in 1 .. n : l[i] \in T
  <2>1. n \in Nat /\ n # 0 BY EmptySeq
  <2> QED BY <2>1
<1>2. m \in Nat /\ m + 1 = n /\ 1 \in Int /\ m \in Int /\ m - 1 + 1 = m /\ (IF 1 <= m THEN m - 1 + 1 ELSE 0) = m
  <2> HIDE DEF n
  <2> QED BY <1>1
<1>3. \A i \in 1 .. m : l[i] \in T /\ 1 + i - 1 = i
  <2>1. \A i \in 1 .. m : i \in 1 .. n /\ 1 + i - 1 = i
    <3> HIDE DEF n
    <3> QED BY <1>2
  <2> QED BY <1>1, <2>1
<1>4. f = SubSeq(l, 1, m) BY DEF Front
<1>5. /\ f \in Seq(T) /\ Len(f) = (IF 1 <= m THEN m - 1 + 1 ELSE 0)
      /\ \A i \in 1 .. m - 1 + 1 : f[i] = l[1 + i - 1]
  <2> HIDE DEF f, m
  <2> QED BY <1>2, <1>3, <1>4, SubSeqProperties
<1> HIDE DEF m, f
<1>6. /\ f \in Seq(T) /\ Len(f) = m /\ \A i \in 1 .. m : f[i] = l[i]
  BY <1>2, <1>3, <1>5, Zenon
<1>7. Last(l) = l[n] /\ l[n] \in T /\ m = n - 1
  <2>1. n \in 1 .. n
    <3> HIDE DEF n
    <3> QED BY <1>1
  <2> QED BY <1>1, <2>1 DEF Last, m
<1>8. l = Append(f, l[n])
  <2> DEFINE x == l[n]
             a == Append(f, x)
  <2>1. x \in T BY <1>7
  <2> HIDE DEF x
  <2>2. a \in Seq(T) /\ Len(a) = m + 1 /\ a[m + 1] = x /\ \A i \in 1 .. m : a[i] = f[i]
    BY <1>6, <2>1
  <2>3. \A i \in 1 .. n : i \in 1 .. m \/ i = m + 1
    <3> HIDE DEF n
    <3> QED BY <1>2
  <2> HIDE DEF a
  <2>4. \A i \in 1 .. n : a[i] = l[i] BY <1>2, <1>6, <2>2, <2>3, Zenon DEF x
  <2>5. Len(a) = Len(l) BY <1>2, <2>2, Zenon
  <2>6. a = l BY <2>2, <2>4, <2>5, SeqEqual, Zenon
  <2> QED BY <2>6 DEF a, x
<1> QED BY <1>1, <1>6, <1>7, <1>8, Zenon DEF f, m

LEMMA EndsInSelf ==
  ASSUME NEW T, NEW a \in Seq(T)
  PROVE  EndsIn(a, a) /\ EndsIn(a, <<>>)
<1>1. Len(a) \in Nat /\ Len(<<>>) = 0 OBVIOUS
<1>2. \A i \in 1 .. Len(a) : Len(a) - Len(a) + i = i
  <2> DEFINE n == Len(a)
  <2> SUFFICES \A i \in 1 .. n : n - n + i = i OBVIOUS
  <2>1. n \in Nat BY <1>1
  <2> HIDE DEF n
  <2> QED BY <2>1
<1>3. EndsIn(a, a) BY <1>1, <1>2 DEF EndsIn
<1>4. 1 .. 0 = {} OBVIOUS
<1>5. EndsIn(a, <<>>) BY <1>1, <1>4 DEF EndsIn
<1> QED BY <1>3, <1>5

LEMMA EndsInTransitive ==
  ASSUME NEW T, NEW a \in Seq(T), NEW b \in Seq(T), NEW c \in Seq(T), EndsIn(a, b), EndsIn(b, c)
  PROVE  EndsIn(a, c)
<1> DEFINE k == Len(a)
           m == Len(b)
           n == Len(c)
<1>1. k \in Nat /\ m \in Nat /\ n \in Nat OBVIOUS
<1>2. m <= k /\ n <= m /\ (\A i \in 1 .. m : b[i] = a[k - m + i]) /\ \A i \in 1 .. n : c[i] = b[m - n + i]
  BY DEF EndsIn
<1> HIDE DEF k, m, n
<1>3. n <= k /\ \A i \in 1 .. n : m - n + i \in 1 .. m /\ k - m + (m - n + i) = k - n + i
  BY <1>1, <1>2
<1>4. \A i \in 1 .. n : c[i] = a[k - n + i] BY <1>2, <1>3, Zenon
<1> QED BY <1>3, <1>4 DEF EndsIn, k, n

LEMMA EndsInSame ==
  ASSUME NEW T, NEW a \in Seq(T), NEW b \in Seq(T), EndsIn(a, b), Len(a) = Len(b)
  PROVE  a = b
<1> DEFINE n == Len(b)
<1>1. n \in Nat /\ Len(a) = n OBVIOUS
<1>2. \A i \in 1 .. n : b[i] = a[n - n + i] BY DEF EndsIn
<1> HIDE DEF n
<1>3. \A i \in 1 .. n : n - n + i = i BY <1>1
<1>4. \A i \in 1 .. n : b[i] = a[i] BY <1>2, <1>3, Zenon
<1> QED BY <1>1, <1>4, SeqEqual, Zenon DEF n

\* Of two that end the same the shorter ends the longer.
LEMMA EndsInBoth ==
  ASSUME NEW T, NEW a \in Seq(T), NEW b \in Seq(T), NEW c \in Seq(T),
         EndsIn(a, b), EndsIn(a, c), Len(c) <= Len(b)
  PROVE  EndsIn(b, c)
<1> DEFINE k == Len(a)
           m == Len(b)
           n == Len(c)
<1>1. k \in Nat /\ m \in Nat /\ n \in Nat /\ n <= m OBVIOUS
<1>2. m <= k /\ n <= k /\ (\A i \in 1 .. m : b[i] = a[k - m + i]) /\ \A i \in 1 .. n : c[i] = a[k - n + i]
  BY DEF EndsIn
<1> HIDE DEF k, m, n
<1>3. \A i \in 1 .. n : m - n + i \in 1 .. m /\ k - m + (m - n + i) = k - n + i
  BY <1>1, <1>2
<1>4. \A i \in 1 .. n : c[i] = b[m - n + i] BY <1>2, <1>3, Zenon
<1> QED BY <1>1, <1>4 DEF EndsIn, m, n

LEMMA AppendEnds ==
  ASSUME NEW T, NEW a \in Seq(T), NEW b \in Seq(T), NEW x \in T, EndsIn(a, b)
  PROVE  EndsIn(Append(a, x), Append(b, x))
<1> DEFINE k == Len(a)
           m == Len(b)
           c == Append(a, x)
           d == Append(b, x)
<1>1. /\ k \in Nat /\ m \in Nat /\ Len(c) = k + 1 /\ Len(d) = m + 1
      /\ c[k + 1] = x /\ d[m + 1] = x
      /\ (\A i \in 1 .. k : c[i] = a[i]) /\ \A i \in 1 .. m : d[i] = b[i]
  OBVIOUS
<1>2. m <= k /\ \A i \in 1 .. m : b[i] = a[k - m + i]
  BY DEF EndsIn
<1> HIDE DEF k, m, c, d
<1>3. /\ m + 1 <= k + 1
      /\ \A i \in 1 .. m : /\ k - m + i \in 1 .. k
                           /\ (k + 1) - (m + 1) + i = k - m + i
      /\ (k + 1) - (m + 1) + (m + 1) = k + 1
      /\ \A i \in 1 .. m + 1 : i \in 1 .. m \/ i = m + 1
  BY <1>1, <1>2
<1>4. \A i \in 1 .. m : d[i] = c[(k + 1) - (m + 1) + i] BY <1>1, <1>2, <1>3, Zenon
<1>5. d[m + 1] = c[(k + 1) - (m + 1) + (m + 1)] BY <1>1, <1>3, Zenon
<1>6. \A i \in 1 .. m + 1 : d[i] = c[(k + 1) - (m + 1) + i] BY <1>3, <1>4, <1>5, Zenon
<1>7. EndsIn(c, d) BY <1>1, <1>3, <1>6, Zenon DEF EndsIn
<1> QED BY <1>7 DEF c, d

LEMMA EndsAppend ==
  ASSUME NEW T, NEW a \in Seq(T), NEW l \in Seq(T), NEW x \in T, EndsIn(Append(a, x), l), l # <<>>
  PROVE  Last(l) = x /\ EndsIn(a, Front(l))
<1> DEFINE k == Len(a)
           n == Len(l)
           c == Append(a, x)
           f == Front(l)
<1>1. /\ f \in Seq(T) /\ n \in Nat \ {0} /\ Len(f) = n - 1 /\ Last(l) = l[n]
      /\ \A i \in 1 .. n - 1 : f[i] = l[i]
  BY FrontLast
<1>2. k \in Nat /\ Len(c) = k + 1 /\ c[k + 1] = x /\ \A i \in 1 .. k : c[i] = a[i]
  OBVIOUS
<1> HIDE DEF k, c, n, f
<1>3. n <= k + 1 /\ \A i \in 1 .. n : l[i] = c[(k + 1) - n + i]
  <2>1. EndsIn(c, l) BY DEF c
  <2>2. \A u : Len(c) = u => n <= u /\ \A i \in 1 .. n : l[i] = c[u - n + i]
    BY <2>1, Zenon DEF EndsIn, n
  <2> QED BY <1>2, <2>2, Zenon
<1>4. /\ n - 1 <= k /\ n \in 1 .. n /\ (k + 1) - n + n = k + 1
      /\ \A i \in 1 .. n - 1 : /\ i \in 1 .. n /\ (k + 1) - n + i \in 1 .. k
                               /\ k - (n - 1) + i = (k + 1) - n + i
  BY <1>1, <1>2, <1>3
<1>5. l[n] = x BY <1>2, <1>3, <1>4, Zenon
<1>6. \A i \in 1 .. n - 1 : f[i] = a[k - (n - 1) + i] BY <1>1, <1>2, <1>3, <1>4, Zenon
<1>7. EndsIn(a, f) BY <1>1, <1>4, <1>6, Zenon DEF EndsIn, k
<1> QED BY <1>1, <1>5, <1>7, Zenon DEF f

----------------------------------------------------------------------------
(* The lists are what words begin with.                                    *)

Bytes == DOMAIN Folded
Begins(l, w) == Len(l) <= Len(w) /\ \A k \in 1 .. Len(l) : l[k] = w[k]

LEMMA BeginningIs ==
  ASSUME NEW T, NEW w \in Seq(T), NEW n \in 0 .. Len(w)
  PROVE  /\ SubSeq(w, 1, n) \in Seq(T) /\ Len(SubSeq(w, 1, n)) = n
         /\ \A k \in 1 .. n : SubSeq(w, 1, n)[k] = w[k]
         /\ Begins(SubSeq(w, 1, n), w)
<1> DEFINE m == Len(w)
           s == SubSeq(w, 1, n)
<1>1. m \in Nat /\ n \in 0 .. m /\ \A k \in 1 .. m : w[k] \in T OBVIOUS
<1>2. /\ n \in Int /\ 1 \in Int /\ n - 1 + 1 = n /\ n <= m
      /\ (IF 1 <= n THEN n - 1 + 1 ELSE 0) = n
      /\ \A k \in 1 .. n : k \in 1 .. m /\ 1 + k - 1 = k
  <2> HIDE DEF m
  <2> QED BY <1>1
<1>3. \A k \in 1 .. n : w[k] \in T BY <1>1, <1>2
<1>4. /\ s \in Seq(T) /\ Len(s) = (IF 1 <= n THEN n - 1 + 1 ELSE 0)
      /\ \A k \in 1 .. n - 1 + 1 : s[k] = w[1 + k - 1]
  BY <1>2, <1>3, SubSeqProperties
<1> HIDE DEF s
<1>5. s \in Seq(T) /\ Len(s) = n /\ \A k \in 1 .. n : s[k] = w[k] BY <1>2, <1>4, Zenon
<1> HIDE DEF m
<1>6. Begins(s, w) BY <1>2, <1>5 DEF Begins, m
<1> QED BY <1>5, <1>6, Zenon DEF s

LEMMA PrefixBegins ==
  ASSUME NEW T, NEW l \in Seq(T), NEW w \in Seq(T)
  PROVE  IsPrefix(l, w) <=> Begins(l, w)
<1> DEFINE n == Len(l)
           a == SubSeq(l, 1, n)
           b == SubSeq(w, 1, n)
<1>1. n \in Nat /\ a = l /\ Len(w) \in Nat OBVIOUS
<1>2. ASSUME n <= Len(w)
      PROVE  b = l <=> \A k \in 1 .. n : l[k] = w[k]
  <2>1. n \in 0 .. Len(w) BY <1>1, <1>2
  <2> HIDE DEF n
  <2>2. b \in Seq(T) /\ Len(b) = n /\ \A k \in 1 .. n : b[k] = w[k]
    BY <2>1, BeginningIs
  <2> HIDE DEF b
  <2>3. ASSUME \A k \in 1 .. n : l[k] = w[k]
        PROVE  b = l
    <3>1. Len(b) = Len(l) /\ \A k \in 1 .. Len(b) : b[k] = l[k] BY <2>2, <2>3 DEF n
    <3> QED BY <2>2, <3>1, SeqEqual, Zenon
  <2> QED BY <2>2, <2>3
<1> HIDE DEF a, b, n
<1>3. IsPrefix(l, w) <=> n <= Len(w) /\ a = b BY DEF IsPrefix, n, a, b
<1>4. Begins(l, w) <=> n <= Len(w) /\ \A k \in 1 .. n : l[k] = w[k] BY DEF Begins, n
<1> QED BY <1>1, <1>2, <1>3, <1>4

LEMMA PrefixesAre ==
  ASSUME NEW T, NEW w \in Seq(T)
  PROVE  \A l : l \in Prefixes(w) <=> l \in Seq(T) /\ Begins(l, w)
<1>1. ASSUME NEW n \in 0 .. Len(w)
      PROVE  SubSeq(w, 1, n) \in Seq(T) /\ Begins(SubSeq(w, 1, n), w)
  BY BeginningIs
<1>2. ASSUME NEW l \in Seq(T), Begins(l, w)
      PROVE  \E n \in 0 .. Len(w) : l = SubSeq(w, 1, n)
  <2> DEFINE n == Len(l)
             s == SubSeq(w, 1, n)
  <2>1. n \in Nat /\ Len(w) \in Nat /\ n <= Len(w) /\ \A k \in 1 .. n : l[k] = w[k]
    BY <1>2 DEF Begins
  <2>2. n \in 0 .. Len(w) BY <2>1
  <2> HIDE DEF n
  <2>3. s \in Seq(T) /\ Len(s) = n /\ \A k \in 1 .. n : s[k] = w[k] BY <2>2, BeginningIs
  <2> HIDE DEF s
  <2>4. Len(l) = Len(s) /\ \A k \in 1 .. Len(l) : l[k] = s[k] BY <2>1, <2>3 DEF n
  <2>5. l = s BY <2>3, <2>4, SeqEqual, Zenon
  <2> QED BY <2>2, <2>5 DEF s
<1> QED BY <1>1, <1>2, Zenon DEF Prefixes

LEMMA WordsAre ==
  ASSUME words \in Patterns
  PROVE  /\ Len(words) \in Nat \ {0} /\ DOMAIN words = 1 .. Len(words)
         /\ \A i \in DOMAIN words : /\ words[i] \in Seq(Bytes) /\ words[i] # <<>>
                                    /\ Len(words[i]) \in Nat \ {0}
                                    /\ \A k \in 1 .. Len(words[i]) :
                                         words[i][k] \in Bytes \ {newline}
<1> DEFINE Letters == Bytes \ {newline}
<1>1. words # <<>> /\ words \in Seq(Seq(Letters)) /\ \A i \in DOMAIN words : words[i] # <<>>
  BY LiteralAssumption DEF Bytes
<1> HIDE DEF Letters
<1>2. Len(words) \in Nat \ {0} /\ DOMAIN words = 1 .. Len(words) BY <1>1, EmptySeq
<1>3. ASSUME NEW i \in DOMAIN words
      PROVE  /\ words[i] \in Seq(Letters) /\ Len(words[i]) \in Nat \ {0}
             /\ \A k \in 1 .. Len(words[i]) : words[i][k] \in Letters
  <2>1. words[i] \in Seq(Letters) /\ words[i] # <<>> BY <1>1, <1>2
  <2>2. Len(words[i]) \in Nat \ {0} BY <2>1, EmptySeq
  <2> QED BY <2>1, <2>2
<1>4. Letters \subseteq Bytes BY DEF Letters
<1>5. \A i \in DOMAIN words : words[i] \in Seq(Bytes) BY <1>3, <1>4, SeqMonotonic
<1> QED BY <1>1, <1>2, <1>3, <1>5 DEF Letters

LEMMA InLists ==
  ASSUME words \in Patterns
  PROVE  \A l : l \in Lists <=> l \in Seq(Bytes) /\ \E i \in DOMAIN words : Begins(l, words[i])
<1>1. \A i \in DOMAIN words : words[i] \in Seq(Bytes) BY WordsAre
<1>2. \A i \in DOMAIN words : \A l : l \in Prefixes(words[i]) <=> l \in Seq(Bytes) /\ Begins(l, words[i])
  BY <1>1, PrefixesAre
<1>3. \A l : l \in Lists <=> \E i \in DOMAIN words : l \in Prefixes(words[i]) BY Zenon DEF Lists
<1> QED BY <1>2, <1>3, Zenon

LEMMA ListsAre ==
  ASSUME words \in Patterns
  PROVE  /\ \A l \in Lists : l \in Seq(Bytes) /\ Len(l) \in Nat
         /\ <<>> \in Lists
         /\ \A i \in DOMAIN words : words[i] \in Lists
         /\ \A l \in Lists : l # <<>> => Front(l) \in Lists /\ Len(Front(l)) = Len(l) - 1
<1>1. /\ DOMAIN words # {} /\ \A i \in DOMAIN words : words[i] \in Seq(Bytes)
  <2>1. Len(words) \in Nat \ {0} /\ DOMAIN words = 1 .. Len(words) BY WordsAre
  <2>2. 1 \in DOMAIN words BY <2>1
  <2> QED BY <2>2, WordsAre
<1>2. \A l \in Lists : l \in Seq(Bytes) BY InLists, Zenon
<1>3. \A l \in Seq(Bytes) : Len(l) \in Nat OBVIOUS
<1>4. <<>> \in Lists
  <2>1. \A w \in Seq(Bytes) : Len(<<>>) <= Len(w) /\ 1 .. Len(<<>>) = {} OBVIOUS
  <2>2. \A w \in Seq(Bytes) : Begins(<<>>, w) BY <2>1, Zenon DEF Begins
  <2>3. <<>> \in Seq(Bytes) OBVIOUS
  <2> QED BY <1>1, <2>2, <2>3, InLists, Zenon
<1>5. ASSUME NEW i \in DOMAIN words PROVE words[i] \in Lists
  <2>1. Len(words[i]) <= Len(words[i]) BY WordsAre
  <2>2. Begins(words[i], words[i]) BY <2>1, Zenon DEF Begins
  <2> QED BY <1>1, <2>2, InLists, Zenon
<1>6. ASSUME NEW l \in Lists, l # <<>>
      PROVE  Front(l) \in Lists /\ Len(Front(l)) = Len(l) - 1
  <2>1. PICK i \in DOMAIN words : Begins(l, words[i]) BY InLists, Zenon
  <2> DEFINE n == Len(l)
             f == Front(l)
             w == words[i]
  <2>2. l \in Seq(Bytes) BY <1>2
  <2>3. f \in Seq(Bytes) /\ n \in Nat \ {0} /\ Len(f) = n - 1 /\ \A k \in 1 .. n - 1 : f[k] = l[k]
    BY <1>6, <2>2, FrontLast, Zenon
  <2>4. n <= Len(w) /\ \A k \in 1 .. n : l[k] = w[k] BY <2>1 DEF Begins
  <2>5. Len(w) \in Nat BY WordsAre
  <2> HIDE DEF n, f, w
  <2>6. n - 1 <= Len(w) /\ \A k \in 1 .. n - 1 : k \in 1 .. n BY <2>3, <2>4, <2>5
  <2>7. \A k \in 1 .. n - 1 : f[k] = w[k] BY <2>3, <2>4, <2>6, Zenon
  <2>8. Begins(f, w) BY <2>3, <2>6, <2>7, Zenon DEF Begins
  <2> QED BY <2>3, <2>8, InLists, Zenon DEF n, f, w
<1> QED BY <1>2, <1>3, <1>4, <1>5, <1>6

LEMMA ListsBounded ==
  ASSUME words \in Patterns
  PROVE  \E N \in Nat : \A l \in Lists : Len(l) \in 0 .. N
<1> DEFINE D == DOMAIN words
           S == {Len(words[i]) : i \in D}
           size == [i \in D |-> Len(words[i])]
<1>1. /\ Len(words) \in Nat \ {0} /\ D = 1 .. Len(words)
      /\ \A i \in D : Len(words[i]) \in Nat
  BY WordsAre
<1>2. IsFiniteSet(D) /\ 1 \in D BY <1>1, FS_Interval
<1>3. S \subseteq Nat /\ S # {}
  <2> HIDE DEF D
  <2> QED BY <1>1, <1>2
<1>4. size \in Surjection(D, S)
  <2> HIDE DEF D
  <2> QED BY DEF Surjection
<1>5. IsFiniteSet(S)
  <2> HIDE DEF D, S, size
  <2> QED BY <1>2, <1>4, FS_Surjection
<1>6. Max(S) \in S /\ \A n \in S : Max(S) >= n
  <2> HIDE DEF S
  <2> QED BY <1>3, <1>5, MaxIs
<1> DEFINE N == Max(S)
<1>7. N \in Nat BY <1>3, <1>6
<1>8. \A i \in D : N >= Len(words[i]) BY <1>6
<1>9. ASSUME NEW l \in Lists PROVE Len(l) \in 0 .. N
  <2>1. PICK i \in D : Begins(l, words[i]) BY InLists, Zenon
  <2>2. Len(l) <= Len(words[i]) BY <2>1 DEF Begins
  <2>3. Len(l) \in Nat BY ListsAre
  <2>4. N >= Len(words[i]) /\ Len(words[i]) \in Nat BY <1>1, <1>8
  <2> HIDE DEF N
  <2> QED BY <1>7, <2>2, <2>3, <2>4
<1> HIDE DEF N
<1> QED BY <1>7, <1>9

LEMMA ThroughIs ==
  ASSUME words \in Patterns, NEW list \in Lists
  PROVE  /\ Through(list) = {i \in DOMAIN words : Begins(list, words[i])}
         /\ Through(list) # {} /\ Came(list) \in Through(list)
<1>1. list \in Seq(Bytes) /\ \A i \in DOMAIN words : words[i] \in Seq(Bytes) BY ListsAre, WordsAre
<1>2. \A i \in DOMAIN words : IsPrefix(list, words[i]) <=> Begins(list, words[i])
  BY <1>1, PrefixBegins
<1>3. Through(list) = {i \in DOMAIN words : Begins(list, words[i])} BY <1>2, Zenon DEF Through
<1>4. Through(list) # {} BY <1>3, InLists, Zenon
<1>5. Through(list) \subseteq Nat
  <2>1. DOMAIN words = 1 .. Len(words) BY WordsAre
  <2> QED BY <1>3, <2>1
<1> QED BY <1>3, <1>4, <1>5, LeastIs DEF Came

\* A list and a letter after it.
LEMMA BeginsAppend ==
  ASSUME NEW T, NEW l \in Seq(T), NEW w \in Seq(T), NEW y \in T
  PROVE  Begins(Append(l, y), w) <=> Begins(l, w) /\ Len(w) > Len(l) /\ w[Len(l) + 1] = y
<1> DEFINE n == Len(l)
           m == Len(w)
           a == Append(l, y)
<1>1. /\ n \in Nat /\ m \in Nat /\ Len(a) = n + 1 /\ a[n + 1] = y
      /\ \A k \in 1 .. n : a[k] = l[k]
  OBVIOUS
<1> HIDE DEF n, m, a
<1>2. Begins(a, w) <=> n + 1 <= m /\ \A k \in 1 .. n + 1 : a[k] = w[k] BY <1>1 DEF Begins, m
<1>3. Begins(l, w) <=> n <= m /\ \A k \in 1 .. n : l[k] = w[k] BY DEF Begins, n, m
<1>4. /\ n + 1 <= m <=> n <= m /\ m > n
      /\ n + 1 \in 1 .. n + 1
      /\ \A k \in 1 .. n + 1 : k \in 1 .. n \/ k = n + 1
      /\ \A k \in 1 .. n : k \in 1 .. n + 1
  BY <1>1
<1>5. (\A k \in 1 .. n + 1 : a[k] = w[k]) <=> (\A k \in 1 .. n : l[k] = w[k]) /\ w[n + 1] = y
  BY <1>1, <1>4, Zenon
<1>6. Begins(a, w) <=> Begins(l, w) /\ m > n /\ w[n + 1] = y BY <1>2, <1>3, <1>4, <1>5, Zenon
<1> QED BY <1>6 DEF a, m, n

LEMMA ToIs ==
  ASSUME words \in Patterns, NEW list \in Lists, NEW i \in Through(list), Len(words[i]) > Len(list)
  PROVE  /\ Letter(list, i) \in Bytes \ {newline}
         /\ To(list, i) = Append(list, Letter(list, i)) /\ To(list, i) \in Lists
         /\ i \in DOMAIN words
<1> DEFINE w == words[i]
           n == Len(list)
           y == Letter(list, i)
           t == To(list, i)
           a == Append(list, y)
<1>1. i \in DOMAIN words /\ Begins(list, w) BY ThroughIs
<1>2. /\ list \in Seq(Bytes) /\ w \in Seq(Bytes) /\ n \in Nat /\ Len(w) \in Nat
      /\ Len(w) > n /\ \A k \in 1 .. Len(w) : w[k] \in Bytes \ {newline}
  BY <1>1, ListsAre, WordsAre
<1>3. y = w[n + 1] /\ t = SubSeq(w, 1, n + 1) BY DEF Letter, To
<1> HIDE DEF w, y, t
<1>4. y \in Bytes \ {newline} BY <1>2, <1>3
<1>5. n + 1 \in 0 .. Len(w)
  <2> HIDE DEF n
  <2> QED BY <1>2
<1>6. t \in Seq(Bytes) /\ Len(t) = n + 1 /\ Begins(t, w) /\ \A k \in 1 .. n + 1 : t[k] = w[k]
  <2> HIDE DEF n
  <2> QED BY <1>2, <1>3, <1>5, BeginningIs
<1>7. t \in Lists BY <1>1, <1>6, InLists, Zenon DEF w
<1>8. t = a
  <2>1. a \in Seq(Bytes) /\ Len(a) = n + 1 /\ a[n + 1] = y /\ \A k \in 1 .. n : a[k] = list[k]
    BY <1>2, <1>4
  <2>2. \A k \in 1 .. n : list[k] = w[k] BY <1>1 DEF Begins, w
  <2>3. /\ \A k \in 1 .. n + 1 : k \in 1 .. n \/ k = n + 1
    <3> HIDE DEF n
    <3> QED BY <1>2
  <2> HIDE DEF n, a
  <2>4. \A k \in 1 .. n + 1 : t[k] = a[k] BY <1>3, <1>6, <2>1, <2>2, <2>3, Zenon
  <2> QED BY <1>6, <2>1, <2>4, SeqEqual, Zenon
<1> QED BY <1>1, <1>4, <1>7, <1>8, Zenon DEF y, t

\* The nodes of a list: one for each letter that leads on from it.
LEMMA KidsAre ==
  ASSUME words \in Patterns, NEW list \in Lists
  PROVE  /\ \A i \in KidsOf(list) : /\ i \in 1 .. Len(words)
                                    /\ Letter(list, i) \in Bytes \ {newline}
                                    /\ To(list, i) = Append(list, Letter(list, i))
                                    /\ To(list, i) \in Lists
         /\ \A y \in Bytes : Append(list, y) \in Lists =>
              \E i \in KidsOf(list) : Letter(list, i) = y
<1>1. DOMAIN words = 1 .. Len(words) BY WordsAre
<1>2. ASSUME NEW i \in KidsOf(list)
      PROVE  /\ i \in 1 .. Len(words)
             /\ Letter(list, i) \in Bytes \ {newline}
             /\ To(list, i) = Append(list, Letter(list, i))
             /\ To(list, i) \in Lists
  <2>1. i \in Through(list) /\ Len(words[i]) > Len(list) BY DEF KidsOf
  <2> QED BY <1>1, <2>1, ToIs
<1>3. ASSUME NEW y \in Bytes, Append(list, y) \in Lists
      PROVE  \E i \in KidsOf(list) : Letter(list, i) = y
  <2> DEFINE a == Append(list, y)
             i == Came(a)
  <2>1. i \in Through(a) /\ i \in DOMAIN words /\ Begins(a, words[i])
    <3> HIDE DEF a
    <3> QED BY <1>3, ThroughIs DEF a
  <2>2. list \in Seq(Bytes) /\ words[i] \in Seq(Bytes) BY <2>1, ListsAre, WordsAre
  <2> HIDE DEF i
  <2>3. Begins(list, words[i]) /\ Len(words[i]) > Len(list) /\ words[i][Len(list) + 1] = y
    BY <2>1, <2>2, BeginsAppend
  <2>4. i \in Through(list) BY <2>1, <2>3, ThroughIs
  <2>5. To(list, i) = a /\ Letter(list, i) = y
    <3>1. Letter(list, i) = y BY <2>3 DEF Letter
    <3> QED BY <2>3, <2>4, <3>1, ToIs, Zenon
  <2>6. i \in KidsOf(list) BY <2>3, <2>4, <2>5, Zenon DEF KidsOf, i
  <2> QED BY <2>5, <2>6
<1> QED BY <1>2, <1>3, Zenon

----------------------------------------------------------------------------
(* The links of the lists.                                                 *)

ListRank == [l \in Lists |-> Len(l)]

LEMMA RankIs ==
  ASSUME words \in Patterns
  PROVE  ListRank \in [Lists -> Nat] /\ \A l \in Lists : ListRank[l] = Len(l)
BY ListsAre DEF ListRank

LEMMA FailIs ==
  ASSUME words \in Patterns
  PROVE  /\ FailLinks \in [Lists -> SUBSET Lists]
         /\ \A l \in Lists : FailLinks[l] = FailLists(FailLinks, l)
<1> DEFINE D == SUBSET Lists
           F == [Lists -> D]
           step == [f \in F |-> [l \in Lists |-> FailLists(f, l)]]
           Eq(f) == f = [l \in Lists |-> FailLists(f, l)]
           R == CHOOSE f : Eq(f)
<1>1. PICK N \in Nat : \A l \in Lists : Len(l) \in 0 .. N BY ListsBounded
<1>2. ListRank \in [Lists -> 0 .. N] /\ \A l \in Lists : ListRank[l] = Len(l)
  BY <1>1, RankIs DEF ListRank
<1>3. \A f : \A l \in Lists : FailLists(f, l) \in D
  <2>1. ASSUME NEW f, NEW l \in Lists PROVE FailLists(f, l) \in D
    <3>1. CASE Len(l) <= 1
      <4>1. FailLists(f, l) = {} BY <3>1, Zenon DEF FailLists
      <4> QED BY <4>1
    <3>2. CASE ~ (Len(l) <= 1)
      <4> DEFINE on == {Append(g, Last(l)) : g \in f[Front(l)]} \cap Lists
      <4>1. FailLists(f, l) = IF on # {} THEN on ELSE {<<Last(l)>>} \cap Lists
        BY <3>2, Zenon DEF FailLists
      <4>2. on \subseteq Lists /\ {<<Last(l)>>} \cap Lists \subseteq Lists
        BY Zenon
      <4> HIDE DEF on
      <4> QED BY <4>1, <4>2
    <3> QED BY <3>1, <3>2
  <2> QED BY <2>1
<1>4. step \in [F -> F] /\ \A f \in F : step[f] = [l \in Lists |-> FailLists(f, l)]
  <2>1. \A f \in F : [l \in Lists |-> FailLists(f, l)] \in F BY <1>3
  <2> HIDE DEF F
  <2> QED BY <2>1
<1>5. ASSUME NEW f \in F, NEW g \in F, NEW l \in Lists,
             \A k \in Lists : ListRank[k] < ListRank[l] => f[k] = g[k]
      PROVE  step[f][l] = step[g][l]
  <2>1. step[f][l] = FailLists(f, l) /\ step[g][l] = FailLists(g, l)
    <3> HIDE DEF step, F
    <3> QED BY <1>4
  <2>2. FailLists(f, l) = FailLists(g, l)
    <3>1. CASE Len(l) <= 1 BY <3>1, Zenon DEF FailLists
    <3>2. CASE ~ (Len(l) <= 1)
      <4>1. l # <<>> /\ Front(l) \in Lists /\ Len(Front(l)) = Len(l) - 1 /\ Len(l) \in Nat
        <5>1. l # <<>> BY <3>2
        <5> QED BY <5>1, ListsAre
      <4>2. Len(Front(l)) < Len(l) BY <4>1
      <4>3. f[Front(l)] = g[Front(l)] BY <1>2, <1>5, <4>1, <4>2, Zenon
      <4> QED BY <4>3, Zenon DEF FailLists
    <3> QED BY <3>1, <3>2
  <2> QED BY <2>1, <2>2, Zenon
<1>6. \E f \in F : f = step[f]
  <2>1. F # {}
    <3>1. [l \in Lists |-> {}] \in F OBVIOUS
    <3> QED BY <3>1
  <2> HIDE DEF step
  <2>2. Ranked(Lists, N, ListRank, D, step) BY <1>2, <1>4, <1>5, <2>1, Zenon DEF Ranked
  <2>3. \E f : FixedBy(f, Lists, D, step)
    <3> HIDE DEF F
    <3> QED BY <2>2, RankRecursion, Zenon
  <2> QED BY <2>3, Zenon DEF FixedBy
<1>7. \E f : Eq(f)
  <2> HIDE DEF F, step
  <2> QED BY <1>4, <1>6, Zenon
<1>8. FailLinks = R BY Zenon DEF FailLinks
<1>9. Eq(R)
  <2>1. PICK f : Eq(f) BY <1>7
  <2> HIDE DEF Eq
  <2> QED BY <2>1, Zenon
<1>10. FailLinks = [l \in Lists |-> FailLists(FailLinks, l)] BY <1>8, <1>9, Zenon
<1> HIDE DEF R
<1>11. \A l \in Lists : FailLinks[l] = FailLists(FailLinks, l) BY <1>10, Zenon
<1>12. FailLinks \in [Lists -> SUBSET Lists] BY <1>3, <1>10, Zenon
<1> QED BY <1>11, <1>12

\* Each goes to shorter lists that end the one it leads from.
LEMMA FailEnds ==
  ASSUME words \in Patterns, NEW l \in Lists, NEW f \in FailLinks[l]
  PROVE  f \in Lists /\ f # <<>> /\ Len(f) < Len(l) /\ EndsIn(l, f)
<1> DEFINE Right(x, y) == y \in Lists /\ y # <<>> /\ Len(y) < Len(x) /\ EndsIn(x, y)
           S == {x \in Lists : \A y \in FailLinks[x] : Right(x, y)}
<1>1. ASSUME NEW x \in Lists, \A z \in Lists : ListRank[z] < ListRank[x] => z \in S
      PROVE  x \in S
  <2> SUFFICES ASSUME NEW y \in FailLinks[x] PROVE Right(x, y) OBVIOUS
  <2>1. y \in FailLists(FailLinks, x) /\ y \in Lists BY FailIs
  <2>2. ~ (Len(x) <= 1) BY <2>1, Zenon DEF FailLists
  <2> DEFINE on == {Append(g, Last(x)) : g \in FailLinks[Front(x)]} \cap Lists
  <2>3. y \in on \/ y = <<Last(x)>>
    <3>1. FailLists(FailLinks, x) = IF on # {} THEN on ELSE {<<Last(x)>>} \cap Lists
      BY <2>2, Zenon DEF FailLists
    <3> HIDE DEF on
    <3> QED BY <2>1, <3>1
  <2>4. x # <<>> /\ x \in Seq(Bytes) /\ y \in Seq(Bytes) /\ Len(x) \in Nat
    <3>1. x \in Seq(Bytes) /\ y \in Seq(Bytes) /\ Len(x) \in Nat BY <2>1, ListsAre
    <3>2. x # <<>> BY <2>2
    <3> QED BY <3>1, <3>2
  <2> DEFINE b == Front(x)
             c == Last(x)
  <2>5. /\ b \in Lists /\ b \in Seq(Bytes) /\ c \in Bytes /\ Len(b) = Len(x) - 1
        /\ x = Append(b, c)
    BY <2>4, FrontLast, ListsAre
  <2> HIDE DEF b, c
  <2>6. ASSUME NEW g \in Seq(Bytes), EndsIn(b, g), Len(g) < Len(b), y = Append(g, c)
        PROVE  Right(x, y)
    <3>1. EndsIn(x, y) BY <2>5, <2>6, AppendEnds
    <3>2. Len(y) = Len(g) + 1 /\ Len(g) \in Nat BY <2>5, <2>6
    <3>3. Len(y) < Len(x) BY <2>4, <2>5, <2>6, <3>2
    <3>4. y # <<>>
      <4>1. Len(<<>>) = 0 /\ Len(y) # 0 BY <3>2
      <4> QED BY <4>1
    <3> QED BY <2>1, <3>1, <3>3, <3>4
  <2>7. CASE y \in on
    <3>1. PICK g \in FailLinks[b] : y = Append(g, c) BY <2>7, Zenon DEF b, c
    <3>2. ListRank[b] < ListRank[x]
      <4>1. ListRank[b] = Len(b) /\ ListRank[x] = Len(x) BY <2>5, RankIs, Zenon
      <4>2. Len(b) < Len(x) BY <2>4, <2>5
      <4> QED BY <4>1, <4>2, Zenon
    <3>3. b \in S BY <1>1, <2>5, <3>2, Zenon
    <3>4. Right(b, g) BY <3>1, <3>3, Zenon
    <3>5. g \in Seq(Bytes) BY <3>4, ListsAre
    <3> QED BY <2>6, <3>1, <3>4, <3>5, Zenon
  <2>8. CASE y = <<Last(x)>>
    <3>1. EndsIn(b, <<>>) BY <2>5, EndsInSelf
    <3>2. <<>> \in Seq(Bytes) /\ Len(<<>>) = 0 OBVIOUS
    <3>3. Len(<<>>) < Len(b) BY <2>2, <2>4, <2>5, <3>2
    <3>4. y = Append(<<>>, c) BY <2>8 DEF c
    <3> QED BY <2>6, <3>1, <3>2, <3>3, <3>4, Zenon
  <2> QED BY <2>3, <2>7, <2>8
<1>2. \A x \in Lists : x \in S
  <2> HIDE DEF S
  <2> QED BY <1>1, RankIs, RankInduction
<1> QED BY <1>2

LEMMA OutIs ==
  ASSUME words \in Patterns
  PROVE  /\ OutLists \subseteq Lists
         /\ \A l \in Lists : l \in OutLists <=> l \in Marked \/ \E f \in FailLinks[l] : f \in OutLists
<1> DEFINE F == [Lists -> BOOLEAN]
           B(o, l) == l \in Marked \/ \E f \in FailLinks[l] : o[f]
           step == [o \in F |-> [l \in Lists |-> B(o, l)]]
           Eq(o) == o = [l \in Lists |-> B(o, l)]
           R == CHOOSE o : Eq(o)
<1>1. PICK N \in Nat : \A l \in Lists : Len(l) \in 0 .. N BY ListsBounded
<1>2. ListRank \in [Lists -> 0 .. N] /\ \A l \in Lists : ListRank[l] = Len(l)
  BY <1>1, RankIs DEF ListRank
<1>3. \A o : \A l \in Lists : B(o, l) \in BOOLEAN BY Zenon
<1>4. step \in [F -> F] /\ \A o \in F : step[o] = [l \in Lists |-> B(o, l)]
  <2> HIDE DEF B
  <2>1. \A o \in F : [l \in Lists |-> B(o, l)] \in F BY <1>3
  <2> HIDE DEF F
  <2> QED BY <2>1
<1>5. ASSUME NEW f \in F, NEW g \in F, NEW l \in Lists,
             \A k \in Lists : ListRank[k] < ListRank[l] => f[k] = g[k]
      PROVE  step[f][l] = step[g][l]
  <2>1. step[f][l] = B(f, l) /\ step[g][l] = B(g, l)
    <3> HIDE DEF step, F, B
    <3> QED BY <1>4
  <2>2. \A k \in FailLinks[l] : f[k] = g[k] BY <1>2, <1>5, FailEnds, Zenon
  <2>3. B(f, l) = B(g, l)
    <3>1. B(f, l) <=> B(g, l) BY <2>2, Zenon
    <3>2. B(f, l) \in BOOLEAN /\ B(g, l) \in BOOLEAN BY <1>3, Zenon
    <3> HIDE DEF B
    <3> QED BY <3>1, <3>2
  <2> QED BY <2>1, <2>3, Zenon
<1>6. \E f \in F : f = step[f]
  <2>1. F # {}
    <3>1. [l \in Lists |-> TRUE] \in F OBVIOUS
    <3> QED BY <3>1
  <2> HIDE DEF step
  <2>2. Ranked(Lists, N, ListRank, BOOLEAN, step) BY <1>2, <1>4, <1>5, <2>1, Zenon DEF Ranked
  <2>3. \E f : FixedBy(f, Lists, BOOLEAN, step)
    <3> HIDE DEF F
    <3> QED BY <2>2, RankRecursion, Zenon
  <2> QED BY <2>3, Zenon DEF FixedBy
<1>7. \E f : Eq(f)
  <2> HIDE DEF F, step
  <2> QED BY <1>4, <1>6, Zenon
<1>8. OutLists = {l \in Lists : R[l]} BY Zenon DEF OutLists
<1>9. Eq(R)
  <2>1. PICK f : Eq(f) BY <1>7
  <2> HIDE DEF Eq
  <2> QED BY <2>1, Zenon
<1> HIDE DEF R
<1>10. \A l \in Lists : R[l] = B(R, l) BY <1>9, Zenon
<1>11. \A l \in Lists : l \in OutLists <=> B(R, l) BY <1>8, <1>10, Zenon
<1>12. \A f \in Lists : R[f] <=> f \in OutLists BY <1>8, Zenon
<1>13. \A l \in Lists : \A f \in FailLinks[l] : f \in Lists BY FailEnds, Zenon
<1>14. ASSUME NEW l \in Lists
       PROVE  l \in OutLists <=> l \in Marked \/ \E f \in FailLinks[l] : f \in OutLists
  <2>1. l \in OutLists <=> l \in Marked \/ \E f \in FailLinks[l] : R[f] BY <1>11, Zenon
  <2>2. \A f \in FailLinks[l] : R[f] <=> f \in OutLists BY <1>12, <1>13, Zenon
  <2> QED BY <2>1, <2>2, Zenon
<1>15. OutLists \subseteq Lists BY <1>8, Zenon
<1> QED BY <1>14, <1>15

\* A word ends a list that is out.
LEMMA OutEnds ==
  ASSUME words \in Patterns, NEW l \in OutLists
  PROVE  l \in Lists /\ \E i \in DOMAIN words : EndsIn(l, words[i])
<1> DEFINE S == {x \in Lists : x \in OutLists => \E i \in DOMAIN words : EndsIn(x, words[i])}
<1>1. ASSUME NEW x \in Lists, \A z \in Lists : ListRank[z] < ListRank[x] => z \in S
      PROVE  x \in S
  <2> SUFFICES ASSUME x \in OutLists PROVE \E i \in DOMAIN words : EndsIn(x, words[i])
    OBVIOUS
  <2>1. x \in Marked \/ \E f \in FailLinks[x] : f \in OutLists BY OutIs
  <2>2. CASE x \in Marked
    <3>1. PICK i \in DOMAIN words : x = words[i] BY <2>2, Zenon DEF Marked
    <3>2. words[i] \in Seq(Bytes) BY WordsAre
    <3>3. EndsIn(words[i], words[i]) BY <3>2, EndsInSelf
    <3> QED BY <3>1, <3>3
  <2>3. CASE \E f \in FailLinks[x] : f \in OutLists
    <3>1. PICK f \in FailLinks[x] : f \in OutLists BY <2>3
    <3>2. f \in Lists /\ Len(f) < Len(x) /\ EndsIn(x, f) BY FailEnds
    <3>3. f \in S BY <1>1, <3>2, RankIs
    <3>4. PICK i \in DOMAIN words : EndsIn(f, words[i]) BY <3>1, <3>3
    <3>5. x \in Seq(Bytes) /\ f \in Seq(Bytes) /\ words[i] \in Seq(Bytes)
      BY <3>2, ListsAre, WordsAre
    <3>6. EndsIn(x, words[i]) BY <3>2, <3>4, <3>5, EndsInTransitive
    <3> QED BY <3>6
  <2> QED BY <2>1, <2>2, <2>3
<1>2. \A x \in Lists : x \in S
  <2> HIDE DEF S
  <2> QED BY <1>1, RankIs, RankInduction
<1>3. l \in Lists BY OutIs
<1> QED BY <1>2, <1>3

----------------------------------------------------------------------------
(* The steps of the automaton.                                             *)

Made ==
  /\ words \in Patterns
  /\ kids = [list \in Lists |-> KidsOf(list)]
  /\ fail = FailLinks /\ out = OutLists

Place(l) == [list |-> l, from |-> 1]
LastKid == Max(kids[<<>>])
Places == [list : Lists, from : {1, LastKid}]

LEMMA LeadsAre ==
  ASSUME Made, NEW list \in Lists, NEW from, NEW x
  PROVE  /\ Leads(list, from, x) # {} =>
              \E y \in Bytes : /\ ccomp(y, x) /\ Append(list, y) \in Lists
                               /\ Child(list, Leads(list, from, x)) = Place(Append(list, y))
         /\ \A y \in Bytes : ccomp(y, x) /\ Append(list, y) \in Lists => Leads(list, 1, x) # {}
<1>1. words \in Patterns /\ kids[list] = KidsOf(list) BY Zenon DEF Made
<1>2. /\ \A i \in KidsOf(list) : /\ i \in 1 .. Len(words)
                                 /\ Letter(list, i) \in Bytes \ {newline}
                                 /\ To(list, i) = Append(list, Letter(list, i))
                                 /\ To(list, i) \in Lists
      /\ \A y \in Bytes : Append(list, y) \in Lists =>
           \E i \in KidsOf(list) : Letter(list, i) = y
  BY <1>1, KidsAre
<1>3. ASSUME Leads(list, from, x) # {}
      PROVE  \E y \in Bytes : /\ ccomp(y, x) /\ Append(list, y) \in Lists
                              /\ Child(list, Leads(list, from, x)) = Place(Append(list, y))
  <2> DEFINE S == Leads(list, from, x)
             i == Min(S)
  <2>1. \A j \in S : j \in KidsOf(list) /\ ccomp(Letter(list, j), x) BY <1>1, Zenon DEF Leads
  <2>2. S \subseteq Nat
    <3> HIDE DEF S
    <3> QED BY <1>2, <2>1
  <2>3. i \in S
    <3> HIDE DEF S
    <3>1. S # {} BY <1>3 DEF S
    <3> QED BY <2>2, <3>1, LeastIs
  <2>4. Child(list, S) = [list |-> To(list, i), from |-> 1] BY Zenon DEF Child
  <2> HIDE DEF S, i
  <2>5. i \in KidsOf(list) /\ ccomp(Letter(list, i), x) BY <2>1, <2>3
  <2>6. /\ Letter(list, i) \in Bytes /\ Append(list, Letter(list, i)) \in Lists
        /\ To(list, i) = Append(list, Letter(list, i))
    BY <1>2, <2>5
  <2>7. Child(list, S) = Place(Append(list, Letter(list, i))) BY <2>4, <2>6, Zenon DEF Place
  <2> QED BY <2>5, <2>6, <2>7, Zenon DEF S
<1>4. ASSUME NEW y \in Bytes, ccomp(y, x), Append(list, y) \in Lists
      PROVE  Leads(list, 1, x) # {}
  <2>1. PICK i \in KidsOf(list) : Letter(list, i) = y BY <1>2, <1>4, Zenon
  <2>2. i >= 1
    <3>1. i \in 1 .. Len(words) BY <1>2, Zenon
    <3>2. Len(words) \in Nat BY <1>1, WordsAre
    <3> QED BY <3>1, <3>2
  <2>3. i \in Leads(list, 1, x) BY <1>1, <1>4, <2>1, <2>2, Zenon DEF Leads
  <2> QED BY <2>3
<1> QED BY <1>3, <1>4, Zenon

\* The link that is followed.
LinkOf(list) == CHOOSE f \in fail[list] : TRUE

LEMMA LinkIs ==
  ASSUME Made, NEW list \in Lists, fail[list] # {}
  PROVE  /\ LinkOf(list) \in FailLinks[list] /\ LinkOf(list) \in Lists
         /\ Len(LinkOf(list)) < Len(list) /\ EndsIn(list, LinkOf(list))
<1>1. LinkOf(list) \in FailLinks[list] BY Zenon DEF LinkOf, Made
<1>2. words \in Patterns BY DEF Made
<1> HIDE DEF LinkOf
<1> QED BY <1>1, <1>2, FailEnds, Zenon

LEMMA OnwardLeads ==
  ASSUME NEW list, NEW from, NEW x, NEW fallen, Leads(list, from, x) # {}
  PROVE  Onward(list, from, x, fallen) = Child(list, Leads(list, from, x))
BY Zenon DEF Onward

LEMMA OnwardRoot ==
  ASSUME NEW list, NEW from, NEW x, NEW fallen, Leads(list, from, x) = {}, fail[list] = {}
  PROVE  Onward(list, from, x, fallen) = FromRoot(Leads(<<>>, 1, x))
BY Zenon DEF Onward

LEMMA OnwardLink ==
  ASSUME NEW list, NEW from, NEW x, NEW fallen, Leads(list, from, x) = {}, fail[list] # {}
  PROVE  Onward(list, from, x, fallen) = fallen[LinkOf(list)]
BY Zenon DEF Onward, LinkOf

\* What follows a list when x comes: it ends the list, with a letter for x after it.
Follows(s, l, x) ==
  l = <<>> \/ \E k \in Lists, y \in Bytes : EndsIn(s, k) /\ ccomp(y, x) /\ l = Append(k, y)
GoodStep(s, c, x) ==
  /\ c \in Places /\ Follows(s, c.list, x)
  /\ c.list # <<>> => c.from = 1

LEMMA PlaceIs ==
  ASSUME NEW l
  PROVE  /\ Place(l).list = l /\ Place(l).from = 1
         /\ l \in Lists => Place(l) \in Places
BY DEF Place, Places

LEMMA ChildGood ==
  ASSUME Made, NEW s \in Lists, NEW list \in Lists, EndsIn(s, list), NEW from, NEW x,
         Leads(list, from, x) # {}
  PROVE  GoodStep(s, Child(list, Leads(list, from, x)), x)
<1>1. PICK y \in Bytes : /\ ccomp(y, x) /\ Append(list, y) \in Lists
                         /\ Child(list, Leads(list, from, x)) = Place(Append(list, y))
  BY LeadsAre, Zenon
<1> DEFINE l == Append(list, y)
<1>2. Follows(s, l, x) BY <1>1, Zenon DEF Follows
<1> HIDE DEF l
<1>3. GoodStep(s, Place(l), x)
  <2>1. l \in Lists BY <1>1 DEF l
  <2> QED BY <1>2, <2>1, PlaceIs, Zenon DEF GoodStep
<1> QED BY <1>1, <1>3, Zenon DEF l

LEMMA RootGood ==
  ASSUME Made, NEW s \in Lists, NEW x
  PROVE  GoodStep(s, FromRoot(Leads(<<>>, 1, x)), x)
<1>1. words \in Patterns BY DEF Made
<1>2. <<>> \in Lists /\ EndsIn(s, <<>>)
  <2>1. <<>> \in Lists /\ s \in Seq(Bytes) BY <1>1, ListsAre
  <2> QED BY <2>1, EndsInSelf
<1>3. CASE Leads(<<>>, 1, x) # {}
  <2>1. FromRoot(Leads(<<>>, 1, x)) = Child(<<>>, Leads(<<>>, 1, x)) BY <1>3, Zenon DEF FromRoot
  <2>2. GoodStep(s, Child(<<>>, Leads(<<>>, 1, x)), x) BY <1>2, <1>3, ChildGood, Zenon
  <2> QED BY <2>1, <2>2, Zenon
<1>4. CASE Leads(<<>>, 1, x) = {}
  <2> DEFINE c == [Root EXCEPT !.from = LastKid]
  <2>1. FromRoot(Leads(<<>>, 1, x)) = c BY <1>4, Zenon DEF FromRoot, LastKid
  <2>2. c = [list |-> <<>>, from |-> LastKid] BY DEF Root
  <2>3. c.list = <<>> /\ c \in Places BY <1>2, <2>2 DEF Places
  <2> HIDE DEF c
  <2>4. GoodStep(s, c, x) BY <2>3, Zenon DEF GoodStep, Follows
  <2> QED BY <2>1, <2>4, Zenon
<1> QED BY <1>3, <1>4

LEMMA GoodWeaker ==
  ASSUME Made, NEW s \in Lists, NEW f \in Lists, EndsIn(s, f), NEW c, NEW x, GoodStep(f, c, x)
  PROVE  GoodStep(s, c, x)
<1>1. words \in Patterns BY DEF Made
<1>2. \A k \in Lists : EndsIn(f, k) => EndsIn(s, k)
  <2> SUFFICES ASSUME NEW k \in Lists, EndsIn(f, k) PROVE EndsIn(s, k) BY Zenon
  <2>1. s \in Seq(Bytes) /\ f \in Seq(Bytes) /\ k \in Seq(Bytes) BY <1>1, ListsAre
  <2> QED BY <2>1, EndsInTransitive
<1>3. Follows(f, c.list, x) => Follows(s, c.list, x) BY <1>2, Zenon DEF Follows
<1> QED BY <1>3, Zenon DEF GoodStep

LEMMA OnwardGood ==
  ASSUME Made, NEW list \in Lists, NEW from, NEW x, NEW fallen,
         \A k \in Lists : Len(k) < Len(list) => GoodStep(k, fallen[k], x)
  PROVE  GoodStep(list, Onward(list, from, x, fallen), x)
<1>1. words \in Patterns BY DEF Made
<1>2. CASE Leads(list, from, x) # {}
  <2>1. EndsIn(list, list)
    <3>1. list \in Seq(Bytes) BY <1>1, ListsAre
    <3> QED BY <3>1, EndsInSelf
  <2>2. GoodStep(list, Child(list, Leads(list, from, x)), x) BY <1>2, <2>1, ChildGood, Zenon
  <2>3. Onward(list, from, x, fallen) = Child(list, Leads(list, from, x))
    BY <1>2, OnwardLeads, Zenon
  <2> QED BY <2>2, <2>3, Zenon
<1>3. CASE Leads(list, from, x) = {} /\ fail[list] = {}
  <2>1. Onward(list, from, x, fallen) = FromRoot(Leads(<<>>, 1, x))
    BY <1>3, OnwardRoot, Zenon
  <2> QED BY <2>1, RootGood, Zenon
<1>4. CASE Leads(list, from, x) = {} /\ fail[list] # {}
  <2> DEFINE f == LinkOf(list)
  <2>1. Onward(list, from, x, fallen) = fallen[f] BY <1>4, OnwardLink, Zenon
  <2>2. f \in Lists /\ Len(f) < Len(list) /\ EndsIn(list, f) BY <1>4, LinkIs
  <2> HIDE DEF f
  <2>3. GoodStep(f, fallen[f], x) BY <2>2, Zenon
  <2>4. GoodStep(list, fallen[f], x) BY <2>2, <2>3, GoodWeaker, Zenon
  <2> QED BY <2>1, <2>4, Zenon
<1> QED BY <1>2, <1>3, <1>4

LEMMA FallenIs ==
  ASSUME Made, NEW x
  PROVE  \A l \in Lists : /\ Fallen(x)[l] = Onward(l, 1, x, Fallen(x))
                          /\ GoodStep(l, Fallen(x)[l], x)
<1> DEFINE F == [Lists -> Places]
           B(f, l) == Onward(l, 1, x, f)
           step == [f \in F |-> [l \in Lists |-> B(f, l)]]
           Eq(f) == f = [l \in Lists |-> B(f, l)]
           R == CHOOSE f : Eq(f)
<1>0. words \in Patterns BY DEF Made
<1>1. PICK N \in Nat : \A l \in Lists : Len(l) \in 0 .. N BY <1>0, ListsBounded
<1>2. ListRank \in [Lists -> 0 .. N] /\ \A l \in Lists : ListRank[l] = Len(l)
  BY <1>0, <1>1, RankIs DEF ListRank
<1>3. ASSUME NEW f \in F, NEW l \in Lists PROVE B(f, l) \in Places
  <2>1. CASE Leads(l, 1, x) # {}
    <3>1. EndsIn(l, l)
      <4>1. l \in Seq(Bytes) BY <1>0, ListsAre
      <4> QED BY <4>1, EndsInSelf
    <3>2. GoodStep(l, Child(l, Leads(l, 1, x)), x) BY <2>1, <3>1, ChildGood, Zenon
    <3>3. B(f, l) = Child(l, Leads(l, 1, x)) BY <2>1, OnwardLeads, Zenon
    <3> QED BY <3>2, <3>3, Zenon DEF GoodStep
  <2>2. CASE Leads(l, 1, x) = {} /\ fail[l] = {}
    <3>1. B(f, l) = FromRoot(Leads(<<>>, 1, x)) BY <2>2, OnwardRoot, Zenon
    <3>2. GoodStep(l, FromRoot(Leads(<<>>, 1, x)), x) BY RootGood, Zenon
    <3> QED BY <3>1, <3>2, Zenon DEF GoodStep
  <2>3. CASE Leads(l, 1, x) = {} /\ fail[l] # {}
    <3>1. B(f, l) = f[LinkOf(l)] BY <2>3, OnwardLink, Zenon
    <3>2. LinkOf(l) \in Lists BY <2>3, LinkIs
    <3> QED BY <3>1, <3>2
  <2> QED BY <2>1, <2>2, <2>3
<1>4. step \in [F -> F] /\ \A f \in F : step[f] = [l \in Lists |-> B(f, l)]
  <2> HIDE DEF B
  <2>1. \A f \in F : [l \in Lists |-> B(f, l)] \in F BY <1>3
  <2> HIDE DEF F
  <2> QED BY <2>1
<1>5. ASSUME NEW f \in F, NEW g \in F, NEW l \in Lists,
             \A k \in Lists : ListRank[k] < ListRank[l] => f[k] = g[k]
      PROVE  step[f][l] = step[g][l]
  <2>1. step[f][l] = B(f, l) /\ step[g][l] = B(g, l)
    <3> HIDE DEF step, F, B
    <3> QED BY <1>4
  <2>2. B(f, l) = B(g, l)
    <3>1. CASE Leads(l, 1, x) # {}
      <4>1. B(f, l) = Child(l, Leads(l, 1, x)) /\ B(g, l) = Child(l, Leads(l, 1, x))
        BY <3>1, OnwardLeads, Zenon
      <4> QED BY <4>1, Zenon
    <3>3. CASE Leads(l, 1, x) = {} /\ fail[l] = {}
      <4>1. B(f, l) = FromRoot(Leads(<<>>, 1, x)) /\ B(g, l) = FromRoot(Leads(<<>>, 1, x))
        BY <3>3, OnwardRoot, Zenon
      <4> QED BY <4>1, Zenon
    <3>2. CASE Leads(l, 1, x) = {} /\ fail[l] # {}
      <4>1. B(f, l) = f[LinkOf(l)] /\ B(g, l) = g[LinkOf(l)] BY <3>2, OnwardLink, Zenon
      <4>2. LinkOf(l) \in Lists /\ Len(LinkOf(l)) < Len(l) BY <3>2, LinkIs
      <4>3. f[LinkOf(l)] = g[LinkOf(l)] BY <1>2, <1>5, <4>2, Zenon
      <4> QED BY <4>1, <4>3, Zenon
    <3> QED BY <3>1, <3>2, <3>3, Zenon
  <2> QED BY <2>1, <2>2, Zenon
<1>6. \E f \in F : f = step[f]
  <2>1. F # {}
    <3>1. <<>> \in Lists BY <1>0, ListsAre
    <3>2. Place(<<>>) \in Places BY <3>1, PlaceIs
    <3>3. [l \in Lists |-> Place(<<>>)] \in F BY <3>2
    <3> QED BY <3>3
  <2> HIDE DEF step
  <2>2. Ranked(Lists, N, ListRank, Places, step) BY <1>2, <1>4, <1>5, <2>1, Zenon DEF Ranked
  <2>3. \E f : FixedBy(f, Lists, Places, step)
    <3> HIDE DEF F
    <3> QED BY <2>2, RankRecursion, Zenon
  <2> QED BY <2>3, Zenon DEF FixedBy
<1>7. \E f : Eq(f)
  <2> HIDE DEF F, step
  <2> QED BY <1>4, <1>6, Zenon
<1>8. Fallen(x) = R BY Zenon DEF Fallen
<1>9. Eq(R)
  <2>1. PICK f : Eq(f) BY <1>7
  <2> HIDE DEF Eq
  <2> QED BY <2>1, Zenon
<1>10. Fallen(x) = [l \in Lists |-> B(Fallen(x), l)] BY <1>8, <1>9, Zenon
<1> HIDE DEF R
<1>11. \A l \in Lists : Fallen(x)[l] = B(Fallen(x), l)
  <2> DEFINE G == Fallen(x)
             H(l) == B(G, l)
  <2>1. G = [l \in Lists |-> H(l)] BY <1>10, Zenon
  <2> HIDE DEF G, H
  <2>2. \A l \in Lists : G[l] = H(l) BY <2>1, Zenon
  <2> QED BY <2>2, Zenon DEF G, H
<1> DEFINE S == {l \in Lists : GoodStep(l, Fallen(x)[l], x)}
<1>12. ASSUME NEW l \in Lists, \A z \in Lists : ListRank[z] < ListRank[l] => z \in S
       PROVE  l \in S
  <2>1. \A z \in Lists : Len(z) < Len(l) => GoodStep(z, Fallen(x)[z], x) BY <1>2, <1>12, Zenon
  <2>2. GoodStep(l, Onward(l, 1, x, Fallen(x)), x) BY <2>1, OnwardGood, Zenon
  <2>3. GoodStep(l, Fallen(x)[l], x) BY <1>11, <2>2, Zenon
  <2> QED BY <2>3, Zenon
<1>13. \A l \in Lists : l \in S
  <2> HIDE DEF S
  <2> QED BY <1>0, <1>12, RankIs, RankInduction
<1> QED BY <1>11, <1>13, Zenon

LEMMA StepGood ==
  ASSUME Made, NEW c, c.list \in Lists, NEW x
  PROVE  GoodStep(c.list, nstate(c, x), x)
<1> DEFINE l == c.list
           fallen == Fallen(x)
<1>1. \A k \in Lists : GoodStep(k, fallen[k], x) BY FallenIs, Zenon
<1> HIDE DEF fallen
<1>2. GoodStep(l, Onward(l, c.from, x, fallen), x)
  <2> HIDE DEF l
  <2>1. l \in Lists BY DEF l
  <2> QED BY <1>1, <2>1, OnwardGood, Zenon
<1> QED BY <1>2, Zenon DEF nstate, fallen

----------------------------------------------------------------------------
(* Of words whose links need one step only the automaton is in the longest *)
(* list that ends what was read.                                           *)

Low(x) == IF "i" \in options THEN lca(x) ELSE x

LEMMA LowIs ==
  /\ \A x \in Bytes : Low(x) \in Bytes /\ (Low(x) = Low(newline) => x = newline)
  /\ \A x, y : ccomp(x, y) <=> Low(x) = Low(y)
<1>1. /\ \A x \in Bytes : Folded[x] \in Bytes /\ (Folded[x] = Folded[newline] => x = newline)
  BY LiteralAssumption DEF Bytes
<1> QED BY <1>1, Zenon DEF Low, lca, ccomp

LEMMA DirectLow ==
  ASSUME words \in Patterns, Direct, NEW l \in Lists, NEW k \in 1 .. Len(l)
  PROVE  Low(l[k]) = l[k]
<1>1. PICK i \in DOMAIN words : Begins(l, words[i]) BY InLists, Zenon
<1>2. l[k] = words[i][k] /\ k \in DOMAIN words[i]
  <2>1. Len(l) <= Len(words[i]) /\ l[k] = words[i][k] BY <1>1 DEF Begins
  <2>2. words[i] \in Seq(Bytes) /\ Len(l) \in Nat BY ListsAre, WordsAre
  <2>3. Len(words[i]) \in Nat /\ DOMAIN words[i] = 1 .. Len(words[i]) BY <2>2
  <2>4. k \in 1 .. Len(words[i]) BY <2>1, <2>2, <2>3
  <2> QED BY <2>1, <2>3, <2>4
<1>3. l[k] \in ToSet(words[i]) BY <1>2, Zenon DEF ToSet
<1>4. "i" \in options => lca(l[k]) = l[k] BY <1>3, Zenon DEF Direct
<1> QED BY <1>4, Zenon DEF Low

LEMMA DirectLetter ==
  ASSUME words \in Patterns, Direct, NEW l \in Lists, NEW y \in Bytes, Append(l, y) \in Lists,
         NEW x, ccomp(y, x)
  PROVE  y = Low(x)
<1> DEFINE a == Append(l, y)
           n == Len(l) + 1
<1>1. l \in Seq(Bytes) /\ Len(l) \in Nat BY ListsAre
<1>2. Len(a) = n /\ a[n] = y BY <1>1
<1>3. n \in 1 .. n BY <1>1
<1> HIDE DEF a, n
<1>4. Low(a[n]) = a[n] BY <1>2, <1>3, DirectLow DEF a
<1> QED BY <1>2, <1>4, LowIs, Zenon

Best(s, l) == l \in Lists /\ EndsIn(s, l) /\ \A k \in Lists : EndsIn(s, k) => Len(k) <= Len(l)

LEMMA SelfBest ==
  ASSUME words \in Patterns, NEW l \in Lists
  PROVE  Best(l, l)
<1>1. l \in Seq(Bytes) BY ListsAre
<1>2. EndsIn(l, l) BY <1>1, EndsInSelf
<1>3. \A k \in Lists : EndsIn(l, k) => Len(k) <= Len(l) BY Zenon DEF EndsIn
<1> QED BY <1>2, <1>3, Zenon DEF Best

\* What ends a text after a letter ends the best list after it, if it is no longer.
LEMMA EndsAfter ==
  ASSUME words \in Patterns, NEW s \in Seq(Bytes), NEW l \in Lists, EndsIn(s, l), NEW y \in Bytes,
         NEW k \in Lists, EndsIn(Append(s, y), k),
         k # <<>> /\ EndsIn(s, Front(k)) => Len(Front(k)) <= Len(l)
  PROVE  EndsIn(Append(l, y), k)
<1>1. l \in Seq(Bytes) /\ k \in Seq(Bytes) BY ListsAre
<1>2. CASE k = <<>>
  <2>1. Append(l, y) \in Seq(Bytes) BY <1>1
  <2> QED BY <1>2, <2>1, EndsInSelf
<1>3. CASE k # <<>>
  <2> DEFINE f == Front(k)
  <2>1. f \in Seq(Bytes) /\ k = Append(f, Last(k)) BY <1>1, <1>3, FrontLast
  <2>2. Last(k) = y /\ EndsIn(s, f) BY <1>1, <1>3, EndsAppend
  <2>3. Len(f) <= Len(l) BY <1>3, <2>2, Zenon
  <2> HIDE DEF f
  <2>4. EndsIn(l, f) BY <1>1, <2>1, <2>2, <2>3, EndsInBoth
  <2>5. EndsIn(Append(l, y), Append(f, y)) BY <1>1, <2>1, <2>4, AppendEnds
  <2> QED BY <2>1, <2>2, <2>5, Zenon
<1> QED BY <1>2, <1>3

LEMMA BestAppend ==
  ASSUME words \in Patterns, NEW s \in Seq(Bytes), NEW l, Best(s, l), NEW y \in Bytes,
         NEW m, Best(Append(l, y), m)
  PROVE  Best(Append(s, y), m)
<1>1. l \in Lists /\ EndsIn(s, l) /\ \A k \in Lists : EndsIn(s, k) => Len(k) <= Len(l)
  BY Zenon DEF Best
<1>2. m \in Lists /\ EndsIn(Append(l, y), m) /\ \A k \in Lists : EndsIn(Append(l, y), k) => Len(k) <= Len(m)
  BY Zenon DEF Best
<1>3. l \in Seq(Bytes) /\ m \in Seq(Bytes) BY <1>1, <1>2, ListsAre
<1>4. EndsIn(Append(s, y), m)
  <2>1. EndsIn(Append(s, y), Append(l, y)) BY <1>1, <1>3, AppendEnds
  <2>2. Append(s, y) \in Seq(Bytes) /\ Append(l, y) \in Seq(Bytes) BY <1>3
  <2> QED BY <1>2, <1>3, <2>1, <2>2, EndsInTransitive
<1>5. ASSUME NEW k \in Lists, EndsIn(Append(s, y), k) PROVE Len(k) <= Len(m)
  <2>1. k # <<>> /\ EndsIn(s, Front(k)) => Len(Front(k)) <= Len(l) BY <1>1, ListsAre, Zenon
  <2>2. EndsIn(Append(l, y), k) BY <1>1, <1>5, <2>1, EndsAfter
  <2> QED BY <1>2, <2>2
<1> QED BY <1>2, <1>4, <1>5, Zenon DEF Best

BestBehind(s, l) ==
  l \in Lists /\ EndsIn(s, l) /\ \A k \in Lists : k # s /\ EndsIn(s, k) => Len(k) <= Len(l)

LEMMA BehindBest ==
  ASSUME words \in Patterns, NEW s \in Lists, NEW l, BestBehind(s, l), NEW y \in Bytes,
         Append(s, y) \notin Lists, NEW m, Best(Append(l, y), m)
  PROVE  Best(Append(s, y), m)
<1>1. l \in Lists /\ EndsIn(s, l) /\ \A k \in Lists : k # s /\ EndsIn(s, k) => Len(k) <= Len(l)
  BY Zenon DEF BestBehind
<1>2. m \in Lists /\ EndsIn(Append(l, y), m) /\ \A k \in Lists : EndsIn(Append(l, y), k) => Len(k) <= Len(m)
  BY Zenon DEF Best
<1>3. s \in Seq(Bytes) /\ l \in Seq(Bytes) /\ m \in Seq(Bytes) BY <1>1, <1>2, ListsAre
<1>4. EndsIn(Append(s, y), m)
  <2>1. EndsIn(Append(s, y), Append(l, y)) BY <1>1, <1>3, AppendEnds
  <2>2. Append(s, y) \in Seq(Bytes) /\ Append(l, y) \in Seq(Bytes) BY <1>3
  <2> QED BY <1>2, <1>3, <2>1, <2>2, EndsInTransitive
<1>5. ASSUME NEW k \in Lists, EndsIn(Append(s, y), k) PROVE Len(k) <= Len(m)
  <2>1. ASSUME k # <<>>, EndsIn(s, Front(k)) PROVE Len(Front(k)) <= Len(l)
    <3>1. k \in Seq(Bytes) /\ Front(k) \in Lists BY <2>1, ListsAre
    <3>2. Last(k) = y /\ k = Append(Front(k), Last(k))
      <4>1. Last(k) = y BY <1>3, <1>5, <2>1, <3>1, EndsAppend
      <4>2. k = Append(Front(k), Last(k)) BY <2>1, <3>1, FrontLast
      <4> QED BY <4>1, <4>2
    <3>3. Front(k) # s BY <3>2, Zenon
    <3> QED BY <1>1, <2>1, <3>1, <3>3, Zenon
  <2>2. EndsIn(Append(l, y), k) BY <1>1, <1>3, <1>5, <2>1, EndsAfter
  <2> QED BY <1>2, <2>2
<1> QED BY <1>2, <1>4, <1>5, Zenon DEF Best

LEMMA LongestOne ==
  ASSUME words \in Patterns, NEW l \in Lists,
         NEW a \in Longest(Behind(l)), NEW b \in Longest(Behind(l))
  PROVE  a = b
<1>1. /\ a \in Behind(l) /\ b \in Behind(l) /\ Len(a) <= Len(b) /\ Len(b) <= Len(a)
  BY Zenon DEF Longest
<1>2. a \in Lists /\ b \in Lists /\ EndsIn(l, a) /\ EndsIn(l, b) BY <1>1, Zenon DEF Behind
<1>3. /\ l \in Seq(Bytes) /\ a \in Seq(Bytes) /\ b \in Seq(Bytes)
      /\ Len(a) \in Nat /\ Len(b) \in Nat
  BY <1>2, ListsAre
<1>4. Len(a) = Len(b) BY <1>1, <1>3
<1>5. EndsIn(a, b) BY <1>1, <1>2, <1>3, EndsInBoth
<1> QED BY <1>3, <1>4, <1>5, EndsInSame

LEMMA LongestIs ==
  ASSUME words \in Patterns, Direct
  PROVE  \A l \in Lists : FailLinks[l] = Longest(Behind(l))
<1> DEFINE S == {l \in Lists : FailLinks[l] = Longest(Behind(l))}
<1>1. ASSUME NEW l \in Lists, \A z \in Lists : ListRank[z] < ListRank[l] => z \in S
      PROVE  l \in S
  <2> SUFFICES FailLinks[l] = Longest(Behind(l)) OBVIOUS
  <2>1. FailLinks[l] = FailLists(FailLinks, l) BY FailIs
  <2>2. l \in Seq(Bytes) /\ Len(l) \in Nat BY ListsAre
  <2>3. FailLinks[l] \subseteq Behind(l)
    <3> SUFFICES ASSUME NEW f \in FailLinks[l] PROVE f \in Behind(l) OBVIOUS
    <3>1. f \in Lists /\ f # <<>> /\ Len(f) < Len(l) /\ EndsIn(l, f) BY FailEnds
    <3>2. Len(f) \in Nat BY <3>1, ListsAre
    <3>3. f # l BY <2>2, <3>1, <3>2
    <3> QED BY <3>1, <3>3, Zenon DEF Behind
  <2>4. CASE Behind(l) = {}
    <3>1. Longest({}) = {} BY DEF Longest
    <3> QED BY <2>3, <2>4, <3>1, Zenon
  <2>5. CASE Behind(l) # {}
    <3>1. PICK m \in Longest(Behind(l)) : Len(m) > 1 => Front(m) \in Longest(Behind(Front(l)))
      <4>1. LinkKept(l) BY <2>5, Zenon DEF Direct
      <4> QED BY <4>1, Zenon DEF LinkKept
    <3>2. m \in Behind(l) /\ \A k \in Behind(l) : Len(k) <= Len(m) BY Zenon DEF Longest
    <3>3. m \in Lists /\ m # <<>> /\ m # l /\ EndsIn(l, m) BY <3>2, Zenon DEF Behind
    <3>4. m \in Seq(Bytes) /\ Len(m) \in Nat \ {0} /\ Len(m) <= Len(l)
      <4>1. m \in Seq(Bytes) BY <3>3, ListsAre
      <4>2. Len(m) \in Nat \ {0} BY <3>3, <4>1, EmptySeq
      <4> QED BY <3>3, <4>1, <4>2 DEF EndsIn
    <3>5. Longest(Behind(l)) = {m}
      <4>1. \A z \in Longest(Behind(l)) : z = m BY LongestOne, Zenon
      <4> QED BY <4>1, Zenon
    <3>6. Len(l) > 1 /\ l # <<>>
      <4>1. Len(m) # Len(l) BY <2>2, <3>3, <3>4, EndsInSame
      <4>2. Len(l) > 1 BY <2>2, <3>4, <4>1
      <4> QED BY <4>2
    <3> DEFINE b == Front(l)
               c == Last(l)
               on == {Append(g, c) : g \in FailLinks[b]} \cap Lists
               g0 == Front(m)
    <3>7. b \in Lists /\ b \in Seq(Bytes) /\ c \in Bytes /\ l = Append(b, c) /\ Len(b) = Len(l) - 1
      BY <2>2, <3>6, FrontLast, ListsAre
    <3>8. FailLinks[b] = Longest(Behind(b))
      <4>1. Len(b) < Len(l) BY <2>2, <3>7
      <4>2. ListRank[b] < ListRank[l] BY <3>7, <4>1, RankIs, Zenon
      <4> QED BY <1>1, <3>7, <4>2, Zenon
    <3>9. m = Append(g0, c) /\ Len(g0) = Len(m) - 1 /\ g0 \in Seq(Bytes)
      <4>1. m = Append(g0, Last(m)) /\ Len(g0) = Len(m) - 1 /\ g0 \in Seq(Bytes) BY <3>3, <3>4, FrontLast
      <4>2. EndsIn(Append(b, c), m) BY <3>3, <3>7, Zenon
      <4>3. Last(m) = c
        <5> HIDE DEF b, c
        <5> QED BY <3>3, <3>4, <3>7, <4>2, EndsAppend
      <4> QED BY <4>1, <4>3, Zenon
    <3>10. FailLinks[l] = IF on # {} THEN on ELSE {<<c>>} \cap Lists
      <4>1. ~ (Len(l) <= 1) BY <2>2, <3>6
      <4> QED BY <2>1, <4>1, Zenon DEF FailLists
    <3>11. \A z \in on : \E g \in Longest(Behind(b)) : z = Append(g, c) BY <3>8, Zenon
    <3>12. CASE Len(m) > 1
      <4>1. g0 \in Longest(Behind(b)) BY <3>1, <3>12, Zenon
      <4>2. m \in on BY <3>3, <3>8, <3>9, <4>1, Zenon
      <4>3. ASSUME NEW z \in on PROVE z = m
        <5>1. PICK g \in Longest(Behind(b)) : z = Append(g, c) BY <3>11, Zenon
        <5>2. g = g0 BY <3>7, <4>1, LongestOne, Zenon
        <5> QED BY <3>9, <5>1, <5>2, Zenon
      <4> HIDE DEF on
      <4>4. on = {m} BY <4>2, <4>3, Zenon
      <4> QED BY <3>5, <3>10, <4>2, <4>4, Zenon
    <3>13. CASE ~ (Len(m) > 1)
      <4>1. Len(m) = 1
        <5> DEFINE n == Len(m)
        <5>1. n \in Nat \ {0} /\ ~ (n > 1) BY <3>4, <3>13, Zenon
        <5> HIDE DEF n
        <5>2. n = 1 BY <5>1
        <5> QED BY <5>2 DEF n
      <4>2. g0 = <<>> BY <3>9, <4>1, EmptySeq
      <4>3. m = <<c>> BY <3>9, <4>2
      <4>4. on = {}
        <5> SUFFICES ASSUME NEW z \in on PROVE FALSE OBVIOUS
        <5>1. PICK g \in Longest(Behind(b)) : z = Append(g, c) BY <3>11, Zenon
        <5>2. g # <<>> /\ g \in Lists BY Zenon DEF Longest, Behind
        <5>3. g \in Seq(Bytes) /\ Len(g) \in Nat \ {0} BY <5>2, ListsAre, EmptySeq
        <5> HIDE DEF c
        <5>4. Len(z) = Len(g) + 1 BY <3>7, <5>1, <5>3
        <5>5. z \in FailLinks[l]
          <6> HIDE DEF on
          <6> QED BY <3>10, Zenon
        <5>6. Len(z) <= Len(m) BY <2>3, <3>2, <5>5, Zenon
        <5> QED BY <4>1, <5>3, <5>4, <5>6
      <4> HIDE DEF on, c
      <4>5. FailLinks[l] = {<<c>>} \cap Lists BY <3>10, <4>4, Zenon
      <4>6. {<<c>>} \cap Lists = {m} BY <3>3, <4>3, Zenon
      <4> QED BY <3>5, <4>5, <4>6, Zenon
    <3> QED BY <3>12, <3>13
  <2> QED BY <2>4, <2>5
<1>2. \A l \in Lists : l \in S
  <2> HIDE DEF S
  <2> QED BY <1>1, RankIs, RankInduction
<1> QED BY <1>2

LEMMA LinkBest ==
  ASSUME Made, Direct, NEW l \in Lists
  PROVE  /\ fail[l] = {} => BestBehind(l, <<>>)
         /\ fail[l] # {} => BestBehind(l, LinkOf(l))
<1>1. words \in Patterns /\ fail[l] = Longest(Behind(l))
  <2>1. words \in Patterns /\ fail = FailLinks BY DEF Made
  <2> QED BY <2>1, LongestIs
<1>2. <<>> \in Lists /\ Len(<<>>) = 0 /\ l \in Seq(Bytes) BY <1>1, ListsAre
<1>3. EndsIn(l, <<>>) BY <1>2, EndsInSelf
<1>4. \A k \in Lists : Len(k) \in Nat BY <1>1, ListsAre
<1>5. CASE fail[l] = {}
  <2>1. Behind(l) = {}
    <3>1. Behind(l) = {} \/ LinkKept(l) BY Zenon DEF Direct
    <3>2. LinkKept(l) => Longest(Behind(l)) # {} BY Zenon DEF LinkKept
    <3> QED BY <1>1, <1>5, <3>1, <3>2, Zenon
  <2>2. \A k \in Lists : k # l /\ EndsIn(l, k) => k = <<>> BY <2>1, Zenon DEF Behind
  <2>3. Len(<<>>) <= Len(<<>>) BY <1>2
  <2>4. BestBehind(l, <<>>) BY <1>2, <1>3, <2>2, <2>3, Zenon DEF BestBehind
  <2> QED BY <1>5, <2>4
<1>6. CASE fail[l] # {}
  <2> DEFINE f == LinkOf(l)
  <2>1. f \in fail[l] BY <1>6, Zenon DEF LinkOf
  <2> HIDE DEF f
  <2>2. f \in Behind(l) /\ \A k \in Behind(l) : Len(k) <= Len(f) BY <1>1, <2>1, Zenon DEF Longest
  <2>3. f \in Lists /\ EndsIn(l, f) BY <2>2, Zenon DEF Behind
  <2>4. ASSUME NEW k \in Lists, k # l, EndsIn(l, k) PROVE Len(k) <= Len(f)
    <3>1. CASE k = <<>> BY <1>2, <1>4, <2>3, <3>1
    <3>2. CASE k # <<>>
      <4>1. k \in Behind(l) BY <2>4, <3>2, Zenon DEF Behind
      <4> QED BY <2>2, <4>1
    <3> QED BY <3>1, <3>2
  <2>5. BestBehind(l, f) BY <2>3, <2>4, Zenon DEF BestBehind
  <2> QED BY <1>6, <2>5 DEF f
<1> QED BY <1>5, <1>6

LEMMA ChildBest ==
  ASSUME Made, Direct, NEW list \in Lists, NEW from, NEW x, Leads(list, from, x) # {}
  PROVE  Best(Append(list, Low(x)), Child(list, Leads(list, from, x)).list)
<1>1. words \in Patterns BY DEF Made
<1>2. PICK y \in Bytes : /\ ccomp(y, x) /\ Append(list, y) \in Lists
                         /\ Child(list, Leads(list, from, x)) = Place(Append(list, y))
  BY LeadsAre, Zenon
<1>3. y = Low(x) BY <1>1, <1>2, DirectLetter
<1>4. Best(Append(list, y), Append(list, y)) BY <1>1, <1>2, SelfBest
<1>5. Child(list, Leads(list, from, x)).list = Append(list, y) BY <1>2, PlaceIs, Zenon
<1> QED BY <1>3, <1>4, <1>5, Zenon

LEMMA NoLeads ==
  ASSUME Made, Direct, NEW list \in Lists, NEW x \in Bytes, Leads(list, 1, x) = {}
  PROVE  Append(list, Low(x)) \notin Lists
<1>1. words \in Patterns BY DEF Made
<1> SUFFICES ASSUME Append(list, Low(x)) \in Lists PROVE FALSE OBVIOUS
<1> DEFINE y == Low(x)
           a == Append(list, y)
<1>2. y \in Bytes BY LowIs
<1>3. list \in Seq(Bytes) /\ Len(list) \in Nat BY <1>1, ListsAre
<1> DEFINE n == Len(list) + 1
<1> HIDE DEF y
<1>4. Len(a) = n /\ a[n] = y BY <1>2, <1>3
<1>5. n \in 1 .. n BY <1>3
<1>6. a \in Lists BY DEF y
<1> HIDE DEF a, n
<1>7. Low(y) = y BY <1>1, <1>4, <1>5, <1>6, DirectLow
<1>8. ccomp(y, x) BY <1>7, LowIs, Zenon DEF y
<1> QED BY <1>2, <1>6, <1>8, LeadsAre, Zenon DEF a

LEMMA RootBest ==
  ASSUME Made, Direct, NEW x \in Bytes
  PROVE  Best(Append(<<>>, Low(x)), FromRoot(Leads(<<>>, 1, x)).list)
<1>1. words \in Patterns BY DEF Made
<1>2. <<>> \in Lists /\ <<>> \in Seq(Bytes) BY <1>1, ListsAre
<1>3. CASE Leads(<<>>, 1, x) # {}
  <2>1. FromRoot(Leads(<<>>, 1, x)) = Child(<<>>, Leads(<<>>, 1, x)) BY <1>3, Zenon DEF FromRoot
  <2>2. Best(Append(<<>>, Low(x)), Child(<<>>, Leads(<<>>, 1, x)).list)
    BY <1>2, <1>3, ChildBest, Zenon
  <2> QED BY <2>1, <2>2, Zenon
<1>4. CASE Leads(<<>>, 1, x) = {}
  <2> DEFINE a == Append(<<>>, Low(x))
  <2>1. FromRoot(Leads(<<>>, 1, x)).list = <<>>
    <3>1. FromRoot(Leads(<<>>, 1, x)) = [Root EXCEPT !.from = LastKid]
      BY <1>4, Zenon DEF FromRoot, LastKid
    <3>2. [Root EXCEPT !.from = LastKid].list = <<>> BY DEF Root
    <3> QED BY <3>1, <3>2, Zenon
  <2>2. a \notin Lists BY <1>2, <1>4, NoLeads, Zenon
  <2>3. Low(x) \in Bytes BY LowIs
  <2>4. ASSUME NEW k \in Lists, EndsIn(a, k) PROVE k = <<>>
    <3> SUFFICES ASSUME k # <<>> PROVE FALSE OBVIOUS
    <3>1. k \in Seq(Bytes) BY <1>1, ListsAre
    <3>2. Last(k) = Low(x) /\ EndsIn(<<>>, Front(k))
      <4> DEFINE y == Low(x)
      <4>1. y \in Bytes /\ EndsIn(Append(<<>>, y), k) BY <2>3, <2>4, Zenon
      <4> HIDE DEF y
      <4>2. Last(k) = y /\ EndsIn(<<>>, Front(k)) BY <1>2, <3>1, <4>1, EndsAppend
      <4> QED BY <4>2 DEF y
    <3>3. Front(k) \in Seq(Bytes) /\ k = Append(Front(k), Last(k)) BY <3>1, FrontLast
    <3>4. Front(k) = <<>>
      <4>1. Len(Front(k)) <= Len(<<>>) BY <3>2, Zenon DEF EndsIn
      <4>2. Len(<<>>) = 0 OBVIOUS
      <4> QED BY <3>3, <4>1, <4>2, EmptySeq
    <3> QED BY <2>2, <3>2, <3>3, <3>4, Zenon
  <2>5. a \in Seq(Bytes) BY <1>2, <2>3
  <2> HIDE DEF a
  <2>6. EndsIn(a, <<>>) BY <2>5, EndsInSelf
  <2>7. Len(<<>>) <= Len(<<>>) OBVIOUS
  <2>8. Best(a, <<>>) BY <1>2, <2>4, <2>6, <2>7, Zenon DEF Best
  <2> QED BY <2>1, <2>8, Zenon DEF a
<1> QED BY <1>3, <1>4

LEMMA OnwardBest ==
  ASSUME Made, Direct, NEW list \in Lists, NEW from, NEW x \in Bytes, NEW fallen,
         from = 1 \/ list = <<>>,
         \A k \in Lists : Len(k) < Len(list) => Best(Append(k, Low(x)), fallen[k].list)
  PROVE  Best(Append(list, Low(x)), Onward(list, from, x, fallen).list)
<1>1. words \in Patterns BY DEF Made
<1>2. Low(x) \in Bytes BY LowIs
<1>3. CASE Leads(list, from, x) # {}
  <2>1. Onward(list, from, x, fallen) = Child(list, Leads(list, from, x))
    BY <1>3, OnwardLeads, Zenon
  <2>2. Best(Append(list, Low(x)), Child(list, Leads(list, from, x)).list) BY <1>3, ChildBest, Zenon
  <2> QED BY <2>1, <2>2, Zenon
<1>4. CASE Leads(list, from, x) = {} /\ list = <<>>
  <2>1. fail[list] = {}
    <3> SUFFICES ASSUME fail[list] # {} PROVE FALSE OBVIOUS
    <3>1. Len(LinkOf(list)) < Len(list) /\ LinkOf(list) \in Lists BY LinkIs
    <3>2. Len(LinkOf(list)) \in Nat BY <1>1, <3>1, ListsAre
    <3>3. Len(list) = 0 BY <1>4
    <3> QED BY <3>1, <3>2, <3>3
  <2>2. Onward(list, from, x, fallen) = FromRoot(Leads(<<>>, 1, x))
    BY <1>4, <2>1, OnwardRoot, Zenon
  <2> QED BY <1>4, <2>2, RootBest, Zenon
<1>5. CASE Leads(list, from, x) = {} /\ from = 1
  <2>1. Append(list, Low(x)) \notin Lists BY <1>5, NoLeads, Zenon
  <2>2. CASE fail[list] = {}
    <3>1. Onward(list, from, x, fallen) = FromRoot(Leads(<<>>, 1, x))
      BY <1>5, <2>2, OnwardRoot, Zenon
    <3>2. BestBehind(list, <<>>) BY <2>2, LinkBest, Zenon
    <3> DEFINE m == FromRoot(Leads(<<>>, 1, x)).list
               y == Low(x)
    <3>4. Best(Append(<<>>, y), m) BY RootBest, Zenon
    <3>5. y \in Bytes /\ Append(list, y) \notin Lists BY <1>2, <2>1, Zenon
    <3> HIDE DEF m, y
    <3>6. Best(Append(list, y), m) BY <1>1, <3>2, <3>4, <3>5, BehindBest, Zenon
    <3>3. Best(Append(list, Low(x)), FromRoot(Leads(<<>>, 1, x)).list) BY <3>6, Zenon DEF m, y
    <3> QED BY <3>1, <3>3, Zenon
  <2>3. CASE fail[list] # {}
    <3> DEFINE f == LinkOf(list)
    <3>1. Onward(list, from, x, fallen) = fallen[f] BY <1>5, <2>3, OnwardLink, Zenon
    <3>2. BestBehind(list, f) BY <2>3, LinkBest, Zenon
    <3>3. f \in Lists /\ Len(f) < Len(list) BY <2>3, LinkIs
    <3> HIDE DEF f
    <3>4. Best(Append(f, Low(x)), fallen[f].list) BY <3>3, Zenon
    <3>5. Best(Append(list, Low(x)), fallen[f].list)
      BY <1>1, <1>2, <2>1, <3>2, <3>4, BehindBest, Zenon
    <3> QED BY <3>1, <3>5, Zenon
  <2> QED BY <2>2, <2>3
<1> QED BY <1>3, <1>4, <1>5

LEMMA StepBest ==
  ASSUME Made, Direct, NEW c, c.list \in Lists, c.from = 1 \/ c.list = <<>>, NEW x \in Bytes,
         NEW s \in Seq(Bytes), Best(s, c.list)
  PROVE  Best(Append(s, Low(x)), nstate(c, x).list)
<1>1. words \in Patterns BY DEF Made
<1> DEFINE fallen == Fallen(x)
           S == {l \in Lists : Best(Append(l, Low(x)), fallen[l].list)}
<1>2. ASSUME NEW l \in Lists, \A z \in Lists : ListRank[z] < ListRank[l] => z \in S
      PROVE  l \in S
  <2>1. \A z \in Lists : Len(z) < Len(l) => Best(Append(z, Low(x)), fallen[z].list)
    BY <1>1, <1>2, RankIs, Zenon
  <2>2. fallen[l] = Onward(l, 1, x, fallen) BY FallenIs, Zenon
  <2> HIDE DEF fallen
  <2>3. Best(Append(l, Low(x)), Onward(l, 1, x, fallen).list) BY <2>1, OnwardBest, Zenon
  <2> QED BY <2>2, <2>3, Zenon
<1>3. \A l \in Lists : l \in S
  <2> HIDE DEF S
  <2> QED BY <1>1, <1>2, RankIs, RankInduction
<1> DEFINE l == c.list
<1>4. Best(Append(l, Low(x)), Onward(l, c.from, x, fallen).list)
  <2>1. l \in Lists /\ (c.from = 1 \/ l = <<>>) OBVIOUS
  <2>2. \A z \in Lists : Best(Append(z, Low(x)), fallen[z].list) BY <1>3, Zenon
  <2> HIDE DEF l, fallen
  <2> QED BY <2>1, <2>2, OnwardBest, Zenon
<1>5. Best(Append(l, Low(x)), nstate(c, x).list) BY <1>4, Zenon DEF nstate
<1>6. Low(x) \in Bytes BY LowIs
<1> HIDE DEF l
<1>7. Best(s, l) BY DEF l
<1> QED BY <1>1, <1>5, <1>6, <1>7, BestAppend

\* And no word ends what was read but in a list that is out.
LEMMA OutWhenEnds ==
  ASSUME words \in Patterns, Direct, NEW i \in DOMAIN words
  PROVE  \A l \in Lists : EndsIn(l, words[i]) => l \in OutLists
<1> DEFINE w == words[i]
           S == {l \in Lists : EndsIn(l, w) => l \in OutLists}
<1>1. w \in Lists /\ w \in Seq(Bytes) /\ w # <<>> BY ListsAre, WordsAre
<1>2. w \in Marked
  <2>1. w \in ToSet(words) BY Zenon DEF ToSet
  <2> QED BY <2>1, Zenon DEF Direct
<1> HIDE DEF w
<1>3. ASSUME NEW l \in Lists, \A z \in Lists : ListRank[z] < ListRank[l] => z \in S
      PROVE  l \in S
  <2> SUFFICES ASSUME EndsIn(l, w) PROVE l \in OutLists OBVIOUS
  <2>1. CASE l = w BY <1>2, <2>1, OutIs
  <2>2. CASE l # w
    <3>1. w \in Behind(l) BY <1>1, <2>2, Zenon DEF Behind
    <3>2. PICK f \in Longest(Behind(l)) : TRUE BY <3>1, Zenon DEF Direct, LinkKept
    <3>3. f \in FailLinks[l] BY <3>2, LongestIs
    <3>4. f \in Lists /\ Len(f) < Len(l) /\ EndsIn(l, f) BY <3>3, FailEnds
    <3>5. Len(w) <= Len(f) BY <3>1, <3>2, Zenon DEF Longest
    <3>6. EndsIn(f, w)
      <4>1. l \in Seq(Bytes) /\ f \in Seq(Bytes) BY <3>4, ListsAre
      <4> QED BY <1>1, <3>4, <3>5, <4>1, EndsInBoth
    <3>7. f \in S BY <1>3, <3>4, RankIs, Zenon
    <3>8. f \in OutLists BY <3>6, <3>7
    <3> QED BY <3>3, <3>8, OutIs
  <2> QED BY <2>1, <2>2
<1>4. \A l \in Lists : l \in S
  <2> HIDE DEF S
  <2> QED BY <1>3, RankIs, RankInduction
<1> QED BY <1>4 DEF w

LEMMA NoneEnds ==
  ASSUME words \in Patterns, Direct, NEW s \in Seq(Bytes), NEW l, Best(s, l), l \notin OutLists
  PROVE  \A i \in DOMAIN words : ~ EndsIn(s, words[i])
<1> SUFFICES ASSUME NEW i \in DOMAIN words, EndsIn(s, words[i]) PROVE FALSE OBVIOUS
<1>1. words[i] \in Lists /\ words[i] \in Seq(Bytes) BY ListsAre, WordsAre
<1>2. l \in Lists /\ EndsIn(s, l) /\ Len(words[i]) <= Len(l) BY <1>1, Zenon DEF Best
<1>3. l \in Seq(Bytes) BY <1>2, ListsAre
<1>4. EndsIn(l, words[i]) BY <1>1, <1>2, <1>3, EndsInBoth
<1> QED BY <1>2, <1>4, OutWhenEnds

----------------------------------------------------------------------------
(* What was read of a line.                                                *)

Seen(s, q) == [k \in 1 .. q - s |-> Low(data[s + k - 1])]
Lowered(l) == [k \in 1 .. Len(l) |-> Low(l[k])]


LEMMA TextIs ==
  ASSUME data \in Texts
  PROVE  /\ data \in Seq(Bytes) /\ Len(data) \in Nat /\ DOMAIN data = 1 .. Len(data)
         /\ \A k \in 1 .. Len(data) : data[k] \in Bytes
         /\ data # <<>> => Len(data) >= 1
<1>1. data \in Seq(Bytes) BY LiteralAssumption DEF Bytes
<1>2. data # <<>> => Len(data) \in Nat \ {0} BY <1>1, EmptySeq
<1> QED BY <1>1, <1>2

LEMMA LoweredIs ==
  ASSUME NEW l \in Seq(Bytes)
  PROVE  /\ Lowered(l) \in Seq(Bytes) /\ Len(Lowered(l)) = Len(l)
         /\ \A k \in 1 .. Len(l) : Lowered(l)[k] = Low(l[k])
<1> DEFINE n == Len(l)
           s == Lowered(l)
<1>1. n \in Nat /\ \A k \in 1 .. n : l[k] \in Bytes OBVIOUS
<1>2. \A k \in 1 .. n : Low(l[k]) \in Bytes BY <1>1, LowIs
<1>3. s = [k \in 1 .. n |-> Low(l[k])] BY DEF Lowered
<1> HIDE DEF n, s
<1>4. s \in [1 .. n -> Bytes] /\ \A k \in 1 .. n : s[k] = Low(l[k]) BY <1>2, <1>3
<1>5. s \in Seq(Bytes) /\ Len(s) = n BY <1>1, <1>4
<1> QED BY <1>4, <1>5 DEF n, s

LEMMA LoweredNone == Lowered(<<>>) = <<>>
<1>1. <<>> \in Seq(Bytes) /\ Len(<<>>) = 0 OBVIOUS
<1>2. Lowered(<<>>) \in Seq(Bytes) /\ Len(Lowered(<<>>)) = 0 BY <1>1, LoweredIs
<1> QED BY <1>2, EmptySeq

LEMMA LoweredAppend ==
  ASSUME NEW l \in Seq(Bytes), NEW y \in Bytes
  PROVE  Lowered(Append(l, y)) = Append(Lowered(l), Low(y))
<1> DEFINE n == Len(l)
           a == Append(l, y)
           s == Lowered(a)
           t == Lowered(l)
           z == Low(y)
           u == Append(t, z)
<1>1. n \in Nat /\ a \in Seq(Bytes) /\ Len(a) = n + 1 /\ a[n + 1] = y /\ \A k \in 1 .. n : a[k] = l[k]
  OBVIOUS
<1>2. t \in Seq(Bytes) /\ Len(t) = n /\ \A k \in 1 .. n : t[k] = Low(l[k]) BY LoweredIs
<1>3. z \in Bytes BY LowIs
<1> HIDE DEF n, a, t
<1>4. s \in Seq(Bytes) /\ Len(s) = Len(a) /\ \A k \in 1 .. Len(a) : s[k] = Low(a[k])
  BY <1>1, LoweredIs
<1> HIDE DEF s
<1>5. Len(s) = n + 1 /\ \A k \in 1 .. n + 1 : s[k] = Low(a[k]) BY <1>1, <1>4
<1> HIDE DEF z
<1>6. /\ u \in Seq(Bytes) /\ Len(u) = n + 1 /\ u[n + 1] = z /\ \A k \in 1 .. n : u[k] = t[k]
  BY <1>1, <1>2, <1>3
<1> HIDE DEF u
<1>7. /\ \A k \in 1 .. n + 1 : k \in 1 .. n \/ k = n + 1
      /\ \A k \in 1 .. n : k \in 1 .. n + 1
      /\ n + 1 \in 1 .. n + 1
  BY <1>1
<1>8. \A k \in 1 .. n : s[k] = u[k]
  <2> SUFFICES ASSUME NEW k \in 1 .. n PROVE s[k] = u[k] OBVIOUS
  <2>1. s[k] = Low(a[k]) /\ a[k] = l[k] /\ u[k] = t[k] /\ t[k] = Low(l[k])
    BY <1>1, <1>2, <1>5, <1>6, <1>7, Zenon
  <2> QED BY <2>1, Zenon
<1>9. s[n + 1] = u[n + 1] BY <1>1, <1>5, <1>6, <1>7, Zenon DEF z
<1>10. \A k \in 1 .. Len(s) : s[k] = u[k]
  <2>1. \A k \in 1 .. n + 1 : s[k] = u[k] BY <1>7, <1>8, <1>9, Zenon
  <2> QED BY <1>5, <2>1, Zenon
<1>11. s = u BY <1>4, <1>5, <1>6, <1>10, SeqEqual, Zenon
<1> QED BY <1>11 DEF s, a, u, t, z

\* What ends a list ends it in small letters too.
LEMMA LoweredEnds ==
  ASSUME NEW l \in Seq(Bytes), NEW k \in Seq(Bytes), EndsIn(l, k)
  PROVE  EndsIn(Lowered(l), Lowered(k))
<1> DEFINE n == Len(l)
           m == Len(k)
           s == Lowered(l)
           t == Lowered(k)
<1>1. n \in Nat /\ m \in Nat OBVIOUS
<1>2. m <= n /\ \A i \in 1 .. m : k[i] = l[n - m + i] BY DEF EndsIn
<1>3. /\ Len(s) = n /\ (\A i \in 1 .. n : s[i] = Low(l[i]))
      /\ Len(t) = m /\ \A i \in 1 .. m : t[i] = Low(k[i])
  BY LoweredIs
<1> HIDE DEF n, m, s, t
<1>4. \A i \in 1 .. m : n - m + i \in 1 .. n BY <1>1, <1>2
<1>5. ASSUME NEW i \in 1 .. m PROVE t[i] = s[n - m + i]
  <2>1. t[i] = Low(k[i]) /\ k[i] = l[n - m + i] /\ s[n - m + i] = Low(l[n - m + i])
    BY <1>2, <1>3, <1>4, Zenon
  <2> QED BY <2>1, Zenon
<1>6. EndsIn(s, t) BY <1>2, <1>3, <1>5 DEF EndsIn
<1> QED BY <1>6 DEF s, t

LEMMA SeenIs ==
  ASSUME data \in Texts, NEW s \in 1 .. Len(data), NEW q \in s .. Len(data) + 1
  PROVE  /\ Seen(s, q) \in Seq(Bytes) /\ Len(Seen(s, q)) = q - s
         /\ \A k \in 1 .. q - s : Seen(s, q)[k] = Low(data[s + k - 1])
<1> DEFINE N == Len(data)
           n == q - s
           t == Seen(s, q)
           L(k) == Low(data[s + k - 1])
<1>1. N \in Nat /\ \A k \in 1 .. N : data[k] \in Bytes BY TextIs
<1>2. s \in 1 .. N /\ q \in s .. N + 1 OBVIOUS
<1> HIDE DEF N
<1>3. n \in Nat /\ \A k \in 1 .. n : s + k - 1 \in 1 .. N BY <1>1, <1>2
<1>4. \A k \in 1 .. n : L(k) \in Bytes
  <2>1. \A k \in 1 .. n : data[s + k - 1] \in Bytes BY <1>1, <1>3, Zenon
  <2> QED BY <2>1, LowIs, Zenon
<1>5. t = [k \in 1 .. n |-> L(k)] BY DEF Seen
<1> HIDE DEF n, t, L
<1>6. t \in [1 .. n -> Bytes] /\ \A k \in 1 .. n : t[k] = L(k) BY <1>4, <1>5
<1>7. t \in Seq(Bytes) /\ Len(t) = n BY <1>3, <1>6
<1> QED BY <1>6, <1>7, Zenon DEF n, t, L

LEMMA SeenNone ==
  ASSUME data \in Texts, NEW s \in 1 .. Len(data)
  PROVE  Seen(s, s) = <<>>
<1>1. Len(data) \in Nat BY TextIs
<1>2. s \in s .. Len(data) + 1 /\ s - s = 0 BY <1>1
<1>3. Seen(s, s) \in Seq(Bytes) /\ Len(Seen(s, s)) = 0 BY <1>2, SeenIs
<1> QED BY <1>3, EmptySeq

LEMMA SeenNext ==
  ASSUME data \in Texts, NEW s \in 1 .. Len(data), NEW q \in s .. Len(data)
  PROVE  Seen(s, q + 1) = Append(Seen(s, q), Low(data[q]))
<1> DEFINE N == Len(data)
           n == q - s
           t == Seen(s, q)
           v == Seen(s, q + 1)
           z == Low(data[q])
           u == Append(t, z)
<1>1. N \in Nat /\ s \in 1 .. N /\ q \in s .. N BY TextIs
<1>2. /\ n \in Nat /\ q \in s .. N + 1 /\ q + 1 \in s .. N + 1 /\ (q + 1) - s = n + 1
      /\ s + (n + 1) - 1 = q /\ q \in 1 .. N
  <2> HIDE DEF N
  <2> QED BY <1>1
<1>3. t \in Seq(Bytes) /\ Len(t) = n /\ \A k \in 1 .. n : t[k] = Low(data[s + k - 1])
  BY <1>2, SeenIs
<1>4. v \in Seq(Bytes) /\ Len(v) = n + 1 /\ \A k \in 1 .. n + 1 : v[k] = Low(data[s + k - 1])
  <2> DEFINE r == q + 1
  <2>1. r \in s .. N + 1 /\ r - s = n + 1 BY <1>2
  <2>2. /\ Seen(s, r) \in Seq(Bytes) /\ Len(Seen(s, r)) = r - s
        /\ \A k \in 1 .. r - s : Seen(s, r)[k] = Low(data[s + k - 1])
    <3> HIDE DEF r, n
    <3> QED BY <2>1, SeenIs
  <2> HIDE DEF n
  <2> QED BY <2>1, <2>2, Zenon
<1>5. z \in Bytes BY <1>2, TextIs, LowIs
<1> HIDE DEF N, n, t, v, z
<1>6. /\ u \in Seq(Bytes) /\ Len(u) = n + 1 /\ u[n + 1] = z /\ \A k \in 1 .. n : u[k] = t[k]
  BY <1>2, <1>3, <1>5
<1> HIDE DEF u
<1>7. /\ \A k \in 1 .. n + 1 : k \in 1 .. n \/ k = n + 1
      /\ \A k \in 1 .. n : k \in 1 .. n + 1
      /\ n + 1 \in 1 .. n + 1
  BY <1>2
<1>8. \A k \in 1 .. n : v[k] = u[k] BY <1>3, <1>4, <1>6, <1>7, Zenon
<1>9. v[n + 1] = u[n + 1] BY <1>2, <1>4, <1>6, <1>7, Zenon DEF z
<1>10. \A k \in 1 .. n + 1 : v[k] = u[k] BY <1>7, <1>8, <1>9, Zenon
<1>11. v = u BY <1>4, <1>6, <1>10, SeqEqual, Zenon
<1> QED BY <1>11 DEF v, u, t, z

\* What the automaton is in ends what was read.
LEMMA ReadNext ==
  ASSUME words \in Patterns, data \in Texts, NEW s \in 1 .. Len(data), NEW q \in s .. Len(data),
         NEW l \in Lists, EndsIn(Seen(s, q), Lowered(l)),
         NEW m \in Lists, Follows(l, m, data[q])
  PROVE  EndsIn(Seen(s, q + 1), Lowered(m))
<1> DEFINE a == Seen(s, q)
           z == Low(data[q])
           b == Append(a, z)
<1>1. Len(data) \in Nat BY TextIs
<1>2. q \in s .. Len(data) + 1 /\ q \in 1 .. Len(data) BY <1>1
<1>3. a \in Seq(Bytes) /\ z \in Bytes BY <1>2, SeenIs, TextIs, LowIs
<1>4. b \in Seq(Bytes) /\ Seen(s, q + 1) = b BY <1>3, SeenNext
<1>5. l \in Seq(Bytes) BY ListsAre
<1>6. CASE m = <<>>
  <2>1. Lowered(m) = <<>> BY <1>6, LoweredNone
  <2>2. EndsIn(b, <<>>)
    <3> HIDE DEF b
    <3> QED BY <1>4, EndsInSelf
  <2> QED BY <1>4, <2>1, <2>2, Zenon
<1>7. CASE m # <<>>
  <2>1. PICK k \in Lists, y \in Bytes : EndsIn(l, k) /\ ccomp(y, data[q]) /\ m = Append(k, y)
    BY <1>7, Zenon DEF Follows
  <2>2. k \in Seq(Bytes) BY ListsAre
  <2>3. Low(y) = z BY <2>1, LowIs, Zenon
  <2> DEFINE c == Lowered(k)
  <2>4. Lowered(m) = Append(c, z) BY <2>1, <2>2, <2>3, LoweredAppend, Zenon
  <2>5. c \in Seq(Bytes) /\ Lowered(l) \in Seq(Bytes) BY <1>5, <2>2, LoweredIs
  <2>6. EndsIn(Lowered(l), c) BY <1>5, <2>1, <2>2, LoweredEnds
  <2> HIDE DEF a, z, c
  <2>7. EndsIn(a, Lowered(l)) BY DEF a
  <2>8. EndsIn(a, c) BY <1>3, <2>5, <2>6, <2>7, EndsInTransitive
  <2>9. EndsIn(Append(a, z), Append(c, z)) BY <1>3, <2>5, <2>8, AppendEnds
  <2> QED BY <1>4, <2>4, <2>9, Zenon
<1> QED BY <1>6, <1>7

----------------------------------------------------------------------------
(* The lines of the text.                                                  *)

LEMMA StartsAre ==
  ASSUME data \in Texts, data # <<>>
  PROVE  /\ Starts \subseteq 1 .. Len(data) /\ 1 \in Starts
         /\ Newlines \subseteq 1 .. Len(data)
         /\ \A s \in Starts : s = 1 \/ \E n \in Newlines : n # Len(data) /\ s = n + 1
         /\ \A n \in Newlines : n # Len(data) => n + 1 \in Starts
<1> DEFINE N == Len(data)
<1>1. N \in Nat /\ N >= 1 /\ Newlines = {n \in 1 .. N : data[n] = newline}
  BY TextIs DEF Newlines
<1>2. Starts = {1} \cup {n + 1 : n \in Newlines \ {N}} BY DEF Starts
<1> HIDE DEF N
<1>3. \A n \in Newlines : n # N => n + 1 \in 1 .. N BY <1>1
<1>4. \A s \in Starts : s = 1 \/ \E n \in Newlines : n # N /\ s = n + 1 BY <1>2, Zenon
<1>5. 1 \in 1 .. N BY <1>1
<1>6. Starts \subseteq 1 .. N BY <1>3, <1>4, <1>5, Zenon
<1>7. 1 \in Starts /\ \A n \in Newlines : n # N => n + 1 \in Starts BY <1>2, Zenon
<1>8. Newlines \subseteq 1 .. N BY <1>1
<1> QED BY <1>4, <1>6, <1>7, <1>8 DEF N

\* Where the line ends that begins at s and is read up to q.
LEMMA EndIs ==
  ASSUME data \in Texts, data # <<>>, NEW s \in Starts, NEW q \in s .. Len(data),
         \A k \in s .. q - 1 : data[k] # newline
  PROVE  /\ End(s) \in q .. Len(data)
         /\ data[q] = newline => End(s) = q
         /\ End(s) # Len(data) => Ended(s)
<1> DEFINE N == Len(data)
           S == {n \in Newlines \cup {N} : n >= s}
           e == End(s)
<1>1. N \in Nat /\ N >= 1 /\ Newlines = {n \in 1 .. N : data[n] = newline}
  BY TextIs DEF Newlines
<1>2. s \in 1 .. N /\ q \in s .. N BY StartsAre
<1>3. e = Min(S) BY DEF End
<1> HIDE DEF N, e
<1>4. S \subseteq Nat /\ N \in S BY <1>1, <1>2
<1>5. e \in S /\ \A n \in S : e <= n
  <2> HIDE DEF S
  <2> QED BY <1>3, <1>4, LeastIs
<1>6. e \in 1 .. N /\ e >= s /\ (e # N => data[e] = newline) BY <1>1, <1>2, <1>5
<1>7. e >= q
  <2> SUFFICES ASSUME e < q PROVE FALSE BY <1>2, <1>6
  <2>1. e \in s .. q - 1 /\ e # N BY <1>1, <1>2, <1>6
  <2>2. data[e] # newline BY <2>1, Zenon
  <2> QED BY <1>6, <2>1, <2>2
<1>8. data[q] = newline => e = q
  <2> SUFFICES ASSUME data[q] = newline PROVE e = q OBVIOUS
  <2>1. q \in Newlines BY <1>1, <1>2
  <2>2. q \in S BY <1>2, <2>1
  <2>3. e <= q BY <1>5, <2>2, Zenon
  <2> QED BY <1>2, <1>6, <1>7, <2>3
<1>9. e \in q .. N BY <1>1, <1>2, <1>6, <1>7
<1>10. e # N => Ended(s) BY <1>6, Zenon DEF Ended, e
<1> QED BY <1>8, <1>9, <1>10 DEF N, e

LastOf(s) == IF Ended(s) THEN End(s) - 1 ELSE End(s)

LEMMA PieceIs ==
  ASSUME data \in Texts, NEW s \in 1 .. Len(data), NEW e \in s - 1 .. Len(data)
  PROVE  /\ SubSeq(data, s, e) \in Seq(Bytes) /\ Len(SubSeq(data, s, e)) = e - s + 1
         /\ \A k \in 1 .. e - s + 1 : SubSeq(data, s, e)[k] = data[s + k - 1]
<1> DEFINE N == Len(data)
           t == SubSeq(data, s, e)
           n == e - s + 1
<1>1. N \in Nat /\ s \in 1 .. N /\ e \in s - 1 .. N /\ \A k \in 1 .. N : data[k] \in Bytes
  BY TextIs
<1> HIDE DEF N
<1>2. /\ s \in Int /\ e \in Int /\ n \in Nat
      /\ (IF s <= e THEN e - s + 1 ELSE 0) = n
      /\ \A k \in s .. e : k \in 1 .. N
  BY <1>1
<1>3. \A k \in s .. e : data[k] \in Bytes BY <1>1, <1>2
<1>4. /\ t \in Seq(Bytes) /\ Len(t) = (IF s <= e THEN e - s + 1 ELSE 0)
      /\ \A k \in 1 .. e - s + 1 : t[k] = data[s + k - 1]
  BY <1>2, <1>3, SubSeqProperties
<1> HIDE DEF t
<1> QED BY <1>2, <1>4, Zenon DEF t

\* The line that begins at s: what was read, and more if it is not done.
LEMMA LineIs ==
  ASSUME data \in Texts, data # <<>>, NEW s \in Starts, NEW q \in s .. Len(data),
         \A k \in s .. q - 1 : data[k] # newline
  PROVE  /\ LastOf(s) \in q - 1 .. Len(data)
         /\ LineAt(s) \in Seq(Bytes) /\ Len(LineAt(s)) = LastOf(s) - s + 1
         /\ \A k \in 1 .. LastOf(s) - s + 1 : LineAt(s)[k] = data[s + k - 1]
         /\ LineAt(s) = SubSeq(data, s, LastOf(s))
         /\ data[q] = newline => Ended(s) /\ LastOf(s) = q - 1
<1> DEFINE N == Len(data)
           e == End(s)
           l == LastOf(s)
<1>1. N \in Nat /\ s \in 1 .. N /\ q \in s .. N BY TextIs, StartsAre
<1>2. e \in q .. N /\ (data[q] = newline => e = q) BY EndIs
<1>3. data[q] = newline => Ended(s) BY <1>2, Zenon DEF Ended
<1>4. l = IF Ended(s) THEN e - 1 ELSE e BY DEF LastOf
<1>5. LineAt(s) = SubSeq(data, s, l) BY Zenon DEF LineAt, LastOf
<1> HIDE DEF N, e, l
<1>6. l \in q - 1 .. N /\ (data[q] = newline => l = q - 1) BY <1>1, <1>2, <1>3, <1>4
<1>7. l \in s - 1 .. N BY <1>1, <1>6
<1>8. /\ SubSeq(data, s, l) \in Seq(Bytes) /\ Len(SubSeq(data, s, l)) = l - s + 1
      /\ \A k \in 1 .. l - s + 1 : SubSeq(data, s, l)[k] = data[s + k - 1]
  BY <1>1, <1>7, PieceIs DEF N
<1> QED BY <1>3, <1>5, <1>6, <1>8, Zenon DEF N, l

\* A word that ends what was read is in the line.
LEMMA EndsThenHas ==
  ASSUME words \in Patterns, data \in Texts, data # <<>>, NEW s \in Starts,
         NEW q \in s .. Len(data), \A k \in s .. q - 1 : data[k] # newline,
         NEW i \in DOMAIN words, EndsIn(Seen(s, q), Lowered(words[i]))
  PROVE  HasLiteral(LineAt(s))
<1> DEFINE N == Len(data)
           w == words[i]
           m == Len(w)
           a == Seen(s, q)
           b == Lowered(w)
           line == LineAt(s)
           c == LastOf(s) - s + 1
           u == q - s
           n == u - m
<1>1. N \in Nat /\ s \in 1 .. N /\ q \in s .. N + 1 /\ u \in Nat
  <2>1. N \in Nat /\ s \in 1 .. N /\ q \in s .. N BY TextIs, StartsAre
  <2> HIDE DEF N
  <2> QED BY <2>1
<1>2. w \in Seq(Bytes) /\ m \in Nat /\ DOMAIN w = 1 .. m
  <2>1. w \in Seq(Bytes) BY WordsAre
  <2> HIDE DEF w
  <2> QED BY <2>1
<1>3. Len(a) = u /\ \A k \in 1 .. u : a[k] = Low(data[s + k - 1]) BY <1>1, SeenIs
<1>4. Len(b) = m /\ \A k \in 1 .. m : b[k] = Low(w[k]) BY <1>2, LoweredIs
<1>5. LastOf(s) \in q - 1 .. N /\ Len(line) = c /\ \A k \in 1 .. c : line[k] = data[s + k - 1]
  BY LineIs
<1>6. EndsIn(a, b) OBVIOUS
<1> HIDE DEF w, a, b, line
<1>7. Len(b) <= Len(a) /\ \A k \in 1 .. Len(b) : b[k] = a[Len(a) - Len(b) + k]
  BY <1>6, Zenon DEF EndsIn
<1>8. m <= u /\ \A k \in 1 .. m : b[k] = a[u - m + k] BY <1>3, <1>4, <1>7, Zenon
<1> HIDE DEF m
<1>9. /\ u <= c /\ c \in Nat
  <2> DEFINE l == LastOf(s)
  <2>1. l \in q - 1 .. N BY <1>5
  <2> HIDE DEF l, N
  <2>2. l - s + 1 \in Nat /\ q - s <= l - s + 1 BY <1>1, <2>1
  <2> QED BY <2>2 DEF l
<1> HIDE DEF N, c, u
<1>10. /\ n \in 0 .. c /\ n + m <= c
       /\ \A k \in 1 .. m : n + k \in 1 .. u /\ n + k \in 1 .. c /\ u - m + k = n + k
  BY <1>1, <1>2, <1>8, <1>9
<1> HIDE DEF n
<1>11. \A k \in 1 .. m : ccomp(w[k], line[n + k])
  <2> SUFFICES ASSUME NEW k \in 1 .. m PROVE ccomp(w[k], line[n + k]) OBVIOUS
  <2> DEFINE j == n + k
  <2>1. j \in 1 .. u /\ j \in 1 .. c /\ u - m + k = j BY <1>10
  <2>2. b[k] = a[u - m + k] /\ b[k] = Low(w[k]) BY <1>4, <1>8, Zenon
  <2> HIDE DEF j
  <2>3. b[k] = a[j] BY <2>1, <2>2, Zenon
  <2>4. a[j] = Low(data[s + j - 1]) /\ line[j] = data[s + j - 1] BY <1>3, <1>5, <2>1, Zenon
  <2>5. Low(w[k]) = Low(line[j]) BY <2>2, <2>3, <2>4, Zenon
  <2>6. ccomp(w[k], line[j]) BY <2>5, LowIs, Zenon
  <2> QED BY <2>6 DEF j
<1>12. OccursAt(w, line, n)
  <2>1. n + Len(w) <= Len(line) BY <1>5, <1>10 DEF m
  <2> QED BY <1>2, <1>11, <2>1, Zenon DEF OccursAt
<1>13. n \in 0 .. Len(line) BY <1>5, <1>10
<1> QED BY <1>12, <1>13, Zenon DEF HasLiteral, w, line

Nothing(s, q) == \A r \in s .. q : \A i \in DOMAIN words : ~ EndsIn(Seen(s, r), words[i])

\* And if none ends it anywhere, none is in the line.
LEMMA NothingThenNone ==
  ASSUME words \in Patterns, Direct, data \in Texts, data # <<>>, NEW s \in Starts,
         NEW q \in s .. Len(data), \A k \in s .. q - 1 : data[k] # newline,
         data[q] = newline, Nothing(s, q)
  PROVE  ~ HasLiteral(LineAt(s))
<1> SUFFICES ASSUME NEW i \in DOMAIN words, NEW n \in 0 .. Len(LineAt(s)),
                    OccursAt(words[i], LineAt(s), n)
             PROVE  FALSE
  BY Zenon DEF HasLiteral
<1> DEFINE N == Len(data)
           w == words[i]
           m == Len(w)
           line == LineAt(s)
           c == q - s
           r == s + (n + m)
           u == n + m
           a == Seen(s, r)
<1>1. N \in Nat /\ s \in 1 .. N /\ q \in s .. N /\ c \in Nat
  <2>1. N \in Nat /\ s \in 1 .. N /\ q \in s .. N BY TextIs, StartsAre
  <2> HIDE DEF N
  <2> QED BY <2>1
<1>2. w \in Lists /\ w \in Seq(Bytes) /\ m \in Nat /\ DOMAIN w = 1 .. m
  <2>1. w \in Lists BY ListsAre
  <2>2. w \in Seq(Bytes) BY WordsAre
  <2> HIDE DEF w
  <2> QED BY <2>1, <2>2
<1>3. Len(line) = c /\ \A k \in 1 .. c : line[k] = data[s + k - 1]
  <2>1. LastOf(s) = q - 1 BY LineIs
  <2>2. (q - 1) - s + 1 = c
    <3> HIDE DEF N
    <3> QED BY <1>1
  <2>3. LastOf(s) - s + 1 = c BY <2>1, <2>2
  <2>4. Len(line) = LastOf(s) - s + 1 /\ \A k \in 1 .. LastOf(s) - s + 1 : line[k] = data[s + k - 1]
    BY LineIs
  <2> HIDE DEF line, c
  <2> QED BY <2>3, <2>4, Zenon
<1>4. n + m <= c /\ \A k \in 1 .. m : ccomp(w[k], line[n + k])
  <2>1. n + Len(w) <= Len(line) /\ \A k \in DOMAIN w : ccomp(w[k], line[n + k])
    BY Zenon DEF OccursAt
  <2> HIDE DEF c, line, w
  <2> QED BY <1>2, <1>3, <2>1
<1>5. n \in Nat BY <1>3, <1>1
<1>6. \A k \in 1 .. m : Low(w[k]) = w[k] BY <1>2, DirectLow
<1> HIDE DEF w, line, m, N
<1>7. /\ r \in s .. q /\ r \in s .. N + 1 /\ r - s = u /\ u \in Nat /\ m <= u
      /\ \A k \in 1 .. m : n + k \in 1 .. u /\ n + k \in 1 .. c /\ u - m + k = n + k
  BY <1>1, <1>2, <1>4, <1>5
<1> HIDE DEF r, u, c
<1>8. Len(a) = u /\ \A k \in 1 .. u : a[k] = Low(data[s + k - 1])
  <2>1. s \in 1 .. Len(data) /\ r \in s .. Len(data) + 1 BY <1>1, <1>7 DEF N
  <2>2. Len(a) = r - s /\ \A k \in 1 .. r - s : a[k] = Low(data[s + k - 1]) BY <2>1, SeenIs
  <2> HIDE DEF a
  <2> QED BY <1>7, <2>2, Zenon
<1> HIDE DEF a
<1>9. ASSUME NEW k \in 1 .. m PROVE w[k] = a[u - m + k]
  <2> DEFINE j == n + k
  <2>1. j \in 1 .. u /\ j \in 1 .. c /\ u - m + k = j BY <1>7
  <2>2. ccomp(w[k], line[j]) BY <1>4, Zenon
  <2> HIDE DEF j
  <2>3. Low(w[k]) = Low(line[j]) BY <2>2, LowIs, Zenon
  <2>4. a[j] = Low(data[s + j - 1]) /\ line[j] = data[s + j - 1] BY <1>3, <1>8, <2>1, Zenon
  <2>5. w[k] = a[j] BY <1>6, <2>3, <2>4, Zenon
  <2> QED BY <2>1, <2>5, Zenon
<1>10. EndsIn(a, w) BY <1>7, <1>8, <1>9, Zenon DEF EndsIn, m
<1> QED BY <1>7, <1>10, Zenon DEF Nothing, a, w

LEMMA NextStart ==
  ASSUME data \in Texts, data # <<>>, NEW s \in Starts, NEW q \in s .. Len(data),
         \A k \in s .. q - 1 : data[k] # newline, data[q] = newline
  PROVE  /\ LineNumber(s) \in Nat /\ LineNumber(q + 1) = LineNumber(s) + 1
         /\ q # Len(data) => q + 1 \in Starts
         /\ \A t \in Starts : t < q + 1 <=> t < s \/ t = s
<1> DEFINE N == Len(data)
           Old == {n \in Newlines : n < s}
           New == {n \in Newlines : n < q + 1}
<1>1. N \in Nat /\ N >= 1 /\ Newlines = {n \in 1 .. N : data[n] = newline}
  BY TextIs DEF Newlines
<1>2. s \in 1 .. N /\ q \in s .. N BY StartsAre
<1>3. /\ Starts \subseteq 1 .. N
      /\ \A t \in Starts : t = 1 \/ \E n \in Newlines : n # N /\ t = n + 1
      /\ \A n \in Newlines : n # N => n + 1 \in Starts
  BY StartsAre
<1> HIDE DEF N
<1>4. q \in Newlines BY <1>1, <1>2
<1>5. \A n \in Newlines : n < q + 1 <=> n < s \/ n = q
  <2> SUFFICES ASSUME NEW n \in Newlines PROVE n < q + 1 <=> n < s \/ n = q OBVIOUS
  <2>1. n \in 1 .. N /\ data[n] = newline BY <1>1
  <2>2. ~ (n \in s .. q - 1) BY <2>1, Zenon
  <2> QED BY <1>1, <1>2, <2>1, <2>2
<1>6. New = Old \cup {q} /\ q \notin Old
  <2>1. ~ (q < s) BY <1>1, <1>2
  <2>2. New \subseteq Old \cup {q} BY <1>5, Zenon
  <2>3. Old \cup {q} \subseteq New BY <1>4, <1>5, Zenon
  <2> QED BY <2>1, <2>2, <2>3, Zenon
<1>7. IsFiniteSet(Old)
  <2>1. IsFiniteSet(1 .. N) BY <1>1, FS_Interval
  <2>2. Old \subseteq 1 .. N BY <1>1
  <2> HIDE DEF Old
  <2> QED BY <2>1, <2>2, FS_Subset
<1>8. LineNumber(s) = Cardinality(Old) + 1 /\ LineNumber(q + 1) = Cardinality(New) + 1
  BY Zenon DEF LineNumber
<1> HIDE DEF Old, New
<1>9. Cardinality(Old) \in Nat /\ Cardinality(New) = Cardinality(Old) + 1
  BY <1>6, <1>7, FS_CardinalityType, FS_AddElement
<1>10. LineNumber(s) \in Nat /\ LineNumber(q + 1) = LineNumber(s) + 1 BY <1>8, <1>9
<1>11. q # N => q + 1 \in Starts BY <1>3, <1>4
<1>12. ASSUME NEW t \in Starts PROVE t < q + 1 <=> t < s \/ t = s
  <2>1. t \in 1 .. N BY <1>3
  <2>2. CASE t = 1 BY <1>1, <1>2, <2>2
  <2>3. CASE \E n \in Newlines : n # N /\ t = n + 1
    <3>1. PICK n \in Newlines : n # N /\ t = n + 1 BY <2>3
    <3>2. n \in 1 .. N BY <1>1
    <3>3. n < q + 1 <=> n < s \/ n = q BY <1>5
    <3> QED BY <1>1, <1>2, <3>1, <3>2, <3>3
  <2> QED BY <1>3, <2>2, <2>3
<1> QED BY <1>10, <1>11, <1>12 DEF N

LEMMA NumberIs ==
  ASSUME data \in Texts, NEW s
  PROVE  LineNumber(s) \in Nat
<1> DEFINE Old == {n \in Newlines : n < s}
<1>1. Len(data) \in Nat /\ Newlines \subseteq 1 .. Len(data) BY TextIs DEF Newlines
<1>2. IsFiniteSet(Old)
  <2>1. IsFiniteSet(1 .. Len(data)) BY <1>1, FS_Interval
  <2>2. Old \subseteq 1 .. Len(data) BY <1>1
  <2> HIDE DEF Old
  <2> QED BY <2>1, <2>2, FS_Subset
<1>3. LineNumber(s) = Cardinality(Old) + 1 BY Zenon DEF LineNumber
<1> HIDE DEF Old
<1> QED BY <1>2, <1>3, FS_CardinalityType

\* The last line: none begins after it.
LEMMA LastStart ==
  ASSUME data \in Texts, data # <<>>, NEW s \in Starts,
         \A k \in s .. Len(data) - 1 : data[k] # newline
  PROVE  Max(Starts) = s /\ \A t \in Starts : t < s \/ t = s
<1> DEFINE N == Len(data)
<1>1. N \in Nat /\ N >= 1 /\ Newlines = {n \in 1 .. N : data[n] = newline}
  BY TextIs DEF Newlines
<1>2. /\ Starts \subseteq 1 .. N
      /\ \A t \in Starts : t = 1 \/ \E n \in Newlines : n # N /\ t = n + 1
  BY StartsAre
<1>3. \A k \in s .. N - 1 : data[k] # newline OBVIOUS
<1> HIDE DEF N
<1>4. s \in 1 .. N BY <1>2
<1>5. ASSUME NEW t \in Starts PROVE t < s \/ t = s
  <2>1. t \in 1 .. N BY <1>2
  <2>2. CASE t = 1 BY <1>1, <1>4, <2>2
  <2>3. CASE \E n \in Newlines : n # N /\ t = n + 1
    <3>1. PICK n \in Newlines : n # N /\ t = n + 1 BY <2>3
    <3>2. n \in 1 .. N /\ data[n] = newline BY <1>1
    <3>3. ~ (n \in s .. N - 1) BY <1>3, <3>2, Zenon
    <3> QED BY <1>1, <1>4, <3>1, <3>2, <3>3
  <2> QED BY <1>2, <2>2, <2>3
<1>6. Max(Starts) \in Starts /\ \A t \in Starts : Max(Starts) >= t
  <2>1. IsFiniteSet(Starts)
    <3>1. IsFiniteSet(1 .. N)
      <4>1. 1 \in Int /\ N \in Int BY <1>1
      <4> QED BY <4>1, FS_Interval
    <3> QED BY <1>2, <3>1, FS_Subset, Zenon
  <2>2. Starts \subseteq Nat BY <1>1, <1>2
  <2>3. Starts # {} BY Zenon
  <2> QED BY <2>1, <2>2, <2>3, MaxIs, Zenon
<1>7. Max(Starts) = s
  <2> DEFINE m == Max(Starts)
  <2>1. m \in 1 .. N /\ m >= s /\ (m < s \/ m = s) BY <1>2, <1>5, <1>6
  <2> HIDE DEF m
  <2>2. m = s BY <1>1, <1>4, <2>1
  <2> QED BY <2>2 DEF m
<1> QED BY <1>5, <1>7

\* What is printed of a line.
Image(s, q) ==
  LET line == SubSeq(data, s, q)
  IN IF line # <<>> /\ Last(line) = newline THEN Front(line) ELSE line

LEMMA ImageIs ==
  ASSUME data \in Texts, data # <<>>, NEW s \in Starts, NEW q \in s .. Len(data),
         \A k \in s .. q - 1 : data[k] # newline,
         data[q] = newline \/ q = Len(data) - 1
  PROVE  Image(s, q) \in Images(s) /\ Image(s, q) \in Seq(Bytes)
<1> DEFINE N == Len(data)
           l == SubSeq(data, s, q)
           f == Front(l)
           n == q - s + 1
<1>1. N \in Nat /\ s \in 1 .. N /\ q \in s .. N /\ q \in s - 1 .. N
  <2>1. N \in Nat /\ s \in 1 .. N /\ q \in s .. N BY TextIs, StartsAre
  <2> HIDE DEF N
  <2> QED BY <2>1
<1>2. l \in Seq(Bytes) /\ Len(l) = n /\ \A k \in 1 .. n : l[k] = data[s + k - 1]
  BY <1>1, PieceIs
<1>3. n \in Nat \ {0} /\ n \in 1 .. n /\ s + n - 1 = q
  <2> HIDE DEF N
  <2> QED BY <1>1
<1> HIDE DEF l
<1>4. l # <<>> /\ Last(l) = data[q]
  <2>1. l # <<>> BY <1>2, <1>3
  <2>2. l[n] = data[q] BY <1>2, <1>3, Zenon
  <2> QED BY <1>2, <2>1, <2>2, Zenon DEF Last
<1>5. f \in Seq(Bytes) /\ Len(f) = n - 1 /\ \A k \in 1 .. n - 1 : f[k] = l[k]
  <2>1. f \in Seq(Bytes) /\ Len(f) = Len(l) - 1 /\ \A k \in 1 .. Len(l) - 1 : f[k] = l[k]
    BY <1>2, <1>4, FrontLast
  <2> HIDE DEF n, f
  <2> QED BY <1>2, <2>1, Zenon
<1>6. Image(s, q) = IF data[q] = newline THEN f ELSE l
  <2>1. Image(s, q) = IF l # <<>> /\ Last(l) = newline THEN f ELSE l BY Zenon DEF Image, l
  <2> QED BY <1>4, <2>1, Zenon
<1>7. CASE data[q] = newline
  <2>1. /\ LastOf(s) = q - 1 /\ LineAt(s) \in Seq(Bytes) /\ Len(LineAt(s)) = LastOf(s) - s + 1
        /\ \A k \in 1 .. LastOf(s) - s + 1 : LineAt(s)[k] = data[s + k - 1]
    BY <1>7, LineIs
  <2> DEFINE g == LineAt(s)
             m == n - 1
  <2>2. (q - 1) - s + 1 = m /\ m \in Nat /\ \A k \in 1 .. m : k \in 1 .. n
    <3> HIDE DEF N
    <3> QED BY <1>1, <1>3
  <2>3. LastOf(s) - s + 1 = m BY <2>1, <2>2
  <2>4. Len(f) = m /\ \A k \in 1 .. m : f[k] = l[k] BY <1>5
  <2> HIDE DEF g, f, n, m
  <2>5. g \in Seq(Bytes) /\ Len(g) = m /\ \A k \in 1 .. m : g[k] = data[s + k - 1]
    BY <2>1, <2>3, Zenon DEF g
  <2>6. Len(f) = Len(g) /\ \A k \in 1 .. Len(f) : f[k] = g[k]
    BY <1>2, <2>2, <2>4, <2>5, Zenon
  <2>7. f = g BY <1>5, <2>5, <2>6, SeqEqual, Zenon
  <2>8. g \in Images(s) BY Zenon DEF Images, g
  <2> QED BY <1>5, <1>6, <1>7, <2>7, <2>8, Zenon
<1>8. CASE data[q] # newline
  <2>1. q = N - 1 BY <1>8
  <2>2. N \in s .. N /\ \A k \in s .. N - 1 : k \in s .. q - 1 \/ k = q
    <3> HIDE DEF N
    <3> QED BY <1>1, <2>1
  <2>3. \A k \in s .. N - 1 : data[k] # newline BY <1>8, <2>2, Zenon
  <2>4. End(s) \in N .. N
    <3> HIDE DEF N, l, f, n
    <3> QED BY <2>2, <2>3, EndIs DEF N
  <2>5. End(s) = N
    <3> HIDE DEF N
    <3> QED BY <1>1, <2>4
  <2>6. CASE Ended(s)
    <3>1. LineAt(s) = SubSeq(data, s, N - 1) BY <2>5, <2>6, Zenon DEF LineAt
    <3>2. LineAt(s) = l
      <4>1. N - 1 = q BY <2>1
      <4>2. LineAt(s) = SubSeq(data, s, q)
        <5> HIDE DEF N
        <5> QED BY <3>1, <4>1, Zenon
      <4> QED BY <4>2, Zenon DEF l
    <3>3. l \in Images(s) BY <3>2, Zenon DEF Images
    <3> QED BY <1>2, <1>6, <1>8, <3>3, Zenon
  <2>7. CASE ~ Ended(s)
    <3> DEFINE g == LineAt(s)
               h == Front(g)
               m == n + 1
    <3>1. g = SubSeq(data, s, N) BY <2>5, <2>7, Zenon DEF LineAt
    <3>2. N \in s - 1 .. N /\ N - s + 1 = m /\ m \in Nat /\ m # 0 /\ m - 1 = n /\ \A k \in 1 .. n : k \in 1 .. m
      <4> HIDE DEF N
      <4> QED BY <1>1, <1>3, <2>1
    <3>3. g \in Seq(Bytes) /\ Len(g) = N - s + 1 /\ \A k \in 1 .. N - s + 1 : g[k] = data[s + k - 1]
      <4> HIDE DEF g
      <4> QED BY <1>1, <3>1, <3>2, PieceIs
    <3> HIDE DEF n, m, g
    <3>4. Len(g) = m /\ \A k \in 1 .. m : g[k] = data[s + k - 1] BY <3>2, <3>3, Zenon
    <3>5. g # <<>> BY <3>2, <3>4
    <3>6. h \in Seq(Bytes) /\ Len(h) = Len(g) - 1 /\ \A k \in 1 .. Len(g) - 1 : h[k] = g[k]
      BY <3>3, <3>5, FrontLast
    <3> HIDE DEF h
    <3>7. Len(h) = n /\ \A k \in 1 .. n : h[k] = g[k] BY <3>2, <3>4, <3>6, Zenon
    <3>8. Len(l) = Len(h) /\ \A k \in 1 .. Len(l) : l[k] = h[k]
      BY <1>2, <3>2, <3>4, <3>7, Zenon
    <3>9. l = h BY <1>2, <3>6, <3>8, SeqEqual, Zenon
    <3>10. h \in Images(s) BY <2>7, Zenon DEF Images, h, g
    <3> QED BY <1>2, <1>6, <1>8, <3>9, <3>10, Zenon
  <2> QED BY <2>6, <2>7
<1> QED BY <1>7, <1>8

----------------------------------------------------------------------------
(* What is printed.                                                        *)

Prints == [number : Nat, image : Seq(Bytes)]
Right(e) ==
  \E s \in Starts : /\ e.number = LineNumber(s) /\ e.image \in Images(s)
                    /\ "V" \in options \/ HasLiteral(LineAt(s))
Ordered(pr) ==
  /\ pr \in Seq(Prints)
  /\ \A k \in DOMAIN pr : Right(pr[k]) /\ \A j \in 1 .. k - 1 : pr[j].number < pr[k].number

Before(s) == {t \in Selected : t < s}
Recorded(s, pr) ==
  IF "path" \in options THEN pr = <<>> /\ Before(s) = {}
  ELSE {pr[k].number : k \in DOMAIN pr} = {LineNumber(t) : t \in Before(s)}
Final(pr) ==
  Direct /\ Last(data) = newline =>
    IF "path" \in options THEN Len(pr) = IF Wanted = {} THEN 0 ELSE 1
    ELSE {pr[k].number : k \in DOMAIN pr} = {LineNumber(s) : s \in Wanted}

\* The line that begins at s is read up to q.
OnLine(q, s, n, pr) ==
  /\ q \in 1 .. Len(data) /\ s \in Starts /\ s <= q /\ n = LineNumber(s)
  /\ \A k \in s .. q - 1 : data[k] # newline
  /\ \A k \in DOMAIN pr : pr[k].number < n
  /\ Direct => Recorded(s, pr)
Searching(q, s, c, n, a, pr) ==
  /\ OnLine(q, s, n, pr) /\ c = Len(data) - q + 1
  /\ a.list \in Lists /\ (a.from = 1 \/ a.list = <<>>)
  /\ EndsIn(Seen(s, q), Lowered(a.list))
  /\ Direct => Best(Seen(s, q), a.list) /\ Nothing(s, q)
Finding(q, s, c, n, pr) ==
  /\ OnLine(q, s, n, pr) /\ q < Len(data) /\ c = Len(data) - q
  /\ HasLiteral(LineAt(s))

Entry(n, image) == [number |-> n, image |-> image]
Numbers(pr) == {pr[k].number : k \in DOMAIN pr}

LEMMA EntryIs ==
  ASSUME NEW n, NEW image
  PROVE  /\ Entry(n, image).number = n /\ Entry(n, image).image = image
         /\ n \in Nat /\ image \in Seq(Bytes) => Entry(n, image) \in Prints
BY DEF Entry, Prints

\* A line more is printed.
LEMMA PrintedMore ==
  ASSUME NEW pr, Ordered(pr), NEW s \in Starts, NEW n \in Nat, n = LineNumber(s),
         NEW image \in Seq(Bytes), image \in Images(s),
         "V" \in options \/ HasLiteral(LineAt(s)),
         \A k \in DOMAIN pr : pr[k].number < n
  PROVE  /\ Ordered(Append(pr, Entry(n, image)))
         /\ Numbers(Append(pr, Entry(n, image))) = Numbers(pr) \cup {n}
         /\ \A k \in DOMAIN Append(pr, Entry(n, image)) : Append(pr, Entry(n, image))[k].number < n + 1
         /\ Len(Append(pr, Entry(n, image))) = Len(pr) + 1
<1> DEFINE e == Entry(n, image)
           a == Append(pr, e)
           N == Len(pr)
<1>1. /\ pr \in Seq(Prints)
      /\ \A k \in DOMAIN pr : Right(pr[k]) /\ \A j \in 1 .. k - 1 : pr[j].number < pr[k].number
  BY Zenon DEF Ordered
<1>2. e \in Prints /\ e.number = n /\ e.image = image BY EntryIs
<1>3. Right(e) BY <1>2, Zenon DEF Right
<1> HIDE DEF e
<1>4. N \in Nat /\ DOMAIN pr = 1 .. N /\ \A k \in 1 .. N : pr[k] \in Prints BY <1>1
<1>5. /\ a \in Seq(Prints) /\ Len(a) = N + 1 /\ DOMAIN a = 1 .. N + 1
      /\ a[N + 1] = e /\ \A k \in 1 .. N : a[k] = pr[k]
  BY <1>1, <1>2
<1>6. \A k \in 1 .. N : pr[k].number \in Nat BY <1>4 DEF Prints
<1> HIDE DEF a, N
<1>7. /\ \A k \in 1 .. N + 1 : k \in 1 .. N \/ k = N + 1
      /\ \A k \in 1 .. N : k \in 1 .. N + 1
      /\ N + 1 \in 1 .. N + 1
      /\ \A k \in 1 .. N : \A j \in 1 .. k - 1 : j \in 1 .. N
      /\ \A k : k = N + 1 => \A j \in 1 .. k - 1 : j \in 1 .. N
  BY <1>4
<1>8. ASSUME NEW k \in DOMAIN a
      PROVE  /\ Right(a[k]) /\ a[k].number < n + 1
             /\ \A j \in 1 .. k - 1 : a[j].number < a[k].number
  <2>1. CASE k \in 1 .. N
    <3>1. a[k] = pr[k] /\ \A j \in 1 .. k - 1 : a[j] = pr[j] BY <1>5, <1>7, <2>1, Zenon
    <3>2. Right(pr[k]) /\ \A j \in 1 .. k - 1 : pr[j].number < pr[k].number
      BY <1>1, <1>4, <2>1, Zenon
    <3>3. pr[k].number < n + 1
      <4> DEFINE x == pr[k].number
      <4>1. x \in Nat /\ x < n BY <1>4, <1>6, <2>1, Zenon
      <4> HIDE DEF x
      <4>2. x < n + 1 BY <4>1
      <4> QED BY <4>2 DEF x
    <3> QED BY <3>1, <3>2, <3>3, Zenon
  <2>2. CASE k = N + 1
    <3>1. a[k] = e BY <1>5, <2>2, Zenon
    <3>2. \A j \in 1 .. k - 1 : a[j].number < n
      <4> SUFFICES ASSUME NEW j \in 1 .. k - 1 PROVE a[j].number < n OBVIOUS
      <4>1. j \in 1 .. N BY <1>7, <2>2, Zenon
      <4> QED BY <1>4, <1>5, <4>1, Zenon
    <3>3. n < n + 1 OBVIOUS
    <3> QED BY <1>2, <1>3, <3>1, <3>2, <3>3, Zenon
  <2> QED BY <1>5, <1>7, <2>1, <2>2, Zenon
<1>9. Ordered(a) BY <1>5, <1>8, Zenon DEF Ordered
<1>10. Numbers(a) = Numbers(pr) \cup {n}
  <2>1. \A x \in Numbers(a) : x \in Numbers(pr) \cup {n}
    <3> SUFFICES ASSUME NEW k \in DOMAIN a PROVE a[k].number \in Numbers(pr) \cup {n}
      BY Zenon DEF Numbers
    <3>1. CASE k \in 1 .. N BY <1>4, <1>5, <3>1, Zenon DEF Numbers
    <3>2. CASE k = N + 1 BY <1>2, <1>5, <3>2, Zenon
    <3> QED BY <1>5, <1>7, <3>1, <3>2, Zenon
  <2>2. \A k \in DOMAIN pr : pr[k].number \in Numbers(a) BY <1>4, <1>5, <1>7, Zenon DEF Numbers
  <2>3. n \in Numbers(a) BY <1>2, <1>5, <1>7, Zenon DEF Numbers
  <2>4. \A x \in Numbers(pr) : x \in Numbers(a) BY <2>2, Zenon DEF Numbers
  <2> HIDE DEF a
  <2> QED BY <2>1, <2>3, <2>4, Zenon
<1> QED BY <1>5, <1>8, <1>9, <1>10, Zenon DEF a, e, N

LEMMA WantedIs ==
  ASSUME data \in Texts, data # <<>>, NEW s \in Starts,
         \A k \in s .. Len(data) - 1 : data[k] # newline
  PROVE  Wanted = Before(s) \cup IF HasLiteral(LineAt(s)) /\ "V" \notin options THEN {s} ELSE {}
<1>1. Max(Starts) = s /\ \A t \in Starts : t < s \/ t = s BY LastStart
<1>2. ~ (s < s)
  <2>1. s \in 1 .. Len(data) /\ Len(data) \in Nat BY StartsAre, TextIs
  <2> QED BY <2>1
<1>3. Selected \subseteq Starts BY Zenon DEF Selected
<1>4. Before(s) = Selected \ {s} BY <1>1, <1>2, <1>3, Zenon DEF Before
<1>5. CASE "V" \in options
  <2>1. Wanted = Selected \ {s} BY <1>1, <1>5, Zenon DEF Wanted
  <2> QED BY <1>4, <1>5, <2>1
<1>6. CASE "V" \notin options
  <2>1. Wanted = Selected BY <1>6, Zenon DEF Wanted
  <2>2. s \in Selected <=> HasLiteral(LineAt(s)) = TRUE
    <3>1. HasLiteral(LineAt(s)) \in BOOLEAN BY Zenon DEF HasLiteral
    <3>2. ("V" \in options) = FALSE BY <1>6
    <3> QED BY <3>1, <3>2 DEF Selected
  <2>3. HasLiteral(LineAt(s)) \in BOOLEAN BY Zenon DEF HasLiteral
  <2> QED BY <1>4, <1>6, <2>1, <2>2, <2>3
<1> QED BY <1>5, <1>6

LEMMA OnLineIs ==
  ASSUME data \in Texts, data # <<>>, NEW s, NEW q, NEW n, NEW pr, OnLine(q, s, n, pr)
  PROVE  /\ s \in Starts /\ q \in s .. Len(data) /\ s \in 1 .. Len(data) /\ q \in 1 .. Len(data)
         /\ n \in Nat /\ n = LineNumber(s) /\ Len(data) \in Nat
         /\ \A k \in s .. q - 1 : data[k] # newline
<1> DEFINE N == Len(data)
<1>1. N \in Nat /\ q \in 1 .. N /\ s \in Starts /\ s <= q /\ n = LineNumber(s)
  BY TextIs DEF OnLine
<1>2. s \in 1 .. N BY <1>1, StartsAre
<1>3. n \in Nat BY <1>1, NumberIs
<1>4. \A k \in s .. q - 1 : data[k] # newline BY DEF OnLine
<1> HIDE DEF N
<1>5. q \in s .. N BY <1>1, <1>2
<1> QED BY <1>1, <1>2, <1>3, <1>4, <1>5 DEF N

LEMMA NotLast ==
  ASSUME data \in Texts, data # <<>>, NEW s \in Starts, NEW r \in Starts, s < r
  PROVE  s # Max(Starts)
<1> DEFINE N == Len(data)
           m == Max(Starts)
<1>1. N \in Nat /\ Starts \subseteq 1 .. N BY TextIs, StartsAre
<1> HIDE DEF N
<1>2. IsFiniteSet(Starts)
  <2>1. IsFiniteSet(1 .. N)
    <3>1. 1 \in Int /\ N \in Int BY <1>1
    <3> QED BY <3>1, FS_Interval
  <2> QED BY <1>1, <2>1, FS_Subset, Zenon
<1>3. Starts \subseteq Nat BY <1>1
<1>4. Starts # {} BY Zenon
<1>5. m \in Starts /\ m >= r BY <1>2, <1>3, <1>4, MaxIs, Zenon
<1> HIDE DEF m
<1>6. s # m BY <1>3, <1>5
<1> QED BY <1>6 DEF m

\* The line is done and none is to be printed of it.
LEMMA NextLine ==
  ASSUME data \in Texts, data # <<>>, NEW s, NEW q, NEW n, NEW pr, OnLine(q, s, n, pr),
         data[q] = newline, q # Len(data)
  PROVE  /\ q + 1 \in 1 .. Len(data) /\ q + 1 \in Starts /\ s < q + 1 /\ n + 1 = LineNumber(q + 1)
         /\ s \in Selected => Before(q + 1) = Before(s) \cup {s}
         /\ s \notin Selected => Before(q + 1) = Before(s)
<1> DEFINE r == q + 1
           N == Len(data)
<1>1. /\ s \in Starts /\ q \in s .. N /\ s \in 1 .. N /\ n \in Nat /\ n = LineNumber(s) /\ N \in Nat
      /\ \A k \in s .. q - 1 : data[k] # newline
  BY OnLineIs
<1>2. /\ LineNumber(q + 1) = LineNumber(s) + 1 /\ q + 1 \in Starts
      /\ \A t \in Starts : t < q + 1 <=> t < s \/ t = s
  BY <1>1, NextStart
<1>3. r \in 1 .. N /\ s < r
  <2> HIDE DEF N
  <2> QED BY <1>1, <1>2, StartsAre DEF N
<1>4. n + 1 = LineNumber(r) BY <1>1, <1>2
<1>5. \A t \in Starts : t < r <=> t < s \/ t = s BY <1>2
<1> HIDE DEF r
<1>6. Selected \subseteq Starts BY Zenon DEF Selected
<1>7. s \in Selected => Before(r) = Before(s) \cup {s} BY <1>5, <1>6, Zenon DEF Before
<1>8. s \notin Selected => Before(r) = Before(s) BY <1>5, <1>6, Zenon DEF Before
<1> QED BY <1>2, <1>3, <1>4, <1>7, <1>8, Zenon DEF r, N

LEMMA LineLeft ==
  ASSUME data \in Texts, data # <<>>, NEW s, NEW q, NEW n, NEW pr, OnLine(q, s, n, pr),
         data[q] = newline, q # Len(data), Ordered(pr), Direct => s \notin Selected
  PROVE  OnLine(q + 1, q + 1, n + 1, pr)
<1> DEFINE r == q + 1
           m == n + 1
<1>1. /\ r \in 1 .. Len(data) /\ r \in Starts /\ m = LineNumber(r)
      /\ s \notin Selected => Before(r) = Before(s)
  BY NextLine
<1>2. n \in Nat /\ Len(data) \in Nat BY OnLineIs
<1> HIDE DEF r
<1>3. r <= r /\ \A k \in r .. r - 1 : FALSE BY <1>1, <1>2
<1>4. Direct => Recorded(r, pr)
  <2> SUFFICES ASSUME Direct PROVE Recorded(r, pr) OBVIOUS
  <2>1. Recorded(s, pr) BY Zenon DEF OnLine
  <2> QED BY <1>1, <2>1, Zenon DEF Recorded
<1>5. \A k \in DOMAIN pr : pr[k].number < m
  <2> SUFFICES ASSUME NEW k \in DOMAIN pr PROVE pr[k].number < m OBVIOUS
  <2>1. pr \in Seq(Prints) BY Zenon DEF Ordered
  <2>2. pr[k] \in Prints BY <2>1
  <2>3. pr[k].number \in Nat BY <2>2 DEF Prints
  <2>4. pr[k].number < n BY Zenon DEF OnLine
  <2> QED BY <1>2, <2>3, <2>4
<1> HIDE DEF m
<1> QED BY <1>1, <1>3, <1>4, <1>5, Zenon DEF OnLine, r, m

\* The line is done and printed.
LEMMA RecordedMore ==
  ASSUME NEW pr, Ordered(pr), NEW s, NEW n, NEW e, Recorded(s, pr), n = LineNumber(s),
         Numbers(Append(pr, e)) = Numbers(pr) \cup {n}, Len(Append(pr, e)) = Len(pr) + 1
  PROVE  IF "path" \in options THEN Len(Append(pr, e)) = 1
         ELSE Numbers(Append(pr, e)) = {LineNumber(t) : t \in Before(s) \cup {s}}
<1> DEFINE a == Append(pr, e)
           l == Len(a)
<1>1. CASE "path" \in options
  <2>1. pr = <<>> BY <1>1, Zenon DEF Recorded
  <2>2. Len(pr) = 0 BY <2>1
  <2> QED BY <1>1, <2>2
<1>2. CASE "path" \notin options
  <2>1. Numbers(pr) = {LineNumber(t) : t \in Before(s)} BY <1>2, Zenon DEF Recorded, Numbers
  <2>2. Numbers(a) = Numbers(pr) \cup {n} OBVIOUS
  <2> HIDE DEF a
  <2>3. Numbers(a) = {LineNumber(t) : t \in Before(s) \cup {s}} BY <2>1, <2>2, Zenon
  <2> QED BY <1>2, <2>3 DEF a
<1> QED BY <1>1, <1>2

LEMMA LinePrinted ==
  ASSUME data \in Texts, data # <<>>, NEW s, NEW q, NEW n, NEW pr, OnLine(q, s, n, pr),
         data[q] = newline, q # Len(data), Ordered(pr), Direct => s \in Selected,
         "V" \in options \/ HasLiteral(LineAt(s))
  PROVE  /\ Ordered(Append(pr, Entry(n, Image(s, q))))
         /\ "path" \in options => Final(Append(pr, Entry(n, Image(s, q))))
         /\ "path" \notin options =>
              OnLine(q + 1, q + 1, n + 1, Append(pr, Entry(n, Image(s, q))))
<1> DEFINE r == q + 1
           m == n + 1
           e == Entry(n, Image(s, q))
           a == Append(pr, e)
<1>1. /\ s \in Starts /\ q \in s .. Len(data) /\ n \in Nat /\ n = LineNumber(s) /\ Len(data) \in Nat
      /\ \A k \in s .. q - 1 : data[k] # newline
  BY OnLineIs
<1>2. /\ r \in 1 .. Len(data) /\ r \in Starts /\ s < r /\ m = LineNumber(r)
      /\ s \in Selected => Before(r) = Before(s) \cup {s}
  BY NextLine
<1>3. Image(s, q) \in Images(s) /\ Image(s, q) \in Seq(Bytes) BY <1>1, ImageIs
<1>4. \A k \in DOMAIN pr : pr[k].number < n BY Zenon DEF OnLine
<1>5. /\ Ordered(a) /\ Numbers(a) = Numbers(pr) \cup {n}
      /\ (\A k \in DOMAIN a : a[k].number < m) /\ Len(a) = Len(pr) + 1
  BY <1>1, <1>3, <1>4, PrintedMore
<1>6. ASSUME Direct
      PROVE  IF "path" \in options THEN Len(a) = 1
             ELSE Numbers(a) = {LineNumber(t) : t \in Before(s) \cup {s}}
  <2>1. Recorded(s, pr) BY <1>6, Zenon DEF OnLine
  <2> HIDE DEF e
  <2> QED BY <1>1, <1>5, <2>1, RecordedMore
<1> HIDE DEF a, e
<1>7. ASSUME "path" \in options PROVE Final(a)
  <2> SUFFICES ASSUME Direct PROVE Len(a) = IF Wanted = {} THEN 0 ELSE 1 BY <1>7, Zenon DEF Final
  <2>1. s \in Selected BY Zenon
  <2>2. s # Max(Starts) BY <1>1, <1>2, NotLast, Zenon
  <2>3. s \in Wanted BY <2>1, <2>2, Zenon DEF Wanted
  <2>4. Len(a) = 1 BY <1>6, <1>7, Zenon
  <2> QED BY <2>3, <2>4, Zenon
<1>8. ASSUME "path" \notin options PROVE OnLine(r, r, m, a)
  <2> HIDE DEF r, m
  <2>1. r <= r /\ \A k \in r .. r - 1 : FALSE BY <1>1, <1>2
  <2>2. Direct => Recorded(r, a)
    <3> SUFFICES ASSUME Direct PROVE Recorded(r, a) OBVIOUS
    <3>1. Before(r) = Before(s) \cup {s} BY <1>2, Zenon
    <3>2. Numbers(a) = {LineNumber(t) : t \in Before(r)} BY <1>6, <1>8, <3>1, Zenon
    <3> QED BY <1>8, <3>2, Zenon DEF Recorded, Numbers
  <2> QED BY <1>2, <1>5, <2>1, <2>2, Zenon DEF OnLine
<1> QED BY <1>5, <1>7, <1>8 DEF a, e, r, m

\* The file ends in the line.
LEMMA LastPrinted ==
  ASSUME data \in Texts, data # <<>>, NEW s, NEW q, NEW n, NEW pr, OnLine(q, s, n, pr),
         data[q] # newline, q = Len(data) - 1, Ordered(pr), HasLiteral(LineAt(s)),
         "V" \notin options
  PROVE  /\ Ordered(Append(pr, Entry(n, Image(s, q))))
         /\ Final(Append(pr, Entry(n, Image(s, q))))
<1> DEFINE e == Entry(n, Image(s, q))
           a == Append(pr, e)
           N == Len(data)
<1>1. /\ s \in Starts /\ q \in s .. Len(data) /\ s \in 1 .. Len(data)
      /\ n \in Nat /\ n = LineNumber(s) /\ Len(data) \in Nat
      /\ \A k \in s .. q - 1 : data[k] # newline
  BY OnLineIs
<1>2. \A k \in s .. N - 1 : data[k] # newline
  <2>1. \A k \in s .. N - 1 : k \in s .. q - 1 \/ k = q
    <3> HIDE DEF N
    <3> QED BY <1>1 DEF N
  <2> QED BY <1>1, <2>1, Zenon
<1>3. Image(s, q) \in Images(s) /\ Image(s, q) \in Seq(Bytes) BY <1>1, ImageIs
<1>4. \A k \in DOMAIN pr : pr[k].number < n BY Zenon DEF OnLine
<1>5. Ordered(a) /\ Numbers(a) = Numbers(pr) \cup {n} /\ Len(a) = Len(pr) + 1
  BY <1>1, <1>3, <1>4, PrintedMore
<1>6. Wanted = Before(s) \cup {s}
  <2>1. Wanted = Before(s) \cup IF HasLiteral(LineAt(s)) /\ "V" \notin options THEN {s} ELSE {}
    BY <1>1, <1>2, WantedIs
  <2> QED BY <2>1
<1>7. ASSUME Direct PROVE IF "path" \in options THEN Len(a) = IF Wanted = {} THEN 0 ELSE 1
                          ELSE Numbers(a) = {LineNumber(t) : t \in Wanted}
  <2>1. Recorded(s, pr) BY <1>7, Zenon DEF OnLine
  <2>2. IF "path" \in options THEN Len(a) = 1
        ELSE Numbers(a) = {LineNumber(t) : t \in Before(s) \cup {s}}
    <3> HIDE DEF e
    <3> QED BY <1>1, <1>5, <2>1, RecordedMore
  <2>3. Wanted # {} BY <1>6, Zenon
  <2> HIDE DEF a
  <2> QED BY <1>6, <2>2, <2>3, Zenon
<1> HIDE DEF a, e
<1>8. Final(a) BY <1>7, Zenon DEF Final, Numbers
<1> QED BY <1>5, <1>8 DEF a, e

LEMMA NoneWanted ==
  ASSUME NEW s, NEW pr, Direct => Recorded(s, pr),
         Direct /\ Last(data) = newline => Wanted = Before(s)
  PROVE  Final(pr)
<1> SUFFICES ASSUME Direct, Last(data) = newline
             PROVE  IF "path" \in options THEN Len(pr) = IF Wanted = {} THEN 0 ELSE 1
                    ELSE Numbers(pr) = {LineNumber(t) : t \in Wanted}
  BY Zenon DEF Final, Numbers
<1>1. Recorded(s, pr) /\ Wanted = Before(s) BY Zenon
<1>2. CASE "path" \in options
  <2>1. pr = <<>> /\ Wanted = {} BY <1>1, <1>2, Zenon DEF Recorded
  <2>2. Len(pr) = 0 BY <2>1
  <2> QED BY <1>2, <2>1, <2>2
<1>3. CASE "path" \notin options BY <1>1, <1>3, Zenon DEF Recorded, Numbers
<1> QED BY <1>2, <1>3

LEMMA LastLeft ==
  ASSUME data \in Texts, data # <<>>, NEW s, NEW q, NEW n, NEW pr, OnLine(q, s, n, pr),
         data[q] # newline, q = Len(data) - 1, "V" \in options
  PROVE  Final(pr)
<1> DEFINE N == Len(data)
<1>1. /\ s \in Starts /\ q \in s .. Len(data) /\ s \in 1 .. Len(data) /\ Len(data) \in Nat
      /\ \A k \in s .. q - 1 : data[k] # newline
  BY OnLineIs
<1>2. \A k \in s .. N - 1 : data[k] # newline
  <2>1. \A k \in s .. N - 1 : k \in s .. q - 1 \/ k = q
    <3> HIDE DEF N
    <3> QED BY <1>1 DEF N
  <2> QED BY <1>1, <2>1, Zenon
<1>3. Wanted = Before(s)
  <2>1. Wanted = Before(s) \cup IF HasLiteral(LineAt(s)) /\ "V" \notin options THEN {s} ELSE {}
    BY <1>1, <1>2, WantedIs
  <2> QED BY <2>1
<1>4. Direct => Recorded(s, pr) BY Zenon DEF OnLine
<1> QED BY <1>3, <1>4, NoneWanted, Zenon

\* The file ends and no word was found in the last line.
LEMMA FileDone ==
  ASSUME words \in Patterns, data \in Texts, data # <<>>, NEW s, NEW c, NEW n, NEW a, NEW pr,
         NEW q, Searching(q, s, c, n, a, pr), c <= 1
  PROVE  Final(pr)
<1> DEFINE N == Len(data)
<1>1. OnLine(q, s, n, pr) /\ c = N - q + 1 /\ (Direct => Nothing(s, q)) BY Zenon DEF Searching
<1>2. /\ s \in Starts /\ q \in s .. Len(data) /\ s \in 1 .. Len(data) /\ q \in 1 .. Len(data)
      /\ Len(data) \in Nat
      /\ \A k \in s .. q - 1 : data[k] # newline
  BY <1>1, OnLineIs
<1>3. q = N
  <2> HIDE DEF N
  <2> QED BY <1>1, <1>2 DEF N
<1>4. \A k \in s .. N - 1 : data[k] # newline BY <1>2, <1>3
<1>5. ASSUME Direct, Last(data) = newline PROVE Wanted = Before(s)
  <2>1. data[q] = newline BY <1>3, <1>5, Zenon DEF Last
  <2>2. ~ HasLiteral(LineAt(s)) BY <1>1, <1>2, <1>5, <2>1, NothingThenNone
  <2>3. Wanted = Before(s) \cup IF HasLiteral(LineAt(s)) /\ "V" \notin options THEN {s} ELSE {}
    BY <1>2, <1>4, WantedIs
  <2> QED BY <2>2, <2>3
<1>6. Direct => Recorded(s, pr) BY <1>1, Zenon DEF OnLine
<1> QED BY <1>5, <1>6, NoneWanted, Zenon

----------------------------------------------------------------------------
(* The steps of the search, in terms of the state before them.             *)

LEMMA WordNotNone ==
  ASSUME words \in Patterns, NEW i \in DOMAIN words
  PROVE  words[i] \in Seq(Bytes) /\ words[i] # <<>> /\ Len(words[i]) \in Nat \ {0}
<1> DEFINE w == words[i]
<1>1. w \in Seq(Bytes) /\ w # <<>> BY WordsAre
<1> HIDE DEF w
<1>2. Len(w) \in Nat /\ Len(w) # 0 BY <1>1, EmptySeq
<1> QED BY <1>1, <1>2 DEF w

LEMMA LineBegun ==
  ASSUME words \in Patterns, data \in Texts, data # <<>>, NEW s, NEW n, NEW pr, OnLine(s, s, n, pr),
         NEW c, c = Len(data) - s + 1
  PROVE  Searching(s, s, c, n, Root, pr)
<1>2. s \in 1 .. Len(data) /\ Len(data) \in Nat BY OnLineIs
<1>3. Seen(s, s) = <<>> BY <1>2, SeenNone
<1>4. <<>> \in Lists BY ListsAre
<1>5. Root.list = <<>> /\ Root.from = 1 BY DEF Root
<1>6. <<>> \in Seq(Bytes) OBVIOUS
<1>7. EndsIn(<<>>, <<>>) BY <1>6, EndsInSelf
<1>8. EndsIn(Seen(s, s), Lowered(Root.list)) BY <1>3, <1>5, <1>7, LoweredNone, Zenon
<1>9. Best(<<>>, <<>>)
  <2>1. \A k \in Lists : EndsIn(<<>>, k) => Len(k) <= Len(<<>>) BY Zenon DEF EndsIn
  <2> QED BY <1>4, <1>7, <2>1, Zenon DEF Best
<1>10. Nothing(s, s)
  <2> SUFFICES ASSUME NEW r \in s .. s, NEW i \in DOMAIN words, EndsIn(Seen(s, r), words[i])
               PROVE  FALSE
    BY Zenon DEF Nothing
  <2>1. r = s BY <1>2
  <2>2. EndsIn(<<>>, words[i]) BY <1>3, <2>1, Zenon
  <2>3. Len(words[i]) <= Len(<<>>) BY <2>2, Zenon DEF EndsIn
  <2>4. Len(words[i]) \in Nat \ {0} BY WordNotNone
  <2> QED BY <2>3, <2>4
<1>11. Root.list \in Lists /\ (Root.from = 1 \/ Root.list = <<>>) BY <1>4, <1>5, Zenon
<1>12. Best(Seen(s, s), Root.list) BY <1>3, <1>5, <1>9, Zenon
<1> QED BY <1>8, <1>10, <1>11, <1>12, Zenon DEF Searching

\* A word ends in no newline.
LEMMA WordEndsHere ==
  ASSUME words \in Patterns, data \in Texts, NEW s \in 1 .. Len(data), NEW q \in s .. Len(data),
         NEW i \in DOMAIN words, EndsIn(Seen(s, q + 1), Lowered(words[i]))
  PROVE  data[q] # newline
<1> DEFINE w == words[i]
           m == Len(w)
           b == Lowered(w)
           a == Seen(s, q)
           z == Low(data[q])
<1>1. w \in Seq(Bytes) /\ m \in Nat \ {0} /\ w[m] \in Bytes /\ w[m] # newline
  <2>1. w \in Seq(Bytes) /\ m \in Nat \ {0} BY WordNotNone
  <2>2. m \in 1 .. m
    <3> HIDE DEF m
    <3> QED BY <2>1
  <2>3. w[m] \in Bytes \ {newline}
    <3>1. w \in Seq(Bytes \ {newline}) BY WordsAre
    <3> HIDE DEF w
    <3> QED BY <2>2, <3>1
  <2> QED BY <2>1, <2>3
<1>2. Len(data) \in Nat /\ q \in 1 .. Len(data) /\ q \in s .. Len(data) + 1
  <2>1. Len(data) \in Nat BY TextIs
  <2> QED BY <2>1
<1>3. a \in Seq(Bytes) /\ z \in Bytes BY <1>2, SeenIs, TextIs, LowIs
<1>4. EndsIn(Append(a, z), b) BY <1>2, SeenNext, Zenon
<1>5. b \in Seq(Bytes) /\ Len(b) = m /\ \A k \in 1 .. m : b[k] = Low(w[k]) BY <1>1, LoweredIs
<1> HIDE DEF w, a, b, z
<1>6. b # <<>> /\ b[m] = Low(w[m])
  <2> HIDE DEF m
  <2>1. m \in 1 .. m BY <1>1
  <2> QED BY <1>1, <1>5, <2>1
<1>7. Last(b) = z BY <1>3, <1>4, <1>5, <1>6, EndsAppend
<1>8. z = Low(w[m]) BY <1>5, <1>6, <1>7, Zenon DEF Last
<1>9. data[q] = newline => Low(w[m]) = Low(newline) BY <1>8, Zenon DEF z
<1> QED BY <1>1, <1>9, LowIs, Zenon

LEMMA Stepped ==
  ASSUME Made, data \in Texts, data # <<>>, NEW q, NEW s, NEW c, NEW n, NEW a, NEW pr,
         Searching(q, s, c, n, a, pr), c > 1
  PROVE  /\ OnLine(q, s, n, pr) /\ q < Len(data) /\ c - 1 = Len(data) - q
         /\ s \in Starts /\ s \in 1 .. Len(data) /\ q \in s .. Len(data) /\ q + 1 \in s .. Len(data)
         /\ n \in Nat /\ \A k \in s .. q - 1 : data[k] # newline
         /\ nstate(a, data[q]).list \in Lists
         /\ nstate(a, data[q]).from = 1 \/ nstate(a, data[q]).list = <<>>
         /\ EndsIn(Seen(s, q + 1), Lowered(nstate(a, data[q]).list))
<1> DEFINE N == Len(data)
           d == nstate(a, data[q])
<1>1. words \in Patterns BY DEF Made
<1>2. OnLine(q, s, n, pr) /\ c = N - q + 1 BY Zenon DEF Searching
<1>3. /\ s \in Starts /\ q \in s .. N /\ s \in 1 .. N /\ q \in 1 .. N
      /\ n \in Nat /\ N \in Nat /\ \A k \in s .. q - 1 : data[k] # newline
  BY <1>2, OnLineIs
<1>4. q < N /\ c - 1 = N - q /\ q + 1 \in s .. N
  <2> HIDE DEF N
  <2> QED BY <1>2, <1>3
<1>5. a.list \in Lists /\ EndsIn(Seen(s, q), Lowered(a.list)) BY Zenon DEF Searching
<1>6. GoodStep(a.list, d, data[q]) BY <1>5, StepGood
<1>7. d.list \in Lists /\ Follows(a.list, d.list, data[q]) /\ (d.from = 1 \/ d.list = <<>>)
  <2>1. d \in Places /\ Follows(a.list, d.list, data[q]) /\ (d.list # <<>> => d.from = 1)
    BY <1>6, Zenon DEF GoodStep
  <2> HIDE DEF d
  <2>2. d.list \in Lists BY <2>1 DEF Places
  <2> QED BY <2>1, <2>2, Zenon
<1> HIDE DEF d
<1>8. EndsIn(Seen(s, q + 1), Lowered(d.list)) BY <1>1, <1>3, <1>5, <1>7, ReadNext
<1> QED BY <1>2, <1>3, <1>4, <1>7, <1>8 DEF N, d

\* A list that is out: a word is in the line.
LEMMA Found ==
  ASSUME Made, data \in Texts, data # <<>>, NEW q, NEW s, NEW c, NEW n, NEW a, NEW pr,
         Searching(q, s, c, n, a, pr), c > 1, nstate(a, data[q]).list \in out
  PROVE  Finding(q, s, c - 1, n, pr)
<1> DEFINE d == nstate(a, data[q])
           l == d.list
           r == q + 1
<1>1. words \in Patterns /\ l \in OutLists BY Zenon DEF Made
<1>2. /\ OnLine(q, s, n, pr) /\ q < Len(data) /\ c - 1 = Len(data) - q
      /\ s \in Starts /\ s \in 1 .. Len(data) /\ q \in s .. Len(data) /\ r \in s .. Len(data)
      /\ \A k \in s .. q - 1 : data[k] # newline
      /\ EndsIn(Seen(s, r), Lowered(l))
  BY Stepped
<1> HIDE DEF l
<1>3. PICK i \in DOMAIN words : EndsIn(l, words[i]) BY <1>1, OutEnds
<1>4. l \in Seq(Bytes) /\ words[i] \in Seq(Bytes)
  <2>1. l \in Lists BY <1>1, OutEnds
  <2> QED BY <1>1, <2>1, ListsAre, WordNotNone
<1>5. EndsIn(Lowered(l), Lowered(words[i])) BY <1>3, <1>4, LoweredEnds
<1>6. EndsIn(Seen(s, r), Lowered(words[i]))
  <2>1. Len(data) \in Nat BY TextIs
  <2>2. r \in s .. Len(data) + 1
    <3> HIDE DEF r
    <3> QED BY <1>2, <2>1
  <2>3. Seen(s, r) \in Seq(Bytes) BY <1>2, <2>2, SeenIs
  <2>4. Lowered(l) \in Seq(Bytes) /\ Lowered(words[i]) \in Seq(Bytes) BY <1>4, LoweredIs
  <2> QED BY <1>2, <1>5, <2>3, <2>4, EndsInTransitive
<1>7. data[q] # newline BY <1>1, <1>2, <1>6, WordEndsHere
<1>8. \A k \in s .. r - 1 : data[k] # newline
  <2>1. Len(data) \in Nat BY TextIs
  <2>2. \A k \in s .. r - 1 : k \in s .. q - 1 \/ k = q BY <1>2, <2>1
  <2> QED BY <1>2, <1>7, <2>2, Zenon
<1> HIDE DEF r
<1>9. HasLiteral(LineAt(s)) BY <1>1, <1>2, <1>6, <1>8, EndsThenHas
<1> QED BY <1>2, <1>9, Zenon DEF Finding

\* A byte in the line and no word yet.
LEMMA ReadOn ==
  ASSUME Made, data \in Texts, data # <<>>, NEW q, NEW s, NEW c, NEW n, NEW a, NEW pr,
         Searching(q, s, c, n, a, pr), c > 1, nstate(a, data[q]).list \notin out,
         data[q] # newline
  PROVE  Searching(q + 1, s, c - 1, n, nstate(a, data[q]), pr)
<1> DEFINE N == Len(data)
           d == nstate(a, data[q])
           r == q + 1
           b == c - 1
<1>1. words \in Patterns /\ d.list \notin OutLists BY Zenon DEF Made
<1>2. /\ OnLine(q, s, n, pr) /\ q < N /\ b = N - q
      /\ s \in Starts /\ s \in 1 .. N /\ q \in s .. N /\ r \in s .. N
      /\ n \in Nat /\ \A k \in s .. q - 1 : data[k] # newline
      /\ d.list \in Lists /\ (d.from = 1 \/ d.list = <<>>)
      /\ EndsIn(Seen(s, r), Lowered(d.list))
  BY Stepped
<1>3. N \in Nat BY TextIs
<1>4. /\ r \in 1 .. N /\ s <= r /\ b = N - r + 1 /\ q \in 1 .. N /\ q \in s .. N + 1
      /\ (\A k \in s .. r - 1 : k \in s .. q - 1 \/ k = q)
      /\ \A k \in s .. r : k \in s .. q \/ k = r
  <2> HIDE DEF N, b, d
  <2> QED BY <1>2, <1>3
<1>5. \A k \in s .. r - 1 : data[k] # newline BY <1>2, <1>4, Zenon
<1>6. ASSUME Direct PROVE Best(Seen(s, r), d.list) /\ Nothing(s, r)
  <2>1. a.list \in Lists /\ (a.from = 1 \/ a.list = <<>>) BY Zenon DEF Searching
  <2>2. Best(Seen(s, q), a.list) /\ Nothing(s, q) BY <1>6, Zenon DEF Searching
  <2>3. data[q] \in Bytes BY <1>4, TextIs
  <2>4. Seen(s, q) \in Seq(Bytes) BY <1>2, <1>4, SeenIs
  <2>5. Seen(s, r) = Append(Seen(s, q), Low(data[q])) BY <1>2, SeenNext
  <2> DEFINE v == Seen(s, q)
             u == Append(v, Low(data[q]))
  <2>6. Best(u, d.list)
    <3> HIDE DEF v
    <3>1. v \in Seq(Bytes) /\ Best(v, a.list) BY <2>2, <2>4 DEF v
    <3> QED BY <1>6, <2>1, <2>3, <3>1, StepBest
  <2>7. u \in Seq(Bytes)
    <3>1. Low(data[q]) \in Bytes BY <2>3, LowIs
    <3> QED BY <2>4, <3>1
  <2> HIDE DEF d, r, v, u
  <2>8. \A i \in DOMAIN words : ~ EndsIn(u, words[i]) BY <1>1, <1>6, <2>6, <2>7, NoneEnds
  <2>9. Seen(s, r) = u BY <2>5 DEF u, v
  <2>10. Nothing(s, r) BY <1>4, <2>2, <2>8, <2>9, Zenon DEF Nothing
  <2> QED BY <2>6, <2>9, <2>10, Zenon
<1>7. (\A k \in DOMAIN pr : pr[k].number < n) /\ n = LineNumber(s) /\ (Direct => Recorded(s, pr))
  BY <1>2, Zenon DEF OnLine
<1> HIDE DEF d, r, b
<1>8. OnLine(r, s, n, pr) BY <1>2, <1>4, <1>5, <1>7, Zenon DEF OnLine
<1>9. Searching(r, s, b, n, d, pr) BY <1>2, <1>4, <1>6, <1>8, Zenon DEF Searching
<1> QED BY <1>9 DEF d, r, b

LEMMA SelectedIs ==
  ASSUME NEW s \in Starts
  PROVE  /\ "V" \in options => (s \in Selected <=> ~ HasLiteral(LineAt(s)))
         /\ "V" \notin options => (s \in Selected <=> HasLiteral(LineAt(s)))
<1>1. HasLiteral(LineAt(s)) \in BOOLEAN BY Zenon DEF HasLiteral
<1>2. ("V" \in options) \in BOOLEAN OBVIOUS
<1>3. s \in Selected <=> HasLiteral(LineAt(s)) # ("V" \in options) BY Zenon DEF Selected
<1> QED BY <1>1, <1>2, <1>3

\* What is printed when a line is done.
Printing(pr, print, s, q, n) == IF print THEN Append(pr, Entry(n, Image(s, q))) ELSE pr

\* The newline of a line in which no word was found.
LEMMA LineWithout ==
  ASSUME Made, data \in Texts, data # <<>>, NEW q, NEW s, NEW c, NEW n, NEW a, NEW pr,
         Searching(q, s, c, n, a, pr), c > 1, data[q] = newline, Ordered(pr),
         NEW new, new = Printing(pr, "V" \in options, s, q, n)
  PROVE  /\ Ordered(new)
         /\ "V" \in options /\ "path" \in options => Final(new)
         /\ ~ ("V" \in options /\ "path" \in options) =>
              Searching(q + 1, q + 1, c - 1, n + 1, Root, new)
<1> DEFINE r == q + 1
           m == n + 1
           b == c - 1
           N == Len(data)
<1>1. words \in Patterns BY Zenon DEF Made
<1>2. /\ OnLine(q, s, n, pr) /\ q < N /\ b = N - q
      /\ s \in Starts /\ q \in s .. N /\ q + 1 \in s .. N
      /\ \A k \in s .. q - 1 : data[k] # newline
  BY Stepped
<1>3. N \in Nat /\ q # N /\ b = N - r + 1
  <2>1. N \in Nat BY TextIs
  <2> HIDE DEF N, b
  <2> QED BY <1>2, <2>1
<1>4. ASSUME Direct PROVE ~ HasLiteral(LineAt(s))
  <2>1. Nothing(s, q) BY <1>4, Zenon DEF Searching
  <2> QED BY <1>1, <1>2, <1>4, <2>1, NothingThenNone
<1>5. ASSUME OnLine(r, r, m, new) PROVE Searching(r, r, b, m, Root, new)
  <2> HIDE DEF r, m, b
  <2> QED BY <1>1, <1>3, <1>5, LineBegun
<1>6. CASE "V" \in options
  <2> DEFINE z == Append(pr, Entry(n, Image(s, q)))
  <2>1. new = z BY <1>6, Zenon DEF Printing
  <2>2. Direct => s \in Selected BY <1>2, <1>4, <1>6, SelectedIs, Zenon
  <2>3. /\ Ordered(z) /\ ("path" \in options => Final(z))
        /\ "path" \notin options => OnLine(r, r, m, z)
    BY <1>2, <1>3, <1>6, <2>2, LinePrinted
  <2> HIDE DEF z, r, m, b
  <2> QED BY <1>5, <1>6, <2>1, <2>3, Zenon DEF r, m, b
<1>7. CASE "V" \notin options
  <2>1. new = pr BY <1>7, Zenon DEF Printing
  <2>2. Direct => s \notin Selected BY <1>2, <1>4, <1>7, SelectedIs, Zenon
  <2>3. OnLine(r, r, m, pr) BY <1>2, <1>3, <2>2, LineLeft
  <2> HIDE DEF r, m, b
  <2> QED BY <1>5, <1>7, <2>1, <2>3, Zenon DEF r, m, b
<1> QED BY <1>6, <1>7

\* The newline of a line in which one was.
LEMMA LineWith ==
  ASSUME Made, data \in Texts, data # <<>>, NEW q, NEW s, NEW c, NEW n, NEW pr,
         Finding(q, s, c, n, pr), data[q] = newline, Ordered(pr),
         NEW new, new = Printing(pr, "V" \notin options, s, q, n)
  PROVE  /\ Ordered(new)
         /\ "V" \notin options /\ "path" \in options => Final(new)
         /\ ~ ("V" \notin options /\ "path" \in options) =>
              Searching(q + 1, q + 1, c, n + 1, Root, new)
<1> DEFINE r == q + 1
           m == n + 1
           N == Len(data)
<1>0. words \in Patterns BY Zenon DEF Made
<1>1. OnLine(q, s, n, pr) /\ q < N /\ c = N - q /\ HasLiteral(LineAt(s)) BY Zenon DEF Finding
<1>2. s \in Starts /\ q \in s .. N /\ N \in Nat BY <1>1, OnLineIs
<1>3. q # N /\ c = N - r + 1
  <2> HIDE DEF N
  <2> QED BY <1>1, <1>2
<1>5. ASSUME OnLine(r, r, m, new) PROVE Searching(r, r, c, m, Root, new)
  <2> HIDE DEF r, m
  <2> QED BY <1>0, <1>3, <1>5, LineBegun
<1>6. CASE "V" \notin options
  <2> DEFINE z == Append(pr, Entry(n, Image(s, q)))
  <2>1. new = z BY <1>6, Zenon DEF Printing
  <2>2. s \in Selected BY <1>1, <1>2, <1>6, SelectedIs, Zenon
  <2>3. /\ Ordered(z) /\ ("path" \in options => Final(z))
        /\ "path" \notin options => OnLine(r, r, m, z)
    BY <1>1, <1>3, <1>6, <2>2, LinePrinted
  <2> HIDE DEF z, r, m
  <2> QED BY <1>5, <1>6, <2>1, <2>3, Zenon DEF r, m
<1>7. CASE "V" \in options
  <2>1. new = pr BY <1>7, Zenon DEF Printing
  <2>2. s \notin Selected BY <1>1, <1>2, <1>7, SelectedIs, Zenon
  <2>3. OnLine(r, r, m, pr) BY <1>1, <1>3, <2>2, LineLeft
  <2> HIDE DEF r, m
  <2> QED BY <1>5, <1>7, <2>1, <2>3, Zenon DEF r, m
<1> QED BY <1>6, <1>7

\* The last byte of a file that ends in no newline, in a line in which one was.
LEMMA FileEnds ==
  ASSUME data \in Texts, data # <<>>, NEW q, NEW s, NEW c, NEW n, NEW pr,
         Finding(q, s, c, n, pr), data[q] # newline, c <= 1, Ordered(pr),
         NEW new, new = Printing(pr, "V" \notin options, s, q, n)
  PROVE  c - 1 = 0 /\ Ordered(new) /\ Final(new)
<1> DEFINE N == Len(data)
<1>1. OnLine(q, s, n, pr) /\ q < N /\ c = N - q /\ HasLiteral(LineAt(s)) BY Zenon DEF Finding
<1>2. N \in Nat /\ q \in s .. N /\ s \in 1 .. N BY <1>1, OnLineIs
<1>3. q = N - 1 /\ c - 1 = 0
  <2> HIDE DEF N
  <2> QED BY <1>1, <1>2
<1>4. CASE "V" \notin options
  <2> DEFINE z == Append(pr, Entry(n, Image(s, q)))
  <2>1. new = z BY <1>4, Zenon DEF Printing
  <2>2. Ordered(z) /\ Final(z) BY <1>1, <1>3, <1>4, LastPrinted
  <2> QED BY <1>3, <2>1, <2>2, Zenon
<1>5. CASE "V" \in options
  <2>1. new = pr BY <1>5, Zenon DEF Printing
  <2>2. Final(pr) BY <1>1, <1>3, <1>5, LastLeft
  <2> QED BY <1>3, <2>1, <2>2, Zenon
<1> QED BY <1>4, <1>5

\* A byte of the rest of the line.
LEMMA RestRead ==
  ASSUME data \in Texts, data # <<>>, NEW q, NEW s, NEW c, NEW n, NEW pr,
         Finding(q, s, c, n, pr), data[q] # newline, ~ (c <= 1)
  PROVE  Finding(q + 1, s, c - 1, n, pr)
<1> DEFINE N == Len(data)
           r == q + 1
           b == c - 1
<1>1. OnLine(q, s, n, pr) /\ q < N /\ c = N - q /\ HasLiteral(LineAt(s)) BY Zenon DEF Finding
<1>2. /\ s \in Starts /\ q \in s .. N /\ s \in 1 .. N /\ N \in Nat
      /\ \A k \in s .. q - 1 : data[k] # newline
  BY <1>1, OnLineIs
<1>3. /\ r \in 1 .. N /\ s <= r /\ r < N /\ b = N - r
      /\ \A k \in s .. r - 1 : k \in s .. q - 1 \/ k = q
  <2> HIDE DEF N
  <2> QED BY <1>1, <1>2
<1>4. \A k \in s .. r - 1 : data[k] # newline BY <1>2, <1>3, Zenon
<1>5. (\A k \in DOMAIN pr : pr[k].number < n) /\ n = LineNumber(s) /\ (Direct => Recorded(s, pr))
  BY <1>1, Zenon DEF OnLine
<1> HIDE DEF r, b
<1>6. OnLine(r, s, n, pr) BY <1>2, <1>3, <1>4, <1>5, Zenon DEF OnLine
<1>7. Finding(r, s, b, n, pr) BY <1>1, <1>3, <1>6, Zenon DEF Finding
<1> QED BY <1>7 DEF r, b

----------------------------------------------------------------------------
(* The pattern, the text and the options never change.                     *)

Kept == words' = words /\ data' = data /\ options' = options

LEMMA SameWords ==
  ASSUME Kept
  PROVE  /\ Lists' = Lists /\ FailLinks' = FailLinks /\ OutLists' = OutLists
         /\ \A l : KidsOf(l)' = KidsOf(l)
         /\ Direct' = Direct
<1>1. Lists' = Lists BY SMT DEF Kept, Lists
<1>2. FailLinks' = FailLinks BY SMT DEF Kept, FailLinks, FailLists, Lists
<1>3. Marked' = Marked BY SMT DEF Kept, Marked, Came, Through
<1>4. OutLists' = OutLists BY <1>1, <1>2, <1>3, SMT DEF OutLists
<1>5. ASSUME NEW l PROVE KidsOf(l)' = KidsOf(l) BY SMT DEF Kept, KidsOf, Came, Through, To
<1>6. ASSUME NEW l PROVE Behind(l)' = Behind(l) BY <1>1, SMT DEF Behind
<1>7. Direct' = Direct BY <1>1, <1>3, <1>6, SMT DEF Kept, Direct, LinkKept, lca
<1> QED BY <1>1, <1>2, <1>4, <1>5, <1>7

LEMMA SameLines ==
  ASSUME Kept
  PROVE  /\ Starts' = Starts /\ Selected' = Selected /\ Wanted' = Wanted
         /\ \A s : /\ LineNumber(s)' = LineNumber(s) /\ LineAt(s)' = LineAt(s)
                   /\ Images(s)' = Images(s) /\ Before(s)' = Before(s)
         /\ \A l : HasLiteral(l)' = HasLiteral(l)
<1>1. Newlines' = Newlines BY SMT DEF Kept, Newlines
<1>2. Starts' = Starts BY SMT DEF Kept, Newlines, Starts
<1>3. ASSUME NEW s PROVE LineNumber(s)' = LineNumber(s) BY <1>1, SMT DEF LineNumber
<1>4. ASSUME NEW s PROVE End(s)' = End(s) BY SMT DEF Kept, Newlines, End
<1>5. ASSUME NEW s PROVE Ended(s)' = Ended(s) BY <1>4, SMT DEF Kept, Ended
<1>6. ASSUME NEW s PROVE LineAt(s)' = LineAt(s)
  <2>1. LastOf(s)' = LastOf(s) BY <1>4, <1>5, Zenon DEF LastOf
  <2>2. LineAt(s) = SubSeq(data, s, LastOf(s)) BY Zenon DEF LineAt, LastOf
  <2>3. LineAt(s)' = SubSeq(data', s, LastOf(s)') BY Zenon DEF LineAt, LastOf
  <2> QED BY <2>1, <2>2, <2>3, Zenon DEF Kept
<1>7. ASSUME NEW l PROVE HasLiteral(l)' = HasLiteral(l)
  BY SMT DEF Kept, HasLiteral, ccomp, OccursAt
<1>8. ASSUME NEW s PROVE Images(s)' = Images(s) BY <1>5, <1>6, SMT DEF Images
<1>9. Selected' = Selected BY <1>2, <1>6, <1>7, SMT DEF Kept, Selected
<1>10. Wanted' = Wanted BY <1>2, <1>9, SMT DEF Kept, Wanted
<1>11. ASSUME NEW s PROVE Before(s)' = Before(s) BY <1>9, SMT DEF Before
<1> QED BY <1>2, <1>3, <1>6, <1>7, <1>8, <1>9, <1>10, <1>11

LEMMA SameRead ==
  ASSUME Kept
  PROVE  /\ \A l : Lowered(l)' = Lowered(l)
         /\ \A s, q : /\ Seen(s, q)' = Seen(s, q) /\ Nothing(s, q)' = Nothing(s, q)
                      /\ Best(s, q)' = Best(s, q)
<1>1. ASSUME NEW l PROVE Lowered(l)' = Lowered(l) BY SMT DEF Kept, Low, Lowered
<1>2. ASSUME NEW s, NEW q PROVE Seen(s, q)' = Seen(s, q) BY SMT DEF Kept, Low, Seen
<1>3. ASSUME NEW s, NEW q PROVE Nothing(s, q)' = Nothing(s, q) BY <1>2, SMT DEF Kept, Nothing
<1>4. ASSUME NEW s, NEW q PROVE Best(s, q)' = Best(s, q) BY SameWords, SMT DEF Best
<1> QED BY <1>1, <1>2, <1>3, <1>4

LEMMA SamePrinted ==
  ASSUME Kept
  PROVE  /\ Ordered(printed') => Ordered(printed)'
         /\ \A pr : Final(pr)' <=> Final(pr)
         /\ \A s, pr : Recorded(s, pr)' <=> Recorded(s, pr)
<1>1. ASSUME NEW e PROVE Right(e)' = Right(e) BY SameLines, SMT DEF Kept, Right
<1>2. Ordered(printed') => Ordered(printed)' BY <1>1, SMT DEF Ordered
<1>3. ASSUME NEW pr PROVE Final(pr)' <=> Final(pr)
  <2>1. {LineNumber(t) : t \in Wanted}' = {LineNumber(t) : t \in Wanted} BY SameLines, SMT
  <2>2. Wanted' = Wanted /\ Direct' = Direct /\ options' = options /\ data' = data
    BY SameLines, SameWords DEF Kept
  <2> QED BY <2>1, <2>2, Zenon DEF Final
<1>4. ASSUME NEW s, NEW pr PROVE Recorded(s, pr)' <=> Recorded(s, pr)
  <2>1. {LineNumber(t) : t \in Before(s)}' = {LineNumber(t) : t \in Before(s)}
    BY SameLines, SMT
  <2>2. Before(s)' = Before(s) /\ options' = options BY SameLines DEF Kept
  <2> QED BY <2>1, <2>2, Zenon DEF Recorded
<1> QED BY <1>2, <1>3, <1>4

LEMMA SamePlace ==
  ASSUME Kept, NEW q, NEW s, NEW c, NEW n, NEW a, NEW pr
  PROVE  /\ Searching(q, s, c, n, a, pr)' <=> Searching(q, s, c, n, a, pr)
         /\ Finding(q, s, c, n, pr)' <=> Finding(q, s, c, n, pr)
<1>1. OnLine(q, s, n, pr)' <=> OnLine(q, s, n, pr)
  BY SameLines, SameWords, SamePrinted, SMT DEF Kept, OnLine
<1>2. Searching(q, s, c, n, a, pr)' <=> Searching(q, s, c, n, a, pr)
  BY <1>1, SameWords, SameRead, SMT DEF Kept, Searching
<1>3. Finding(q, s, c, n, pr)' <=> Finding(q, s, c, n, pr)
  BY <1>1, SameLines, SMT DEF Kept, Finding
<1> QED BY <1>2, <1>3

LEMMA MadeThen ==
  ASSUME Kept, words \in Patterns, kids' = [list \in Lists |-> KidsOf(list)],
         fail' = FailLinks, out' = OutLists
  PROVE  Made'
BY SameWords, SMT DEF Kept, Made

----------------------------------------------------------------------------
(* The inductive invariant.                                                *)

LiteralInv ==
  /\ words \in Patterns /\ data \in Texts /\ Ordered(printed)
  /\ where = "comple" => /\ p = 1 /\ linep = 1 /\ ccount = Len(data) /\ lineno = 1
                         /\ at = Root /\ printed = <<>>
  /\ where \in {"search", "line", "finish"} => data # <<>> /\ Made
  /\ where = "search" => \/ Searching(p, linep, ccount, lineno, at, printed)
                         \/ ccount = 0 /\ Final(printed)
  /\ where = "line" => Finding(p, linep, ccount, lineno, printed)
  /\ where = "finish" => Final(printed)

LEMMA InvThen ==
  ASSUME Kept, words \in Patterns, data \in Texts, Ordered(printed'), where' # "comple",
         where' \in {"search", "line", "finish"} => data # <<>> /\ Made',
         where' = "search" => \/ Searching(p', linep', ccount', lineno', at', printed')
                              \/ ccount' = 0 /\ Final(printed'),
         where' = "line" => Finding(p', linep', ccount', lineno', printed'),
         where' = "finish" => Final(printed')
  PROVE  LiteralInv'
<1>1. words' \in Patterns /\ data' \in Texts BY Zenon DEF Kept
<1>2. Ordered(printed)' BY SamePrinted, Zenon
<1>3. where' \in {"search", "line", "finish"} => data' # <<>> /\ Made' BY Zenon DEF Kept
<1>4. ASSUME Searching(p', linep', ccount', lineno', at', printed')
      PROVE  Searching(p, linep, ccount, lineno, at, printed)'
  BY <1>4, SamePlace
<1>5. ASSUME Finding(p', linep', ccount', lineno', printed')
      PROVE  Finding(p, linep, ccount, lineno, printed)'
  BY <1>5, SamePlace
<1>6. ASSUME Final(printed') PROVE Final(printed)' BY <1>6, SamePrinted
<1> QED BY <1>1, <1>2, <1>3, <1>4, <1>5, <1>6, Zenon DEF LiteralInv

\* Where nothing of the automaton changes.
LEMMA MadeStays ==
  ASSUME UNCHANGED automaton, Made
  PROVE  Kept /\ Made'
<1>1. Kept /\ kids' = kids /\ out' = out /\ fail' = fail BY DEF automaton, Kept
<1>2. /\ words \in Patterns /\ kids = [list \in Lists |-> KidsOf(list)]
      /\ fail = FailLinks /\ out = OutLists
  BY Zenon DEF Made
<1>3. Made' BY <1>1, <1>2, MadeThen
<1> QED BY <1>1, <1>3

LEMMA FirstLine ==
  ASSUME data \in Texts, data # <<>>
  PROVE  OnLine(1, 1, 1, <<>>)
<1>1. Len(data) \in Nat /\ Len(data) >= 1 BY TextIs
<1>2. 1 \in Starts /\ Starts \subseteq 1 .. Len(data) /\ Newlines \subseteq 1 .. Len(data)
  BY StartsAre
<1>3. LineNumber(1) = 1
  <2>0. \A n \in 1 .. Len(data) : ~ (n < 1) OBVIOUS
  <2>1. {n \in Newlines : n < 1} = {} BY <1>2, <2>0, Zenon
  <2>2. LineNumber(1) = Cardinality({}) + 1 BY <2>1, Zenon DEF LineNumber
  <2> QED BY <2>2, FS_EmptySet
<1>4. Before(1) = {}
  <2>1. \A t \in Starts : ~ (t < 1) BY <1>1, <1>2
  <2> QED BY <2>1, Zenon DEF Before, Selected
<1>5. DOMAIN <<>> = {} OBVIOUS
<1>6. Recorded(1, <<>>)
  <2>1. {<<>>[k].number : k \in DOMAIN <<>>} = {LineNumber(t) : t \in Before(1)}
    BY <1>4, <1>5, Zenon
  <2> QED BY <1>4, <2>1, Zenon DEF Recorded
<1>7. 1 \in 1 .. Len(data) /\ 1 <= 1 /\ \A k \in 1 .. 1 - 1 : FALSE BY <1>1
<1>8. \A k \in DOMAIN <<>> : <<>>[k].number < 1 BY <1>5, Zenon
<1> QED BY <1>2, <1>3, <1>6, <1>7, <1>8, Zenon DEF OnLine

LEMMA LiteralInitInv == LiteralInit => LiteralInv
<1> SUFFICES ASSUME LiteralInit PROVE LiteralInv OBVIOUS
<1>1. /\ words \in Patterns /\ data \in Texts /\ at = Root /\ printed = <<>>
      /\ p = 1 /\ linep = 1 /\ ccount = Len(data) /\ lineno = 1 /\ where = "comple"
  BY DEF LiteralInit, LiteralInitOf
<1>2. Ordered(<<>>)
  <2>1. <<>> \in Seq(Prints) /\ DOMAIN <<>> = {} OBVIOUS
  <2> QED BY <2>1, Zenon DEF Ordered
<1>3. Ordered(printed) BY <1>1, <1>2, Zenon
<1> QED BY <1>1, <1>3 DEF LiteralInv

LEMMA literal_compleInv == ASSUME LiteralInv, literal_comple PROVE LiteralInv'
<1>1. /\ where = "comple" /\ where' = (IF data = <<>> THEN "die" ELSE "search")
      /\ kids' = [list \in Lists |-> KidsOf(list)] /\ fail' = FailLinks /\ out' = OutLists
      /\ Kept /\ at' = at /\ p' = p /\ linep' = linep /\ ccount' = ccount /\ lineno' = lineno
      /\ printed' = printed
  BY Zenon DEF literal_comple, Kept
<1>2. /\ words \in Patterns /\ data \in Texts /\ Ordered(printed)
      /\ p = 1 /\ linep = 1 /\ ccount = Len(data) /\ lineno = 1 /\ at = Root /\ printed = <<>>
  BY <1>1, Zenon DEF LiteralInv
<1>3. Made' BY <1>1, <1>2, MadeThen
<1>4. Ordered(printed') BY <1>1, <1>2, Zenon
<1>5. CASE data = <<>>
  <2>1. where' = "die" BY <1>1, <1>5
  <2> QED BY <1>1, <1>2, <1>4, <2>1, InvThen
<1>6. CASE data # <<>>
  <2>1. where' = "search" BY <1>1, <1>6
  <2>2. Searching(p', linep', ccount', lineno', at', printed')
    <3>1. OnLine(1, 1, 1, <<>>) BY <1>2, <1>6, FirstLine
    <3>2. Len(data) = Len(data) - 1 + 1
      <4>1. Len(data) \in Nat BY <1>2, TextIs
      <4> QED BY <4>1
    <3>3. Searching(1, 1, Len(data), 1, Root, <<>>) BY <1>2, <1>6, <3>1, <3>2, LineBegun
    <3> QED BY <1>1, <1>2, <3>3, Zenon
  <2> QED BY <1>1, <1>2, <1>3, <1>4, <1>6, <2>1, <2>2, InvThen
<1> QED BY <1>5, <1>6

\* A line is done: what changes.
LEMMA DoneIs ==
  ASSUME NEW print \in BOOLEAN, LineDone(p + 1, print), p \in Int
  PROVE  /\ printed' = Printing(printed, print, linep, p, lineno)
         /\ where' = IF print /\ "path" \in options THEN "finish" ELSE "search"
         /\ at' = Root /\ linep' = p + 1 /\ lineno' = lineno + 1
<1>1. (p + 1) - 1 = p OBVIOUS
<1>2. SubSeq(data, linep, (p + 1) - 1) = SubSeq(data, linep, p) BY <1>1, Zenon
<1> DEFINE i == Image(linep, p)
           line == SubSeq(data, linep, (p + 1) - 1)
<1>3. i = IF line # <<>> /\ Last(line) = newline THEN Front(line) ELSE line
  BY <1>2, Zenon DEF Image
<1>4. printed' = IF print THEN Append(printed, [number |-> lineno, image |-> i]) ELSE printed
  BY <1>3, Zenon DEF LineDone
<1> HIDE DEF i, line
<1>5. printed' = Printing(printed, print, linep, p, lineno) BY <1>4, Zenon DEF Printing, Entry, i
<1> QED BY <1>5, Zenon DEF LineDone

LEMMA ExamineInv == ASSUME LiteralInv, Examine PROVE LiteralInv'
<1> DEFINE d == nstate(at, data[p])
<1>1. /\ where = "search" /\ ccount > 1 /\ ccount' = ccount - 1 /\ UNCHANGED automaton
      /\ \/ /\ d.list \in out /\ where' = "line" /\ at' = d
            /\ p' = p /\ linep' = linep /\ lineno' = lineno /\ printed' = printed
         \/ /\ d.list \notin out /\ data[p] # newline /\ p' = p + 1 /\ at' = d
            /\ where' = where /\ linep' = linep /\ lineno' = lineno /\ printed' = printed
         \/ /\ d.list \notin out /\ data[p] = newline /\ p' = p + 1
            /\ LineDone(p + 1, "V" \in options)
  <2>1. \A c \in {d} : c = d BY Zenon
  <2> QED BY Zenon DEF Examine
<1>2. /\ words \in Patterns /\ data \in Texts /\ Ordered(printed) /\ data # <<>> /\ Made
      /\ Searching(p, linep, ccount, lineno, at, printed)
  <2>1. ~ (ccount = 0) BY <1>1
  <2> QED BY <1>1, <2>1, Zenon DEF LiteralInv
<1>3. Kept /\ Made' BY <1>1, <1>2, MadeStays
<1>4. CASE d.list \in out /\ where' = "line" /\ at' = d
           /\ p' = p /\ linep' = linep /\ lineno' = lineno /\ printed' = printed
  <2>1. Finding(p, linep, ccount - 1, lineno, printed) BY <1>1, <1>2, <1>4, Found
  <2>2. Finding(p', linep', ccount', lineno', printed') BY <1>1, <1>4, <2>1, Zenon
  <2>3. Ordered(printed') BY <1>2, <1>4, Zenon
  <2>4. where' = "line" BY <1>4
  <2> HIDE DEF d
  <2> QED BY <1>2, <1>3, <2>2, <2>3, <2>4, InvThen
<1>5. CASE d.list \notin out /\ data[p] # newline /\ p' = p + 1 /\ at' = d
           /\ where' = where /\ linep' = linep /\ lineno' = lineno /\ printed' = printed
  <2>1. Searching(p + 1, linep, ccount - 1, lineno, d, printed) BY <1>1, <1>2, <1>5, ReadOn
  <2> HIDE DEF d
  <2>2. Searching(p', linep', ccount', lineno', at', printed') BY <1>1, <1>5, <2>1, Zenon
  <2>3. Ordered(printed') BY <1>2, <1>5, Zenon
  <2>4. where' = "search" BY <1>1, <1>5
  <2> QED BY <1>2, <1>3, <2>2, <2>3, <2>4, InvThen
<1>6. CASE d.list \notin out /\ data[p] = newline /\ p' = p + 1
           /\ LineDone(p + 1, "V" \in options)
  <2> DEFINE print == "V" \in options
  <2>0. p \in Int /\ print \in BOOLEAN
    <3>1. OnLine(p, linep, lineno, printed) BY <1>2, Zenon DEF Searching
    <3>2. p \in 1 .. Len(data) BY <1>2, <3>1, OnLineIs
    <3> QED BY <3>2
  <2>1. /\ printed' = Printing(printed, print, linep, p, lineno)
        /\ where' = (IF print /\ "path" \in options THEN "finish" ELSE "search")
        /\ at' = Root /\ linep' = p + 1 /\ lineno' = lineno + 1
    <3>1. LineDone(p + 1, print) BY <1>6
    <3> HIDE DEF print
    <3> QED BY <2>0, <3>1, DoneIs
  <2>2. /\ Ordered(printed')
        /\ "V" \in options /\ "path" \in options => Final(printed')
        /\ ~ ("V" \in options /\ "path" \in options) =>
             Searching(p + 1, p + 1, ccount - 1, lineno + 1, Root, printed')
    <3>1. printed' = Printing(printed, "V" \in options, linep, p, lineno) BY <2>1
    <3> QED BY <1>1, <1>2, <1>6, <3>1, LineWithout
  <2>3. where' = "finish" \/ where' = "search" BY <2>1
  <2>4. where' = "search" => Searching(p', linep', ccount', lineno', at', printed')
    <3> SUFFICES ASSUME where' = "search"
                 PROVE  Searching(p', linep', ccount', lineno', at', printed')
      OBVIOUS
    <3>1. ~ ("V" \in options /\ "path" \in options) BY <2>1
    <3>2. Searching(p + 1, p + 1, ccount - 1, lineno + 1, Root, printed') BY <2>2, <3>1, Zenon
    <3> QED BY <1>1, <1>6, <2>1, <3>2, Zenon
  <2>5. where' = "finish" => Final(printed')
    <3> SUFFICES ASSUME where' = "finish" PROVE Final(printed') OBVIOUS
    <3>1. "V" \in options /\ "path" \in options BY <2>1
    <3> QED BY <2>2, <3>1, Zenon
  <2>6. where' # "comple" /\ where' # "line" BY <2>3
  <2> HIDE DEF d, print
  <2> QED BY <1>2, <1>3, <2>2, <2>4, <2>5, <2>6, InvThen
<1> QED BY <1>1, <1>4, <1>5, <1>6, Zenon

LEMMA RestOfMatchInv == ASSUME LiteralInv, RestOfMatch PROVE LiteralInv'
<1>1. /\ where = "line" /\ p' = p + 1 /\ UNCHANGED automaton
      /\ ccount' = IF data[p] = newline THEN ccount ELSE ccount - 1
      /\ IF data[p] = newline \/ ccount <= 1 THEN LineDone(p + 1, "V" \notin options)
         ELSE where' = where /\ at' = at /\ linep' = linep /\ lineno' = lineno /\ printed' = printed
  BY Zenon DEF RestOfMatch
<1>2. /\ words \in Patterns /\ data \in Texts /\ Ordered(printed) /\ data # <<>> /\ Made
      /\ Finding(p, linep, ccount, lineno, printed)
  BY <1>1, Zenon DEF LiteralInv
<1>3. Kept /\ Made' BY <1>1, <1>2, MadeStays
<1> DEFINE print == "V" \notin options
<1>4. ASSUME LineDone(p + 1, "V" \notin options)
      PROVE  /\ printed' = Printing(printed, print, linep, p, lineno)
             /\ where' = (IF print /\ "path" \in options THEN "finish" ELSE "search")
             /\ at' = Root /\ linep' = p + 1 /\ lineno' = lineno + 1
  <2>1. p \in Int /\ print \in BOOLEAN
    <3>1. OnLine(p, linep, lineno, printed) BY <1>2, Zenon DEF Finding
    <3>2. p \in 1 .. Len(data) BY <1>2, <3>1, OnLineIs
    <3> QED BY <3>2
  <2>2. LineDone(p + 1, print) BY <1>4
  <2> HIDE DEF print
  <2> QED BY <2>1, <2>2, DoneIs
<1>5. CASE data[p] = newline
  <2>1. LineDone(p + 1, "V" \notin options) /\ ccount' = ccount BY <1>1, <1>5
  <2>2. /\ printed' = Printing(printed, print, linep, p, lineno)
        /\ where' = (IF print /\ "path" \in options THEN "finish" ELSE "search")
        /\ at' = Root /\ linep' = p + 1 /\ lineno' = lineno + 1
    BY <1>4, <2>1
  <2>3. /\ Ordered(printed')
        /\ "V" \notin options /\ "path" \in options => Final(printed')
        /\ ~ ("V" \notin options /\ "path" \in options) =>
             Searching(p + 1, p + 1, ccount, lineno + 1, Root, printed')
    <3>1. printed' = Printing(printed, "V" \notin options, linep, p, lineno) BY <2>2
    <3> QED BY <1>2, <1>5, <3>1, LineWith
  <2>4. where' = "finish" \/ where' = "search" BY <2>2
  <2>5. where' = "search" => Searching(p', linep', ccount', lineno', at', printed')
    <3> SUFFICES ASSUME where' = "search"
                 PROVE  Searching(p', linep', ccount', lineno', at', printed')
      OBVIOUS
    <3>1. ~ ("V" \notin options /\ "path" \in options) BY <2>2
    <3>2. Searching(p + 1, p + 1, ccount, lineno + 1, Root, printed') BY <2>3, <3>1, Zenon
    <3> QED BY <1>1, <2>1, <2>2, <3>2, Zenon
  <2>6. where' = "finish" => Final(printed')
    <3> SUFFICES ASSUME where' = "finish" PROVE Final(printed') OBVIOUS
    <3>1. "V" \notin options /\ "path" \in options BY <2>2
    <3> QED BY <2>3, <3>1, Zenon
  <2>7. where' # "comple" /\ where' # "line" BY <2>4
  <2> HIDE DEF print
  <2> QED BY <1>2, <1>3, <2>3, <2>5, <2>6, <2>7, InvThen
<1>6. CASE data[p] # newline /\ ccount <= 1
  <2>1. LineDone(p + 1, "V" \notin options) /\ ccount' = ccount - 1 BY <1>1, <1>6
  <2>2. /\ printed' = Printing(printed, print, linep, p, lineno)
        /\ where' = (IF print /\ "path" \in options THEN "finish" ELSE "search")
    BY <1>4, <2>1
  <2>3. ccount - 1 = 0 /\ Ordered(printed') /\ Final(printed')
    <3>1. printed' = Printing(printed, "V" \notin options, linep, p, lineno) BY <2>2
    <3> QED BY <1>2, <1>6, <3>1, FileEnds
  <2>4. where' = "finish" \/ where' = "search" BY <2>2
  <2>5. where' # "comple" /\ where' # "line" /\ ccount' = 0 BY <2>1, <2>3, <2>4
  <2> HIDE DEF print
  <2> QED BY <1>2, <1>3, <2>3, <2>5, InvThen
<1>7. CASE data[p] # newline /\ ~ (ccount <= 1)
  <2>1. /\ where' = "line" /\ linep' = linep /\ lineno' = lineno /\ printed' = printed
        /\ ccount' = ccount - 1
    BY <1>1, <1>7
  <2>2. Finding(p + 1, linep, ccount - 1, lineno, printed) BY <1>2, <1>7, RestRead
  <2>3. Finding(p', linep', ccount', lineno', printed') BY <1>1, <2>1, <2>2, Zenon
  <2>4. Ordered(printed') BY <1>2, <2>1, Zenon
  <2> QED BY <1>2, <1>3, <2>1, <2>3, <2>4, InvThen
<1> QED BY <1>5, <1>6, <1>7

LEMMA FinishInv == ASSUME LiteralInv, Finish PROVE LiteralInv'
<1>1. /\ where = "search" /\ ccount <= 1 /\ where' = "finish" /\ UNCHANGED automaton
      /\ printed' = printed
  BY DEF Finish
<1>2. /\ words \in Patterns /\ data \in Texts /\ Ordered(printed) /\ data # <<>> /\ Made
      /\ \/ Searching(p, linep, ccount, lineno, at, printed)
         \/ ccount = 0 /\ Final(printed)
  BY <1>1, Zenon DEF LiteralInv
<1>3. Kept /\ Made' BY <1>1, <1>2, MadeStays
<1>4. Final(printed) BY <1>1, <1>2, FileDone
<1>5. Final(printed') /\ Ordered(printed') BY <1>1, <1>2, <1>4, Zenon
<1> QED BY <1>1, <1>2, <1>3, <1>5, InvThen

LEMMA StutterInv == ASSUME LiteralInv, UNCHANGED literalVars PROVE LiteralInv'
<1>1. /\ words' = words /\ data' = data /\ options' = options /\ kids' = kids /\ out' = out
      /\ fail' = fail /\ at' = at /\ p' = p /\ linep' = linep /\ ccount' = ccount
      /\ lineno' = lineno /\ where' = where /\ printed' = printed
  BY DEF literalVars
<1>2. Kept /\ UNCHANGED automaton BY <1>1 DEF Kept, automaton
<1>3. words' \in Patterns /\ data' \in Texts BY <1>1, Zenon DEF LiteralInv
<1>4. Ordered(printed)'
  <2>1. Ordered(printed') BY <1>1, Zenon DEF LiteralInv
  <2> QED BY <1>2, <2>1, SamePrinted
<1>5. where' = "comple" => /\ p' = 1 /\ linep' = 1 /\ ccount' = Len(data') /\ lineno' = 1
                           /\ at' = Root /\ printed' = <<>>
  BY <1>1, Zenon DEF LiteralInv
<1>6. where' \in {"search", "line", "finish"} => data' # <<>> /\ Made'
  <2>1. where' \in {"search", "line", "finish"} => data' # <<>> /\ Made
    BY <1>1, Zenon DEF LiteralInv
  <2> QED BY <1>2, <2>1, MadeStays
<1>7. where' = "search" => \/ Searching(p, linep, ccount, lineno, at, printed)'
                           \/ ccount' = 0 /\ Final(printed)'
  <2>1. where' = "search" => \/ Searching(p', linep', ccount', lineno', at', printed')
                             \/ ccount' = 0 /\ Final(printed')
    BY <1>1, Zenon DEF LiteralInv
  <2>2. Searching(p', linep', ccount', lineno', at', printed') =>
          Searching(p, linep, ccount, lineno, at, printed)'
    BY <1>2, SamePlace
  <2>3. Final(printed') => Final(printed)' BY <1>2, SamePrinted
  <2> QED BY <2>1, <2>2, <2>3, Zenon
<1>8. where' = "line" => Finding(p, linep, ccount, lineno, printed)'
  <2>1. where' = "line" => Finding(p', linep', ccount', lineno', printed')
    BY <1>1, Zenon DEF LiteralInv
  <2>2. Finding(p', linep', ccount', lineno', printed') =>
          Finding(p, linep, ccount, lineno, printed)'
    BY <1>2, SamePlace
  <2> QED BY <2>1, <2>2, Zenon
<1>9. where' = "finish" => Final(printed)'
  <2>1. where' = "finish" => Final(printed') BY <1>1, Zenon DEF LiteralInv
  <2>2. Final(printed') => Final(printed)' BY <1>2, SamePrinted
  <2> QED BY <2>1, <2>2, Zenon
<1>10. Root' = Root BY DEF Root
<1> QED BY <1>3, <1>4, <1>5, <1>6, <1>7, <1>8, <1>9, <1>10, Zenon DEF LiteralInv

LEMMA InvImplies == LiteralInv => LiteralsFound
<1> SUFFICES ASSUME LiteralInv PROVE LiteralsFound OBVIOUS
<1>1. Ordered(printed) BY Zenon DEF LiteralInv
<1>2. where = "finish" => Final(printed) BY Zenon DEF LiteralInv
<1>3. \A k \in DOMAIN printed :
        /\ \E s \in Starts : /\ printed[k].number = LineNumber(s)
                             /\ printed[k].image \in Images(s)
                             /\ "V" \in options \/ HasLiteral(LineAt(s))
        /\ \A j \in 1 .. k - 1 : printed[j].number < printed[k].number
  BY <1>1, Zenon DEF Ordered, Right
<1> QED BY <1>2, <1>3, Zenon DEF Final, LiteralsFound

----------------------------------------------------------------------------
\* literal_comple and literal_search: whatever the pattern and the text, each line
\* printed as one that has a literal has one, under its number and once; and of words
\* whose links need one step only all such lines are printed, of -V all that have none.
THEOREM LiteralSearch == LiteralSpec => []LiteralsFound
<1>1. LiteralInv /\ [LiteralNext]_literalVars => LiteralInv'
  <2> SUFFICES ASSUME LiteralInv, [LiteralNext]_literalVars PROVE LiteralInv' OBVIOUS
  <2>1. CASE literal_comple BY <2>1, literal_compleInv
  <2>2. CASE Examine BY <2>2, ExamineInv
  <2>3. CASE RestOfMatch BY <2>3, RestOfMatchInv
  <2>4. CASE Finish BY <2>4, FinishInv
  <2>5. CASE UNCHANGED literalVars BY <2>5, StutterInv
  <2> QED BY <2>1, <2>2, <2>3, <2>4, <2>5, Zenon DEF LiteralNext
<1> QED BY <1>1, LiteralInitInv, InvImplies, PTL DEF LiteralSpec
=============================================================================
