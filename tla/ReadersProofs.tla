---------------------------- MODULE ReadersProofs ----------------------------
(***************************************************************************)
(* Of what reads the tag files: that the compact format loses no line and  *)
(* adds none, for any number of files and tags, of any length, and wherever *)
(* a record is split; that the pages of gtags-cscope go on one after the   *)
(* other; and that a record of the tag files, written with compression or  *)
(* without, is read as the tag it was made of.                             *)
(***************************************************************************)
EXTENDS CompactTags, Cscope, TagRecord, InductionLemmas, SequenceTheorems

----------------------------------------------------------------------------
(***************************************************************************)
(* The compact format: what global finds in the records and what it prints *)
(* of them is what gtags has put, and with the text of the line.           *)
(***************************************************************************)
(* What a record covers *)

\* The line a record ends with.
End(s) == LineReached(s)[Len(s)]

\* The differences are lines.
LEMMA TokenIs ==
  ASSUME NEW s \in Seq(Tokens)
  PROVE  /\ Len(s) \in Nat
         /\ \A i \in 1 .. Len(s) : s[i] \in Tokens /\ s[i].n \in Nat \ {0} /\ s[i].n \in Lines
<1>1. \A t \in Tokens : t.n \in Lines BY DEF Tokens
<1>2. Lines \subseteq Nat \ {0} BY CompactTagsAssumption DEF Lines
<1>3. Len(s) \in Nat /\ \A i \in 1 .. Len(s) : s[i] \in Tokens OBVIOUS
<1> QED BY <1>1, <1>2, <1>3

\* LineReached is the sum of the differences: a longest beginning for which there is one
\* is the whole record.
LEMMA LineReachedIs ==
  ASSUME NEW s \in Seq(Tokens)
  PROVE  /\ LineReached(s) \in [0 .. Len(s) -> Nat] /\ LineReached(s)[0] = 0
         /\ \A i \in 1 .. Len(s) : LineReached(s)[i] = LineReached(s)[i - 1] + s[i].n
<1>0. Len(s) \in Nat /\ \A i \in 1 .. Len(s) : s[i].n \in Nat
  BY TokenIs
<1> DEFINE Sums(f, m) == /\ f \in [0 .. m -> Nat] /\ f[0] = 0
                         /\ \A i \in 1 .. m : f[i] = f[i - 1] + s[i].n
           Missing == {m \in 0 .. Len(s) : ~ \E f : Sums(f, m)}
<1>1. Missing = {}
  <2> SUFFICES ASSUME Missing # {} PROVE FALSE OBVIOUS
  <2>1. PICK m \in Missing : \A k \in Missing : m <= k
    <3>1. Missing \subseteq Nat BY <1>0
    <3> HIDE DEF Missing
    <3> QED BY <3>1, LeastExists
  <2>2. m \in 0 .. Len(s) /\ ~ \E f : Sums(f, m) BY <2>1, Zenon
  <2>3. Sums([i \in 0 .. 0 |-> 0], 0) OBVIOUS
  <2>4. m # 0 BY <2>2, <2>3, Zenon
  <2>5. m - 1 \in 0 .. Len(s) /\ ~ (m <= m - 1) /\ m \in 1 .. Len(s) BY <1>0, <2>2, <2>4
  <2>6. m - 1 \notin Missing
    <3> HIDE DEF Missing
    <3> QED BY <2>1, <2>5, Zenon
  <2>7. PICK f : Sums(f, m - 1) BY <2>5, <2>6, Zenon
  <2> DEFINE g == [i \in 0 .. m |-> IF i = m THEN f[m - 1] + s[m].n ELSE f[i]]
  <2>8. g \in [0 .. m -> Nat] /\ g[0] = 0 BY <1>0, <2>5, <2>7
  <2>9. \A i \in 1 .. m : g[i] = g[i - 1] + s[i].n BY <1>0, <2>5, <2>7
  <2> QED BY <2>2, <2>8, <2>9
<1>2. PICK f : Sums(f, Len(s)) BY <1>0, <1>1
<1> DEFINE Eq(h) == h = [i \in 0 .. Len(s) |-> IF i = 0 THEN 0 ELSE h[i - 1] + s[i].n]
<1>3. Eq(f)
  <2>1. \A i \in 0 .. Len(s) : f[i] = IF i = 0 THEN 0 ELSE f[i - 1] + s[i].n
    BY <1>0, <1>2
  <2> QED BY <1>2, <2>1
<1>4. LineReached(s) = CHOOSE h : Eq(h) BY DEF LineReached
<1>5. Eq(LineReached(s))
  <2> HIDE DEF Eq
  <2> QED BY <1>3, <1>4, Zenon
<1> DEFINE L == LineReached(s)
<1>6. /\ L = [i \in 0 .. Len(s) |-> L[i]]
      /\ \A i \in 0 .. Len(s) : L[i] = IF i = 0 THEN 0 ELSE L[i - 1] + s[i].n
  <2>1. Eq(L) BY <1>5, Zenon
  <2> HIDE DEF L
  <2> QED BY <2>1
<1> HIDE DEF L
<1>7. L[0] = 0 /\ \A i \in 1 .. Len(s) : L[i] = L[i - 1] + s[i].n BY <1>0, <1>6
<1>8. \A i \in 0 .. Len(s) : L[i] = f[i]
  <2> DEFINE Other == {i \in 0 .. Len(s) : L[i] # f[i]}
  <2> SUFFICES ASSUME Other # {} PROVE FALSE OBVIOUS
  <2>1. PICK i \in Other : \A k \in Other : i <= k
    <3>1. Other \subseteq Nat BY <1>0
    <3> HIDE DEF Other
    <3> QED BY <3>1, LeastExists
  <2>2. i \in 0 .. Len(s) /\ L[i] # f[i] BY <2>1
  <2>3. i # 0 BY <1>2, <1>7, <2>2
  <2>4. i \in 1 .. Len(s) /\ i - 1 \in 0 .. Len(s) /\ ~ (i <= i - 1) BY <1>0, <2>2, <2>3
  <2>5. L[i - 1] = f[i - 1] BY <2>1, <2>4
  <2> QED BY <1>2, <1>7, <2>2, <2>4, <2>5
<1>9. L \in [0 .. Len(s) -> Nat] BY <1>2, <1>6, <1>8
<1> QED BY <1>7, <1>9 DEF L

\* It only grows: every difference is at least 1.
LEMMA LineReachedGrows ==
  ASSUME NEW s \in Seq(Tokens)
  PROVE  \A j \in 0 .. Len(s) : \A i \in 0 .. j - 1 : LineReached(s)[i] < LineReached(s)[j]
<1> DEFINE L == LineReached(s)
           Bad == {j \in 0 .. Len(s) : \E i \in 0 .. j - 1 : ~ (L[i] < L[j])}
<1>0. /\ Len(s) \in Nat /\ \A i \in 1 .. Len(s) : s[i].n \in Nat \ {0}
  BY TokenIs
<1>1. /\ L \in [0 .. Len(s) -> Nat]
      /\ \A i \in 1 .. Len(s) : L[i] = L[i - 1] + s[i].n
  BY LineReachedIs
<1> HIDE DEF L
<1> SUFFICES Bad = {} BY DEF L
<1> SUFFICES ASSUME Bad # {} PROVE FALSE OBVIOUS
<1>2. PICK j \in Bad : \A k \in Bad : j <= k
  <2>1. Bad \subseteq Nat BY <1>0
  <2> HIDE DEF Bad
  <2> QED BY <2>1, LeastExists
<1>3. PICK i \in 0 .. j - 1 : ~ (L[i] < L[j]) BY <1>2
<1>4. j \in 1 .. Len(s) /\ j - 1 \in 0 .. Len(s) /\ ~ (j <= j - 1) BY <1>0, <1>2, <1>3
<1>5. \A k \in 0 .. (j - 1) - 1 : L[k] < L[j - 1] BY <1>2, <1>4
<1>6. L[j] = L[j - 1] + s[j].n /\ s[j].n \in Nat \ {0} BY <1>0, <1>1, <1>4
<1>7. L[j - 1] \in Nat /\ L[i] \in Nat BY <1>0, <1>1, <1>3, <1>4
<1>8. CASE i = j - 1 BY <1>3, <1>6, <1>7, <1>8
<1>9. CASE i # j - 1
  <2>1. L[i] < L[j - 1] BY <1>3, <1>4, <1>5, <1>9
  <2> QED BY <1>3, <1>6, <1>7, <2>1
<1> QED BY <1>8, <1>9

\* A token more changes nothing before it.
LEMMA LineReachedAppend ==
  ASSUME NEW s \in Seq(Tokens), NEW t \in Tokens
  PROVE  /\ \A i \in 0 .. Len(s) : LineReached(Append(s, t))[i] = LineReached(s)[i]
         /\ LineReached(Append(s, t))[Len(s) + 1] = End(s) + t.n
         /\ End(Append(s, t)) = End(s) + t.n
<1> DEFINE a == Append(s, t)
           L == LineReached(s)
           M == LineReached(a)
           Bad == {i \in 0 .. Len(s) : M[i] # L[i]}
<1>1. /\ a \in Seq(Tokens) /\ Len(a) = Len(s) + 1 /\ Len(s) \in Nat /\ a[Len(s) + 1] = t
      /\ \A i \in 1 .. Len(s) : a[i] = s[i]
  BY AppendProperties
<1>2. L[0] = 0 /\ \A i \in 1 .. Len(s) : L[i] = L[i - 1] + s[i].n BY LineReachedIs
<1>3. M[0] = 0 /\ \A i \in 1 .. Len(s) + 1 : M[i] = M[i - 1] + a[i].n
  <2> HIDE DEF a
  <2> QED BY <1>1, LineReachedIs
<1> HIDE DEF a, L, M
<1>4. Bad = {}
  <2> SUFFICES ASSUME Bad # {} PROVE FALSE OBVIOUS
  <2>1. PICK i \in Bad : \A k \in Bad : i <= k
    <3>1. Bad \subseteq Nat BY <1>1
    <3> HIDE DEF Bad
    <3> QED BY <3>1, LeastExists
  <2>2. i \in 0 .. Len(s) /\ M[i] # L[i] BY <2>1
  <2>3. i # 0 BY <1>2, <1>3, <2>2
  <2>4. i \in 1 .. Len(s) /\ i - 1 \in 0 .. Len(s) /\ ~ (i <= i - 1) BY <1>1, <2>2, <2>3
  <2>5. M[i - 1] = L[i - 1] BY <2>1, <2>4
  <2>6. i \in 1 .. Len(s) + 1 /\ a[i] = s[i] BY <1>1, <2>4
  <2>7. M[i] = M[i - 1] + a[i].n /\ L[i] = L[i - 1] + s[i].n BY <1>2, <1>3, <2>4, <2>6, Zenon
  <2> QED BY <2>2, <2>5, <2>6, <2>7, Zenon
<1>5. \A i \in 0 .. Len(s) : M[i] = L[i] BY <1>4
<1>6. M[Len(s) + 1] = L[Len(s)] + t.n BY <1>1, <1>3, <1>5
<1> QED BY <1>1, <1>5, <1>6 DEF a, L, M, End
\* The lines a record covers.
Covered(s) ==
  {l \in Nat : \E i \in 1 .. Len(s) :
     \/ l = LineReached(s)[i]
     \/ s[i].op = "dash" /\ LineReached(s)[i - 1] <= l /\ l <= LineReached(s)[i]}

\* What flush_pool makes of the lines of a tag.
Folded(s) ==
  /\ s \in Seq(Tokens) /\ s # <<>> /\ End(s) \in Lines
  /\ s[1].op = "head" /\ \A i \in 2 .. Len(s) : s[i].op \in {"comma", "dash"}

LEMMA MentionsCovered ==
  ASSUME NEW r, Folded(r.toks), NEW l \in Nat
  PROVE  Mentions(r, l) <=> l \in Covered(r.toks)
<1>1. DOMAIN r.toks = 1 .. Len(r.toks) BY DEF Folded
<1> QED BY <1>1 DEF Mentions, Covered

\* It goes from its head to its end.
LEMMA CoveredBounds ==
  ASSUME NEW s, Folded(s)
  PROVE  /\ s[1].n \in Lines /\ s[1].n \in Covered(s) /\ End(s) \in Covered(s)
         /\ \A l \in Covered(s) : s[1].n <= l /\ l <= End(s)
<1> DEFINE L == LineReached(s)
<1>1. /\ Len(s) \in Nat \ {0} /\ s \in Seq(Tokens) /\ 1 \in 1 .. Len(s)
      /\ \A i \in 2 .. Len(s) : i - 1 \in 1 .. Len(s)
  BY DEF Folded
<1>2. /\ L \in [0 .. Len(s) -> Nat] /\ L[0] = 0
      /\ \A i \in 1 .. Len(s) : L[i] = L[i - 1] + s[i].n
  BY <1>1, LineReachedIs
<1>3. \A j \in 0 .. Len(s) : \A i \in 0 .. j - 1 : L[i] < L[j] BY <1>1, LineReachedGrows
<1>4. s[1].n \in Lines /\ s[1].n \in Nat BY <1>1, TokenIs
<1>5. L[1] = s[1].n /\ L[Len(s)] = End(s) BY <1>1, <1>2, <1>4 DEF End
<1>6. s[1].op # "dash" BY DEF Folded
<1> HIDE DEF L
<1>7. ASSUME NEW i \in 1 .. Len(s)
      PROVE  L[1] <= L[i] /\ L[i] <= L[Len(s)] /\ L[i] \in Nat
  <2>1. 1 \in 0 .. Len(s) /\ i \in 0 .. Len(s) /\ Len(s) \in 0 .. Len(s) BY <1>1
  <2>2. L[1] \in Nat /\ L[i] \in Nat /\ L[Len(s)] \in Nat BY <1>2, <2>1
  <2>3. i = 1 \/ 1 \in 0 .. i - 1 BY <1>1
  <2>4. i = Len(s) \/ i \in 0 .. Len(s) - 1 BY <1>1
  <2>5. i = 1 \/ L[1] < L[i] BY <1>3, <2>1, <2>3
  <2>6. i = Len(s) \/ L[i] < L[Len(s)] BY <1>3, <2>1, <2>4
  <2> QED BY <2>2, <2>5, <2>6
<1>8. Covered(s) = {l \in Nat : \E i \in 1 .. Len(s) :
                      \/ l = L[i]
                      \/ s[i].op = "dash" /\ L[i - 1] <= l /\ l <= L[i]}
  BY DEF Covered, L
<1>9. ASSUME NEW l \in Covered(s) PROVE s[1].n <= l /\ l <= End(s)
  <2>1. PICK i \in 1 .. Len(s) :
          l = L[i] \/ (s[i].op = "dash" /\ L[i - 1] <= l /\ l <= L[i])
    BY <1>8
  <2>2. l \in Nat BY <1>8
  <2>3. CASE l = L[i] BY <1>5, <1>7, <2>1, <2>3
  <2>4. CASE s[i].op = "dash" /\ L[i - 1] <= l /\ l <= L[i]
    <3>1. i \in 2 .. Len(s) BY <1>1, <1>6, <2>4
    <3>2. L[1] <= L[i - 1] /\ L[i - 1] \in Nat BY <1>1, <1>7, <3>1
    <3> QED BY <1>1, <1>4, <1>5, <1>7, <2>2, <2>4, <3>2
  <2> QED BY <2>1, <2>3, <2>4
<1>10. L[1] \in Covered(s) /\ L[Len(s)] \in Covered(s)
  BY <1>1, <1>7, <1>8
<1> QED BY <1>4, <1>5, <1>9, <1>10

\* A record begins with a line alone.
LEMMA HeadToken ==
  ASSUME NEW n \in Lines
  PROVE  LET s == <<RecToken("head", n)>>
         IN  Folded(s) /\ End(s) = n /\ Covered(s) = {n} /\ s[1].n = n
<1> DEFINE s == <<RecToken("head", n)>>
<1>1. /\ s \in Seq(Tokens) /\ s # <<>> /\ Len(s) = 1 /\ s[1].op = "head" /\ s[1].n = n
      /\ n \in Nat
  BY CompactTagsAssumption DEF RecToken, Tokens, Lines
<1> HIDE DEF s
<1>2. LineReached(s)[0] = 0 /\ LineReached(s)[1] = LineReached(s)[0] + s[1].n BY <1>1, LineReachedIs
<1>3. End(s) = n BY <1>1, <1>2 DEF End
<1>4. Folded(s) BY <1>1, <1>3 DEF Folded
<1>5. Covered(s) = {n} BY <1>1, <1>2 DEF Covered
<1> QED BY <1>1, <1>3, <1>4, <1>5 DEF s

\* It goes on with a difference, or with a range to a line that far away.
LEMMA NextToken ==
  ASSUME NEW s, Folded(s), NEW op \in {"comma", "dash"}, NEW k \in Lines,
         End(s) + k \in Lines
  PROVE  LET a == Append(s, RecToken(op, k))
         IN  /\ Folded(a) /\ End(a) = End(s) + k /\ a[1].n = s[1].n
             /\ op = "comma" => Covered(a) = Covered(s) \cup {End(s) + k}
             /\ op = "dash" => Covered(a) = Covered(s) \cup (End(s) .. End(s) + k)
<1> DEFINE t == RecToken(op, k)
           a == Append(s, t)
           L == LineReached(s)
           M == LineReached(a)
           e == Len(s) + 1
<1>1. t \in Tokens /\ t.op = op /\ t.n = k /\ k \in Nat
  BY CompactTagsAssumption DEF RecToken, Tokens, Lines
<1>2. s \in Seq(Tokens) /\ Len(s) \in Nat \ {0} /\ End(s) \in Nat
  BY CompactTagsAssumption DEF Folded, Lines
<1> HIDE DEF t
<1>3. /\ a \in Seq(Tokens) /\ a # <<>> /\ Len(a) = e /\ a[e] = t
      /\ \A i \in 1 .. Len(s) : a[i] = s[i]
  BY <1>1, <1>2, AppendProperties
<1>4. \A i \in 0 .. Len(s) : M[i] = L[i] BY <1>1, <1>2, LineReachedAppend
<1>5. M[e] = End(s) + k /\ End(a) = End(s) + k BY <1>1, <1>2, LineReachedAppend
<1>6. M[e - 1] = End(s) BY <1>2, <1>4 DEF End
<1> HIDE DEF a
<1>7. Folded(a)
  <2>1. a[1] = s[1] BY <1>2, <1>3
  <2>2. \A i \in 2 .. e : i = e \/ i \in 2 .. Len(s) BY <1>2
  <2>3. \A i \in 2 .. e : a[i].op \in {"comma", "dash"} BY <1>1, <1>2, <1>3, <2>2 DEF Folded
  <2> QED BY <1>3, <1>5, <2>1, <2>3 DEF Folded
<1>8. /\ Covered(a) = {l \in Nat : \E i \in 1 .. e :
                        \/ l = M[i]
                        \/ a[i].op = "dash" /\ M[i - 1] <= l /\ l <= M[i]}
      /\ Covered(s) = {l \in Nat : \E i \in 1 .. Len(s) :
                        \/ l = L[i]
                        \/ s[i].op = "dash" /\ L[i - 1] <= l /\ l <= L[i]}
  BY <1>3, Zenon DEF Covered
<1>9. \A i \in 1 .. Len(s) : i - 1 \in 0 .. Len(s) /\ i \in 0 .. Len(s) /\ i \in 1 .. e
  BY <1>2
<1>10. 1 .. e = (1 .. Len(s)) \cup {e} BY <1>2
<1> DEFINE Old(l) == \E i \in 1 .. Len(s) :
                       \/ l = L[i]
                       \/ s[i].op = "dash" /\ L[i - 1] <= l /\ l <= L[i]
           New(l) == \/ l = M[e]
                     \/ a[e].op = "dash" /\ M[e - 1] <= l /\ l <= M[e]
<1>11. \A l \in Nat : l \in Covered(s) <=> Old(l) BY <1>8
<1>12. \A l \in Nat : l \in Covered(a) <=> Old(l) \/ New(l)
  <2> HIDE DEF L, M, e
  <2>1. \A i \in 1 .. Len(s) : M[i] = L[i] /\ M[i - 1] = L[i - 1] /\ a[i] = s[i]
    BY <1>3, <1>4, <1>9
  <2> QED BY <1>8, <1>10, <2>1
<1>13. \A l \in Nat : New(l) <=> \/ l = End(s) + k
                                 \/ op = "dash" /\ End(s) <= l /\ l <= End(s) + k
  <2>1. a[e].op = op BY <1>1, <1>3
  <2> HIDE DEF M, e
  <2> QED BY <1>5, <1>6, <2>1
<1>14. End(s) + k \in Nat /\ Covered(a) \subseteq Nat /\ Covered(s) \subseteq Nat
  BY <1>1, <1>2 DEF Covered
<1>15. \A l \in End(s) .. End(s) + k : l \in Nat BY <1>1, <1>2
<1> HIDE DEF L, M, e, Old, New
<1>16. op = "comma" => Covered(a) = Covered(s) \cup {End(s) + k}
  BY <1>11, <1>12, <1>13, <1>14
<1>17. op = "dash" => Covered(a) = Covered(s) \cup (End(s) .. End(s) + k)
  <2> SUFFICES ASSUME op = "dash", NEW l
               PROVE  l \in Covered(a) <=> l \in Covered(s) \/ l \in End(s) .. End(s) + k
    OBVIOUS
  <2>1. CASE l \notin Nat BY <1>14, <1>15, <2>1
  <2>2. CASE l \in Nat
    <3>1. l \in End(s) .. End(s) + k <=> End(s) <= l /\ l <= End(s) + k BY <1>1, <1>2, <2>2
    <3>2. End(s) <= End(s) + k BY <1>1, <1>2
    <3> QED BY <1>11, <1>12, <1>13, <2>2, <3>1, <3>2
  <2> QED BY <2>1, <2>2
<1>18. a[1].n = s[1].n BY <1>2, <1>3
<1> QED BY <1>5, <1>7, <1>16, <1>17, <1>18 DEF a, t

----------------------------------------------------------------------------
(* What gtags writes *)

PutLines(t, f) == {n \in Lines : [file |-> f, tag |-> t, n |-> n] \in put}
RecordsOf(t, f) == {r \in records : r.tag = t /\ r.file = f}
Held(t, f) == UNION {Covered(r.toks) : r \in RecordsOf(t, f)}

\* Each record covers lines of its own.
Apart == \A r, s \in records :
  r.tag = s.tag /\ r.file = s.file /\ r # s
    => End(r.toks) < s.toks[1].n \/ End(s.toks) < r.toks[1].n

\* The tags of the file that are still to be written, or are being written.
Unwritten(t) == pc = "parse" \/ t \in todo \/ (pc = "fold" /\ t = entry)

\* What flush_pool has taken of the entry: it is in records, in the buffer, or in the
\* range that is open.
Taken ==
  Held(entry, fid) \cup (IF rec = <<>> THEN {} ELSE Covered(rec))
                    \cup (IF cont > 0 THEN cont .. last ELSE {})

Folding ==
  /\ entry \in Tags \ todo /\ rest \in [Lines -> 0 .. 2]
  /\ last \in {0} \cup Lines /\ cont \in {0} \cup Lines
  /\ Taken \cup Some(rest) = Some(pool[entry])
  /\ \A n \in Some(rest) : last <= n
  /\ last = 0 \/ last \in Taken
  /\ \A r \in RecordsOf(entry, fid) :
       End(r.toks) <= last /\ (rec # <<>> => End(r.toks) < rec[1].n)
  /\ rec # <<>> => Folded(rec) /\ End(rec) = IF cont > 0 THEN cont ELSE last
  /\ cont > 0 => cont < last /\ rec # <<>>

Writing ==
  /\ pc \in {"parse", "flush", "fold", "read", "unfold", "end"} /\ fid \in Files
  /\ pool \in [Tags -> [Lines -> 0 .. 2]] /\ todo \subseteq Tags
  /\ put \subseteq [file : 1 .. fid, tag : Tags, n : Lines]
  /\ \A r \in records :
       r \in [tag : Tags, file : 1 .. fid, toks : Seq(Tokens)] /\ Folded(r.toks)
  /\ Apart
  /\ pc \notin {"flush", "fold"} => todo = {}
  /\ pc \in {"read", "unfold", "end"} => fid = NFiles
  /\ pc \in {"parse", "flush", "fold"} => \A t \in Tags : PutLines(t, fid) = Some(pool[t])
  /\ \A t \in Tags : pc = "parse" \/ t \in todo => RecordsOf(t, fid) = {}
  /\ \A t \in Tags, f \in 1 .. fid :
       Held(t, f) = PutLines(t, f) \/ (f = fid /\ Unwritten(t))
  /\ pc = "fold" => Folding

LEMMA MinIs ==
  ASSUME NEW S, S \subseteq Nat, S # {}
  PROVE  Min(S) \in S /\ \A i \in S : Min(S) <= i
<1>1. \E i \in S : \A j \in S : i <= j BY LeastExists
<1> QED BY <1>1 DEF Min

LEMMA WritingInit == Init => Writing
<1> SUFFICES ASSUME Init PROVE Writing OBVIOUS
<1>1. NFiles \in Nat /\ NFiles # 0 /\ MaxLine \in Nat BY CompactTagsAssumption
<1>2. /\ pc = "parse" /\ fid = 1 /\ todo = {} /\ put = {} /\ records = {}
      /\ pool = [t \in Tags |-> NoLines]
  BY DEF Init
<1>3. fid \in Files /\ pool \in [Tags -> [Lines -> 0 .. 2]] BY <1>1, <1>2 DEF Files, NoLines
<1>4. \A t \in Tags : PutLines(t, fid) = Some(pool[t])
  BY <1>2 DEF PutLines, Some, NoLines
<1>5. \A t \in Tags, f \in 1 .. fid : f = fid /\ Unwritten(t)
  BY <1>2 DEF Unwritten
<1>6. \A t \in Tags : RecordsOf(t, fid) = {} BY <1>2 DEF RecordsOf
<1> QED BY <1>2, <1>3, <1>4, <1>5, <1>6 DEF Writing, Apart

\* What a step that leaves put and records alone leaves.
LEMMA SameRecords ==
  ASSUME put' = put, records' = records
  PROVE  /\ \A t, f : /\ PutLines(t, f)' = PutLines(t, f)
                      /\ RecordsOf(t, f)' = RecordsOf(t, f)
                      /\ Held(t, f)' = Held(t, f)
         /\ Apart' <=> Apart
<1>1. \A t, f : PutLines(t, f)' = PutLines(t, f) BY DEF PutLines
<1>2. \A t, f : RecordsOf(t, f)' = RecordsOf(t, f) BY DEF RecordsOf
<1>3. \A t, f : Held(t, f)' = Held(t, f) BY <1>2, Zenon DEF Held
<1> QED BY <1>1, <1>2, <1>3, Zenon DEF Apart

LEMMA WritingPut ==
  ASSUME NEW t \in Tags, NEW n \in Lines, Writing, gtags_put_using(t, n)
  PROVE  Writing'
<1>1. /\ pc = "parse" /\ pc' = pc /\ fid' = fid /\ todo' = todo /\ records' = records
      /\ put' = put \cup {[file |-> fid, tag |-> t, n |-> n]}
      /\ pool[t][n] < 2 /\ pool' = [pool EXCEPT ![t][n] = @ + 1]
  BY DEF gtags_put_using
<1>2. pool \in [Tags -> [Lines -> 0 .. 2]] /\ fid \in 1 .. fid /\ fid \in Nat
  BY CompactTagsAssumption DEF Writing, Files
<1>3. pool' \in [Tags -> [Lines -> 0 .. 2]]
  <2>1. pool[t] \in [Lines -> 0 .. 2] /\ pool[t][n] \in 0 .. 2 BY <1>2
  <2>2. [pool[t] EXCEPT ![n] = @ + 1] \in [Lines -> 0 .. 2] BY <1>1, <2>1
  <2> QED BY <1>1, <1>2, <2>2
<1>4. put' \subseteq [file : 1 .. fid, tag : Tags, n : Lines] BY <1>1, <1>2 DEF Writing
<1>5. \A s \in Tags : \A f : RecordsOf(s, f)' = RecordsOf(s, f) BY <1>1 DEF RecordsOf
<1>6. Apart' BY <1>1 DEF Apart, Writing
<1>7. ASSUME NEW s \in Tags PROVE PutLines(s, fid)' = Some(pool[s])'
  <2>1. PutLines(s, fid) = Some(pool[s]) BY <1>1 DEF Writing
  <2>2. pool[s] \in [Lines -> 0 .. 2] BY <1>2
  <2>3. CASE s = t
    <3>1. PutLines(s, fid)' = PutLines(s, fid) \cup {n} BY <1>1, <2>3 DEF PutLines
    <3>2. \A m \in Lines : pool'[s][m] = IF m = n THEN pool[s][n] + 1 ELSE pool[s][m]
      BY <1>1, <1>2, <2>3
    <3>3. Some(pool[s])' = Some(pool[s]) \cup {n} BY <2>2, <3>2 DEF Some
    <3> QED BY <2>1, <3>1, <3>3
  <2>4. CASE s # t
    <3>1. PutLines(s, fid)' = PutLines(s, fid) BY <1>1, <2>4 DEF PutLines
    <3>2. pool'[s] = pool[s] BY <1>1, <1>2, <2>4
    <3> QED BY <2>1, <3>1, <3>2 DEF Some
  <2> QED BY <2>3, <2>4
<1>8. ASSUME NEW s \in Tags, NEW f \in 1 .. fid
      PROVE  Held(s, f)' = PutLines(s, f)' \/ (f = fid /\ Unwritten(s)')
  <2>1. CASE f = fid BY <1>1, <2>1 DEF Unwritten
  <2>2. CASE f # fid
    <3>1. PutLines(s, f)' = PutLines(s, f) BY <1>1, <2>2 DEF PutLines
    <3>2. Held(s, f)' = Held(s, f) BY <1>5, Zenon DEF Held
    <3> QED BY <2>2, <3>1, <3>2 DEF Writing
  <2> QED BY <2>1, <2>2
<1> QED BY <1>1, <1>3, <1>4, <1>5, <1>6, <1>7, <1>8 DEF Writing

LEMMA WritingFlush == Writing /\ gtags_flush => Writing'
<1> SUFFICES ASSUME Writing, gtags_flush PROVE Writing' OBVIOUS
<1>1. /\ pc = "parse" /\ pc' = "flush" /\ fid' = fid /\ pool' = pool
      /\ todo' = {t \in Tags : Some(pool[t]) # {}} /\ put' = put /\ records' = records
  BY DEF gtags_flush
<1>2. /\ \A t, f : /\ PutLines(t, f)' = PutLines(t, f)
                   /\ RecordsOf(t, f)' = RecordsOf(t, f)
                   /\ Held(t, f)' = Held(t, f)
      /\ Apart'
  BY <1>1, SameRecords DEF Writing
<1>3. ASSUME NEW t \in Tags, NEW f \in 1 .. fid
      PROVE  Held(t, f)' = PutLines(t, f)' \/ (f = fid /\ Unwritten(t)')
  <2>1. CASE f # fid BY <1>2, <2>1 DEF Writing
  <2>2. CASE f = fid /\ t \in todo' BY <2>2 DEF Unwritten
  <2>3. CASE f = fid /\ t \notin todo'
    <3>1. RecordsOf(t, f) = {} /\ PutLines(t, f) = {} BY <1>1, <2>3 DEF Writing
    <3>2. Held(t, f) = {} BY <3>1 DEF Held
    <3> QED BY <1>2, <3>1, <3>2
  <2> QED BY <2>1, <2>2, <2>3
<1>4. \A t \in Tags : Some(pool[t])' = Some(pool[t]) BY <1>1 DEF Some
<1> QED BY <1>1, <1>2, <1>3, <1>4 DEF Writing

LEMMA WritingNextEntry ==
  ASSUME NEW t \in Tags, Writing, NextEntry(t) PROVE Writing'
<1>1. /\ pc = "flush" /\ pc' = "fold" /\ fid' = fid /\ pool' = pool /\ t \in todo
      /\ todo' = todo \ {t} /\ put' = put /\ records' = records
      /\ entry' = t /\ rest' = pool[t] /\ rec' = <<>> /\ last' = 0 /\ cont' = 0
  BY DEF NextEntry
<1>2. /\ \A s, f : /\ PutLines(s, f)' = PutLines(s, f)
                   /\ RecordsOf(s, f)' = RecordsOf(s, f)
                   /\ Held(s, f)' = Held(s, f)
      /\ Apart'
  BY <1>1, SameRecords DEF Writing
<1>3. \A s \in Tags, f \in 1 .. fid :
        Held(s, f)' = PutLines(s, f)' \/ (f = fid /\ Unwritten(s)')
  BY <1>1, <1>2 DEF Writing, Unwritten
<1>4. RecordsOf(t, fid)' = {} /\ Held(t, fid)' = {}
  <2>1. RecordsOf(t, fid) = {} BY <1>1 DEF Writing
  <2>2. Held(t, fid) = {} BY <2>1 DEF Held
  <2>3. fid' = fid BY <1>1
  <2>4. RecordsOf(t, fid') = {} /\ Held(t, fid') = {} BY <2>1, <2>2, <2>3
  <2> QED BY <1>1, <1>2, <2>4
<1>5. Folding'
  <2>1. entry' \in Tags \ todo' /\ rest' \in [Lines -> 0 .. 2] BY <1>1 DEF Writing
  <2>2. Taken' = {} BY <1>1, <1>4 DEF Taken
  <2>3. Some(rest)' = Some(pool[entry])' BY <1>1 DEF Some
  <2>4. \A n \in Some(rest)' : last' <= n
    BY <1>1, CompactTagsAssumption DEF Some, Lines
  <2>5. RecordsOf(entry, fid)' = {} BY <1>1, <1>4
  <2> QED BY <1>1, <2>1, <2>2, <2>3, <2>4, <2>5 DEF Folding
<1>6. \A s \in Tags : Some(pool[s])' = Some(pool[s]) BY <1>1 DEF Some
<1> QED BY <1>1, <1>2, <1>3, <1>5, <1>6 DEF Writing
\* A range that is open is closed at the last line.
LEMMA RangeClosed ==
  ASSUME Folding, rec # <<>>
  PROVE  /\ Folded(WithRange) /\ End(WithRange) = last /\ WithRange[1].n = rec[1].n
         /\ Covered(WithRange) = Covered(rec) \cup (IF cont > 0 THEN cont .. last ELSE {})
<1>1. Folded(rec) /\ End(rec) = IF cont > 0 THEN cont ELSE last BY DEF Folding
<1>2. Lines \subseteq Nat \ {0} /\ MaxLine \in Nat BY CompactTagsAssumption DEF Lines
<1>3. last \in {0} \cup Lines /\ cont \in {0} \cup Lines BY DEF Folding
<1>4. CASE cont = 0 BY <1>1, <1>4 DEF WithRange
<1>5. CASE cont > 0
  <2>1. cont < last /\ End(rec) = cont BY <1>1, <1>5 DEF Folding
  <2>2. /\ last - cont \in Lines /\ End(rec) + (last - cont) = last /\ last \in Lines
        /\ cont + (last - cont) = last
    BY <1>2, <1>3, <1>5, <2>1 DEF Lines
  <2>3. WithRange = Append(rec, RecToken("dash", last - cont)) BY <1>5 DEF WithRange
  <2>4. /\ Folded(WithRange) /\ End(WithRange) = End(rec) + (last - cont)
        /\ WithRange[1].n = rec[1].n
        /\ Covered(WithRange) = Covered(rec) \cup (End(rec) .. End(rec) + (last - cont))
    <3> DEFINE k == last - cont
    <3>1. k \in Lines /\ End(rec) + k \in Lines /\ "dash" \in {"comma", "dash"} BY <2>2
    <3> HIDE DEF k
    <3>2. LET a == Append(rec, RecToken("dash", k))
          IN  /\ Folded(a) /\ End(a) = End(rec) + k /\ a[1].n = rec[1].n
              /\ Covered(a) = Covered(rec) \cup (End(rec) .. End(rec) + k)
      BY <1>1, <3>1, NextToken
    <3> QED BY <2>3, <3>2 DEF k
  <2> QED BY <1>5, <2>1, <2>2, <2>4
<1> QED BY <1>2, <1>3, <1>4, <1>5

\* A line that does not follow the last.
LEMMA SeparateIs ==
  ASSUME Folding, NEW n \in Lines, last < n
  PROVE  /\ Folded(Separate(n)) /\ End(Separate(n)) = n
         /\ Separate(n)[1].n = IF rec = <<>> THEN n ELSE rec[1].n
         /\ Covered(Separate(n)) = {n} \cup (IF rec = <<>> THEN {} ELSE Covered(rec))
                                       \cup (IF cont > 0 THEN cont .. last ELSE {})
<1>1. Lines \subseteq Nat \ {0} /\ MaxLine \in Nat BY CompactTagsAssumption DEF Lines
<1>2. CASE rec = <<>>
  <2>1. Separate(n) = <<RecToken("head", n)>> BY <1>2 DEF Separate
  <2>2. ~ (cont > 0) BY <1>2 DEF Folding
  <2> QED BY <1>2, <2>1, <2>2, HeadToken
<1>3. CASE rec # <<>>
  <2>1. Separate(n) = Append(WithRange, RecToken("comma", n - last)) BY <1>3 DEF Separate
  <2>2. last \in Lines
    <3>1. Folded(rec) /\ End(rec) = IF cont > 0 THEN cont ELSE last BY <1>3 DEF Folding
    <3>2. End(rec) \in Lines BY <3>1 DEF Folded
    <3>3. last \in {0} \cup Lines /\ (cont > 0 => cont < last) /\ cont \in {0} \cup Lines
      BY DEF Folding
    <3> QED BY <1>1, <3>1, <3>2, <3>3
  <2>3. n - last \in Lines /\ last + (n - last) = n BY <1>1, <2>2 DEF Lines
  <2>4. /\ Folded(WithRange) /\ End(WithRange) = last /\ WithRange[1].n = rec[1].n
        /\ Covered(WithRange) = Covered(rec) \cup (IF cont > 0 THEN cont .. last ELSE {})
    BY <1>3, RangeClosed
  <2>5. /\ Folded(Separate(n)) /\ End(Separate(n)) = n /\ Separate(n)[1].n = rec[1].n
        /\ Covered(Separate(n)) = Covered(WithRange) \cup {n}
    <3> DEFINE w == WithRange
    <3>1. Folded(w) /\ End(w) + (n - last) \in Lines /\ "comma" \in {"comma", "dash"}
      BY <2>3, <2>4
    <3> HIDE DEF w
    <3>2. LET a == Append(w, RecToken("comma", n - last))
          IN  Folded(a) /\ End(a) = End(w) + (n - last) /\ a[1].n = w[1].n
              /\ Covered(a) = Covered(w) \cup {End(w) + (n - last)}
      BY <2>3, <3>1, NextToken
    <3> QED BY <2>1, <2>3, <2>4, <3>2 DEF w
  <2> QED BY <1>3, <2>4, <2>5
<1> QED BY <1>2, <1>3

\* dbop_put: the record is one more of its tag and file.
LEMMA PutIs ==
  ASSUME NEW s, Writing, pc = "fold", Put(s), put' = put, Folded(s),
         \A r \in RecordsOf(entry, fid) : End(r.toks) < s[1].n
  PROVE  LET R == {r \in records' : r.tag = entry /\ r.file = fid}
         IN  /\ \A r \in records' :
                  r \in [tag : Tags, file : 1 .. fid, toks : Seq(Tokens)] /\ Folded(r.toks)
             /\ Apart'
             /\ R = RecordsOf(entry, fid) \cup {[tag |-> entry, file |-> fid, toks |-> s]}
             /\ UNION {Covered(r.toks) : r \in R} = Held(entry, fid) \cup Covered(s)
             /\ \A t, f : PutLines(t, f)' = PutLines(t, f)
             /\ \A t, f : t # entry \/ f # fid => /\ RecordsOf(t, f)' = RecordsOf(t, f)
                                                  /\ Held(t, f)' = Held(t, f)
<1> DEFINE new == [tag |-> entry, file |-> fid, toks |-> s]
           R == {r \in records' : r.tag = entry /\ r.file = fid}
<1>1. records' = records \cup {new} BY DEF Put
<1>2. new.tag = entry /\ new.file = fid /\ new.toks = s OBVIOUS
<1>3. entry \in Tags /\ fid \in 1 .. fid /\ s \in Seq(Tokens)
  BY CompactTagsAssumption DEF Writing, Folding, Files, Folded
<1>4. new \in [tag : Tags, file : 1 .. fid, toks : Seq(Tokens)] BY <1>3
<1> HIDE DEF new
<1>5. \A r \in records' :
        r \in [tag : Tags, file : 1 .. fid, toks : Seq(Tokens)] /\ Folded(r.toks)
  BY <1>1, <1>2, <1>4 DEF Writing
<1>6. Apart'
  <2> SUFFICES ASSUME NEW r \in records', NEW q \in records', r.tag = q.tag, r.file = q.file,
                      r # q
               PROVE  End(r.toks) < q.toks[1].n \/ End(q.toks) < r.toks[1].n
    BY DEF Apart
  <2>1. CASE r \in records /\ q \in records BY <2>1 DEF Writing, Apart
  <2>2. CASE r = new
    <3>1. q \in RecordsOf(entry, fid) BY <1>1, <1>2, <2>2 DEF RecordsOf
    <3> QED BY <1>2, <2>2, <3>1
  <2>3. CASE q = new
    <3>1. r \in RecordsOf(entry, fid) BY <1>1, <1>2, <2>3 DEF RecordsOf
    <3> QED BY <1>2, <2>3, <3>1
  <2> QED BY <1>1, <2>1, <2>2, <2>3
<1>7. R = RecordsOf(entry, fid) \cup {new} BY <1>1, <1>2 DEF RecordsOf
<1>8. UNION {Covered(r.toks) : r \in R} = Held(entry, fid) \cup Covered(s)
  <2> HIDE DEF R
  <2> QED BY <1>2, <1>7 DEF Held
<1>9. \A t, f : PutLines(t, f)' = PutLines(t, f) BY DEF PutLines
<1>10. \A t, f : t # entry \/ f # fid => RecordsOf(t, f)' = RecordsOf(t, f)
  BY <1>1, <1>2 DEF RecordsOf
<1>11. \A t, f : t # entry \/ f # fid => Held(t, f)' = Held(t, f)
  BY <1>10, Zenon DEF Held
<1> QED BY <1>5, <1>6, <1>7, <1>8, <1>9, <1>10, <1>11 DEF new, R
\* The next line of the entry: the least of the rest.
LEMMA NextLine ==
  ASSUME Writing, Fold
  PROVE  \E n \in Lines :
           /\ n \in Some(rest) /\ last <= n
           /\ n # last => last < n
           /\ rest' \in [Lines -> 0 .. 2]
           /\ Some(rest)' \cup {n} = Some(rest) /\ \A m \in Some(rest)' : n <= m
           /\ IF n = last THEN UNCHANGED <<cont, rec, records>>
              ELSE IF last > 0 /\ n = last + 1 THEN FoldNext(n) ELSE FoldSeparate(n)
           /\ last' = n
<1> DEFINE n == Min(Some(rest))
<1>0. Folding BY DEF Writing, Fold
<1>1. Lines \subseteq Nat BY DEF Lines
<1>2. n \in Some(rest) /\ \A m \in Some(rest) : n <= m
  <2>1. Some(rest) \subseteq Nat /\ Some(rest) # {} BY <1>1 DEF Some, Fold
  <2> QED BY <2>1, MinIs
<1>3. /\ rest' = [rest EXCEPT ![n] = @ - 1] /\ last' = n
      /\ IF n = last THEN UNCHANGED <<cont, rec, records>>
         ELSE IF last > 0 /\ n = last + 1 THEN FoldNext(n) ELSE FoldSeparate(n)
  BY DEF Fold
<1> HIDE DEF n
<1>4. n \in Lines /\ n \in Nat /\ last \in Nat /\ rest \in [Lines -> 0 .. 2]
  BY <1>0, <1>1, <1>2 DEF Some, Folding
<1>5. rest[n] \in 1 .. 2 BY <1>2, <1>4 DEF Some
<1>6. \A m \in Lines : rest'[m] = IF m = n THEN rest[n] - 1 ELSE rest[m] BY <1>3, <1>4
<1>7. rest' \in [Lines -> 0 .. 2] BY <1>3, <1>4, <1>5
<1>8. Some(rest)' \cup {n} = Some(rest) BY <1>2, <1>4, <1>5, <1>6 DEF Some
<1>9. last <= n BY <1>0, <1>2 DEF Folding
<1>10. \A m \in Some(rest)' : n <= m BY <1>2, <1>8
<1>11. n # last => last < n BY <1>4, <1>9
<1> QED BY <1>2, <1>3, <1>4, <1>7, <1>8, <1>9, <1>10, <1>11, Zenon

\* Of a step in the loop only the entry that is folded may change.
LEMMA FoldFrame ==
  ASSUME Writing, pc = "fold", pc' = "fold", fid' = fid, pool' = pool, todo' = todo,
         entry' = entry, put' = put, Folding', Apart',
         \A r \in records' :
           r \in [tag : Tags, file : 1 .. fid, toks : Seq(Tokens)] /\ Folded(r.toks),
         \A t, f : t # entry \/ f # fid => /\ RecordsOf(t, f)' = RecordsOf(t, f)
                                           /\ Held(t, f)' = Held(t, f)
  PROVE  Writing'
<1>1. \A t, f : PutLines(t, f)' = PutLines(t, f) BY DEF PutLines
<1>2. \A t \in Tags : Some(pool[t])' = Some(pool[t]) BY DEF Some
<1>3. entry \notin todo BY DEF Writing, Folding
<1>4. \A t \in Tags : t \in todo => RecordsOf(t, fid)' = {} BY <1>3 DEF Writing
<1>5. ASSUME NEW t \in Tags, NEW f \in 1 .. fid
      PROVE  Held(t, f)' = PutLines(t, f)' \/ (f = fid /\ Unwritten(t)')
  <2>1. CASE t = entry /\ f = fid BY <2>1 DEF Unwritten
  <2>2. CASE t # entry \/ f # fid BY <1>1, <2>2 DEF Unwritten, Writing
  <2> QED BY <2>1, <2>2
<1> QED BY <1>1, <1>2, <1>4, <1>5 DEF Writing

LEMMA WritingFold == Writing /\ Fold => Writing'
<1> SUFFICES ASSUME Writing, Fold PROVE Writing' OBVIOUS
<1>0. Folding BY DEF Writing, Fold
<1>1. /\ pc = "fold" /\ pc' = "fold" /\ fid' = fid /\ pool' = pool /\ todo' = todo
      /\ entry' = entry /\ put' = put
  BY DEF Fold
<1>2. PICK n \in Lines :
           /\ n \in Some(rest) /\ last <= n
           /\ n # last => last < n
           /\ rest' \in [Lines -> 0 .. 2]
           /\ Some(rest)' \cup {n} = Some(rest) /\ \A m \in Some(rest)' : n <= m
           /\ IF n = last THEN UNCHANGED <<cont, rec, records>>
              ELSE IF last > 0 /\ n = last + 1 THEN FoldNext(n) ELSE FoldSeparate(n)
           /\ last' = n
  BY NextLine
<1>3. /\ last \in Nat /\ n \in Nat /\ n > 0 /\ cont \in Nat /\ Lines \subseteq Nat \ {0}
      /\ cont \in {0} \cup Lines
  BY <1>0, CompactTagsAssumption DEF Folding, Lines
<1>4. Some(pool[entry])' = Some(pool[entry]) BY <1>1 DEF Some
<1>5. entry' \in Tags \ todo' BY <1>0, <1>1 DEF Folding
<1>6. CASE records' = records /\ Folding'
  <2>1. /\ \A t, f : /\ RecordsOf(t, f)' = RecordsOf(t, f) /\ Held(t, f)' = Held(t, f)
        /\ Apart'
    BY <1>1, <1>6, SameRecords DEF Writing
  <2>2. \A r \in records' :
           r \in [tag : Tags, file : 1 .. fid, toks : Seq(Tokens)] /\ Folded(r.toks)
    BY <1>6 DEF Writing
  <2> QED BY <1>1, <1>6, <2>1, <2>2, FoldFrame
<1>7. ASSUME records' = records PROVE RecordsOf(entry, fid)' = RecordsOf(entry, fid)
                                      /\ Held(entry, fid)' = Held(entry, fid)
  BY <1>1, <1>7 DEF RecordsOf, Held
<1>8. ASSUME Taken' = Taken \cup {n} PROVE Taken' \cup Some(rest)' = Some(pool[entry])'
  BY <1>0, <1>2, <1>4, <1>8 DEF Folding
\* The line again.
<1>9. CASE n = last
  <2>1. cont' = cont /\ rec' = rec /\ records' = records /\ last' = last BY <1>2, <1>9
  <2>2. Taken' = Taken BY <1>1, <1>7, <2>1 DEF Taken
  <2>3. n \in Taken BY <1>0, <1>3, <1>9 DEF Folding
  <2>4. Taken' = Taken \cup {n} BY <2>2, <2>3
  <2>5. Folding'
    BY <1>0, <1>1, <1>2, <1>5, <1>7, <1>8, <1>9, <2>1, <2>3, <2>4 DEF Folding
  <2> QED BY <1>6, <2>1, <2>5
\* The next line.
<1>10. CASE last > 0 /\ n = last + 1
  <2>0. n # last BY <1>3, <1>10
  <2>1. FoldNext(n) /\ records' = records BY <1>2, <1>10, <2>0 DEF FoldNext
  <2>2. \A r \in RecordsOf(entry, fid) : End(r.toks) <= last BY <1>0 DEF Folding
  <2>3. \A r \in RecordsOf(entry, fid) : End(r.toks) \in Nat
    BY <1>3 DEF RecordsOf, Writing, Folded
  <2>4. \A r \in RecordsOf(entry, fid)' : End(r.toks) < n /\ End(r.toks) <= n
    BY <1>3, <1>7, <1>10, <2>1, <2>2, <2>3
  <2>5. CASE cont = 0 /\ rec = <<>>
    <3>1. rec' = <<RecToken("head", n)>> /\ cont' = 0 BY <2>1, <2>5 DEF FoldNext
    <3>2. Folded(rec') /\ End(rec') = n /\ Covered(rec') = {n} /\ rec'[1].n = n
      BY <3>1, HeadToken
    <3>3. Taken' = Taken \cup {n} BY <1>1, <1>7, <2>1, <2>5, <3>1, <3>2 DEF Taken
    <3>4. Folding'
      BY <1>2, <1>5, <1>8, <2>4, <3>1, <3>2, <3>3 DEF Folding
    <3> QED BY <1>6, <2>1, <3>4
  <2>6. CASE ~ (cont = 0 /\ rec = <<>>)
    <3>1. rec' = rec /\ cont' = (IF cont = 0 THEN last ELSE cont) BY <2>1, <2>6 DEF FoldNext
    <3>2. rec # <<>> /\ Folded(rec) /\ End(rec) = (IF cont > 0 THEN cont ELSE last)
          /\ (cont > 0 => cont < last)
      BY <1>0, <1>3, <2>6 DEF Folding
    <3>3. End(rec) \in Covered(rec) /\ End(rec) = cont' /\ cont' > 0 /\ cont' < n
          /\ cont' \in Lines
      BY <1>3, <1>10, <3>1, <3>2, CoveredBounds DEF Folded
    <3>4. cont = 0 => cont' .. n = {last} \cup {n} BY <1>3, <1>10, <3>1
    <3>5. cont > 0 => cont' .. n = (cont .. last) \cup {n} BY <1>3, <1>10, <3>1, <3>2
    <3>6. Taken' = Taken \cup {n}
      <4>1. Taken' = Held(entry, fid) \cup Covered(rec) \cup (cont' .. n)
        BY <1>1, <1>2, <1>7, <2>1, <3>1, <3>2, <3>3 DEF Taken
      <4>2. CASE cont = 0
        <5>1. Taken = Held(entry, fid) \cup Covered(rec) BY <3>2, <4>2 DEF Taken
        <5>2. last \in Covered(rec) BY <3>2, <3>3, <4>2
        <5> QED BY <3>4, <4>1, <4>2, <5>1, <5>2
      <4>3. CASE cont > 0
        <5>1. Taken = Held(entry, fid) \cup Covered(rec) \cup (cont .. last)
          BY <3>2, <4>3 DEF Taken
        <5> QED BY <3>5, <4>1, <4>3, <5>1
      <4> QED BY <1>3, <4>2, <4>3
    <3>7. \A r \in RecordsOf(entry, fid)' : End(r.toks) < rec'[1].n
      BY <1>0, <1>7, <2>1, <3>1, <3>2 DEF Folding
    <3>8. Folding'
      BY <1>2, <1>5, <1>8, <2>4, <3>1, <3>2, <3>3, <3>6, <3>7 DEF Folding
    <3> QED BY <1>6, <2>1, <3>8
  <2> QED BY <2>5, <2>6
\* A line further on.
<1>11. CASE n # last /\ ~ (last > 0 /\ n = last + 1)
  <2>0. last < n BY <1>2, <1>11
  <2>1. FoldSeparate(n) BY <1>2, <1>11
  <2> DEFINE s == Separate(n)
  <2>2. /\ Folded(s) /\ End(s) = n
        /\ s[1].n = IF rec = <<>> THEN n ELSE rec[1].n
        /\ Covered(s) = {n} \cup (IF rec = <<>> THEN {} ELSE Covered(rec))
                            \cup (IF cont > 0 THEN cont .. last ELSE {})
    BY <1>0, <2>0, SeparateIs
  <2>3. /\ cont' = 0
        /\ \/ Put(s) /\ rec' = <<>>
           \/ rec' = s /\ records' = records
    BY <2>1 DEF FoldSeparate
  <2> HIDE DEF s
  <2>4. \A r \in RecordsOf(entry, fid) : End(r.toks) <= last /\ End(r.toks) \in Nat
    BY <1>0, <1>3 DEF Folding, RecordsOf, Writing, Folded
  <2>5. \A r \in RecordsOf(entry, fid) : End(r.toks) < s[1].n /\ End(r.toks) <= n
    BY <1>0, <1>3, <2>0, <2>2, <2>4 DEF Folding
  <2>6. Taken \cup {n} = Held(entry, fid) \cup Covered(s) BY <2>2 DEF Taken
  <2>7. CASE Put(s) /\ rec' = <<>>
    <3>1. /\ \A r \in records' :
               r \in [tag : Tags, file : 1 .. fid, toks : Seq(Tokens)] /\ Folded(r.toks)
          /\ Apart'
          /\ \A t, f : t # entry \/ f # fid => /\ RecordsOf(t, f)' = RecordsOf(t, f)
                                               /\ Held(t, f)' = Held(t, f)
      BY <1>1, <2>2, <2>5, <2>7, PutIs
    <3>2. RecordsOf(entry, fid)' =
            RecordsOf(entry, fid) \cup {[tag |-> entry, file |-> fid, toks |-> s]}
      BY <1>1, <2>2, <2>5, <2>7, PutIs DEF RecordsOf
    <3>3. Held(entry, fid)' = Held(entry, fid) \cup Covered(s)
      BY <1>1, <2>2, <2>5, <2>7, PutIs DEF RecordsOf, Held
    <3>4. Taken' = Taken \cup {n} BY <2>3, <2>6, <2>7, <3>3 DEF Taken
    <3>5. \A r \in RecordsOf(entry, fid)' : End(r.toks) <= n
      BY <1>3, <2>2, <2>5, <3>2
    <3>6. Folding'
      BY <1>2, <1>3, <1>5, <1>8, <2>3, <2>7, <3>4, <3>5 DEF Folding
    <3> QED BY <1>1, <3>1, <3>6, FoldFrame
  <2>8. CASE rec' = s /\ records' = records
    <3>1. rec' # <<>> BY <2>2, <2>8 DEF Folded
    <3>2. Taken' = Taken \cup {n} BY <1>7, <2>3, <2>6, <2>8, <3>1 DEF Taken
    <3>3. Folding'
      BY <1>2, <1>3, <1>5, <1>7, <1>8, <2>2, <2>3, <2>5, <2>8, <3>1, <3>2 DEF Folding
    <3> QED BY <1>6, <2>8, <3>3
  <2> QED BY <2>3, <2>7, <2>8
<1> QED BY <1>9, <1>10, <1>11
LEMMA WritingEndEntry == Writing /\ EndEntry => Writing'
<1> SUFFICES ASSUME Writing, EndEntry PROVE Writing' OBVIOUS
<1>0. Folding BY DEF Writing, EndEntry
<1>1. /\ pc = "fold" /\ pc' = "flush" /\ fid' = fid /\ pool' = pool /\ todo' = todo
      /\ put' = put /\ Some(rest) = {}
      /\ IF WithRange # <<>> THEN Put(WithRange) ELSE records' = records
  BY DEF EndEntry
<1>2. PutLines(entry, fid) = Taken /\ entry \in Tags \ todo
  BY <1>0, <1>1 DEF Folding, Writing
<1> DEFINE Here == {r \in records' : r.tag = entry /\ r.file = fid}
<1>3. \A t, f : PutLines(t, f)' = PutLines(t, f) BY <1>1 DEF PutLines
<1>4. \A t \in Tags : Some(pool[t])' = Some(pool[t]) BY <1>1 DEF Some
<1>5. /\ \A r \in records' :
           r \in [tag : Tags, file : 1 .. fid, toks : Seq(Tokens)] /\ Folded(r.toks)
      /\ Apart'
      /\ UNION {Covered(r.toks) : r \in Here} = Taken
      /\ \A t, f : t # entry \/ f # fid => /\ RecordsOf(t, f)' = RecordsOf(t, f)
                                           /\ Held(t, f)' = Held(t, f)
  <2>1. CASE rec = <<>>
    <3>1. cont = 0 \/ ~ (cont > 0) BY <1>0, <2>1 DEF Folding
    <3>2. WithRange = <<>> /\ Taken = Held(entry, fid)
      BY <1>0, <2>1, <3>1 DEF WithRange, Taken, Folding
    <3>3. records' = records BY <1>1, <3>2
    <3>4. /\ \A t, f : /\ RecordsOf(t, f)' = RecordsOf(t, f) /\ Held(t, f)' = Held(t, f)
          /\ Apart'
      BY <1>1, <3>3, SameRecords DEF Writing
    <3>5. UNION {Covered(r.toks) : r \in Here} = Held(entry, fid)
      BY <3>3, Zenon DEF Held, RecordsOf
    <3> QED BY <3>2, <3>3, <3>4, <3>5 DEF Writing
  <2>2. CASE rec # <<>>
    <3> DEFINE s == WithRange
    <3>1. /\ Folded(s) /\ End(s) = last /\ s[1].n = rec[1].n
          /\ Covered(s) = Covered(rec) \cup (IF cont > 0 THEN cont .. last ELSE {})
      BY <1>0, <2>2, RangeClosed
    <3>2. s # <<>> BY <3>1 DEF Folded
    <3>3. Put(s) BY <1>1, <3>2
    <3>4. Taken = Held(entry, fid) \cup Covered(s) BY <2>2, <3>1 DEF Taken
    <3> HIDE DEF s
    <3>5. \A r \in RecordsOf(entry, fid) : End(r.toks) < s[1].n
      BY <1>0, <2>2, <3>1 DEF Folding
    <3>6. /\ \A r \in records' :
               r \in [tag : Tags, file : 1 .. fid, toks : Seq(Tokens)] /\ Folded(r.toks)
          /\ Apart'
          /\ \A t, f : t # entry \/ f # fid => /\ RecordsOf(t, f)' = RecordsOf(t, f)
                                               /\ Held(t, f)' = Held(t, f)
      BY <1>1, <3>1, <3>3, <3>5, PutIs
    <3>7. UNION {Covered(r.toks) : r \in Here} = Held(entry, fid) \cup Covered(s)
      BY <1>1, <3>1, <3>3, <3>5, PutIs
    <3> QED BY <3>4, <3>6, <3>7
  <2> QED BY <2>1, <2>2
<1>6. ASSUME NEW t \in Tags, NEW f \in 1 .. fid
      PROVE  Held(t, f)' = PutLines(t, f)' \/ (f = fid /\ Unwritten(t)')
  <2>1. CASE t = entry /\ f = fid
    <3>1. Held(t, f)' = UNION {Covered(r.toks) : r \in Here}
      BY <2>1 DEF Held, RecordsOf
    <3> QED BY <1>2, <1>3, <1>5, <2>1, <3>1
  <2>2. CASE t # entry \/ f # fid
    <3>1. Held(t, f)' = Held(t, f) /\ PutLines(t, f)' = PutLines(t, f) BY <1>3, <1>5, <2>2
    <3>2. CASE f # fid BY <3>1, <3>2 DEF Writing
    <3>3. CASE f = fid /\ t # entry BY <1>1, <3>1, <3>3 DEF Writing, Unwritten
    <3> QED BY <2>2, <3>2, <3>3
  <2> QED BY <2>1, <2>2
<1>7. \A t \in Tags : t \in todo => RecordsOf(t, fid)' = {} BY <1>1, <1>2, <1>5 DEF Writing
<1> QED BY <1>1, <1>3, <1>4, <1>5, <1>6, <1>7 DEF Writing

LEMMA WritingEndFlush == Writing /\ EndFlush => Writing'
<1> SUFFICES ASSUME Writing, EndFlush PROVE Writing' OBVIOUS
<1>1. /\ pc = "flush" /\ todo = {} /\ todo' = {} /\ put' = put /\ records' = records
      /\ pool' = [t \in Tags |-> NoLines]
      /\ \/ fid = NFiles /\ pc' = "read" /\ fid' = fid
         \/ fid # NFiles /\ pc' = "parse" /\ fid' = fid + 1
  BY DEF EndFlush, Writing
<1>2. /\ \A t, f : /\ PutLines(t, f)' = PutLines(t, f)
                   /\ RecordsOf(t, f)' = RecordsOf(t, f)
                   /\ Held(t, f)' = Held(t, f)
      /\ Apart'
  <2>1. \A t, f : PutLines(t, f)' = PutLines(t, f) BY <1>1 DEF PutLines
  <2> QED BY <1>1, SameRecords DEF Writing
<1>3. \A t \in Tags, f \in 1 .. fid : Held(t, f) = PutLines(t, f)
  BY <1>1 DEF Writing, Unwritten
<1>4. pool' \in [Tags -> [Lines -> 0 .. 2]] BY <1>1 DEF NoLines
<1>5. fid \in 1 .. NFiles /\ NFiles \in Nat BY CompactTagsAssumption DEF Writing, Files
<1>6. fid' \in Files /\ 1 .. fid \subseteq 1 .. fid' BY <1>1, <1>5 DEF Files
<1>7. put \subseteq [file : 1 .. fid', tag : Tags, n : Lines] BY <1>6 DEF Writing
<1>8. \A r \in records :
        r \in [tag : Tags, file : 1 .. fid', toks : Seq(Tokens)] /\ Folded(r.toks)
  BY <1>6 DEF Writing
<1>9. CASE fid = NFiles /\ pc' = "read" /\ fid' = fid
  BY <1>1, <1>2, <1>3, <1>4, <1>6, <1>7, <1>8, <1>9 DEF Writing
<1>10. CASE pc' = "parse" /\ fid' = fid + 1
  <2>1. \A t : RecordsOf(t, fid + 1) = {} /\ PutLines(t, fid + 1) = {}
    BY <1>5 DEF Writing, RecordsOf, PutLines
  <2>2. \A t : RecordsOf(t, fid)' = {} /\ PutLines(t, fid)' = {}
    <3>1. \A t : RecordsOf(t, fid') = {} /\ PutLines(t, fid') = {} BY <1>10, <2>1
    <3> QED BY <1>1, <3>1 DEF RecordsOf, PutLines
  <2>3. \A t \in Tags : Some(pool[t])' = {} BY <1>1 DEF Some, NoLines
  <2>4. ASSUME NEW t \in Tags, NEW f \in 1 .. fid'
        PROVE  Held(t, f)' = PutLines(t, f)' \/ (f = fid' /\ Unwritten(t)')
    <3>1. CASE f = fid' BY <1>10, <3>1 DEF Unwritten
    <3>2. CASE f # fid'
      <4>1. f \in 1 .. fid BY <1>5, <1>10, <3>2
      <4> QED BY <1>2, <1>3, <4>1
    <3> QED BY <3>1, <3>2
  <2> QED BY <1>1, <1>2, <1>4, <1>6, <1>7, <1>8, <1>10, <2>2, <2>3, <2>4 DEF Writing
<1> QED BY <1>1, <1>9, <1>10

\* global writes nothing.
LEMMA WritingRead ==
  ASSUME Writing, pc \in {"read", "unfold", "end"}, pc' \in {"read", "unfold", "end"},
         UNCHANGED writer
  PROVE  Writing'
<1>1. /\ fid' = fid /\ pool' = pool /\ todo' = todo /\ put' = put /\ records' = records
      /\ entry' = entry
  BY DEF writer
<1>2. /\ \A t, f : /\ PutLines(t, f)' = PutLines(t, f)
                   /\ RecordsOf(t, f)' = RecordsOf(t, f)
                   /\ Held(t, f)' = Held(t, f)
      /\ Apart'
  BY <1>1, SameRecords DEF Writing
<1>3. \A t : RecordsOf(t, fid)' = RecordsOf(t, fid) BY <1>1, <1>2 DEF RecordsOf
<1>4. pc # "parse" /\ pc # "fold" /\ pc # "flush" /\ pc' # "parse" /\ pc' # "fold" /\ pc' # "flush"
  OBVIOUS
<1>5. todo = {} BY <1>4 DEF Writing
<1>6. \A t \in Tags, f \in 1 .. fid : Held(t, f) = PutLines(t, f)
  BY <1>4, <1>5 DEF Writing, Unwritten
<1> QED BY <1>1, <1>2, <1>4, <1>5, <1>6 DEF Writing

Reading == (\E Q \in SUBSET Tags \ {{}} : gtags_first(Q))
           \/ (\E r \in queue : NextRecord(r)) \/ Unfold \/ EndRecord \/ EndSearch

LEMMA ReadingFrame ==
  ASSUME Reading
  PROVE  /\ pc \in {"read", "unfold"} /\ pc' \in {"read", "unfold", "end"}
         /\ UNCHANGED writer
  BY DEF Reading, gtags_first, NextRecord, Unfold, EndRecord, EndSearch

LEMMA WritingNext == Writing /\ [Next]_vars => Writing'
<1> SUFFICES ASSUME Writing, [Next]_vars PROVE Writing' OBVIOUS
<1>1. ASSUME NEW t \in Tags, NEW n \in Lines, gtags_put_using(t, n) PROVE Writing'
  BY <1>1, WritingPut
<1>2. CASE gtags_flush BY <1>2, WritingFlush
<1>3. ASSUME NEW t \in Tags, NextEntry(t) PROVE Writing' BY <1>3, WritingNextEntry
<1>4. CASE Fold BY <1>4, WritingFold
<1>5. CASE EndEntry BY <1>5, WritingEndEntry
<1>6. CASE EndFlush BY <1>6, WritingEndFlush
<1>7. CASE Reading
  <2>1. pc \in {"read", "unfold", "end"} BY <1>7, ReadingFrame
  <2> QED BY <1>7, <2>1, ReadingFrame, WritingRead
<1>8. CASE UNCHANGED vars
  <2>1. /\ pc' = pc /\ fid' = fid /\ pool' = pool /\ todo' = todo /\ put' = put
        /\ records' = records /\ entry' = entry /\ rest' = rest /\ last' = last
        /\ cont' = cont /\ rec' = rec
    BY <1>8 DEF vars, writer
  <2>2. /\ \A t, f : /\ PutLines(t, f)' = PutLines(t, f)
                     /\ RecordsOf(t, f)' = RecordsOf(t, f)
                     /\ Held(t, f)' = Held(t, f)
        /\ Apart'
    BY <2>1, SameRecords DEF Writing
  <2>3. Folding' <=> Folding
    BY <2>1 DEF Folding, Taken, Held, RecordsOf, Some, WithRange
  <2> QED BY <2>1, <2>2, <2>3 DEF Writing, Unwritten, RecordsOf, Some
<1> QED BY <1>1, <1>2, <1>3, <1>4, <1>5, <1>6, <1>7, <1>8 DEF Next, Reading

THEOREM WritingHolds == Spec => []Writing
<1> QED BY WritingInit, WritingNext, PTL DEF Spec

\* What gtags has put of any tag and line of any file is what global finds in the
\* records, and nothing else, however the lines have been folded (flush_pool,
\* decide_tag_by_context).
THEOREM DecidesHolds == Spec => []Decides
<1>1. Writing => Decides
  <2> SUFFICES ASSUME Writing, pc = "read", NEW t \in Tags, NEW f \in Files, NEW l \in Lines
               PROVE  LET defs == {p \in put : p.tag = t}
                      IN  decide_tag_by_context(t, f, l) =
                            IF [file |-> f, tag |-> t, n |-> l] \in defs THEN "GRTAGS"
                            ELSE IF defs # {} THEN "GTAGS" ELSE "GSYMS"
    BY DEF Decides
  <2> DEFINE defs == {p \in put : p.tag = t}
  <2>1. Files = 1 .. fid /\ todo = {} BY DEF Writing, Files
  <2>2. \A g \in 1 .. fid : Held(t, g) = PutLines(t, g) BY <2>1 DEF Writing, Unwritten
  <2>3. \A r \in records : r.tag \in Tags /\ r.file \in 1 .. fid /\ Folded(r.toks)
    BY DEF Writing
  <2>4. put \subseteq [file : 1 .. fid, tag : Tags, n : Lines] BY DEF Writing
  <2>5. (\E r \in records : r.tag = t /\ r.file = f /\ Mentions(r, l))
          <=> [file |-> f, tag |-> t, n |-> l] \in put
    <3>1. l \in Nat BY DEF Lines
    <3>2. \A r \in records : Mentions(r, l) <=> l \in Covered(r.toks)
      BY <2>3, <3>1, MentionsCovered
    <3>3. l \in Held(t, f) <=> [file |-> f, tag |-> t, n |-> l] \in put
      BY <2>1, <2>2 DEF PutLines
    <3> QED BY <3>2, <3>3 DEF Held, RecordsOf
  <2>6. ASSUME NEW r \in records, r.tag = t PROVE defs # {}
    <3>1. r.toks[1].n \in Covered(r.toks) /\ r.file \in 1 .. fid
      BY <2>3, CoveredBounds
    <3>2. r.toks[1].n \in Held(t, r.file) BY <2>6, <3>1 DEF Held, RecordsOf
    <3>3. [file |-> r.file, tag |-> t, n |-> r.toks[1].n] \in put
      BY <2>2, <3>1, <3>2 DEF PutLines
    <3> QED BY <3>3
  <2>7. ASSUME NEW p \in put, p.tag = t PROVE \E r \in records : r.tag = t
    <3>1. /\ p.file \in 1 .. fid /\ p.n \in Lines
          /\ p = [file |-> p.file, tag |-> t, n |-> p.n]
      BY <2>4, <2>7
    <3>2. p.n \in Held(t, p.file) BY <2>2, <3>1 DEF PutLines
    <3> QED BY <3>2 DEF Held, RecordsOf
  <2>8. (\E r \in records : r.tag = t) <=> defs # {} BY <2>6, <2>7
  <2>9. [file |-> f, tag |-> t, n |-> l] \in defs <=> [file |-> f, tag |-> t, n |-> l] \in put
    OBVIOUS
  <2> QED BY <2>5, <2>8, <2>9, Zenon DEF decide_tag_by_context
<1> QED BY <1>1, WritingHolds, PTL
----------------------------------------------------------------------------
(* What global prints *)

SoughtRecords == {r \in records : r.tag \in wanted}
Done == SoughtRecords \ queue      \* the records that have been begun

Tag(f, t, n) == [file |-> f, tag |-> t, n |-> n]
TagsOf(r) == {Tag(r.file, r.tag, l) : l \in Covered(r.toks)}
Printed == {Tag(x.file, x.tag, x.n) : x \in printed}

\* Record c is being unfolded: it is printed up to n_last, and the source file has
\* been read no further, nor left ahead of what comes.
InRecord(c) ==
  /\ c.tag = curtag /\ c.file = curpath
  /\ Printed = (UNION {TagsOf(r) : r \in Done \ {c}})
               \cup {Tag(c.file, c.tag, l) : l \in {m \in Covered(c.toks) : m <= n_last}}
  /\ n_last = 0 => /\ last_lineno < c.toks[1].n
                   /\ fp # -1 => lineno <= c.toks[1].n
  /\ n_last > 0 => /\ last_lineno = n_last
                   /\ fp # -1 => lineno = n_last

\* k tokens have been taken; in a range the last of them is its end.
AtToken(c, k) ==
  /\ toks = SubSeq(c.toks, k + 1, Len(c.toks))
  /\ n_cont = 0 => n_last = LineReached(c.toks)[k]
  /\ n_cont > 0 => /\ k > 0 /\ c.toks[k].op = "dash" /\ n_cont = LineReached(c.toks)[k]
                   /\ LineReached(c.toks)[k - 1] < n_last /\ n_last <= n_cont

\* Record c is the last that was read.
LeftAt(c) ==
  /\ c.tag = curtag /\ c.file = curpath
  /\ last_lineno = End(c.toks) /\ (fp # -1 => lineno = last_lineno)

Searching ==
  /\ wanted \subseteq Tags /\ queue \subseteq SoughtRecords
  /\ n_last \in Nat /\ n_cont \in Nat /\ lineno \in Nat /\ last_lineno \in Nat
  /\ curpath \in Nat /\ fp \in Lengths \cup {-1}
  /\ pc \in {"parse", "flush", "fold"} => wanted = {} /\ curpath = 0
  /\ IsFiniteSet(Printed) /\ count = Cardinality(Printed)
  /\ \A d \in Done, q \in queue : ~ Before(q, d)
  /\ pc # "unfold" => Printed = UNION {TagsOf(r) : r \in Done}
  /\ pc = "unfold" =>
       \E c \in Done : InRecord(c) /\ \E k \in 0 .. Len(c.toks) : AtToken(c, k)
  /\ pc = "read" /\ curpath # 0 => \E c \in Done : LeftAt(c)
  /\ pc = "end" => queue = {}

LEMMA SearchingInit == Init => Searching
<1> SUFFICES ASSUME Init PROVE Searching OBVIOUS
<1>1. /\ pc = "parse" /\ records = {} /\ queue = {} /\ wanted = {} /\ printed = {}
      /\ count = 0 /\ n_last = 0 /\ n_cont = 0 /\ lineno = 0 /\ last_lineno = 0
      /\ curpath = 0 /\ fp = -1
  BY DEF Init
<1>2. Printed = {} /\ Done = {} /\ SoughtRecords = {} BY <1>1 DEF Printed, Done, SoughtRecords
<1>3. IsFiniteSet(Printed) /\ Cardinality(Printed) = 0 BY <1>2, FS_EmptySet
<1>4. Printed = UNION {TagsOf(r) : r \in Done} BY <1>2
<1> QED BY <1>1, <1>2, <1>3, <1>4 DEF Searching

\* While gtags writes nothing is read.
LEMMA SearchingWrite ==
  ASSUME Searching, pc \in {"parse", "flush", "fold"}, UNCHANGED reader,
         pc' \in {"parse", "flush", "fold", "read"}
  PROVE  Searching'
<1>1. /\ queue' = queue /\ wanted' = wanted /\ printed' = printed /\ count' = count
      /\ n_last' = n_last /\ n_cont' = n_cont /\ lineno' = lineno
      /\ last_lineno' = last_lineno /\ curpath' = curpath /\ fp' = fp
  BY DEF reader, source
<1>2. wanted = {} /\ curpath = 0 BY DEF Searching
<1>3. SoughtRecords = {} /\ SoughtRecords' = {} BY <1>1, <1>2 DEF SoughtRecords
<1>4. Done = {} /\ Done' = {} BY <1>3 DEF Done
<1>5. Printed' = Printed BY <1>1 DEF Printed
<1>6. UNION {TagsOf(r) : r \in Done} = UNION {TagsOf(r) : r \in Done'} BY <1>4
<1>7. Printed' = UNION {TagsOf(r) : r \in Done'} BY <1>5, <1>6 DEF Searching
<1>8. (UNION {TagsOf(r) : r \in Done})' = UNION {TagsOf(r) : r \in Done'} BY DEF TagsOf
<1>9. queue' \subseteq SoughtRecords' BY <1>1, <1>3 DEF Searching
<1> QED BY <1>1, <1>2, <1>4, <1>5, <1>7, <1>8, <1>9 DEF Searching

\* The search begins.
LEMMA SearchingFirst ==
  ASSUME NEW Q \in SUBSET Tags \ {{}}, Searching, gtags_first(Q) PROVE Searching'
<1>1. /\ pc = "read" /\ pc' = pc /\ wanted = {} /\ wanted' = Q /\ records' = records
      /\ queue' = {r \in records : r.tag \in Q} /\ printed' = printed /\ count' = count
      /\ n_last' = n_last /\ n_cont' = n_cont /\ lineno' = lineno
      /\ last_lineno' = last_lineno /\ curpath' = curpath /\ fp' = fp
  BY DEF gtags_first, source, writer
<1>2. SoughtRecords = {} /\ SoughtRecords' = queue' BY <1>1 DEF SoughtRecords
<1>3. Done = {} /\ Done' = {} BY <1>2 DEF Done
<1>4. curpath = 0 BY <1>1, <1>3 DEF Searching
<1>5. Printed' = Printed BY <1>1 DEF Printed
<1>6. UNION {TagsOf(r) : r \in Done} = UNION {TagsOf(r) : r \in Done'} BY <1>3
<1>7. Printed' = UNION {TagsOf(r) : r \in Done'} BY <1>1, <1>5, <1>6 DEF Searching
<1>8. (UNION {TagsOf(r) : r \in Done})' = UNION {TagsOf(r) : r \in Done'} BY DEF TagsOf
<1> QED BY <1>1, <1>2, <1>3, <1>4, <1>5, <1>7, <1>8 DEF Searching

\* The next record: the first of those that are left.
LEMMA SearchingNext ==
  ASSUME NEW r \in queue, Writing, Searching, NextRecord(r) PROVE Searching'
<1>1. /\ pc = "read" /\ pc' = "unfold" /\ queue' = queue \ {r} /\ toks' = r.toks
      /\ n_last' = 0 /\ n_cont' = 0 /\ wanted' = wanted /\ records' = records
      /\ printed' = printed /\ count' = count /\ Reopen(r)
      /\ \A s \in queue : ~ Before(s, r)
  BY DEF NextRecord, writer
<1>2. r \in SoughtRecords /\ r \in records /\ r \notin Done BY DEF Searching, SoughtRecords, Done
<1>3. /\ r.file \in 1 .. fid /\ Folded(r.toks) /\ r.toks[1].n \in Lines
      /\ End(r.toks) \in Covered(r.toks)
      /\ \A l \in Covered(r.toks) : r.toks[1].n <= l
  BY <1>2, CoveredBounds DEF Writing
<1>4. Lines \subseteq Nat \ {0} BY CompactTagsAssumption DEF Lines
<1> DEFINE h == r.toks[1].n
<1>h. h \in Nat /\ h > 0
  <2>1. h \in Lines BY <1>3
  <2> HIDE DEF h
  <2> QED BY <1>4, <2>1
<1>5. SoughtRecords' = SoughtRecords /\ Done' = Done \cup {r} /\ Done' \ {r} = Done
  BY <1>1, <1>2 DEF SoughtRecords, Done
<1>6. Printed' = Printed BY <1>1 DEF Printed
<1>7. curtag' = r.tag /\ curpath' = r.file BY <1>1 DEF Reopen
<1>8. /\ lineno' \in Nat /\ last_lineno' \in Nat /\ fp' \in Lengths \cup {-1}
      /\ curpath' \in Nat
  BY <1>1, <1>3, <1>7 DEF Reopen, Searching
<1>9. /\ last_lineno' < r.toks[1].n
      /\ fp' # -1 => lineno' <= r.toks[1].n
  <2>1. CASE r.file # curpath
    <3>1. last_lineno' = 0 /\ lineno' = 0 BY <1>1, <2>1 DEF Reopen
    <3> HIDE DEF h
    <3>2. 0 < h /\ 0 <= h BY <1>h
    <3> QED BY <3>1, <3>2 DEF h
  <2>2. CASE r.file = curpath
    <3>1. curpath # 0 BY <1>3, <2>2
    <3>2. PICK c \in Done : LeftAt(c) BY <1>1, <3>1 DEF Searching
    <3>3. c \in records /\ c # r /\ ~ Before(r, c)
      BY <1>2, <3>2 DEF Searching, Done, SoughtRecords
    <3>4. /\ c.toks[1].n \in Lines /\ c.toks[1].n <= End(c.toks)
          /\ End(c.toks) \in Lines /\ End(r.toks) \in Lines
          /\ r.toks[1].n <= End(r.toks)
      BY <1>2, <1>3, <3>3, CoveredBounds DEF Writing, Folded
    <3>5. CASE r.tag # curtag
      <4>1. /\ last_lineno' = 0 /\ fp' = fp
            /\ lineno' = IF r.toks[1].n < last_lineno /\ fp # -1 THEN 0 ELSE lineno
        BY <1>1, <2>2, <3>5 DEF Reopen
      <4>2. /\ last_lineno \in Nat /\ lineno \in Nat
            /\ fp # -1 => lineno = last_lineno
        BY <3>2 DEF LeftAt, Searching
      <4>3. lineno' = IF h < last_lineno /\ fp # -1 THEN 0 ELSE lineno BY <4>1
      <4> HIDE DEF h
      <4>4. last_lineno' < h /\ (fp' # -1 => lineno' <= h) BY <1>h, <4>1, <4>2, <4>3
      <4> QED BY <4>4 DEF h
    <3>6. CASE r.tag = curtag
      <4>1. last_lineno' = last_lineno /\ fp' = fp /\ lineno' = lineno
        BY <1>1, <2>2, <3>6 DEF Reopen
      <4>2. c.tag = r.tag /\ c.file = r.file BY <2>2, <3>2, <3>6 DEF LeftAt
      <4>3. ~ (r.toks[1].n < c.toks[1].n) BY <3>3, <4>2, Zenon DEF Before
      <4>4. End(c.toks) < r.toks[1].n \/ End(r.toks) < c.toks[1].n
        BY <1>2, <3>3, <4>2 DEF Writing, Apart
      <4> DEFINE g == c.toks[1].n
                 ec == End(c.toks)
                 er == End(r.toks)
      <4>5. /\ g \in Nat /\ ec \in Nat /\ er \in Nat /\ h <= er /\ ~ (h < g)
            /\ ec < h \/ er < g
        BY <1>3, <1>4, <3>4, <4>3, <4>4
      <4>6. last_lineno = ec /\ (fp # -1 => lineno = last_lineno) BY <3>2 DEF LeftAt
      <4> HIDE DEF g, ec, er, h
      <4>7. ec < h BY <1>h, <4>5
      <4>8. last_lineno' < h /\ (fp' # -1 => lineno' <= h)
        BY <1>h, <4>1, <4>5, <4>6, <4>7
      <4> QED BY <4>8 DEF h
    <3> QED BY <3>5, <3>6
  <2> QED BY <2>1, <2>2
<1>10. InRecord(r)'
  <2>1. {m \in Covered(r.toks) : m <= 0} = {}
    <3> SUFFICES ASSUME NEW m \in Covered(r.toks), m <= 0 PROVE FALSE OBVIOUS
    <3>1. m \in Nat /\ h <= m BY <1>3 DEF Covered
    <3> HIDE DEF h
    <3> QED BY <1>h, <3>1
  <2>2. Printed = UNION {TagsOf(s) : s \in Done} BY <1>1 DEF Searching
  <2>3. Printed' = (UNION {TagsOf(s) : s \in Done' \ {r}})
                   \cup {Tag(r.file, r.tag, l) : l \in {m \in Covered(r.toks) : m <= n_last'}}
    BY <1>1, <1>5, <1>6, <2>1, <2>2
  <2> QED BY <1>1, <1>7, <1>9, <2>3 DEF InRecord
<1>11. 0 \in 0 .. Len(r.toks) /\ AtToken(r, 0)'
  <2>1. r.toks \in Seq(Tokens) /\ Len(r.toks) \in Nat BY <1>3 DEF Folded
  <2>2. SubSeq(r.toks, 0 + 1, Len(r.toks)) = r.toks BY <2>1, SubSeqFull
  <2>3. LineReached(r.toks)[0] = 0 BY <2>1, LineReachedIs
  <2> QED BY <1>1, <2>1, <2>2, <2>3 DEF AtToken
<1>12. \A d \in Done', q \in queue' : ~ Before(q, d)
  BY <1>1, <1>5 DEF Searching
<1> QED BY <1>1, <1>2, <1>5, <1>6, <1>8, <1>10, <1>11, <1>12 DEF Searching, Before
\* Fetch leaves the source file at the line, or at its end.
LEMMA FetchIs ==
  ASSUME NEW c, Folded(c.toks), InRecord(c), NEW n \in Covered(c.toks), n_last < n,
         n_last \in Nat, lineno \in Nat, last_lineno \in Nat, fp \in Lengths \cup {-1},
         PrintTag(n)
  PROVE  /\ n \in Nat /\ n > 0 /\ lineno' \in Nat /\ fp' \in Lengths \cup {-1}
         /\ fp' # -1 => lineno' = n
         /\ \/ /\ fp # -1 /\ n <= fp /\ lineno' = n /\ fp' = fp /\ src' = <<curpath, n>>
            \/ fp # -1 /\ n > fp /\ fp' = -1 /\ src' = NoText
            \/ lineno' = lineno /\ fp' = fp /\ src' = src
<1> DEFINE h == c.toks[1].n
<1>1. /\ n \in Nat /\ h \in Lines /\ h <= n
  BY CoveredBounds DEF Covered
<1>2. h \in Nat /\ h > 0
  <2>1. Lines \subseteq Nat \ {0} BY CompactTagsAssumption DEF Lines
  <2> HIDE DEF h
  <2> QED BY <1>1, <2>1
<1>3. /\ n_last = 0 => last_lineno < h /\ (fp # -1 => lineno <= h)
      /\ n_last > 0 => last_lineno = n_last /\ (fp # -1 => lineno = n_last)
  BY DEF InRecord
<1>4. IF last_lineno # n /\ fp # -1 /\ lineno < n
      THEN IF n <= fp THEN lineno' = n /\ src' = <<curpath, n>> /\ fp' = fp
                      ELSE lineno' = fp /\ src' = NoText /\ fp' = -1
      ELSE lineno' = lineno /\ src' = src /\ fp' = fp
  BY DEF PrintTag, Fetch
<1>5. fp # -1 => fp \in Nat BY CompactTagsAssumption
<1> HIDE DEF h
<1>6. fp # -1 => last_lineno # n /\ (lineno < n \/ lineno = n)
  BY <1>1, <1>2, <1>3
<1>7. CASE fp = -1 BY <1>1, <1>2, <1>4, <1>7
<1>8. CASE fp # -1 /\ lineno = n BY <1>1, <1>2, <1>4, <1>8
<1>9. CASE fp # -1 /\ lineno < n
  <2>1. CASE n <= fp BY <1>1, <1>2, <1>4, <1>6, <1>9, <2>1
  <2>2. CASE ~ (n <= fp)
    <3>1. n > fp BY <1>1, <1>5, <1>9, <2>2
    <3>2. lineno' = fp /\ src' = NoText /\ fp' = -1 BY <1>4, <1>6, <1>9, <2>2
    <3> QED BY <1>1, <1>2, <1>5, <1>9, <3>1, <3>2
  <2> QED BY <2>1, <2>2
<1> QED BY <1>6, <1>7, <1>8, <1>9

\* One line more of the record is printed, which was not before.
LEMMA PrintTagIs ==
  ASSUME NEW c \in Done, Writing, Searching, InRecord(c), NEW n \in Covered(c.toks),
         n_last < n, \A l \in Covered(c.toks) : n_last < l => n <= l, PrintTag(n),
         records' = records, queue' = queue, wanted' = wanted
  PROVE  /\ InRecord(c)' /\ n_last' = n /\ n_last' \in Nat /\ lineno' \in Nat
         /\ last_lineno' \in Nat /\ curpath' \in Nat /\ fp' \in Lengths \cup {-1}
         /\ IsFiniteSet(Printed)' /\ count' = Cardinality(Printed')
         /\ Done' = Done /\ SoughtRecords' = SoughtRecords
<1>1. c \in records /\ Folded(c.toks) BY DEF Done, SoughtRecords, Writing
<1>2. /\ n_last \in Nat /\ lineno \in Nat /\ last_lineno \in Nat /\ curpath \in Nat
      /\ fp \in Lengths \cup {-1} /\ IsFiniteSet(Printed) /\ count = Cardinality(Printed)
  BY DEF Searching
<1>3. /\ n \in Nat /\ n > 0 /\ lineno' \in Nat /\ fp' \in Lengths \cup {-1}
      /\ fp' # -1 => lineno' = n
  BY <1>1, <1>2, FetchIs
<1>4. /\ printed' = printed \cup {[tag |-> curtag, file |-> curpath, n |-> n, src |-> src']}
      /\ count' = count + 1 /\ last_lineno' = n /\ n_last' = n
      /\ curpath' = curpath /\ curtag' = curtag
  BY DEF PrintTag
<1>5. c.tag = curtag /\ c.file = curpath BY DEF InRecord
<1> DEFINE x == [tag |-> curtag, file |-> curpath, n |-> n, src |-> src']
           t == Tag(c.file, c.tag, n)
<1>6. Tag(x.file, x.tag, x.n) = t BY <1>5 DEF Tag
<1>7. Printed' = Printed \cup {t}
  <2> HIDE DEF x, t
  <2>1. printed' = printed \cup {x} BY <1>4 DEF x
  <2>2. Printed' = {Tag(y.file, y.tag, y.n) : y \in printed'} BY DEF Printed, Tag
  <2> QED BY <1>6, <2>1, <2>2 DEF Printed
<1>8. Done' = Done /\ SoughtRecords' = SoughtRecords BY DEF Done, SoughtRecords
<1> DEFINE Others == UNION {TagsOf(r) : r \in Done \ {c}}
           Upto(m) == {Tag(c.file, c.tag, l) : l \in {i \in Covered(c.toks) : i <= m}}
<1>9. Printed = Others \cup Upto(n_last) BY Zenon DEF InRecord
<1>10. t \notin Printed
  <2>1. ASSUME NEW r \in Done \ {c}, t \in TagsOf(r) PROVE FALSE
    <3>1. PICK l \in Covered(r.toks) : t = Tag(r.file, r.tag, l) BY <2>1 DEF TagsOf
    <3>2. l = n /\ r.file = c.file /\ r.tag = c.tag BY <3>1 DEF Tag
    <3>3. r \in records /\ Folded(r.toks) /\ r # c BY DEF Done, SoughtRecords, Writing
    <3>4. End(r.toks) < c.toks[1].n \/ End(c.toks) < r.toks[1].n
      BY <1>1, <3>2, <3>3 DEF Writing, Apart
    <3>5. /\ c.toks[1].n <= n /\ n <= End(c.toks) /\ r.toks[1].n <= n /\ n <= End(r.toks)
      BY <1>1, <3>1, <3>2, <3>3, CoveredBounds
    <3>6. /\ c.toks[1].n \in Nat /\ End(c.toks) \in Nat
          /\ r.toks[1].n \in Nat /\ End(r.toks) \in Nat
      BY <1>1, <3>3, CoveredBounds DEF Covered
    <3> QED BY <1>3, <3>4, <3>5, <3>6
  <2>2. ASSUME NEW l \in Covered(c.toks), l <= n_last, t = Tag(c.file, c.tag, l) PROVE FALSE
    <3>1. l = n BY <2>2 DEF Tag
    <3> QED BY <1>2, <1>3, <2>2, <3>1
  <2> HIDE DEF t
  <2> QED BY <1>9, <2>1, <2>2
<1>11. Upto(n) = Upto(n_last) \cup {t}
  <2>1. \A l \in Covered(c.toks) : l \in Nat BY DEF Covered
  <2>2. {i \in Covered(c.toks) : i <= n} = {i \in Covered(c.toks) : i <= n_last} \cup {n}
    <3> SUFFICES ASSUME NEW l \in Covered(c.toks) PROVE l <= n <=> l <= n_last \/ l = n
      OBVIOUS
    <3>1. l \in Nat /\ (n_last < l => n <= l) BY <2>1
    <3> QED BY <1>2, <1>3, <3>1
  <2> QED BY <2>2
<1>12. Printed' = Others \cup Upto(n)
  <2> HIDE DEF Others, Upto, t
  <2> QED BY <1>7, <1>9, <1>11
<1>13. IsFiniteSet(Printed') /\ count' = Cardinality(Printed')
  <2> HIDE DEF t
  <2> QED BY <1>2, <1>4, <1>7, <1>10, FS_AddElement
<1>14. InRecord(c)'
  <2>1. Printed' = (UNION {TagsOf(r) : r \in Done' \ {c}})
                   \cup {Tag(c.file, c.tag, l) : l \in {m \in Covered(c.toks) : m <= n_last'}}
    BY <1>4, <1>8, <1>12
  <2> QED BY <1>3, <1>4, <1>5, <2>1 DEF InRecord
<1> QED BY <1>2, <1>3, <1>4, <1>8, <1>13, <1>14
\* Between the lines of two tokens a record covers something only in a range.
LEMMA Gap ==
  ASSUME NEW s, Folded(s), NEW k \in 0 .. Len(s) - 1, NEW l \in Covered(s),
         LineReached(s)[k] < l
  PROVE  LineReached(s)[k + 1] <= l \/ s[k + 1].op = "dash"
<1> DEFINE L == LineReached(s)
<1>1. s \in Seq(Tokens) /\ Len(s) \in Nat BY DEF Folded
<1>2. L \in [0 .. Len(s) -> Nat] BY <1>1, LineReachedIs
<1>3. \A j \in 0 .. Len(s) : \A i \in 0 .. j - 1 : L[i] < L[j] BY <1>1, LineReachedGrows
<1>4. PICK i \in 1 .. Len(s) : \/ l = L[i]
                               \/ s[i].op = "dash" /\ L[i - 1] <= l /\ l <= L[i]
  BY DEF Covered
<1>5. l \in Nat BY DEF Covered
<1>6. L[k] < l BY DEF L
<1> HIDE DEF L
<1>7. i \in 0 .. Len(s) /\ i - 1 \in 0 .. Len(s) /\ k \in 0 .. Len(s) /\ k + 1 \in 0 .. Len(s)
  BY <1>1
<1>8. L[i] \in Nat /\ L[i - 1] \in Nat /\ L[k] \in Nat /\ L[k + 1] \in Nat BY <1>2, <1>7
<1>9. l <= L[i] BY <1>4, <1>5, <1>8
<1>10. CASE i <= k
  <2>1. i = k \/ i \in 0 .. k - 1 BY <1>7, <1>10
  <2>2. L[i] <= L[k] BY <1>3, <1>7, <1>8, <2>1
  <2> QED BY <1>5, <1>6, <1>8, <1>9, <2>2
<1>11. CASE i = k + 1 BY <1>4, <1>8, <1>11 DEF L
<1>12. CASE i > k + 1
  <2>1. /\ i - 1 = k + 1 \/ k + 1 \in 0 .. (i - 1) - 1
        /\ k + 1 \in 0 .. i - 1
    BY <1>7, <1>12
  <2>2. L[k + 1] <= L[i - 1] /\ L[k + 1] < L[i] BY <1>3, <1>7, <1>8, <2>1
  <2>3. L[k + 1] <= l BY <1>4, <1>5, <1>8, <2>2
  <2> QED BY <2>3 DEF L
<1> QED BY <1>1, <1>7, <1>10, <1>11, <1>12

\* A step of the loop prints nothing, or the next line of the record.
Progress ==
  \/ UNCHANGED <<source, printed>>
  \/ \E c \in Done : InRecord(c) /\ \E n \in Covered(c.toks) : n_last < n /\ PrintTag(n)

LEMMA SearchingRange ==
  ASSUME Writing, Searching, pc = "unfold", pc' = pc, UnfoldRange,
         UNCHANGED <<writer, queue, wanted>>
  PROVE  Searching' /\ Progress
<1>1. PICK c \in Done : InRecord(c) /\ \E k \in 0 .. Len(c.toks) : AtToken(c, k)
  BY DEF Searching
<1>2. PICK k \in 0 .. Len(c.toks) : AtToken(c, k) BY <1>1
<1>3. /\ records' = records /\ queue' = queue /\ wanted' = wanted /\ toks' = toks
      /\ n_cont > 0 /\ c \in records /\ Folded(c.toks)
      /\ n_last \in Nat /\ n_cont \in Nat
  BY DEF UnfoldRange, writer, Searching, Done, SoughtRecords, Writing
<1>4. /\ k > 0 /\ c.toks[k].op = "dash" /\ n_cont = LineReached(c.toks)[k]
      /\ LineReached(c.toks)[k - 1] < n_last /\ n_last <= n_cont
      /\ toks = SubSeq(c.toks, k + 1, Len(c.toks))
  BY <1>2, <1>3 DEF AtToken
<1>5. c.toks \in Seq(Tokens) /\ Len(c.toks) \in Nat /\ k \in 1 .. Len(c.toks)
  BY <1>3, <1>4 DEF Folded
<1>6. Done' = Done /\ SoughtRecords' = SoughtRecords BY <1>3 DEF Done, SoughtRecords
<1>9. LineReached(c.toks)[k - 1] \in Nat
  <2>1. LineReached(c.toks) \in [0 .. Len(c.toks) -> Nat] BY <1>5, LineReachedIs
  <2>2. k - 1 \in 0 .. Len(c.toks) BY <1>5
  <2> QED BY <2>1, <2>2
<1>7. CASE n_last + 1 > n_cont
  <2>1. /\ n_cont' = 0 /\ printed' = printed /\ count' = count /\ n_last' = n_last
        /\ curpath' = curpath /\ curtag' = curtag /\ fp' = fp /\ lineno' = lineno
        /\ last_lineno' = last_lineno
    BY <1>7 DEF UnfoldRange, source
  <2>2. n_last = n_cont BY <1>3, <1>4, <1>7
  <2>3. AtToken(c, k)' BY <1>3, <1>4, <2>1, <2>2 DEF AtToken
  <2>4. Printed' = Printed BY <2>1 DEF Printed
  <2>5. InRecord(c)' BY <1>1, <1>6, <2>1, <2>4 DEF InRecord, TagsOf
  <2>6. Progress BY <1>7 DEF UnfoldRange, Progress
  <2>7. Searching' BY <1>3, <1>6, <2>1, <2>3, <2>4, <2>5 DEF Searching, Before
  <2> QED BY <2>6, <2>7
<1>8. CASE ~ (n_last + 1 > n_cont)
  <2> DEFINE n == n_last + 1
  <2>1. PrintTag(n) /\ n_cont' = n_cont BY <1>8 DEF UnfoldRange
  <2>2. n <= n_cont /\ n_last < n /\ n \in Nat BY <1>3, <1>8
  <2>3. n \in Covered(c.toks)
    <3>1. LineReached(c.toks)[k - 1] \in Nat BY <1>9
    <3>2. LineReached(c.toks)[k - 1] <= n BY <1>3, <1>4, <2>2, <3>1
    <3> HIDE DEF n
    <3> QED BY <1>4, <1>5, <2>2, <3>2 DEF Covered
  <2>4. \A l \in Covered(c.toks) : n_last < l => n <= l BY <1>3 DEF Covered
  <2> HIDE DEF n
  <2>5. /\ InRecord(c)' /\ n_last' = n /\ n_last' \in Nat /\ lineno' \in Nat
        /\ last_lineno' \in Nat /\ curpath' \in Nat /\ fp' \in Lengths \cup {-1}
        /\ IsFiniteSet(Printed)' /\ count' = Cardinality(Printed')
    BY <1>1, <1>3, <2>1, <2>2, <2>3, <2>4, PrintTagIs
  <2>6. LineReached(c.toks)[k - 1] < n
    <3>1. LineReached(c.toks)[k - 1] \in Nat BY <1>9
    <3> QED BY <1>3, <1>4, <2>2, <3>1
  <2>7. AtToken(c, k)' BY <1>3, <1>4, <2>1, <2>2, <2>5, <2>6 DEF AtToken
  <2>8. Progress BY <1>1, <2>1, <2>2, <2>3 DEF Progress
  <2>9. Searching' BY <1>3, <1>6, <2>1, <2>5, <2>7 DEF Searching, Before
  <2> QED BY <2>8, <2>9
<1> QED BY <1>7, <1>8

LEMMA SearchingToken ==
  ASSUME Writing, Searching, pc = "unfold", pc' = pc, UnfoldToken,
         UNCHANGED <<writer, queue, wanted>>
  PROVE  Searching' /\ Progress
<1>1. PICK c \in Done : InRecord(c) /\ \E k \in 0 .. Len(c.toks) : AtToken(c, k)
  BY DEF Searching
<1>2. PICK k \in 0 .. Len(c.toks) : AtToken(c, k) BY <1>1
<1> DEFINE s == c.toks
           L == LineReached(s)
<1>3. /\ records' = records /\ queue' = queue /\ wanted' = wanted
      /\ n_cont = 0 /\ toks # <<>> /\ c \in records /\ Folded(s) /\ n_last \in Nat
  BY DEF UnfoldToken, writer, Searching, Done, SoughtRecords, Writing
<1>4. toks = SubSeq(s, k + 1, Len(s)) /\ n_last = L[k] BY <1>2, <1>3 DEF AtToken
<1>5. s \in Seq(Tokens) /\ Len(s) \in Nat BY <1>3 DEF Folded
<1> HIDE DEF s
<1>6. k \in 0 .. Len(s) - 1
  <2>1. k \in 0 .. Len(s) BY <1>2 DEF s
  <2>2. k # Len(s) BY <1>3, <1>4, <1>5, SubSeqEmpty
  <2> QED BY <1>5, <2>1, <2>2
<1>7. /\ k + 1 \in 1 .. Len(s) /\ (k + 1) - 1 = k /\ k + 1 \in 0 .. Len(s)
      /\ k \in 0 .. Len(s) /\ k \in Nat
  BY <1>5, <1>6
<1>8. Head(toks) = s[k + 1] /\ Tail(toks) = SubSeq(s, (k + 1) + 1, Len(s))
  BY <1>4, <1>5, <1>7
<1> DEFINE t == s[k + 1]
           n == IF t.op = "head" THEN t.n ELSE IF t.op = "dash" THEN n_last + 1 ELSE n_last + t.n
<1>9. /\ toks' = Tail(toks) /\ PrintTag(n)
      /\ n_cont' = IF t.op = "dash" THEN n_last + t.n ELSE 0
  BY <1>8 DEF UnfoldToken
<1>10. /\ L \in [0 .. Len(s) -> Nat] /\ L[0] = 0 /\ L[k + 1] = L[k] + t.n
       /\ t.n \in Nat \ {0} /\ L[k] \in Nat
  BY <1>5, <1>7, LineReachedIs, TokenIs
<1>11. t.op = "head" => k = 0
  <2>1. k = 0 \/ k + 1 \in 2 .. Len(s) BY <1>5, <1>6
  <2> QED BY <1>3, <2>1 DEF Folded
<1>12. s = c.toks BY DEF s
<1> HIDE DEF t, L
<1>13. /\ n = IF t.op = "dash" THEN L[k] + 1 ELSE L[k + 1]
       /\ n \in Nat /\ n_last < n /\ n <= L[k + 1]
  BY <1>3, <1>4, <1>10, <1>11
<1>14. n \in Covered(s)
  <2> HIDE DEF n
  <2>1. CASE t.op = "dash"
    <3>1. L[k] <= n BY <1>10, <1>13, <2>1
    <3> QED BY <1>7, <1>13, <2>1, <3>1 DEF Covered, L, t
  <2>2. CASE t.op # "dash"
    <3>1. n = L[k + 1] BY <1>13, <2>2
    <3> QED BY <1>7, <1>13, <3>1 DEF Covered, L
  <2> QED BY <2>1, <2>2
<1>15. ASSUME NEW l \in Covered(s), n_last < l PROVE n <= l
  <2> HIDE DEF n
  <2>1. l \in Nat BY DEF Covered
  <2>2. L[k + 1] <= l \/ t.op = "dash" BY <1>3, <1>4, <1>6, <1>15, Gap DEF L, t
  <2> QED BY <1>4, <1>10, <1>13, <1>15, <2>1, <2>2
<1> HIDE DEF n
<1>16. /\ InRecord(c)' /\ n_last' = n /\ n_last' \in Nat /\ lineno' \in Nat
       /\ last_lineno' \in Nat /\ curpath' \in Nat /\ fp' \in Lengths \cup {-1}
       /\ IsFiniteSet(Printed)' /\ count' = Cardinality(Printed')
       /\ Done' = Done /\ SoughtRecords' = SoughtRecords
  BY <1>1, <1>3, <1>9, <1>12, <1>13, <1>14, <1>15, PrintTagIs
<1>17. AtToken(c, k + 1)'
  <2>1. toks' = SubSeq(c.toks, (k + 1) + 1, Len(c.toks)) BY <1>8, <1>9, <1>12
  <2>2. CASE t.op = "dash"
    <3>1. n_cont' = L[k + 1] /\ n_cont' > 0 /\ L[k] < n /\ n <= L[k + 1]
      BY <1>4, <1>9, <1>10, <1>13, <2>2
    <3>2. k + 1 > 0 /\ n_cont' # 0 BY <1>7, <3>1
    <3> QED BY <1>7, <1>12, <1>16, <2>1, <2>2, <3>1, <3>2 DEF AtToken, L, t
  <2>3. CASE t.op # "dash"
    <3>1. n_cont' = 0 /\ n = L[k + 1] /\ ~ (n_cont' > 0) BY <1>9, <1>13, <2>3
    <3> QED BY <1>12, <1>16, <2>1, <3>1 DEF AtToken, L
  <2> QED BY <2>2, <2>3
<1>18. n_cont' \in Nat BY <1>3, <1>9, <1>10
<1>19. k + 1 \in 0 .. Len(c.toks) BY <1>7, <1>12
<1>20. Progress BY <1>1, <1>9, <1>12, <1>13, <1>14 DEF Progress
<1>21. Searching' BY <1>3, <1>16, <1>17, <1>18, <1>19 DEF Searching, Before
<1> QED BY <1>20, <1>21

LEMMA SearchingEndRecord == Writing /\ Searching /\ EndRecord => Searching'
<1> SUFFICES ASSUME Writing, Searching, EndRecord PROVE Searching' OBVIOUS
<1>1. /\ pc = "unfold" /\ pc' = "read" /\ n_cont = 0 /\ toks = <<>>
      /\ records' = records /\ queue' = queue /\ wanted' = wanted /\ printed' = printed
      /\ count' = count /\ n_last' = n_last /\ n_cont' = n_cont /\ lineno' = lineno
      /\ last_lineno' = last_lineno /\ curpath' = curpath /\ curtag' = curtag /\ fp' = fp
  BY DEF EndRecord, writer, reader, source
<1>2. PICK c \in Done : InRecord(c) /\ \E k \in 0 .. Len(c.toks) : AtToken(c, k)
  BY <1>1 DEF Searching
<1>3. PICK k \in 0 .. Len(c.toks) : AtToken(c, k) BY <1>2
<1>4. /\ c \in records /\ Folded(c.toks) /\ c.toks \in Seq(Tokens)
      /\ Len(c.toks) \in Nat
  BY DEF Done, SoughtRecords, Writing, Folded
<1>5. k = Len(c.toks)
  <2> SUFFICES ASSUME k # Len(c.toks) PROVE FALSE OBVIOUS
  <2> DEFINE s == c.toks
  <2>1. SubSeq(s, k + 1, Len(s)) = <<>> BY <1>1, <1>3 DEF AtToken
  <2>2. k \in 0 .. Len(s) /\ k # Len(s) /\ Len(s) \in Nat /\ s \in Seq(Tokens) BY <1>4
  <2> HIDE DEF s
  <2>3. k + 1 <= Len(s) /\ k + 1 \in 1 .. Len(s) BY <2>2
  <2> DEFINE w == SubSeq(s, k + 1, Len(s))
  <2>4. \A i \in k + 1 .. Len(s) : s[i] \in Tokens BY <2>2
  <2>5. w \in Seq(Tokens) /\ Len(w) = Len(s) - (k + 1) + 1
    BY <2>2, <2>3, <2>4, SubSeqProperties
  <2>6. w = <<>> BY <2>1
  <2> HIDE DEF w
  <2>7. Len(w) = 0 BY <2>5, <2>6, EmptySeq
  <2> QED BY <2>2, <2>3, <2>5, <2>7
<1>6. n_last = End(c.toks) BY <1>1, <1>3, <1>5 DEF AtToken, End
<1>7. /\ End(c.toks) \in Covered(c.toks)
      /\ \A l \in Covered(c.toks) : l <= End(c.toks)
      /\ End(c.toks) > 0
  <2>1. End(c.toks) \in Lines BY <1>4 DEF Folded
  <2>2. End(c.toks) > 0 BY <2>1, CompactTagsAssumption DEF Lines
  <2> QED BY <1>4, <2>2, CoveredBounds
<1>8. {m \in Covered(c.toks) : m <= n_last} = Covered(c.toks) BY <1>6, <1>7
<1>9. Printed = (UNION {TagsOf(r) : r \in Done \ {c}}) \cup TagsOf(c)
  BY <1>2, <1>8 DEF InRecord, TagsOf
<1>10. Printed = UNION {TagsOf(r) : r \in Done}
  <2>1. Done = (Done \ {c}) \cup {c} OBVIOUS
  <2> QED BY <1>9, <2>1
<1>11. LeftAt(c)' BY <1>1, <1>2, <1>6, <1>7 DEF LeftAt, InRecord
<1>12. Done' = Done /\ SoughtRecords' = SoughtRecords /\ Printed' = Printed
  BY <1>1 DEF Done, SoughtRecords, Printed
<1>13. Printed' = UNION {TagsOf(r) : r \in Done'} BY <1>10, <1>12
<1> QED BY <1>1, <1>11, <1>12, <1>13 DEF Searching, Before, TagsOf

LEMMA SearchingEnd == Searching /\ EndSearch => Searching'
<1> SUFFICES ASSUME Searching, EndSearch PROVE Searching' OBVIOUS
<1>1. /\ pc = "read" /\ pc' = "end" /\ queue = {}
      /\ records' = records /\ queue' = queue /\ wanted' = wanted /\ printed' = printed
      /\ count' = count /\ n_last' = n_last /\ n_cont' = n_cont /\ lineno' = lineno
      /\ last_lineno' = last_lineno /\ curpath' = curpath /\ curtag' = curtag /\ fp' = fp
  BY DEF EndSearch, writer, reader, source
<1>2. Done' = Done /\ SoughtRecords' = SoughtRecords /\ Printed' = Printed
  BY <1>1 DEF Done, SoughtRecords, Printed
<1>3. Printed' = UNION {TagsOf(r) : r \in Done'} BY <1>1, <1>2 DEF Searching
<1> QED BY <1>1, <1>2, <1>3 DEF Searching, Before, TagsOf
LEMMA SearchingStep == Writing /\ Searching /\ [Next]_vars => Searching'
<1> SUFFICES ASSUME Writing, Searching, [Next]_vars PROVE Searching' OBVIOUS
<1>1. ASSUME NEW t \in Tags, NEW n \in Lines, gtags_put_using(t, n) PROVE Searching'
  <2>1. pc = "parse" /\ pc' = "parse" /\ UNCHANGED reader BY <1>1 DEF gtags_put_using
  <2> QED BY <2>1, SearchingWrite
<1>2. CASE gtags_flush
  <2>1. pc = "parse" /\ pc' = "flush" /\ UNCHANGED reader BY <1>2 DEF gtags_flush
  <2> QED BY <2>1, SearchingWrite
<1>3. ASSUME NEW t \in Tags, NextEntry(t) PROVE Searching'
  <2>1. pc = "flush" /\ pc' = "fold" /\ UNCHANGED reader BY <1>3 DEF NextEntry
  <2> QED BY <2>1, SearchingWrite
<1>4. CASE Fold
  <2>1. pc = "fold" /\ pc' = "fold" /\ UNCHANGED reader BY <1>4 DEF Fold
  <2> QED BY <2>1, SearchingWrite
<1>5. CASE EndEntry
  <2>1. pc = "fold" /\ pc' = "flush" /\ UNCHANGED reader BY <1>5 DEF EndEntry
  <2> QED BY <2>1, SearchingWrite
<1>6. CASE EndFlush
  <2>1. pc = "flush" /\ pc' \in {"read", "parse"} /\ UNCHANGED reader BY <1>6 DEF EndFlush
  <2> QED BY <2>1, SearchingWrite
<1>7. ASSUME NEW Q \in SUBSET Tags \ {{}}, gtags_first(Q) PROVE Searching'
  BY <1>7, SearchingFirst
<1>8. ASSUME NEW r \in queue, NextRecord(r) PROVE Searching' BY <1>8, SearchingNext
<1>9. CASE Unfold
  <2>1. pc = "unfold" /\ pc' = pc /\ UNCHANGED <<writer, queue, wanted>>
        /\ (UnfoldRange \/ UnfoldToken)
    BY <1>9 DEF Unfold
  <2> QED BY <2>1, SearchingRange, SearchingToken
<1>10. CASE EndRecord BY <1>10, SearchingEndRecord
<1>11. CASE EndSearch BY <1>11, SearchingEnd
<1>12. CASE UNCHANGED vars
  <2>1. /\ pc' = pc /\ records' = records /\ queue' = queue /\ wanted' = wanted
        /\ printed' = printed /\ count' = count /\ n_last' = n_last /\ n_cont' = n_cont
        /\ lineno' = lineno /\ last_lineno' = last_lineno /\ curpath' = curpath
        /\ curtag' = curtag /\ fp' = fp /\ toks' = toks
    BY <1>12 DEF vars, writer, reader, source
  <2>2. Done' = Done /\ SoughtRecords' = SoughtRecords /\ Printed' = Printed
    BY <2>1 DEF Done, SoughtRecords, Printed
  <2>3. \A c : InRecord(c)' <=> InRecord(c) BY <2>1, <2>2 DEF InRecord, TagsOf
  <2>4. \A c : LeftAt(c)' <=> LeftAt(c) BY <2>1 DEF LeftAt
  <2>5. \A c, k : AtToken(c, k)' <=> AtToken(c, k) BY <2>1 DEF AtToken
  <2> QED BY <2>1, <2>2, <2>3, <2>4, <2>5 DEF Searching, Before, TagsOf
<1> QED BY <1>1, <1>2, <1>3, <1>4, <1>5, <1>6, <1>7, <1>8, <1>9, <1>10, <1>11, <1>12 DEF Next

THEOREM SearchingHolds == Spec => [](Writing /\ Searching)
<1>1. Init => Writing /\ Searching BY WritingInit, SearchingInit
<1>2. Writing /\ Searching /\ [Next]_vars => Writing' /\ Searching'
  BY WritingNext, SearchingStep
<1> QED BY <1>1, <1>2, PTL DEF Spec

\* A search prints every tag it looks for, once, and no other, whatever ranges and
\* splits its records have (gtags_first, gtags_next, search).
THEOREM PrintedOnceHolds == Spec => []PrintedOnce
<1>1. Writing /\ Searching => PrintedOnce
  <2> SUFFICES ASSUME Writing, Searching, pc = "end"
               PROVE  /\ Printed = {p \in put : p.tag \in wanted}
                      /\ count = Cardinality({p \in put : p.tag \in wanted})
    BY DEF PrintedOnce, Printed, Tag
  <2>1. todo = {} /\ pc # "parse" /\ pc # "fold" BY DEF Writing
  <2>2. \A t \in Tags, f \in 1 .. fid : Held(t, f) = PutLines(t, f)
    BY <2>1 DEF Writing, Unwritten
  <2>3. Printed = UNION {TagsOf(r) : r \in SoughtRecords}
    <3>1. Done = SoughtRecords BY DEF Searching, Done
    <3> QED BY <3>1 DEF Searching
  <2>4. \A r \in records : r.tag \in Tags /\ r.file \in 1 .. fid BY DEF Writing
  <2>5. put \subseteq [file : 1 .. fid, tag : Tags, n : Lines] /\ wanted \subseteq Tags
    BY DEF Writing, Searching
  <2>6. ASSUME NEW x \in Printed PROVE x \in put /\ x.tag \in wanted
    <3>1. PICK r \in SoughtRecords : x \in TagsOf(r) BY <2>3
    <3>2. PICK l \in Covered(r.toks) : x = Tag(r.file, r.tag, l) BY <3>1 DEF TagsOf
    <3>3. r \in records /\ r.tag \in wanted /\ r.tag \in Tags /\ r.file \in 1 .. fid
      BY <2>4 DEF SoughtRecords
    <3>4. l \in Held(r.tag, r.file) BY <3>3 DEF Held, RecordsOf
    <3>5. l \in PutLines(r.tag, r.file) BY <2>2, <3>3, <3>4
    <3> QED BY <3>2, <3>3, <3>5 DEF PutLines, Tag
  <2>7. ASSUME NEW p \in put, p.tag \in wanted PROVE p \in Printed
    <3>1. /\ p.file \in 1 .. fid /\ p.tag \in Tags /\ p.n \in Lines
          /\ p = [file |-> p.file, tag |-> p.tag, n |-> p.n]
      BY <2>5
    <3>2. p.n \in Held(p.tag, p.file) BY <2>2, <3>1 DEF PutLines
    <3>3. PICK r \in RecordsOf(p.tag, p.file) : p.n \in Covered(r.toks)
      BY <3>2 DEF Held
    <3>4. r \in SoughtRecords /\ p \in TagsOf(r)
      BY <2>7, <3>1, <3>3 DEF SoughtRecords, RecordsOf, TagsOf, Tag
    <3> QED BY <2>3, <3>4
  <2>8. Printed = {p \in put : p.tag \in wanted} BY <2>6, <2>7
  <2> QED BY <2>8 DEF Searching
<1> QED BY <1>1, SearchingHolds, PTL
----------------------------------------------------------------------------
(* With which text *)

\* The file has turned out to be too short for a line that was asked for.
Short(f) == \E y \in printed : y.file = f /\ y.n > Min(Lengths)

\* src is the text of the line that the source file is at.
TextsKept ==
  /\ ImagesRight
  /\ curpath # 0 => /\ fp = -1 => src = NoText /\ Short(curpath)
                    /\ fp # -1 /\ lineno > 0 => src = <<curpath, lineno>>

LEMMA TextsSame ==
  ASSUME TextsKept, UNCHANGED <<source, printed>> PROVE TextsKept'
<1>1. /\ printed' = printed /\ curpath' = curpath /\ fp' = fp /\ src' = src
      /\ lineno' = lineno
  BY DEF source
<1> QED BY <1>1 DEF TextsKept, Short, ImagesRight

LEMMA TextsNext ==
  ASSUME Lengths \subseteq Nat, NEW r \in queue, TextsKept, NextRecord(r) PROVE TextsKept'
<1>1. /\ printed' = printed /\ src' = src
      /\ \/ fp' \in Lengths /\ lineno' = 0
         \/ curpath' = curpath /\ fp' = fp /\ (lineno' = 0 \/ lineno' = lineno)
  BY DEF NextRecord, Reopen
<1>2. ImagesRight' BY <1>1 DEF TextsKept, ImagesRight
<1>3. \A f : Short(f)' <=> Short(f) BY <1>1 DEF Short
<1>4. CASE fp' \in Lengths /\ lineno' = 0
  <2>1. fp' # -1 /\ ~ (lineno' > 0) BY <1>4
  <2> QED BY <1>2, <2>1 DEF TextsKept
<1>5. CASE curpath' = curpath /\ fp' = fp /\ (lineno' = 0 \/ lineno' = lineno)
  <2>1. curpath' # 0 => (fp' = -1 => src' = NoText /\ Short(curpath)')
    BY <1>1, <1>3, <1>5 DEF TextsKept
  <2>2. curpath' # 0 => (fp' # -1 /\ lineno' > 0 => src' = <<curpath', lineno'>>)
    BY <1>1, <1>5 DEF TextsKept
  <2> QED BY <1>2, <2>1, <2>2 DEF TextsKept
<1> QED BY <1>1, <1>4, <1>5

LEMMA TextsPrint ==
  ASSUME Lengths \subseteq Nat, Writing, Searching, TextsKept,
         NEW c \in Done, InRecord(c), NEW n \in Covered(c.toks), n_last < n, PrintTag(n)
  PROVE  TextsKept'
<1>1. c \in records /\ Folded(c.toks) BY DEF Done, SoughtRecords, Writing
<1>2. curpath # 0
  <2>1. c.file \in 1 .. fid BY <1>1 DEF Writing
  <2> QED BY <2>1 DEF InRecord
<1>3. /\ n_last \in Nat /\ lineno \in Nat /\ last_lineno \in Nat /\ fp \in Lengths \cup {-1}
  BY DEF Searching
<1>4. /\ n \in Nat /\ n > 0 /\ (fp' # -1 => lineno' = n)
      /\ \/ /\ fp # -1 /\ n <= fp /\ lineno' = n /\ fp' = fp /\ src' = <<curpath, n>>
         \/ fp # -1 /\ n > fp /\ fp' = -1 /\ src' = NoText
         \/ lineno' = lineno /\ fp' = fp /\ src' = src
  BY <1>1, <1>3, FetchIs
<1> DEFINE x == [tag |-> curtag, file |-> curpath, n |-> n, src |-> src']
<1>5. printed' = printed \cup {x} /\ curpath' = curpath BY DEF PrintTag
<1>6. x.file = curpath /\ x.n = n /\ x.src = src' OBVIOUS
<1> HIDE DEF x
<1>7. \A f : Short(f) => Short(f)' BY <1>5 DEF Short
<1>8. /\ fp' = -1 => src' = NoText /\ Short(curpath)'
      /\ fp' # -1 => src' = <<curpath, n>>
  <2>1. CASE fp # -1 /\ n > fp /\ fp' = -1 /\ src' = NoText
    <3>1. Min(Lengths) \in Nat /\ Min(Lengths) <= fp BY <1>3, <2>1, MinIs
    <3>2. n > Min(Lengths) BY <1>3, <1>4, <2>1, <3>1
    <3>3. Short(curpath)' BY <1>5, <1>6, <3>2 DEF Short
    <3> QED BY <2>1, <3>3
  <2>2. CASE lineno' = lineno /\ fp' = fp /\ src' = src
    <3>1. CASE fp = -1
      <4>1. src = NoText /\ Short(curpath) BY <1>2, <3>1 DEF TextsKept
      <4>2. Short(curpath)' BY <1>5, <1>7, <4>1
      <4> QED BY <2>2, <3>1, <4>1, <4>2
    <3>2. CASE fp # -1
      <4>1. lineno = n /\ lineno > 0 BY <1>4, <2>2, <3>2
      <4>2. src = <<curpath, n>> BY <1>2, <3>2, <4>1 DEF TextsKept
      <4> QED BY <2>2, <3>2, <4>2
    <3> QED BY <3>1, <3>2
  <2>3. CASE fp # -1 /\ n <= fp /\ lineno' = n /\ fp' = fp /\ src' = <<curpath, n>>
    BY <2>3
  <2> QED BY <1>4, <2>1, <2>2, <2>3
<1>9. ASSUME NEW z \in printed'
      PROVE  z.src = <<z.file, z.n>> \/ (z.src = NoText /\ Short(z.file)')
  <2>1. CASE z \in printed
    <3>1. z.src = <<z.file, z.n>> \/ (z.src = NoText /\ Short(z.file))
      BY <2>1 DEF TextsKept, ImagesRight, Short
    <3> QED BY <1>7, <3>1
  <2>2. CASE z = x
    <3>1. CASE fp' = -1 BY <1>5, <1>6, <1>8, <2>2, <3>1
    <3>2. CASE fp' # -1 BY <1>6, <1>8, <2>2, <3>2
    <3> QED BY <3>1, <3>2
  <2> QED BY <1>5, <2>1, <2>2
<1>10. ImagesRight' BY <1>9 DEF ImagesRight, Short
<1>11. fp' # -1 => src' = <<curpath', lineno'>> BY <1>4, <1>5, <1>8
<1>12. fp' = -1 => src' = NoText /\ Short(curpath)' BY <1>8
<1> QED BY <1>10, <1>11, <1>12 DEF TextsKept

LEMMA TextsStep ==
  Lengths \subseteq Nat /\ Writing /\ Searching /\ TextsKept /\ [Next]_vars => TextsKept'
<1> SUFFICES ASSUME Lengths \subseteq Nat, Writing, Searching, TextsKept, [Next]_vars
             PROVE  TextsKept'
  OBVIOUS
<1>1. ASSUME NEW r \in queue, NextRecord(r) PROVE TextsKept' BY <1>1, TextsNext
<1>2. CASE Unfold
  <2>1. pc = "unfold" /\ pc' = pc /\ UNCHANGED <<writer, queue, wanted>>
        /\ (UnfoldRange \/ UnfoldToken)
    BY <1>2 DEF Unfold
  <2>2. Progress BY <2>1, SearchingRange, SearchingToken
  <2> QED BY <2>2, TextsSame, TextsPrint DEF Progress
<1>3. ASSUME NEW t \in Tags, NEW n \in Lines, gtags_put_using(t, n) PROVE TextsKept'
  BY <1>3, TextsSame DEF gtags_put_using, reader
<1>4. ASSUME NEW t \in Tags, NextEntry(t) PROVE TextsKept'
  BY <1>4, TextsSame DEF NextEntry, reader
<1>5. ASSUME NEW Q \in SUBSET Tags \ {{}}, gtags_first(Q) PROVE TextsKept'
  BY <1>5, TextsSame DEF gtags_first
<1>6. CASE gtags_flush \/ Fold \/ EndEntry \/ EndFlush \/ EndRecord \/ EndSearch
           \/ UNCHANGED vars
  <2>1. UNCHANGED reader
    BY <1>6 DEF gtags_flush, Fold, EndEntry, EndFlush, EndRecord, EndSearch, vars
  <2> QED BY <2>1, TextsSame DEF reader
<1> QED BY <1>1, <1>2, <1>3, <1>4, <1>5, <1>6 DEF Next

\* When every source file can be opened, whole or cut short, a line is printed with its
\* own text, or with none if its file is too short for what was asked of it; never with
\* the text of another line or file (search, convert_put_using).
THEOREM ImagesRightHolds == ASSUME Lengths \subseteq Nat PROVE Spec => []ImagesRight
<1>1. Init => TextsKept BY DEF Init, TextsKept, ImagesRight
<1>2. Writing /\ Searching /\ TextsKept /\ [Next]_vars => TextsKept' BY TextsStep
<1>3. TextsKept => ImagesRight BY DEF TextsKept
<1> QED BY <1>1, <1>2, <1>3, SearchingHolds, PTL DEF Spec

----------------------------------------------------------------------------
(***************************************************************************)
(* The pages of gtags-cscope, whatever the answers, the rows their lines take*)
(* and the size of the screen.                                             *)
(***************************************************************************)

LEMMA MaxOfTwo ==
  ASSUME NEW a \in Int, NEW b \in Int
  PROVE  Max({a, b}) = IF a >= b THEN a ELSE b
BY DEF Max

LEMMA MinOfTwo ==
  ASSUME NEW a \in Int, NEW b \in Int
  PROVE  Min({a, b}) = IF a <= b THEN a ELSE b
BY DEF Min

----------------------------------------------------------------------------
\* How many references a page has is a number, and one at least if there are any.
LEMMA PageHasLines ==
  ASSUME Found \in Nat, mdisprefs \in Nat \ {0}, NEW from \in Nat
  PROVE  /\ PageFrom(from) \in Nat
         /\ from <= Found => PageFrom(from) \in 1 .. Found + 1 - from
<1> DEFINE rows == Min({mdisprefs, Found + 1 - from})
           S == {0} \cup {n \in 1 .. rows : n = 1 \/ Rows(from, n) <= mdisprefs}
<1>1. rows = IF mdisprefs <= Found + 1 - from THEN mdisprefs ELSE Found + 1 - from
  BY MinOfTwo
<1>2. rows \in Int
  BY <1>1
<1>3. rows <= Found + 1 - from /\ (from <= Found => rows >= 1)
  BY <1>1
<1> HIDE DEF rows
<1>4. S \in SUBSET (0 .. (IF rows >= 0 THEN rows ELSE 0))
  BY <1>2
<1>5. IsFiniteSet(S)
  <2>1. IsFiniteSet(0 .. (IF rows >= 0 THEN rows ELSE 0))
    BY <1>2, FS_Interval
  <2> QED BY <1>4, <2>1, FS_Subset
<1>6. S \subseteq Nat /\ S # {}
  BY <1>2
<1>7. PageFrom(from) = Max(S)
  BY DEF PageFrom, rows
<1>8. from <= Found => 1 \in S
  BY <1>2, <1>3
<1>9. \A n \in S : n = 0 \/ n \in 1 .. rows
  OBVIOUS
<1>10. Max(S) \in S /\ \A j \in S : Max(S) >= j
  BY <1>5, <1>6, MaxIs
<1> HIDE DEF S
<1>11. Max(S) \in Nat
  BY <1>6, <1>10
<1>12. ASSUME from <= Found PROVE Max(S) \in 1 .. Found + 1 - from
  <2>1. Max(S) >= 1
    BY <1>8, <1>10, <1>12
  <2>2. Max(S) <= rows
    BY <1>2, <1>9, <1>10, <1>11, <2>1
  <2> QED BY <1>2, <1>3, <1>11, <2>1, <2>2
<1> QED BY <1>7, <1>11, <1>12

\* Where seekline leaves the file: at the line asked for, if there is one.
Line(n) == Max({1, Min({n, Found + 1})})

LEMMA LineIs ==
  ASSUME Found \in Nat, NEW n \in Int
  PROVE  Line(n) \in 1 .. Found + 1 /\ (n \in 1 .. Found + 1 => Line(n) = n)
<1>1. Min({n, Found + 1}) = IF n <= Found + 1 THEN n ELSE Found + 1
  BY MinOfTwo
<1>2. Min({n, Found + 1}) \in Int
  BY <1>1
<1>3. Max({1, Min({n, Found + 1})}) = IF 1 >= Min({n, Found + 1}) THEN 1 ELSE Min({n, Found + 1})
  BY <1>2, MaxOfTwo, 1 \in Int, Zenon
<1>4. /\ Max({1, Min({n, Found + 1})}) \in 1 .. Found + 1
      /\ n \in 1 .. Found + 1 => Max({1, Min({n, Found + 1})}) = n
  BY <1>1, <1>3
<1> QED BY <1>4 DEF Line

----------------------------------------------------------------------------
Numbers ==
  /\ Found \in Nat /\ totallines \in {0, Found}
  /\ mdisprefs \in Nat \ {0}
  /\ position \in Nat /\ nextline \in Nat /\ topline \in Nat /\ disprefs \in Nat
  /\ change \subseteq Nat
  /\ doing \in {"key", "display", "next page", "resize"}
  /\ totallines = 0 => disprefs = 0

\* Where the file is read next is where the next page is said to begin.
Sought ==
  ~ abandoned /\ totallines # 0 => nextline \in 1 .. Found + 1 /\ position = nextline

\* The page that is on the screen when a key is awaited, and the next one: it begins
\* where this one ends or is this one again.
Shown ==
  doing \in {"key", "next page"} /\ ~ abandoned =>
    /\ screen = [i \in 1 .. disprefs |-> topline + i - 1]
    /\ totallines # 0 => /\ disprefs # 0 /\ topline \in 1 .. totallines
                         /\ nextline \in {topline, topline + disprefs}

CInv == Numbers /\ Sought /\ Shown

----------------------------------------------------------------------------
\* What display leaves: the page from the line that was to be next, or the first
\* page after the last line.
LEMMA DisplayShows ==
  ASSUME CInv, display, totallines # 0
  PROVE  /\ topline' \in Nat /\ nextline' \in Nat /\ position' \in Nat /\ disprefs' \in Nat
         /\ abandoned' = (abandoned /\ nextline <= totallines)
         /\ ~ abandoned' =>
              /\ topline' \in 1 .. totallines /\ disprefs' # 0
              /\ topline' = (IF nextline > totallines THEN 1 ELSE nextline)
              /\ nextline' = topline' + disprefs' /\ nextline' \in 1 .. Found + 1
              /\ position' = nextline'
              /\ screen' = [i \in 1 .. disprefs' |-> topline' + i - 1]
<1>1. /\ totallines = Found /\ Found \in Nat /\ mdisprefs \in Nat \ {0}
      /\ nextline \in Nat /\ position \in Nat
  BY DEF CInv, Numbers
<1>2. abandoned' = (abandoned /\ nextline <= totallines)
  BY DEF display
<1>3. CASE nextline > totallines
  <2>1. ShowPage(1, 1)
    BY <1>3 DEF display
  <2>2. PageFrom(1) \in 1 .. Found + 1 - 1
    BY <1>1, PageHasLines
  <2>3. /\ topline' = 1 /\ disprefs' = PageFrom(1) /\ nextline' = 1 + PageFrom(1)
        /\ position' = 1 + PageFrom(1)
        /\ screen' = [i \in 1 .. PageFrom(1) |-> 1 + i - 1]
    BY <2>1 DEF ShowPage
  <2> QED BY <1>1, <1>2, <1>3, <2>2, <2>3
<1>4. CASE ~ nextline > totallines
  <2>1. ShowPage(nextline, position)
    BY <1>4 DEF display
  <2>2. PageFrom(position) \in Nat
    BY <1>1, PageHasLines
  <2>3. /\ topline' = nextline /\ disprefs' = PageFrom(position)
        /\ nextline' = nextline + PageFrom(position)
        /\ position' \in {nextline + PageFrom(position), position + PageFrom(position)}
        /\ screen' = [i \in 1 .. PageFrom(position) |-> position + i - 1]
    BY <2>1 DEF ShowPage
  <2>4. topline' \in Nat /\ nextline' \in Nat /\ position' \in Nat /\ disprefs' \in Nat
    BY <1>1, <2>2, <2>3
  <2>5. ASSUME ~ abandoned
        PROVE  /\ nextline \in 1 .. Found /\ position = nextline
               /\ PageFrom(position) \in 1 .. Found + 1 - position
    <3>1. nextline \in 1 .. Found + 1 /\ position = nextline
      BY <2>5 DEF CInv, Sought
    <3>2. nextline \in 1 .. Found /\ position <= Found
      BY <1>1, <1>4, <3>1
    <3> QED BY <1>1, <3>1, <3>2, PageHasLines
  <2>6. abandoned' <=> abandoned
    <3>1. nextline <= totallines
      BY <1>1, <1>4
    <3> QED BY <1>2, <3>1, Zenon
  <2> QED BY <1>1, <1>2, <1>4, <2>3, <2>4, <2>5, <2>6
<1> QED BY <1>3, <1>4

LEMMA DisplayKeeps == ASSUME CInv, display PROVE CInv'
<1>1. /\ doing' \in {"key", "display"} /\ totallines' = totallines
      /\ UNCHANGED <<refsfound, mdisprefs, change>>
  BY DEF display, paging, marks
<1>2. Found' = Found
  BY <1>1 DEF Found
<1>3. CASE totallines = 0
  <2>1. screen' = <<>> /\ UNCHANGED <<nextline, topline, disprefs, position>>
    BY <1>3 DEF display, paging
  <2>2. disprefs' = 0
    BY <1>3, <2>1 DEF CInv, Numbers
  <2>3. screen' = [i \in 1 .. disprefs' |-> topline' + i - 1]
    BY <2>1, <2>2
  <2> QED BY <1>1, <1>2, <1>3, <2>1, <2>2, <2>3 DEF CInv, Numbers, Sought, Shown
<1>4. CASE totallines # 0
  <2>1. Numbers'
    BY <1>1, <1>2, <1>4, DisplayShows DEF CInv, Numbers
  <2>2. Sought'
    BY <1>1, <1>2, <1>4, DisplayShows DEF Sought
  <2>3. Shown'
    BY <1>1, <1>4, DisplayShows DEF Shown
  <2> QED BY <2>1, <2>2, <2>3 DEF CInv
<1> QED BY <1>3, <1>4

\* Other references: the file is at its first line.
LEMMA NewRefsKeeps ==
  ASSUME CInv, NEW answer \in Answers, NewRefs(answer), Redisplay,
         change' \subseteq Nat, topline' \in Nat
  PROVE  CInv'
<1>1. answer.heights \in Seq(Nat \ {0})
  BY CscopeAssumption
<1>2. Found' = Len(answer.heights) /\ Found' \in Nat
  BY <1>1 DEF NewRefs, Found
<1>3. /\ totallines' = (IF answer.bad THEN 0 ELSE Found') /\ nextline' = 1
      /\ position' = (IF answer.bad THEN Found' + 1 ELSE 1)
      /\ disprefs' = 0 /\ mdisprefs' = mdisprefs /\ doing' = "display"
  BY <1>2 DEF NewRefs, Redisplay
<1>4. Numbers'
  <2>1. totallines' \in {0, Found'}
    BY <1>3, Zenon
  <2>2. position' \in Nat
    <3>1. Found' + 1 \in Nat /\ 1 \in Nat
      BY <1>2
    <3> QED BY <1>3, <3>1, Zenon
  <2>3. nextline' \in Nat /\ disprefs' \in Nat /\ disprefs' = 0 /\ mdisprefs' \in Nat \ {0}
    BY <1>3 DEF CInv, Numbers
  <2>4. doing' \in {"key", "display", "next page", "resize"}
    BY <1>3
  <2> QED BY <1>2, <2>1, <2>2, <2>3, <2>4 DEF Numbers
<1>5. Sought'
  BY <1>2, <1>3 DEF Sought
<1> QED BY <1>3, <1>4, <1>5 DEF CInv, Shown

\* A step that seeks a line: to be shown, or the first line of the screen again.
LEMMA SeekKeeps ==
  ASSUME CInv, NEW n \in Int, nextline' = Line(n), position' = Line(n),
         abandoned' <=> (abandoned /\ doing' = "key"),
         \/ doing' = "display"
         \/ doing = "key" /\ doing' = "key" /\ n = topline,
         UNCHANGED <<refsfound, totallines, topline, disprefs, mdisprefs, screen>>,
         change' \subseteq Nat
  PROVE  CInv'
<1>1. Found \in Nat /\ Found' = Found /\ totallines \in {0, Found}
  BY DEF CInv, Numbers, Found
<1>2. /\ nextline' \in 1 .. Found + 1 /\ position' = nextline'
      /\ n \in 1 .. Found + 1 => nextline' = n
      /\ abandoned' <=> (abandoned /\ doing' = "key")
  BY <1>1, LineIs
<1>3. Numbers'
  <2>1. doing' \in {"key", "display", "next page", "resize"}
    OBVIOUS
  <2>2. nextline' \in Nat /\ position' \in Nat
    BY <1>1, <1>2
  <2> QED BY <1>1, <2>1, <2>2 DEF CInv, Numbers
<1>4. Sought'
  BY <1>1, <1>2 DEF Sought
<1>5. ASSUME doing = "key", doing' = "key", n = topline, ~ abandoned' PROVE Shown'
  <2>1. /\ screen = [i \in 1 .. disprefs |-> topline + i - 1]
        /\ totallines # 0 => disprefs # 0 /\ topline \in 1 .. totallines
    BY <1>2, <1>5 DEF CInv, Shown
  <2>2. totallines # 0 => n \in 1 .. Found + 1
    BY <1>1, <1>5, <2>1
  <2>3. totallines # 0 => nextline' = topline
    BY <1>2, <1>5, <2>2
  <2> QED BY <2>1, <2>3 DEF Shown
<1>6. doing' = "display" => Shown'
  BY DEF Shown
<1>7. Shown'
  BY <1>5, <1>6 DEF Shown
<1> QED BY <1>3, <1>4, <1>7 DEF CInv

\* A step that leaves the file and the screen, or the file at another place as a change does.
LEMMA SameKeeps ==
  ASSUME CInv,
         UNCHANGED <<refsfound, totallines, topline, disprefs, mdisprefs, screen>>,
         \/ nextline' = nextline /\ position' = position /\ abandoned' = abandoned
         \/ nextline' \in Nat /\ position' \in Nat /\ abandoned',
         \/ doing' \in {"display", "resize"}
         \/ doing = "key" /\ doing' \in {"key", "next page"},
         change' \subseteq Nat
  PROVE  CInv'
<1>1. Found' = Found
  BY DEF Found
<1> QED BY <1>1 DEF CInv, Numbers, Sought, Shown

----------------------------------------------------------------------------
(* The actions                                                             *)

LEMMA Integral ==
  ASSUME CInv
  PROVE  /\ topline \in Nat /\ Found \in Nat /\ change \subseteq Nat
         /\ topline \in Int /\ totallines \in Int /\ mdisprefs \in Int
         /\ nextline \in Int /\ Found \in Int
         /\ topline .. nextline - 1 \subseteq Nat /\ 1 .. totallines \subseteq Nat
<1>1. /\ topline \in Nat /\ nextline \in Nat /\ mdisprefs \in Nat /\ Found \in Nat
      /\ totallines = 0 \/ totallines = Found
      /\ change \subseteq Nat
  BY Zenon DEF CInv, Numbers
<1> QED BY <1>1

LEMMA SearchKeeps == ASSUME CInv, Search PROVE CInv'
<1>1. PICK answer \in Answers : NewRefs(answer) /\ topline' \in {1, topline}
  BY DEF Search
<1>2. Redisplay /\ change' = {}
  BY DEF Search
<1>3. topline' \in Nat
  BY <1>1, Integral
<1> QED BY <1>1, <1>2, <1>3, NewRefsKeeps

LEMMA ReadRefsKeeps == ASSUME CInv, ReadRefs PROVE CInv'
<1>1. doing = "key" /\ topline' = topline /\ change' = change
  BY DEF ReadRefs, Command, marks
<1>2. topline' \in Nat /\ topline \in Int /\ change' \subseteq Nat
  BY <1>1, Integral
<1>3. PICK answer \in Answers, from \in {"<", "^", "global"} :
        IF answer.heights = <<>>
        THEN /\ IF from = "^" THEN Redisplay /\ seekline(topline)
                ELSE NextKey /\ UNCHANGED <<nextline, position, abandoned>>
             /\ UNCHANGED <<refsfound, totallines, disprefs, curdispline, mdisprefs, mouse, screen>>
        ELSE /\ NewRefs(answer) /\ Redisplay
             /\ curdispline' = IF from = "global" THEN 0 ELSE curdispline
  BY DEF ReadRefs
<1>4. CASE NewRefs(answer) /\ Redisplay
  BY <1>2, <1>4, NewRefsKeeps
<1>5. CASE /\ Redisplay /\ seekline(topline)
           /\ UNCHANGED <<refsfound, totallines, disprefs, mdisprefs, screen>>
  <2>1. /\ nextline' = Line(topline) /\ position' = Line(topline)
        /\ abandoned' <=> (abandoned /\ doing' = "key")
    BY <1>5 DEF seekline, Line
  <2> QED BY <1>1, <1>2, <1>5, <2>1, SeekKeeps DEF Redisplay
<1>6. CASE /\ NextKey /\ UNCHANGED <<nextline, position, abandoned>>
           /\ UNCHANGED <<refsfound, totallines, disprefs, mdisprefs, screen>>
  BY <1>1, <1>2, <1>6, SameKeeps DEF NextKey
<1> QED BY <1>3, <1>4, <1>5, <1>6

LEMMA RebuildKeeps == ASSUME CInv, Rebuild PROVE CInv'
<1>1. /\ totallines' = 0 /\ disprefs' = 0 /\ topline' = 1 /\ nextline' = 1
      /\ doing' = "display" /\ position' = position
      /\ UNCHANGED <<refsfound, mdisprefs, change>>
  BY DEF Rebuild, Redisplay, KeepsRefs
<1>2. Found' = Found
  BY <1>1 DEF Found
<1> QED BY <1>1, <1>2 DEF CInv, Numbers, Sought, Shown

LEMMA ChooseKeeps == ASSUME CInv, Choose PROVE CInv'
<1>1. /\ seekline(topline) /\ doing' = "display"
      /\ UNCHANGED <<refsfound, totallines, topline, disprefs, mdisprefs, screen, change>>
  BY DEF Choose, editref, Redisplay, KeepsRefs
<1>2. topline \in Int /\ change' \subseteq Nat
  BY <1>1, Integral
<1>3. /\ nextline' = Line(topline) /\ position' = Line(topline)
      /\ abandoned' <=> (abandoned /\ doing' = "key")
  BY <1>1 DEF seekline, Line
<1> QED BY <1>1, <1>2, <1>3, SeekKeeps

LEMMA GoThroughKeeps == ASSUME CInv, GoThrough PROVE CInv'
<1>1. /\ seekline(topline) /\ doing = "key" /\ doing' \in {"key", "display"}
      /\ UNCHANGED <<refsfound, totallines, topline, disprefs, mdisprefs, screen, change>>
  BY DEF GoThrough, NextKey, Redisplay, KeepsRefs
<1>2. topline \in Int /\ change' \subseteq Nat
  BY <1>1, Integral
<1>3. /\ nextline' = Line(topline) /\ position' = Line(topline)
      /\ abandoned' <=> (abandoned /\ doing' = "key")
  BY <1>1 DEF seekline, Line
<1> QED BY <1>1, <1>2, <1>3, SeekKeeps

LEMMA MoveCursorKeeps == ASSUME CInv, MoveCursor PROVE CInv'
<1>1. /\ doing = "key" /\ doing' = "key" /\ position' = position /\ abandoned' = abandoned
      /\ UNCHANGED <<refsfound, totallines, nextline, topline, disprefs, mdisprefs, screen, change>>
  BY DEF MoveCursor, Command, NextKey, KeepsRefs, paging
<1>2. change' \subseteq Nat
  BY <1>1 DEF CInv, Numbers
<1> QED BY <1>1, <1>2, SameKeeps

LEMMA NextPageKeeps == ASSUME CInv, NextPage PROVE CInv'
<1>1. /\ doing = "key" /\ doing' = "next page" /\ position' = position /\ abandoned' = abandoned
      /\ UNCHANGED <<refsfound, totallines, nextline, topline, disprefs, mdisprefs, screen, change>>
  BY DEF NextPage, KeepsRefs, paging
<1>2. change' \subseteq Nat
  BY <1>1 DEF CInv, Numbers
<1> QED BY <1>1, <1>2, SameKeeps

LEMMA ResizeKeeps == ASSUME CInv, Resize PROVE CInv'
<1>1. /\ doing' = "resize" /\ position' = position /\ abandoned' = abandoned
      /\ mdisprefs' \in Screens
      /\ UNCHANGED <<refsfound, totallines, nextline, topline, disprefs, screen, change>>
  BY DEF Resize, paging
<1>2. mdisprefs' \in Nat \ {0}
  BY <1>1, CscopeAssumption
<1>3. Found' = Found
  BY <1>1 DEF Found
<1> QED BY <1>1, <1>2, <1>3 DEF CInv, Numbers, Sought, Shown

LEMMA PreviousPageKeeps == ASSUME CInv, PreviousPage PROVE CInv'
<1>1. /\ doing' = "display"
      /\ UNCHANGED <<refsfound, totallines, topline, disprefs, mdisprefs, screen, change>>
      /\ \/ seekline(PreviousLine)
         \/ UNCHANGED <<nextline, position, abandoned>>
  BY DEF PreviousPage, Redisplay, KeepsRefs
<1>2. change' \subseteq Nat
  BY <1>1 DEF CInv, Numbers
<1>3. PreviousLine \in Int
  BY Integral DEF PreviousLine
<1>4. CASE seekline(PreviousLine)
  <2>1. /\ nextline' = Line(PreviousLine) /\ position' = Line(PreviousLine)
        /\ abandoned' <=> (abandoned /\ doing' = "key")
    BY <1>4 DEF seekline, Line
  <2> QED BY <1>1, <1>2, <1>3, <2>1, SeekKeeps
<1>5. CASE UNCHANGED <<nextline, position, abandoned>>
  BY <1>1, <1>2, <1>5, SameKeeps
<1> QED BY <1>1, <1>4, <1>5

LEMMA ScrollbarKeeps == ASSUME CInv, scrollbar PROVE CInv'
<1>1. /\ doing' = "display"
      /\ UNCHANGED <<refsfound, totallines, topline, disprefs, mdisprefs, screen, change>>
      /\ \/ \E n \in ScrollLines : seekline(n)
         \/ UNCHANGED <<nextline, position, abandoned>>
  BY DEF scrollbar, Redisplay, KeepsRefs
<1>2. change' \subseteq Nat
  BY <1>1 DEF CInv, Numbers
<1>3. ASSUME NEW n \in ScrollLines PROVE n \in Int
  <2>1. /\ totallines \in Int /\ mdisprefs \in Int /\ nextline \in Int
        /\ topline \in Int /\ Found \in Int
    BY Integral
  <2>2. ASSUME NEW percent \in 0 .. 100 PROVE (percent * totallines) \div 100 \in Int
    <3>1. percent * totallines \in Int
      BY <2>1
    <3> QED BY <3>1
  <2> QED BY <2>1, <2>2 DEF ScrollLines
<1>4. ASSUME NEW n \in ScrollLines, seekline(n) PROVE CInv'
  <2>1. /\ nextline' = Line(n) /\ position' = Line(n)
        /\ abandoned' <=> (abandoned /\ doing' = "key")
    BY <1>4 DEF seekline, Line
  <2> QED BY <1>1, <1>2, <1>3, <2>1, SeekKeeps
<1>5. CASE UNCHANGED <<nextline, position, abandoned>>
  BY <1>1, <1>2, <1>5, SameKeeps
<1> QED BY <1>1, <1>4, <1>5

LEMMA Toggled ==
  ASSUME CInv, NEW S, S \subseteq Nat
  PROVE  Toggle(S) \subseteq Nat
BY DEF CInv, Numbers, Toggle

LEMMA MarkKeeps == ASSUME CInv, mark PROVE CInv'
<1>1. /\ doing = "key" /\ doing' = "key" /\ position' = position /\ abandoned' = abandoned
      /\ UNCHANGED <<refsfound, totallines, nextline, topline, disprefs, mdisprefs, screen>>
  BY DEF mark, InChange, NextKey, paging
<1>2. change' \subseteq Nat
  <2>1. topline .. nextline - 1 \subseteq Nat /\ 1 .. totallines \subseteq Nat
    BY Integral
  <2>2. \A i : {topline + i} \cap 1 .. totallines \subseteq Nat
    BY <2>1
  <2> QED BY <2>1, <2>2, Toggled DEF mark
<1> QED BY <1>1, <1>2, SameKeeps

LEMMA MarkAllKeeps == ASSUME CInv, MarkAll PROVE CInv'
<1>1. /\ seekline(totallines) /\ doing' = "display"
      /\ UNCHANGED <<refsfound, totallines, topline, disprefs, mdisprefs, screen>>
  BY DEF MarkAll, Redisplay
<1>2. totallines \in Int /\ 1 .. totallines \subseteq Nat
  BY Integral
<1>3. change' \subseteq Nat
  BY <1>2, Toggled DEF MarkAll
<1>4. /\ nextline' = Line(totallines) /\ position' = Line(totallines)
      /\ abandoned' <=> (abandoned /\ doing' = "key")
  BY <1>1 DEF seekline, Line
<1> QED BY <1>1, <1>2, <1>3, <1>4, SeekKeeps

LEMMA LeaveChangeKeeps == ASSUME CInv, LeaveChange PROVE CInv'
<1>1. /\ doing = "key" /\ change' \subseteq Nat
      /\ UNCHANGED <<refsfound, totallines, topline, disprefs, mdisprefs, screen>>
  BY DEF LeaveChange, InChange
<1>2. CASE NextKey /\ UNCHANGED <<nextline, position, abandoned>>
  BY <1>1, <1>2, SameKeeps DEF NextKey
<1>3. CASE Redisplay /\ seekline(1)
  <2>1. /\ nextline' = Line(1) /\ position' = Line(1)
        /\ abandoned' <=> (abandoned /\ doing' = "key")
    BY <1>3 DEF seekline, Line
  <2> QED BY <1>1, <1>3, <2>1, SeekKeeps DEF Redisplay
<1>4. CASE /\ nextline' = 1
           /\ position' \in IF change = {} THEN {Found + 1} ELSE {n + 1 : n \in change}
           /\ abandoned' = TRUE
           /\ NextKey
  <2>1. change \subseteq Nat /\ Found \in Nat
    BY DEF CInv, Numbers
  <2>2. nextline' \in Nat /\ position' \in Nat
    BY <1>4, <2>1
  <2> QED BY <1>1, <1>4, <2>2, SameKeeps DEF NextKey
<1> QED BY <1>2, <1>3, <1>4 DEF LeaveChange

LEMMA CscopeStep == CInv /\ [CscopeNext]_cscopeVars => CInv'
<1> SUFFICES ASSUME CInv, [CscopeNext]_cscopeVars PROVE CInv'
  OBVIOUS
<1>1. CASE UNCHANGED cscopeVars
  BY <1>1 DEF cscopeVars, paging, marks, CInv, Numbers, Sought, Shown, Found
<1> QED BY <1>1, DisplayKeeps, SearchKeeps, ReadRefsKeeps, RebuildKeeps, ChooseKeeps,
           MoveCursorKeeps, GoThroughKeeps, NextPageKeeps, PreviousPageKeeps, ScrollbarKeeps,
           ResizeKeeps, MarkKeeps, MarkAllKeeps, LeaveChangeKeeps DEF CscopeNext

LEMMA CscopeBegins == CscopeInit => CInv
<1> SUFFICES ASSUME CscopeInit PROVE CInv
  OBVIOUS
<1>1. /\ refsfound = [heights |-> <<>>, bad |-> FALSE] /\ position = 1 /\ totallines = 0
      /\ nextline = 0 /\ topline = 1 /\ disprefs = 0 /\ mdisprefs = Max(Screens)
      /\ change = {} /\ screen = <<>> /\ doing = "key"
  BY DEF CscopeInit, CscopeInitOf
<1>2. Found = 0
  BY <1>1 DEF Found
<1>3. mdisprefs \in Nat \ {0}
  <2>1. IsFiniteSet(Screens) /\ Screens # {} /\ Screens \subseteq Nat
    BY CscopeAssumption
  <2>2. Max(Screens) \in Screens
    BY <2>1, MaxIs
  <2> QED BY <1>1, <2>2, CscopeAssumption
<1>4. screen = [i \in 1 .. disprefs |-> topline + i - 1]
  BY <1>1
<1> QED BY <1>1, <1>2, <1>3, <1>4 DEF CInv, Numbers, Sought, Shown

\* The screen has the references from topline on, at least one if there are any: the
\* line that is chosen by its letter is the one that is edited or changed (display,
\* editref, mark, seekline).
THEOREM PageRightHolds == CscopeSpec => []PageRight
<1>1. CInv => PageRight
  BY DEF CInv, Shown, PageRight
<1> QED BY <1>1, CscopeBegins, CscopeStep, PTL DEF CscopeSpec

\* The next page goes on where this one ends, is this one again, or is the first after
\* the last: no reference is passed over (display, command).
THEOREM NoneSkippedHolds == CscopeSpec => NoneSkipped
<1> DEFINE GoesOn == screen'[1] \in {topline, topline + disprefs}
                       \cup (IF topline + disprefs > totallines THEN {1} ELSE {})
<1>1. ASSUME CInv, CscopeNext, doing = "next page", totallines # 0, ~ abandoned
      PROVE  GoesOn
  <2>1. display
    BY <1>1 DEF CscopeNext, Search, ReadRefs, Rebuild, Choose, MoveCursor, GoThrough, NextPage,
                PreviousPage, scrollbar, Resize, mark, MarkAll, LeaveChange, Command, InChange
  <2>2. /\ ~ abandoned' /\ topline' \in Nat /\ disprefs' \in Nat /\ disprefs' # 0
        /\ topline' = (IF nextline > totallines THEN 1 ELSE nextline)
        /\ screen' = [i \in 1 .. disprefs' |-> topline' + i - 1]
    <3>1. ~ abandoned'
      BY <1>1, <2>1 DEF display
    <3> QED BY <1>1, <2>1, <3>1, DisplayShows
  <2>3. screen'[1] = topline'
    <3>1. 1 \in 1 .. disprefs' /\ topline' + 1 - 1 = topline'
      BY <2>2
    <3> QED BY <2>2, <3>1
  <2>4. nextline \in {topline, topline + disprefs}
    BY <1>1 DEF CInv, Shown
  <2>5. nextline > totallines => topline + disprefs > totallines
    <3>1. disprefs \in Nat
      BY <1>1, Zenon DEF CInv, Numbers
    <3>2. topline \in Nat /\ totallines \in Int
      BY <1>1, Integral
    <3> QED BY <2>4, <3>1, <3>2
  <2> QED BY <2>2, <2>3, <2>4, <2>5
<1>2. CInv /\ [CscopeNext]_cscopeVars =>
        [doing = "next page" /\ totallines # 0 /\ ~ abandoned => GoesOn]_cscopeVars
  BY <1>1
<1> QED BY <1>2, CscopeBegins, CscopeStep, PTL DEF CscopeSpec, NoneSkipped

----------------------------------------------------------------------------
(***************************************************************************)
(* The text of tag records, for every tag, image and table of abbreviations.*)
(***************************************************************************)

DigitSet == ToSet(Digits)

\* Characters are strings; the provers do not know of a literal that it is one.
Chars == STRING \cup DigitSet \cup {" ", "@", "n", "{", "}", "#"}
Texts == Seq(Chars)

----------------------------------------------------------------------------
(* A text in pieces.                                                       *)

Jump(pieces, n) == IF pieces[n].length < n THEN n - pieces[n].length ELSE 0

Pieces(final, pieces) ==
  \A n \in 1 .. final : pieces[n].text \in Texts /\ pieces[n].length \in Nat \ {0}

Turns(f, final, pieces) ==
  /\ f \in [0 .. final -> Texts] /\ f[0] = <<>>
  /\ \A n \in 1 .. final : f[n] = pieces[n].text \o f[Jump(pieces, n)]

LEMMA JumpIs ==
  ASSUME NEW final \in Nat, NEW pieces, Pieces(final, pieces), NEW n \in 1 .. final
  PROVE  Jump(pieces, n) \in 0 .. n - 1 /\ Jump(pieces, n) \in 0 .. final
<1>1. pieces[n].length \in Nat \ {0} BY DEF Pieces
<1> DEFINE k == pieces[n].length
<1>2. k \in Nat \ {0} /\ Jump(pieces, n) = IF k < n THEN n - k ELSE 0 BY <1>1 DEF Jump
<1> HIDE DEF k
<1> QED BY <1>2

LEMMA TurnsExist ==
  ASSUME NEW final \in Nat, NEW pieces, Pieces(final, pieces)
  PROVE  \E f : Turns(f, final, pieces)
<1> DEFINE S == {m \in 0 .. final : \E f : Turns(f, m, pieces)}
<1>1. ASSUME NEW m \in 0 .. final, \A j \in 0 .. m - 1 : j \in S PROVE m \in S
  <2>1. CASE m = 0
    <3> DEFINE f == [i \in 0 .. 0 |-> <<>>]
    <3>1. f \in [0 .. 0 -> Texts] /\ f[0] = <<>> /\ 1 .. 0 = {} BY DEF Texts
    <3> HIDE DEF f
    <3>2. Turns(f, m, pieces) BY <2>1, <3>1 DEF Turns
    <3> QED BY <3>2
  <2>2. CASE m # 0
    <3>1. m \in 1 .. final /\ m - 1 \in 0 .. m - 1 /\ m - 1 \in 0 .. final BY <2>2
    <3>2. PICK f : Turns(f, m - 1, pieces) BY <1>1, <3>1
    <3> DEFINE k == Jump(pieces, m)
               v == pieces[m].text \o f[k]
               g == [i \in 0 .. m |-> IF i = m THEN v ELSE f[i]]
    <3>3. k \in 0 .. m - 1 BY <3>1, JumpIs
    <3>4. v \in Texts
      <4>1. f[k] \in Texts BY <3>2, <3>3 DEF Turns
      <4>2. pieces[m].text \in Texts BY <3>1 DEF Pieces
      <4> HIDE DEF k
      <4> QED BY <4>1, <4>2, ConcatProperties DEF Texts
    <3>5. \A i \in 0 .. m : i # m => i \in 0 .. m - 1 BY <3>1
    <3>6. \A i \in 0 .. m - 1 : i \in 0 .. m /\ i # m BY <3>1
    <3>7. /\ g[m] = v /\ \A i \in 0 .. m - 1 : g[i] = f[i]
      <4>1. m \in 0 .. m BY <3>1
      <4> HIDE DEF v
      <4> QED BY <3>6, <4>1, Zenon
    <3>8. g \in [0 .. m -> Texts]
      <4>1. \A i \in 0 .. m - 1 : f[i] \in Texts BY <3>2, Zenon DEF Turns
      <4> HIDE DEF v
      <4> QED BY <3>4, <3>5, <4>1, Zenon
    <3>9. g[0] = <<>>
      <4>1. 0 \in 0 .. m - 1 BY <3>1
      <4> HIDE DEF g
      <4> QED BY <3>2, <3>7, <4>1, Zenon DEF Turns
    <3>10. ASSUME NEW n \in 1 .. m PROVE g[n] = pieces[n].text \o g[Jump(pieces, n)]
      <4>1. CASE n = m
        <5>1. g[k] = f[k] /\ g[m] = v
          <6> HIDE DEF k, v, g
          <6> QED BY <3>3, <3>7, Zenon
        <5> HIDE DEF g
        <5> QED BY <4>1, <5>1, Zenon
      <4>2. CASE n # m
        <5>1. n \in 1 .. m - 1 /\ n \in 0 .. m - 1 /\ n \in 1 .. final BY <3>1, <4>2
        <5>2. Jump(pieces, n) \in 0 .. n - 1 BY <5>1, JumpIs
        <5>3. Jump(pieces, n) \in 0 .. m - 1 BY <5>1, <5>2
        <5> HIDE DEF g
        <5> QED BY <3>2, <3>7, <5>1, <5>3, Zenon DEF Turns
      <4> QED BY <4>1, <4>2
    <3> HIDE DEF g
    <3>11. Turns(g, m, pieces) BY <3>8, <3>9, <3>10, Zenon DEF Turns
    <3>12. m \in 0 .. final /\ \E h : Turns(h, m, pieces) BY <3>11, Zenon
    <3> QED BY <3>12
  <2> QED BY <2>1, <2>2
<1>2. \A m \in 0 .. final : m \in S
  <2> HIDE DEF S
  <2> QED BY <1>1, StrongInduction
<1>3. final \in S
  <2>1. final \in 0 .. final OBVIOUS
  <2> HIDE DEF S
  <2> QED BY <1>2, <2>1, Zenon
<1> QED BY <1>3

LEMMA InTurnIs ==
  ASSUME NEW final \in Nat, NEW pieces, Pieces(final, pieces)
  PROVE  Turns(InTurn(final, pieces), final, pieces)
<1> DEFINE Body(h, n) == IF n = 0 THEN <<>>
                         ELSE pieces[n].text \o h[IF pieces[n].length < n THEN n - pieces[n].length ELSE 0]
           Eq(h) == h = [n \in 0 .. final |-> Body(h, n)]
           R == InTurn(final, pieces)
<1>1. PICK f : Turns(f, final, pieces) BY TurnsExist
<1>2. Eq(f)
  <2>1. \A n \in 0 .. final : f[n] = Body(f, n)
    <3> SUFFICES ASSUME NEW n \in 0 .. final PROVE f[n] = Body(f, n) OBVIOUS
    <3>1. CASE n = 0 BY <1>1, <3>1, Zenon DEF Turns
    <3>2. CASE n # 0
      <4>1. n \in 1 .. final BY <3>2
      <4> QED BY <1>1, <3>2, <4>1, Zenon DEF Turns, Jump
    <3> QED BY <3>1, <3>2
  <2> HIDE DEF Body
  <2> QED BY <1>1, <2>1, Zenon DEF Turns
<1>3. R = CHOOSE h : Eq(h) BY DEF InTurn
<1>4. Eq(R)
  <2> HIDE DEF Eq
  <2> QED BY <1>2, <1>3, Zenon
<1>5. \A n \in 0 .. final : R[n] = Body(R, n)
  <2>1. R = [n \in 0 .. final |-> Body(R, n)] BY <1>4, Zenon
  <2> HIDE DEF Body, R
  <2> QED BY <2>1, Zenon
<1>6. R[0] = <<>> /\ \A n \in 1 .. final : R[n] = pieces[n].text \o R[Jump(pieces, n)]
  <2>1. 0 \in 0 .. final /\ \A n \in 1 .. final : n \in 0 .. final /\ n # 0 OBVIOUS
  <2> HIDE DEF R
  <2> QED BY <1>5, <2>1, Zenon DEF Jump
<1>7. \A n \in 0 .. final : R[n] \in Texts
  <2> DEFINE S == {n \in 0 .. final : R[n] \in Texts}
  <2>1. ASSUME NEW n \in 0 .. final, \A j \in 0 .. n - 1 : j \in S PROVE n \in S
    <3>1. CASE n = 0
      <4>1. <<>> \in Texts BY DEF Texts
      <4> HIDE DEF R
      <4> QED BY <1>6, <3>1, <4>1
    <3>2. CASE n # 0
      <4>1. n \in 1 .. final BY <3>2
      <4>2. Jump(pieces, n) \in 0 .. n - 1 BY <4>1, JumpIs
      <4>3. R[Jump(pieces, n)] \in Texts BY <2>1, <4>2
      <4>4. pieces[n].text \in Texts BY <4>1 DEF Pieces
      <4> HIDE DEF R
      <4>5. R[n] = pieces[n].text \o R[Jump(pieces, n)] BY <1>6, <4>1, Zenon
      <4>6. R[n] \in Texts BY <4>3, <4>4, <4>5, ConcatProperties DEF Texts
      <4> QED BY <4>6
    <3> QED BY <3>1, <3>2
  <2>2. \A n \in 0 .. final : n \in S
    <3> HIDE DEF S
    <3> QED BY <2>1, StrongInduction
  <2> QED BY <2>2
<1>8. R \in [0 .. final -> Texts]
  <2>1. R = [n \in 0 .. final |-> Body(R, n)] BY <1>4, Zenon
  <2> HIDE DEF Body, R
  <2> QED BY <1>7, <2>1, Zenon
<1> HIDE DEF R
<1>9. Turns(R, final, pieces) BY <1>6, <1>8, Zenon DEF Turns
<1> QED BY <1>9 DEF R

\* What stands at the end does not depend on what is before.
LEMMA InTurnEnd ==
  ASSUME NEW m \in Nat, NEW n \in Nat, m <= n,
         NEW p, NEW q, Pieces(m, p), Pieces(n, q), \A i \in 1 .. m : p[i] = q[i]
  PROVE  InTurn(n, q)[m] = InTurn(m, p)[m]
<1> DEFINE P == InTurn(m, p)
           Q == InTurn(n, q)
           S == {i \in 0 .. m : Q[i] = P[i]}
<1>1. Turns(P, m, p) /\ Turns(Q, n, q) BY InTurnIs
<1> HIDE DEF P, Q
<1>2. ASSUME NEW i \in 0 .. m, \A j \in 0 .. i - 1 : j \in S PROVE i \in S
  <2>1. CASE i = 0
    <3>1. P[0] = <<>> /\ Q[0] = <<>> /\ 0 \in 0 .. m BY <1>1 DEF Turns
    <3> QED BY <2>1, <3>1
  <2>2. CASE i # 0
    <3>1. i \in 1 .. m /\ i \in 1 .. n BY <2>2
    <3>2. Jump(p, i) \in 0 .. i - 1 /\ Jump(q, i) = Jump(p, i)
      <4>1. Jump(p, i) \in 0 .. i - 1 BY <3>1, JumpIs
      <4>2. p[i] = q[i] BY <3>1
      <4> QED BY <4>1, <4>2, Zenon DEF Jump
    <3>3. Q[Jump(p, i)] = P[Jump(p, i)] BY <1>2, <3>2
    <3>4. Q[i] = P[i] BY <1>1, <3>1, <3>2, <3>3, Zenon DEF Turns
    <3> QED BY <3>4
  <2> QED BY <2>1, <2>2
<1>3. \A i \in 0 .. m : i \in S
  <2> HIDE DEF S
  <2> QED BY <1>2, StrongInduction
<1>4. m \in 0 .. m OBVIOUS
<1>5. Q[m] = P[m] BY <1>3, <1>4
<1> QED BY <1>5 DEF P, Q

----------------------------------------------------------------------------
(* The end of a text.                                                      *)

LEMMA FromIs ==
  ASSUME NEW s \in Texts, NEW k \in 1 .. Len(s) + 1
  PROVE  /\ From(s, k) \in Texts /\ Len(From(s, k)) = Len(s) - k + 1
         /\ \A i \in 1 .. Len(s) - k + 1 : From(s, k)[i] = s[k + i - 1]
<1> DEFINE n == Len(s)
<1>1. n \in Nat /\ k \in Int /\ n \in Int BY DEF Texts
<1>2. \A i \in k .. n : s[i] \in Chars BY DEF Texts
<1>3. /\ SubSeq(s, k, n) \in Seq(Chars)
      /\ Len(SubSeq(s, k, n)) = IF k <= n THEN n - k + 1 ELSE 0
      /\ \A i \in 1 .. n - k + 1 : SubSeq(s, k, n)[i] = s[k + i - 1]
  BY <1>1, <1>2, SubSeqProperties
<1>4. (~ (k <= n)) => n - k + 1 = 0 BY <1>1
<1> QED BY <1>3, <1>4 DEF From, Texts

LEMMA SameTexts ==
  ASSUME NEW s, NEW t, s \in Texts, t \in Texts, Len(s) = Len(t), \A i \in 1 .. Len(s) : s[i] = t[i]
  PROVE  s = t
BY SeqEqual DEF Texts

LEMMA LastOfIs ==
  ASSUME NEW s \in Texts, NEW n \in 0 .. Len(s)
  PROVE  /\ LastOf(s, n) \in Texts /\ Len(LastOf(s, n)) = n
         /\ \A i \in 1 .. n : LastOf(s, n)[i] = s[Len(s) - n + i]
<1>1. Len(s) \in Nat BY DEF Texts
<1> DEFINE k == Len(s) - n + 1
<1>2. k \in 1 .. Len(s) + 1 /\ Len(s) - k + 1 = n BY <1>1
<1>3. \A i \in 1 .. n : k + i - 1 = Len(s) - n + i BY <1>1
<1> HIDE DEF k
<1>4. /\ From(s, k) \in Texts /\ Len(From(s, k)) = n
      /\ \A i \in 1 .. n : From(s, k)[i] = s[k + i - 1]
  BY <1>2, FromIs
<1> QED BY <1>3, <1>4 DEF LastOf, k

LEMMA LastOfAll ==
  ASSUME NEW s \in Texts
  PROVE  LastOf(s, Len(s)) = s
<1>1. Len(s) \in Nat /\ Len(s) \in 0 .. Len(s) BY DEF Texts
<1> DEFINE t == LastOf(s, Len(s))
<1>2. t \in Texts /\ Len(t) = Len(s) /\ \A i \in 1 .. Len(s) : t[i] = s[Len(s) - Len(s) + i]
  BY <1>1, LastOfIs
<1>3. \A i \in 1 .. Len(s) : Len(s) - Len(s) + i = i BY <1>1
<1> HIDE DEF t
<1>4. t = s BY <1>2, <1>3, SameTexts
<1> QED BY <1>4 DEF t

LEMMA LastOfLast ==
  ASSUME NEW s \in Texts, NEW n \in 0 .. Len(s), NEW m \in 0 .. n
  PROVE  LastOf(LastOf(s, n), m) = LastOf(s, m)
<1> DEFINE t == LastOf(s, n)
           u == LastOf(t, m)
           v == LastOf(s, m)
<1>1. Len(s) \in Nat /\ m \in 0 .. Len(s) BY DEF Texts
<1>2. t \in Texts /\ Len(t) = n /\ \A i \in 1 .. n : t[i] = s[Len(s) - n + i] BY LastOfIs
<1>3. v \in Texts /\ Len(v) = m /\ \A i \in 1 .. m : v[i] = s[Len(s) - m + i] BY <1>1, LastOfIs
<1> HIDE DEF t, v
<1>4. u \in Texts /\ Len(u) = m /\ \A i \in 1 .. m : u[i] = t[n - m + i] BY <1>2, LastOfIs
<1> HIDE DEF u
<1>5. ASSUME NEW i \in 1 .. m PROVE u[i] = v[i]
  <2>1. n - m + i \in 1 .. n /\ Len(s) - n + (n - m + i) = Len(s) - m + i BY <1>1
  <2> QED BY <1>2, <1>3, <1>4, <2>1
<1>6. u = v BY <1>3, <1>4, <1>5, SameTexts
<1> QED BY <1>6 DEF t, u, v

\* How many characters of C.
LEMMA RunAtIs ==
  ASSUME NEW s \in Texts, NEW C
  PROVE  /\ RunAt(s, C) \in 0 .. Len(s)
         /\ \A i \in 1 .. RunAt(s, C) : s[i] \in C
         /\ RunAt(s, C) < Len(s) => s[RunAt(s, C) + 1] \notin C
<1> DEFINE S == {n \in 0 .. Len(s) : \A i \in 1 .. n : s[i] \in C}
           r == RunAt(s, C)
<1>1. Len(s) \in Nat BY DEF Texts
<1>2. r \in S /\ \A n \in S : r >= n
  <2>1. S \subseteq Nat BY <1>1
  <2>2. 0 \in S BY <1>1
  <2>3. IsFiniteSet(S)
    <3>1. IsFiniteSet(0 .. Len(s)) BY <1>1, FS_Interval
    <3> QED BY <3>1, FS_Subset
  <2>4. r = Max(S) BY DEF RunAt
  <2> HIDE DEF S, r
  <2> QED BY <2>1, <2>2, <2>3, <2>4, MaxIs
<1> HIDE DEF r
<1>3. ASSUME r < Len(s), s[r + 1] \in C PROVE FALSE
  <2>1. r + 1 \in 0 .. Len(s) /\ r \in Nat /\ ~ (r >= r + 1) BY <1>1, <1>2, <1>3
  <2>2. \A i \in 1 .. r + 1 : i \in 1 .. r \/ i = r + 1 BY <2>1
  <2>3. r + 1 \in S BY <1>2, <1>3, <2>1, <2>2
  <2> QED BY <1>2, <2>1, <2>3
<1> QED BY <1>2, <1>3 DEF r

----------------------------------------------------------------------------
(* Digits and numbers.                                                     *)

LEMMA DigitSetIs ==
  DigitSet = {"0", "1", "2", "3", "4", "5", "6", "7", "8", "9"}
<1>1. DOMAIN Digits = 1 .. 10 BY DEF Digits
<1>2. /\ Digits[1] = "0" /\ Digits[2] = "1" /\ Digits[3] = "2" /\ Digits[4] = "3"
      /\ Digits[5] = "4" /\ Digits[6] = "5" /\ Digits[7] = "6" /\ Digits[8] = "7"
      /\ Digits[9] = "8" /\ Digits[10] = "9"
  BY DEF Digits
<1>3. \A i \in 1 .. 10 : \/ i = 1 \/ i = 2 \/ i = 3 \/ i = 4 \/ i = 5
                         \/ i = 6 \/ i = 7 \/ i = 8 \/ i = 9 \/ i = 10
  OBVIOUS
<1>4. /\ 1 \in 1 .. 10 /\ 2 \in 1 .. 10 /\ 3 \in 1 .. 10 /\ 4 \in 1 .. 10 /\ 5 \in 1 .. 10
      /\ 6 \in 1 .. 10 /\ 7 \in 1 .. 10 /\ 8 \in 1 .. 10 /\ 9 \in 1 .. 10 /\ 10 \in 1 .. 10
  OBVIOUS
<1>5. DigitSet = {Digits[i] : i \in 1 .. 10} BY <1>1, Zenon DEF DigitSet, ToSet
<1> QED BY <1>2, <1>3, <1>4, <1>5

LEMMA DigitIs ==
  ASSUME NEW d \in 0 .. 9
  PROVE  Digits[d + 1] \in DigitSet /\ Value(Digits[d + 1]) = d
<1>1. DOMAIN Digits = 1 .. 10 /\ d + 1 \in 1 .. 10 BY DEF Digits
<1>2. \A e \in 0 .. 9 : Digits[e + 1] = Digits[d + 1] => e = d BY DEF Digits
<1>3. Value(Digits[d + 1]) = d
  <2> DEFINE c == Digits[d + 1]
  <2>1. \E e \in 0 .. 9 : Digits[e + 1] = c OBVIOUS
  <2>2. Value(c) = CHOOSE e \in 0 .. 9 : Digits[e + 1] = c BY DEF Value
  <2>3. Value(c) \in 0 .. 9 /\ Digits[Value(c) + 1] = c BY <2>1, <2>2
  <2> QED BY <1>2, <2>3
<1>4. Digits[d + 1] \in DigitSet BY <1>1 DEF DigitSet, ToSet
<1> QED BY <1>3, <1>4

LEMMA ValueIs ==
  ASSUME NEW c \in DigitSet
  PROVE  Value(c) \in 0 .. 9
<1>1. \E i \in 1 .. 10 : c = Digits[i] BY DEF DigitSet, ToSet, Digits
<1>2. PICK i \in 1 .. 10 : c = Digits[i] BY <1>1
<1>3. i - 1 \in 0 .. 9 /\ (i - 1) + 1 = i OBVIOUS
<1>4. \E d \in 0 .. 9 : Digits[d + 1] = c BY <1>2, <1>3
<1> QED BY <1>4 DEF Value

\* A number is written with the digits of its tenth and a last one.
Decimals(f, n) ==
  /\ f \in [0 .. n -> Seq(DigitSet)]
  /\ \A k \in 0 .. n :
       f[k] = IF k < 10 THEN <<Digits[k + 1]>> ELSE Append(f[k \div 10], Digits[(k % 10) + 1])

LEMMA TenthIs ==
  ASSUME NEW k \in Nat, ~ (k < 10)
  PROVE  /\ k \div 10 \in 1 .. k - 1 /\ k % 10 \in 0 .. 9
         /\ (k \div 10) * 10 + (k % 10) = k
<1>1. k \div 10 \in Nat /\ k % 10 \in 0 .. 9 OBVIOUS
<1>2. (k \div 10) * 10 + (k % 10) = k OBVIOUS
<1> DEFINE q == k \div 10
           r == k % 10
<1>3. q \in Nat /\ r \in 0 .. 9 /\ q * 10 + r = k BY <1>1, <1>2
<1> HIDE DEF q, r
<1>4. q \in 1 .. k - 1 BY <1>3
<1> QED BY <1>1, <1>2, <1>4 DEF q

LEMMA DecimalsExist ==
  ASSUME NEW n \in Nat
  PROVE  \E f : Decimals(f, n)
<1> DEFINE S == {m \in 0 .. n : \E f : Decimals(f, m)}
<1>1. ASSUME NEW m \in 0 .. n, \A j \in 0 .. m - 1 : j \in S PROVE m \in S
  <2> DEFINE Step(f, k) == IF k < 10 THEN <<Digits[k + 1]>>
                           ELSE Append(f[k \div 10], Digits[(k % 10) + 1])
  <2>1. CASE m = 0
    <3> DEFINE f == [i \in 0 .. 0 |-> <<Digits[0 + 1]>>]
    <3>1. Digits[0 + 1] \in DigitSet
      <4>1. 0 \in 0 .. 9 OBVIOUS
      <4> QED BY <4>1, DigitIs
    <3>3. f \in [0 .. 0 -> Seq(DigitSet)] /\ f[0] = <<Digits[0 + 1]>>
      <4>1. <<Digits[0 + 1]>> \in Seq(DigitSet)
        <5> DEFINE c == Digits[0 + 1]
        <5> HIDE DEF c
        <5>1. c \in DigitSet BY <3>1 DEF c
        <5>2. <<c>> \in Seq(DigitSet) BY <5>1
        <5> QED BY <5>2 DEF c
      <4> QED BY <4>1
    <3> HIDE DEF f
    <3>4. \A k \in 0 .. 0 : f[k] = Step(f, k)
      <4>1. (\A k \in 0 .. 0 : k = 0) /\ 0 < 10 OBVIOUS
      <4>2. f[0] = Step(f, 0) BY <3>3, <4>1, Zenon
      <4> HIDE DEF Step
      <4> QED BY <4>1, <4>2, Zenon
    <3>5. Decimals(f, m) BY <2>1, <3>3, <3>4, Zenon DEF Decimals
    <3>6. \E g : Decimals(g, m) BY <3>5, Zenon
    <3> QED BY <3>6
  <2>2. CASE m # 0
    <3>1. m - 1 \in 0 .. m - 1 /\ m - 1 \in 0 .. n /\ m \in Nat BY <2>2
    <3>2. PICK f : Decimals(f, m - 1) BY <1>1, <3>1
    <3> DEFINE v == Step(f, m)
               g == [i \in 0 .. m |-> IF i = m THEN v ELSE f[i]]
    <3>3. v \in Seq(DigitSet)
      <4>1. CASE m < 10
        <5>1. m \in 0 .. 9 BY <3>1, <4>1
        <5>2. Digits[m + 1] \in DigitSet BY <5>1, DigitIs
        <5> QED BY <4>1, <5>2
      <4>2. CASE ~ (m < 10)
        <5>1. m \div 10 \in 1 .. m - 1 /\ m % 10 \in 0 .. 9 BY <3>1, <4>2, TenthIs
        <5> DEFINE t == m \div 10
                   d == m % 10
        <5>2. t \in 0 .. m - 1 /\ d \in 0 .. 9 BY <3>1, <5>1
        <5> HIDE DEF t, d
        <5>3. f[t] \in Seq(DigitSet) BY <3>2, <5>2, Zenon DEF Decimals
        <5>4. Digits[d + 1] \in DigitSet BY <5>2, DigitIs
        <5>5. Append(f[t], Digits[d + 1]) \in Seq(DigitSet) BY <5>3, <5>4
        <5>6. v = Append(f[t], Digits[d + 1]) BY <4>2, Zenon DEF t, d
        <5> QED BY <5>5, <5>6, Zenon
      <4> QED BY <4>1, <4>2
    <3>4. \A i \in 0 .. m : i # m => i \in 0 .. m - 1 BY <3>1
    <3>5. \A i \in 0 .. m - 1 : i \in 0 .. m /\ i # m BY <3>1
    <3>6. g[m] = v /\ \A i \in 0 .. m - 1 : g[i] = f[i]
      <4>1. m \in 0 .. m BY <3>1
      <4> HIDE DEF v
      <4> QED BY <3>5, <4>1, Zenon
    <3>7. g \in [0 .. m -> Seq(DigitSet)]
      <4>1. \A i \in 0 .. m - 1 : f[i] \in Seq(DigitSet) BY <3>2, Zenon DEF Decimals
      <4> HIDE DEF v
      <4> QED BY <3>3, <3>4, <4>1, Zenon
    <3>8. ASSUME NEW k \in 0 .. m PROVE g[k] = Step(g, k)
      <4>1. g[k] = Step(f, k)
        <5>1. CASE k = m
          <6> HIDE DEF g, Step
          <6> QED BY <3>6, <5>1, Zenon
        <5>2. CASE k # m
          <6>1. k \in 0 .. m - 1 BY <3>4, <5>2
          <6> HIDE DEF g
          <6> QED BY <3>2, <3>6, <6>1, Zenon DEF Decimals
        <5> QED BY <5>1, <5>2
      <4>2. CASE k < 10
        <5> HIDE DEF g
        <5> QED BY <4>1, <4>2, Zenon
      <4>3. CASE ~ (k < 10)
        <5>1. k \div 10 \in 1 .. k - 1 BY <3>1, <4>3, TenthIs
        <5> DEFINE t == k \div 10
        <5>2. t \in 0 .. m - 1 BY <3>1, <5>1
        <5> HIDE DEF t
        <5>3. g[t] = f[t]
          <6> HIDE DEF g
          <6> QED BY <3>6, <5>2, Zenon
        <5>4. g[k \div 10] = f[k \div 10] BY <5>3 DEF t
        <5> HIDE DEF g
        <5> QED BY <4>1, <4>3, <5>4, Zenon
      <4> QED BY <4>2, <4>3
    <3> HIDE DEF g
    <3>9. Decimals(g, m) BY <3>7, <3>8, Zenon DEF Decimals
    <3>10. \E h : Decimals(h, m) BY <3>9, Zenon
    <3> QED BY <3>10
  <2> QED BY <2>1, <2>2
<1>2. \A m \in 0 .. n : m \in S
  <2> HIDE DEF S
  <2> QED BY <1>1, StrongInduction
<1>3. n \in 0 .. n OBVIOUS
<1> QED BY <1>2, <1>3

\* The function of Number, of which Number takes the last value.
LEMMA NumberOf ==
  ASSUME NEW n \in Nat
  PROVE  \E f : Decimals(f, n) /\ Number(n) = f[n]
<1> DEFINE Eq(f) == f = [k \in 0 .. n |->
                           IF k < 10 THEN <<Digits[k + 1]>>
                           ELSE Append(f[k \div 10], Digits[(k % 10) + 1])]
           R == CHOOSE f : Eq(f)
<1>1. PICK f : Decimals(f, n) BY DecimalsExist
<1>2. Eq(f)
  <2> DEFINE Step(k) == IF k < 10 THEN <<Digits[k + 1]>>
                        ELSE Append(f[k \div 10], Digits[(k % 10) + 1])
  <2>1. \A k \in 0 .. n : f[k] = Step(k) BY <1>1, Zenon DEF Decimals
  <2>2. f \in [0 .. n -> Seq(DigitSet)] BY <1>1, Zenon DEF Decimals
  <2>3. Eq(f) <=> f = [k \in 0 .. n |-> Step(k)] OBVIOUS
  <2> HIDE DEF Step, Eq
  <2>4. f = [k \in 0 .. n |-> Step(k)] BY <2>1, <2>2, Zenon
  <2> QED BY <2>3, <2>4, Zenon
<1>3. Eq(R)
  <2> HIDE DEF Eq
  <2> QED BY <1>2, Zenon
<1>4. Number(n) = R[n] BY DEF Number
<1> DEFINE Step(k) == IF k < 10 THEN <<Digits[k + 1]>>
                      ELSE Append(R[k \div 10], Digits[(k % 10) + 1])
<1>5. R = [k \in 0 .. n |-> Step(k)] BY <1>3, Zenon
<1>6. \A k \in 0 .. n : R[k] = Step(k)
  <2> HIDE DEF Step, R
  <2> QED BY <1>5, Zenon
<1> HIDE DEF R
<1>7. \A k \in 0 .. n : R[k] \in Seq(DigitSet)
  <2> DEFINE S == {k \in 0 .. n : R[k] \in Seq(DigitSet)}
  <2>1. ASSUME NEW k \in 0 .. n, \A j \in 0 .. k - 1 : j \in S PROVE k \in S
    <3>1. CASE k < 10
      <4>1. k \in 0 .. 9 BY <3>1
      <4>2. Digits[k + 1] \in DigitSet BY <4>1, DigitIs
      <4>3. <<Digits[k + 1]>> \in Seq(DigitSet) BY <4>2
      <4>4. R[k] = <<Digits[k + 1]>> BY <1>6, <3>1, Zenon
      <4> QED BY <4>3, <4>4
    <3>2. CASE ~ (k < 10)
      <4> DEFINE t == k \div 10
                 d == k % 10
      <4>1. t \in 0 .. k - 1 /\ d \in 0 .. 9 BY <3>2, TenthIs
      <4>2. R[k] = Append(R[t], Digits[d + 1]) BY <1>6, <3>2, Zenon
      <4> HIDE DEF t, d
      <4>3. R[t] \in Seq(DigitSet) BY <2>1, <4>1
      <4>4. Digits[d + 1] \in DigitSet BY <4>1, DigitIs
      <4>5. Append(R[t], Digits[d + 1]) \in Seq(DigitSet) BY <4>3, <4>4
      <4>6. R[k] \in Seq(DigitSet) BY <4>2, <4>5, Zenon
      <4> QED BY <4>6
    <3> QED BY <3>1, <3>2
  <2>2. \A k \in 0 .. n : k \in S
    <3> HIDE DEF S
    <3> QED BY <2>1, StrongInduction
  <2> QED BY <2>2
<1>8. R \in [0 .. n -> Seq(DigitSet)]
  <2> HIDE DEF Step
  <2> QED BY <1>5, <1>7, Zenon
<1>9. Decimals(R, n) BY <1>6, <1>8, Zenon DEF Decimals
<1> QED BY <1>4, <1>9, Zenon

\* Reading the digits of a number gives it back, whatever comes after them.
Sums(v, s, n) ==
  /\ v[0] = 0
  /\ \A i \in 1 .. n : v[i] = v[i - 1] * 10 + Value(s[i])

LEMMA DecimalsValue ==
  ASSUME NEW n \in Nat, NEW f, Decimals(f, n), NEW m \in 0 .. n
  PROVE  /\ Len(f[m]) \in Nat \ {0}
         /\ \A s, v : (\A i \in 1 .. Len(f[m]) : s[i] = f[m][i]) /\ Sums(v, s, Len(f[m])) => v[Len(f[m])] = m
<1> DEFINE Good(k) == /\ Len(f[k]) \in Nat \ {0}
                      /\ \A s, v : (\A i \in 1 .. Len(f[k]) : s[i] = f[k][i]) /\ Sums(v, s, Len(f[k]))
                                     => v[Len(f[k])] = k
           S == {k \in 0 .. n : Good(k)}
<1>1. ASSUME NEW k \in 0 .. n, \A j \in 0 .. k - 1 : j \in S PROVE k \in S
  <2>1. CASE k < 10
    <3>0. k \in 0 .. 9 BY <2>1
    <3>1. f[k] = <<Digits[k + 1]>> BY <2>1, Zenon DEF Decimals
    <3>2. Len(f[k]) = 1 /\ f[k][1] = Digits[k + 1] BY <3>1
    <3>3. ASSUME NEW s, NEW v, \A i \in 1 .. Len(f[k]) : s[i] = f[k][i], Sums(v, s, Len(f[k]))
          PROVE  v[Len(f[k])] = k
      <4>1. 1 \in 1 .. 1 /\ 1 - 1 = 0 OBVIOUS
      <4>2. s[1] = Digits[k + 1] BY <3>2, <3>3, <4>1, Zenon
      <4>3. v[1] = v[1 - 1] * 10 + Value(s[1]) /\ v[0] = 0 BY <3>2, <3>3, <4>1, Zenon DEF Sums
      <4>4. Value(s[1]) = k BY <3>0, <4>2, DigitIs
      <4> QED BY <3>2, <4>1, <4>3, <4>4
    <3>4. Good(k) BY <3>2, <3>3
    <3> HIDE DEF Good
    <3> QED BY <3>4
  <2>2. CASE ~ (k < 10)
    <3> DEFINE t == k \div 10
               d == k % 10
               L == Len(f[t])
    <3>1. t \in 0 .. k - 1 /\ t \in 0 .. n /\ d \in 0 .. 9 /\ t * 10 + d = k BY <2>2, TenthIs
    <3>2. f[k] = Append(f[t], Digits[d + 1]) BY <2>2, Zenon DEF Decimals
    <3> HIDE DEF t, d
    <3>3. Good(t) BY <1>1, <3>1
    <3>4. f[t] \in Seq(DigitSet) BY <3>1, Zenon DEF Decimals
    <3>5. Digits[d + 1] \in DigitSet /\ Value(Digits[d + 1]) = d BY <3>1, DigitIs
    <3>6. L \in Nat \ {0} BY <3>3
    <3>7. /\ Len(f[k]) = L + 1 /\ f[k][L + 1] = Digits[d + 1]
          /\ \A i \in 1 .. L : f[k][i] = f[t][i]
      <4> DEFINE a == f[t]
                 b == Digits[d + 1]
      <4>1. a \in Seq(DigitSet) /\ b \in DigitSet BY <3>4, <3>5
      <4> HIDE DEF a, b
      <4>2. Len(Append(a, b)) = Len(a) + 1 /\ Append(a, b)[Len(a) + 1] = b
            /\ \A i \in 1 .. Len(a) : Append(a, b)[i] = a[i]
        BY <4>1
      <4> QED BY <3>2, <4>2 DEF a, b
    <3>8. ASSUME NEW s, NEW v, \A i \in 1 .. Len(f[k]) : s[i] = f[k][i], Sums(v, s, Len(f[k]))
          PROVE  v[Len(f[k])] = k
      <4>1. \A i \in 1 .. L : i \in 1 .. L + 1 BY <3>6
      <4>2. L + 1 \in 1 .. L + 1 /\ (L + 1) - 1 = L BY <3>6
      <4> HIDE DEF L
      <4>3. \A i \in 1 .. L : s[i] = f[t][i] BY <3>7, <3>8, <4>1, Zenon
      <4>4. Sums(v, s, L) BY <3>7, <3>8, <4>1, Zenon DEF Sums
      <4>5. v[L] = t BY <3>3, <4>3, <4>4, Zenon DEF L
      <4>6. v[L + 1] = v[(L + 1) - 1] * 10 + Value(s[L + 1]) BY <3>7, <3>8, <4>2, Zenon DEF Sums
      <4>7. s[L + 1] = Digits[d + 1] BY <3>7, <3>8, <4>2, Zenon
      <4>8. v[L + 1] = t * 10 + d BY <3>5, <4>2, <4>5, <4>6, <4>7, Zenon
      <4> QED BY <3>1, <3>7, <4>8
    <3>9. Len(f[k]) \in Nat \ {0} BY <3>6, <3>7
    <3>10. Good(k) BY <3>8, <3>9, Zenon
    <3> HIDE DEF Good
    <3> QED BY <3>10
  <2> QED BY <2>1, <2>2
<1>2. \A k \in 0 .. n : k \in S
  <2> HIDE DEF S
  <2> QED BY <1>1, StrongInduction
<1>3. Good(m)
  <2> HIDE DEF Good
  <2> QED BY <1>2
<1> QED BY <1>3, Zenon

LEMMA NumberIs ==
  ASSUME NEW n \in Nat
  PROVE  /\ Number(n) \in Seq(DigitSet) /\ Len(Number(n)) \in Nat \ {0}
         /\ n < 10 => Number(n) = <<Digits[n + 1]>>
         /\ \A s, v : (\A i \in 1 .. Len(Number(n)) : s[i] = Number(n)[i]) /\ Sums(v, s, Len(Number(n)))
                        => v[Len(Number(n))] = n
<1>1. PICK f : Decimals(f, n) /\ Number(n) = f[n] BY NumberOf
<1>2. n \in 0 .. n OBVIOUS
<1>3. f[n] \in Seq(DigitSet) /\ (n < 10 => f[n] = <<Digits[n + 1]>>) BY <1>1, <1>2, Zenon DEF Decimals
<1>4. /\ Len(f[n]) \in Nat \ {0}
      /\ \A s, v : (\A i \in 1 .. Len(f[n]) : s[i] = f[n][i]) /\ Sums(v, s, Len(f[n])) => v[Len(f[n])] = n
  BY <1>1, <1>2, DecimalsValue, Zenon
<1> QED BY <1>1, <1>3, <1>4, Zenon

LEMMA DigitTexts ==
  ASSUME NEW s \in Seq(DigitSet)
  PROVE  s \in Texts
<1>1. DigitSet \subseteq Chars BY DEF Chars
<1> QED BY <1>1, SeqMonotonic DEF Texts

\* The function of NumberAt, of which NumberAt takes the last value.
LEMMA NumberAtIs ==
  ASSUME NEW s \in Texts
  PROVE  /\ NumberAt(s) \in Nat
         /\ \E v : Sums(v, s, DigitsAt(s)) /\ NumberAt(s) = v[DigitsAt(s)]
<1> DEFINE N == DigitsAt(s)
           Body(v, i) == IF i = 0 THEN 0 ELSE v[i - 1] * 10 + Value(s[i])
           Eq(v) == v = [i \in 0 .. N |-> Body(v, i)]
           step == [i \in 1 .. N |-> [x \in Nat |-> x * 10 + Value(s[i])]]
           R == CHOOSE v : Eq(v)
<1>1. N \in 0 .. Len(s) /\ \A i \in 1 .. N : s[i] \in DigitSet BY RunAtIs DEF DigitsAt, DigitSet
<1>2. N \in Nat BY <1>1 DEF Texts
<1>3. \A i \in 1 .. N : Value(s[i]) \in Nat
  <2> SUFFICES ASSUME NEW i \in 1 .. N PROVE Value(s[i]) \in Nat OBVIOUS
  <2>1. s[i] \in DigitSet BY <1>1
  <2> QED BY <2>1, ValueIs
<1> HIDE DEF N
<1>4. step \in [1 .. N -> [Nat -> Nat]] /\ 0 \in Nat
  <2>1. \A i \in 1 .. N : \A x \in Nat : x * 10 + Value(s[i]) \in Nat BY <1>3
  <2> QED BY <2>1
<1>5. \A i \in 1 .. N : \A x \in Nat : step[i][x] = x * 10 + Value(s[i]) OBVIOUS
<1>6. PICK f : Recurs(f, N, Nat, 0, step)
  <2> HIDE DEF step
  <2> QED BY <1>2, <1>4, RecursionExists
<1> HIDE DEF step
<1>7. f \in [0 .. N -> Nat] /\ \A i \in 0 .. N : f[i] = Body(f, i)
  <2>1. f \in [0 .. N -> Nat] BY <1>6 DEF Recurs
  <2>2. ASSUME NEW i \in 0 .. N, i # 0 PROVE f[i] = f[i - 1] * 10 + Value(s[i])
    <3>1. i \in 1 .. N /\ i - 1 \in 0 .. N BY <1>2, <2>2
    <3>2. f[i - 1] \in Nat BY <2>1, <3>1
    <3>3. f[i] = step[i][f[i - 1]] BY <1>6, <3>1, Zenon DEF Recurs
    <3> QED BY <1>5, <3>1, <3>2, <3>3, Zenon
  <2>3. f[0] = 0 BY <1>6, Zenon DEF Recurs
  <2>4. ASSUME NEW i \in 0 .. N PROVE f[i] = Body(f, i)
    <3>1. CASE i = 0 BY <2>3, <3>1, Zenon
    <3>2. CASE i # 0 BY <2>2, <3>2, Zenon
    <3> QED BY <3>1, <3>2
  <2> HIDE DEF Body
  <2> QED BY <2>1, <2>4, Zenon
<1>8. Eq(f)
  <2> HIDE DEF Body
  <2> QED BY <1>7, Zenon
<1>9. Eq(R)
  <2> HIDE DEF Eq
  <2> QED BY <1>8, Zenon
<1>10. NumberAt(s) = R[N] BY DEF NumberAt, N
<1>11. \A i \in 0 .. N : R[i] = Body(R, i)
  <2>1. R = [i \in 0 .. N |-> Body(R, i)] BY <1>9, Zenon
  <2> HIDE DEF Body, R
  <2> QED BY <2>1, Zenon
<1> HIDE DEF R, Eq
<1>12. 0 \in 0 .. N /\ \A i \in 1 .. N : i \in 0 .. N /\ i # 0 BY <1>2
<1>13. Sums(R, s, N) BY <1>11, <1>12, Zenon DEF Sums
<1>14. R[N] \in Nat
  <2> DEFINE S == {i \in 0 .. N : R[i] \in Nat}
  <2>1. 0 \in S BY <1>12, <1>13 DEF Sums
  <2>2. ASSUME NEW i \in 1 .. N, i - 1 \in S PROVE i \in S
    <3>1. R[i] = R[i - 1] * 10 + Value(s[i]) BY <1>13, Zenon DEF Sums
    <3>2. R[i - 1] \in Nat /\ Value(s[i]) \in Nat BY <1>3, <2>2
    <3> QED BY <1>12, <3>1, <3>2
  <2>3. \A i \in 0 .. N : i \in S
    <3> HIDE DEF S
    <3> QED BY <1>2, <2>1, <2>2, UpToInduction
  <2>4. N \in 0 .. N BY <1>2
  <2> QED BY <2>3, <2>4
<1> QED BY <1>10, <1>13, <1>14, Zenon DEF N

\* A number is read as it was written if what comes after it is no digit.
LEMMA NumberRead ==
  ASSUME NEW n \in Nat, NEW t \in Texts, t # <<>>, t[1] \notin DigitSet
  PROVE  /\ DigitsAt(Number(n) \o t) = Len(Number(n))
         /\ NumberAt(Number(n) \o t) = n
<1> DEFINE a == Number(n)
           s == a \o t
           D == DigitsAt(s)
           L == Len(a)
<1>1. a \in Seq(DigitSet) /\ L \in Nat \ {0} BY NumberIs
<1>2. a \in Texts BY <1>1, DigitTexts
<1>3. t \in Texts /\ Len(t) \in Nat \ {0} BY EmptySeq DEF Texts
<1>4. \A i \in 1 .. L : a[i] \in DigitSet BY <1>1, ElementOfSeq
<1> HIDE DEF a
<1>5. /\ s \in Texts /\ Len(s) = L + Len(t)
      /\ \A i \in 1 .. L + Len(t) : s[i] = IF i <= L THEN a[i] ELSE t[i - L]
  BY <1>2, <1>3, ConcatProperties DEF Texts
<1> HIDE DEF s
<1>6. /\ D \in 0 .. Len(s) /\ \A i \in 1 .. D : s[i] \in DigitSet
      /\ D < Len(s) => s[D + 1] \notin DigitSet
  BY <1>5, RunAtIs DEF DigitsAt, DigitSet
<1> HIDE DEF D, L
<1>7. \A i \in 1 .. L : i \in 1 .. L + Len(t) /\ i <= L BY <1>1, <1>3
<1>8. \A i \in 1 .. L : s[i] = a[i] BY <1>5, <1>7, Zenon
<1>9. s[L + 1] = t[1]
  <2>1. L + 1 \in 1 .. L + Len(t) /\ ~ (L + 1 <= L) /\ (L + 1) - L = 1 BY <1>1, <1>3
  <2> QED BY <1>5, <2>1
<1>10. D = L
  <2>1. D \in Nat /\ L \in Nat /\ Len(s) = L + Len(t) /\ Len(t) > 0 BY <1>1, <1>3, <1>5, <1>6
  <2>2. CASE D < L
    <3>1. D < Len(s) /\ D + 1 \in 1 .. L BY <2>1, <2>2
    <3> QED BY <1>4, <1>6, <1>8, <3>1, Zenon
  <2>3. CASE D > L
    <3>1. L + 1 \in 1 .. D BY <2>1, <2>3
    <3> QED BY <1>6, <1>9, <3>1
  <2> QED BY <2>1, <2>2, <2>3
<1>11. PICK v : Sums(v, s, D) /\ NumberAt(s) = v[D] BY <1>5, NumberAtIs DEF D
<1>12. \A i \in 1 .. Len(Number(n)) : s[i] = Number(n)[i] BY <1>8 DEF a, L
<1>13. Sums(v, s, Len(Number(n))) BY <1>10, <1>11 DEF a, L
<1>14. v[Len(Number(n))] = n BY <1>12, <1>13, NumberIs
<1>15. D = Len(Number(n)) BY <1>10 DEF a, L
<1>16. NumberAt(s) = n BY <1>11, <1>14, <1>15
<1> QED BY <1>15, <1>16 DEF a, s, D

----------------------------------------------------------------------------
(* The pieces.                                                             *)

LEMMA CharsAre ==
  /\ " " \in Chars /\ "@" \in Chars /\ "n" \in Chars /\ "{" \in Chars /\ "}" \in Chars /\ "#" \in Chars
  /\ DigitSet \subseteq Chars
BY DEF Chars

LEMMA StringTexts ==
  ASSUME NEW s \in Seq(STRING)
  PROVE  s \in Texts
<1>1. STRING \subseteq Chars BY DEF Chars
<1> QED BY <1>1, SeqMonotonic DEF Texts

LEMMA OneIs ==
  ASSUME NEW a \in Chars
  PROVE  <<a>> \in Texts /\ Len(<<a>>) = 1 /\ <<a>>[1] = a
BY DEF Texts

LEMMA TwoIs ==
  ASSUME NEW a \in Chars, NEW b \in Chars
  PROVE  <<a, b>> \in Texts /\ Len(<<a, b>>) = 2 /\ <<a, b>>[1] = a /\ <<a, b>>[2] = b
BY DEF Texts

LEMMA Joins ==
  ASSUME NEW a, NEW b, a \in Texts, b \in Texts
  PROVE  /\ a \o b \in Texts /\ Len(a) \in Nat /\ Len(b) \in Nat /\ Len(a \o b) = Len(a) + Len(b)
         /\ \A i \in 1 .. Len(a) + Len(b) : (a \o b)[i] = IF i <= Len(a) THEN a[i] ELSE b[i - Len(a)]
<1>1. Len(a) \in Nat /\ Len(b) \in Nat BY LenProperties DEF Texts
<1> QED BY <1>1, ConcatProperties DEF Texts

LEMMA PairIs ==
  ASSUME NEW a \in Chars, NEW b \in Chars
  PROVE  <<a>> \o <<b>> = <<a, b>>
<1> DEFINE s == <<a>>
           t == <<b>>
           u == <<a, b>>
<1>1. s \in Texts /\ Len(s) = 1 /\ s[1] = a BY OneIs
<1>2. t \in Texts /\ Len(t) = 1 /\ t[1] = b BY OneIs
<1>3. u \in Texts /\ Len(u) = 2 /\ u[1] = a /\ u[2] = b BY TwoIs
<1> HIDE DEF s, t, u
<1>4. /\ s \o t \in Texts /\ Len(s \o t) = 2
      /\ \A i \in 1 .. 2 : (s \o t)[i] = IF i <= 1 THEN s[i] ELSE t[i - 1]
  <2>1. /\ s \o t \in Texts /\ Len(s \o t) = Len(s) + Len(t)
        /\ \A i \in 1 .. Len(s) + Len(t) : (s \o t)[i] = IF i <= Len(s) THEN s[i] ELSE t[i - Len(s)]
    BY <1>1, <1>2, Joins, Zenon
  <2>2. Len(s) + Len(t) = 2 BY <1>1, <1>2
  <2> QED BY <1>1, <2>1, <2>2, Zenon
<1>5. \A i \in 1 .. 2 : (s \o t)[i] = u[i]
  <2>1. \A i \in 1 .. 2 : i = 1 \/ i = 2 OBVIOUS
  <2>2. 1 \in 1 .. 2 /\ 2 \in 1 .. 2 /\ 1 <= 1 /\ ~ (2 <= 1) /\ 2 - 1 = 1 OBVIOUS
  <2>3. (s \o t)[1] = a /\ (s \o t)[2] = b BY <1>1, <1>2, <1>4, <2>2
  <2> QED BY <1>3, <2>1, <2>3
<1>6. s \o t = u BY <1>3, <1>4, <1>5, SameTexts
<1> QED BY <1>6 DEF s, t, u

LEMMA AbbreviationsAre ==
  /\ DOMAIN Abbreviations = 1 .. Len(Abbreviations) /\ Len(Abbreviations) \in Nat
  /\ \A i \in DOMAIN Abbreviations :
       /\ Abbreviations[i].name \in Seq(STRING) /\ Abbreviations[i].name # <<>>
       /\ Abbreviations[i].c \in STRING
       /\ Abbreviations[i].c \notin {"@", "n", "{"} \cup DigitSet
       /\ \A j \in DOMAIN Abbreviations : Abbreviations[i].c = Abbreviations[j].c => i = j
<1> DEFINE A == Abbreviations
           R == [c : STRING, name : Seq(STRING)]
<1>1. A \in Seq(R) BY RecordAssumption
<1>2. \A i \in DOMAIN A :
        /\ A[i].name # <<>> /\ A[i].c \notin {"@", "n", "{"} \cup DigitSet
        /\ \A j \in DOMAIN A : A[i].c = A[j].c => i = j
  BY RecordAssumption DEF DigitSet
<1>3. \A r \in R : r.name \in Seq(STRING) /\ r.c \in STRING OBVIOUS
<1> HIDE DEF A, R
<1>4. DOMAIN A = 1 .. Len(A) /\ Len(A) \in Nat BY <1>1, LenProperties
<1>5. \A i \in DOMAIN A : A[i] \in R BY <1>1, <1>4, ElementOfSeq
<1>6. \A i \in DOMAIN A : A[i].name \in Seq(STRING) /\ A[i].c \in STRING BY <1>3, <1>5, Zenon
<1> QED BY <1>2, <1>4, <1>6, Zenon DEF A

LEMMA BlanksAre ==
  ASSUME NEW n \in Nat
  PROVE  Blanks(n) \in Texts /\ Len(Blanks(n)) = n /\ \A i \in 1 .. n : Blanks(n)[i] = " "
<1>1. Blanks(n) \in [1 .. n -> Chars] BY CharsAre DEF Blanks
<1>2. Blanks(n) \in Texts
  <2>1. Texts = UNION {[1 .. k -> Chars] : k \in Nat} BY SeqDef DEF Texts
  <2> QED BY <1>1, <2>1
<1>3. DOMAIN Blanks(n) = 1 .. n /\ \A i \in 1 .. n : Blanks(n)[i] = " " BY DEF Blanks
<1>4. Len(Blanks(n)) = n
  <2> DEFINE k == Len(Blanks(n))
  <2>1. DOMAIN Blanks(n) = 1 .. k /\ k \in Nat BY <1>2, LenProperties DEF Texts
  <2>2. 1 .. k = 1 .. n BY <1>3, <2>1, Zenon
  <2> HIDE DEF k
  <2>3. \A i \in Nat : i \in 1 .. k <=> i \in 1 .. n BY <2>2, Zenon
  <2>4. k = n BY <2>1, <2>3
  <2> QED BY <2>4 DEF k
<1> QED BY <1>2, <1>3, <1>4

LEMMA NumberTexts ==
  ASSUME NEW n \in Nat
  PROVE  Number(n) \in Texts /\ Len(Number(n)) \in Nat \ {0}
BY NumberIs, DigitTexts

LEMMA RunOfIs ==
  ASSUME NEW n \in Nat \ {0}
  PROVE  /\ RunOf(n) \in Texts /\ RunOf(n) # <<>>
         /\ n < 4 => RunOf(n) = Blanks(n)
         /\ n \in 4 .. 9 => RunOf(n) = <<"@", Digits[n + 1]>>
         /\ n > 9 => RunOf(n) = <<"@", "{">> \o Number(n) \o <<"}">>
<1>1. CASE n < 4
  <2>1. RunOf(n) = Blanks(n) BY <1>1, Zenon DEF RunOf
  <2>3. ~ (n \in 4 .. 9) /\ ~ (n > 9) BY <1>1
  <2>2. Len(Blanks(n)) = n /\ Len(<<>>) = 0 /\ n # 0 BY BlanksAre
  <2> QED BY <1>1, <2>1, <2>2, <2>3, BlanksAre
<1>2. CASE n \in 4 .. 9
  <2>0. ~ (n < 4) /\ ~ (n > 9) /\ n < 10 BY <1>2
  <2>1. RunOf(n) = <<"@">> \o Number(n) BY <2>0, Zenon DEF RunOf
  <2>2. Number(n) = <<Digits[n + 1]>> BY <2>0, NumberIs
  <2>3. n \in 0 .. 9 BY <1>2
  <2>4. Digits[n + 1] \in DigitSet BY <2>3, DigitIs
  <2> DEFINE c == Digits[n + 1]
  <2>5. c \in Chars /\ "@" \in Chars BY <2>4, CharsAre
  <2>6. RunOf(n) = <<"@">> \o <<c>> BY <2>1, <2>2
  <2> HIDE DEF c
  <2>7. <<"@">> \o <<c>> = <<"@", c>> BY <2>5, PairIs
  <2>8. <<"@", c>> \in Texts /\ Len(<<"@", c>>) = 2 /\ Len(<<>>) = 0 BY <2>5, TwoIs
  <2>9. RunOf(n) = <<"@", c>> BY <2>6, <2>7
  <2>10. RunOf(n) \in Texts /\ RunOf(n) # <<>> BY <2>8, <2>9
  <2> QED BY <2>0, <2>9, <2>10 DEF c
<1>3. CASE n > 9
  <2>0. ~ (n < 4) /\ ~ (n \in 4 .. 9) /\ ~ (n < 10) BY <1>3
  <2>1. RunOf(n) = <<"@", "{">> \o Number(n) \o <<"}">> BY <2>0, Zenon DEF RunOf
  <2> DEFINE a == <<"@", "{">>
             b == Number(n)
             c == <<"}">>
  <2>2. a \in Texts /\ Len(a) = 2 BY TwoIs, CharsAre
  <2>3. b \in Texts /\ Len(b) \in Nat BY NumberTexts
  <2>4. c \in Texts /\ Len(c) = 1 BY OneIs, CharsAre
  <2> HIDE DEF a, b, c
  <2>5. a \o b \in Texts /\ Len(a \o b) = Len(a) + Len(b) BY <2>2, <2>3, Joins
  <2> DEFINE d == a \o b
  <2>6. d \in Texts /\ Len(d) = 2 + Len(b) BY <2>2, <2>5
  <2> HIDE DEF d
  <2>7. d \o c \in Texts /\ Len(d \o c) = Len(d) + Len(c) BY <2>4, <2>6, Joins
  <2>8. d \o c # <<>>
    <3>1. Len(<<>>) = 0 /\ Len(d) + Len(c) # 0 BY <2>3, <2>4, <2>6
    <3> QED BY <2>7, <3>1
  <2>9. RunOf(n) = d \o c BY <2>1 DEF a, b, c, d
  <2>10. RunOf(n) \in Texts /\ RunOf(n) # <<>> BY <2>7, <2>8, <2>9
  <2> QED BY <1>3, <2>0, <2>1, <2>10
<1>4. n < 4 \/ n \in 4 .. 9 \/ n > 9 OBVIOUS
<1> QED BY <1>1, <1>2, <1>3, <1>4

LEMMA FromText ==
  ASSUME NEW s \in Texts, NEW k \in Nat \ {0}
  PROVE  From(s, k) \in Texts
<1>1. Len(s) \in Int /\ k \in Int BY DEF Texts
<1>2. \A i \in k .. Len(s) : s[i] \in Chars BY <1>1 DEF Texts
<1> QED BY <1>1, <1>2, SubSeqProperties DEF From, Texts

\* A letter stands for a name of the table.
LEMMA NameOfIs ==
  ASSUME NEW c
  PROVE  /\ NameOf(c) \in Texts
         /\ \A i \in DOMAIN Abbreviations : Abbreviations[i].c = c => NameOf(c) = Abbreviations[i].name
<1> DEFINE is == {i \in DOMAIN Abbreviations : Abbreviations[i].c = c}
<1>1. /\ DOMAIN Abbreviations = 1 .. Len(Abbreviations) /\ Len(Abbreviations) \in Nat
      /\ \A i \in DOMAIN Abbreviations : Abbreviations[i].name \in Seq(STRING)
      /\ \A i \in DOMAIN Abbreviations : \A j \in DOMAIN Abbreviations :
           Abbreviations[i].c = Abbreviations[j].c => i = j
  BY AbbreviationsAre, Zenon
<1>2. CASE is = {}
  <2>1. NameOf(c) = <<>> BY <1>2 DEF NameOf
  <2>2. <<>> \in Texts BY DEF Texts
  <2> QED BY <1>2, <2>1, <2>2
<1>3. CASE is # {}
  <2>1. is \subseteq Nat BY <1>1
  <2>2. IsFiniteSet(is)
    <3>1. IsFiniteSet(1 .. Len(Abbreviations)) BY <1>1, FS_Interval
    <3> QED BY <1>1, <3>1, FS_Subset
  <2>3. NameOf(c) = Abbreviations[Max(is)].name BY <1>3 DEF NameOf
  <2>4. Max(is) \in is
    <3> HIDE DEF is
    <3> QED BY <1>3, <2>1, <2>2, MaxIs
  <2>5. Max(is) \in DOMAIN Abbreviations /\ Abbreviations[Max(is)].c = c BY <2>4
  <2> DEFINE m == Max(is)
  <2> HIDE DEF m
  <2>6. Abbreviations[m].name \in Seq(STRING) BY <1>1, <2>5, Zenon DEF m
  <2>7. Abbreviations[m].name \in Texts BY <2>6, StringTexts
  <2>8. \A i \in DOMAIN Abbreviations : Abbreviations[i].c = c => i = m BY <1>1, <2>5, Zenon DEF m
  <2> QED BY <2>3, <2>7, <2>8, Zenon DEF m
<1> QED BY <1>2, <1>3

LEMMA ReadIs ==
  ASSUME NEW s \in Texts, s # <<>>, NEW name \in Texts
  PROVE  Read(s, name).text \in Texts /\ Read(s, name).length \in Nat \ {0}
<1> DEFINE c == s[2]
           after == From(s, 3)
           r == Read(s, name)
<1>1. s[1] \in Chars /\ <<s[1]>> \in Texts
  <2>1. 1 \in 1 .. Len(s) BY EmptySeq DEF Texts
  <2>2. s[1] \in Chars BY <2>1, ElementOfSeq DEF Texts
  <2> QED BY <2>2, OneIs
<1>2. after \in Texts BY FromText
<1>3. NumberAt(after) \in Nat BY <1>2, NumberAtIs
<1>4. DigitsAt(after) \in Nat
  <2>1. DigitsAt(after) \in 0 .. Len(after) /\ Len(after) \in Nat BY <1>2, RunAtIs DEF DigitsAt, Texts
  <2> QED BY <2>1
<1>5. Blanks(NumberAt(after)) \in Texts BY <1>3, BlanksAre
<1>6. c \in DigitSet => Blanks(Value(c)) \in Texts
  <2> SUFFICES ASSUME c \in DigitSet PROVE Blanks(Value(c)) \in Texts OBVIOUS
  <2> HIDE DEF c
  <2>1. Value(c) \in 0 .. 9 BY ValueIs
  <2>2. Value(c) \in Nat BY <2>1
  <2> QED BY <2>2, BlanksAre
<1>7. <<"@">> \in Texts BY OneIs, CharsAre
<1>8. NameOf(c) \in Texts BY NameOfIs
<1>9. DigitsAt(after) + 3 \in Nat \ {0} /\ 1 \in Nat \ {0} /\ 2 \in Nat \ {0} BY <1>4
<1>10. \/ r = [text |-> <<s[1]>>, length |-> 1]
       \/ r = [text |-> <<"@">>, length |-> 2]
       \/ r = [text |-> name, length |-> 2]
       \/ r = [text |-> Blanks(NumberAt(after)), length |-> DigitsAt(after) + 3]
       \/ c \in DigitSet /\ r = [text |-> Blanks(Value(c)), length |-> 2]
       \/ r = [text |-> NameOf(c), length |-> 2]
  BY Zenon DEF Read, DigitSet
<1> HIDE DEF c, after, r
<1>11. r.text \in Texts /\ r.length \in Nat \ {0}
  <2>1. CASE r = [text |-> <<s[1]>>, length |-> 1] BY <1>1, <1>9, <2>1
  <2>2. CASE r = [text |-> <<"@">>, length |-> 2] BY <1>7, <1>9, <2>2
  <2>3. CASE r = [text |-> name, length |-> 2] BY <1>9, <2>3
  <2>4. CASE r = [text |-> Blanks(NumberAt(after)), length |-> DigitsAt(after) + 3] BY <1>5, <1>9, <2>4
  <2>5. CASE c \in DigitSet /\ r = [text |-> Blanks(Value(c)), length |-> 2] BY <1>6, <1>9, <2>5
  <2>6. CASE r = [text |-> NameOf(c), length |-> 2] BY <1>8, <1>9, <2>6
  <2> QED BY <1>10, <2>1, <2>2, <2>3, <2>4, <2>5, <2>6
<1> QED BY <1>11 DEF r

\* What is written for what a text begins with.
LEMMA WrittenIs ==
  ASSUME NEW s \in Texts, s # <<>>, NEW name \in Texts, name # <<>>
  PROVE  /\ Written(s, name).text \in Texts /\ Written(s, name).text # <<>>
         /\ Written(s, name).length \in 1 .. Len(s)
         /\ \/ /\ s[1] = " " /\ Written(s, name).length = RunAt(s, {" "})
               /\ Written(s, name).text = RunOf(RunAt(s, {" "}))
            \/ /\ s[1] = "@" /\ Written(s, name).length = 1
               /\ Written(s, name).text = <<"@", "@">>
            \/ /\ IsPrefix(name, s) /\ Written(s, name).length = Len(name)
               /\ Written(s, name).text = <<"@", "n">>
            \/ \E i \in DOMAIN Abbreviations :
                 /\ IsPrefix(Abbreviations[i].name, s)
                 /\ Written(s, name).length = Len(Abbreviations[i].name)
                 /\ Written(s, name).text = <<"@", Abbreviations[i].c>>
            \/ /\ s[1] # "@" /\ Written(s, name).length = 1
               /\ Written(s, name).text = <<s[1]>>
<1> DEFINE w == Written(s, name)
           blanks == RunAt(s, {" "})
           is == AbbreviationsOf(s)
           k == Min(is)
           ab == Abbreviations[k]
<1>1. Len(s) \in Nat \ {0} /\ 1 \in 1 .. Len(s) BY EmptySeq DEF Texts
<1>2. s[1] \in Chars BY <1>1, ElementOfSeq DEF Texts
<1>3. blanks \in 0 .. Len(s) /\ (s[1] = " " => blanks # 0)
  <2>1. blanks \in 0 .. Len(s) /\ (blanks < Len(s) => s[blanks + 1] \notin {" "}) BY RunAtIs
  <2>2. ASSUME blanks = 0 PROVE s[1] # " "
    <3>1. 0 < Len(s) /\ 0 + 1 = 1 BY <1>1
    <3> QED BY <2>1, <2>2, <3>1
  <2> QED BY <2>1, <2>2
<1>4. /\ DOMAIN Abbreviations = 1 .. Len(Abbreviations) /\ Len(Abbreviations) \in Nat
      /\ \A i \in DOMAIN Abbreviations :
           /\ Abbreviations[i].name \in Seq(STRING) /\ Abbreviations[i].name # <<>>
           /\ Abbreviations[i].c \in STRING
  BY AbbreviationsAre, Zenon
<1>5. is # {} => k \in DOMAIN Abbreviations /\ IsPrefix(ab.name, s)
  <2>1. is \subseteq Nat BY <1>4 DEF AbbreviationsOf
  <2>2. is # {} => k \in is
    <3> HIDE DEF is
    <3> QED BY <2>1, LeastIs
  <2> QED BY <2>2 DEF AbbreviationsOf
<1> HIDE DEF blanks, is, k
<1>6. \/ s[1] = " " /\ w = [text |-> RunOf(blanks), length |-> blanks]
      \/ s[1] = "@" /\ w = [text |-> <<"@", "@">>, length |-> 1]
      \/ IsPrefix(name, s) /\ w = [text |-> <<"@", "n">>, length |-> Len(name)]
      \/ is # {} /\ w = [text |-> <<"@", ab.c>>, length |-> Len(ab.name)]
      \/ s[1] # "@" /\ w = [text |-> <<s[1]>>, length |-> 1]
  BY Zenon DEF Written, blanks, is, k
<1>7. CASE s[1] = " " /\ w = [text |-> RunOf(blanks), length |-> blanks]
  <2> HIDE DEF w
  <2>0. blanks # 0 BY <1>3, <1>7
  <2>1. blanks \in Nat \ {0} /\ blanks \in 1 .. Len(s)
    <3> DEFINE L == Len(s)
    <3>1. L \in Nat /\ blanks \in 0 .. L BY <1>1, <1>3
    <3> HIDE DEF L
    <3>2. blanks \in Nat \ {0} /\ blanks \in 1 .. L BY <2>0, <3>1
    <3> QED BY <3>2 DEF L
  <2>2. RunOf(blanks) \in Texts /\ RunOf(blanks) # <<>> BY <2>1, RunOfIs
  <2> DEFINE b == RunOf(blanks)
  <2>3. w.text = b /\ w.length = blanks
    <3> HIDE DEF b
    <3>1. w = [text |-> b, length |-> blanks] BY <1>7 DEF b
    <3> QED BY <3>1
  <2> QED BY <1>7, <2>1, <2>2, <2>3 DEF w, blanks
<1>8. CASE s[1] = "@" /\ w = [text |-> <<"@", "@">>, length |-> 1]
  <2>1. w.text = <<"@", "@">> /\ w.length = 1 BY <1>8
  <2>2. <<"@", "@">> \in Texts /\ <<"@", "@">> # <<>> BY TwoIs, CharsAre
  <2> QED BY <1>1, <1>8, <2>1, <2>2
<1>9. CASE IsPrefix(name, s) /\ w = [text |-> <<"@", "n">>, length |-> Len(name)]
  <2>1. w.text = <<"@", "n">> /\ w.length = Len(name) BY <1>9
  <2>2. <<"@", "n">> \in Texts /\ <<"@", "n">> # <<>> BY TwoIs, CharsAre
  <2>3. Len(name) \in 1 .. Len(s)
    <3>1. Len(name) \in Nat \ {0} BY EmptySeq DEF Texts
    <3>2. Len(name) <= Len(s) BY <1>9 DEF IsPrefix
    <3> QED BY <1>1, <3>1, <3>2
  <2> QED BY <1>9, <2>1, <2>2, <2>3
<1>10. CASE is # {} /\ w = [text |-> <<"@", ab.c>>, length |-> Len(ab.name)]
  <2>1. w.text = <<"@", ab.c>> /\ w.length = Len(ab.name) BY <1>10
  <2>2. k \in DOMAIN Abbreviations /\ IsPrefix(ab.name, s) BY <1>5, <1>10
  <2>3. ab.name \in Seq(STRING) /\ ab.name # <<>> /\ ab.c \in STRING BY <1>4, <2>2
  <2>4. ab.c \in Chars BY <2>3 DEF Chars
  <2>5. <<"@", ab.c>> \in Texts /\ <<"@", ab.c>> # <<>>
    <3> DEFINE b == ab.c
    <3>1. b \in Chars BY <2>4
    <3> HIDE DEF b
    <3>2. <<"@", b>> \in Texts /\ <<"@", b>> # <<>> BY <3>1, TwoIs, CharsAre
    <3> QED BY <3>2 DEF b
  <2>6. Len(ab.name) \in 1 .. Len(s)
    <3> DEFINE b == ab.name
    <3>1. b \in Seq(STRING) /\ b # <<>> BY <2>3
    <3>2. Len(b) <= Len(s) BY <2>2 DEF IsPrefix
    <3> HIDE DEF b
    <3>3. Len(b) \in Nat \ {0} BY <3>1, EmptySeq
    <3>4. Len(b) \in 1 .. Len(s) BY <1>1, <3>2, <3>3
    <3> QED BY <3>4 DEF b
  <2> HIDE DEF w
  <2>7. w.text \in Texts /\ w.text # <<>> /\ w.length \in 1 .. Len(s) BY <2>1, <2>5, <2>6, Zenon
  <2> QED BY <2>1, <2>2, <2>7, Zenon DEF w
<1>11. CASE s[1] # "@" /\ w = [text |-> <<s[1]>>, length |-> 1]
  <2>1. w.text = <<s[1]>> /\ w.length = 1 BY <1>11
  <2>2. <<s[1]>> \in Texts /\ Len(<<s[1]>>) = 1 /\ Len(<<>>) = 0 BY <1>2, OneIs
  <2>3. <<s[1]>> # <<>> BY <2>2
  <2> QED BY <1>1, <1>11, <2>1, <2>2, <2>3
<1> QED BY <1>6, <1>7, <1>8, <1>9, <1>10, <1>11

----------------------------------------------------------------------------
(* A text is compressed, and uncompressed, piece after piece.              *)

Goes(n, p, m, q) ==
  /\ n \in Nat \ {0} /\ Pieces(n, p) /\ m = Jump(p, n)
  /\ Pieces(m, q) /\ \A i \in 1 .. m : q[i] = p[i]

Gone(n, p, m, q) == InTurn(n, p)[n] = p[n].text \o InTurn(m, q)[m]

LEMMA InTurnStep ==
  ASSUME NEW n, NEW p, NEW m, NEW q, Goes(n, p, m, q)
  PROVE  Gone(n, p, m, q)
<1> n \in Nat \ {0} /\ Pieces(n, p) /\ m = Jump(p, n) /\ Pieces(m, q) /\ \A i \in 1 .. m : q[i] = p[i]
  BY DEF Goes
<1>1. n \in Nat /\ n \in 1 .. n OBVIOUS
<1>2. m \in 0 .. n - 1
  <2>1. Jump(p, n) \in 0 .. n - 1 BY <1>1, JumpIs
  <2> QED BY <2>1
<1>3. m \in Nat /\ m <= n BY <1>2
<1>4. Turns(InTurn(n, p), n, p) BY <1>1, InTurnIs
<1>5. InTurn(n, p)[n] = p[n].text \o InTurn(n, p)[m] BY <1>1, <1>4, Zenon DEF Turns
<1>6. InTurn(n, p)[m] = InTurn(m, q)[m] BY <1>1, <1>3, InTurnEnd
<1> QED BY <1>5, <1>6, Zenon DEF Gone

LEMMA TextOf ==
  ASSUME NEW n \in Nat, NEW p, Pieces(n, p)
  PROVE  InTurn(n, p)[n] \in Texts
<1>1. Turns(InTurn(n, p), n, p) BY InTurnIs
<1>2. n \in 0 .. n OBVIOUS
<1> QED BY <1>1, <1>2, Zenon DEF Turns

LEMMA NotEmpty ==
  ASSUME NEW s \in Texts
  PROVE  Len(s) \in Nat /\ (Len(s) # 0 <=> s # <<>>)
<1>1. Len(s) \in Nat /\ (s # <<>> => Len(s) # 0) /\ Len(<<>>) = 0 BY EmptySeq DEF Texts
<1> QED BY <1>1

WrittenPieces(s, name) == [n \in 1 .. Len(s) |-> Written(LastOf(s, n), name)]
ReadPieces(s, name) == [n \in 1 .. Len(s) |-> Read(LastOf(s, n), name)]

LEMMA WrittenPiecesAre ==
  ASSUME NEW s \in Texts, NEW name \in Texts, name # <<>>
  PROVE  Pieces(Len(s), WrittenPieces(s, name))
<1> SUFFICES ASSUME NEW n \in 1 .. Len(s)
             PROVE  /\ WrittenPieces(s, name)[n].text \in Texts
                    /\ WrittenPieces(s, name)[n].length \in Nat \ {0}
  BY DEF Pieces
<1>1. n \in 0 .. Len(s) /\ Len(s) \in Nat BY NotEmpty
<1> DEFINE t == LastOf(s, n)
<1>2. t \in Texts /\ t # <<>>
  <2>1. t \in Texts /\ Len(t) = n BY <1>1, LastOfIs
  <2>2. n # 0 BY <1>1
  <2> HIDE DEF t
  <2> QED BY <2>1, <2>2, NotEmpty
<1>3. WrittenPieces(s, name)[n] = Written(t, name) BY Zenon DEF WrittenPieces
<1> HIDE DEF t
<1>4. Written(t, name).text \in Texts /\ Written(t, name).length \in 1 .. Len(t) BY <1>2, WrittenIs, Zenon
<1>5. Written(t, name).length \in Nat \ {0}
  <2> DEFINE k == Written(t, name).length
  <2>1. k \in 1 .. Len(t) /\ Len(t) \in Nat BY <1>2, <1>4, NotEmpty
  <2> HIDE DEF k
  <2>2. k \in Nat \ {0} BY <2>1
  <2> QED BY <2>2 DEF k
<1> QED BY <1>3, <1>4, <1>5, Zenon

LEMMA ReadPiecesAre ==
  ASSUME NEW s \in Texts, NEW name \in Texts
  PROVE  Pieces(Len(s), ReadPieces(s, name))
<1> SUFFICES ASSUME NEW n \in 1 .. Len(s)
             PROVE  /\ ReadPieces(s, name)[n].text \in Texts
                    /\ ReadPieces(s, name)[n].length \in Nat \ {0}
  BY DEF Pieces
<1>1. n \in 0 .. Len(s) /\ Len(s) \in Nat BY NotEmpty
<1> DEFINE t == LastOf(s, n)
<1>2. t \in Texts /\ t # <<>>
  <2>1. t \in Texts /\ Len(t) = n BY <1>1, LastOfIs
  <2>2. n # 0 BY <1>1
  <2> HIDE DEF t
  <2> QED BY <2>1, <2>2, NotEmpty
<1>3. ReadPieces(s, name)[n] = Read(t, name) BY Zenon DEF ReadPieces
<1> HIDE DEF t
<1>4. Read(t, name).text \in Texts /\ Read(t, name).length \in Nat \ {0} BY <1>2, ReadIs
<1> QED BY <1>3, <1>4, Zenon

LEMMA compressIs ==
  ASSUME NEW s \in Texts, NEW name \in Texts, name # <<>>
  PROVE  /\ compress(s, name) \in Texts
         /\ s = <<>> => compress(s, name) = <<>>
         /\ s # <<>> => compress(s, name) = Written(s, name).text \o
                                              compress(LastOf(s, Len(s) - Written(s, name).length), name)
<1> DEFINE L == Len(s)
           p == WrittenPieces(s, name)
<1>1. Pieces(L, p) BY WrittenPiecesAre
<1>2. L \in Nat BY NotEmpty
<1>3. compress(s, name) = InTurn(L, p)[L] BY DEF compress, WrittenPieces
<1>4. compress(s, name) \in Texts
  <2> HIDE DEF L, p
  <2> QED BY <1>1, <1>2, <1>3, TextOf
<1>5. ASSUME s = <<>> PROVE compress(s, name) = <<>>
  <2>1. L = 0 BY <1>5, NotEmpty
  <2>2. Turns(InTurn(L, p), L, p)
    <3> HIDE DEF L, p
    <3> QED BY <1>1, <1>2, InTurnIs
  <2> HIDE DEF L, p
  <2> QED BY <1>3, <2>1, <2>2, Zenon DEF Turns
<1>6. ASSUME s # <<>>
      PROVE  compress(s, name) = Written(s, name).text \o
                                   compress(LastOf(s, Len(s) - Written(s, name).length), name)
  <2> DEFINE k == Written(s, name).length
             m == L - k
             y == LastOf(s, m)
             q == WrittenPieces(y, name)
  <2>1. L \in Nat \ {0} BY <1>6, NotEmpty
  <2>2. k \in 1 .. L BY <1>6, WrittenIs
  <2>3. p[L] = Written(s, name)
    <3>1. L \in 1 .. Len(s) BY <2>1
    <3>2. p[L] = Written(LastOf(s, L), name)
      <4> HIDE DEF L
      <4> QED BY <3>1, Zenon DEF WrittenPieces
    <3> QED BY <3>2, LastOfAll
  <2>4. m = Jump(p, L)
    <3>1. Jump(p, L) = IF k < L THEN L - k ELSE 0 BY <2>3, Zenon DEF Jump
    <3> HIDE DEF k, L, p
    <3> QED BY <2>1, <2>2, <3>1
  <2>5. m \in 0 .. Len(s) /\ m \in 0 .. L
    <3>1. m \in 0 .. L
      <4> HIDE DEF k, L
      <4> QED BY <2>1, <2>2
    <3> QED BY <3>1
  <2>6. y \in Texts /\ Len(y) = m
    <3> HIDE DEF m
    <3> QED BY <2>5, LastOfIs
  <2>7. Pieces(m, q)
    <3>1. Pieces(Len(y), q)
      <4> HIDE DEF y
      <4> QED BY <2>6, WrittenPiecesAre
    <3> QED BY <2>6, <3>1, Zenon
  <2>8. \A i \in 1 .. m : q[i] = p[i]
    <3> SUFFICES ASSUME NEW i \in 1 .. m PROVE q[i] = p[i] OBVIOUS
    <3>1. i \in 1 .. Len(s) /\ i \in 1 .. Len(y) /\ i \in 0 .. m
      <4> HIDE DEF m, y
      <4> QED BY <2>1, <2>5, <2>6
    <3>2. q[i] = Written(LastOf(y, i), name) /\ p[i] = Written(LastOf(s, i), name)
      <4> HIDE DEF y
      <4> QED BY <3>1, Zenon DEF WrittenPieces
    <3>3. LastOf(y, i) = LastOf(s, i)
      <4> HIDE DEF m
      <4> QED BY <2>5, <3>1, LastOfLast
    <3> QED BY <3>2, <3>3, Zenon
  <2>9. compress(y, name) = InTurn(m, q)[m]
    <3>1. compress(y, name) = InTurn(Len(y), q)[Len(y)]
      <4> HIDE DEF y
      <4> QED BY DEF compress, WrittenPieces
    <3> QED BY <2>6, <3>1, Zenon
  <2>10. InTurn(L, p)[L] = p[L].text \o InTurn(m, q)[m]
    <3> HIDE DEF L, p, m, q
    <3>1. Goes(L, p, m, q) BY <1>1, <2>1, <2>4, <2>7, <2>8, Zenon DEF Goes
    <3>2. Gone(L, p, m, q) BY <3>1, InTurnStep, Zenon
    <3> QED BY <3>2 DEF Gone
  <2>11. compress(s, name) = p[L].text \o compress(y, name) BY <1>3, <2>9, <2>10, Zenon
  <2> QED BY <2>3, <2>11, Zenon
<1> QED BY <1>4, <1>5, <1>6

\* A text that begins with a piece whose length the reading finds.
LEMMA uncompressIs ==
  ASSUME NEW name \in Texts, NEW a \in Texts, a # <<>>, NEW u \in Texts,
         Read(a \o u, name).length = Len(a)
  PROVE  /\ uncompress(a \o u, name) \in Texts
         /\ uncompress(a \o u, name) = Read(a \o u, name).text \o uncompress(u, name)
<1> DEFINE s == a \o u
           L == Len(s)
           m == Len(u)
           k == Read(s, name).length
           p == ReadPieces(s, name)
           q == ReadPieces(u, name)
<1>1. /\ s \in Texts /\ L = Len(a) + m
      /\ \A i \in 1 .. Len(a) + m : s[i] = IF i <= Len(a) THEN a[i] ELSE u[i - Len(a)]
  BY Joins
<1>2. Len(a) \in Nat \ {0} /\ m \in Nat BY NotEmpty
<1>3. L \in Nat \ {0} /\ L \in Nat /\ m \in 0 .. L
  <2> HIDE DEF L, m
  <2> QED BY <1>1, <1>2
<1>4. LastOf(s, m) = u
  <2> DEFINE y == LastOf(s, m)
  <2>1. y \in Texts /\ Len(y) = m /\ \A i \in 1 .. m : y[i] = s[L - m + i]
    <3> HIDE DEF s, m
    <3> QED BY <1>1, <1>3, LastOfIs
  <2>2. ASSUME NEW i \in 1 .. m PROVE y[i] = u[i]
    <3>1. L - m + i = Len(a) + i /\ Len(a) + i \in 1 .. Len(a) + m /\ ~ (Len(a) + i <= Len(a))
          /\ (Len(a) + i) - Len(a) = i
      <4> HIDE DEF L, m
      <4> QED BY <1>1, <1>2
    <3>2. s[Len(a) + i] = u[(Len(a) + i) - Len(a)]
      <4> HIDE DEF s, m
      <4> QED BY <1>1, <3>1, Zenon
    <3>3. y[i] = s[Len(a) + i]
      <4> HIDE DEF s, m, y, L
      <4> QED BY <2>1, <3>1
    <3> QED BY <3>1, <3>2, <3>3
  <2>3. Len(y) = Len(u) /\ \A i \in 1 .. Len(y) : y[i] = u[i]
    <3> HIDE DEF y
    <3> QED BY <2>1, <2>2
  <2> HIDE DEF y
  <2>4. y = u BY <2>1, <2>3, SameTexts
  <2> QED BY <2>4 DEF y
<1> HIDE DEF s
<1>5. Pieces(L, p) BY <1>1, ReadPiecesAre
<1>6. Pieces(m, q) BY ReadPiecesAre
<1>7. p[L] = Read(s, name)
  <2>1. L \in 1 .. Len(s) BY <1>3
  <2>2. p[L] = Read(LastOf(s, L), name)
    <3> HIDE DEF L
    <3> QED BY <2>1, Zenon DEF ReadPieces
  <2> QED BY <1>1, <2>2, LastOfAll
<1>8. m = Jump(p, L)
  <2>1. Jump(p, L) = IF k < L THEN L - k ELSE 0 BY <1>7, Zenon DEF Jump
  <2>2. k = Len(a) BY DEF s
  <2> HIDE DEF k, L, p, m
  <2> QED BY <1>1, <1>2, <2>1, <2>2
<1>9. \A i \in 1 .. m : q[i] = p[i]
  <2> SUFFICES ASSUME NEW i \in 1 .. m PROVE q[i] = p[i] OBVIOUS
  <2>1. i \in 1 .. Len(s) /\ i \in 1 .. Len(u) /\ i \in 0 .. m
    <3>1. i \in 1 .. L /\ i \in 1 .. m /\ i \in 0 .. m
      <4> HIDE DEF m, L
      <4> QED BY <1>1, <1>2
    <3> QED BY <3>1
  <2>2. q[i] = Read(LastOf(u, i), name) /\ p[i] = Read(LastOf(s, i), name)
    BY <2>1, Zenon DEF ReadPieces
  <2>3. LastOf(u, i) = LastOf(s, i)
    <3>1. LastOf(LastOf(s, m), i) = LastOf(s, i)
      <4> HIDE DEF m
      <4> QED BY <1>1, <1>3, <2>1, LastOfLast
    <3> QED BY <1>4, <3>1, Zenon
  <2> QED BY <2>2, <2>3, Zenon
<1>10. uncompress(s, name) = InTurn(L, p)[L] /\ uncompress(u, name) = InTurn(m, q)[m]
  BY DEF uncompress, ReadPieces
<1>11. InTurn(L, p)[L] = p[L].text \o InTurn(m, q)[m]
  <2> HIDE DEF L, p, m, q
  <2>1. Goes(L, p, m, q) BY <1>3, <1>5, <1>6, <1>8, <1>9, Zenon DEF Goes
  <2>2. Gone(L, p, m, q) BY <2>1, InTurnStep, Zenon
  <2> QED BY <2>2 DEF Gone
<1>12. uncompress(s, name) \in Texts
  <2> HIDE DEF L, p
  <2> QED BY <1>3, <1>5, <1>10, TextOf
<1>13. uncompress(s, name) = Read(s, name).text \o uncompress(u, name)
  BY <1>7, <1>10, <1>11, Zenon
<1> QED BY <1>12, <1>13 DEF s

LEMMA uncompressText ==
  ASSUME NEW s \in Texts, NEW name \in Texts
  PROVE  uncompress(s, name) \in Texts /\ uncompress(<<>>, name) = <<>>
<1>1. ASSUME NEW t \in Texts PROVE uncompress(t, name) \in Texts
  <2>1. Pieces(Len(t), ReadPieces(t, name)) /\ Len(t) \in Nat BY ReadPiecesAre, NotEmpty
  <2>2. uncompress(t, name) = InTurn(Len(t), ReadPieces(t, name))[Len(t)] BY DEF uncompress, ReadPieces
  <2> QED BY <2>1, <2>2, TextOf
<1>2. <<>> \in Texts /\ Len(<<>>) = 0 BY DEF Texts
<1>3. uncompress(<<>>, name) = <<>>
  <2> DEFINE p == ReadPieces(<<>>, name)
  <2>1. Pieces(0, p)
    <3>1. Pieces(Len(<<>>), p) BY <1>2, ReadPiecesAre
    <3> QED BY <1>2, <3>1, Zenon
  <2>2. uncompress(<<>>, name) = InTurn(0, p)[0]
    <3>1. uncompress(<<>>, name) = InTurn(Len(<<>>), p)[Len(<<>>)] BY DEF uncompress, ReadPieces
    <3> QED BY <1>2, <3>1, Zenon
  <2>3. Turns(InTurn(0, p), 0, p)
    <3> HIDE DEF p
    <3> QED BY <2>1, InTurnIs
  <2> HIDE DEF p
  <2> QED BY <2>2, <2>3, Zenon DEF Turns
<1> QED BY <1>1, <1>3

----------------------------------------------------------------------------
(* What is written for a piece is read as that piece, whatever comes after. *)

LEMMA Assoc ==
  ASSUME NEW a, NEW b, NEW c, a \in Texts, b \in Texts, c \in Texts
  PROVE  (a \o b) \o c = a \o (b \o c)
BY ConcatAssociative DEF Texts

\* What a text that begins with one or two characters reads like.
LEMMA AfterOne ==
  ASSUME NEW c \in Chars, NEW u \in Texts
  PROVE  <<c>> \o u \in Texts /\ (<<c>> \o u)[1] = c
<1> DEFINE a == <<c>>
<1>1. a \in Texts /\ Len(a) = 1 /\ a[1] = c BY OneIs
<1> HIDE DEF a
<1>2. /\ a \o u \in Texts /\ Len(a) \in Nat /\ Len(u) \in Nat
      /\ \A i \in 1 .. Len(a) + Len(u) : (a \o u)[i] = IF i <= Len(a) THEN a[i] ELSE u[i - Len(a)]
  BY <1>1, Joins, Zenon
<1>3. 1 \in 1 .. Len(a) + Len(u) /\ 1 <= Len(a) BY <1>1, <1>2
<1>4. (a \o u)[1] = c BY <1>1, <1>2, <1>3, Zenon
<1> QED BY <1>2, <1>4 DEF a

LEMMA AfterTwo ==
  ASSUME NEW c \in Chars, NEW d \in Chars, NEW u \in Texts
  PROVE  /\ <<c, d>> \o u \in Texts /\ (<<c, d>> \o u)[1] = c /\ (<<c, d>> \o u)[2] = d
         /\ From(<<c, d>> \o u, 3) = u
<1> DEFINE a == <<c, d>>
           t == a \o u
<1>1. a \in Texts /\ Len(a) = 2 /\ a[1] = c /\ a[2] = d BY TwoIs
<1> HIDE DEF a
<1>2. /\ t \in Texts /\ Len(u) \in Nat /\ Len(t) = Len(a) + Len(u)
      /\ \A i \in 1 .. Len(a) + Len(u) : t[i] = IF i <= Len(a) THEN a[i] ELSE u[i - Len(a)]
  BY <1>1, Joins, Zenon
<1> HIDE DEF t
<1>3. 1 \in 1 .. Len(a) + Len(u) /\ 1 <= Len(a) /\ 2 \in 1 .. Len(a) + Len(u) /\ 2 <= Len(a)
  BY <1>1, <1>2
<1>4. t[1] = c /\ t[2] = d BY <1>1, <1>2, <1>3, Zenon
<1>5. From(t, 3) = u
  <2> DEFINE v == From(t, 3)
  <2>1. 3 \in 1 .. Len(t) + 1 /\ Len(t) - 3 + 1 = Len(u) BY <1>1, <1>2
  <2>2. v \in Texts /\ Len(v) = Len(u) /\ \A i \in 1 .. Len(u) : v[i] = t[3 + i - 1]
    <3>1. v \in Texts /\ Len(v) = Len(t) - 3 + 1 /\ \A i \in 1 .. Len(t) - 3 + 1 : v[i] = t[3 + i - 1]
      BY <1>2, <2>1, FromIs
    <3> HIDE DEF v
    <3> QED BY <2>1, <3>1, Zenon
  <2> HIDE DEF v
  <2>3. ASSUME NEW i \in 1 .. Len(v) PROVE v[i] = u[i]
    <3>1. 3 + i - 1 \in 1 .. Len(a) + Len(u) /\ ~ (3 + i - 1 <= Len(a)) /\ (3 + i - 1) - Len(a) = i
      BY <1>1, <1>2, <2>2
    <3>2. t[3 + i - 1] = u[(3 + i - 1) - Len(a)] BY <1>2, <3>1, Zenon
    <3>3. i \in 1 .. Len(u) BY <2>2
    <3> QED BY <2>2, <3>1, <3>2, <3>3
  <2>4. v = u BY <2>2, <2>3, SameTexts
  <2> QED BY <2>4 DEF v
<1> QED BY <1>2, <1>4, <1>5 DEF t, a

\* A character that is not "@" stands for itself.
LEMMA PlainBack ==
  ASSUME NEW c \in Chars, c # "@", NEW u \in Texts, NEW name \in Texts
  PROVE  uncompress(<<c>> \o u, name) = <<c>> \o uncompress(u, name)
<1> DEFINE a == <<c>>
           t == a \o u
<1>1. t \in Texts /\ t[1] = c BY AfterOne
<1>2. a \in Texts /\ Len(a) = 1 /\ a # <<>>
  <2>1. a \in Texts /\ Len(a) = 1 /\ Len(<<>>) = 0 BY OneIs
  <2> HIDE DEF a
  <2> QED BY <2>1
<1>3. Read(t, name).text = a /\ Read(t, name).length = 1
  <2> HIDE DEF t
  <2>1. Read(t, name) = [text |-> <<t[1]>>, length |-> 1] BY <1>1, Zenon DEF Read
  <2> QED BY <1>1, <2>1
<1> HIDE DEF a
<1>4. Read(a \o u, name).length = Len(a) BY <1>2, <1>3
<1>5. uncompress(t, name) = Read(t, name).text \o uncompress(u, name) BY <1>2, <1>4, uncompressIs
<1>6. uncompress(t, name) = a \o uncompress(u, name) BY <1>3, <1>5
<1> QED BY <1>6 DEF a

\* A mark of two characters.
Stands(c, x, name) ==
  \/ c = "@" /\ x = <<"@">>
  \/ c = "n" /\ x = name
  \/ c \in DigitSet /\ x = Blanks(Value(c))
  \/ c \notin {"@", "n", "{"} \cup DigitSet /\ x = NameOf(c)

ComesBack(c, x, u, name) == uncompress(<<"@", c>> \o u, name) = x \o uncompress(u, name)

LEMMA MarkBack ==
  ASSUME NEW c \in Chars, NEW x, NEW u \in Texts, NEW name \in Texts, Stands(c, x, name)
  PROVE  ComesBack(c, x, u, name)
<1> DEFINE a == <<"@", c>>
           t == a \o u
<1>1. t \in Texts /\ t[1] = "@" /\ t[2] = c
  <2> DEFINE at == "@"
             z == <<at, c>> \o u
  <2>1. at \in Chars BY CharsAre
  <2> HIDE DEF at
  <2>2. z \in Texts /\ z[1] = at /\ z[2] = c BY <2>1, AfterTwo
  <2> QED BY <2>2 DEF at
<1>2. a \in Texts /\ Len(a) = 2 /\ a # <<>>
  <2>1. a \in Texts /\ Len(a) = 2
    <3> DEFINE at == "@"
    <3>1. at \in Chars BY CharsAre
    <3> HIDE DEF at
    <3>2. <<at, c>> \in Texts /\ Len(<<at, c>>) = 2 BY <3>1, TwoIs
    <3> QED BY <3>2 DEF at
  <2> HIDE DEF a
  <2>2. Len(a) # 0 BY <2>1
  <2> QED BY <2>1, <2>2, NotEmpty
<1>3. c \in DigitSet => c \notin {"@", "n", "{"} BY DigitSetIs
<1>4. Read(t, name) = [text |-> x, length |-> 2]
  <2> HIDE DEF t
  <2>1. CASE c = "@" /\ x = <<"@">> BY <1>1, <2>1, Zenon DEF Read
  <2>2. CASE c = "n" /\ x = name
    <3>1. c # "@" BY <2>2
    <3> QED BY <1>1, <2>2, <3>1, Zenon DEF Read
  <2>3. CASE c \in DigitSet /\ x = Blanks(Value(c))
    <3>1. c # "@" /\ c # "n" /\ c # "{" BY <1>3, <2>3
    <3> QED BY <1>1, <2>3, <3>1, Zenon DEF Read, DigitSet
  <2>4. CASE c \notin {"@", "n", "{"} \cup DigitSet /\ x = NameOf(c)
    <3>1. c # "@" /\ c # "n" /\ c # "{" /\ c \notin DigitSet BY <2>4
    <3> QED BY <1>1, <2>4, <3>1, Zenon DEF Read, DigitSet
  <2> QED BY <2>1, <2>2, <2>3, <2>4, Zenon DEF Stands
<1>5. Read(t, name).text = x /\ Read(t, name).length = 2
  <2> DEFINE r == Read(t, name)
  <2>1. r = [text |-> x, length |-> 2] BY <1>4
  <2> HIDE DEF r, t
  <2>2. r.text = x /\ r.length = 2 BY <2>1
  <2> QED BY <2>2 DEF r
<1> HIDE DEF a
<1>6. Read(a \o u, name).length = Len(a) BY <1>2, <1>5
<1>7. uncompress(t, name) = Read(t, name).text \o uncompress(u, name) BY <1>2, <1>6, uncompressIs
<1>8. uncompress(t, name) = x \o uncompress(u, name) BY <1>5, <1>7
<1> QED BY <1>8, Zenon DEF a, ComesBack

\* A run of blanks whose number is in braces.
LEMMA ManyBack ==
  ASSUME NEW n \in Nat, NEW u \in Texts, NEW name \in Texts
  PROVE  uncompress((<<"@", "{">> \o Number(n) \o <<"}">>) \o u, name) = Blanks(n) \o uncompress(u, name)
<1> DEFINE b == <<"@", "{">>
           d == Number(n)
           c == <<"}">>
           e == c \o u
           a == (b \o d) \o c
           v == d \o e
           t == a \o u
<1>1. b \in Texts /\ Len(b) = 2 BY TwoIs, CharsAre
<1>2. d \in Texts /\ Len(d) \in Nat BY NumberTexts
<1>3. c \in Texts /\ Len(c) = 1 BY OneIs, CharsAre
<1>4. e \in Texts /\ e[1] = "}" /\ e # <<>>
  <2>1. e \in Texts /\ e[1] = "}" BY AfterOne, CharsAre
  <2>2. Len(e) = Len(c) + Len(u) /\ Len(u) \in Nat
    <3> HIDE DEF c
    <3> QED BY <1>3, Joins
  <2> HIDE DEF e, c
  <2>3. Len(e) # 0 BY <1>3, <2>2
  <2> QED BY <2>1, <2>3, NotEmpty
<1>5. v \in Texts
  <2> HIDE DEF d, e
  <2> QED BY <1>2, <1>4, Joins
<1>6. DigitsAt(v) = Len(d) /\ NumberAt(v) = n
  <2>1. e[1] \notin DigitSet BY <1>4, DigitSetIs
  <2> HIDE DEF e
  <2> QED BY <1>4, <2>1, NumberRead
<1>7. b \o v \in Texts /\ (b \o v)[1] = "@" /\ (b \o v)[2] = "{" /\ From(b \o v, 3) = v
  <2> HIDE DEF v
  <2> QED BY <1>5, CharsAre, AfterTwo
<1> HIDE DEF b, d, c
<1>8. b \o d \in Texts /\ Len(b \o d) = Len(b) + Len(d) BY <1>1, <1>2, Joins
<1>9. a \in Texts /\ Len(a) = Len(d) + 3
  <2> DEFINE bd == b \o d
  <2>1. bd \in Texts /\ Len(bd) = 2 + Len(d) BY <1>1, <1>8
  <2> HIDE DEF bd
  <2>2. bd \o c \in Texts /\ Len(bd \o c) = Len(bd) + Len(c) BY <1>3, <2>1, Joins
  <2>3. Len(bd) + Len(c) = Len(d) + 3 BY <1>2, <1>3, <2>1
  <2> QED BY <2>2, <2>3 DEF bd
<1>10. t = b \o v
  <2>1. ((b \o d) \o c) \o u = (b \o d) \o (c \o u)
    <3> DEFINE bd == b \o d
    <3>1. bd \in Texts BY <1>8
    <3> HIDE DEF bd
    <3>2. (bd \o c) \o u = bd \o (c \o u) BY <1>3, <3>1, Assoc
    <3> QED BY <3>2 DEF bd
  <2>2. (b \o d) \o e = b \o (d \o e)
    <3>1. b \in Texts /\ d \in Texts /\ e \in Texts BY <1>1, <1>2, <1>4
    <3> HIDE DEF e
    <3> QED BY <3>1, Assoc
  <2> QED BY <2>1, <2>2, Zenon
<1> HIDE DEF v, t
<1>11. t \in Texts /\ t[1] = "@" /\ t[2] = "{" /\ From(t, 3) = v BY <1>7, <1>10
<1>12. Read(t, name) = [text |-> Blanks(NumberAt(From(t, 3))), length |-> DigitsAt(From(t, 3)) + 3]
  <2>1. "@" # "{" /\ "n" # "{" OBVIOUS
  <2> QED BY <1>11, <2>1, Zenon DEF Read
<1>13. Read(t, name) = [text |-> Blanks(n), length |-> Len(d) + 3] BY <1>6, <1>11, <1>12, Zenon
<1>14. Read(t, name).text = Blanks(n) /\ Read(t, name).length = Len(d) + 3 BY <1>13
<1>15. a # <<>>
  <2>1. Len(d) + 3 # 0 BY <1>2
  <2> HIDE DEF a
  <2> QED BY <1>9, <2>1, NotEmpty
<1>16. Read(a \o u, name).length = Len(a)
  <2> HIDE DEF a
  <2> QED BY <1>9, <1>14, Zenon DEF t
<1>17. uncompress(a \o u, name) = Read(a \o u, name).text \o uncompress(u, name)
  <2> HIDE DEF a
  <2> QED BY <1>9, <1>15, <1>16, uncompressIs
<1>18. uncompress(a \o u, name) = Blanks(n) \o uncompress(u, name) BY <1>14, <1>17, Zenon DEF t
<1> QED BY <1>18 DEF b, d, c

\* Three blanks at most stand for themselves.
LEMMA FewBack ==
  ASSUME NEW u \in Texts, NEW name \in Texts, NEW k \in 0 .. 3
  PROVE  uncompress(Blanks(k) \o u, name) = Blanks(k) \o uncompress(u, name)
<1> DEFINE U == uncompress(u, name)
           S == {n \in 0 .. 3 : uncompress(Blanks(n) \o u, name) = Blanks(n) \o U}
<1>1. U \in Texts BY uncompressText
<1> HIDE DEF U
<1>2. ASSUME NEW w \in Texts PROVE Blanks(0) \o w = w
  <2> DEFINE b == Blanks(0)
  <2>1. 0 \in Nat OBVIOUS
  <2>2. b \in Texts /\ Len(b) = 0 BY <2>1, BlanksAre
  <2> HIDE DEF b
  <2>3. b = <<>> BY <2>2, NotEmpty
  <2>4. b \o w = w BY <2>3, ConcatEmptySeq DEF Texts
  <2> QED BY <2>4 DEF b
<1>3. 0 \in S
  <2>1. Blanks(0) \o u = u /\ Blanks(0) \o U = U BY <1>1, <1>2
  <2>2. uncompress(Blanks(0) \o u, name) = Blanks(0) \o U BY <2>1, Zenon DEF U
  <2> QED BY <2>2
<1>4. ASSUME NEW n \in 1 .. 3, n - 1 \in S PROVE n \in S
  <2> DEFINE c == <<" ">>
             b == Blanks(n - 1)
             d == Blanks(n)
             v == b \o u
  <2>1. c \in Texts /\ Len(c) = 1 /\ c[1] = " " BY OneIs, CharsAre
  <2>2. b \in Texts /\ Len(b) = n - 1 /\ \A i \in 1 .. n - 1 : b[i] = " "
    <3>1. n - 1 \in Nat OBVIOUS
    <3> QED BY <3>1, BlanksAre
  <2>3. d \in Texts /\ Len(d) = n /\ \A i \in 1 .. n : d[i] = " "
    <3>1. n \in Nat OBVIOUS
    <3> QED BY <3>1, BlanksAre
  <2>4. uncompress(v, name) = b \o U BY <1>4
  <2> HIDE DEF c, b, d
  <2>5. d = c \o b
    <3>1. /\ c \o b \in Texts /\ Len(c \o b) = Len(c) + Len(b)
          /\ \A i \in 1 .. Len(c) + Len(b) : (c \o b)[i] = IF i <= Len(c) THEN c[i] ELSE b[i - Len(c)]
      BY <2>1, <2>2, Joins, Zenon
    <3>2. Len(c) + Len(b) = n /\ Len(c) = 1
      <4>1. Len(c) = 1 BY <2>1
      <4>2. Len(b) = n - 1 BY <2>2
      <4> QED BY <4>1, <4>2
    <3>3. ASSUME NEW i \in 1 .. n PROVE (c \o b)[i] = " "
      <4>1. (c \o b)[i] = IF i <= 1 THEN c[i] ELSE b[i - 1] BY <3>1, <3>2, Zenon
      <4>2. CASE i = 1
        <5>1. i <= 1 BY <4>2
        <5>2. (c \o b)[i] = c[1] BY <4>1, <4>2, <5>1, Zenon
        <5> QED BY <2>1, <5>2
      <4>3. CASE i # 1
        <5>1. ~ (i <= 1) /\ i - 1 \in 1 .. n - 1 BY <4>3
        <5> QED BY <2>2, <4>1, <5>1
      <4> QED BY <4>2, <4>3
    <3>4. Len(c \o b) = Len(d) /\ \A i \in 1 .. Len(c \o b) : (c \o b)[i] = d[i]
      BY <2>3, <3>1, <3>2, <3>3
    <3> DEFINE cb == c \o b
    <3>5. cb \in Texts /\ Len(cb) = Len(d) /\ \A i \in 1 .. Len(cb) : cb[i] = d[i] BY <3>1, <3>4
    <3> HIDE DEF cb
    <3>6. cb = d BY <2>3, <3>5, SameTexts
    <3> QED BY <3>6 DEF cb
  <2>6. d \o u = c \o v
    <3>1. c \in Texts /\ b \in Texts BY <2>1, <2>2
    <3>2. (c \o b) \o u = c \o (b \o u) BY <3>1, Assoc
    <3> QED BY <2>5, <3>2, Zenon
  <2>7. v \in Texts BY <2>2, Joins
  <2>8. uncompress(c \o v, name) = c \o uncompress(v, name)
    <3>1. " " \in Chars /\ " " # "@" BY CharsAre
    <3> HIDE DEF v
    <3> QED BY <2>7, <3>1, PlainBack DEF c
  <2>9. c \o (b \o U) = d \o U
    <3>1. c \in Texts /\ b \in Texts BY <2>1, <2>2
    <3>2. (c \o b) \o U = c \o (b \o U) BY <1>1, <3>1, Assoc
    <3> QED BY <2>5, <3>2, Zenon
  <2>10. uncompress(d \o u, name) = d \o U BY <2>4, <2>6, <2>8, <2>9, Zenon
  <2>11. n \in 0 .. 3 OBVIOUS
  <2> QED BY <2>10, <2>11 DEF d
<1>5. \A n \in 0 .. 3 : n \in S
  <2>1. 3 \in Nat OBVIOUS
  <2> HIDE DEF S
  <2> QED BY <1>3, <1>4, <2>1, UpToInduction
<1> QED BY <1>5 DEF U

LEMMA StartIs ==
  ASSUME NEW s \in Texts, NEW k \in 0 .. Len(s)
  PROVE  /\ SubSeq(s, 1, k) \in Texts /\ Len(SubSeq(s, 1, k)) = k
         /\ \A i \in 1 .. k : SubSeq(s, 1, k)[i] = s[i]
<1>1. Len(s) \in Nat /\ k \in Int /\ 1 \in Int BY NotEmpty
<1>2. \A i \in 1 .. k : s[i] \in Chars
  <2> SUFFICES ASSUME NEW i \in 1 .. k PROVE s[i] \in Chars OBVIOUS
  <2>1. i \in 1 .. Len(s) BY <1>1
  <2> QED BY <2>1, ElementOfSeq DEF Texts
<1> DEFINE t == SubSeq(s, 1, k)
<1>3. /\ t \in Seq(Chars) /\ Len(t) = IF 1 <= k THEN k - 1 + 1 ELSE 0
      /\ \A i \in 1 .. k - 1 + 1 : t[i] = s[1 + i - 1]
  BY <1>1, <1>2, SubSeqProperties
<1>4. (IF 1 <= k THEN k - 1 + 1 ELSE 0) = k /\ k - 1 + 1 = k /\ \A i \in 1 .. k : 1 + i - 1 = i BY <1>1
<1> HIDE DEF t
<1>5. t \in Texts /\ Len(t) = k /\ \A i \in 1 .. k : t[i] = s[i] BY <1>3, <1>4 DEF Texts
<1> QED BY <1>5 DEF t

LEMMA StartsWith ==
  ASSUME NEW s \in Texts, NEW x \in Texts, Len(x) <= Len(s), \A i \in 1 .. Len(x) : s[i] = x[i]
  PROVE  SubSeq(s, 1, Len(x)) = x
<1> DEFINE k == Len(x)
           t == SubSeq(s, 1, k)
<1>1. k \in Nat /\ Len(s) \in Nat BY NotEmpty
<1>2. k \in 0 .. Len(s)
  <2> HIDE DEF k
  <2> QED BY <1>1 DEF k
<1>3. t \in Texts /\ Len(t) = k /\ \A i \in 1 .. k : t[i] = s[i]
  <2> HIDE DEF k
  <2> QED BY <1>2, StartIs
<1> HIDE DEF t
<1>4. t = x BY <1>3, SameTexts
<1> QED BY <1>4 DEF t

LEMMA PrefixIs ==
  ASSUME NEW s \in Texts, NEW x \in Texts, IsPrefix(x, s)
  PROVE  SubSeq(s, 1, Len(x)) = x
<1>1. SubSeq(x, 1, Len(x)) = SubSeq(s, 1, Len(x)) BY DEF IsPrefix
<1>2. SubSeq(x, 1, Len(x)) = x BY SubSeqFull DEF Texts
<1> QED BY <1>1, <1>2

\* A piece comes back.
LEMMA PieceBack ==
  ASSUME NEW s \in Texts, s # <<>>, NEW name \in Texts, name # <<>>, NEW u \in Texts
  PROVE  uncompress(Written(s, name).text \o u, name) =
           SubSeq(s, 1, Written(s, name).length) \o uncompress(u, name)
<1> DEFINE text == Written(s, name).text
           k == Written(s, name).length
           blanks == RunAt(s, {" "})
           Goal == uncompress(text \o u, name) = SubSeq(s, 1, k) \o uncompress(u, name)
<1>1. k \in 1 .. Len(s) /\ Len(s) \in Nat \ {0} BY WrittenIs, NotEmpty, Zenon
<1>2. \/ s[1] = " " /\ k = blanks /\ text = RunOf(blanks)
      \/ s[1] = "@" /\ k = 1 /\ text = <<"@", "@">>
      \/ IsPrefix(name, s) /\ k = Len(name) /\ text = <<"@", "n">>
      \/ \E i \in DOMAIN Abbreviations :
           /\ IsPrefix(Abbreviations[i].name, s)
           /\ k = Len(Abbreviations[i].name) /\ text = <<"@", Abbreviations[i].c>>
      \/ s[1] # "@" /\ k = 1 /\ text = <<s[1]>>
  BY WrittenIs, Zenon
<1> HIDE DEF text, k
<1>3. ASSUME k = 1 PROVE SubSeq(s, 1, k) = <<s[1]>> /\ s[1] \in Chars
  <2>1. 1 \in 1 .. Len(s) BY <1>1
  <2>2. s[1] \in Chars BY <2>1, ElementOfSeq DEF Texts
  <2> DEFINE x == <<s[1]>>
  <2>3. x \in Texts /\ Len(x) = 1 /\ x[1] = s[1] BY <2>2, OneIs
  <2> HIDE DEF x
  <2>4. Len(x) <= Len(s) BY <1>1, <2>3
  <2>5. \A i \in 1 .. Len(x) : s[i] = x[i]
    <3>1. \A i \in 1 .. 1 : i = 1 OBVIOUS
    <3> QED BY <2>3, <3>1
  <2>6. SubSeq(s, 1, Len(x)) = x BY <2>3, <2>4, <2>5, StartsWith
  <2>7. SubSeq(s, 1, k) = x BY <1>3, <2>3, <2>6
  <2> QED BY <2>2, <2>7 DEF x
<1>4. ASSUME s[1] = " " /\ k = blanks /\ text = RunOf(blanks) PROVE Goal
  <2>1. blanks \in Nat \ {0} /\ blanks <= Len(s)
    <3> HIDE DEF blanks
    <3>1. blanks \in 1 .. Len(s) BY <1>1, <1>4
    <3> QED BY <1>1, <3>1
  <2>2. \A i \in 1 .. blanks : s[i] = " "
    <3>1. \A i \in 1 .. blanks : s[i] \in {" "} BY RunAtIs
    <3> QED BY <3>1
  <2>3. SubSeq(s, 1, k) = Blanks(k)
    <3> DEFINE x == Blanks(blanks)
    <3> HIDE DEF blanks
    <3>1. x \in Texts /\ Len(x) = blanks /\ \A i \in 1 .. blanks : x[i] = " " BY <2>1, BlanksAre
    <3> HIDE DEF x
    <3>2. Len(x) <= Len(s) /\ \A i \in 1 .. Len(x) : s[i] = x[i] BY <2>1, <2>2, <3>1
    <3>3. SubSeq(s, 1, Len(x)) = x BY <3>1, <3>2, StartsWith
    <3>4. Len(x) = k /\ Blanks(k) = x BY <1>4, <3>1 DEF x
    <3> QED BY <3>3, <3>4, Zenon
  <2>4. k \in Nat \ {0} /\ text = RunOf(k)
    <3> HIDE DEF blanks
    <3> QED BY <1>4, <2>1
  <2>5. CASE k < 4
    <3>1. text = Blanks(k) BY <2>4, <2>5, RunOfIs
    <3>2. k \in 0 .. 3 BY <2>4, <2>5
    <3>3. uncompress(Blanks(k) \o u, name) = Blanks(k) \o uncompress(u, name) BY <3>2, FewBack
    <3> QED BY <2>3, <3>1, <3>3, Zenon
  <2>6. CASE k \in 4 .. 9
    <3> DEFINE c == Digits[k + 1]
               x == Blanks(k)
    <3>1. text = <<"@", c>> BY <2>4, <2>6, RunOfIs
    <3>2. k \in 0 .. 9 BY <2>6
    <3>3. c \in DigitSet /\ Value(c) = k BY <3>2, DigitIs
    <3> HIDE DEF c
    <3>4. c \in Chars BY <3>3, CharsAre
    <3>5. Stands(c, x, name) BY <3>3, Zenon DEF Stands
    <3>6. ComesBack(c, x, u, name)
      <4> HIDE DEF x
      <4> QED BY <3>4, <3>5, MarkBack
    <3> QED BY <2>3, <3>1, <3>6, Zenon DEF ComesBack
  <2>7. CASE k > 9
    <3>1. text = <<"@", "{">> \o Number(k) \o <<"}">> BY <2>4, <2>7, RunOfIs
    <3>2. k \in Nat BY <2>4
    <3>3. uncompress((<<"@", "{">> \o Number(k) \o <<"}">>) \o u, name) = Blanks(k) \o uncompress(u, name)
      BY <3>2, ManyBack
    <3> QED BY <2>3, <3>1, <3>3, Zenon
  <2>8. k < 4 \/ k \in 4 .. 9 \/ k > 9 BY <2>4
  <2> QED BY <2>5, <2>6, <2>7, <2>8
<1>5. ASSUME s[1] = "@" /\ k = 1 /\ text = <<"@", "@">> PROVE Goal
  <2> DEFINE c == "@"
             x == <<"@">>
  <2>1. c \in Chars BY CharsAre
  <2>2. SubSeq(s, 1, k) = x BY <1>3, <1>5
  <2>3. Stands(c, x, name) BY Zenon DEF Stands
  <2> HIDE DEF x
  <2>4. ComesBack(c, x, u, name)
    <3> HIDE DEF c
    <3> QED BY <2>1, <2>3, MarkBack
  <2> QED BY <1>5, <2>2, <2>4, Zenon DEF ComesBack
<1>6. ASSUME IsPrefix(name, s) /\ k = Len(name) /\ text = <<"@", "n">> PROVE Goal
  <2> DEFINE c == "n"
  <2>1. c \in Chars BY CharsAre
  <2>2. SubSeq(s, 1, k) = name BY <1>6, PrefixIs
  <2>3. Stands(c, name, name) BY Zenon DEF Stands
  <2>4. ComesBack(c, name, u, name)
    <3> HIDE DEF c
    <3> QED BY <2>1, <2>3, MarkBack
  <2> QED BY <1>6, <2>2, <2>4, Zenon DEF ComesBack
<1>7. ASSUME NEW i \in DOMAIN Abbreviations, IsPrefix(Abbreviations[i].name, s),
             k = Len(Abbreviations[i].name), text = <<"@", Abbreviations[i].c>>
      PROVE  Goal
  <2> DEFINE c == Abbreviations[i].c
             x == Abbreviations[i].name
  <2>1. x \in Seq(STRING) /\ c \in STRING /\ c \notin {"@", "n", "{"} \cup DigitSet
    BY AbbreviationsAre, Zenon
  <2>2. NameOf(c) = x BY NameOfIs, Zenon
  <2>3. IsPrefix(x, s) /\ k = Len(x) /\ text = <<"@", c>> BY <1>7
  <2> HIDE DEF c, x
  <2>4. x \in Texts BY <2>1, StringTexts
  <2>5. c \in Chars BY <2>1 DEF Chars
  <2>6. SubSeq(s, 1, k) = x BY <2>3, <2>4, PrefixIs
  <2>7. Stands(c, x, name) BY <2>1, <2>2, Zenon DEF Stands
  <2>8. ComesBack(c, x, u, name) BY <2>5, <2>7, MarkBack
  <2> QED BY <2>3, <2>6, <2>8, Zenon DEF ComesBack
<1>8. ASSUME s[1] # "@" /\ k = 1 /\ text = <<s[1]>> PROVE Goal
  <2>1. SubSeq(s, 1, k) = <<s[1]>> /\ s[1] \in Chars BY <1>3, <1>8
  <2>2. uncompress(<<s[1]>> \o u, name) = <<s[1]>> \o uncompress(u, name)
    <3> DEFINE c == s[1]
    <3>1. c \in Chars /\ c # "@" BY <1>8, <2>1
    <3> HIDE DEF c
    <3>2. uncompress(<<c>> \o u, name) = <<c>> \o uncompress(u, name) BY <3>1, PlainBack
    <3> QED BY <3>2 DEF c
  <2> QED BY <1>8, <2>1, <2>2, Zenon
<1>9. Goal
  <2> HIDE DEF Goal
  <2> QED BY <1>2, <1>4, <1>5, <1>6, <1>7, <1>8, Zenon
<1> QED BY <1>9 DEF text, k, Goal

\* What compress makes of a text, uncompress makes that text of again: whatever is in it, the marks
\* of compress included, and whatever the name is.
THEOREM uncompressInverts ==
  ASSUME NEW s \in Texts, NEW name \in Texts, name # <<>>
  PROVE  uncompress(compress(s, name), name) = s
<1> DEFINE L == Len(s)
           S == {n \in 0 .. L : uncompress(compress(LastOf(s, n), name), name) = LastOf(s, n)}
<1>1. L \in Nat BY NotEmpty
<1>2. ASSUME NEW n \in 0 .. L, \A j \in 0 .. n - 1 : j \in S PROVE n \in S
  <2> DEFINE x == LastOf(s, n)
             w == Written(x, name).text
             k == Written(x, name).length
             m == n - k
             y == LastOf(s, m)
             c == compress(y, name)
  <2>1. x \in Texts /\ Len(x) = n BY LastOfIs
  <2>2. CASE n = 0
    <3>1. x = <<>>
      <4> HIDE DEF x
      <4> QED BY <2>1, <2>2, NotEmpty
    <3>2. compress(x, name) = <<>>
      <4> HIDE DEF x
      <4> QED BY <2>1, <3>1, compressIs
    <3>3. uncompress(<<>>, name) = <<>> BY uncompressText
    <3>4. uncompress(compress(x, name), name) = x BY <3>1, <3>2, <3>3, Zenon
    <3> QED BY <3>4
  <2>3. CASE n # 0
    <3>1. x # <<>>
      <4> HIDE DEF x
      <4> QED BY <2>1, <2>3, NotEmpty
    <3> HIDE DEF x
    <3>2. w \in Texts /\ k \in 1 .. Len(x) BY <2>1, <3>1, WrittenIs, Zenon
    <3>3. m \in 0 .. n - 1 /\ m \in 0 .. L /\ m \in 0 .. n /\ k = n - m
      <4> HIDE DEF L, k
      <4> QED BY <1>1, <2>1, <3>2
    <3>4. y = LastOf(x, m) /\ y \in Texts
      <4> HIDE DEF m
      <4>1. LastOf(LastOf(s, n), m) = LastOf(s, m) BY <3>3, LastOfLast
      <4>2. LastOf(s, m) \in Texts BY <3>3, LastOfIs
      <4> QED BY <4>1, <4>2, Zenon DEF x
    <3>5. uncompress(c, name) = y
      <4>1. m \in S BY <1>2, <3>3
      <4> QED BY <4>1
    <3>6. c \in Texts
      <4> HIDE DEF y
      <4> QED BY <3>4, compressIs
    <3>7. compress(x, name) = w \o c
      <4>1. compress(x, name) = w \o compress(LastOf(x, Len(x) - k), name)
        BY <2>1, <3>1, compressIs, Zenon
      <4>2. LastOf(x, Len(x) - k) = y
        <5>1. Len(x) - k = m BY <2>1
        <5> QED BY <3>4, <5>1, Zenon
      <4> QED BY <4>1, <4>2, Zenon
    <3>8. uncompress(w \o c, name) = SubSeq(x, 1, k) \o uncompress(c, name)
      <4> HIDE DEF c
      <4> QED BY <2>1, <3>1, <3>6, PieceBack, Zenon
    <3>9. SubSeq(x, 1, k) \o y = x
      <4> DEFINE a == SubSeq(x, 1, k)
                 b == SubSeq(x, k + 1, Len(x))
                 l == Len(x)
      <4>1. k \in 0 .. l /\ l \in Nat
        <5> HIDE DEF k
        <5> QED BY <2>1, <3>2, NotEmpty
      <4>2. a \o b = SubSeq(x, 1, Len(x))
        <5>1. 1 \in 1 .. Len(x) + 1 /\ k \in 1 - 1 .. Len(x) /\ Len(x) \in k .. Len(x)
          <6>1. 1 \in 1 .. l + 1 /\ k \in 1 - 1 .. l /\ l \in k .. l
            <7> HIDE DEF k, l
            <7> QED BY <4>1
          <6> QED BY <6>1
        <5>2. x \in Seq(Chars) BY <2>1 DEF Texts
        <5> HIDE DEF k
        <5> QED BY <5>1, <5>2, ConcatAdjacentSubSeq
      <4>3. SubSeq(x, 1, Len(x)) = x BY <2>1, SubSeqFull DEF Texts
      <4>4. b = y
        <5>1. Len(x) - m + 1 = k + 1
          <6> HIDE DEF k, L
          <6> QED BY <1>1, <2>1, <3>2 
        <5>2. LastOf(x, m) = SubSeq(x, Len(x) - m + 1, Len(x)) BY DEF LastOf, From
        <5> QED BY <3>4, <5>1, <5>2, Zenon
      <4> HIDE DEF a, b
      <4> QED BY <4>2, <4>3, <4>4 DEF a
    <3>10. uncompress(compress(x, name), name) = x BY <3>5, <3>7, <3>8, <3>9, Zenon
    <3> QED BY <3>10 DEF x
  <2> QED BY <2>2, <2>3
<1>3. \A n \in 0 .. L : n \in S
  <2> HIDE DEF S, L
  <2> QED BY <1>1, <1>2, StrongInduction
<1>4. L \in 0 .. L BY <1>1
<1>5. uncompress(compress(LastOf(s, L), name), name) = LastOf(s, L) BY <1>3, <1>4
<1> QED BY <1>5, LastOfAll, Zenon

----------------------------------------------------------------------------
(* The fields of a record.                                                 *)

Space == " "
NoSpace(c) == Space \notin ToSet(c)

LEMMA FieldIs ==
  ASSUME NEW c \in Texts, NoSpace(c), NEW r \in Texts
  PROVE  /\ (c \o <<" ">>) \o r \in Texts /\ (c \o <<" ">>) \o r # <<>>
         /\ Field((c \o <<" ">>) \o r) = c /\ AfterField((c \o <<" ">>) \o r) = r
<1> DEFINE b == <<" ">>
           e == b \o r
           s == c \o e
           n == Len(c)
           is == {i \in DOMAIN s : s[i] = Space}
<1>1. b \in Texts /\ Len(b) = 1
  <2>1. Space \in Chars BY CharsAre DEF Space
  <2>2. <<Space>> \in Texts /\ Len(<<Space>>) = 1 BY <2>1, OneIs
  <2> QED BY <2>2 DEF Space
<1>2. e \in Texts /\ Len(e) = 1 + Len(r) /\ e[1] = Space
      /\ \A i \in 1 .. Len(b) + Len(r) : e[i] = IF i <= Len(b) THEN b[i] ELSE r[i - Len(b)]
  <2>1. Space \in Chars BY CharsAre DEF Space
  <2>2. e \in Texts /\ e[1] = Space
    <3>1. <<Space>> \o r \in Texts /\ (<<Space>> \o r)[1] = Space BY <2>1, AfterOne
    <3> QED BY <3>1 DEF Space
  <2> HIDE DEF b
  <2>3. Len(e) = Len(b) + Len(r)
        /\ \A i \in 1 .. Len(b) + Len(r) : e[i] = IF i <= Len(b) THEN b[i] ELSE r[i - Len(b)]
    BY <1>1, Joins
  <2> HIDE DEF e
  <2>4. Len(e) = 1 + Len(r) BY <1>1, <2>3
  <2> QED BY <2>2, <2>3, <2>4
<1>3. n \in Nat /\ Len(r) \in Nat BY NotEmpty
<1> HIDE DEF b, e
<1>4. /\ s \in Texts /\ Len(s) = n + Len(e)
      /\ \A i \in 1 .. n + Len(e) : s[i] = IF i <= n THEN c[i] ELSE e[i - n]
  BY <1>2, Joins
<1> HIDE DEF s, n
<1>5. DOMAIN s = 1 .. n + Len(e) BY <1>4, LenProperties DEF Texts
<1>6. n + 1 \in 1 .. n + Len(e) /\ ~ (n + 1 <= n) /\ (n + 1) - n = 1 BY <1>2, <1>3
<1>7. s[n + 1] = Space BY <1>2, <1>4, <1>6
<1>8. \A i \in 1 .. n : c[i] # Space
  <2>1. DOMAIN c = 1 .. n BY LenProperties DEF Texts, n
  <2> QED BY <2>1 DEF ToSet, NoSpace
<1>9. ASSUME NEW i \in 1 .. n PROVE s[i] = c[i]
  <2>1. i \in 1 .. n + Len(e) /\ i <= n BY <1>2, <1>3
  <2> QED BY <1>4, <2>1, Zenon
<1>10. Blank(s) = n + 1
  <2> DEFINE m == Min(is)
  <2>1. is \subseteq Nat /\ n + 1 \in is BY <1>2, <1>3, <1>5, <1>6, <1>7
  <2>2. Min(is) \in is /\ \A j \in is : Min(is) <= j
    <3> HIDE DEF is
    <3> QED BY <2>1, LeastIs
  <2>3. m \in is /\ m <= n + 1 BY <2>1, <2>2
  <2> HIDE DEF m
  <2>4. m \in 1 .. n + Len(e) /\ s[m] = Space BY <1>5, <2>3
  <2>5. m \notin 1 .. n
    <3>1. ASSUME m \in 1 .. n PROVE FALSE
      <4>1. s[m] = c[m] /\ c[m] # Space BY <1>8, <1>9, <3>1, Zenon
      <4> QED BY <2>4, <4>1, Zenon
    <3> QED BY <3>1
  <2>6. m = n + 1
    <3> DEFINE l == Len(e)
    <3>1. l \in Nat BY <1>2, <1>3
    <3>2. m \in 1 .. n + l BY <2>4
    <3>3. m <= n + 1 BY <2>3
    <3>4. n \in Nat BY <1>3
    <3> HIDE DEF l
    <3> QED BY <2>5, <3>1, <3>2, <3>3, <3>4
  <2>7. Blank(s) = Min(is) BY Zenon DEF Blank, Space
  <2> HIDE DEF is
  <2> QED BY <2>6, <2>7, Zenon DEF m
<1>11. Field(s) = c
  <2>1. Field(s) = SubSeq(s, 1, Len(c))
    <3>1. Blank(s) - 1 = n BY <1>3, <1>10
    <3>2. Field(s) = SubSeq(s, 1, Blank(s) - 1) BY DEF Field
    <3> QED BY <3>1, <3>2, Zenon DEF n
  <2>2. Len(c) <= Len(s) BY <1>2, <1>3, <1>4 DEF n
  <2>3. \A i \in 1 .. Len(c) : s[i] = c[i] BY <1>9 DEF n
  <2> QED BY <1>4, <2>1, <2>2, <2>3, StartsWith
<1>12. AfterField(s) = r
  <2> DEFINE v == From(s, n + 2)
  <2>1. AfterField(s) = v
    <3>1. (n + 1) + 1 = n + 2 BY <1>3
    <3>2. AfterField(s) = From(s, (n + 1) + 1) BY <1>10, Zenon DEF AfterField
    <3> QED BY <3>1, <3>2, Zenon
  <2>2. Len(s) = n + 1 + Len(r) BY <1>2, <1>3, <1>4
  <2>3. n + 2 \in 1 .. Len(s) + 1 /\ Len(s) - (n + 2) + 1 = Len(r) BY <1>3, <2>2
  <2>4. v \in Texts /\ Len(v) = Len(r) /\ \A i \in 1 .. Len(r) : v[i] = s[n + 2 + i - 1]
    <3>1. /\ v \in Texts /\ Len(v) = Len(s) - (n + 2) + 1
          /\ \A i \in 1 .. Len(s) - (n + 2) + 1 : v[i] = s[n + 2 + i - 1]
      BY <1>4, <2>3, FromIs
    <3> HIDE DEF v
    <3> QED BY <2>3, <3>1, Zenon
  <2> HIDE DEF v
  <2>5. ASSUME NEW i \in 1 .. Len(v) PROVE v[i] = r[i]
    <3>1. i \in 1 .. Len(r) BY <2>4
    <3>2. n + 2 + i - 1 \in 1 .. n + Len(e) /\ ~ (n + 2 + i - 1 <= n) /\ (n + 2 + i - 1) - n = i + 1
      BY <1>2, <1>3, <3>1
    <3>3. s[n + 2 + i - 1] = e[(n + 2 + i - 1) - n] BY <1>4, <3>2, Zenon
    <3>4. i + 1 \in 1 .. Len(b) + Len(r) /\ ~ (i + 1 <= Len(b)) /\ (i + 1) - Len(b) = i
      BY <1>1, <1>3, <3>1
    <3>5. e[i + 1] = r[(i + 1) - Len(b)] BY <1>2, <3>4, Zenon
    <3> QED BY <2>4, <3>1, <3>2, <3>3, <3>4, <3>5
  <2>6. v = r BY <2>4, <2>5, SameTexts
  <2> QED BY <2>1, <2>6
<1>13. s # <<>>
  <2>1. Len(s) # 0 BY <1>2, <1>3, <1>4
  <2> QED BY <1>4, <2>1, NotEmpty
<1>14. (c \o <<" ">>) \o r = s
  <2>1. (c \o b) \o r = c \o (b \o r) BY <1>1, Assoc
  <2> QED BY <2>1 DEF s, e, b
<1> QED BY <1>4, <1>11, <1>12, <1>13, <1>14, Zenon

\* The number and the image of a standard record.
LEMMA LineOfRecord ==
  ASSUME NEW i \in Texts
  PROVE  /\ <<"1", " ">> \o i \in Texts
         /\ NumberAt(<<"1", " ">> \o i) = 1 /\ AfterField(<<"1", " ">> \o i) = i
<1> DEFINE c == <<"1">>
           b == <<" ">>
           t == b \o i
           r == <<"1", " ">> \o i
<1>1. "1" \in Chars /\ " " \in Chars /\ "1" # " " BY DigitSetIs, CharsAre
<1>2. c \in Texts /\ Len(c) = 1 /\ c[1] = "1" BY <1>1, OneIs
<1>3. b \in Texts /\ Len(b) = 1 BY <1>1, OneIs
<1>4. <<"1", " ">> = c \o b BY <1>1, PairIs
<1>5. NoSpace(c)
  <2>1. DOMAIN c = 1 .. 1 BY <1>2, LenProperties DEF Texts
  <2>2. \A j \in 1 .. 1 : j = 1 OBVIOUS
  <2> HIDE DEF c
  <2> QED BY <1>1, <1>2, <2>1, <2>2 DEF ToSet, NoSpace, Space
<1>6. r = (c \o b) \o i BY <1>4, Zenon
<1>7. (c \o b) \o i \in Texts /\ AfterField((c \o b) \o i) = i
  <2> HIDE DEF c
  <2> QED BY <1>2, <1>5, FieldIs
<1>8. t \in Texts /\ t # <<>> /\ t[1] = " "
  <2>1. t \in Texts /\ t[1] = " " BY <1>1, AfterOne
  <2>2. Len(t) = Len(b) + Len(i) /\ Len(i) \in Nat
    <3> HIDE DEF b
    <3> QED BY <1>3, Joins
  <2> HIDE DEF t, b
  <2>3. Len(t) # 0 BY <1>3, <2>2
  <2> QED BY <2>1, <2>3, NotEmpty
<1>9. Number(1) = c
  <2>1. Digits[1 + 1] = "1" BY DEF Digits
  <2>2. 1 \in Nat /\ 1 < 10 OBVIOUS
  <2>3. Number(1) = <<Digits[1 + 1]>> BY <2>2, NumberIs
  <2> QED BY <2>1, <2>3
<1>10. NumberAt(Number(1) \o t) = 1
  <2>1. t[1] \notin DigitSet BY <1>8, DigitSetIs
  <2>2. 1 \in Nat OBVIOUS
  <2> HIDE DEF t
  <2> QED BY <1>8, <2>1, <2>2, NumberRead
<1>11. Number(1) \o t = (c \o b) \o i
  <2>1. (c \o b) \o i = c \o (b \o i)
    <3> HIDE DEF c, b
    <3> QED BY <1>2, <1>3, Assoc
  <2> QED BY <1>9, <2>1, Zenon
<1> HIDE DEF c, b, t
<1> QED BY <1>6, <1>7, <1>10, <1>11, Zenon

----------------------------------------------------------------------------
(* What global shows is what gtags wrote.                                  *)

LEMMA MethodText ==
  ASSUME NEW s \in Texts
  PROVE  Method(s) \in Texts
<1> DEFINE dots == Dots(s)
           colons == Colons(s)
<1>1. DOMAIN s = 1 .. Len(s) /\ Len(s) \in Nat BY LenProperties DEF Texts
<1>2. dots \subseteq 1 .. Len(s) /\ colons \subseteq 1 .. Len(s)
  <2>1. dots \subseteq 1 .. Len(s) BY <1>1 DEF Dots
  <2>2. colons \subseteq 2 .. Len(s) BY DEF Colons
  <2>3. 2 .. Len(s) \subseteq 1 .. Len(s) BY <1>1
  <2> QED BY <2>1, <2>2, <2>3
<1>3. ASSUME NEW S, S \subseteq 1 .. Len(s), S # {} PROVE From(s, Max(S) + 1) \in Texts
  <2>1. S \subseteq Nat /\ IsFiniteSet(S)
    <3>1. IsFiniteSet(1 .. Len(s)) BY <1>1, FS_Interval
    <3>2. S \subseteq Nat BY <1>1, <1>3
    <3> QED BY <1>3, <3>1, <3>2, FS_Subset
  <2>0. S # {} BY <1>3
  <2>2. Max(S) \in S BY <2>0, <2>1, MaxIs, Zenon
  <2> DEFINE m == Max(S)
  <2>3. m + 1 \in Nat \ {0}
    <3>1. m \in Nat BY <2>1, <2>2, Zenon
    <3> HIDE DEF m
    <3> QED BY <3>1
  <2> QED BY <2>3, FromText
<1> HIDE DEF dots, colons
<1>4. CASE dots # {}
  <2>1. Method(s) = From(s, Max(dots) + 1) BY <1>4, Zenon DEF Method, dots
  <2> QED BY <1>2, <1>3, <1>4, <2>1
<1>5. CASE dots = {} /\ colons # {}
  <2>1. Method(s) = From(s, Max(colons) + 1) BY <1>5, Zenon DEF Method, dots, colons
  <2> QED BY <1>2, <1>3, <1>5, <2>1
<1>6. CASE dots = {} /\ colons = {}
  <2>1. Method(s) = s BY <1>6, Zenon DEF Method, dots, colons
  <2> QED BY <2>1
<1> QED BY <1>4, <1>5, <1>6

LEMMA TagIs ==
  ASSUME tag \in TagSet
  PROVE  /\ tag.name \in Texts /\ tag.image \in Texts
         /\ KeyOfTag \in Texts /\ KeyOfTag # <<>>
<1>1. tag.name \in Seq(STRING) /\ tag.image \in Seq(STRING) /\ tag.name # <<>> /\ Method(tag.name) # <<>>
  <2>1. \A t \in TagSet : /\ t.name \in Seq(STRING) /\ t.image \in Seq(STRING)
                          /\ t.name # <<>> /\ Method(t.name) # <<>>
    BY RecordAssumption
  <2> QED BY <2>1, Zenon
<1>2. tag.name \in Texts /\ tag.image \in Texts BY <1>1, StringTexts
<1>3. Method(tag.name) \in Texts BY <1>2, MethodText
<1>4. KeyOfTag = Method(tag.name) \/ KeyOfTag = tag.name BY DEF KeyOfTag
<1> QED BY <1>1, <1>2, <1>3, <1>4, Zenon

\* The text of the record, and what comes after its name.
Rest == IF tag.compact THEN <<"#">> ELSE <<"1", " ">> \o compress(tag.image, KeyOfTag)
Filled == (compress(tag.name, KeyOfTag) \o <<" ">>) \o Rest

LEMMA RestIs ==
  ASSUME tag \in TagSet
  PROVE  /\ Rest \in Texts /\ compress(tag.name, KeyOfTag) \in Texts
         /\ ~ tag.compact => /\ NumberAt(Rest) = 1
                             /\ uncompress(AfterField(Rest), KeyOfTag) = tag.image
<1> DEFINE image == compress(tag.image, KeyOfTag)
<1>1. tag.name \in Texts /\ tag.image \in Texts /\ KeyOfTag \in Texts /\ KeyOfTag # <<>> BY TagIs
<1> DEFINE K == KeyOfTag
           i == tag.image
           n == tag.name
<1>2. compress(n, K) \in Texts /\ compress(i, K) \in Texts
  <2>1. n \in Texts /\ i \in Texts /\ K \in Texts /\ K # <<>> BY <1>1
  <2> HIDE DEF K, i, n
  <2> QED BY <2>1, compressIs
<1>3. uncompress(image, K) = i
  <2>1. i \in Texts /\ K \in Texts /\ K # <<>> BY <1>1
  <2>2. uncompress(compress(i, K), K) = i
    <3> HIDE DEF K, i
    <3> QED BY <2>1, uncompressInverts
  <2> QED BY <2>2
<1>4. image \in Texts BY <1>2
<1> HIDE DEF image
<1>5. /\ <<"1", " ">> \o image \in Texts /\ NumberAt(<<"1", " ">> \o image) = 1
      /\ AfterField(<<"1", " ">> \o image) = image
  BY <1>4, LineOfRecord
<1>6. <<"#">> \in Texts BY OneIs, CharsAre
<1>7. ~ tag.compact => Rest = <<"1", " ">> \o image BY Zenon DEF Rest, image
<1>8. tag.compact => Rest = <<"#">> BY Zenon DEF Rest
<1>9. Rest \in Texts BY <1>5, <1>6, <1>7, <1>8, Zenon
<1>10. ASSUME ~ tag.compact PROVE NumberAt(Rest) = 1 /\ uncompress(AfterField(Rest), KeyOfTag) = tag.image
  BY <1>3, <1>5, <1>7, <1>10, Zenon
<1> QED BY <1>2, <1>9, <1>10

Plain == "@" \notin ToSet(tag.name)
Right(k) == /\ k = 1 \/ Plain => shown[k].name = tag.name
            /\ shown[k].line = k
            /\ shown[k].image = tag.image

RecordInv ==
  /\ tag \in TagSet /\ times \in Nat
  /\ times = 0 \/ record # <<>>
  /\ record # <<>> => key = KeyOfTag /\ record = Filled
  /\ (\E S : shown \in Seq(S)) /\ Len(shown) = times
  /\ OneField => \A k \in 1 .. times : Right(k)
  /\ OneField /\ times # 0 /\ Plain => tagname = tag.name

\* The fields of the record when its name is one of them.
LEMMA FieldsAre ==
  ASSUME RecordInv, record # <<>>, OneField
  PROVE  /\ uncompress(Field(record), key) = tag.name
         /\ ~ tag.compact => /\ NumberAt(AfterField(record)) = 1
                             /\ uncompress(AfterField(AfterField(record)), key) = tag.image
<1> DEFINE K == KeyOfTag
           n == tag.name
           c == compress(n, K)
           r == Rest
<1>1. tag \in TagSet /\ key = K /\ record = (c \o <<" ">>) \o r BY Zenon DEF RecordInv, Filled
<1>2. n \in Texts /\ K \in Texts /\ K # <<>> BY <1>1, TagIs
<1>3. /\ r \in Texts /\ c \in Texts
      /\ ~ tag.compact => NumberAt(r) = 1 /\ uncompress(AfterField(r), K) = tag.image
  BY <1>1, RestIs, Zenon
<1>4. NoSpace(c) BY <1>1, Zenon DEF OneField, NoSpace, Space
<1>5. uncompress(c, K) = n
  <2> HIDE DEF K, n
  <2> QED BY <1>2, uncompressInverts DEF c
<1> HIDE DEF c, r, K, n
<1>6. Field(record) = c /\ AfterField(record) = r
  <2>1. Field((c \o <<" ">>) \o r) = c /\ AfterField((c \o <<" ">>) \o r) = r BY <1>3, <1>4, FieldIs
  <2> QED BY <1>1, <2>1, Zenon
<1> QED BY <1>1, <1>3, <1>5, <1>6, Zenon DEF n

LEMMA AppendIs ==
  ASSUME NEW s, NEW S, s \in Seq(S), NEW e
  PROVE  /\ \E T : Append(s, e) \in Seq(T)
         /\ Len(s) \in Nat /\ Len(Append(s, e)) = Len(s) + 1
         /\ Append(s, e)[Len(s) + 1] = e
         /\ \A i \in 1 .. Len(s) : Append(s, e)[i] = s[i]
<1> DEFINE T == S \cup {e}
<1>1. s \in Seq(T) /\ e \in T
  <2>1. S \subseteq T OBVIOUS
  <2> QED BY <2>1, SeqMonotonic
<1> HIDE DEF T
<1>2. /\ Append(s, e) \in Seq(T)
      /\ Len(s) \in Nat /\ Len(Append(s, e)) = Len(s) + 1
      /\ Append(s, e)[Len(s) + 1] = e
      /\ \A i \in 1 .. Len(s) : Append(s, e)[i] = s[i]
  BY <1>1
<1> QED BY <1>2

\* A line more.
LEMMA ShowIs ==
  ASSUME RecordInv, record # <<>>, NEW name, NEW line, NEW image, Show(name, line, image),
         tag' = tag, extract' = extract, key' = key, record' = record,
         times' = times + 1, tagname' = name,
         OneField => /\ times = 0 \/ Plain => name = tag.name
                     /\ line = times + 1 /\ image = tag.image
  PROVE  RecordInv'
<1> DEFINE e == [name |-> name, line |-> line, image |-> image]
<1>1. PICK S : shown \in Seq(S) BY DEF RecordInv
<1>2. times \in Nat /\ Len(shown) = times /\ tag \in TagSet BY DEF RecordInv
<1>3. e.name = name /\ e.line = line /\ e.image = image OBVIOUS
<1>4. shown' = Append(shown, e) BY DEF Show
<1> HIDE DEF e
<1>5. /\ \E T : shown' \in Seq(T)
      /\ Len(shown') = times + 1 /\ shown'[times + 1] = e
      /\ \A i \in 1 .. times : shown'[i] = shown[i]
  BY <1>1, <1>2, <1>4, AppendIs
<1>6. OneField' = OneField /\ Plain' = Plain /\ KeyOfTag' = KeyOfTag /\ Filled' = Filled
  <2> QED BY DEF OneField, Plain, KeyOfTag, Filled, Rest
<1>7. record' # <<>> /\ key' = KeyOfTag' /\ record' = Filled' BY <1>6, Zenon DEF RecordInv
<1>8. ASSUME OneField', NEW k \in 1 .. times' PROVE Right(k)'
  <2>1. OneField BY <1>6, <1>8
  <2>2. CASE k = times + 1
    <3>1. shown'[k] = e BY <1>5, <2>2
    <3>2. k = 1 => times = 0 BY <1>2, <2>2
    <3>3. k = 1 \/ Plain => name = tag.name BY <2>1, <3>2, Zenon
    <3>4. line = k /\ image = tag.image BY <2>1, <2>2, Zenon
    <3> QED BY <1>3, <1>6, <3>1, <3>3, <3>4, Zenon DEF Right
  <2>3. CASE k # times + 1
    <3>1. k \in 1 .. times BY <1>2, <2>3
    <3>2. Right(k) BY <2>1, <3>1, Zenon DEF RecordInv
    <3>3. shown'[k] = shown[k] BY <1>5, <3>1
    <3> QED BY <1>6, <3>2, <3>3, Zenon DEF Right
  <2> QED BY <2>2, <2>3
<1>9. ASSUME OneField', Plain' PROVE tagname' = tag'.name
  <2>1. OneField /\ Plain BY <1>6, <1>9
  <2> QED BY <2>1, Zenon
<1>10. times' \in Nat /\ tag' \in TagSet /\ Len(shown') = times' BY <1>2, <1>5
<1> QED BY <1>5, <1>7, <1>8, <1>9, <1>10, Zenon DEF RecordInv

LEMMA RecordStep ==
  ASSUME RecordInv, [RecordNext]_recordVars
  PROVE  RecordInv'
<1>1. CASE gtags_put
  <2>1. record = <<>> /\ key' = KeyOfTag /\ record' = compress(tag.name, KeyOfTag) \o <<" ">> \o Rest
    BY <1>1, Zenon DEF gtags_put, Rest
  <2>2. tag' = tag /\ extract' = extract /\ tagname' = tagname /\ times' = times /\ shown' = shown
    BY <1>1, Zenon DEF gtags_put
  <2>3. KeyOfTag' = KeyOfTag /\ Filled' = Filled BY <2>2 DEF KeyOfTag, Filled, Rest
  <2>4. key' = KeyOfTag' /\ record' = Filled' BY <2>1, <2>3, Zenon DEF Filled
  <2>5. times = 0 BY <2>1, Zenon DEF RecordInv
  <2>6. \A k : k \notin 1 .. times BY <2>5
  <2>7. /\ tag' \in TagSet /\ times' \in Nat /\ times' = 0 /\ (\E S : shown' \in Seq(S))
        /\ Len(shown') = times'
    BY <2>2, <2>5, Zenon DEF RecordInv
  <2>8. \A k : k \notin 1 .. times' BY <2>7
  <2> QED BY <2>4, <2>7, <2>8, Zenon DEF RecordInv
<1>2. CASE ShowStandard
  <2> DEFINE name == uncompress(Field(record), key)
             line == NumberAt(AfterField(record))
             image == uncompress(AfterField(AfterField(record)), key)
  <2>1. /\ record # <<>> /\ ~ tag.compact /\ times = 0 /\ times' = 1 /\ tagname' = name
        /\ tag' = tag /\ extract' = extract /\ key' = key /\ record' = record
        /\ Show(tagname', line, image)
    BY <1>2, Zenon DEF ShowStandard
  <2>2. OneField => name = tag.name /\ line = 1 /\ image = tag.image BY <2>1, FieldsAre, Zenon
  <2> HIDE DEF name, line, image
  <2>3. Show(name, line, image) BY <2>1, Zenon DEF Show
  <2>4. times' = times + 1 /\ times + 1 = 1 BY <2>1
  <2>5. OneField => /\ times = 0 \/ Plain => name = tag.name
                    /\ line = times + 1 /\ image = tag.image
    BY <2>2, <2>4, Zenon
  <2> QED BY <2>1, <2>3, <2>4, <2>5, ShowIs
<1>3. CASE ShowCompact
  <2> DEFINE name == IF times = 0 THEN uncompress(Field(record), key) ELSE UncompressAgain
             line == times + 1
             image == tag.image
  <2>1. /\ record # <<>> /\ times' = times + 1 /\ tagname' = name
        /\ tag' = tag /\ extract' = extract /\ key' = key /\ record' = record
        /\ Show(tagname', times', tag.image)
    BY <1>3, Zenon DEF ShowCompact
  <2>2. ASSUME OneField, times = 0 \/ Plain PROVE name = tag.name
    <3>1. CASE times = 0
      <4>1. uncompress(Field(record), key) = tag.name BY <2>1, <2>2, FieldsAre, Zenon
      <4> QED BY <3>1, <4>1, Zenon
    <3>2. CASE times # 0
      <4>1. tagname = tag.name /\ "@" \notin ToSet(tag.name) BY <2>2, <3>2, Zenon DEF RecordInv, Plain
      <4>2. UncompressAgain = tag.name BY <4>1, Zenon DEF UncompressAgain
      <4> QED BY <3>2, <4>2, Zenon
    <3> QED BY <3>1, <3>2
  <2>3. Show(name, line, image) BY <2>1, Zenon DEF Show
  <2>4. OneField => /\ times = 0 \/ Plain => name = tag.name
                    /\ line = times + 1 /\ image = tag.image
    BY <2>2, Zenon
  <2> HIDE DEF name
  <2> QED BY <2>1, <2>3, <2>4, ShowIs
<1>4. CASE UNCHANGED recordVars
  <2>1. /\ tag' = tag /\ extract' = extract /\ key' = key /\ record' = record
        /\ tagname' = tagname /\ times' = times /\ shown' = shown
    BY <1>4 DEF recordVars
  <2> QED BY <2>1 DEF RecordInv, OneField, Plain, KeyOfTag, Filled, Rest, Right
<1> QED BY <1>1, <1>2, <1>3, <1>4 DEF RecordNext

\* Every tag comes back as it was written.
THEOREM RecordTagsKept == RecordSpec => []TagsKept
<1>1. RecordInit => RecordInv
  <2> SUFFICES ASSUME RecordInit PROVE RecordInv OBVIOUS
  <2>1. tag \in TagSet /\ record = <<>> /\ times = 0 /\ shown = <<>> BY DEF RecordInit, RecordInitOf
  <2>2. shown \in Seq({}) /\ Len(shown) = 0 BY <2>1
  <2>3. \A k : k \notin 1 .. times BY <2>1
  <2>4. times \in Nat BY <2>1
  <2> QED BY <2>1, <2>2, <2>3, <2>4, Zenon DEF RecordInv
<1>2. RecordInv /\ [RecordNext]_recordVars => RecordInv' BY RecordStep
<1>3. RecordInv => TagsKept
  <2> SUFFICES ASSUME RecordInv, NEW k \in DOMAIN shown, OneField
               PROVE  /\ k = 1 \/ "@" \notin ToSet(tag.name) => shown[k].name = tag.name
                      /\ shown[k].line = k /\ shown[k].image = tag.image
    BY Zenon DEF TagsKept
  <2>1. PICK S : shown \in Seq(S) BY DEF RecordInv
  <2>2. DOMAIN shown = 1 .. Len(shown) BY <2>1, LenProperties
  <2>3. k \in 1 .. times BY <2>2, Zenon DEF RecordInv
  <2>4. Right(k) BY <2>3, Zenon DEF RecordInv
  <2> QED BY <2>4, Zenon DEF Right, Plain
<1> QED BY <1>1, <1>2, <1>3, PTL DEF RecordSpec
=============================================================================
