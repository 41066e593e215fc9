--------------------------- MODULE SequenceLemmas ---------------------------
(* Facts about numbers and sequences that the proofs of several components   *)
(* rest on: least elements, and what the operators of SequencesExt return.   *)
EXTENDS Naturals, SequencesExt, SequenceTheorems, FiniteSetTheorems, TLAPS

\* Induction without an operator parameter: a set of numbers has a least element.
LEMMA LeastNatural ==
    ASSUME NEW T \in SUBSET Nat, T # {}
    PROVE  \E x \in T : \A y \in T : x <= y
  <1> DEFINE R == StrictSubsetOrdering(Nat)
             Starts == {1..x : x \in T}
  <1>1. IsWellFoundedOn(R, FiniteSubsetsOf(Nat)) BY FS_StrictSubsetOrderingWellFounded
  <1>2. \A x, y \in Nat : y < x => <<1..y, 1..x>> \in R
    <2> SUFFICES ASSUME NEW x \in Nat, NEW y \in Nat, y < x PROVE <<1..y, 1..x>> \in R OBVIOUS
    <2>1. /\ 1..y \in SUBSET Nat /\ 1..x \in SUBSET Nat /\ 1..y \subseteq 1..x
          /\ x \in (1..x) \ (1..y)
      OBVIOUS
    <2> QED BY <2>1 DEF StrictSubsetOrdering
  <1>3. Starts \subseteq FiniteSubsetsOf(Nat) /\ Starts # {}
    <2>1. \A x \in Nat : IsFiniteSet(1..x) /\ 1..x \in SUBSET Nat BY FS_Interval
    <2> QED BY <2>1 DEF FiniteSubsetsOf
  <1> HIDE DEF R
  <1>4. PICK s \in Starts : \A t \in Starts : ~(<<t, s>> \in R)
    <2> HIDE DEF Starts
    <2> DEFINE F == FiniteSubsetsOf(Nat)
    <2>1. IsWellFoundedOn(R, F) /\ Starts \subseteq F /\ Starts # {} BY <1>1, <1>3
    <2> HIDE DEF F
    <2>2. \E s \in Starts : \A t \in Starts : ~(<<t, s>> \in R) BY <2>1, WFMin, Zenon
    <2> QED BY <2>2
  <1>5. PICK x \in T : s = 1..x OBVIOUS
  <1>6. ASSUME NEW y \in T PROVE x <= y
    <2>1. ~(<<1..y, 1..x>> \in R) BY <1>4, <1>5
    <2>2. ~(y < x) BY <1>2, <2>1
    <2> QED BY <2>2
  <1> QED BY <1>6

LEMMA MinIsLeast ==
    ASSUME NEW T \in SUBSET Nat, T # {}
    PROVE  Min(T) \in T /\ \A y \in T : Min(T) <= y
  BY LeastNatural DEF Min

LEMMA SliceIs ==
    ASSUME NEW S, NEW s \in Seq(S), NEW m \in Nat, NEW n \in Nat, m <= n, n <= Len(s)
    PROVE  /\ SubSeq(s, m + 1, n) \in Seq(S) /\ Len(SubSeq(s, m + 1, n)) = n - m
           /\ \A i \in 1..(n - m) : SubSeq(s, m + 1, n)[i] = s[m + i]
  <1>1. Len(s) \in Nat /\ \A i \in (m + 1)..n : s[i] \in S BY ElementOfSeq
  <1>2. /\ SubSeq(s, m + 1, n) \in Seq(S)
        /\ Len(SubSeq(s, m + 1, n)) = IF m + 1 <= n THEN n - (m + 1) + 1 ELSE 0
        /\ \A i \in 1..(n - (m + 1) + 1) : SubSeq(s, m + 1, n)[i] = s[(m + 1) + i - 1]
    BY <1>1, SubSeqProperties
  <1>3. Len(SubSeq(s, m + 1, n)) = n - m BY <1>2
  <1>4. ASSUME NEW i \in 1..(n - m) PROVE SubSeq(s, m + 1, n)[i] = s[m + i]
    <2>1. i \in 1..(n - (m + 1) + 1) /\ (m + 1) + i - 1 = m + i OBVIOUS
    <2> QED BY <1>2, <2>1
  <1> QED BY <1>2, <1>3, <1>4

LEMMA RemoveAtProperties ==
    ASSUME NEW S, NEW s \in Seq(S), NEW k \in 1..Len(s)
    PROVE  /\ RemoveAt(s, k) \in Seq(S) /\ Len(RemoveAt(s, k)) = Len(s) - 1
           /\ \A i \in 1..(Len(s) - 1) : RemoveAt(s, k)[i] = IF i < k THEN s[i] ELSE s[i + 1]
  <1> DEFINE a == SubSeq(s, 1, k - 1)
             b == SubSeq(s, k + 1, Len(s))
  <1>1. Len(s) \in Nat /\ k \in Nat /\ \A i \in 1..Len(s) : s[i] \in S BY LenProperties
  <1>2. a \in Seq(S) /\ Len(a) = k - 1 /\ \A i \in 1..(k - 1) : a[i] = s[i]
    <2>1. \A i \in 1..(k - 1) : s[i] \in S BY <1>1
    <2> QED BY <1>1, <2>1, SubSeqProperties
  <1>3. b \in Seq(S) /\ Len(b) = Len(s) - k /\ \A i \in 1..(Len(s) - k) : b[i] = s[k + i]
    <2>1. \A i \in (k + 1)..Len(s) : s[i] \in S BY <1>1
    <2> QED BY <1>1, <2>1, SubSeqProperties
  <1> HIDE DEF a, b
  <1>4. /\ a \o b \in Seq(S) /\ Len(a \o b) = Len(a) + Len(b)
        /\ \A i \in 1..(Len(a) + Len(b)) : (a \o b)[i] = IF i <= Len(a) THEN a[i] ELSE b[i - Len(a)]
    BY <1>2, <1>3, ConcatProperties
  <1>5. RemoveAt(s, k) = a \o b BY DEF RemoveAt, a, b
  <1>6. ASSUME NEW i \in 1..(Len(s) - 1)
        PROVE  (a \o b)[i] = IF i < k THEN s[i] ELSE s[i + 1]
    <2>1. CASE i < k BY <1>1, <1>2, <1>3, <1>4, <2>1
    <2>2. CASE ~(i < k)
      <3>1. (a \o b)[i] = b[i - (k - 1)] BY <1>1, <1>2, <1>3, <1>4, <2>2
      <3>2. i - (k - 1) \in 1..(Len(s) - k) BY <1>1, <2>2
      <3>3. b[i - (k - 1)] = s[k + (i - (k - 1))] BY <1>3, <3>2
      <3> QED BY <1>1, <2>2, <3>1, <3>3
    <2> QED BY <2>1, <2>2
  <1>7. Len(a) + Len(b) = Len(s) - 1 BY <1>1, <1>2, <1>3
  <1>8. /\ a \o b \in Seq(S) /\ Len(a \o b) = Len(s) - 1
        /\ \A i \in 1..(Len(s) - 1) : (a \o b)[i] = IF i < k THEN s[i] ELSE s[i + 1]
    BY <1>4, <1>6, <1>7
  <1> QED BY <1>5, <1>8

LEMMA ReverseProperties ==
    ASSUME NEW S, NEW s \in Seq(S)
    PROVE  /\ Reverse(s) \in Seq(S) /\ Len(Reverse(s)) = Len(s)
           /\ \A i \in 1..Len(s) : Len(s) - i + 1 \in 1..Len(s) /\ Reverse(s)[i] = s[Len(s) - i + 1]
  BY DEF Reverse

LEMMA FrontProperties ==
    ASSUME NEW S, NEW s \in Seq(S), s # <<>>
    PROVE  /\ Front(s) \in Seq(S) /\ Len(Front(s)) = Len(s) - 1
           /\ \A i \in 1..(Len(s) - 1) : Front(s)[i] = s[i]
           /\ Len(s) \in 1..Len(s) /\ Last(s) = s[Len(s)]
  <1>1. Len(s) \in Nat \ {0} /\ \A i \in 1..Len(s) : s[i] \in S BY EmptySeq, LenProperties
  <1>2. \A i \in 1..(Len(s) - 1) : s[i] \in S BY <1>1
  <1> DEFINE n == Len(s) - 1
             f == SubSeq(s, 1, n)
  <1>3. n \in Nat /\ \A i \in 1..n : s[i] \in S BY <1>1
  <1> HIDE DEF n
  <1>4. f \in Seq(S) /\ Len(f) = n /\ \A i \in 1..n : f[i] = s[i] BY <1>3, SubSeqProperties
  <1>5. Front(s) = f BY DEF Front, n
  <1> QED BY <1>1, <1>4, <1>5 DEF Last, n

\* A sequence in which nothing is twice has as many elements as it is long.
LEMMA InjectiveSeq ==
    ASSUME NEW S, NEW s \in Seq(S), \A i, j \in DOMAIN s : s[i] = s[j] => i = j
    PROVE  IsFiniteSet(Range(s)) /\ Cardinality(Range(s)) = Len(s)
  <1>1. Len(s) \in Nat /\ DOMAIN s = 1..Len(s) BY LenProperties
  <1>2. s \in [1..Len(s) -> Range(s)] BY <1>1, LenProperties DEF Range
  <1>3. s \in Bijection(1..Len(s), Range(s))
    BY <1>1, <1>2 DEF Bijection, Injection, Surjection, IsInjective, Range
  <1> QED BY <1>1, <1>3, FS_CountingElements, FS_NatBijection DEF ExistsBijection

LEMMA AppendToTwo ==
    ASSUME NEW a, NEW b, NEW c
    PROVE  Append(<<a, b>>, c) = <<a, b, c>>
  <1> DEFINE s == Append(<<a, b>>, c)
  <1>1. <<a, b>> \in Seq({a, b, c}) /\ <<a, b, c>> \in Seq({a, b, c}) /\ c \in {a, b, c} OBVIOUS
  <1>2. s \in Seq({a, b, c}) /\ Len(s) = 3 /\ s[1] = a /\ s[2] = b /\ s[3] = c
    BY <1>1, AppendProperties
  <1> HIDE DEF s
  <1>3. \A i \in 1..3 : s[i] = <<a, b, c>>[i] BY <1>2
  <1> QED BY <1>1, <1>2, <1>3, SeqEqual DEF s

\* What the operators on sequences make of short ones.
LEMMA ShortSequences ==
    ASSUME NEW a, NEW b, NEW c
    PROVE  /\ Head(<<a>>) = a /\ Tail(<<a>>) = <<>> /\ Append(<<>>, a) = <<a>> /\ <<a>> # <<>>
           /\ Head(<<a, b>>) = a /\ Tail(<<a, b>>) = <<b>> /\ Append(<<a>>, b) = <<a, b>> /\ <<a, b>> # <<>>
           /\ Head(<<a, b, c>>) = a /\ Tail(<<a, b, c>>) = <<b, c>> /\ Append(<<a, b>>, c) = <<a, b, c>>
           /\ <<a, b, c>> # <<>>
           /\ <<>> \o <<a>> = <<a>> /\ <<>> \o <<a, b>> = <<a, b>> /\ <<a>> \o <<b>> = <<a, b>>
  <1>1. Head(<<a>>) = a /\ Tail(<<a>>) = <<>> /\ Append(<<>>, a) = <<a>> /\ <<a>> # <<>> OBVIOUS
  <1>7. Head(<<a, b>>) = a /\ <<a, b>> # <<>> /\ Head(<<a, b, c>>) = a /\ <<a, b, c>> # <<>> OBVIOUS
  <1>8. Append(<<a>>, b) = <<a, b>>
    <2> DEFINE s == Append(<<a>>, b)
    <2>1. <<a>> \in Seq({a, b}) /\ <<a, b>> \in Seq({a, b}) /\ b \in {a, b} OBVIOUS
    <2>2. s \in Seq({a, b}) /\ Len(s) = 2 /\ s[1] = a /\ s[2] = b BY <2>1, AppendProperties
    <2> HIDE DEF s
    <2>3. \A i \in 1..2 : s[i] = <<a, b>>[i] BY <2>2
    <2> QED BY <2>1, <2>2, <2>3, SeqEqual DEF s
  <1>9. Append(<<a, b>>, c) = <<a, b, c>> BY AppendToTwo
  <1>2. Tail(<<a, b>>) = <<b>> OBVIOUS
  <1>3. Tail(<<a, b, c>>) = <<b, c>> OBVIOUS
  <1>4. <<>> \o <<a>> = <<a>> OBVIOUS
  <1>5. <<>> \o <<a, b>> = <<a, b>> OBVIOUS
  <1>6. <<a>> \o <<b>> = <<a, b>>
    <2> DEFINE s == <<a>> \o <<b>>
    <2>1. <<a>> \in Seq({a, b}) /\ <<b>> \in Seq({a, b}) /\ <<a, b>> \in Seq({a, b}) OBVIOUS
    <2>2. s \in Seq({a, b}) /\ Len(s) = 2 /\ s[1] = a /\ s[2] = b BY <2>1, ConcatProperties
    <2> HIDE DEF s
    <2>3. Len(<<a, b>>) = 2 /\ <<a, b>>[1] = a /\ <<a, b>>[2] = b OBVIOUS
    <2>4. \A i \in 1..2 : s[i] = <<a, b>>[i] BY <2>2, <2>3
    <2> QED BY <2>1, <2>2, <2>3, <2>4, SeqEqual DEF s
  <1> QED BY <1>1, <1>2, <1>3, <1>4, <1>5, <1>6, <1>7, <1>8, <1>9

\* The least number at which a set of them stops to be closed: induction.
LEMMA EveryNatural ==
    ASSUME NEW T, 0 \in T, \A n \in Nat : n \in T => n + 1 \in T
    PROVE  \A n \in Nat : n \in T
  <1> SUFFICES ASSUME Nat \ T # {} PROVE FALSE OBVIOUS
  <1>1. PICK x \in Nat \ T : \A y \in Nat \ T : x <= y BY LeastNatural
  <1>2. x # 0 /\ x - 1 \in Nat /\ x = (x - 1) + 1 OBVIOUS
  <1>3. x - 1 \in T BY <1>1, <1>2
  <1> QED BY <1>2, <1>3

\* A function that is defined by recursion on a bounded number exists: h[k] makes
\* its value at k of the one before.
Makers(S, n) == [1..n -> [S -> S]]
IsMade(f, a, h, n) == f[0] = a /\ \A k \in 1..n : f[k] = h[k][f[k - 1]]

LEMMA RecursionExists ==
    ASSUME NEW S, NEW n \in Nat, NEW a \in S, NEW h \in Makers(S, n)
    PROVE  \E f \in [0..n -> S] : IsMade(f, a, h, n)
  <1>0. h \in [1..n -> [S -> S]] BY DEF Makers
  <1> DEFINE T == {m \in Nat : m <= n =>
                      \E f \in [0..m -> S] : f[0] = a /\ \A k \in 1..m : f[k] = h[k][f[k - 1]]}
  <1>1. 0 \in T
    <2>1. PICK f : f = [k \in 0..0 |-> a] OBVIOUS
    <2>2. f \in [0..0 -> S] /\ f[0] = a /\ \A k \in 1..0 : f[k] = h[k][f[k - 1]] BY <2>1
    <2> QED BY <2>2
  <1>2. ASSUME NEW m \in Nat, m \in T PROVE m + 1 \in T
    <2> SUFFICES ASSUME m + 1 <= n
                 PROVE  \E f \in [0..(m + 1) -> S] :
                           f[0] = a /\ \A k \in 1..(m + 1) : f[k] = h[k][f[k - 1]]
      OBVIOUS
    <2>1. PICK f \in [0..m -> S] : f[0] = a /\ \A k \in 1..m : f[k] = h[k][f[k - 1]] BY <1>2
    <2>2. f[m] \in S /\ h[m + 1][f[m]] \in S BY <1>0
    <2> DEFINE g == [k \in 0..(m + 1) |-> IF k = m + 1 THEN h[m + 1][f[m]] ELSE f[k]]
    <2>3. g \in [0..(m + 1) -> S] BY <2>2
    <2>4. g[0] = a BY <2>1
    <2>5. ASSUME NEW k \in 1..(m + 1) PROVE g[k] = h[k][g[k - 1]]
      <3>1. CASE k = m + 1 BY <3>1
      <3>2. CASE k # m + 1
        <4>1. k \in 1..m /\ k - 1 \in 0..m /\ k - 1 # m + 1 BY <3>2
        <4> QED BY <2>1, <4>1
      <3> QED BY <3>1, <3>2
    <2> HIDE DEF g
    <2> QED BY <2>3, <2>4, <2>5
  <1> HIDE DEF T
  <1>3. n \in T BY <1>1, <1>2, EveryNatural
  <1> QED BY <1>3 DEF T, IsMade

\* The same when the values go through one set after another: h[k] takes what
\* is in S[k - 1] to what is in S[k].
IsChain(S, h, n) == \A k \in 1..n : \A v \in S[k - 1] : h[k][v] \in S[k]

LEMMA ChainStays ==
    ASSUME NEW S, NEW h, NEW n \in Nat, IsChain(S, h, n), NEW f, f[0] \in S[0],
           \A k \in 1..n : f[k - 1] \in S[k - 1] => f[k] = h[k][f[k - 1]]
    PROVE  \A k \in 0..n : f[k] \in S[k]
  <1> DEFINE T == {k \in Nat : k <= n => f[k] \in S[k]}
  <1>1. 0 \in T OBVIOUS
  <1>2. ASSUME NEW k \in Nat, k \in T PROVE k + 1 \in T
    <2> SUFFICES ASSUME k + 1 <= n PROVE f[k + 1] \in S[k + 1] OBVIOUS
    <2>1. k + 1 \in 1..n /\ (k + 1) - 1 = k /\ k <= n OBVIOUS
    <2>2. f[k] \in S[k] BY <1>2, <2>1
    <2> HIDE DEF T
    <2>3. f[k + 1] = h[k + 1][f[k]] BY <2>1, <2>2
    <2>4. h[k + 1][f[k]] \in S[k + 1] BY <2>1, <2>2 DEF IsChain
    <2> QED BY <2>3, <2>4
  <1>3. \A k \in Nat : k \in T
    <2> HIDE DEF T
    <2> QED BY <1>1, <1>2, EveryNatural
  <1> QED BY <1>3

\* What n steps of h make of a.
IsRun(f, a, h, n) == f = [k \in 0..n |-> IF k = 0 THEN a ELSE h[k][f[k - 1]]]

LEMMA ChainExists ==
    ASSUME NEW S, NEW h, NEW n \in Nat, IsChain(S, h, n), NEW a \in S[0]
    PROVE  \E f : IsRun(f, a, h, n) /\ \A k \in 0..n : f[k] \in S[k]
  <1> DEFINE All == UNION {S[k] : k \in 0..n}
             g == [k \in 1..n |-> [v \in All |-> IF v \in S[k - 1] THEN h[k][v] ELSE a]]
  <1>1. \A k \in 0..n : S[k] \subseteq All OBVIOUS
  <1>2. a \in All BY <1>1
  <1>3. \A k \in 1..n, v \in All : g[k][v] = IF v \in S[k - 1] THEN h[k][v] ELSE a OBVIOUS
  <1>4. ASSUME NEW k \in 1..n, NEW v \in All PROVE (IF v \in S[k - 1] THEN h[k][v] ELSE a) \in All
    <2>1. v \in S[k - 1] => h[k][v] \in S[k] BY DEF IsChain
    <2>2. k \in 0..n OBVIOUS
    <2> HIDE DEF All
    <2> QED BY <1>1, <1>2, <2>1, <2>2
  <1>5. g \in Makers(All, n)
    <2> HIDE DEF All
    <2> QED BY <1>4 DEF Makers
  <1> HIDE DEF g, All
  <1>6. PICK f \in [0..n -> All] : IsMade(f, a, g, n) BY <1>2, <1>5, RecursionExists
  <1>7. f[0] = a /\ \A k \in 1..n : f[k] = g[k][f[k - 1]] BY <1>6 DEF IsMade
  <1>8. \A k \in 1..n : f[k - 1] \in All
    <2>1. \A k \in 1..n : k - 1 \in 0..n OBVIOUS
    <2> QED BY <1>6, <2>1
  <1>9. \A k \in 1..n : f[k - 1] \in S[k - 1] => f[k] = h[k][f[k - 1]] BY <1>3, <1>7, <1>8
  <1>10. \A k \in 0..n : f[k] \in S[k] BY <1>7, <1>9, ChainStays
  <1>11. ASSUME NEW k \in 0..n, k # 0 PROVE f[k] = h[k][f[k - 1]]
    <2>1. k \in 1..n /\ k - 1 \in 0..n BY <1>11
    <2> QED BY <1>9, <1>10, <2>1
  <1>12. IsRun(f, a, h, n)
    <2>1. \A k \in 0..n : f[k] = IF k = 0 THEN a ELSE h[k][f[k - 1]] BY <1>7, <1>11
    <2> QED BY <1>6, <2>1 DEF IsRun
  <1> QED BY <1>10, <1>12

LEMMA RemoveFirstProperties ==
    ASSUME NEW S, NEW s \in Seq(S), NEW e
    PROVE  /\ RemoveFirst(s, e) \in Seq(S)
           /\ Range(s) \ {e} \subseteq Range(RemoveFirst(s, e))
           /\ Range(RemoveFirst(s, e)) \subseteq Range(s)
  <1>1. CASE ~\E i \in 1..Len(s) : s[i] = e BY <1>1 DEF RemoveFirst
  <1>2. CASE \E i \in 1..Len(s) : s[i] = e
    <2> DEFINE T == {i \in 1..Len(s) : s[i] = e}
               k == Min(T)
    <2>1. Min(T) \in T
      <3>1. T \in SUBSET Nat /\ T # {} BY <1>2
      <3> HIDE DEF T
      <3> QED BY <3>1, MinIsLeast
    <2>2. RemoveFirst(s, e) = RemoveAt(s, k) BY <1>2 DEF RemoveFirst, SelectInSeq
    <2>3. k \in 1..Len(s) /\ s[k] = e /\ Len(s) \in Nat BY <2>1, LenProperties
    <2> HIDE DEF k
    <2> DEFINE r == RemoveAt(s, k)
    <2>4. /\ r \in Seq(S) /\ Len(r) = Len(s) - 1
          /\ \A i \in 1..(Len(s) - 1) : r[i] = IF i < k THEN s[i] ELSE s[i + 1]
      BY <2>3, RemoveAtProperties
    <2>5. DOMAIN r = 1..(Len(s) - 1) /\ DOMAIN s = 1..Len(s) BY <2>4, LenProperties
    <2> HIDE DEF r
    <2>6. ASSUME NEW x \in Range(s) \ {e} PROVE x \in Range(r)
      <3>1. PICK i \in 1..Len(s) : x = s[i] BY <2>5 DEF Range
      <3>2. i # k BY <2>3, <3>1
      <3>3. CASE i < k
        <4>1. i \in 1..(Len(s) - 1) /\ r[i] = s[i] BY <2>3, <2>4, <3>3
        <4> QED BY <2>5, <3>1, <4>1 DEF Range
      <3>4. CASE ~(i < k)
        <4>1. i - 1 \in 1..(Len(s) - 1) /\ ~(i - 1 < k) /\ (i - 1) + 1 = i BY <2>3, <3>2, <3>4
        <4>2. r[i - 1] = s[i] BY <2>4, <4>1
        <4> QED BY <2>5, <3>1, <4>1, <4>2 DEF Range
      <3> QED BY <3>3, <3>4
    <2>7. ASSUME NEW i \in 1..(Len(s) - 1) PROVE r[i] \in Range(s)
      <3>1. i \in DOMAIN s /\ i + 1 \in DOMAIN s BY <2>3, <2>5
      <3> QED BY <2>4, <3>1 DEF Range
    <2>8. Range(r) \subseteq Range(s) BY <2>5, <2>7 DEF Range
    <2>9. r \in Seq(S) /\ Range(s) \ {e} \subseteq Range(r) /\ Range(r) \subseteq Range(s)
      BY <2>4, <2>6, <2>8
    <2> QED BY <2>2, <2>9 DEF r
  <1> QED BY <1>1, <1>2

\* Induction over sequences: a set that has the empty one, and with a sequence
\* everything that is appended to it, has all.
LEMMA EverySequence ==
    ASSUME NEW S, NEW T, <<>> \in T, \A s \in Seq(S) : s \in T => \A e \in S : Append(s, e) \in T
    PROVE  \A s \in Seq(S) : s \in T
  <1> DEFINE N == {n \in Nat : \A s \in Seq(S) : Len(s) = n => s \in T}
  <1>1. 0 \in N
    <2>1. \A s \in Seq(S) : Len(s) = 0 => s = <<>> BY EmptySeq
    <2> QED BY <2>1
  <1>2. ASSUME NEW n \in Nat, n \in N PROVE n + 1 \in N
    <2> SUFFICES ASSUME NEW s \in Seq(S), Len(s) = n + 1 PROVE s \in T OBVIOUS
    <2>1. s # <<>> BY EmptySeq
    <2>2. PICK r \in Seq(S), e \in S : s = Append(r, e) BY <2>1, SequenceEmptyOrAppend
    <2>3. Len(s) = Len(r) + 1 /\ Len(r) \in Nat BY <2>2, AppendProperties, LenProperties
    <2>4. Len(r) = n BY <2>3
    <2>5. r \in T BY <1>2, <2>4
    <2> QED BY <2>2, <2>5
  <1>3. \A n \in Nat : n \in N
    <2> HIDE DEF N
    <2> QED BY <1>1, <1>2, EveryNatural
  <1> QED BY <1>3, LenProperties

LEMMA AppendedIs ==
    ASSUME NEW S, NEW s \in Seq(S), NEW e \in S
    PROVE  /\ Append(s, e) \in Seq(S) /\ Append(s, e) # <<>> /\ Last(Append(s, e)) = e
           /\ Range(Append(s, e)) = Range(s) \union {e}
           /\ IsInjective(Append(s, e)) <=> IsInjective(s) /\ e \notin Range(s)
  <1>1. PICK n \in Nat : n = Len(s) BY LenProperties
  <1>2. PICK r : r = Append(s, e) OBVIOUS
  <1>3. /\ r \in Seq(S) /\ r # <<>> /\ Len(r) = n + 1 /\ r[n + 1] = e
        /\ \A i \in 1..n : r[i] = s[i]
    BY <1>1, <1>2, AppendProperties
  <1>4. DOMAIN s = 1..n /\ DOMAIN r = 1..(n + 1) BY <1>1, <1>3, LenProperties
  <1>5. Range(r) = Range(s) \union {e}
    <2>1. \A i \in 1..(n + 1) : i \in 1..n \/ i = n + 1 OBVIOUS
    <2>2. 1..n \subseteq 1..(n + 1) /\ n + 1 \in 1..(n + 1) OBVIOUS
    <2> QED BY <1>3, <1>4, <2>1, <2>2 DEF Range
  <1>6. IsInjective(r) <=> IsInjective(s) /\ e \notin Range(s)
    <2>1. \A i \in 1..(n + 1) : i \in 1..n \/ i = n + 1 OBVIOUS
    <2>2. 1..n \subseteq 1..(n + 1) /\ n + 1 \in 1..(n + 1) /\ n + 1 \notin 1..n OBVIOUS
    <2> QED BY <1>3, <1>4, <2>1, <2>2 DEF IsInjective, Range
  <1> QED BY <1>2, <1>3, <1>5, <1>6 DEF Last

LEMMA RemoveFirstAbsent ==
    ASSUME NEW S, NEW s \in Seq(S), NEW e, e \notin Range(s)
    PROVE  RemoveFirst(s, e) = s
  <1>1. \A i \in 1..Len(s) : s[i] # e BY LenProperties DEF Range
  <1> QED BY <1>1 DEF RemoveFirst

\* What removing an element leaves, where nothing is twice.
LEMMA RemoveFirstAppended ==
    ASSUME NEW S, NEW s \in Seq(S), NEW e \in S, IsInjective(Append(s, e)), NEW d
    PROVE  RemoveFirst(Append(s, e), d) = IF d = e THEN s ELSE Append(RemoveFirst(s, d), e)
  <1>1. PICK n \in Nat : n = Len(s) BY LenProperties
  <1>2. PICK r : r = Append(s, e) OBVIOUS
  <1>3. /\ r \in Seq(S) /\ Len(r) = n + 1 /\ r[n + 1] = e /\ \A i \in 1..n : r[i] = s[i]
    BY <1>1, <1>2, AppendProperties
  <1>4. DOMAIN s = 1..n /\ DOMAIN r = 1..(n + 1) BY <1>1, <1>3, LenProperties
  <1>5. \A i, j \in 1..(n + 1) : r[i] = r[j] => i = j BY <1>2, <1>4 DEF IsInjective
  <1>6. ASSUME NEW k \in 1..(n + 1), r[k] = d PROVE RemoveFirst(r, d) = RemoveAt(r, k)
    <2> DEFINE I == {i \in 1..(n + 1) : r[i] = d}
    <2>1. I = {k} BY <1>5, <1>6
    <2>2. I \in SUBSET Nat /\ I # {} BY <1>6
    <2>3. RemoveFirst(r, d) = RemoveAt(r, Min(I)) BY <1>3, <1>4, <1>6 DEF RemoveFirst, SelectInSeq
    <2> HIDE DEF I
    <2>4. Min(I) = k BY <2>1, <2>2, MinIsLeast
    <2> QED BY <2>3, <2>4
  <1>7. ASSUME NEW k \in 1..n, s[k] = d PROVE RemoveFirst(s, d) = RemoveAt(s, k)
    <2> DEFINE I == {i \in 1..n : s[i] = d}
    <2>1. \A i \in 1..n : i \in 1..(n + 1) OBVIOUS
    <2>2. I = {k} BY <1>3, <1>5, <1>7, <2>1
    <2>3. I \in SUBSET Nat /\ I # {} BY <2>2
    <2>4. RemoveFirst(s, d) = RemoveAt(s, Min(I)) BY <1>1, <1>4, <1>7 DEF RemoveFirst, SelectInSeq
    <2> HIDE DEF I
    <2>5. Min(I) = k BY <2>2, <2>3, MinIsLeast
    <2> QED BY <2>4, <2>5
  <1>8. CASE d = e
    <2>1. n + 1 \in 1..(n + 1) OBVIOUS
    <2>2. PICK q : q = RemoveAt(r, n + 1) OBVIOUS
    <2>3. /\ q \in Seq(S) /\ Len(q) = (n + 1) - 1
          /\ \A i \in 1..((n + 1) - 1) : q[i] = IF i < n + 1 THEN r[i] ELSE r[i + 1]
      BY <1>3, <2>1, <2>2, RemoveAtProperties
    <2>4. Len(q) = n /\ \A i \in 1..n : q[i] = s[i] BY <1>3, <2>3
    <2>5. q = s BY <1>1, <2>3, <2>4, SeqEqual
    <2> QED BY <1>2, <1>3, <1>6, <1>8, <2>1, <2>2, <2>5
  <1>9. CASE d # e /\ d \notin Range(s)
    <2>1. d \notin Range(r) BY <1>2, <1>9, AppendedIs
    <2> QED BY <1>2, <1>3, <1>9, <2>1, RemoveFirstAbsent
  <1>10. CASE d # e /\ d \in Range(s)
    <2>1. PICK k \in 1..n : s[k] = d BY <1>4, <1>10 DEF Range
    <2>2. k \in 1..(n + 1) /\ r[k] = d BY <1>3, <2>1
    <2>3. PICK q : q = RemoveAt(r, k) OBVIOUS
    <2>4. /\ q \in Seq(S) /\ Len(q) = (n + 1) - 1
          /\ \A i \in 1..((n + 1) - 1) : q[i] = IF i < k THEN r[i] ELSE r[i + 1]
      BY <1>3, <2>2, <2>3, RemoveAtProperties
    <2>5. PICK p : p = RemoveAt(s, k) OBVIOUS
    <2>6. /\ p \in Seq(S) /\ Len(p) = n - 1
          /\ \A i \in 1..(n - 1) : p[i] = IF i < k THEN s[i] ELSE s[i + 1]
      BY <1>1, <2>1, <2>5, RemoveAtProperties
    <2>7. PICK a : a = Append(p, e) OBVIOUS
    <2>8. /\ a \in Seq(S) /\ Len(a) = n /\ a[n] = e /\ \A i \in 1..(n - 1) : a[i] = p[i]
      <3>1. Len(p) + 1 = n BY <2>6
      <3> QED BY <2>6, <2>7, <3>1, AppendProperties
    <2>9. Len(q) = n BY <2>4
    <2>10. ASSUME NEW i \in 1..n PROVE q[i] = a[i]
      <3>1. CASE i = n
        <4>1. ~(i < k) /\ q[i] = r[i + 1] BY <2>1, <2>4, <3>1
        <4> QED BY <1>3, <2>8, <3>1, <4>1
      <3>2. CASE i # n
        <4>1. i \in 1..(n - 1) /\ i + 1 \in 1..n /\ i \in 1..((n + 1) - 1) BY <3>2
        <4>2. q[i] = IF i < k THEN s[i] ELSE s[i + 1] BY <1>3, <2>4, <4>1
        <4> QED BY <2>6, <2>8, <4>1, <4>2
      <3> QED BY <3>1, <3>2
    <2>11. q = a BY <2>4, <2>8, <2>9, <2>10, SeqEqual
    <2> QED BY <1>2, <1>6, <1>7, <1>10, <2>1, <2>2, <2>3, <2>5, <2>7, <2>11
  <1> QED BY <1>8, <1>9, <1>10

\* A function that is defined by recursion where each value needs the one at
\* another place, next[p]: those are all below, or all above.
IsJump(f, D, E, base, next, make) ==
    f = [p \in D |-> IF p \in E THEN base[p] ELSE make[p][f[next[p]]]]
Jumps(S, D, E, base, next, make) ==
    /\ base \in [D -> S] /\ make \in [D -> [S -> S]]
    /\ \A p \in D : p \notin E => next[p] \in D

LEMMA JumpsDownExist ==
    ASSUME NEW S, NEW n \in Nat, NEW D \in SUBSET (0..n), NEW E, NEW base, NEW next, NEW make,
           Jumps(S, D, E, base, next, make), \A p \in D : p \notin E => next[p] < p
    PROVE  \E f \in [D -> S] : IsJump(f, D, E, base, next, make)
  <1> DEFINE Under(m) == {p \in D : p < m}
             Made(f, m) == \A p \in Under(m) : f[p] = IF p \in E THEN base[p] ELSE make[p][f[next[p]]]
             T == {m \in Nat : \E f \in [Under(m) -> S] : Made(f, m)}
  <1>0. \A p \in D : p \in Nat /\ 0 <= p /\ p <= n /\ p < n + 1 /\ ~(p < 0) OBVIOUS
  <1>1. 0 \in T
    <2>1. Under(0) = {} BY <1>0
    <2>2. PICK f : f = [p \in Under(0) |-> base[p]] OBVIOUS
    <2>3. f \in [Under(0) -> S] /\ Made(f, 0) BY <2>1, <2>2
    <2> QED BY <2>3
  <1>2. ASSUME NEW m \in Nat, m \in T PROVE m + 1 \in T
    <2>1. PICK f \in [Under(m) -> S] : Made(f, m) BY <1>2
    <2>2. \A p \in Under(m) : f[p] = IF p \in E THEN base[p] ELSE make[p][f[next[p]]] BY <2>1
    <2>3. \A p \in Under(m + 1) : p \in Under(m) \/ p = m OBVIOUS
    <2>4. \A p \in Under(m) : p \in D /\ p # m /\ p \in Under(m + 1) OBVIOUS
    <2>5. \A p \in Under(m + 1) : p \notin E => next[p] \in Under(m)
      <3>1. ASSUME NEW p \in Under(m + 1), p \notin E PROVE next[p] \in Under(m)
        <4>1. p \in D /\ p <= m /\ p \in Nat OBVIOUS
        <4>2. next[p] \in D /\ next[p] < p BY <3>1, <4>1 DEF Jumps
        <4>3. next[p] \in Nat BY <1>0, <4>2
        <4> QED BY <4>1, <4>2, <4>3
      <3> QED BY <3>1
    <2> DEFINE v(p) == IF p \in E THEN base[p] ELSE make[p][f[next[p]]]
               g == [p \in Under(m + 1) |-> IF p = m THEN v(p) ELSE f[p]]
    <2>6. \A p \in Under(m + 1) : v(p) \in S
      <3>1. ASSUME NEW p \in Under(m + 1) PROVE v(p) \in S
        <4>1. p \in D OBVIOUS
        <4>2. base[p] \in S /\ \A x \in S : make[p][x] \in S BY <4>1 DEF Jumps
        <4>3. p \notin E => f[next[p]] \in S BY <2>1, <2>5
        <4> QED BY <4>2, <4>3
      <3> QED BY <3>1
    <2>7. \A p \in Under(m + 1) : g[p] = v(p)
      <3> HIDE DEF Under, Made
      <3> QED BY <2>2, <2>3, <2>4
    <2>8. \A p \in Under(m) : g[p] = f[p]
      <3> HIDE DEF Under, Made, v
      <3> QED BY <2>4
    <2>9. g \in [Under(m + 1) -> S]
      <3> HIDE DEF Under, v
      <3>1. \A p \in Under(m + 1) : g[p] \in S BY <2>6, <2>7
      <3> QED BY <3>1
    <2>10. Made(g, m + 1)
      <3> HIDE DEF Under, g
      <3> QED BY <2>5, <2>7, <2>8
    <2> HIDE DEF Under, g, Made
    <2> QED BY <2>9, <2>10
  <1>3. n + 1 \in T
    <2> HIDE DEF T
    <2> QED BY <1>1, <1>2, EveryNatural
  <1>4. Under(n + 1) = D BY <1>0
  <1>5. PICK f \in [Under(n + 1) -> S] : Made(f, n + 1) BY <1>3
  <1>6. f \in [D -> S] /\ \A p \in D : f[p] = IF p \in E THEN base[p] ELSE make[p][f[next[p]]]
    BY <1>4, <1>5
  <1> QED BY <1>6 DEF IsJump

LEMMA JumpValue ==
    ASSUME NEW f, NEW D, NEW E, NEW base, NEW next, NEW make, IsJump(f, D, E, base, next, make)
    PROVE  \A p \in D : f[p] = IF p \in E THEN base[p] ELSE make[p][f[next[p]]]
  <1>1. PICK h : h = [p \in D |-> IF p \in E THEN base[p] ELSE make[p][f[next[p]]]] OBVIOUS
  <1>2. \A p \in D : h[p] = IF p \in E THEN base[p] ELSE make[p][f[next[p]]] BY <1>1
  <1>3. f = h BY <1>1, Zenon DEF IsJump
  <1> QED BY <1>2, <1>3, Zenon

LEMMA JumpsUpExist ==
    ASSUME NEW S, NEW n \in Nat, NEW D \in SUBSET (0..n), NEW E, NEW base, NEW next, NEW make,
           Jumps(S, D, E, base, next, make), \A p \in D : p \notin E => next[p] > p
    PROVE  \E f \in [D -> S] : IsJump(f, D, E, base, next, make)
  <1> DEFINE D2 == {q \in 0..n : n - q \in D}
             E2 == {q \in 0..n : n - q \in E}
             b2 == [q \in D2 |-> base[n - q]]
             m2 == [q \in D2 |-> make[n - q]]
             n2 == [q \in D2 |-> n - next[n - q]]
  <1>0. /\ \A q \in D2 : n - q \in D /\ n - (n - q) = q
        /\ \A p \in D : n - p \in D2 /\ n - (n - p) = p
        /\ \A q \in D2 : q \in E2 <=> n - q \in E
    OBVIOUS
  <1>1. \A q \in D2 : q \notin E2 => n2[q] \in D2 /\ n2[q] < q
    <2>1. ASSUME NEW q \in D2, q \notin E2 PROVE n2[q] \in D2 /\ n2[q] < q
      <3>1. PICK x : x = next[n - q] OBVIOUS
      <3>2. x \in D /\ x > n - q BY <1>0, <2>1, <3>1 DEF Jumps
      <3>3. x \in 0..n /\ n - (n - x) = x BY <3>2
      <3>4. n2[q] = n - x BY <3>1
      <3> QED BY <3>2, <3>3, <3>4
    <2> QED BY <2>1
  <1>2. Jumps(S, D2, E2, b2, n2, m2)
    <2>1. b2 \in [D2 -> S] /\ m2 \in [D2 -> [S -> S]] BY <1>0 DEF Jumps
    <2> QED BY <1>1, <2>1 DEF Jumps
  <1>3. PICK g \in [D2 -> S] : IsJump(g, D2, E2, b2, n2, m2)
    <2>1. D2 \in SUBSET (0..n) OBVIOUS
    <2> HIDE DEF D2, E2, b2, m2, n2
    <2> QED BY <1>1, <1>2, <2>1, JumpsDownExist
  <1>4. \A q \in D2 : g[q] = IF q \in E2 THEN b2[q] ELSE m2[q][g[n2[q]]]
    <2> HIDE DEF D2, E2, b2, m2, n2
    <2> QED BY <1>3, JumpValue
  <1> DEFINE f == [p \in D |-> g[n - p]]
  <1>5. f \in [D -> S] BY <1>0, <1>3
  <1>6. ASSUME NEW p \in D PROVE f[p] = IF p \in E THEN base[p] ELSE make[p][f[next[p]]]
    <2>1. PICK q : q = n - p OBVIOUS
    <2>2. q \in D2 /\ n - q = p /\ (q \in E2 <=> p \in E) BY <1>0, <2>1
    <2>3. f[p] = g[q] BY <2>1
    <2>4. CASE p \in E
      <3>1. g[q] = b2[q] /\ b2[q] = base[p] BY <1>4, <2>2, <2>4
      <3> QED BY <2>3, <2>4, <3>1
    <2>5. CASE p \notin E
      <3>1. PICK x : x = next[p] OBVIOUS
      <3>2. x \in D BY <2>5, <3>1 DEF Jumps
      <3>3. n2[q] = n - x BY <2>2, <3>1
      <3>4. f[x] = g[n - x] BY <3>2
      <3>5. g[q] = m2[q][g[n2[q]]] /\ m2[q] = make[p] BY <1>4, <2>2, <2>5
      <3> QED BY <2>3, <2>5, <3>1, <3>3, <3>4, <3>5
    <2> QED BY <2>4, <2>5
  <1>7. IsJump(f, D, E, base, next, make)
    <2> HIDE DEF f
    <2>1. f = [p \in D |-> f[p]] BY <1>5
    <2> QED BY <1>6, <2>1 DEF IsJump
  <1> QED BY <1>5, <1>7

\* Whatever holds where a recursion ends, and with it wherever it jumps from, holds everywhere.
Carries(f, S, D, E, next) ==
    /\ \A p \in D : p \in E => f[p] \in S[p]
    /\ \A p \in D : p \notin E => next[p] \in D /\ (f[next[p]] \in S[next[p]] => f[p] \in S[p])

LEMMA JumpsDownStay ==
    ASSUME NEW n \in Nat, NEW D \in SUBSET (0..n), NEW E, NEW f, NEW S, NEW next,
           Carries(f, S, D, E, next), \A p \in D : p \notin E => next[p] < p
    PROVE  \A p \in D : f[p] \in S[p]
  <1> DEFINE T == {m \in Nat : \A p \in D : p <= m => f[p] \in S[p]}
  <1>0. \A p \in D : p \in Nat /\ p >= 0 /\ p <= n OBVIOUS
  <1>1. 0 \in T
    <2>1. ASSUME NEW p \in D, p <= 0 PROVE f[p] \in S[p]
      <3>1. p = 0 /\ \A q \in D : ~(q < p) BY <1>0, <2>1
      <3> QED BY <3>1 DEF Carries
    <2> QED BY <2>1
  <1>2. ASSUME NEW m \in Nat, m \in T PROVE m + 1 \in T
    <2>1. ASSUME NEW p \in D, p <= m + 1 PROVE f[p] \in S[p]
      <3>1. \A q \in D : q < p => q <= m BY <1>0, <2>1
      <3>2. \A q \in D : q < p => f[q] \in S[q] BY <1>2, <3>1
      <3> HIDE DEF T
      <3> QED BY <3>2 DEF Carries
    <2>2. m + 1 \in Nat OBVIOUS
    <2>3. \A p \in D : p <= m + 1 => f[p] \in S[p] BY <2>1, Zenon
    <2> QED BY <2>2, <2>3, Zenon
  <1>3. n \in T
    <2> HIDE DEF T
    <2> QED BY <1>1, <1>2, EveryNatural
  <1> QED BY <1>0, <1>3

LEMMA JumpsUpStay ==
    ASSUME NEW n \in Nat, NEW D \in SUBSET (0..n), NEW E, NEW f, NEW S, NEW next,
           Carries(f, S, D, E, next), \A p \in D : p \notin E => next[p] > p
    PROVE  \A p \in D : f[p] \in S[p]
  <1> DEFINE T == {m \in Nat : \A p \in D : n - p <= m => f[p] \in S[p]}
  <1>0. \A p \in D : p \in Nat /\ n - p \in Nat /\ n - p <= n OBVIOUS
  <1>1. 0 \in T
    <2>1. ASSUME NEW p \in D, n - p <= 0 PROVE f[p] \in S[p]
      <3>1. \A q \in D : ~(q > p) BY <1>0, <2>1
      <3> QED BY <3>1 DEF Carries
    <2> QED BY <2>1
  <1>2. ASSUME NEW m \in Nat, m \in T PROVE m + 1 \in T
    <2>1. ASSUME NEW p \in D, n - p <= m + 1 PROVE f[p] \in S[p]
      <3>1. \A q \in D : q > p => n - q <= m BY <1>0, <2>1
      <3>2. \A q \in D : q > p => f[q] \in S[q] BY <1>2, <3>1
      <3> HIDE DEF T
      <3> QED BY <3>2 DEF Carries
    <2>2. m + 1 \in Nat OBVIOUS
    <2>3. \A p \in D : n - p <= m + 1 => f[p] \in S[p] BY <2>1, Zenon
    <2> QED BY <2>2, <2>3, Zenon
  <1>3. n \in T
    <2> HIDE DEF T
    <2> QED BY <1>1, <1>2, EveryNatural
  <1> QED BY <1>0, <1>3

\* The sequences of P, one after the other: G[k] is the first k of them.
Joined(G, P, n, S) ==
    /\ G \in [0..n -> Seq(S)] /\ G[0] = <<>>
    /\ \A k \in 1..n : G[k] = G[k - 1] \o P[k]

LEMMA FlattenIs ==
    ASSUME NEW S, NEW P \in Seq(Seq(S)), NEW n, n = Len(P)
    PROVE  \E G : Joined(G, P, n, S) /\ FlattenSeq(P) = G[n]
  <1>0. n \in Nat /\ \A k \in 1..n : P[k] \in Seq(S) BY LenProperties
  <1>1. CASE n = 0
    <2>1. P = <<>> BY <1>1, EmptySeq
    <2>2. FlattenSeq(P) = P BY <1>1 DEF FlattenSeq
    <2>3. PICK G : G = [k \in 0..0 |-> <<>>] OBVIOUS
    <2>4. <<>> \in Seq(S) BY EmptySeq
    <2>5. G \in [0..0 -> Seq(S)] /\ G[0] = <<>> BY <2>3, <2>4
    <2>6. \A k \in 1..0 : FALSE OBVIOUS
    <2>7. Joined(G, P, n, S) BY <1>1, <2>5, <2>6 DEF Joined
    <2> QED BY <1>1, <2>1, <2>2, <2>5, <2>7
  <1>2. CASE n # 0
    <2> DEFINE D == 1..n
               E == {1}
               base == [k \in D |-> P[k]]
               next == [k \in D |-> k - 1]
               make == [k \in D |-> [v \in Seq(S) |-> v \o P[k]]]
               flatten == CHOOSE f : f = [i \in 1..Len(P) |-> IF i = 1 THEN P[i] ELSE f[i - 1] \o P[i]]
    <2>1. FlattenSeq(P) = flatten[n] BY <1>2, Zenon DEF FlattenSeq
    <2>2. D \in SUBSET (0..n) BY <1>0
    <2>3. \A k \in D : k \notin E => next[k] \in D /\ next[k] < k /\ next[k] = k - 1 BY <1>0
    <2>4. Jumps(Seq(S), D, E, base, next, make)
      <3>1. \A k \in D : \A v \in Seq(S) : v \o P[k] \in Seq(S) BY <1>0, ConcatProperties
      <3> QED BY <1>0, <2>3, <3>1 DEF Jumps
    <2>5. PICK f \in [D -> Seq(S)] : IsJump(f, D, E, base, next, make)
      <3> HIDE DEF D, E, base, next, make
      <3> QED BY <1>0, <2>2, <2>3, <2>4, JumpsDownExist
    <2>6. \A k \in D : f[k] = IF k \in E THEN base[k] ELSE make[k][f[next[k]]]
      <3> HIDE DEF D, E, base, next, make
      <3> QED BY <2>5, JumpValue
    <2>7. \A k \in D : f[k] = IF k = 1 THEN P[k] ELSE f[k - 1] \o P[k]
      <3>1. \A k \in D : k \notin E => make[k][f[next[k]]] = f[k - 1] \o P[k] BY <2>3, <2>5
      <3>2. \A k \in D : base[k] = P[k] /\ (k \in E <=> k = 1) OBVIOUS
      <3> HIDE DEF D, E, base, next, make
      <3> QED BY <2>6, <3>1, <3>2
    <2>8. f = [i \in 1..Len(P) |-> IF i = 1 THEN P[i] ELSE f[i - 1] \o P[i]]
      <3>1. PICK g : g = [i \in 1..Len(P) |-> IF i = 1 THEN P[i] ELSE f[i - 1] \o P[i]] OBVIOUS
      <3>2. f = g BY <2>5, <2>7, <3>1
      <3> QED BY <3>1, <3>2, Zenon
    <2>9. flatten = [i \in 1..Len(P) |-> IF i = 1 THEN P[i] ELSE flatten[i - 1] \o P[i]] BY <2>8, Zenon
    <2> HIDE DEF flatten
    <2>10. \A k \in 1..n : flatten[k] = IF k = 1 THEN P[k] ELSE flatten[k - 1] \o P[k]
      <3>1. PICK g : g = [i \in 1..Len(P) |-> IF i = 1 THEN P[i] ELSE flatten[i - 1] \o P[i]] OBVIOUS
      <3>2. flatten = g BY <2>9, <3>1, Zenon
      <3>3. \A k \in 1..n : g[k] = IF k = 1 THEN P[k] ELSE flatten[k - 1] \o P[k] BY <3>1
      <3> QED BY <3>2, <3>3, Zenon
    <2> DEFINE V == [k \in D |-> Seq(S)]
    <2>11. \A k \in D : flatten[k] \in V[k]
      <3>1. \A k \in D : k \in E => flatten[k] \in V[k] BY <1>0, <2>10
      <3>2. ASSUME NEW k \in D, k \notin E, flatten[next[k]] \in V[next[k]] PROVE flatten[k] \in V[k]
        <4>1. flatten[k - 1] \in Seq(S) /\ P[k] \in Seq(S) BY <1>0, <2>3, <3>2
        <4>2. flatten[k - 1] \o P[k] \in Seq(S) BY <4>1, ConcatProperties
        <4>3. k # 1 BY <3>2
        <4> QED BY <2>10, <4>2, <4>3
      <3> HIDE DEF D, E, next, V
      <3>3. Carries(flatten, V, D, E, next) BY <2>3, <3>1, <3>2 DEF Carries
      <3> QED BY <1>0, <2>2, <2>3, <3>3, JumpsDownStay
    <2>12. PICK G : G = [k \in 0..n |-> IF k = 0 THEN <<>> ELSE flatten[k]] OBVIOUS
    <2>13. G[0] = <<>> /\ \A k \in 1..n : G[k] = flatten[k] /\ k \in 0..n /\ k # 0 BY <1>0, <2>12
    <2>14. G \in [0..n -> Seq(S)]
      <3>1. \A k \in 0..n : k = 0 \/ k \in 1..n BY <1>0
      <3>2. <<>> \in Seq(S) BY EmptySeq
      <3>3. \A k \in 0..n : (IF k = 0 THEN <<>> ELSE flatten[k]) \in Seq(S) BY <2>11, <3>1, <3>2
      <3> QED BY <2>12, <3>3
    <2>15. ASSUME NEW k \in 1..n PROVE G[k] = G[k - 1] \o P[k]
      <3>1. CASE k = 1
        <4>1. P[1] \in Seq(S) BY <1>0, <3>1
        <4>2. <<>> \o P[1] = P[1] BY <4>1
        <4>3. k - 1 = 0 BY <3>1
        <4> QED BY <2>10, <2>13, <3>1, <4>2, <4>3
      <3>2. CASE k # 1
        <4>1. k - 1 \in 1..n BY <1>0, <3>2
        <4> QED BY <2>10, <2>13, <3>2, <4>1
      <3> QED BY <3>1, <3>2
    <2>16. Joined(G, P, n, S) BY <2>13, <2>14, <2>15 DEF Joined
    <2>17. n \in 1..n BY <1>0, <1>2
    <2> QED BY <2>1, <2>13, <2>16, <2>17
  <1> QED BY <1>1, <1>2

\* Where each of them is in the whole.
LiesIn(G, P, n) ==
    \A i \in 1..n : /\ Len(G[i]) = Len(G[i - 1]) + Len(P[i]) /\ Len(G[i]) <= Len(G[n])
                    /\ Len(G[i - 1]) \in Nat /\ Len(G[i]) \in Nat
                    /\ \A k \in 1..Len(P[i]) : G[n][Len(G[i - 1]) + k] = P[i][k]

LEMMA JoinedKeeps ==
    ASSUME NEW S, NEW P \in Seq(Seq(S)), NEW n, n = Len(P), NEW G, Joined(G, P, n, S)
    PROVE  LiesIn(G, P, n)
  <1>0. n \in Nat /\ \A k \in 1..n : P[k] \in Seq(S) /\ Len(P[k]) \in Nat BY LenProperties
  <1>1. \A k \in 0..n : G[k] \in Seq(S) /\ Len(G[k]) \in Nat BY LenProperties DEF Joined
  <1>2. ASSUME NEW m \in 1..n
        PROVE  /\ Len(G[m]) = Len(G[m - 1]) + Len(P[m])
               /\ \A q \in 1..Len(G[m - 1]) : G[m][q] = G[m - 1][q]
               /\ \A k \in 1..Len(P[m]) : G[m][Len(G[m - 1]) + k] = P[m][k]
    <2>1. m - 1 \in 0..n BY <1>0
    <2>2. PICK a, b : a = G[m - 1] /\ b = P[m] OBVIOUS
    <2>3. a \in Seq(S) /\ b \in Seq(S) /\ Len(a) \in Nat /\ Len(b) \in Nat BY <1>0, <1>1, <2>1, <2>2
    <2>4. /\ Len(a \o b) = Len(a) + Len(b)
          /\ \A i \in 1..(Len(a) + Len(b)) : (a \o b)[i] = IF i <= Len(a) THEN a[i] ELSE b[i - Len(a)]
      BY <2>3, ConcatProperties
    <2>5. \A q \in 1..Len(a) : (a \o b)[q] = a[q]
      <3>1. \A q \in 1..Len(a) : q \in 1..(Len(a) + Len(b)) /\ q <= Len(a) BY <2>3
      <3> QED BY <2>4, <3>1
    <2>6. \A k \in 1..Len(b) : (a \o b)[Len(a) + k] = b[k]
      <3>1. \A k \in 1..Len(b) : /\ Len(a) + k \in 1..(Len(a) + Len(b)) /\ ~(Len(a) + k <= Len(a))
                                 /\ (Len(a) + k) - Len(a) = k
        BY <2>3
      <3> QED BY <2>4, <3>1
    <2>7. G[m] = a \o b BY <2>2 DEF Joined
    <2> QED BY <2>2, <2>4, <2>5, <2>6, <2>7
  <1> DEFINE T == {m \in Nat : m <= n => \A i \in 1..m : /\ Len(G[i]) <= Len(G[m])
                                                         /\ \A k \in 1..Len(P[i]) : G[m][Len(G[i - 1]) + k] = P[i][k]}
  <1>3. 0 \in T OBVIOUS
  <1>4. ASSUME NEW m \in Nat, m \in T PROVE m + 1 \in T
    <2> SUFFICES ASSUME m + 1 <= n, NEW i \in 1..(m + 1)
                 PROVE  /\ Len(G[i]) <= Len(G[m + 1])
                        /\ \A k \in 1..Len(P[i]) : G[m + 1][Len(G[i - 1]) + k] = P[i][k]
      OBVIOUS
    <2>1. m + 1 \in 1..n /\ (m + 1) - 1 = m /\ m \in 0..n /\ m <= n BY <1>0
    <2> HIDE DEF T
    <2>a. PICK j : j = m + 1 OBVIOUS
    <2>b. j \in 1..n /\ j - 1 = m /\ m \in 0..n /\ j \in 0..n BY <1>0, <2>1, <2>a
    <2>c. /\ Len(G[j]) = Len(G[j - 1]) + Len(P[j])
          /\ \A q \in 1..Len(G[j - 1]) : G[j][q] = G[j - 1][q]
          /\ \A k \in 1..Len(P[j]) : G[j][Len(G[j - 1]) + k] = P[j][k]
      <3> HIDE DEF T
      <3> QED BY <1>2, <2>b
    <2>2. /\ Len(G[m + 1]) = Len(G[m]) + Len(P[m + 1])
          /\ \A q \in 1..Len(G[m]) : G[m + 1][q] = G[m][q]
          /\ \A k \in 1..Len(P[m + 1]) : G[m + 1][Len(G[m]) + k] = P[m + 1][k]
      <3> HIDE DEF T
      <3> QED BY <2>a, <2>b, <2>c
    <2>3. Len(G[m]) \in Nat /\ Len(P[m + 1]) \in Nat /\ Len(G[m + 1]) \in Nat
      <3>1. Len(G[j]) \in Nat /\ Len(G[m]) \in Nat /\ Len(P[j]) \in Nat BY <1>0, <1>1, <2>b
      <3> QED BY <2>a, <3>1
    <2>d. Len(G[m]) <= Len(G[m + 1])
      <3>1. PICK x \in Nat, y \in Nat, z \in Nat : x = Len(G[m]) /\ y = Len(P[m + 1]) /\ z = Len(G[m + 1]) BY <2>3
      <3>2. z = x + y
        <4>1. Len(G[m + 1]) = Len(G[m]) + Len(P[m + 1]) BY <2>2, Zenon
        <4> QED BY <3>1, <4>1, Zenon
      <3>3. x <= z BY <3>2
      <3> QED BY <3>1, <3>3, Zenon
    <2>4. CASE i = m + 1
      <3>1. i - 1 = m BY <2>4
      <3>2. Len(G[i]) <= Len(G[m + 1])
        <4>1. PICK z \in Nat : z = Len(G[m + 1]) BY <2>3
        <4> QED BY <2>4, <4>1
      <3>3. \A k \in 1..Len(P[i]) : G[m + 1][Len(G[i - 1]) + k] = P[i][k] BY <2>2, <2>4, <3>1
      <3> QED BY <3>2, <3>3
    <2>5. CASE i # m + 1
      <3>1. i \in 1..m /\ i \in 1..n /\ i - 1 \in 0..n /\ i \in 0..n BY <1>0, <2>1, <2>5
      <3>2. Len(G[i]) <= Len(G[m]) /\ \A k \in 1..Len(P[i]) : G[m][Len(G[i - 1]) + k] = P[i][k]
        BY <1>4, <2>1, <3>1 DEF T
      <3>3. Len(G[i]) = Len(G[i - 1]) + Len(P[i]) /\ Len(G[i]) \in Nat /\ Len(G[i - 1]) \in Nat /\ Len(P[i]) \in Nat
        <4>1. Len(G[i]) = Len(G[i - 1]) + Len(P[i]) BY <1>2, <3>1, Zenon
        <4>2. Len(G[i]) \in Nat /\ Len(G[i - 1]) \in Nat /\ Len(P[i]) \in Nat BY <1>0, <1>1, <3>1, Zenon
        <4> QED BY <4>1, <4>2
      <3>4. Len(G[i]) <= Len(G[m + 1])
        <4>1. PICK x \in Nat, y \in Nat, z \in Nat : x = Len(G[i]) /\ y = Len(G[m]) /\ z = Len(G[m + 1])
          BY <2>3, <3>3
        <4>2. x <= y /\ y <= z
          <5>1. Len(G[i]) <= Len(G[m]) BY <3>2, Zenon
          <5> QED BY <2>d, <4>1, <5>1, Zenon
        <4> QED BY <4>1, <4>2
      <3>5. \A k \in 1..Len(P[i]) : Len(G[i - 1]) + k \in 1..Len(G[m])
        <4>1. PICK x \in Nat, y \in Nat, z \in Nat, w \in Nat :
                x = Len(G[i - 1]) /\ y = Len(P[i]) /\ z = Len(G[m]) /\ w = Len(G[i])
          BY <2>3, <3>3
        <4>2. w = x + y /\ w <= z BY <3>2, <3>3, <4>1
        <4>3. \A k \in 1..y : x + k \in 1..z BY <4>2
        <4> QED BY <4>1, <4>3
      <3> QED BY <2>2, <3>2, <3>4, <3>5
    <2> QED BY <2>4, <2>5
  <1>5. n \in T
    <2> HIDE DEF T
    <2> QED BY <1>0, <1>3, <1>4, EveryNatural
  <1>6. ASSUME NEW i \in 1..n
        PROVE  /\ Len(G[i]) = Len(G[i - 1]) + Len(P[i]) /\ Len(G[i]) <= Len(G[n])
               /\ Len(G[i - 1]) \in Nat /\ Len(G[i]) \in Nat
               /\ \A k \in 1..Len(P[i]) : G[n][Len(G[i - 1]) + k] = P[i][k]
    <2>1. i \in 0..n /\ i - 1 \in 0..n /\ n <= n BY <1>0
    <2>2. Len(G[i]) = Len(G[i - 1]) + Len(P[i]) BY <1>2, Zenon
    <2>3. Len(G[i - 1]) \in Nat /\ Len(G[i]) \in Nat BY <1>1, <2>1, Zenon
    <2>4. Len(G[i]) <= Len(G[n]) /\ \A k \in 1..Len(P[i]) : G[n][Len(G[i - 1]) + k] = P[i][k] BY <1>5, <2>1
    <2> QED BY <2>2, <2>3, <2>4
  <1> QED BY <1>6, Zenon DEF LiesIn
=============================================================================
