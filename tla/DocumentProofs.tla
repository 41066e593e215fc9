---------------------------- MODULE DocumentProofs ---------------------------
(* What holds of a document and its file: of a load (DocumentLoader), for    *)
(* every set of contents, charsets and sizes of a piece; of a text that is   *)
(* saved and loaded (DocumentInputStream), for every text and count; and of  *)
(* a save (DocumentSaver), for every buffer, chunk size, set of locations    *)
(* and interference of other programs.                                      *)
EXTENDS UndisturbedSaver, DocumentRoundTrip, SequenceLemmas

(***************************************************************************)
(* LOADING: the text first, then the stream, the charset and the load.      *)
(***************************************************************************)
(***************************************************************************)
(* Text.                                                                   *)
(***************************************************************************)
Text == Seq(Bytes)
Wf(s) == Utf8Prefix(s, Len(s))

LEMMA BytesAre ==
    /\ Lead \subseteq Bytes /\ Trail \subseteq Bytes /\ {CR, LF} \subseteq Bytes
    /\ Lead \intersect Trail = {} /\ {CR, LF} \intersect (Lead \union Trail) = {}
    /\ CR # LF
  BY DEF Bytes, Lead, Trail, CR, LF

\* The greatest of a set of numbers that has a bound.
LEMMA MaxIsGreatest ==
    ASSUME NEW n \in Nat, NEW T \in SUBSET (0..n), T # {}
    PROVE  Max(T) \in T /\ \A y \in T : y <= Max(T)
  <1> DEFINE U == {n - x : x \in T}
  <1>1. U \in SUBSET Nat /\ U # {}
    <2>1. \A x \in T : x \in 0..n OBVIOUS
    <2>2. \A x \in 0..n : n - x \in Nat OBVIOUS
    <2> QED BY <2>1, <2>2, Zenon
  <1>2. PICK u \in U : \A v \in U : u <= v BY <1>1, LeastNatural
  <1>3. n - u \in T /\ \A y \in T : n - u >= y
    <2>1. PICK x \in T : u = n - x BY <1>2
    <2>2. ASSUME NEW y \in T PROVE n - u >= y
      <3>1. u <= n - y BY <1>2
      <3> QED BY <2>1, <3>1
    <2> QED BY <2>1, <2>2
  <1>4. PICK m \in T : \A y \in T : m >= y BY <1>3
  <1>5. Max(T) \in T /\ \A y \in T : Max(T) >= y BY <1>4, Zenon DEF Max
  <1> QED BY <1>5

LEMMA ValidLengthIs ==
    ASSUME NEW s \in Text
    PROVE  /\ ValidLength(s) \in 0..Len(s) /\ Utf8Prefix(s, ValidLength(s))
           /\ \A n \in 0..Len(s) : Utf8Prefix(s, n) => n <= ValidLength(s)
           /\ Valid(s) <=> Wf(s)
  <1> DEFINE T == {n \in 0..Len(s) : Utf8Prefix(s, n)}
  <1>1. Len(s) \in Nat /\ T \in SUBSET (0..Len(s)) BY DEF Text
  <1>2. 0 \in T BY <1>1 DEF Utf8Prefix
  <1>3. ValidLength(s) = Max(T) BY DEF ValidLength
  <1> HIDE DEF T
  <1>4. Max(T) \in T /\ \A y \in T : y <= Max(T) BY <1>1, <1>2, MaxIsGreatest
  <1>5. ValidLength(s) \in 0..Len(s) /\ Utf8Prefix(s, ValidLength(s)) BY <1>3, <1>4 DEF T
  <1>6. \A n \in 0..Len(s) : Utf8Prefix(s, n) => n <= ValidLength(s)
    BY <1>3, <1>4 DEF T
  <1>7. Valid(s) <=> Wf(s)
    <2>1. ASSUME Wf(s) PROVE Valid(s)
      <3>1. Len(s) \in 0..Len(s) BY <1>1
      <3>2. Len(s) <= ValidLength(s) BY <3>1, <2>1, <1>6 DEF Wf
      <3> QED BY <3>2, <1>5, <1>1 DEF Valid
    <2>2. ASSUME Valid(s) PROVE Wf(s) BY <2>2, <1>5 DEF Wf, Valid
    <2> QED BY <2>1, <2>2
  <1> QED BY <1>5, <1>6, <1>7

\* What concatenation is.
LEMMA JoinedIs ==
    ASSUME NEW a \in Text, NEW b \in Text
    PROVE  /\ a \o b \in Text /\ Len(a \o b) = Len(a) + Len(b)
           /\ \A i \in 1..Len(a) : (a \o b)[i] = a[i]
           /\ \A i \in 1..Len(b) : (a \o b)[Len(a) + i] = b[i]
  <1>1. Len(a) \in Nat /\ Len(b) \in Nat BY DEF Text
  <1>2. /\ a \o b \in Text /\ Len(a \o b) = Len(a) + Len(b)
        /\ \A i \in 1..(Len(a) + Len(b)) : (a \o b)[i] = IF i <= Len(a) THEN a[i] ELSE b[i - Len(a)]
    BY ConcatProperties DEF Text
  <1>3. ASSUME NEW i \in 1..Len(a) PROVE (a \o b)[i] = a[i] BY <1>1, <1>2
  <1>4. ASSUME NEW i \in 1..Len(b) PROVE (a \o b)[Len(a) + i] = b[i]
    <2>1. Len(a) + i \in 1..(Len(a) + Len(b)) /\ ~(Len(a) + i <= Len(a)) /\ Len(a) + i - Len(a) = i
      BY <1>1
    <2> QED BY <2>1, <1>2
  <1> QED BY <1>2, <1>3, <1>4

LEMMA JoinThree ==
    ASSUME NEW a \in Text, NEW b \in Text, NEW c \in Text
    PROVE  (a \o b) \o c = a \o (b \o c)
  BY ConcatAssociative DEF Text

LEMMA JoinNone ==
    ASSUME NEW a \in Text PROVE a \o <<>> = a /\ <<>> \o a = a /\ <<>> \in Text
  BY ConcatEmptySeq DEF Text

\* Texts of the same length and bytes are the same.
LEMMA SameText ==
    ASSUME NEW a \in Text, NEW b \in Text, Len(a) = Len(b), \A i \in 1..Len(a) : a[i] = b[i]
    PROVE  a = b
  BY SeqEqual DEF Text

LEMMA CutIs ==
    ASSUME NEW s \in Text, NEW m \in Nat, NEW n \in Nat, m <= n, n <= Len(s)
    PROVE  /\ SubSeq(s, m + 1, n) \in Text /\ Len(SubSeq(s, m + 1, n)) = n - m
           /\ \A i \in 1..(n - m) : SubSeq(s, m + 1, n)[i] = s[m + i]
  BY SliceIs DEF Text

\* The two parts of a text that is cut.
LEMMA CutInTwo ==
    ASSUME NEW s \in Text, NEW n \in 0..Len(s)
    PROVE  /\ SubSeq(s, 1, n) \in Text /\ Len(SubSeq(s, 1, n)) = n
           /\ \A i \in 1..n : SubSeq(s, 1, n)[i] = s[i]
           /\ SubSeq(s, n + 1, Len(s)) \in Text /\ Len(SubSeq(s, n + 1, Len(s))) = Len(s) - n
           /\ \A i \in 1..(Len(s) - n) : SubSeq(s, n + 1, Len(s))[i] = s[n + i]
           /\ SubSeq(s, 1, n) \o SubSeq(s, n + 1, Len(s)) = s
  <1>1. Len(s) \in Nat /\ n \in Nat /\ 0 <= n /\ n <= Len(s) BY DEF Text
  <1>2. /\ SubSeq(s, 0 + 1, n) \in Text /\ Len(SubSeq(s, 0 + 1, n)) = n - 0
        /\ \A i \in 1..(n - 0) : SubSeq(s, 0 + 1, n)[i] = s[0 + i]
    BY <1>1, CutIs
  <1>3. 0 + 1 = 1 /\ n - 0 = n /\ \A i \in 1..n : 0 + i = i BY <1>1
  <1>4. /\ SubSeq(s, 1, n) \in Text /\ Len(SubSeq(s, 1, n)) = n
        /\ \A i \in 1..n : SubSeq(s, 1, n)[i] = s[i]
    BY <1>2, <1>3
  <1>5. /\ SubSeq(s, n + 1, Len(s)) \in Text /\ Len(SubSeq(s, n + 1, Len(s))) = Len(s) - n
        /\ \A i \in 1..(Len(s) - n) : SubSeq(s, n + 1, Len(s))[i] = s[n + i]
    BY <1>1, CutIs
  <1>6. SubSeq(s, 1, n) \o SubSeq(s, n + 1, Len(s)) = s
    <2> DEFINE a == SubSeq(s, 1, n)
               b == SubSeq(s, n + 1, Len(s))
    <2>1. /\ a \in Text /\ Len(a) = n /\ \A i \in 1..n : a[i] = s[i]
          /\ b \in Text /\ Len(b) = Len(s) - n /\ \A i \in 1..(Len(s) - n) : b[i] = s[n + i]
      BY <1>4, <1>5
    <2> HIDE DEF a, b
    <2>2. /\ a \o b \in Text /\ Len(a \o b) = Len(a) + Len(b)
          /\ \A i \in 1..Len(a) : (a \o b)[i] = a[i]
          /\ \A i \in 1..Len(b) : (a \o b)[Len(a) + i] = b[i]
      BY <2>1, JoinedIs
    <2>3. Len(a \o b) = Len(s) BY <2>1, <2>2, <1>1
    <2>4. ASSUME NEW i \in 1..Len(s) PROVE (a \o b)[i] = s[i]
      <3>1. CASE i <= n BY <3>1, <2>1, <2>2
      <3>2. CASE ~(i <= n)
        <4> DEFINE j == i - n
        <4>1. j \in 1..(Len(s) - n) /\ n + j = i BY <3>2, <1>1
        <4> HIDE DEF j
        <4>2. b[j] = s[i] BY <4>1, <2>1
        <4>3. (a \o b)[Len(a) + j] = b[j] BY <4>1, <2>1, <2>2
        <4> QED BY <4>1, <4>2, <4>3, <2>1
      <3> QED BY <3>1, <3>2
    <2>5. a \o b = s BY <2>2, <2>3, <2>4, SameText
    <2> QED BY <2>5 DEF a, b
  <1> QED BY <1>4, <1>5, <1>6

\* A longer piece of a text is the shorter one and the next bytes.
LEMMA CutLonger ==
    ASSUME NEW s \in Text, NEW m \in Nat, NEW n \in Nat, m <= n, n <= Len(s)
    PROVE  SubSeq(s, 1, n) = SubSeq(s, 1, m) \o SubSeq(s, m + 1, n)
  <1> DEFINE a == SubSeq(s, 1, m)
             b == SubSeq(s, m + 1, n)
             c == SubSeq(s, 1, n)
  <1>1. Len(s) \in Nat /\ m \in 0..Len(s) /\ n \in 0..Len(s) BY DEF Text
  <1>2. /\ a \in Text /\ Len(a) = m /\ \A i \in 1..m : a[i] = s[i] BY <1>1, CutInTwo
  <1>3. /\ c \in Text /\ Len(c) = n /\ \A i \in 1..n : c[i] = s[i] BY <1>1, CutInTwo
  <1>4. /\ b \in Text /\ Len(b) = n - m /\ \A i \in 1..(n - m) : b[i] = s[m + i] BY <1>1, CutIs
  <1> HIDE DEF a, b, c
  <1>5. /\ a \o b \in Text /\ Len(a \o b) = Len(a) + Len(b)
        /\ \A i \in 1..Len(a) : (a \o b)[i] = a[i]
        /\ \A i \in 1..Len(b) : (a \o b)[Len(a) + i] = b[i]
    BY <1>2, <1>4, JoinedIs
  <1>6. Len(a \o b) = Len(c) BY <1>2, <1>4, <1>5, <1>3, <1>1
  <1>7. ASSUME NEW i \in 1..Len(a \o b) PROVE (a \o b)[i] = c[i]
    <2>1. i \in 1..n BY <1>6, <1>7, <1>3
    <2>2. CASE i <= m BY <2>1, <2>2, <1>2, <1>3, <1>5
    <2>3. CASE ~(i <= m)
      <3> DEFINE j == i - m
      <3>1. j \in 1..(n - m) /\ m + j = i BY <2>1, <2>3, <1>1
      <3> HIDE DEF j
      <3>2. b[j] = s[i] BY <3>1, <1>4
      <3>3. (a \o b)[Len(a) + j] = b[j] BY <3>1, <1>2, <1>4, <1>5
      <3> QED BY <2>1, <3>1, <3>2, <3>3, <1>2, <1>3
    <2> QED BY <2>2, <2>3
  <1>8. a \o b = c BY <1>3, <1>5, <1>6, <1>7, SameText
  <1> QED BY <1>8 DEF a, b, c

-----------------------------------------------------------------------------
(***************************************************************************)
(* What is converted.                                                      *)
(***************************************************************************)
LEMMA PairIs ==
    ASSUME NEW x \in Bytes, NEW y \in Bytes
    PROVE  /\ <<x>> \in Text /\ Len(<<x>>) = 1 /\ <<x>>[1] = x
           /\ <<x, y>> \in Text /\ Len(<<x, y>>) = 2 /\ <<x, y>>[1] = x /\ <<x, y>>[2] = y
  BY DEF Text

\* A byte is made a character, of one byte or of two.
LEMMA CharIs ==
    ASSUME NEW b \in Bytes
    PROVE  /\ Char(b) \in Text /\ Wf(Char(b)) /\ Char(b) # <<>>
           /\ \E x, y \in Bytes : Char(b) = <<x>> \/ Char(b) = <<x, y>>
  <1>1. CASE b \in Lead \union Trail
    <2>1. PICK x \in Lead, y \in Trail : Char(b) = <<x, y>> BY <1>1 DEF Char, Lead, Trail
    <2>2. x \in Bytes /\ y \in Bytes /\ y \notin Lead /\ x \notin Trail BY BytesAre
    <2>3. Char(b) \in Text /\ Len(Char(b)) = 2 /\ Char(b)[1] = x /\ Char(b)[2] = y
      <3>1. /\ <<x, y>> \in Text /\ Len(<<x, y>>) = 2 /\ <<x, y>>[1] = x /\ <<x, y>>[2] = y
        BY <2>2, PairIs
      <3> QED BY <2>1, <3>1
    <2>4. \A i \in 1..2 : i = 1 \/ i = 2 OBVIOUS
    <2>5. Wf(Char(b)) BY <2>2, <2>3, <2>4 DEF Wf, Utf8Prefix
    <2> QED BY <2>1, <2>2, <2>3, <2>5
  <1>2. CASE b \notin Lead \union Trail
    <2>1. Char(b) = <<b>> BY <1>2 DEF Char, Lead, Trail
    <2>2. Char(b) \in Text /\ Len(Char(b)) = 1 /\ Char(b)[1] = b BY <2>1, PairIs
    <2>3. Wf(Char(b)) BY <1>2, <2>2 DEF Wf, Utf8Prefix
    <2> QED BY <2>1, <2>2, <2>3
  <1> QED BY <1>1, <1>2

Made(f, b, k) == f[0] = <<>> /\ \A i \in 1..k : f[i] = f[i - 1] \o Char(b[i])

LEMMA ConvertedMade ==
    ASSUME NEW enc, enc # UTF8, NEW b \in Text
    PROVE  \E f \in [0..Len(b) -> Text] : Made(f, b, Len(b)) /\ Converted(enc, b) = f[Len(b)]
  <1> DEFINE n == Len(b)
             Step(k, v) == v \o Char(b[k])
             h == [k \in 1..n |-> [v \in Text |-> Step(k, v)]]
             made == CHOOSE f : f = [k \in 0..n |-> IF k = 0 THEN <<>> ELSE Step(k, f[k - 1])]
  <1>1. n \in Nat /\ \A k \in 1..n : b[k] \in Bytes BY ElementOfSeq DEF Text
  <1>2. Converted(enc, b) = made[n] BY DEF Converted
  <1>3. h \in Makers(Text, n)
    <2>1. ASSUME NEW k \in 1..n, NEW v \in Text PROVE Step(k, v) \in Text
      BY <1>1, CharIs, JoinedIs
    <2> HIDE DEF n, Step
    <2> QED BY <2>1 DEF Makers
  <1> HIDE DEF n, Step
  <1>4. \A k \in 1..n : \A v \in Text : h[k][v] = Step(k, v) OBVIOUS
  <1> HIDE DEF h
  <1>5. <<>> \in Text BY DEF Text
  <1>6. PICK f \in [0..n -> Text] : IsMade(f, <<>>, h, n) BY <1>1, <1>3, <1>5, RecursionExists
  <1>7. f[0] = <<>> /\ \A k \in 1..n : f[k] = Step(k, f[k - 1])
    <2>1. f[0] = <<>> /\ \A k \in 1..n : f[k] = h[k][f[k - 1]] BY <1>6 DEF IsMade
    <2>2. \A k \in 1..n : k - 1 \in 0..n BY <1>1
    <2> QED BY <1>4, <1>6, <2>1, <2>2
  <1>8. made = [k \in 0..n |-> IF k = 0 THEN <<>> ELSE Step(k, made[k - 1])]
    <2>1. \A k \in 0..n : k # 0 => k \in 1..n BY <1>1
    <2>2. f = [k \in 0..n |-> IF k = 0 THEN <<>> ELSE Step(k, f[k - 1])] BY <1>6, <1>7, <2>1
    <2> QED BY <2>2
  <1> HIDE DEF made
  <1>9. made[0] = <<>> /\ \A k \in 1..n : made[k] = Step(k, made[k - 1])
    <2>1. 0 \in 0..n /\ \A k \in 1..n : k \in 0..n /\ k # 0 BY <1>1
    <2> QED BY <1>8, <2>1
  <1> DEFINE T == {k \in Nat : k <= n => made[k] = f[k]}
  <1>10. 0 \in T BY <1>7, <1>9
  <1>11. ASSUME NEW k \in Nat, k \in T PROVE k + 1 \in T
    <2> SUFFICES ASSUME k + 1 <= n PROVE made[k + 1] = f[k + 1] OBVIOUS
    <2>1. k + 1 \in 1..n /\ (k + 1) - 1 = k /\ k <= n BY <1>1
    <2>2. made[k] = f[k] BY <1>11, <2>1
    <2> HIDE DEF T
    <2> QED BY <1>7, <1>9, <2>1, <2>2
  <1>12. \A k \in Nat : k \in T
    <2> HIDE DEF T
    <2> QED BY <1>10, <1>11, EveryNatural
  <1>13. made[n] = f[n] BY <1>1, <1>12
  <1>14. Made(f, b, n) BY <1>7 DEF Made, Step
  <1> QED BY <1>2, <1>13, <1>14 DEF n

\* What begins in the same way is converted in the same way, up to there.
LEMMA MadeSame ==
    ASSUME NEW a, NEW b, NEW f, NEW g, NEW m \in Nat, NEW n \in Nat, m <= n,
           Made(f, a, m), Made(g, b, n), \A i \in 1..m : a[i] = b[i]
    PROVE  f[m] = g[m]
  <1> DEFINE T == {k \in Nat : k <= m => f[k] = g[k]}
  <1>1. 0 \in T BY DEF Made
  <1>2. ASSUME NEW k \in Nat, k \in T PROVE k + 1 \in T
    <2> SUFFICES ASSUME k + 1 <= m PROVE f[k + 1] = g[k + 1] OBVIOUS
    <2>1. k + 1 \in 1..m /\ k + 1 \in 1..n /\ (k + 1) - 1 = k /\ k <= m OBVIOUS
    <2>2. f[k] = g[k] BY <1>2, <2>1
    <2> HIDE DEF T
    <2> QED BY <2>1, <2>2 DEF Made
  <1>3. \A k \in Nat : k \in T
    <2> HIDE DEF T
    <2> QED BY <1>1, <1>2, EveryNatural
  <1> QED BY <1>3

LEMMA ConvertedNone == ASSUME NEW enc PROVE Converted(enc, <<>>) = <<>>
  <1>1. <<>> \in Text /\ Len(<<>>) = 0 BY DEF Text
  <1>2. CASE enc = UTF8 BY <1>2 DEF Converted
  <1>3. CASE enc # UTF8
    <2>1. PICK f \in [0..Len(<<>>) -> Text] : Made(f, <<>>, Len(<<>>)) /\ Converted(enc, <<>>) = f[Len(<<>>)]
      BY <1>1, <1>3, ConvertedMade
    <2> QED BY <1>1, <2>1 DEF Made
  <1> QED BY <1>2, <1>3

LEMMA ConvertedType == ASSUME NEW enc, NEW b \in Text PROVE Converted(enc, b) \in Text
  <1>1. CASE enc = UTF8 BY <1>1 DEF Converted
  <1>2. CASE enc # UTF8
    <2>1. PICK f \in [0..Len(b) -> Text] : Made(f, b, Len(b)) /\ Converted(enc, b) = f[Len(b)]
      BY <1>2, ConvertedMade
    <2>2. Len(b) \in 0..Len(b) BY DEF Text
    <2> QED BY <2>1, <2>2
  <1> QED BY <1>1, <1>2

LEMMA ConvertedAppend ==
    ASSUME NEW enc, enc # UTF8, NEW b \in Text, NEW e \in Bytes
    PROVE  Converted(enc, Append(b, e)) = Converted(enc, b) \o Char(e)
  <1> DEFINE c == Append(b, e)
             n == Len(b)
  <1>1. /\ c \in Text /\ Len(c) = n + 1 /\ n \in Nat
        /\ \A i \in 1..n : b[i] = c[i] /\ c[n + 1] = e
    BY AppendProperties DEF Text
  <1> HIDE DEF c
  <1>2. PICK f \in [0..n -> Text] : Made(f, b, n) /\ Converted(enc, b) = f[n] BY ConvertedMade
  <1>3. PICK g \in [0..Len(c) -> Text] : Made(g, c, Len(c)) /\ Converted(enc, c) = g[Len(c)]
    BY <1>1, ConvertedMade
  <1>4. Made(g, c, n + 1) BY <1>1, <1>3
  <1>5. f[n] = g[n]
    <2>1. n \in Nat /\ n + 1 \in Nat /\ n <= n + 1 BY <1>1
    <2>2. Made(f, b, n) BY <1>2
    <2>3. \A i \in 1..n : b[i] = c[i] BY <1>1
    <2> QED BY <1>4, <2>1, <2>2, <2>3, MadeSame
  <1>6. c[n + 1] = e BY AppendProperties DEF c, Text
  <1>7. g[n + 1] = g[n] \o Char(e)
    <2>1. n + 1 \in 1..(n + 1) /\ (n + 1) - 1 = n BY <1>1
    <2> QED BY <1>4, <1>6, <2>1 DEF Made
  <1> QED BY <1>1, <1>2, <1>3, <1>5, <1>7 DEF c

LEMMA ConvertedJoin ==
    ASSUME NEW enc, NEW a \in Text, NEW b \in Text
    PROVE  Converted(enc, a \o b) = Converted(enc, a) \o Converted(enc, b)
  <1>1. CASE enc = UTF8 BY <1>1 DEF Converted
  <1>2. CASE enc # UTF8
    <2> DEFINE T == {c \in Text : Converted(enc, a \o c) = Converted(enc, a) \o Converted(enc, c)}
    <2>1. <<>> \in T
      <3>1. <<>> \in Text /\ a \o <<>> = a BY JoinNone
      <3>2. Converted(enc, a) \o <<>> = Converted(enc, a) BY ConvertedType, JoinNone
      <3> QED BY <3>1, <3>2, ConvertedNone
    <2>2. ASSUME NEW s \in Text, s \in T, NEW e \in Bytes PROVE Append(s, e) \in T
      <3>1. Append(s, e) \in Text /\ Append(s, e) = s \o <<e>> /\ <<e>> \in Text
        BY AppendProperties, AppendIsConcat DEF Text
      <3>2. a \o Append(s, e) = (a \o s) \o <<e>> BY <3>1, JoinThree
      <3>3. a \o s \in Text BY JoinedIs
      <3>4. a \o Append(s, e) = Append(a \o s, e) BY <3>2, <3>3, AppendIsConcat DEF Text
      <3>5. Converted(enc, a \o Append(s, e)) = Converted(enc, a \o s) \o Char(e)
        <4>1. PICK t \in Text : t = a \o s BY <3>3
        <4>2. Converted(enc, Append(t, e)) = Converted(enc, t) \o Char(e) BY <1>2, ConvertedAppend
        <4> QED BY <3>4, <4>1, <4>2
      <3>6. Converted(enc, a \o s) = Converted(enc, a) \o Converted(enc, s) BY <2>2
      <3>7. Converted(enc, Append(s, e)) = Converted(enc, s) \o Char(e) BY <1>2, ConvertedAppend
      <3>8. (Converted(enc, a) \o Converted(enc, s)) \o Char(e) = Converted(enc, a) \o (Converted(enc, s) \o Char(e))
        <4>1. PICK x \in Text, y \in Text, z \in Text :
                 x = Converted(enc, a) /\ y = Converted(enc, s) /\ z = Char(e)
          BY ConvertedType, CharIs
        <4>2. (x \o y) \o z = x \o (y \o z) BY JoinThree
        <4> QED BY <4>1, <4>2
      <3> QED BY <3>1, <3>5, <3>6, <3>7, <3>8
    <2>3. \A s \in Text : s \in T
      <3> HIDE DEF T
      <3> QED BY <2>1, <2>2, EverySequence DEF Text
    <2> QED BY <2>3
  <1> QED BY <1>1, <1>2

-----------------------------------------------------------------------------
(***************************************************************************)
(* UTF-8.                                                                  *)
(***************************************************************************)
LEMMA WfJoin ==
    ASSUME NEW a \in Text, NEW b \in Text, Wf(a), Wf(b)
    PROVE  Wf(a \o b)
  <1>1. PICK s : s = a \o b OBVIOUS
  <1>2. PICK m \in Nat, n \in Nat : m = Len(a) /\ n = Len(b) BY DEF Text
  <1>3. /\ Len(s) = m + n /\ \A i \in 1..m : s[i] = a[i]
        /\ \A i \in 1..n : s[m + i] = b[i]
    BY <1>1, <1>2, JoinedIs
  <1>4. ASSUME NEW i \in 1..(m + n)
        PROVE  /\ s[i] \in Lead  => i < m + n /\ s[i + 1] \in Trail
               /\ s[i] \in Trail => i > 1 /\ s[i - 1] \in Lead
    <2>1. CASE i <= m
      <3>1. i \in 1..m BY <2>1
      <3>2. /\ a[i] \in Lead  => i < m /\ a[i + 1] \in Trail
            /\ a[i] \in Trail => i > 1 /\ a[i - 1] \in Lead
        BY <1>2, <3>1 DEF Wf, Utf8Prefix
      <3>3. i < m => i + 1 \in 1..m BY <3>1
      <3>4. i > 1 => i - 1 \in 1..m BY <3>1
      <3> QED BY <1>2, <1>3, <3>1, <3>2, <3>3, <3>4
    <2>2. CASE ~(i <= m)
      <3>1. PICK j \in 1..n : i = m + j
        <4>1. i - m \in 1..n /\ i = m + (i - m) BY <2>2
        <4> QED BY <4>1
      <3>2. /\ b[j] \in Lead  => j < n /\ b[j + 1] \in Trail
            /\ b[j] \in Trail => j > 1 /\ b[j - 1] \in Lead
        BY <1>2, <3>1 DEF Wf, Utf8Prefix
      <3>3. s[i] = b[j] BY <1>3, <3>1
      <3>4. ASSUME j < n PROVE s[i + 1] = b[j + 1] /\ i < m + n
        <4>1. j + 1 \in 1..n /\ i + 1 = m + (j + 1) BY <3>1, <3>4
        <4>2. s[m + (j + 1)] = b[j + 1] BY <1>3, <4>1
        <4>3. i < m + n BY <3>1, <3>4
        <4> QED BY <4>1, <4>2, <4>3
      <3>5. ASSUME j > 1 PROVE s[i - 1] = b[j - 1] /\ i > 1
        <4>1. j - 1 \in 1..n /\ i - 1 = m + (j - 1) BY <3>1, <3>5
        <4>2. s[m + (j - 1)] = b[j - 1] BY <1>3, <4>1
        <4> QED BY <4>1, <4>2, <3>1, <3>5
      <3> QED BY <3>2, <3>3, <3>4, <3>5
    <2> QED BY <2>1, <2>2
  <1>5. Wf(s) BY <1>3, <1>4 DEF Wf, Utf8Prefix
  <1> QED BY <1>1, <1>5

LEMMA PrefixIsWf ==
    ASSUME NEW s \in Text, NEW n \in 0..Len(s)
    PROVE  Wf(SubSeq(s, 1, n)) <=> Utf8Prefix(s, n)
  <1>1. PICK a \in Text : a = SubSeq(s, 1, n) BY CutInTwo
  <1>2. Len(a) = n /\ \A i \in 1..n : a[i] = s[i] BY <1>1, CutInTwo
  <1>3. n \in Nat BY DEF Text
  <1>4. ASSUME NEW i \in 1..n PROVE /\ i < n => a[i + 1] = s[i + 1]
                                    /\ i > 1 => a[i - 1] = s[i - 1]
    <2>1. i < n => i + 1 \in 1..n BY <1>3
    <2>2. i > 1 => i - 1 \in 1..n BY <1>3
    <2> QED BY <1>2, <2>1, <2>2
  <1>5. Wf(a) <=> Utf8Prefix(s, n) BY <1>2, <1>4 DEF Wf, Utf8Prefix
  <1> QED BY <1>1, <1>5

LEMMA EmptyIsWf == Wf(<<>>)
  BY DEF Wf, Utf8Prefix

\* Whatever is not UTF-8 is made UTF-8, byte by byte.
LEMMA ConvertedWf ==
    ASSUME NEW enc, enc # UTF8, NEW b \in Text
    PROVE  Wf(Converted(enc, b))
  <1> DEFINE T == {c \in Text : Wf(Converted(enc, c))}
  <1>1. <<>> \in T BY ConvertedNone, EmptyIsWf, JoinNone
  <1>2. ASSUME NEW s \in Text, s \in T, NEW e \in Bytes PROVE Append(s, e) \in T
    <2>1. Append(s, e) \in Text BY AppendProperties DEF Text
    <2>2. Wf(Converted(enc, s) \o Char(e)) BY <1>2, CharIs, ConvertedType, WfJoin
    <2> QED BY <2>1, <2>2, ConvertedAppend
  <1>3. \A s \in Text : s \in T
    <2> HIDE DEF T
    <2> QED BY <1>1, <1>2, EverySequence DEF Text
  <1> QED BY <1>3

\* A place that keeps a text, with whatever before and after it, from being UTF-8.
Bad(t, q) ==
    /\ q \in 1..Len(t)
    /\ \/ t[q] \in Lead /\ q < Len(t) /\ t[q + 1] \notin Trail
       \/ t[q] \in Trail /\ (q > 1 => t[q - 1] \notin Lead)

LEMMA BadStays ==
    ASSUME NEW a \in Text, Wf(a), NEW t \in Text, NEW rest \in Text, NEW q, Bad(t, q)
    PROVE  ~Wf((a \o t) \o rest)
  <1>1. PICK b \in Text : b = a \o t BY JoinedIs
  <1>2. PICK s \in Text : s = b \o rest BY JoinedIs
  <1>3. PICK m \in Nat, n \in Nat, k \in Nat : m = Len(a) /\ n = Len(t) /\ k = Len(rest) BY DEF Text
  <1>4. Len(b) = m + n /\ (\A i \in 1..m : b[i] = a[i]) /\ (\A i \in 1..n : b[m + i] = t[i])
    BY <1>1, <1>3, JoinedIs
  <1>5. Len(s) = (m + n) + k /\ \A i \in 1..(m + n) : s[i] = b[i]
    <2>1. Len(s) = Len(b) + Len(rest) /\ \A i \in 1..Len(b) : s[i] = b[i] BY <1>2, JoinedIs
    <2> QED BY <1>3, <1>4, <2>1
  <1>6. /\ \A i \in 1..m : s[i] = a[i]
        /\ \A i \in 1..n : s[m + i] = t[i]
    <2>1. (\A i \in 1..m : i \in 1..(m + n)) /\ (\A i \in 1..n : m + i \in 1..(m + n)) OBVIOUS
    <2> QED BY <1>4, <1>5, <2>1
  <1>7. q \in 1..n /\ m + q \in 1..Len(s) BY <1>3, <1>5 DEF Bad
  <1>8. SUFFICES ASSUME Wf(s) PROVE FALSE BY <1>1, <1>2
  <1>9. /\ s[m + q] \in Lead  => m + q < Len(s) /\ s[m + q + 1] \in Trail
        /\ s[m + q] \in Trail => m + q > 1 /\ s[m + q - 1] \in Lead
    BY <1>7, <1>8 DEF Wf, Utf8Prefix
  <1>10. s[m + q] = t[q] BY <1>6, <1>7
  <1>11. CASE t[q] \in Lead /\ q < n /\ t[q + 1] \notin Trail
    <2>1. q + 1 \in 1..n /\ m + (q + 1) = m + q + 1 BY <1>7, <1>11
    <2>2. s[m + (q + 1)] = t[q + 1] BY <1>6, <2>1
    <2> QED BY <1>9, <1>10, <1>11, <2>1, <2>2
  <1>12. CASE t[q] \in Trail /\ (q > 1 => t[q - 1] \notin Lead)
    <2>1. CASE q > 1
      <3>1. q - 1 \in 1..n /\ m + (q - 1) = m + q - 1 BY <1>7, <2>1
      <3>2. s[m + (q - 1)] = t[q - 1] BY <1>6, <3>1
      <3> QED BY <1>9, <1>10, <1>12, <2>1, <3>1, <3>2
    <2>2. CASE ~(q > 1)
      <3>1. q = 1 BY <1>7, <2>2
      <3>2. m > 0 /\ m + q - 1 = m /\ m \in 1..m BY <1>9, <1>10, <1>12, <3>1
      <3>3. a[m] \in Lead BY <1>6, <1>9, <1>10, <1>12, <3>2
      <3>4. a[m] \in Lead => m < m BY <1>3, <3>2 DEF Wf, Utf8Prefix
      <3> QED BY <3>3, <3>4
    <2> QED BY <2>1, <2>2
  <1> QED BY <1>3, <1>11, <1>12 DEF Bad

\* What write makes of the text it has: n bytes go to the document.
WriteLength(t) ==
    LET end == ValidLength(t)
    IN  IF end = Len(t) /\ Len(t) > 1 /\ t[Len(t)] = CR THEN end - 1 ELSE end
Keeps(t) ==
    LET n == WriteLength(t)
    IN  /\ Len(t) - n < UnicharLen
        /\ n < Len(t) => PartialChar(t, n + 1) \/ t[n + 1] = CR
Held(b) == b = <<>> \/ \E e \in Lead \union {CR} : b = <<e>>
Rest(t) == SubSeq(t, WriteLength(t) + 1, Len(t))

LEMMA OneLeft ==
    ASSUME NEW t \in Text, NEW n \in Nat, n + 1 = Len(t)
    PROVE  SubSeq(t, n + 1, Len(t)) = <<t[n + 1]>>
  <1>1. n \in 0..Len(t) /\ n + 1 \in 1..Len(t) /\ Len(t) - n = 1 BY DEF Text
  <1>2. t[n + 1] \in Bytes BY <1>1, ElementOfSeq DEF Text
  <1>3. PICK r \in Text : r = SubSeq(t, n + 1, Len(t)) BY <1>1, CutInTwo
  <1>4. Len(r) = Len(t) - n /\ \A i \in 1..(Len(t) - n) : r[i] = t[n + i] BY <1>1, <1>3, CutInTwo
  <1>5. Len(r) = 1 /\ r[1] = t[n + 1] BY <1>1, <1>4
  <1>6. PICK u \in Text : u = <<t[n + 1]>> /\ Len(u) = 1 /\ u[1] = t[n + 1] BY <1>2, PairIs
  <1>7. r = u
    <2>1. \A i \in 1..1 : i = 1 OBVIOUS
    <2>2. Len(r) = Len(u) /\ \A i \in 1..Len(r) : r[i] = u[i] BY <1>5, <1>6, <2>1
    <2> QED BY <2>2, SameText
  <1> QED BY <1>3, <1>6, <1>7

LEMMA NoneLeft == ASSUME NEW t \in Text PROVE SubSeq(t, Len(t) + 1, Len(t)) = <<>>
  <1>1. Len(t) \in 0..Len(t) /\ Len(t) - Len(t) = 0 BY DEF Text
  <1>2. PICK r \in Text : r = SubSeq(t, Len(t) + 1, Len(t)) BY <1>1, CutInTwo
  <1>3. Len(r) = 0 BY <1>1, <1>2, CutInTwo
  <1> QED BY <1>2, <1>3, EmptySeq DEF Text

\* The first byte that is not UTF-8 begins a character or is out of place.
LEMMA FirstInvalid ==
    ASSUME NEW t \in Text, NEW n \in Nat, n = ValidLength(t), n < Len(t)
    PROVE  Bad(t, n + 1) \/ (t[n + 1] \in Lead /\ n + 1 = Len(t))
  <1>1. Utf8Prefix(t, n) /\ \A k \in 0..Len(t) : Utf8Prefix(t, k) => k <= n BY ValidLengthIs
  <1>2. Len(t) \in Nat /\ n + 1 \in 0..Len(t) /\ ~(n + 1 <= n) BY DEF Text
  <1>3. ~Utf8Prefix(t, n + 1) BY <1>1, <1>2
  <1>4. \A i \in 1..n : /\ t[i] \in Lead  => i < n /\ t[i + 1] \in Trail
                        /\ t[i] \in Trail => i > 1 /\ t[i - 1] \in Lead
    BY <1>1 DEF Utf8Prefix
  <1>5. PICK i \in 1..(n + 1) : ~(/\ t[i] \in Lead  => i < n + 1 /\ t[i + 1] \in Trail
                                  /\ t[i] \in Trail => i > 1 /\ t[i - 1] \in Lead)
    BY <1>3 DEF Utf8Prefix
  <1>6. i = n + 1
    <2>1. i \notin 1..n BY <1>4, <1>5
    <2> QED BY <2>1
  <1>7. CASE t[n + 1] \in Trail
    <2>1. t[n + 1] \notin Lead BY <1>7, BytesAre
    <2>2. ~(n + 1 > 1 /\ t[n + 1 - 1] \in Lead) BY <1>5, <1>6, <2>1
    <2> QED BY <1>2, <1>7, <2>2 DEF Bad
  <1>8. CASE t[n + 1] \notin Trail
    <2>1. t[n + 1] \in Lead BY <1>5, <1>6, <1>8
    <2>2. ASSUME n + 1 < Len(t), t[n + 1 + 1] \in Trail PROVE FALSE
      <3>1. t[n + 2] \in Trail /\ t[n + 2] \notin Lead /\ t[n + 1] \notin Trail BY <1>8, <2>2, BytesAre
      <3>2. \A k \in 1..(n + 2) : k \in 1..n \/ k = n + 1 \/ k = n + 2 OBVIOUS
      <3>3. n + 1 < n + 2 /\ n + 1 + 1 = n + 2 /\ n + 2 > 1 /\ n + 2 - 1 = n + 1 OBVIOUS
      <3>4. \A k \in 1..n : k < n + 2 OBVIOUS
      <3>5. Utf8Prefix(t, n + 2) BY <1>4, <2>1, <3>1, <3>2, <3>3, <3>4 DEF Utf8Prefix
      <3>6. n + 2 \in 0..Len(t) /\ ~(n + 2 <= n) BY <1>2, <2>2
      <3> QED BY <1>1, <3>5, <3>6
    <2>3. CASE n + 1 < Len(t) BY <1>2, <2>1, <2>2, <2>3 DEF Bad
    <2>4. CASE n + 1 = Len(t) BY <2>1, <2>4
    <2> QED BY <1>2, <2>3, <2>4
  <1> QED BY <1>7, <1>8

LEMMA WriteLengthIs ==
    ASSUME NEW t \in Text
    PROVE  /\ WriteLength(t) \in 0..Len(t) /\ Wf(SubSeq(t, 1, WriteLength(t)))
           /\ Keeps(t) => Held(Rest(t))
           /\ Wf(t) => Keeps(t) /\ Rest(t) \in {<<>>, <<CR>>}
           /\ ~Keeps(t) => \E q : Bad(t, q)
  <1>1. PICK n \in Nat, end \in Nat, len \in Nat : n = WriteLength(t) /\ end = ValidLength(t) /\ len = Len(t)
    <2>1. Len(t) \in Nat /\ ValidLength(t) \in 0..Len(t) BY ValidLengthIs DEF Text
    <2>2. WriteLength(t) \in Nat BY <2>1 DEF WriteLength
    <2> QED BY <2>1, <2>2
  <1>2. end <= len /\ Utf8Prefix(t, end) /\ (Wf(t) => end = len)
    BY <1>1, ValidLengthIs DEF Valid
  <1>3. UnicharLen \in Nat /\ 0 < UnicharLen /\ 1 < UnicharLen BY LengthAssumption
  <1>4. CASE end = len /\ len > 1 /\ t[len] = CR
    <2>1. n = end - 1 /\ n + 1 = len BY <1>1, <1>4 DEF WriteLength
    <2>2. Rest(t) = <<CR>> BY <1>1, <1>4, <2>1, OneLeft DEF Rest
    <2>3. Utf8Prefix(t, n)
      <3>1. \A i \in 1..n : i \in 1..len /\ (i < n \/ i + 1 = len) BY <2>1
      <3>2. t[len] \notin Trail BY <1>4, BytesAre
      <3> QED BY <1>2, <1>4, <3>1, <3>2 DEF Utf8Prefix
    <2>4. Wf(SubSeq(t, 1, n)) BY <1>1, <2>1, <2>3, PrefixIsWf
    <2>5. Keeps(t)
      <3>1. len - n < UnicharLen BY <1>3, <2>1
      <3>2. t[n + 1] = CR BY <1>4, <2>1
      <3> QED BY <1>1, <3>1, <3>2 DEF Keeps
    <2> QED BY <1>1, <2>1, <2>2, <2>4, <2>5 DEF Held
  <1>5. CASE ~(end = len /\ len > 1 /\ t[len] = CR)
    <2>1. n = end BY <1>1, <1>5 DEF WriteLength
    <2>2. Wf(SubSeq(t, 1, n)) BY <1>1, <1>2, <2>1, PrefixIsWf
    <2>3. CASE end = len
      <3>1. Rest(t) = <<>> BY <1>1, <2>1, <2>3, NoneLeft DEF Rest
      <3>2. len - n = 0 /\ ~(n < len) BY <2>1, <2>3
      <3>3. Keeps(t) BY <1>1, <1>3, <3>2 DEF Keeps
      <3> QED BY <1>1, <1>2, <2>1, <2>2, <3>1, <3>3 DEF Held
    <2>4. CASE end # len
      <3>1. end < len BY <1>2, <2>4
      <3>2. Bad(t, n + 1) \/ (t[n + 1] \in Lead /\ n + 1 = len) BY <1>1, <2>1, <3>1, FirstInvalid
      <3>3. ASSUME Keeps(t) PROVE t[n + 1] \in Lead /\ n + 1 = len
        <4>1. PartialChar(t, n + 1) \/ t[n + 1] = CR BY <1>1, <2>1, <3>1, <3>3 DEF Keeps
        <4>2. t[n + 1] # CR
          <5>1. t[n + 1] \in Lead \union Trail BY <3>2 DEF Bad
          <5> QED BY <5>1, BytesAre
        <4> QED BY <1>1, <4>1, <4>2 DEF PartialChar
      <3>4. ASSUME t[n + 1] \in Lead, n + 1 = len PROVE Keeps(t)
        <4>1. len - n < UnicharLen BY <1>3, <3>4
        <4>2. PartialChar(t, n + 1) BY <1>1, <3>4 DEF PartialChar
        <4> QED BY <1>1, <4>1, <4>2 DEF Keeps
      <3>5. ASSUME Keeps(t) PROVE Held(Rest(t))
        <4>1. Rest(t) = <<t[n + 1]>> BY <1>1, <3>3, <3>5, OneLeft DEF Rest
        <4> QED BY <3>3, <3>5, <4>1 DEF Held
      <3> QED BY <1>1, <1>2, <2>1, <2>2, <2>4, <3>2, <3>4, <3>5
    <2> QED BY <2>3, <2>4
  <1> QED BY <1>4, <1>5

-----------------------------------------------------------------------------
(***************************************************************************)
(* The stream that is written.                                             *)
(***************************************************************************)
Streams == [text : Text, buffer : Text, is_initialized : BOOLEAN, is_closed : BOOLEAN, not_undoable : Int]

\* What a stream has kept is half a character or a carriage return at most.
Sound(s) ==
    /\ s.not_undoable = (IF s.is_initialized /\ ~s.is_closed THEN 1 ELSE 0)
    /\ Held(s.buffer) /\ Wf(s.text)
Whole(s) == s.text \o s.buffer
Hopeless(whole) == \A rest \in Text : ~Wf(whole \o rest)

LEMMA HeldIsText == ASSUME NEW b, Held(b) PROVE b \in Text /\ Len(b) < UnicharLen
  <1>1. UnicharLen \in Nat /\ 0 < UnicharLen /\ 1 < UnicharLen BY LengthAssumption
  <1>2. CASE b = <<>>
    <2>1. Len(b) = 0 /\ b \in Text BY <1>2 DEF Text
    <2> QED BY <1>1, <2>1
  <1>3. CASE b # <<>>
    <2>1. PICK e \in Lead \union {CR} : b = <<e>> BY <1>3 DEF Held
    <2>2. e \in Bytes BY BytesAre
    <2>3. Len(b) = 1 /\ b \in Text BY <2>1, <2>2, PairIs
    <2> QED BY <1>1, <2>3
  <1> QED BY <1>2, <1>3

LEMMA WriteIs ==
    ASSUME NEW s \in Streams, Sound(s), ~s.is_closed, NEW piece \in Text
    PROVE  /\ Write(s, piece).os \in Streams /\ Sound(Write(s, piece).os)
           /\ Write(s, piece).os.is_initialized /\ ~Write(s, piece).os.is_closed
           /\ Write(s, piece).valid => Whole(Write(s, piece).os) = Whole(s) \o piece
           /\ Wf(s.buffer \o piece) =>
                 Write(s, piece).valid /\ Write(s, piece).os.buffer \in {<<>>, <<CR>>}
           /\ ~Write(s, piece).valid => Hopeless(Whole(s) \o piece)
  <1>1. s.text \in Text /\ s.buffer \in Text /\ Wf(s.text) BY DEF Streams, Sound
  <1>2. PICK t \in Text : t = s.buffer \o piece BY <1>1, JoinedIs
  <1>3. PICK n \in 0..Len(t) : n = WriteLength(t) BY WriteLengthIs
  <1>4. /\ SubSeq(t, 1, n) \in Text /\ Rest(t) \in Text
        /\ SubSeq(t, 1, n) \o Rest(t) = t
    BY <1>3, CutInTwo DEF Rest
  <1> DEFINE begun == [s EXCEPT !.is_initialized = TRUE, !.buffer = <<>>,
                                !.not_undoable = IF s.is_initialized THEN @ ELSE @ + 1]
             goes  == [begun EXCEPT !.buffer = Rest(t), !.text = @ \o SubSeq(t, 1, n)]
  <1>5. Write(s, piece) = [valid |-> Keeps(t), os |-> IF Keeps(t) THEN goes ELSE begun]
    BY <1>2, <1>3, Zenon DEF Write, Keeps, WriteLength, Rest
  <1>6. begun \in Streams /\ Sound(begun) /\ begun.is_initialized /\ ~begun.is_closed /\ begun.text = s.text
    <2>1. s.not_undoable = (IF s.is_initialized THEN 1 ELSE 0) BY DEF Sound
    <2>2. begun = [s EXCEPT !.is_initialized = TRUE, !.buffer = <<>>, !.not_undoable = 1]
      <3>1. CASE s.is_initialized
        <4>1. begun = [s EXCEPT !.is_initialized = TRUE, !.buffer = <<>>, !.not_undoable = @]
          BY <3>1
        <4>2. s.not_undoable = 1 BY <2>1, <3>1
        <4> QED BY <4>1, <4>2 DEF Streams
      <3>2. CASE ~s.is_initialized
        <4>1. begun = [s EXCEPT !.is_initialized = TRUE, !.buffer = <<>>, !.not_undoable = @ + 1]
          BY <3>2
        <4>2. s.not_undoable = 0 BY <2>1, <3>2
        <4> QED BY <4>1, <4>2 DEF Streams
      <3> QED BY <3>1, <3>2
    <2> HIDE DEF begun
    <2>3. <<>> \in Text /\ 1 \in Int /\ TRUE \in BOOLEAN BY JoinNone
    <2>4. begun \in Streams BY <2>2, <2>3 DEF Streams
    <2>5. begun.is_initialized /\ begun.buffer = <<>> /\ begun.not_undoable = 1
      BY <2>2 DEF Streams
    <2>6. begun.text = s.text /\ begun.is_closed = s.is_closed BY <2>2 DEF Streams
    <2> QED BY <1>1, <2>4, <2>5, <2>6 DEF Sound, Held
  <1>7. /\ Keeps(t) => Held(Rest(t))
        /\ Wf(t) => Keeps(t) /\ Rest(t) \in {<<>>, <<CR>>}
        /\ ~Keeps(t) => \E q : Bad(t, q)
        /\ Wf(SubSeq(t, 1, n))
    BY <1>3, WriteLengthIs
  <1>8. s.text \o SubSeq(t, 1, n) \in Text /\ Wf(s.text \o SubSeq(t, 1, n))
    BY <1>1, <1>4, <1>7, WfJoin, JoinedIs
  <1>9. Whole(s) \o piece = s.text \o t BY <1>1, <1>2, JoinThree DEF Whole
  <1>10. CASE Keeps(t)
    <2>1. goes.text = s.text \o SubSeq(t, 1, n) /\ goes.buffer = Rest(t) BY <1>6 DEF Streams
    <2>2. goes \in Streams /\ Sound(goes) /\ goes.is_initialized /\ ~goes.is_closed
      BY <1>4, <1>6, <1>7, <1>8, <1>10 DEF Streams, Sound
    <2> HIDE DEF goes, begun
    <2>3. Write(s, piece).os = goes /\ Write(s, piece).valid BY <1>5, <1>10
    <2>4. Whole(goes) = s.text \o t
      <3>1. (s.text \o SubSeq(t, 1, n)) \o Rest(t) = s.text \o (SubSeq(t, 1, n) \o Rest(t))
        BY <1>1, <1>4, JoinThree
      <3> QED BY <1>4, <2>1, <3>1 DEF Whole
    <2> QED BY <1>2, <1>7, <1>9, <2>1, <2>2, <2>3, <2>4
  <1>11. CASE ~Keeps(t)
    <2> HIDE DEF goes, begun
    <2>1. Write(s, piece).os = begun /\ ~Write(s, piece).valid BY <1>5, <1>11
    <2>2. PICK q : Bad(t, q) BY <1>7, <1>11
    <2>3. Hopeless(s.text \o t) BY <1>1, <2>2, BadStays DEF Hopeless
    <2>4. ~Wf(t) BY <1>7, <1>11
    <2> QED BY <1>2, <1>6, <1>9, <2>1, <2>3, <2>4
  <1> QED BY <1>10, <1>11

\* At the end of the file: a carriage return is written, half a character is not.
LEMMA FlushIs ==
    ASSUME NEW s \in Streams, Sound(s)
    PROVE  /\ Flush(s).os \in Streams /\ Sound(Flush(s).os) /\ Flush(s).valid
           /\ Flush(s).os.is_initialized = s.is_initialized /\ Flush(s).os.is_closed = s.is_closed
           /\ Whole(Flush(s).os) = Whole(s)
           /\ s.buffer = <<>> => Flush(s).os = s
           /\ s.is_initialized /\ ~s.is_closed => Flush(s).os.buffer # <<CR>>
           /\ s.buffer \in {<<>>, <<CR>>} => Flush(s).os.buffer \in {<<>>, <<CR>>}
  <1>1. s.text \in Text /\ s.buffer \in Text /\ Held(s.buffer) BY DEF Streams, Sound
  <1>2. CASE s.buffer = <<>> \/ s.is_closed \/ ~s.is_initialized
    <2>1. Flush(s) = [valid |-> TRUE, os |-> s] BY <1>2 DEF Flush
    <2>2. s.buffer = <<>> => s.buffer # <<CR>> OBVIOUS
    <2> QED BY <1>2, <2>1, <2>2
  <1>3. CASE s.buffer # <<>> /\ ~s.is_closed /\ s.is_initialized
    <2>1. Flush(s) = Write(s, <<>>) BY <1>3 DEF Flush
    <2>2. <<>> \in Text /\ s.buffer \o <<>> = s.buffer /\ Whole(s) \in Text /\ Whole(s) \o <<>> = Whole(s)
      <3>1. Whole(s) \in Text BY <1>1, JoinedIs DEF Whole
      <3> QED BY <1>1, <3>1, JoinNone
    <2>3. PICK e \in Lead \union {CR} : s.buffer = <<e>> BY <1>1, <1>3 DEF Held
    <2>4. s.buffer \in Text /\ Len(s.buffer) = 1 /\ s.buffer[1] = e BY <2>3, BytesAre, PairIs
    <2>5. PICK w : w = Write(s, <<>>) OBVIOUS
    <2>6. /\ w.os \in Streams /\ Sound(w.os) /\ w.os.is_initialized /\ ~w.os.is_closed
          /\ w.valid => Whole(w.os) = Whole(s)
          /\ Wf(s.buffer) => w.valid
      BY <1>3, <2>2, <2>5, WriteIs
    <2>7. w.valid = Keeps(s.buffer) /\ (w.valid => w.os.buffer = Rest(s.buffer))
      <3>1. PICK b : b = s.buffer \o <<>> OBVIOUS
      <3>2. w.valid = Keeps(b) /\ (w.valid => w.os.buffer = Rest(b))
        BY <2>5, <3>1 DEF Write, Keeps, WriteLength, Rest, Streams
      <3> QED BY <2>2, <3>1, <3>2
    <2>8. CASE e \in Lead
      <3>1. PICK n \in Nat : n = ValidLength(s.buffer) BY <2>4, ValidLengthIs
      <3>2. n = 0
        <4>1. n \in 0..1 /\ Utf8Prefix(s.buffer, n) BY <2>4, <3>1, ValidLengthIs
        <4>2. ~Utf8Prefix(s.buffer, 1) BY <2>4, <2>8 DEF Utf8Prefix
        <4> QED BY <4>1, <4>2
      <3>3. WriteLength(s.buffer) = 0 BY <2>4, <3>1, <3>2 DEF WriteLength
      <3>4. Keeps(s.buffer)
        <4>1. Len(s.buffer) - 0 < UnicharLen BY <2>4, LengthAssumption
        <4>2. PartialChar(s.buffer, 0 + 1) BY <2>4, <2>8 DEF PartialChar
        <4> QED BY <3>3, <4>1, <4>2 DEF Keeps
      <3>5. Rest(s.buffer) = <<e>>
        <4>1. 0 \in Nat /\ 0 + 1 = Len(s.buffer) BY <2>4
        <4>2. SubSeq(s.buffer, 0 + 1, Len(s.buffer)) = <<s.buffer[0 + 1]>> BY <4>1, <2>4, OneLeft
        <4> QED BY <2>4, <3>3, <4>2 DEF Rest
      <3>6. <<e>> # <<CR>> /\ s.buffer \notin {<<>>, <<CR>>}
        <4>1. e # CR BY <2>8, BytesAre
        <4>2. <<e>>[1] = e /\ <<CR>>[1] = CR OBVIOUS
        <4> QED BY <1>3, <2>3, <4>1, <4>2
      <3>7. PICK v \in Streams : v = w.os BY <2>6
      <3>8. v.buffer # <<CR>> /\ s.buffer \notin {<<>>, <<CR>>} /\ s.buffer # <<>>
        BY <1>3, <2>3, <2>7, <3>4, <3>5, <3>6, <3>7
      <3>9. v.is_initialized = s.is_initialized /\ v.is_closed = s.is_closed
        BY <1>3, <2>6, <3>7 DEF Streams
      <3>10. Flush(s).os = v /\ Flush(s).valid = w.valid BY <2>1, <2>5, <3>7
      <3> QED BY <2>6, <2>7, <3>4, <3>7, <3>8, <3>9, <3>10
    <2>9. CASE e = CR
      <3>1. Wf(s.buffer)
        <4>1. e \notin Lead \union Trail BY <2>9, BytesAre
        <4>2. \A i \in 1..1 : i = 1 OBVIOUS
        <4> QED BY <2>4, <4>1, <4>2 DEF Wf, Utf8Prefix
      <3>2. ValidLength(s.buffer) = 1 /\ WriteLength(s.buffer) = 1
        <4>1. ValidLength(s.buffer) = Len(s.buffer) BY <2>4, <3>1, ValidLengthIs DEF Valid
        <4> QED BY <4>1, <2>4 DEF WriteLength
      <3>3. Rest(s.buffer) = <<>>
        <4>1. SubSeq(s.buffer, Len(s.buffer) + 1, Len(s.buffer)) = <<>> BY <2>4, NoneLeft
        <4> QED BY <4>1, <2>4, <3>2 DEF Rest
      <3>4. PICK v \in Streams : v = w.os BY <2>6
      <3>5. v.buffer = <<>> BY <2>6, <2>7, <3>1, <3>3, <3>4
      <3>9. v.buffer # <<CR>>
        <4>1. Len(<<CR>>) = 1 /\ Len(<<>>) = 0 OBVIOUS
        <4> QED BY <3>5, <4>1
      <3>6. v.is_initialized = s.is_initialized /\ v.is_closed = s.is_closed
        BY <1>3, <2>6, <3>4 DEF Streams
      <3>7. Flush(s).os = v /\ Flush(s).valid = w.valid BY <2>1, <2>5, <3>4
      <3>8. s.buffer # <<>> BY <1>3
      <3> QED BY <2>6, <3>1, <3>4, <3>5, <3>6, <3>7, <3>8, <3>9
    <2> QED BY <2>8, <2>9
  <1> QED BY <1>2, <1>3

\* A newline at the end is no part of a character.
LEMMA EndingNewline ==
    ASSUME NEW text \in Text, Wf(text)
    PROVE  WithoutEndingNewline(text) \in Text /\ Wf(WithoutEndingNewline(text))
  <1>1. PICK n \in Nat : n = Len(text) BY DEF Text
  <1>2. \A i \in 1..n : /\ text[i] \in Lead  => i < n /\ text[i + 1] \in Trail
                        /\ text[i] \in Trail => i > 1 /\ text[i - 1] \in Lead
    BY <1>1 DEF Wf, Utf8Prefix
  <1>3. ASSUME NEW k \in Nat, k + 1 <= n, text[k + 1] \in {CR, LF}
        PROVE  SubSeq(text, 1, k) \in Text /\ Wf(SubSeq(text, 1, k))
    <2>1. k \in 0..Len(text) BY <1>1, <1>3
    <2>2. text[k + 1] \notin Trail BY <1>3, BytesAre
    <2>3. \A i \in 1..k : i \in 1..n /\ (i < k \/ i + 1 = k + 1) BY <1>3
    <2>4. Utf8Prefix(text, k) BY <1>2, <2>2, <2>3 DEF Utf8Prefix
    <2> QED BY <2>1, <2>4, CutInTwo, PrefixIsWf
  <1>4. CASE n = 0 \/ text[n] \notin {CR, LF} BY <1>1, <1>4 DEF WithoutEndingNewline
  <1>5. CASE n > 1 /\ text[n] = LF /\ text[n - 1] = CR
    <2>1. PICK k \in Nat : k = n - 2 /\ k + 1 = n - 1 /\ k + 1 <= n BY <1>5
    <2>2. WithoutEndingNewline(text) = SubSeq(text, 1, k) BY <1>1, <1>5, <2>1 DEF WithoutEndingNewline
    <2> QED BY <1>3, <1>5, <2>1, <2>2
  <1>6. CASE n # 0 /\ text[n] \in {CR, LF} /\ ~(n > 1 /\ text[n] = LF /\ text[n - 1] = CR)
    <2>1. PICK k \in Nat : k = n - 1 /\ k + 1 = n BY <1>6
    <2>2. WithoutEndingNewline(text) = SubSeq(text, 1, k) BY <1>1, <1>6, <2>1 DEF WithoutEndingNewline
    <2> QED BY <1>3, <1>6, <2>1, <2>2
  <1> QED BY <1>4, <1>5, <1>6

LEMMA CloseIs ==
    ASSUME NEW s \in Streams, Sound(s)
    PROVE  /\ Close(s) \in Streams /\ Sound(Close(s))
           /\ Close(s).is_initialized => Close(s).is_closed
           /\ s.is_initialized /\ ~s.is_closed => Close(s).text = WithoutEndingNewline(s.text)
  <1>1. s.text \in Text /\ Wf(s.text) BY DEF Streams, Sound
  <1>2. CASE s.is_initialized /\ ~s.is_closed
    <2>1. Close(s) = [s EXCEPT !.text = WithoutEndingNewline(@), !.not_undoable = @ - 1, !.is_closed = TRUE]
      BY <1>2 DEF Close
    <2>2. PICK t \in Text : t = WithoutEndingNewline(s.text) /\ Wf(t) BY <1>1, EndingNewline
    <2>3. s.not_undoable = 1 BY <1>2 DEF Sound
    <2>4. Close(s) = [s EXCEPT !.text = t, !.not_undoable = 0, !.is_closed = TRUE] BY <2>1, <2>2, <2>3
    <2>5. PICK c : c = Close(s) OBVIOUS
    <2>6. 0 \in Int /\ TRUE \in BOOLEAN OBVIOUS
    <2>7. c \in Streams BY <2>2, <2>4, <2>5, <2>6 DEF Streams
    <2>8. c.text = t /\ c.not_undoable = 0 /\ c.is_closed BY <2>4, <2>5 DEF Streams
    <2>9. c.buffer = s.buffer BY <2>4, <2>5 DEF Streams
    <2> QED BY <2>2, <2>5, <2>7, <2>8, <2>9 DEF Sound
  <1>3. CASE ~(s.is_initialized /\ ~s.is_closed)
    <2>1. Close(s) = s BY <1>3 DEF Close
    <2> QED BY <1>3, <2>1
  <1> QED BY <1>2, <1>3

-----------------------------------------------------------------------------
(***************************************************************************)
(* The charset a file is read in.                                          *)
(***************************************************************************)
AnyEncoding == Encodings \union {NoEncoding}

LEMMA ConvertibleIs ==
    ASSUME NEW enc, NEW block \in Text, NEW n, n = Convertible(enc, block)
    PROVE  /\ n \in 0..Len(block) /\ (enc = UTF8 => n = Len(block))
           /\ enc # UTF8 => \A i \in 1..n : Decodable(enc, block[i])
           /\ enc # UTF8 /\ n < Len(block) => ~Decodable(enc, block[n + 1])
  <1>1. PICK len \in Nat : len = Len(block) BY DEF Text
  <1>2. CASE enc = UTF8 BY <1>1, <1>2 DEF Convertible
  <1>3. CASE enc # UTF8
    <2> DEFINE T == {k \in 0..len : \A i \in 1..k : Decodable(enc, block[i])}
    <2>1. T \in SUBSET (0..len) /\ 0 \in T BY <1>1
    <2>2. n = Max(T) BY <1>1, <1>3 DEF Convertible
    <2>3. n \in T /\ \A k \in T : k <= n
      <3> HIDE DEF T
      <3> QED BY <1>1, <2>1, <2>2, MaxIsGreatest
    <2>4. n \in 0..len /\ \A i \in 1..n : Decodable(enc, block[i]) BY <2>3
    <2>5. ASSUME n < len, Decodable(enc, block[n + 1]) PROVE FALSE
      <3>1. \A i \in 1..(n + 1) : i \in 1..n \/ i = n + 1 BY <2>4
      <3>2. n + 1 \in 0..len /\ ~(n + 1 <= n) BY <2>4, <2>5
      <3>3. n + 1 \in T BY <2>4, <2>5, <3>1, <3>2
      <3> HIDE DEF T
      <3> QED BY <2>3, <3>2, <3>3
    <2> QED BY <1>1, <1>3, <2>4, <2>5
  <1> QED BY <1>2, <1>3

LEMMA GuessIs ==
    ASSUME NEW candidates \in Seq(Encodings), NEW block \in Text, NEW g, g = GuessEncoding(candidates, block)
    PROVE  /\ g \in AnyEncoding /\ (block = <<>> => g = UTF8)
           /\ \A e \in Encodings : block # <<>> /\ candidates = <<e>> => g = e
           /\ block # <<>> /\ g = NoEncoding => \A i \in DOMAIN candidates : ~Accepts(candidates[i], block)
  <1>1. /\ DOMAIN candidates = 1..Len(candidates) /\ Len(candidates) \in Nat
        /\ \A i \in 1..Len(candidates) : candidates[i] \in Encodings
    BY ElementOfSeq
  <1>2. UTF8 \in Encodings /\ NoEncoding \notin Encodings BY EncodingAssumption
  <1>3. CASE block = <<>> BY <1>2, <1>3 DEF GuessEncoding, AnyEncoding
  <1>4. CASE block # <<>> /\ Len(candidates) = 1
    <2>1. g = candidates[1] /\ candidates[1] \in Encodings BY <1>1, <1>4 DEF GuessEncoding
    <2>2. \A e \in Encodings : candidates = <<e>> => candidates[1] = e OBVIOUS
    <2> QED BY <1>2, <1>4, <2>1, <2>2 DEF AnyEncoding
  <1>5. CASE block # <<>> /\ Len(candidates) # 1
    <2> DEFINE fit == {i \in DOMAIN candidates : Accepts(candidates[i], block)}
    <2>1. g = IF fit = {} THEN NoEncoding ELSE candidates[Min(fit)] BY <1>5 DEF GuessEncoding
    <2>2. fit # {} => Min(fit) \in fit
      <3>1. fit \in SUBSET Nat BY <1>1
      <3> HIDE DEF fit
      <3> QED BY <3>1, MinIsLeast
    <2>3. fit # {} => candidates[Min(fit)] \in Encodings BY <1>1, <2>2
    <2>4. \A e \in Encodings : candidates # <<e>>
      <3>1. \A e \in Encodings : Len(<<e>>) = 1 OBVIOUS
      <3> QED BY <1>5, <3>1
    <2>5. g = NoEncoding => fit = {} BY <1>2, <2>1, <2>3
    <2>6. fit = {} => \A i \in DOMAIN candidates : ~Accepts(candidates[i], block) OBVIOUS
    <2>7. g \in AnyEncoding BY <2>1, <2>3 DEF AnyEncoding
    <2> QED BY <1>5, <2>4, <2>5, <2>6, <2>7
  <1> QED BY <1>3, <1>4, <1>5

\* Wherever the first piece of a file ends, it is a piece of a file of its charset.
LEMMA GoodIsAccepted ==
    ASSUME NEW enc \in Encodings, NEW content \in Text, NEW n \in 1..Len(content), Decodes(enc, content)
    PROVE  Accepts(enc, SubSeq(content, 1, n))
  <1>1. PICK len \in Nat : len = Len(content) /\ n \in 0..len BY DEF Text
  <1>2. PICK block \in Text : block = SubSeq(content, 1, n) BY <1>1, CutInTwo
  <1>3. Len(block) = n /\ (\A i \in 1..n : block[i] = content[i]) BY <1>1, <1>2, CutInTwo
  <1>4. CASE enc = UTF8
    <2>1. \A i \in 1..len : /\ content[i] \in Lead  => i < len /\ content[i + 1] \in Trail
                            /\ content[i] \in Trail => i > 1 /\ content[i - 1] \in Lead
      <3>1. Wf(content) BY <1>4, ValidLengthIs DEF Decodes
      <3> QED BY <1>1, <3>1 DEF Wf, Utf8Prefix
    <2>2. PICK end \in Nat : end = ValidLength(block) BY <1>2, <1>3, ValidLengthIs
    <2>3. end <= n /\ (\A k \in 0..n : Utf8Prefix(block, k) => k <= end) BY <1>3, <2>2, ValidLengthIs
    <2>4. PICK k \in 0..n : k = n - 1 /\ k + 1 = n OBVIOUS
    <2>5. n - end <= 1
      <3>1. CASE content[n] \in Lead
        <4>1. content[n] \notin Trail BY <3>1, BytesAre
        <4>2. ASSUME NEW i \in 1..k
              PROVE  /\ block[i] \in Lead  => i < k /\ block[i + 1] \in Trail
                     /\ block[i] \in Trail => i > 1 /\ block[i - 1] \in Lead
          <5>1. i \in 1..len /\ i \in 1..n /\ i + 1 \in 1..n /\ (i > 1 => i - 1 \in 1..n) BY <1>1, <2>4
          <5>2. i < k \/ i + 1 = n BY <2>4
          <5>3. /\ block[i] = content[i] /\ block[i + 1] = content[i + 1]
                /\ i > 1 => block[i - 1] = content[i - 1]
            BY <1>3, <5>1
          <5> QED BY <2>1, <4>1, <5>1, <5>2, <5>3
        <4>3. k <= end BY <2>3, <4>2 DEF Utf8Prefix
        <4> QED BY <2>2, <2>4, <4>3
      <3>2. CASE content[n] \notin Lead
        <4>1. ASSUME NEW i \in 1..n
              PROVE  /\ block[i] \in Lead  => i < n /\ block[i + 1] \in Trail
                     /\ block[i] \in Trail => i > 1 /\ block[i - 1] \in Lead
          <5>1. i \in 1..len /\ (i < n => i + 1 \in 1..n) /\ (i > 1 => i - 1 \in 1..n) /\ (i < n \/ i = n)
            BY <1>1
          <5>2. block[i] = content[i] BY <1>3
          <5>3. i < n => block[i + 1] = content[i + 1] BY <1>3, <5>1
          <5>4. i > 1 => block[i - 1] = content[i - 1] BY <1>3, <5>1
          <5> QED BY <2>1, <3>2, <5>1, <5>2, <5>3, <5>4
        <4>2. n \in 0..n BY <1>1
        <4>3. n <= end BY <2>3, <4>1, <4>2 DEF Utf8Prefix
        <4> QED BY <2>2, <4>3
      <3> QED BY <3>1, <3>2
    <2>6. CharLen \in Nat /\ 1 < CharLen BY LengthAssumption
    <2>7. Len(block) - ValidLength(block) < CharLen BY <1>3, <2>2, <2>5, <2>6
    <2> QED BY <1>2, <1>4, <2>7 DEF Accepts
  <1>5. CASE enc # UTF8
    <2>1. \A i \in DOMAIN content : Decodable(enc, content[i]) BY <1>5 DEF Decodes
    <2>2. DOMAIN content = 1..len /\ DOMAIN block = 1..n BY <1>1, <1>2, <1>3 DEF Text
    <2>3. \A i \in 1..n : i \in 1..len BY <1>1
    <2>4. \A i \in DOMAIN block : Decodable(enc, block[i]) BY <1>3, <2>1, <2>2, <2>3
    <2>5. block # <<>>
      <3>1. Len(<<>>) = 0 /\ n # 0 OBVIOUS
      <3> QED BY <1>3, <3>1
    <2> QED BY <1>2, <1>5, <2>4, <2>5 DEF Accepts, TryConvert
  <1> QED BY <1>4, <1>5

-----------------------------------------------------------------------------
(***************************************************************************)
(* The invariant of LoadSpec.                                              *)
(***************************************************************************)
LoaderSet ==
    [call : Calls, used : BOOLEAN, tried_mount : BOOLEAN, cancelled : BOOLEAN,
     encoding : AnyEncoding, candidates : Seq(Encodings), guessed : AnyEncoding, newline_type : NewlineTypes,
     stream : Text, content : Text, mtime : Nat, raced : BOOLEAN, error : LoadErrors, reports : Nat]

LoadTyped ==
    /\ file \in [content : Contents, mtime : 1..(MaxReplaced + 1)]
    /\ loaders \in [Loads -> LoaderSet] /\ loader \in Loads \union {0}
    /\ os \in Streams
    /\ doc \in [encoding : Encodings, newline_type : NewlineTypes, mtime : Nat]
    /\ metadata \in AnyEncoding

\* A load has its turn, has had it, or comes later.
Waiting(r)  == r.used /\ ~r.cancelled /\ r.call # "none" /\ r.reports = 0
Reported(r) == r.used /\ r.reports = 1 /\ (r.call = "none" \/ r.cancelled)
InTurn ==
    /\ \A l \in Loads : IF ~loaders[l].used THEN loaders[l] = NoLoader /\ loader # l
                        ELSE IF loader = l THEN Waiting(loaders[l]) ELSE Reported(loaders[l])
    /\ \A l, k \in Loads : k < l /\ loaders[l].used => loaders[k].used
    /\ loader # 0 => \A k \in Loads : k > loader => ~loaders[k].used

\* n bytes of the content are in the stream.
Chosen(r) == r.encoding # NoEncoding => r.candidates = <<r.encoding>> /\ r.guessed \in {NoEncoding, r.encoding}
Fits(s, g, c, n) ==
    Whole(s) = Converted(g, SubSeq(c, 1, n)) /\ (g # UTF8 => s.buffer \in {<<>>, <<CR>>})
Copied(r, n, s) ==
    /\ Fits(s, r.guessed, r.content, n)
    /\ r.guessed # UTF8 => \A i \in 1..n : Decodable(r.guessed, r.content[i])
ReadSoFar(r, s, n) ==
    /\ n = Len(r.content) - Len(r.stream) /\ r.stream = SubSeq(r.content, n + 1, Len(r.content))
    /\ Copied(r, n, s)
    /\ n = 0 => r.guessed = NoEncoding /\ s = NewOutputStream
    /\ n # 0 => r.guessed # NoEncoding /\ s.is_initialized
Reads(r, s) ==
    /\ Chosen(r) /\ ~s.is_closed
    /\ \E n \in 0..Len(r.content) : ReadSoFar(r, s, n)
Closes(r, s) ==
    /\ (r.content # <<>> => Chosen(r) /\ s.is_initialized) /\ ~s.is_closed
    /\ r.error = "none" /\ r.guessed # NoEncoding
    /\ Copied(r, Len(r.content), s)
    /\ r.newline_type = NewlineType(s.text) /\ s.buffer # <<CR>>
Idle(s) == s.is_initialized => s.is_closed
AtWork(r, s) ==
    /\ r.call = "mount" => r.tried_mount
    /\ r.call \in {"query", "chunk", "close"} => r.content \in Contents
    /\ r.call \in {"read", "mount", "query"} => r.guessed = NoEncoding /\ Idle(s)
    /\ r.call = "query" => r.stream = r.content
    /\ r.call = "chunk" => Reads(r, s)
    /\ r.call = "close" => Closes(r, s)
Working == IF loader = 0 THEN Idle(os) ELSE AtWork(loaders[loader], os)

\* What is known of the file.
OfItsTime(r) == r.mtime <= file.mtime /\ (~r.raced /\ r.mtime = file.mtime => r.content = file.content)
Tells(r) ==
    /\ r.call = "query" /\ ~r.cancelled /\ ~r.raced => r.content = file.content
    /\ r.call \in {"chunk", "close"} /\ ~r.cancelled => OfItsTime(r)
    /\ r.reports > 0 /\ r.error = "none" => OfItsTime(r)
Shown(l) == Done(l, {"none"}) /\ \A k \in Loads : k > l => ~Done(k, {"none"})
Timely ==
    /\ doc.mtime <= file.mtime
    /\ \A l \in Loads : Tells(loaders[l])
    /\ \A l \in Loads : Shown(l) => doc.mtime = loaders[l].mtime

LoadInv ==
    LoadTyped /\ Sound(os) /\ InTurn /\ Working /\ Timely /\ LoadedIsDecoded /\ GoodFilesLoad

LEMMA LoadsAre == Loads \subseteq Nat /\ 0 \notin Loads
  BY LoadsAssumption

\* The load whose call comes back, unless it was cancelled, is the one that has its turn.
LEMMA HasTheTurn ==
    ASSUME LoadInv, NEW l \in Loads, NEW call \in Calls \ {"none"}, Running(l, call)
    PROVE  /\ loader = l /\ loader # 0 /\ Waiting(loaders[l]) /\ loaders[l] \in LoaderSet
           /\ loaders[l].call = call /\ AtWork(loaders[l], os) /\ Tells(loaders[l])
  <1>1. loaders[l].call = call /\ ~loaders[l].cancelled BY DEF Running
  <1>2. loaders[l].used
    <2>1. NoLoader.call = "none" BY DEF NoLoader, NewLoader
    <2> QED BY <1>1, <2>1 DEF LoadInv, InTurn
  <1>3. loader = l BY <1>1, <1>2 DEF LoadInv, InTurn, Reported
  <1>4. loader # 0 BY <1>3, LoadsAre
  <1>5. Waiting(loaders[l]) BY <1>2, <1>3 DEF LoadInv, InTurn
  <1>6. AtWork(loaders[l], os) BY <1>3, <1>4 DEF LoadInv, Working
  <1>7. loaders[l] \in LoaderSet /\ Tells(loaders[l]) BY DEF LoadInv, LoadTyped, Timely
  <1> QED BY <1>1, <1>3, <1>4, <1>5, <1>6, <1>7

LEMMA EndedIs ==
    ASSUME NEW r \in LoaderSet, NEW error \in LoadErrors, NEW e, e = Ended(r, error)
    PROVE  /\ e \in LoaderSet /\ e.call = "none" /\ e.error = error /\ e.reports = r.reports + 1
           /\ e.used = r.used /\ e.cancelled = r.cancelled /\ e.encoding = r.encoding
           /\ e.candidates = r.candidates /\ e.guessed = r.guessed /\ e.newline_type = r.newline_type
           /\ e.content = r.content /\ e.mtime = r.mtime /\ e.raced = r.raced
  <1>1. e = [r EXCEPT !.call = "none", !.error = error, !.reports = r.reports + 1,
                      !.stream = <<>>, !.tried_mount = FALSE]
    BY DEF Ended, LoaderSet
  <1>2. r.reports + 1 \in Nat /\ <<>> \in Text /\ FALSE \in BOOLEAN /\ "none" \in Calls
    <2>1. r.reports \in Nat BY DEF LoaderSet
    <2>2. <<>> \in Text BY DEF Text
    <2> QED BY <2>1, <2>2 DEF Calls
  <1>3. e \in LoaderSet BY <1>1, <1>2 DEF LoaderSet
  <1>4. e.call = "none" /\ e.error = error /\ e.reports = r.reports + 1 BY <1>1 DEF LoaderSet
  <1>5. e.used = r.used /\ e.cancelled = r.cancelled /\ e.encoding = r.encoding
    BY <1>1, Zenon DEF LoaderSet
  <1>6. e.candidates = r.candidates /\ e.guessed = r.guessed /\ e.newline_type = r.newline_type
    BY <1>1 DEF LoaderSet
  <1>7. e.content = r.content /\ e.mtime = r.mtime /\ e.raced = r.raced
    <2>1. e.content = r.content /\ e.mtime = r.mtime BY <1>1 DEF LoaderSet
    <2>2. e.raced = r.raced BY <1>1, Zenon DEF LoaderSet
    <2> QED BY <2>1, <2>2
  <1> QED BY <1>3, <1>4, <1>5, <1>6, <1>7

\* A load that goes on.
LEMMA GoesOn ==
    ASSUME LoadInv, NEW l \in Loads, loader = l, file' = file,
           NEW r \in LoaderSet, Waiting(r), Calling(l, r), Tells(r),
           os' \in Streams, Sound(os'), AtWork(r, os')
    PROVE  LoadInv'
  <1>1. loaders' = [loaders EXCEPT ![l] = r] /\ loader' = loader /\ doc' = doc /\ metadata' = metadata
    BY DEF Calling
  <1>2. loader # 0 /\ loaders \in [Loads -> LoaderSet] BY LoadsAre DEF LoadInv, LoadTyped
  <1>3. loaders'[l] = r /\ \A k \in Loads : k # l => loaders'[k] = loaders[k] BY <1>1, <1>2
  <1>4. Waiting(loaders[l]) BY DEF LoadInv, InTurn, Waiting, Reported, NoLoader, NewLoader
  <1>5. LoadTyped'
    <2>1. loaders' \in [Loads -> LoaderSet] BY <1>1, <1>2
    <2> QED BY <1>1, <2>1 DEF LoadInv, LoadTyped
  <1>6. InTurn'
    <2>1. \A k \in Loads : loaders'[k].used = loaders[k].used BY <1>3, <1>4 DEF Waiting, LoaderSet
    <2>2. ASSUME NEW k \in Loads
          PROVE  IF ~loaders'[k].used THEN loaders'[k] = NoLoader /\ loader' # k
                 ELSE IF loader' = k THEN Waiting(loaders'[k]) ELSE Reported(loaders'[k])
      <3>1. CASE k = l BY <1>1, <1>3, <3>1 DEF Waiting
      <3>2. CASE k # l BY <1>1, <1>3, <3>2 DEF LoadInv, InTurn
      <3> QED BY <3>1, <3>2
    <2>3. \A j, k \in Loads : k < j /\ loaders'[j].used => loaders'[k].used
      BY <2>1 DEF LoadInv, InTurn
    <2>4. loader' # 0 => \A k \in Loads : k > loader' => ~loaders'[k].used
      BY <1>1, <2>1 DEF LoadInv, InTurn
    <2> QED BY <2>2, <2>3, <2>4 DEF InTurn
  <1>7. Working' BY <1>1, <1>2, <1>3 DEF Working
  <1>8. \A k \in Loads : \A errors : Done(k, errors)' <=> Done(k, errors)
    <2>1. ~(loaders[l].reports > 0) /\ ~(loaders'[l].reports > 0) BY <1>3, <1>4 DEF Waiting
    <2> QED BY <1>3, <2>1 DEF Done
  <1>9. \A k \in Loads : \A errors : Done(k, errors) => k # l
    BY <1>4 DEF Done, Waiting
  <1>10. Timely'
    <2>1. \A k \in Loads : Tells(loaders[k]) BY DEF LoadInv, Timely
    <2>2. \A k \in Loads : Tells(loaders[k])' BY <1>3, <2>1 DEF Tells, OfItsTime
    <2>3. \A k \in Loads : Shown(k)' => doc'.mtime = loaders'[k].mtime
      BY <1>1, <1>3, <1>8, <1>9 DEF LoadInv, Timely, Shown
    <2> QED BY <1>1, <2>2, <2>3 DEF LoadInv, Timely
  <1>11. LoadedIsDecoded' BY <1>1, <1>2 DEF LoadedIsDecoded, LastLoad
  <1>12. GoodFilesLoad' BY <1>3, <1>8, <1>9 DEF LoadInv, GoodFilesLoad
  <1> QED BY <1>5, <1>6, <1>7, <1>10, <1>11, <1>12 DEF LoadInv

\* What a load that succeeds has to be.
Shows(r, s) ==
    LET text == Converted(EncodingOf(r), r.content)
    IN  /\ EncodingOf(r) \in Encodings /\ Decodes(EncodingOf(r), r.content)
        /\ Close(Flush(s).os).text = WithoutEndingNewline(text)
        /\ r.newline_type = NewlineType(text)
Refuses(r, error) ==
    /\ error \in {"conversion", "invalid", "incomplete"} => ~Decodes(r.guessed, r.content)
    /\ error = "detection" => \A i \in DOMAIN r.candidates : ~Decodes(r.candidates[i], r.content)

LEMMA ClosedIs ==
    ASSUME NEW s \in Streams, Sound(s), NEW c, c = Close(Flush(s).os)
    PROVE  c \in Streams /\ Sound(c) /\ Idle(c)
  <1>1. PICK f \in Streams : f = Flush(s).os /\ Sound(f) BY FlushIs
  <1> QED BY <1>1, CloseIs DEF Idle

LEMMA IsLoaded ==
    ASSUME LoadInv, NEW l \in Loads, loader = l, file' = file,
           NEW r \in LoaderSet, Waiting(r), NEW error \in LoadErrors, NEW s \in Streams, Sound(s),
           Loaded(l, r, error, s), Refuses(r, error),
           error = "none" => Shows(r, s) /\ OfItsTime(r)
    PROVE  LoadInv'
  <1>1. PICK e : e = Ended(r, error) OBVIOUS
  <1>2. /\ e \in LoaderSet /\ e.call = "none" /\ e.error = error /\ e.reports = r.reports + 1
        /\ e.used = r.used /\ e.cancelled = r.cancelled /\ e.encoding = r.encoding
        /\ e.candidates = r.candidates /\ e.guessed = r.guessed /\ e.newline_type = r.newline_type
        /\ e.content = r.content /\ e.mtime = r.mtime /\ e.raced = r.raced
    BY <1>1, EndedIs
  <1>3. /\ loaders' = [loaders EXCEPT ![l] = e] /\ loader' = 0 /\ os' = Close(Flush(s).os)
        /\ error = "none" => doc' = TakenOver(r)
                             /\ metadata' = IF r.encoding \notin {NoEncoding, doc.encoding}
                                            THEN r.encoding ELSE metadata
        /\ error # "none" => doc' = doc /\ metadata' = metadata
    BY <1>1 DEF Loaded
  <1>4. loader # 0 /\ loaders \in [Loads -> LoaderSet] BY LoadsAre DEF LoadInv, LoadTyped
  <1>5. loaders'[l] = e /\ \A k \in Loads : k # l => loaders'[k] = loaders[k] BY <1>3, <1>4
  <1>6. Waiting(loaders[l]) BY DEF LoadInv, InTurn, Waiting, Reported, NoLoader, NewLoader
  <1>7. e.used /\ ~e.cancelled /\ e.reports = 1
    <2>1. r.used /\ ~r.cancelled /\ r.reports = 0 BY DEF Waiting
    <2> QED BY <1>2, <2>1
  <1>8. os' \in Streams /\ Sound(os') /\ Idle(os') BY <1>3, ClosedIs
  <1>9. doc \in [encoding : Encodings, newline_type : NewlineTypes, mtime : Nat] BY DEF LoadInv, LoadTyped
  <1>10. error = "none" => /\ doc' \in [encoding : Encodings, newline_type : NewlineTypes, mtime : Nat]
                           /\ doc'.encoding = EncodingOf(r) /\ doc'.mtime = r.mtime
                           /\ doc'.newline_type = r.newline_type
    <2> SUFFICES ASSUME error = "none" PROVE
                           /\ doc' \in [encoding : Encodings, newline_type : NewlineTypes, mtime : Nat]
                           /\ doc'.encoding = EncodingOf(r) /\ doc'.mtime = r.mtime
                           /\ doc'.newline_type = r.newline_type
      OBVIOUS
    <2>1. EncodingOf(r) \in Encodings BY DEF Shows
    <2>2. r.mtime \in Nat /\ r.newline_type \in NewlineTypes BY DEF LoaderSet
    <2> QED BY <1>3, <1>9, <2>1, <2>2 DEF TakenOver
  <1>11. LoadTyped'
    <2>1. loaders' \in [Loads -> LoaderSet] BY <1>2, <1>3, <1>4
    <2>2. doc' \in [encoding : Encodings, newline_type : NewlineTypes, mtime : Nat] BY <1>3, <1>9, <1>10
    <2>3. metadata' \in AnyEncoding
      <3>1. r.encoding \in AnyEncoding BY DEF LoaderSet
      <3>2. metadata \in AnyEncoding BY DEF LoadInv, LoadTyped
      <3> QED BY <1>3, <3>1, <3>2
    <2>4. file' \in [content : Contents, mtime : 1..(MaxReplaced + 1)] BY DEF LoadInv, LoadTyped
    <2>5. loader' \in Loads \union {0} BY <1>3
    <2> QED BY <1>8, <2>1, <2>2, <2>3, <2>4, <2>5 DEF LoadTyped
  <1>12. \A k \in Loads : loaders'[k].used = loaders[k].used BY <1>5, <1>6, <1>7 DEF Waiting, LoaderSet
  <1>13. InTurn'
    <2>1. ASSUME NEW k \in Loads
          PROVE  IF ~loaders'[k].used THEN loaders'[k] = NoLoader /\ loader' # k
                 ELSE IF loader' = k THEN Waiting(loaders'[k]) ELSE Reported(loaders'[k])
      <3>1. CASE k = l BY <1>2, <1>3, <1>5, <1>7, <3>1, LoadsAre DEF Reported
      <3>2. CASE k # l BY <1>3, <1>5, <3>2, LoadsAre DEF LoadInv, InTurn
      <3> QED BY <3>1, <3>2
    <2>2. \A j, k \in Loads : k < j /\ loaders'[j].used => loaders'[k].used
      BY <1>12 DEF LoadInv, InTurn
    <2> QED BY <1>3, <2>1, <2>2 DEF InTurn
  <1>14. Working' BY <1>3, <1>8 DEF Working
  <1>15. \A k \in Loads : ~loaders[k].used => ~(loaders[k].reports > 0)
    <2>1. NoLoader.reports = 0 BY DEF NoLoader, NewLoader
    <2> QED BY <2>1 DEF LoadInv, InTurn
  <1>16. /\ \A errors : Done(l, errors)' <=> error \in errors
         /\ \A errors : ~Done(l, errors)
         /\ \A k \in Loads : k # l => \A errors : Done(k, errors)' <=> Done(k, errors)
         /\ \A k \in Loads : k > l => \A errors : ~Done(k, errors)
    <2>1. ~(loaders[l].reports > 0) BY <1>6 DEF Waiting
    <2>2. \A k \in Loads : k > l => ~loaders[k].used BY <1>4 DEF LoadInv, InTurn
    <2>3. loaders'[l].reports > 0 /\ loaders'[l].error = error BY <1>2, <1>5, <1>7
    <2> QED BY <1>5, <1>15, <2>1, <2>2, <2>3 DEF Done
  <1>17. Timely'
    <2>1. doc'.mtime <= file'.mtime
      <3>1. doc.mtime <= file.mtime BY DEF LoadInv, Timely
      <3> QED BY <1>3, <1>10, <3>1 DEF OfItsTime
    <2>2. Tells(e)
      <3>1. e.error = "none" => OfItsTime(e) BY <1>2 DEF OfItsTime
      <3> QED BY <1>2, <3>1 DEF Tells
    <2>3. \A k \in Loads : Tells(loaders[k])' BY <1>5, <2>2 DEF LoadInv, Timely, Tells, OfItsTime
    <2>4. ASSUME NEW k \in Loads, Shown(k)' PROVE doc'.mtime = loaders'[k].mtime
      <3>1. CASE k = l
        <4>1. error = "none" BY <1>16, <2>4, <3>1 DEF Shown
        <4> QED BY <1>2, <1>5, <1>10, <3>1, <4>1
      <3>2. CASE k # l
        <4>1. Done(k, {"none"}) BY <1>16, <2>4, <3>2 DEF Shown
        <4>2. k < l BY <1>16, <3>2, <4>1, LoadsAre
        <4>3. error # "none" BY <1>16, <2>4, <4>2 DEF Shown
        <4>4. Shown(k) BY <1>16, <2>4, <3>2 DEF Shown
        <4> QED BY <1>3, <1>5, <3>2, <4>3, <4>4 DEF LoadInv, Timely
      <3> QED BY <3>1, <3>2
    <2> QED BY <2>1, <2>3, <2>4 DEF Timely
  <1>18. LoadedIsDecoded'
    <2> SUFFICES ASSUME NEW k \in Loads, LastLoad(k)', Done(k, {"none"})'
                 PROVE  LET text == Converted(doc'.encoding, loaders'[k].content)
                        IN  /\ Decodes(doc'.encoding, loaders'[k].content)
                            /\ os'.text = WithoutEndingNewline(text)
                            /\ doc'.newline_type = NewlineType(text)
                            /\ doc'.encoding = EncodingOf(loaders'[k])
      BY DEF LoadedIsDecoded
    <2>1. k = l
      <3>1. loaders[k].used /\ ~(l > k) BY <1>6, <1>12 DEF LastLoad, Waiting
      <3>2. ~(k > l) BY <1>4, <3>1 DEF LoadInv, InTurn
      <3> QED BY <3>1, <3>2, LoadsAre
    <2>2. error = "none" BY <1>16, <2>1
    <2>3. EncodingOf(e) = EncodingOf(r) BY <1>2 DEF EncodingOf
    <2> QED BY <1>2, <1>3, <1>5, <1>10, <2>1, <2>2, <2>3 DEF Shows
  <1>19. GoodFilesLoad'
    <2> SUFFICES ASSUME NEW k \in Loads
                 PROVE  /\ Done(k, {"conversion", "invalid", "incomplete"})' =>
                              ~Decodes(loaders'[k].guessed, loaders'[k].content)
                        /\ Done(k, {"detection"})' =>
                              \A i \in DOMAIN loaders'[k].candidates :
                                 ~Decodes(loaders'[k].candidates[i], loaders'[k].content)
      BY DEF GoodFilesLoad
    <2>1. CASE k = l BY <1>2, <1>5, <1>16, <2>1 DEF Refuses
    <2>2. CASE k # l BY <1>5, <1>16, <2>2 DEF LoadInv, GoodFilesLoad
    <2> QED BY <2>1, <2>2
  <1> QED BY <1>8, <1>11, <1>13, <1>14, <1>17, <1>18, <1>19 DEF LoadInv

-----------------------------------------------------------------------------
(***************************************************************************)
(* One action after another.                                               *)
(***************************************************************************)
LEMMA NewLoaderIs ==
    ASSUME NEW enc \in AnyEncoding, NEW r, r = NewLoader(enc)
    PROVE  /\ r \in LoaderSet /\ Waiting(r) /\ r.call = "read" /\ r.guessed = NoEncoding /\ r.reports = 0
  <1>1. <<>> \in Text /\ <<>> \in Seq(Encodings) /\ 0 \in Nat BY DEF Text
  <1>2. "read" \in Calls /\ "none" \in LoadErrors /\ "LF" \in NewlineTypes /\ NoEncoding \in AnyEncoding
    BY DEF Calls, LoadErrors, NewlineTypes, AnyEncoding
  <1>3. r \in LoaderSet BY <1>1, <1>2 DEF NewLoader, LoaderSet
  <1> QED BY <1>3 DEF NewLoader, Waiting

LEMMA InitiallySound == LoadInit => LoadInv
  <1> SUFFICES ASSUME LoadInit PROVE LoadInv OBVIOUS
  <1>1. \A l \in Loads : loaders[l] = NoLoader BY DEF LoadInit
  <1>2. /\ NoLoader \in LoaderSet /\ ~NoLoader.used /\ NoLoader.call = "none" /\ NoLoader.reports = 0
    <2>1. NoEncoding \in AnyEncoding BY DEF AnyEncoding
    <2>2. PICK r \in LoaderSet : r = NewLoader(NoEncoding) /\ r.reports = 0 BY <2>1, NewLoaderIs
    <2>3. NoLoader = [r EXCEPT !.call = "none", !.used = FALSE] BY <2>2 DEF NoLoader
    <2>4. "none" \in Calls /\ FALSE \in BOOLEAN BY DEF Calls
    <2> QED BY <2>2, <2>3, <2>4 DEF LoaderSet
  <1>3. os = NewOutputStream /\ NewOutputStream \in Streams /\ Sound(NewOutputStream)
    <2>1. <<>> \in Text BY DEF Text
    <2> QED BY <2>1, EmptyIsWf DEF LoadInit, NewOutputStream, Streams, Sound, Held
  <1>4. Idle(os) BY <1>3 DEF NewOutputStream, Idle
  <1>5. LoadTyped
    <2>1. 1 \in 1..(MaxReplaced + 1) BY LengthAssumption
    <2>2. file \in [content : Contents, mtime : 1..(MaxReplaced + 1)] BY <2>1 DEF LoadInit
    <2>3. doc \in [encoding : Encodings, newline_type : NewlineTypes, mtime : Nat]
      BY EncodingAssumption DEF LoadInit, NewDocument, NewlineTypes
    <2>4. loaders \in [Loads -> LoaderSet] BY <1>2 DEF LoadInit
    <2> QED BY <1>3, <2>2, <2>3, <2>4 DEF LoadInit, LoadTyped, AnyEncoding
  <1>6. \A l \in Loads : \A errors : ~Done(l, errors) BY <1>1, <1>2 DEF Done
  <1>7. InTurn BY <1>1, <1>2, LoadsAre DEF LoadInit, InTurn
  <1>8. Working BY <1>4 DEF LoadInit, Working
  <1>9. Timely
    <2>1. doc.mtime <= file.mtime BY DEF LoadInit, NewDocument
    <2>2. \A l \in Loads : Tells(loaders[l]) BY <1>1, <1>2 DEF Tells
    <2> QED BY <1>6, <2>1, <2>2 DEF Timely, Shown
  <1> QED BY <1>3, <1>5, <1>6, <1>7, <1>8, <1>9 DEF LoadInv, LoadedIsDecoded, GoodFilesLoad

LEMMA LoadKeeps == ASSUME LoadInv, NEW l \in Loads, Load(l) PROVE LoadInv'
  <1>1. loader = 0 /\ Fresh(l) /\ loader' = l /\ UNCHANGED <<file, os, doc, metadata>> BY DEF Load
  <1>2. PICK r : /\ loaders' = [loaders EXCEPT ![l] = r] /\ r \in LoaderSet /\ Waiting(r)
                 /\ r.call = "read" /\ r.guessed = NoEncoding /\ r.reports = 0
    BY NewLoaderIs DEF Load, AnyEncoding
  <1>3. loaders \in [Loads -> LoaderSet] /\ loader' # 0 BY <1>1, LoadsAre DEF LoadInv, LoadTyped
  <1>4. loaders'[l] = r /\ \A k \in Loads : k # l => loaders'[k] = loaders[k] BY <1>2, <1>3
  <1>5. ~loaders[l].used /\ (\A k \in Loads : k < l => loaders[k].used) BY <1>1 DEF Fresh
  <1>6. loaders[l].reports = 0 BY <1>5 DEF LoadInv, InTurn, NoLoader, NewLoader
  <1>7. LoadTyped'
    <2>1. loaders' \in [Loads -> LoaderSet] BY <1>2, <1>3
    <2> QED BY <1>1, <2>1 DEF LoadInv, LoadTyped
  <1>8. InTurn'
    <2>1. ASSUME NEW k \in Loads
          PROVE  IF ~loaders'[k].used THEN loaders'[k] = NoLoader /\ loader' # k
                 ELSE IF loader' = k THEN Waiting(loaders'[k]) ELSE Reported(loaders'[k])
      <3>1. CASE k = l BY <1>1, <1>2, <1>4, <3>1 DEF Waiting
      <3>2. CASE k # l BY <1>1, <1>4, <3>2, LoadsAre DEF LoadInv, InTurn
      <3> QED BY <3>1, <3>2
    <2>2. \A k \in Loads : k > l => ~loaders[k].used BY <1>5, LoadsAre DEF LoadInv, InTurn
    <2>3. ASSUME NEW j \in Loads, NEW k \in Loads, k < j, loaders'[j].used PROVE loaders'[k].used
      <3>1. k # l => loaders[k].used BY <1>4, <1>5, <2>3, LoadsAre DEF LoadInv, InTurn
      <3> QED BY <1>2, <1>4, <3>1 DEF Waiting
    <2>4. \A k \in Loads : k > loader' => ~loaders'[k].used BY <1>1, <1>4, <2>2, LoadsAre
    <2> QED BY <2>1, <2>3, <2>4 DEF InTurn
  <1>9. Working'
    <2>1. AtWork(r, os) BY <1>1, <1>2 DEF LoadInv, Working, AtWork, Idle
    <2> QED BY <1>1, <1>3, <1>4, <2>1 DEF Working
  <1>10. \A k \in Loads : \A errors : Done(k, errors)' <=> Done(k, errors)
    BY <1>2, <1>4, <1>6 DEF Done
  <1>11. \A k \in Loads : \A errors : Done(k, errors) => k # l BY <1>6 DEF Done
  <1>12. Timely'
    <2>1. Tells(r) BY <1>2 DEF Tells
    <2>2. \A k \in Loads : Tells(loaders[k])'
      BY <1>1, <1>4, <2>1 DEF LoadInv, Timely, Tells, OfItsTime
    <2>3. \A k \in Loads : Shown(k)' => doc'.mtime = loaders'[k].mtime
      BY <1>1, <1>4, <1>10, <1>11 DEF LoadInv, Timely, Shown
    <2> QED BY <1>1, <2>2, <2>3 DEF LoadInv, Timely
  <1>13. LoadedIsDecoded' BY <1>3 DEF LoadedIsDecoded, LastLoad
  <1>14. GoodFilesLoad' BY <1>4, <1>10, <1>11 DEF LoadInv, GoodFilesLoad
  <1> QED BY <1>1, <1>7, <1>8, <1>9, <1>12, <1>13, <1>14 DEF LoadInv

LEMMA CancelKeeps == ASSUME LoadInv, Cancel PROVE LoadInv'
  <1>1. PICK l \in Loads : l = loader BY DEF Cancel, LoadInv, LoadTyped
  <1>2. loaders \in [Loads -> LoaderSet] /\ loaders[l] \in LoaderSet BY <1>1 DEF LoadInv, LoadTyped
  <1>3. PICK r : r = loaders[l] /\ r \in LoaderSet /\ Waiting(r)
    BY <1>1, <1>2 DEF LoadInv, InTurn, Waiting, Reported, NoLoader, NewLoader
  <1>4. PICK c : c = [r EXCEPT !.cancelled = TRUE] OBVIOUS
  <1>5. c \in LoaderSet /\ c.used /\ c.cancelled /\ c.reports = 0 /\ c.call = r.call
    BY <1>3, <1>4 DEF LoaderSet, Waiting
  <1>6. PICK d : d = Ended(c, "cancelled") OBVIOUS
  <1>7. d \in LoaderSet /\ d.used /\ d.cancelled /\ d.reports = 1 /\ d.error = "cancelled"
    <2>1. "cancelled" \in LoadErrors BY DEF LoadErrors
    <2>2. d.used = c.used /\ d.cancelled = c.cancelled BY <1>5, <1>6, <2>1, EndedIs
    <2> QED BY <1>5, <1>6, <2>1, <2>2, EndedIs
  <1>8. PICK e : e = [d EXCEPT !.call = r.call, !.content = <<>>] OBVIOUS
  <1>9. e \in LoaderSet /\ e.used /\ e.cancelled /\ e.reports = 1 /\ e.error = "cancelled"
    <2>1. <<>> \in Text /\ r.call \in Calls BY <1>3 DEF Text, LoaderSet
    <2> QED BY <1>7, <1>8, <2>1 DEF LoaderSet
  <1>10. /\ loaders' = [loaders EXCEPT ![l] = e] /\ loader' = 0 /\ os' = Close(Flush(os).os)
         /\ UNCHANGED <<file, doc, metadata>>
    BY <1>1, <1>3, <1>4, <1>5, <1>6, <1>8 DEF Cancel
  <1>11. loaders'[l] = e /\ \A k \in Loads : k # l => loaders'[k] = loaders[k] BY <1>2, <1>10
  <1>12. os' \in Streams /\ Sound(os') /\ Idle(os') BY <1>10, ClosedIs DEF LoadInv, LoadTyped
  <1>13. LoadTyped'
    <2>1. loaders' \in [Loads -> LoaderSet] BY <1>2, <1>9, <1>10
    <2> QED BY <1>10, <1>12, <2>1 DEF LoadInv, LoadTyped
  <1>14. \A k \in Loads : loaders'[k].used = loaders[k].used BY <1>3, <1>9, <1>11 DEF Waiting, LoaderSet
  <1>15. InTurn'
    <2>1. ASSUME NEW k \in Loads
          PROVE  IF ~loaders'[k].used THEN loaders'[k] = NoLoader /\ loader' # k
                 ELSE IF loader' = k THEN Waiting(loaders'[k]) ELSE Reported(loaders'[k])
      <3>1. CASE k = l BY <1>9, <1>10, <1>11, <3>1, LoadsAre DEF Reported
      <3>2. CASE k # l BY <1>1, <1>10, <1>11, <3>2, LoadsAre DEF LoadInv, InTurn
      <3> QED BY <3>1, <3>2
    <2>2. \A j, k \in Loads : k < j /\ loaders'[j].used => loaders'[k].used
      BY <1>14 DEF LoadInv, InTurn
    <2> QED BY <1>10, <2>1, <2>2 DEF InTurn
  <1>16. Working' BY <1>10, <1>12 DEF Working
  <1>17. /\ \A errors : "cancelled" \notin errors => ~Done(l, errors)' /\ ~Done(l, errors)
         /\ \A k \in Loads : k # l => \A errors : Done(k, errors)' <=> Done(k, errors)
    BY <1>3, <1>9, <1>11 DEF Done, Waiting
  <1>18. Timely'
    <2>1. Tells(e) BY <1>9 DEF Tells
    <2>2. \A k \in Loads : Tells(loaders[k])'
      BY <1>10, <1>11, <2>1 DEF LoadInv, Timely, Tells, OfItsTime
    <2>3. "cancelled" \notin {"none"} OBVIOUS
    <2>4. \A k \in Loads : Shown(k)' => Shown(k) /\ k # l BY <1>17, <2>3 DEF Shown
    <2>5. \A k \in Loads : Shown(k)' => doc'.mtime = loaders'[k].mtime
      BY <1>10, <1>11, <2>4 DEF LoadInv, Timely
    <2> QED BY <1>10, <2>2, <2>5 DEF LoadInv, Timely
  <1>19. LoadedIsDecoded'
    <2> SUFFICES ASSUME NEW k \in Loads, LastLoad(k)', Done(k, {"none"})' PROVE FALSE
      BY DEF LoadedIsDecoded
    <2>1. loaders[l].used /\ loaders[k].used /\ ~(l > k) BY <1>3, <1>14 DEF LastLoad, Waiting
    <2>2. ~(k > l) BY <1>1, <2>1, LoadsAre DEF LoadInv, InTurn
    <2>3. k = l BY <2>1, <2>2, LoadsAre
    <2> QED BY <1>17, <2>3
  <1>20. GoodFilesLoad'
    <2>1. "cancelled" \notin {"conversion", "invalid", "incomplete"} /\ "cancelled" \notin {"detection"} OBVIOUS
    <2> QED BY <1>11, <1>17, <2>1 DEF LoadInv, GoodFilesLoad
  <1> QED BY <1>12, <1>13, <1>15, <1>16, <1>18, <1>19, <1>20 DEF LoadInv

LEMMA DropKeeps == ASSUME LoadInv, NEW l \in Loads, Drop(l) PROVE LoadInv'
  <1>1. loaders \in [Loads -> LoaderSet] BY DEF LoadInv, LoadTyped
  <1>2. PICK r \in LoaderSet : r = loaders[l] BY <1>1
  <1>3. PICK e : e = [r EXCEPT !.call = "none"] OBVIOUS
  <1>4. r.cancelled /\ r.call # "none" /\ loaders' = [loaders EXCEPT ![l] = e]
        /\ UNCHANGED <<file, loader, os, doc, metadata>>
    BY <1>2, <1>3 DEF Drop
  <1>5. loaders'[l] = e /\ \A k \in Loads : k # l => loaders'[k] = loaders[k] BY <1>1, <1>4
  <1>6. /\ e \in LoaderSet /\ e.call = "none" /\ e.reports = r.reports /\ e.error = r.error
        /\ e.mtime = r.mtime /\ e.content = r.content /\ e.guessed = r.guessed
        /\ e.candidates = r.candidates /\ e.encoding = r.encoding
    <2>1. "none" \in Calls BY DEF Calls
    <2> QED BY <1>2, <1>3, <2>1 DEF LoaderSet
  <1>7. e.used = r.used /\ e.cancelled = r.cancelled /\ e.raced = r.raced BY <1>2, <1>3 DEF LoaderSet
  <1>8. r.used /\ loader # l /\ Reported(r)
    <2>1. NoLoader.call = "none" BY DEF NoLoader, NewLoader
    <2> QED BY <1>2, <1>4, <2>1 DEF LoadInv, InTurn, Waiting
  <1>9. LoadTyped'
    <2>1. loaders' \in [Loads -> LoaderSet] BY <1>1, <1>4, <1>6
    <2> QED BY <1>4, <2>1 DEF LoadInv, LoadTyped
  <1>10. \A k \in Loads : loaders'[k].used = loaders[k].used BY <1>2, <1>5, <1>7
  <1>11. InTurn'
    <2>1. ASSUME NEW k \in Loads
          PROVE  IF ~loaders'[k].used THEN loaders'[k] = NoLoader /\ loader' # k
                 ELSE IF loader' = k THEN Waiting(loaders'[k]) ELSE Reported(loaders'[k])
      <3>1. CASE k = l BY <1>4, <1>5, <1>6, <1>7, <1>8, <3>1 DEF Reported
      <3>2. CASE k # l BY <1>4, <1>5, <3>2 DEF LoadInv, InTurn
      <3> QED BY <3>1, <3>2
    <2>2. \A j, k \in Loads : k < j /\ loaders'[j].used => loaders'[k].used
      BY <1>10 DEF LoadInv, InTurn
    <2>3. loader' # 0 => \A k \in Loads : k > loader' => ~loaders'[k].used
      BY <1>4, <1>10 DEF LoadInv, InTurn
    <2> QED BY <2>1, <2>2, <2>3 DEF InTurn
  <1>12. Working'
    <2>1. loader # 0 => loader \in Loads /\ loaders'[loader] = loaders[loader]
      BY <1>5, <1>8 DEF LoadInv, LoadTyped
    <2> QED BY <1>4, <2>1 DEF LoadInv, Working
  <1>13. \A k \in Loads : \A errors : Done(k, errors)' <=> Done(k, errors)
    BY <1>2, <1>5, <1>6 DEF Done
  <1>14. Timely'
    <2>1. Tells(r) BY <1>2 DEF LoadInv, Timely
    <2>2. Tells(e) BY <1>6, <1>7, <2>1 DEF Tells, OfItsTime
    <2>3. \A k \in Loads : Tells(loaders[k])'
      BY <1>4, <1>5, <2>2 DEF LoadInv, Timely, Tells, OfItsTime
    <2>4. \A k \in Loads : Shown(k)' => doc'.mtime = loaders'[k].mtime
      BY <1>2, <1>4, <1>5, <1>6, <1>13 DEF LoadInv, Timely, Shown
    <2> QED BY <1>4, <2>3, <2>4 DEF LoadInv, Timely
  <1>15. LoadedIsDecoded'
    <2>1. \A k \in Loads : LastLoad(k)' <=> LastLoad(k) BY <1>4, <1>10 DEF LastLoad
    <2>2. \A k \in Loads : /\ loaders'[k].content = loaders[k].content
                           /\ EncodingOf(loaders'[k]) = EncodingOf(loaders[k])
      BY <1>2, <1>5, <1>6 DEF EncodingOf
    <2> QED BY <1>4, <1>13, <2>1, <2>2 DEF LoadInv, LoadedIsDecoded
  <1>16. GoodFilesLoad' BY <1>2, <1>5, <1>6, <1>13 DEF LoadInv, GoodFilesLoad
  <1> QED BY <1>4, <1>9, <1>11, <1>12, <1>14, <1>15, <1>16 DEF LoadInv

LEMMA ReplaceKeeps == ASSUME LoadInv, Replace PROVE LoadInv'
  <1>1. loaders \in [Loads -> LoaderSet] BY DEF LoadInv, LoadTyped
  <1>2. UNCHANGED <<loader, os, doc, metadata>> BY DEF Replace
  <1>3. PICK m \in Nat : m = file.mtime /\ m <= MaxReplaced /\ 1 <= m
    BY LengthAssumption DEF LoadInv, LoadTyped, Replace
  <1>4. PICK content \in Contents : file' = [content |-> content, mtime |-> m + 1]
    BY <1>3, ContentAssumption DEF Replace
  <1>5. \A l \in Loads :
           /\ loaders'[l] = IF l \in Querying THEN [loaders[l] EXCEPT !.raced = TRUE] ELSE loaders[l]
           /\ loaders'[l] \in LoaderSet
    <2> SUFFICES ASSUME NEW l \in Loads
                 PROVE  /\ loaders'[l] = IF l \in Querying THEN [loaders[l] EXCEPT !.raced = TRUE] ELSE loaders[l]
                        /\ loaders'[l] \in LoaderSet
      OBVIOUS
    <2>1. loaders'[l] = IF l \in Querying THEN [loaders[l] EXCEPT !.raced = TRUE] ELSE loaders[l]
      BY DEF Replace
    <2>2. loaders[l] \in LoaderSet BY <1>1
    <2>3. [loaders[l] EXCEPT !.raced = TRUE] \in LoaderSet BY <2>2 DEF LoaderSet
    <2> QED BY <2>1, <2>2, <2>3
  <1>6. ASSUME NEW l \in Loads
        PROVE  /\ loaders'[l].call = loaders[l].call /\ loaders'[l].encoding = loaders[l].encoding
               /\ loaders'[l].candidates = loaders[l].candidates /\ loaders'[l].guessed = loaders[l].guessed
               /\ loaders'[l].newline_type = loaders[l].newline_type /\ loaders'[l].stream = loaders[l].stream
               /\ loaders'[l].content = loaders[l].content /\ loaders'[l].mtime = loaders[l].mtime
               /\ loaders'[l].error = loaders[l].error /\ loaders'[l].reports = loaders[l].reports
    <2>1. CASE l \in Querying BY <1>1, <1>5, <2>1 DEF LoaderSet
    <2>2. CASE l \notin Querying BY <1>5, <2>2
    <2> QED BY <2>1, <2>2
  <1>7. ASSUME NEW l \in Loads
        PROVE  /\ loaders'[l].used = loaders[l].used /\ loaders'[l].cancelled = loaders[l].cancelled
               /\ loaders'[l].tried_mount = loaders[l].tried_mount
    <2>1. CASE l \in Querying BY <1>1, <1>5, <2>1, Zenon DEF LoaderSet
    <2>2. CASE l \notin Querying BY <1>5, <2>2
    <2> QED BY <2>1, <2>2
  <1>8. \A l \in Loads : ~loaders[l].used => loaders'[l] = loaders[l]
    <2>1. NoLoader.call # "query" BY DEF NoLoader, NewLoader
    <2>2. \A l \in Loads : ~loaders[l].used => l \notin Querying
      BY <2>1 DEF LoadInv, InTurn, Querying, Running
    <2> QED BY <1>5, <2>2
  <1>9. LoadTyped'
    <2>1. loaders' \in [Loads -> LoaderSet]
      <3>1. DOMAIN loaders' = Loads /\ loaders' = [l \in Loads |-> loaders'[l]] BY DEF Replace
      <3> QED BY <1>5, <3>1
    <2>2. m + 1 \in 1..(MaxReplaced + 1) BY <1>3, LengthAssumption
    <2>3. file' \in [content : Contents, mtime : 1..(MaxReplaced + 1)] BY <1>4, <2>2
    <2> QED BY <1>2, <2>1, <2>3 DEF LoadInv, LoadTyped
  <1>10. InTurn'
    <2>1. ASSUME NEW k \in Loads
          PROVE  IF ~loaders'[k].used THEN loaders'[k] = NoLoader /\ loader' # k
                 ELSE IF loader' = k THEN Waiting(loaders'[k]) ELSE Reported(loaders'[k])
      BY <1>2, <1>6, <1>7, <1>8 DEF LoadInv, InTurn, Waiting, Reported
    <2>2. \A j, k \in Loads : k < j /\ loaders'[j].used => loaders'[k].used
      BY <1>7 DEF LoadInv, InTurn
    <2>3. loader' # 0 => \A k \in Loads : k > loader' => ~loaders'[k].used
      BY <1>2, <1>7 DEF LoadInv, InTurn
    <2> QED BY <2>1, <2>2, <2>3 DEF InTurn
  <1>11. Working'
    <2>1. CASE loader = 0 BY <1>2, <2>1 DEF LoadInv, Working
    <2>2. CASE loader # 0
      <3>1. loader \in Loads BY <2>2 DEF LoadInv, LoadTyped
      <3>2. PICK r : r = loaders[loader] OBVIOUS
      <3>3. PICK e : e = loaders'[loader] OBVIOUS
      <3>4. /\ e.call = r.call /\ e.encoding = r.encoding /\ e.candidates = r.candidates
            /\ e.guessed = r.guessed /\ e.newline_type = r.newline_type /\ e.stream = r.stream
            /\ e.content = r.content /\ e.error = r.error /\ e.tried_mount = r.tried_mount
        BY <1>6, <1>7, <3>1, <3>2, <3>3
      <3>5. AtWork(r, os) BY <2>2, <3>2 DEF LoadInv, Working
      <3>6. (Reads(r, os) => Reads(e, os)) /\ (Closes(r, os) => Closes(e, os))
        BY <3>4 DEF Reads, ReadSoFar, Closes, Chosen, Copied, Fits
      <3>7. AtWork(e, os) BY <3>4, <3>5, <3>6 DEF AtWork
      <3> QED BY <1>2, <2>2, <3>3, <3>7 DEF Working
    <2> QED BY <2>1, <2>2
  <1>12. \A k \in Loads : \A errors : Done(k, errors)' <=> Done(k, errors) BY <1>6 DEF Done
  <1>13. Timely'
    <2>1. doc.mtime \in Nat /\ doc.mtime <= m BY <1>3 DEF LoadInv, LoadTyped, Timely
    <2>2. file'.mtime = m + 1 /\ file'.content = content BY <1>4
    <2>3. doc'.mtime <= file'.mtime BY <1>2, <2>1, <2>2
    <2>4. ASSUME NEW l \in Loads PROVE Tells(loaders[l])'
      <3>1. Tells(loaders[l]) BY DEF LoadInv, Timely
      <3>2. loaders[l].mtime \in Nat BY <1>1 DEF LoaderSet
      <3>3. OfItsTime(loaders[l]) => OfItsTime(loaders[l])'
        BY <1>3, <1>6, <2>2, <3>2 DEF OfItsTime
      <3>4. loaders[l].call = "query" /\ ~loaders[l].cancelled => loaders'[l].raced
        <4> SUFFICES ASSUME loaders[l].call = "query", ~loaders[l].cancelled PROVE loaders'[l].raced OBVIOUS
        <4>1. l \in Querying BY DEF Querying, Running
        <4>2. loaders'[l] = [loaders[l] EXCEPT !.raced = TRUE] BY <1>5, <4>1
        <4> QED BY <1>1, <4>2 DEF LoaderSet
      <3> QED BY <1>6, <1>7, <3>1, <3>3, <3>4 DEF Tells
    <2>5. \A k \in Loads : Shown(k)' => doc'.mtime = loaders'[k].mtime
      BY <1>2, <1>6, <1>12 DEF LoadInv, Timely, Shown
    <2> QED BY <2>3, <2>4, <2>5 DEF Timely
  <1>14. LoadedIsDecoded'
    <2>1. \A k \in Loads : LastLoad(k)' <=> LastLoad(k) BY <1>2, <1>7 DEF LastLoad
    <2>2. \A k \in Loads : /\ loaders'[k].content = loaders[k].content
                           /\ EncodingOf(loaders'[k]) = EncodingOf(loaders[k])
      BY <1>6 DEF EncodingOf
    <2> QED BY <1>2, <1>12, <2>1, <2>2 DEF LoadInv, LoadedIsDecoded
  <1>15. GoodFilesLoad' BY <1>6, <1>12 DEF LoadInv, GoodFilesLoad
  <1> QED BY <1>2, <1>9, <1>10, <1>11, <1>13, <1>14, <1>15 DEF LoadInv

LEMMA FailsKeeps ==
    ASSUME LoadInv, NEW l \in Loads, loader = l, Waiting(loaders[l]), file' = file,
           NEW error \in {"not_found", "not_mounted", LoadIOError}, Fails(l, error)
    PROVE  LoadInv'
  <1>1. loaders[l] \in LoaderSet /\ os \in Streams /\ Sound(os) BY DEF LoadInv, LoadTyped
  <1>2. error \in LoadErrors /\ error # "none" /\ Refuses(loaders[l], error)
    BY DEF LoadErrors, LoadIOError, Refuses
  <1> QED BY <1>1, <1>2, IsLoaded DEF Fails

LEMMA OpenedKeeps == ASSUME LoadInv, NEW l \in Loads, Opened(l) PROVE LoadInv'
  <1>1. "read" \in Calls \ {"none"} /\ "query" \in Calls BY DEF Calls
  <1>2. /\ loader = l /\ Waiting(loaders[l]) /\ loaders[l] \in LoaderSet
        /\ loaders[l].call = "read" /\ AtWork(loaders[l], os)
    BY <1>1, HasTheTurn DEF Opened
  <1>3. PICK r : r = [loaders[l] EXCEPT !.call = "query", !.stream = file.content, !.content = file.content]
    OBVIOUS
  <1>4. file.content \in Contents /\ file.content \in Text /\ os \in Streams /\ Sound(os)
    BY ContentAssumption DEF LoadInv, LoadTyped, Text
  <1>5. r \in LoaderSet /\ r.call = "query" /\ r.stream = file.content /\ r.content = file.content
    BY <1>1, <1>2, <1>3, <1>4 DEF LoaderSet
  <1>6. r.guessed = loaders[l].guessed /\ r.reports = loaders[l].reports BY <1>2, <1>3 DEF LoaderSet
  <1>7. r.used = loaders[l].used /\ r.cancelled = loaders[l].cancelled BY <1>2, <1>3, Zenon DEF LoaderSet
  <1>8. Waiting(r) /\ Tells(r) BY <1>2, <1>5, <1>6, <1>7 DEF Waiting, Tells
  <1>9. Calling(l, r) /\ file' = file /\ os' = os BY <1>3 DEF Opened
  <1>10. AtWork(r, os') BY <1>2, <1>4, <1>5, <1>6, <1>9 DEF AtWork
  <1>11. os' \in Streams /\ Sound(os') BY <1>4, <1>9
  <1> QED BY <1>2, <1>5, <1>8, <1>9, <1>10, <1>11, GoesOn

LEMMA NotOpenedKeeps == ASSUME LoadInv, NEW l \in Loads, NotOpened(l) PROVE LoadInv'
  <1>1. "read" \in Calls \ {"none"} /\ "mount" \in Calls BY DEF Calls
  <1>2. /\ loader = l /\ Waiting(loaders[l]) /\ loaders[l] \in LoaderSet
        /\ loaders[l].call = "read" /\ AtWork(loaders[l], os) /\ file' = file
    BY <1>1, HasTheTurn DEF NotOpened
  <1>3. PICK error \in {"not_found", "not_mounted", LoadIOError} :
          IF error = "not_mounted" /\ ~loaders[l].tried_mount
          THEN Calling(l, [loaders[l] EXCEPT !.call = "mount", !.tried_mount = TRUE])
               /\ UNCHANGED os
          ELSE Fails(l, error)
    BY DEF NotOpened
  <1>4. CASE error = "not_mounted" /\ ~loaders[l].tried_mount
    <2>1. PICK r : r = [loaders[l] EXCEPT !.call = "mount", !.tried_mount = TRUE] OBVIOUS
    <2>2. r \in LoaderSet /\ r.call = "mount" /\ r.tried_mount BY <1>1, <1>2, <2>1 DEF LoaderSet
    <2>3. r.guessed = loaders[l].guessed /\ r.reports = loaders[l].reports BY <1>2, <2>1 DEF LoaderSet
    <2>4. r.used = loaders[l].used /\ r.cancelled = loaders[l].cancelled BY <1>2, <2>1, Zenon DEF LoaderSet
    <2>5. Waiting(r) /\ Tells(r) BY <1>2, <2>2, <2>3, <2>4 DEF Waiting, Tells
    <2>6. Calling(l, r) /\ os' = os BY <1>3, <1>4, <2>1
    <2>7. AtWork(r, os') BY <1>2, <2>2, <2>3, <2>6 DEF AtWork
    <2>8. os' \in Streams /\ Sound(os') BY <2>6 DEF LoadInv, LoadTyped
    <2> QED BY <1>2, <2>2, <2>5, <2>6, <2>7, <2>8, GoesOn
  <1>5. CASE ~(error = "not_mounted" /\ ~loaders[l].tried_mount)
    <2>1. Fails(l, error) BY <1>3, <1>5
    <2> QED BY <1>2, <2>1, FailsKeeps
  <1> QED BY <1>4, <1>5

LEMMA MountedKeeps == ASSUME LoadInv, NEW l \in Loads, Mounted(l) PROVE LoadInv'
  <1>1. "mount" \in Calls \ {"none"} /\ "read" \in Calls BY DEF Calls
  <1>2. /\ loader = l /\ Waiting(loaders[l]) /\ loaders[l] \in LoaderSet
        /\ loaders[l].call = "mount" /\ AtWork(loaders[l], os) /\ file' = file
    BY <1>1, HasTheTurn DEF Mounted
  <1>3. CASE Calling(l, [loaders[l] EXCEPT !.call = "read"]) /\ UNCHANGED os
    <2>1. PICK r : r = [loaders[l] EXCEPT !.call = "read"] OBVIOUS
    <2>2. r \in LoaderSet /\ r.call = "read" BY <1>1, <1>2, <2>1 DEF LoaderSet
    <2>3. r.guessed = loaders[l].guessed /\ r.reports = loaders[l].reports BY <1>2, <2>1 DEF LoaderSet
    <2>4. r.used = loaders[l].used /\ r.cancelled = loaders[l].cancelled BY <1>2, <2>1, Zenon DEF LoaderSet
    <2>5. Waiting(r) /\ Tells(r) BY <1>2, <2>2, <2>3, <2>4 DEF Waiting, Tells
    <2>6. Calling(l, r) /\ os' = os BY <1>3, <2>1
    <2>7. AtWork(r, os') BY <1>2, <2>2, <2>3, <2>6 DEF AtWork
    <2>8. os' \in Streams /\ Sound(os') BY <2>6 DEF LoadInv, LoadTyped
    <2> QED BY <1>2, <2>2, <2>5, <2>6, <2>7, <2>8, GoesOn
  <1>4. CASE Fails(l, LoadIOError) BY <1>2, <1>4, FailsKeeps
  <1> QED BY <1>3, <1>4 DEF Mounted

LEMMA QueryFailsKeeps == ASSUME LoadInv, NEW l \in Loads, QueryFails(l) PROVE LoadInv'
  <1>1. "query" \in Calls \ {"none"} BY DEF Calls
  <1>2. loader = l /\ Waiting(loaders[l]) BY <1>1, HasTheTurn DEF QueryFails
  <1> QED BY <1>2, FailsKeeps DEF QueryFails

LEMMA ChunkFailsKeeps == ASSUME LoadInv, NEW l \in Loads, ChunkFails(l) PROVE LoadInv'
  <1>1. "chunk" \in Calls \ {"none"} BY DEF Calls
  <1>2. loader = l /\ Waiting(loaders[l]) BY <1>1, HasTheTurn DEF ChunkFails
  <1> QED BY <1>2, FailsKeeps DEF ChunkFails

LEMMA QueriedKeeps == ASSUME LoadInv, NEW l \in Loads, Queried(l) PROVE LoadInv'
  <1>1. "query" \in Calls \ {"none"} /\ "chunk" \in Calls BY DEF Calls
  <1>2. /\ loader = l /\ Waiting(loaders[l]) /\ loaders[l] \in LoaderSet /\ Tells(loaders[l])
        /\ loaders[l].call = "query" /\ AtWork(loaders[l], os)
    BY <1>1, HasTheTurn DEF Queried
  <1>3. PICK b \in LoaderSet : b = loaders[l] BY <1>2
  <1>4. Candidates(b) \in Seq(Encodings) /\ (b.encoding # NoEncoding => Candidates(b) = <<b.encoding>>)
    <2>1. b.encoding \in AnyEncoding /\ metadata \in AnyEncoding BY DEF LoaderSet, LoadInv, LoadTyped
    <2>2. AutoDetected \in Seq(Encodings) BY EncodingAssumption
    <2>3. b.encoding # NoEncoding => <<b.encoding>> \in Seq(Encodings) BY <2>1 DEF AnyEncoding
    <2>4. metadata # NoEncoding => <<metadata>> \o AutoDetected \in Seq(Encodings)
      <3> SUFFICES ASSUME metadata # NoEncoding PROVE <<metadata>> \o AutoDetected \in Seq(Encodings) OBVIOUS
      <3>1. <<metadata>> \in Seq(Encodings) BY <2>1 DEF AnyEncoding
      <3> QED BY <2>2, <3>1, ConcatProperties
    <2> QED BY <2>2, <2>3, <2>4 DEF Candidates
  <1>5. PICK r : r = [b EXCEPT !.call = "chunk", !.mtime = file.mtime, !.candidates = Candidates(b)] OBVIOUS
  <1>6. file.mtime \in Nat BY LengthAssumption DEF LoadInv, LoadTyped
  <1>7. /\ r \in LoaderSet /\ r.call = "chunk" /\ r.mtime = file.mtime /\ r.candidates = Candidates(b)
    BY <1>1, <1>4, <1>5, <1>6 DEF LoaderSet
  <1>8. /\ r.guessed = b.guessed /\ r.reports = b.reports /\ r.stream = b.stream /\ r.content = b.content
        /\ r.encoding = b.encoding
    BY <1>5 DEF LoaderSet
  <1>9. r.used = b.used /\ r.cancelled = b.cancelled /\ r.raced = b.raced BY <1>5, Zenon DEF LoaderSet
  <1>10. Calling(l, r) /\ file' = file /\ os' = NewOutputStream BY <1>3, <1>5 DEF Queried
  <1>11. Waiting(r) BY <1>2, <1>3, <1>7, <1>8, <1>9 DEF Waiting
  <1>12. Tells(r)
    <2>1. OfItsTime(r) BY <1>2, <1>3, <1>6, <1>7, <1>8, <1>9 DEF Tells, OfItsTime, Waiting
    <2> QED BY <1>7, <2>1 DEF Tells
  <1>13. /\ NewOutputStream \in Streams /\ Sound(NewOutputStream) /\ ~NewOutputStream.is_closed
         /\ NewOutputStream.text = <<>> /\ NewOutputStream.buffer = <<>>
    <2>1. <<>> \in Text BY DEF Text
    <2> QED BY <2>1, EmptyIsWf DEF NewOutputStream, Streams, Sound, Held
  <1>14. PICK content \in Text : content = b.content BY DEF LoaderSet
  <1>15. b.stream = content /\ b.content \in Contents /\ b.guessed = NoEncoding BY <1>2, <1>3, <1>14 DEF AtWork
  <1>16. Reads(r, NewOutputStream)
    <2>1. Chosen(r) BY <1>4, <1>7, <1>8, <1>15 DEF Chosen
    <2>2. 0 \in 0..Len(content) /\ 0 = Len(content) - Len(content) BY <1>14 DEF Text
    <2>3. SubSeq(content, 1, 0) = <<>> /\ SubSeq(content, 0 + 1, Len(content)) = content
      <3>1. PICK k \in 0..Len(content) : k = 0 BY <2>2
      <3>2. PICK x \in Text, y \in Text :
              x = SubSeq(content, 1, k) /\ y = SubSeq(content, k + 1, Len(content))
        BY CutInTwo
      <3>3. Len(x) = k /\ x \o y = content BY <3>2, CutInTwo
      <3>4. x = <<>> BY <3>1, <3>3, EmptySeq DEF Text
      <3>5. y = content BY <3>3, <3>4, JoinNone
      <3> QED BY <3>1, <3>2, <3>4, <3>5
    <2>4. Copied(r, 0, NewOutputStream)
      <3>1. Whole(NewOutputStream) = <<>> BY <1>13, <1>14, JoinNone DEF Whole
      <3>2. SubSeq(r.content, 1, 0) = <<>> BY <1>8, <1>14, <2>3
      <3>3. Converted(r.guessed, SubSeq(r.content, 1, 0)) = <<>> BY <3>2, ConvertedNone
      <3>4. NewOutputStream.buffer \in {<<>>, <<CR>>} BY <1>13
      <3> QED BY <3>1, <3>3, <3>4 DEF Copied, Fits
    <2>5. ReadSoFar(r, NewOutputStream, 0) BY <1>8, <1>14, <1>15, <2>2, <2>3, <2>4 DEF ReadSoFar
    <2> QED BY <1>8, <1>13, <1>14, <2>1, <2>2, <2>5 DEF Reads
  <1>17. AtWork(r, os') BY <1>7, <1>8, <1>10, <1>15, <1>16 DEF AtWork
  <1> QED BY <1>2, <1>7, <1>10, <1>11, <1>12, <1>13, <1>17, GoesOn

-----------------------------------------------------------------------------
(***************************************************************************)
(* A piece of the file.                                                    *)
(***************************************************************************)
LEMMA CutOfCut ==
    ASSUME NEW s \in Text, NEW m \in Nat, NEW n \in Nat, m <= n, n <= Len(s),
           NEW i \in Nat, NEW j \in Nat, i <= j, j <= n - m
    PROVE  SubSeq(SubSeq(s, m + 1, n), i + 1, j) = SubSeq(s, (m + i) + 1, m + j)
  <1>1. PICK u \in Text : u = SubSeq(s, m + 1, n) BY CutIs
  <1>2. Len(u) = n - m /\ \A k \in 1..(n - m) : u[k] = s[m + k] BY <1>1, CutIs
  <1>3. PICK a \in Text : a = SubSeq(u, i + 1, j) BY <1>2, CutIs
  <1>4. Len(a) = j - i /\ \A k \in 1..(j - i) : a[k] = u[i + k] BY <1>2, <1>3, CutIs
  <1>5. PICK p \in Nat, q \in Nat : p = m + i /\ q = m + j /\ p <= q /\ q - p = j - i OBVIOUS
  <1>6. Len(s) \in Nat /\ q <= Len(s) BY <1>5 DEF Text
  <1>7. PICK b \in Text : b = SubSeq(s, p + 1, q) BY <1>5, <1>6, CutIs
  <1>8. Len(b) = q - p /\ \A k \in 1..(q - p) : b[k] = s[p + k] BY <1>5, <1>6, <1>7, CutIs
  <1>9. \A k \in 1..(j - i) : a[k] = b[k]
    <2> SUFFICES ASSUME NEW k \in 1..(j - i) PROVE a[k] = b[k] OBVIOUS
    <2>1. PICK h \in 1..(n - m) : h = i + k OBVIOUS
    <2>2. p + k = m + h BY <1>5, <2>1
    <2> QED BY <1>2, <1>4, <1>5, <1>8, <2>1, <2>2
  <1>10. a = b BY <1>4, <1>5, <1>8, <1>9, SameText
  <1> QED BY <1>1, <1>3, <1>5, <1>7, <1>10

LEMMA CopiedMore ==
    ASSUME NEW s \in Streams, Sound(s), ~s.is_closed, NEW g, NEW c \in Text,
           NEW m \in Nat, NEW n \in Nat, m <= n, n <= Len(c), Fits(s, g, c, m),
           NEW w, w = Write(s, Converted(g, SubSeq(c, m + 1, n)))
    PROVE  /\ w.os \in Streams /\ Sound(w.os) /\ w.os.is_initialized /\ ~w.os.is_closed
           /\ w.valid => Fits(w.os, g, c, n)
           /\ ~w.valid => ~Decodes(g, c)
  <1>0. Whole(s) = Converted(g, SubSeq(c, 1, m)) /\ (g # UTF8 => s.buffer \in {<<>>, <<CR>>})
    BY DEF Fits
  <1>1. Len(c) \in Nat /\ m \in 0..Len(c) /\ n \in 0..Len(c) BY DEF Text
  <1>2. PICK a \in Text, b \in Text, d \in Text, e \in Text :
          a = SubSeq(c, 1, m) /\ b = SubSeq(c, m + 1, n) /\ d = SubSeq(c, 1, n) /\ e = SubSeq(c, n + 1, Len(c))
    BY <1>1, CutInTwo, CutIs
  <1>3. d = a \o b /\ d \o e = c
    <2>1. SubSeq(c, 1, n) = SubSeq(c, 1, m) \o SubSeq(c, m + 1, n) BY CutLonger
    <2>2. SubSeq(c, 1, n) \o SubSeq(c, n + 1, Len(c)) = c BY <1>1, CutInTwo
    <2> QED BY <1>2, <2>1, <2>2
  <1>4. PICK p \in Text : p = Converted(g, b) BY ConvertedType
  <1>5. /\ w.os \in Streams /\ Sound(w.os) /\ w.os.is_initialized /\ ~w.os.is_closed
        /\ w.valid => Whole(w.os) = Whole(s) \o p
        /\ Wf(s.buffer \o p) => w.valid /\ w.os.buffer \in {<<>>, <<CR>>}
        /\ ~w.valid => Hopeless(Whole(s) \o p)
    BY <1>2, <1>4, WriteIs
  <1>6. Whole(s) \o p = Converted(g, d)
    <2>1. Converted(g, a \o b) = Converted(g, a) \o Converted(g, b) BY ConvertedJoin
    <2> QED BY <1>0, <1>2, <1>3, <1>4, <2>1
  <1>7. CASE g = UTF8
    <2>1. Converted(g, d) = d BY <1>7 DEF Converted
    <2>2. Hopeless(d) => ~Wf(c) BY <1>3 DEF Hopeless
    <2>3. Decodes(g, c) => Wf(c) BY <1>7, ValidLengthIs DEF Decodes
    <2> QED BY <1>2, <1>5, <1>6, <1>7, <2>1, <2>2, <2>3 DEF Fits
  <1>8. CASE g # UTF8
    <2>1. Wf(p) BY <1>4, <1>8, ConvertedWf
    <2>2. s.buffer \in Text /\ Wf(s.buffer)
      <3>1. <<CR>> \in Text /\ Wf(<<CR>>)
        <4>1. CR \in Bytes /\ CR \notin Lead \union Trail BY BytesAre
        <4>2. PICK u \in Text : u = <<CR>> /\ Len(u) = 1 /\ u[1] = CR BY <4>1, PairIs
        <4>3. \A i \in 1..1 : i = 1 OBVIOUS
        <4>4. Wf(u) BY <4>1, <4>2, <4>3 DEF Wf, Utf8Prefix
        <4> QED BY <4>2, <4>4
      <3>2. <<>> \in Text BY DEF Text
      <3> QED BY <1>0, <1>8, <3>1, <3>2, EmptyIsWf
    <2>3. Wf(s.buffer \o p) BY <2>1, <2>2, WfJoin
    <2> QED BY <1>2, <1>5, <1>6, <2>3 DEF Fits
  <1> QED BY <1>7, <1>8

\* The first line ends in one of the three ways.
LEMMA NewlineTypeIs == ASSUME NEW text \in Text PROVE NewlineType(text) \in NewlineTypes
  <1>1. PICK len \in Nat : len = Len(text) BY DEF Text
  <1> DEFINE T == {j \in 0..len : EndsLine(text, j)}
             e == LineEnd(text, 0)
  <1>2. T \in SUBSET Nat /\ len \in T BY <1>1 DEF EndsLine
  <1>3. e = Min(T) BY <1>1 DEF LineEnd
  <1>4. Min(T) \in T
    <2> HIDE DEF T
    <2> QED BY <1>2, MinIsLeast
  <1>5. e \in 0..len /\ EndsLine(text, e) BY <1>3, <1>4
  <1> HIDE DEF T, e
  <1>6. CASE e = len BY <1>1, <1>6 DEF NewlineType, NewlineTypes, e
  <1>7. CASE e # len
    <2>1. e \in Nat /\ e + 1 \in 1..len /\ text[e + 1] \in {CR, LF} BY <1>1, <1>5, <1>7 DEF EndsLine
    <2>2. PICK next : next = NextLine(text, e) OBVIOUS
    <2>3. \E type \in NewlineTypes : Newline(type) = SubSeq(text, e + 1, next)
      <3>1. CASE text[e + 1] = CR /\ e + 1 < len /\ text[e + 2] = LF
        <4>1. next = e + 2 BY <1>1, <1>7, <2>2, <3>1 DEF NextLine
        <4>2. PICK n \in Nat : n = e + 2 /\ e <= n /\ n <= len /\ n - e = 2 BY <2>1, <3>1
        <4>3. PICK u \in Text : u = SubSeq(text, e + 1, n) BY <1>1, <2>1, <4>2, CutIs
        <4>4. Len(u) = n - e /\ \A i \in 1..(n - e) : u[i] = text[e + i] BY <1>1, <2>1, <4>2, <4>3, CutIs
        <4>5. Len(u) = 2 /\ u[1] = CR /\ u[2] = LF BY <3>1, <4>2, <4>4
        <4>6. PICK v \in Text : v = <<CR, LF>> /\ Len(v) = 2 /\ v[1] = CR /\ v[2] = LF
          <5>1. PICK x \in Bytes, y \in Bytes : x = CR /\ y = LF BY BytesAre
          <5>2. <<x, y>> \in Text /\ Len(<<x, y>>) = 2 /\ <<x, y>>[1] = x /\ <<x, y>>[2] = y
            BY PairIs
          <5> QED BY <5>1, <5>2
        <4>7. \A i \in 1..2 : i = 1 \/ i = 2 OBVIOUS
        <4>8. u = v
          <5>1. Len(u) = Len(v) /\ \A i \in 1..Len(u) : u[i] = v[i] BY <4>5, <4>6, <4>7
          <5> QED BY <5>1, SameText
        <4>9. Newline("CR_LF") = <<CR, LF>> /\ "CR_LF" \in NewlineTypes BY DEF Newline, NewlineTypes
        <4> QED BY <4>1, <4>2, <4>3, <4>6, <4>8, <4>9
      <3>2. CASE ~(text[e + 1] = CR /\ e + 1 < len /\ text[e + 2] = LF)
        <4>1. next = e + 1 BY <1>1, <1>7, <2>2, <3>2 DEF NextLine
        <4>2. PICK n \in Nat : n = e + 1 /\ e <= n /\ n <= len /\ n - e = 1 BY <2>1
        <4>3. PICK u \in Text : u = SubSeq(text, e + 1, n) BY <1>1, <2>1, <4>2, CutIs
        <4>4. Len(u) = n - e /\ \A i \in 1..(n - e) : u[i] = text[e + i] BY <1>1, <2>1, <4>2, <4>3, CutIs
        <4>5. Len(u) = 1 /\ u[1] = text[e + 1] BY <4>2, <4>4
        <4>6. PICK v \in Text : v = <<text[e + 1]>> /\ Len(v) = 1 /\ v[1] = text[e + 1]
          BY <2>1, BytesAre, PairIs
        <4>7. \A i \in 1..1 : i = 1 OBVIOUS
        <4>8. u = v
          <5>1. Len(u) = Len(v) /\ \A i \in 1..Len(u) : u[i] = v[i] BY <4>5, <4>6, <4>7
          <5> QED BY <5>1, SameText
        <4>9. /\ Newline("CR") = <<CR>> /\ "CR" \in NewlineTypes
              /\ Newline("LF") = <<LF>> /\ "LF" \in NewlineTypes
          BY DEF Newline, NewlineTypes
        <4>10. Newline("CR") = v \/ Newline("LF") = v BY <2>1, <4>6, <4>9
        <4> QED BY <4>1, <4>2, <4>3, <4>8, <4>9, <4>10
      <3> QED BY <3>1, <3>2
    <2>4. NewlineType(text) = CHOOSE type \in NewlineTypes : Newline(type) = SubSeq(text, e + 1, next)
      BY <1>1, <1>7, <2>2 DEF NewlineType, e
    <2> QED BY <2>3, <2>4, Zenon
  <1> QED BY <1>6, <1>7

LEMMA GuessedIs ==
    ASSUME NEW r \in LoaderSet, NEW block \in Text, NEW b, b = Guess(r, block)
    PROVE  /\ b \in LoaderSet
           /\ r.guessed # NoEncoding => b.guessed = r.guessed
           /\ r.guessed = NoEncoding => b.guessed = GuessEncoding(r.candidates, block)
           /\ b.call = r.call /\ b.used = r.used /\ b.cancelled = r.cancelled /\ b.encoding = r.encoding
           /\ b.candidates = r.candidates /\ b.stream = r.stream /\ b.content = r.content
           /\ b.mtime = r.mtime /\ b.raced = r.raced /\ b.reports = r.reports
           /\ b.tried_mount = r.tried_mount
  <1>1. CASE r.guessed # NoEncoding BY <1>1 DEF Guess
  <1>2. CASE r.guessed = NoEncoding
    <2>1. r.candidates \in Seq(Encodings) BY DEF LoaderSet
    <2>2. PICK g \in AnyEncoding : g = GuessEncoding(r.candidates, block) BY <2>1, GuessIs
    <2>3. b = [r EXCEPT !.guessed = g] BY <1>2, <2>2 DEF Guess
    <2>4. b \in LoaderSet /\ b.guessed = g BY <2>2, <2>3 DEF LoaderSet
    <2>5. /\ b.call = r.call /\ b.encoding = r.encoding /\ b.candidates = r.candidates
          /\ b.stream = r.stream /\ b.content = r.content /\ b.mtime = r.mtime /\ b.reports = r.reports
      BY <2>3 DEF LoaderSet
    <2>6. b.used = r.used /\ b.cancelled = r.cancelled /\ b.raced = r.raced /\ b.tried_mount = r.tried_mount
      BY <2>3, Zenon DEF LoaderSet
    <2> QED BY <1>2, <2>2, <2>4, <2>5, <2>6
  <1> QED BY <1>1, <1>2

LEMMA ChunkKeeps == ASSUME LoadInv, NEW l \in Loads, Chunk(l) PROVE LoadInv'
  <1>1. "chunk" \in Calls \ {"none"} BY DEF Calls
  <1>2. /\ loader = l /\ Waiting(loaders[l]) /\ loaders[l] \in LoaderSet /\ Tells(loaders[l])
        /\ loaders[l].call = "chunk" /\ AtWork(loaders[l], os)
    BY <1>1, HasTheTurn DEF Chunk
  <1>3. PICK r \in LoaderSet : r = loaders[l] BY <1>2
  <1>4. PICK c \in Text, st \in Text : c = r.content /\ st = r.stream BY DEF LoaderSet
  <1>5. c \in Contents /\ Chosen(r) /\ ~os.is_closed /\ os \in Streams /\ Sound(os)
    BY <1>2, <1>3, <1>4 DEF AtWork, Reads, LoadInv, LoadTyped
  <1>6. PICK m \in 0..Len(c) : ReadSoFar(r, os, m) BY <1>2, <1>3, <1>4 DEF AtWork, Reads
  <1>7. PICK len \in Nat : len = Len(c) /\ m \in Nat /\ m \in 0..len BY DEF Text
  <1>8. m = len - Len(st) /\ st = SubSeq(c, m + 1, len) BY <1>4, <1>6, <1>7 DEF ReadSoFar
  <1>9. Len(st) = len - m BY <1>7, <1>8, CutInTwo
  <1>10. PICK n \in 1..Min({ReadChunkSize, Len(st)}) :
            LET block   == SubSeq(st, 1, n)
                loading == Guess(r, block)
                taken   == Convertible(loading.guessed, block)
                piece   == SubSeq(block, 1, taken)
                wrote == Write(os, Converted(loading.guessed, piece))
            IN  IF loading.guessed = NoEncoding THEN Loaded(l, loading, "detection", os)
                ELSE IF taken = 0 THEN Loaded(l, loading, "conversion", os)
                ELSE IF ~wrote.valid THEN Loaded(l, loading, "invalid", wrote.os)
                ELSE /\ Calling(l, [loading EXCEPT !.stream = SubSeq(@, taken + 1, Len(@))])
                     /\ os' = wrote.os
    BY <1>3, <1>4 DEF Chunk
  <1>11. file' = file BY DEF Chunk
  <1>12. n \in Nat /\ 1 <= n /\ n <= len - m
    <2>1. {ReadChunkSize, Len(st)} \in SUBSET Nat BY <1>7, <1>9, LengthAssumption
    <2>2. PICK h \in Nat : h = Min({ReadChunkSize, Len(st)}) /\ h <= Len(st) BY <2>1, MinIsLeast
    <2> QED BY <1>9, <2>2
  <1>13. PICK block \in Text : block = SubSeq(st, 1, n) /\ Len(block) = n /\ block # <<>>
    <2>1. n \in 0..Len(st) BY <1>9, <1>12
    <2>2. SubSeq(st, 1, n) \in Text /\ Len(SubSeq(st, 1, n)) = n BY <2>1, CutInTwo
    <2>3. Len(<<>>) = 0 /\ n # 0 BY <1>12
    <2> QED BY <2>2, <2>3
  <1>14. \A i \in 1..n : block[i] = c[m + i]
    <2>1. n \in 0..Len(st) /\ \A i \in 1..n : i \in 1..(len - m) BY <1>9, <1>12
    <2>2. \A i \in 1..n : block[i] = st[i] BY <1>13, <2>1, CutInTwo
    <2>3. \A i \in 1..(Len(c) - m) : SubSeq(c, m + 1, Len(c))[i] = c[m + i] BY <1>6, CutInTwo
    <2>4. \A i \in 1..(len - m) : st[i] = c[m + i] BY <1>7, <1>8, <2>3
    <2> QED BY <2>1, <2>2, <2>4
  <1>15. PICK b : b = Guess(r, block) OBVIOUS
  <1>16. /\ b \in LoaderSet
         /\ r.guessed # NoEncoding => b.guessed = r.guessed
         /\ r.guessed = NoEncoding => b.guessed = GuessEncoding(r.candidates, block)
         /\ b.call = r.call /\ b.used = r.used /\ b.cancelled = r.cancelled /\ b.encoding = r.encoding
         /\ b.candidates = r.candidates /\ b.stream = r.stream /\ b.content = r.content
         /\ b.mtime = r.mtime /\ b.raced = r.raced /\ b.reports = r.reports
    BY <1>15, GuessedIs
  <1>17. Waiting(b) /\ Chosen(b)
    <2>1. Waiting(b) BY <1>2, <1>3, <1>16 DEF Waiting
    <2>2. Chosen(b)
      <3>1. r.candidates \in Seq(Encodings) /\ r.encoding \in AnyEncoding BY DEF LoaderSet
      <3>2. r.encoding # NoEncoding => r.encoding \in Encodings BY <3>1 DEF AnyEncoding
      <3>3. r.encoding # NoEncoding /\ r.candidates = <<r.encoding>>
               => GuessEncoding(r.candidates, block) = r.encoding
        <4>1. PICK y \in Seq(Encodings), x \in AnyEncoding : y = r.candidates /\ x = r.encoding BY <3>1
        <4>2. \A e \in Encodings : block # <<>> /\ y = <<e>> => GuessEncoding(y, block) = e BY GuessIs
        <4> QED BY <1>13, <3>2, <4>1, <4>2
      <3> QED BY <1>5, <1>16, <3>3 DEF Chosen
    <2> QED BY <2>1, <2>2
  <1>18. PICK g : g = b.guessed OBVIOUS
  <1>19. /\ Whole(os) = Converted(g, SubSeq(c, 1, m))
         /\ g # UTF8 => /\ \A i \in 1..m : Decodable(g, c[i])
                        /\ os.buffer \in {<<>>, <<CR>>}
    <2>1. CASE m = 0
      <3>1. os.text = <<>> /\ os.buffer = <<>>
        <4>1. os = NewOutputStream BY <1>6, <2>1 DEF ReadSoFar
        <4>2. NewOutputStream.text = <<>> /\ NewOutputStream.buffer = <<>> BY DEF NewOutputStream
        <4> QED BY <4>1, <4>2
      <3>2. Whole(os) = <<>> BY <1>4, <3>1, JoinNone DEF Whole
      <3>3. SubSeq(c, 1, m) = <<>>
        <4>1. PICK x \in Text : x = SubSeq(c, 1, m) /\ Len(x) = m BY <1>6, CutInTwo
        <4> QED BY <2>1, <4>1, EmptySeq DEF Text
      <3>4. \A i \in 1..m : FALSE BY <2>1
      <3> QED BY <3>1, <3>2, <3>3, <3>4, ConvertedNone
    <2>2. CASE m # 0 BY <1>4, <1>6, <1>16, <1>18, <2>2 DEF ReadSoFar, Copied, Fits
    <2> QED BY <2>1, <2>2
  <1>20. PICK taken : taken = Convertible(g, block) OBVIOUS
  <1>21. /\ taken \in 0..n /\ (g = UTF8 => taken = n)
         /\ g # UTF8 => \A i \in 1..taken : Decodable(g, block[i])
         /\ g # UTF8 /\ taken < n => ~Decodable(g, block[taken + 1])
    BY <1>13, <1>20, ConvertibleIs
  <1>22. PICK k \in Nat : k = m + taken /\ m <= k /\ k <= len BY <1>12, <1>21
  <1>23. PICK w : w = Write(os, Converted(g, SubSeq(c, m + 1, k))) OBVIOUS
  <1>24. IF g = NoEncoding THEN Loaded(l, b, "detection", os)
         ELSE IF taken = 0 THEN Loaded(l, b, "conversion", os)
         ELSE IF ~w.valid THEN Loaded(l, b, "invalid", w.os)
         ELSE /\ Calling(l, [b EXCEPT !.stream = SubSeq(@, taken + 1, Len(@))])
              /\ os' = w.os
    <2>1. SubSeq(block, 1, taken) = SubSeq(c, m + 1, k)
      <3>1. PICK p \in Text : p = SubSeq(block, 1, taken) /\ Len(p) = taken
                              /\ \A i \in 1..taken : p[i] = block[i]
        <4>1. taken \in 0..Len(block) BY <1>13, <1>21
        <4> QED BY <4>1, CutInTwo
      <3>2. PICK q \in Text : q = SubSeq(c, m + 1, k) BY <1>7, <1>22, CutIs
      <3>3. Len(q) = k - m /\ \A i \in 1..(k - m) : q[i] = c[m + i] BY <1>7, <1>22, <3>2, CutIs
      <3>4. k - m = taken /\ \A i \in 1..taken : i \in 1..n BY <1>7, <1>12, <1>21, <1>22
      <3>5. Len(p) = Len(q) /\ \A i \in 1..Len(p) : p[i] = q[i] BY <1>14, <3>1, <3>3, <3>4
      <3>6. p = q BY <3>5, SameText
      <3> QED BY <3>1, <3>2, <3>6
    <2> QED BY <1>10, <1>13, <1>15, <1>18, <1>20, <1>23, <2>1
  <1>25. /\ w.os \in Streams /\ Sound(w.os) /\ w.os.is_initialized /\ ~w.os.is_closed
         /\ w.valid => Fits(w.os, g, c, k)
         /\ ~w.valid => ~Decodes(g, c)
    <2>1. k \in Nat /\ m <= k /\ k <= Len(c) /\ m \in Nat BY <1>7, <1>22
    <2>2. Fits(os, g, c, m) BY <1>19 DEF Fits
    <2> QED BY <1>5, <1>23, <2>1, <2>2, CopiedMore
  <1>26. {"detection", "conversion", "invalid"} \subseteq LoadErrors \ {"none"} BY DEF LoadErrors
  <1>27. CASE g = NoEncoding
    <2>1. r.guessed = NoEncoding /\ m = 0 BY <1>6, <1>16, <1>18, <1>27 DEF ReadSoFar
    <2>2. PICK x \in Text : x = SubSeq(c, 1, n) /\ x = block
      <3>1. n \in 0..Len(c) BY <1>7, <1>12
      <3>2. PICK x \in Text : x = SubSeq(c, 1, n) /\ Len(x) = n /\ \A i \in 1..n : x[i] = c[i]
        BY <3>1, CutInTwo
      <3>3. \A i \in 1..n : m + i = i BY <2>1
      <3>4. Len(x) = Len(block) /\ \A i \in 1..Len(x) : x[i] = block[i] BY <1>13, <1>14, <3>2, <3>3
      <3>5. x = block BY <3>4, SameText
      <3> QED BY <3>2, <3>5
    <2>3. r.candidates \in Seq(Encodings) /\ DOMAIN r.candidates = 1..Len(r.candidates) BY DEF LoaderSet
    <2>4. \A i \in DOMAIN r.candidates : ~Accepts(r.candidates[i], block)
      <3>1. PICK y \in Seq(Encodings) : y = r.candidates BY <2>3
      <3>2. GuessEncoding(y, block) = NoEncoding BY <1>16, <1>18, <1>27, <2>1, <3>1
      <3>3. GuessEncoding(y, block) = NoEncoding => \A i \in DOMAIN y : ~Accepts(y[i], block)
        BY <1>13, GuessIs
      <3> QED BY <3>1, <3>2, <3>3
    <2>5. \A i \in DOMAIN r.candidates : ~Decodes(r.candidates[i], c)
      <3> SUFFICES ASSUME NEW i \in DOMAIN r.candidates, Decodes(r.candidates[i], c) PROVE FALSE OBVIOUS
      <3>1. PICK enc \in Encodings : enc = r.candidates[i] BY <2>3, ElementOfSeq
      <3>2. n \in 1..Len(c) BY <1>7, <1>12
      <3>3. Accepts(enc, SubSeq(c, 1, n)) BY <3>1, <3>2, GoodIsAccepted
      <3> QED BY <2>2, <2>4, <3>1, <3>3
    <2>6. Refuses(b, "detection") BY <1>4, <1>16, <2>5 DEF Refuses
    <2>7. Loaded(l, b, "detection", os) BY <1>24, <1>27
    <2> QED BY <1>2, <1>5, <1>11, <1>16, <1>17, <1>26, <2>6, <2>7, IsLoaded
  <1>28. CASE g # NoEncoding /\ taken = 0
    <2>1. g # UTF8 /\ ~Decodable(g, block[taken + 1]) BY <1>12, <1>21, <1>28
    <2>2. ~Decodable(g, c[m + 1])
      <3>1. taken + 1 = 1 /\ 1 \in 1..n BY <1>12, <1>28
      <3> QED BY <1>14, <2>1, <3>1
    <2>3. m + 1 \in DOMAIN c
      <3>1. DOMAIN c = 1..len BY <1>7 DEF Text
      <3> QED BY <1>7, <1>12, <3>1
    <2>4. ~Decodes(g, c) BY <2>1, <2>2, <2>3 DEF Decodes
    <2>5. Refuses(b, "conversion") BY <1>4, <1>16, <1>18, <2>4 DEF Refuses
    <2>6. Loaded(l, b, "conversion", os) BY <1>24, <1>28
    <2> QED BY <1>2, <1>5, <1>11, <1>16, <1>17, <1>26, <2>5, <2>6, IsLoaded
  <1>29. CASE g # NoEncoding /\ taken # 0 /\ ~w.valid
    <2>1. Refuses(b, "invalid") BY <1>4, <1>16, <1>18, <1>25, <1>29 DEF Refuses
    <2>2. Loaded(l, b, "invalid", w.os) BY <1>24, <1>29
    <2> QED BY <1>2, <1>11, <1>16, <1>17, <1>25, <1>26, <2>1, <2>2, IsLoaded
  <1>30. CASE g # NoEncoding /\ taken # 0 /\ w.valid
    <2>1. PICK e : e = [b EXCEPT !.stream = SubSeq(b.stream, taken + 1, Len(b.stream))] OBVIOUS
    <2>2. Calling(l, e) /\ os' = w.os
      <3>1. e = [b EXCEPT !.stream = SubSeq(@, taken + 1, Len(@))] BY <2>1
      <3> QED BY <1>24, <1>30, <3>1
    <2>3. SubSeq(st, taken + 1, Len(st)) = SubSeq(c, k + 1, len)
      <3>1. taken \in Nat /\ Len(st) \in Nat /\ taken <= Len(st) /\ Len(st) <= len - m
        BY <1>9, <1>12, <1>21
      <3>2. SubSeq(SubSeq(c, m + 1, len), taken + 1, Len(st)) = SubSeq(c, (m + taken) + 1, m + Len(st))
        BY <1>7, <3>1, CutOfCut
      <3>3. m + Len(st) = len /\ m + taken = k BY <1>7, <1>9, <1>22
      <3> QED BY <1>8, <3>2, <3>3
    <2>4. PICK rest \in Text : rest = SubSeq(c, k + 1, len) /\ Len(rest) = len - k
      <3>1. k \in 0..Len(c) BY <1>7, <1>22
      <3> QED BY <1>7, <3>1, CutInTwo
    <2>5. e \in LoaderSet /\ e.stream = rest BY <1>4, <1>16, <2>1, <2>3, <2>4 DEF LoaderSet
    <2>6. /\ e.call = b.call /\ e.encoding = b.encoding /\ e.candidates = b.candidates
          /\ e.guessed = b.guessed /\ e.content = b.content /\ e.mtime = b.mtime /\ e.reports = b.reports
      BY <1>16, <2>1 DEF LoaderSet
    <2>7. e.used = b.used /\ e.cancelled = b.cancelled /\ e.raced = b.raced
      BY <1>16, <2>1, Zenon DEF LoaderSet
    <2>8. Waiting(e) /\ Chosen(e) BY <1>17, <2>6, <2>7 DEF Waiting, Chosen
    <2>9. Tells(e)
      <3>1. OfItsTime(r) BY <1>2, <1>3 DEF Tells, Waiting
      <3>2. OfItsTime(e) BY <1>16, <2>6, <2>7, <3>1 DEF OfItsTime
      <3>3. e.call = "chunk" BY <1>2, <1>3, <1>16, <2>6
      <3> QED BY <3>2, <3>3 DEF Tells
    <2>10. Copied(e, k, w.os)
      <3>1. g # UTF8 => \A i \in 1..k : Decodable(g, c[i])
        <4> SUFFICES ASSUME g # UTF8, NEW i \in 1..k PROVE Decodable(g, c[i]) OBVIOUS
        <4>1. CASE i <= m
          <5>1. i \in 1..m BY <4>1
          <5> QED BY <1>19, <5>1
        <4>2. CASE ~(i <= m)
          <5>1. PICK j \in 1..taken : i = m + j
            <6>1. i - m \in 1..taken /\ i = m + (i - m) BY <1>7, <1>21, <1>22, <4>2
            <6> QED BY <6>1
          <5>2. j \in 1..n BY <1>12, <1>21, <5>1
          <5> QED BY <1>14, <1>21, <5>1, <5>2
        <4> QED BY <4>1, <4>2
      <3> QED BY <1>4, <1>16, <1>18, <1>25, <1>30, <2>6, <3>1 DEF Copied, Fits
    <2>11. Reads(e, w.os)
      <3>1. k \in 0..Len(c) /\ k = Len(c) - Len(rest) /\ k # 0
        <4>1. taken \in Nat /\ taken # 0 /\ m \in Nat BY <1>7, <1>12, <1>21, <1>30
        <4>2. k # 0 BY <1>22, <4>1
        <4>3. k \in 0..len /\ k = len - Len(rest) BY <1>22, <2>4
        <4> QED BY <1>7, <4>2, <4>3
      <3>2. ReadSoFar(e, w.os, k)
        BY <1>4, <1>7, <1>16, <1>18, <1>25, <1>30, <2>4, <2>5, <2>6, <2>10, <3>1 DEF ReadSoFar
      <3> QED BY <1>4, <1>16, <1>25, <2>6, <2>8, <3>1, <3>2 DEF Reads
    <2>12. AtWork(e, os')
      <3>1. e.call = "chunk" /\ e.content \in Contents BY <1>2, <1>3, <1>4, <1>5, <1>16, <2>6
      <3> QED BY <2>2, <2>11, <3>1 DEF AtWork
    <2> QED BY <1>2, <1>11, <1>25, <2>2, <2>5, <2>8, <2>9, <2>12, GoesOn
  <1> QED BY <1>27, <1>28, <1>29, <1>30

LEMMA WholeCut == ASSUME NEW s \in Text PROVE SubSeq(s, 1, Len(s)) = s
  <1>1. Len(s) \in 0..Len(s) BY DEF Text
  <1>2. PICK a \in Text : a = SubSeq(s, 1, Len(s)) /\ Len(a) = Len(s) /\ \A i \in 1..Len(s) : a[i] = s[i]
    BY <1>1, CutInTwo
  <1>3. Len(a) = Len(s) /\ \A i \in 1..Len(a) : a[i] = s[i] BY <1>2
  <1>4. a = s BY <1>3, SameText
  <1> QED BY <1>2, <1>4

LEMMA EndOfFileKeeps == ASSUME LoadInv, NEW l \in Loads, EndOfFile(l) PROVE LoadInv'
  <1>1. "chunk" \in Calls \ {"none"} /\ "close" \in Calls /\ "none" \in LoadErrors
    BY DEF Calls, LoadErrors
  <1>2. /\ loader = l /\ Waiting(loaders[l]) /\ loaders[l] \in LoaderSet /\ Tells(loaders[l])
        /\ loaders[l].call = "chunk" /\ AtWork(loaders[l], os)
    BY <1>1, HasTheTurn DEF EndOfFile
  <1>3. PICK r \in LoaderSet : r = loaders[l] BY <1>2
  <1>4. PICK c \in Text : c = r.content BY DEF LoaderSet
  <1>5. PICK len \in Nat : len = Len(c) BY DEF Text
  <1>6. c \in Contents /\ Chosen(r) /\ ~os.is_closed /\ os \in Streams /\ Sound(os) /\ r.stream = <<>>
    BY <1>2, <1>3, <1>4 DEF AtWork, Reads, LoadInv, LoadTyped, EndOfFile
  <1>7. ReadSoFar(r, os, len)
    <2>1. PICK m \in 0..Len(c) : ReadSoFar(r, os, m) BY <1>2, <1>3, <1>4 DEF AtWork, Reads
    <2>2. m = Len(c) - Len(<<>>) BY <1>4, <1>6, <2>1 DEF ReadSoFar
    <2>3. Len(<<>>) = 0 OBVIOUS
    <2>4. m = len BY <1>5, <2>2, <2>3
    <2> QED BY <2>1, <2>4
  <1>8. len = 0 <=> c = <<>> BY <1>5, EmptySeq DEF Text
  <1>9. <<>> \in Text BY DEF Text
  <1>10. PICK b : b = Guess(r, <<>>) OBVIOUS
  <1>11. /\ b \in LoaderSet
         /\ r.guessed # NoEncoding => b.guessed = r.guessed
         /\ r.guessed = NoEncoding => b.guessed = GuessEncoding(r.candidates, <<>>)
         /\ b.call = r.call /\ b.used = r.used /\ b.cancelled = r.cancelled /\ b.encoding = r.encoding
         /\ b.candidates = r.candidates /\ b.stream = r.stream /\ b.content = r.content
         /\ b.mtime = r.mtime /\ b.raced = r.raced /\ b.reports = r.reports
    BY <1>9, <1>10, GuessedIs
  <1>12. r.guessed = NoEncoding => b.guessed = UTF8
    <2>1. PICK y \in Seq(Encodings) : y = r.candidates BY DEF LoaderSet
    <2>2. GuessEncoding(y, <<>>) = UTF8 BY <1>9, GuessIs
    <2> QED BY <1>11, <2>1, <2>2
  <1>13. b.guessed # NoEncoding BY <1>11, <1>12, EncodingAssumption
  <1>14. PICK f \in Streams : f = Flush(os).os BY <1>6, FlushIs
  <1>15. /\ Sound(f) /\ Flush(os).valid
         /\ f.is_initialized = os.is_initialized /\ f.is_closed = os.is_closed
         /\ Whole(f) = Whole(os)
         /\ os.buffer = <<>> => f = os
         /\ os.is_initialized /\ ~os.is_closed => f.buffer # <<CR>>
         /\ os.buffer \in {<<>>, <<CR>>} => f.buffer \in {<<>>, <<CR>>}
    BY <1>6, <1>14, FlushIs
  <1>16. PICK type \in NewlineTypes : type = NewlineType(f.text)
    <2>1. f.text \in Text BY DEF Streams
    <2> QED BY <2>1, NewlineTypeIs
  <1>17. PICK e : e = [b EXCEPT !.call = "close", !.newline_type = type, !.error = "none"] OBVIOUS
  <1>18. Calling(l, e) /\ os' = f /\ file' = file
    BY <1>3, <1>10, <1>14, <1>15, <1>16, <1>17 DEF EndOfFile
  <1>19. e \in LoaderSet /\ e.call = "close" /\ e.newline_type = type /\ e.error = "none"
    BY <1>1, <1>11, <1>17 DEF LoaderSet
  <1>20. /\ e.encoding = r.encoding /\ e.candidates = r.candidates /\ e.guessed = b.guessed
         /\ e.content = c /\ e.mtime = r.mtime /\ e.reports = r.reports
    BY <1>4, <1>11, <1>17 DEF LoaderSet
  <1>21. e.used = r.used /\ e.cancelled = r.cancelled /\ e.raced = r.raced
    <2>1. e.used = b.used /\ e.cancelled = b.cancelled /\ e.raced = b.raced BY <1>11, <1>17, Zenon DEF LoaderSet
    <2> QED BY <1>11, <2>1
  <1>22. Waiting(e) BY <1>2, <1>3, <1>19, <1>20, <1>21 DEF Waiting
  <1>23. Tells(e)
    <2>1. OfItsTime(r) BY <1>2, <1>3 DEF Tells, Waiting
    <2>2. OfItsTime(e) BY <1>4, <1>20, <1>21, <2>1 DEF OfItsTime
    <2> QED BY <1>19, <2>2 DEF Tells
  <1>24. Closes(e, f)
    <2>1. CASE c = <<>>
      <3>1. os.text = <<>> /\ os.buffer = <<>>
        <4>1. os = NewOutputStream BY <1>7, <1>8, <2>1 DEF ReadSoFar
        <4>2. NewOutputStream.text = <<>> /\ NewOutputStream.buffer = <<>> BY DEF NewOutputStream
        <4> QED BY <4>1, <4>2
      <3>2. f = os /\ Whole(f) = <<>> BY <1>9, <1>15, <3>1, JoinNone DEF Whole
      <3>3. b.guessed = UTF8 BY <1>7, <1>8, <1>12, <2>1 DEF ReadSoFar
      <3>4. SubSeq(c, 1, Len(c)) = <<>> BY <2>1, WholeCut
      <3>5. Copied(e, Len(c), f)
        <4>1. Converted(UTF8, <<>>) = <<>> BY ConvertedNone
        <4> QED BY <1>20, <3>2, <3>3, <3>4, <4>1 DEF Copied, Fits
      <3>6. f.buffer # <<CR>>
        <4>1. PICK x \in Text : x = <<CR>> /\ Len(x) = 1
          <5>1. CR \in Bytes BY BytesAre
          <5> QED BY <5>1, PairIs
        <4>2. PICK y : y = f.buffer /\ y = <<>> BY <3>1, <3>2
        <4>3. Len(y) = 0 BY <4>2
        <4> QED BY <4>1, <4>2, <4>3
      <3> QED BY <1>6, <1>13, <1>16, <1>19, <1>20, <2>1, <3>2, <3>5, <3>6 DEF Closes
    <2>2. CASE c # <<>>
      <3>1. r.guessed # NoEncoding /\ os.is_initialized /\ Copied(r, len, os)
        BY <1>7, <1>8, <2>2 DEF ReadSoFar
      <3>2. Copied(e, len, f) BY <1>4, <1>11, <1>15, <1>20, <3>1 DEF Copied, Fits
      <3>3. Chosen(e) BY <1>6, <1>11, <1>20, <3>1 DEF Chosen
      <3>4. f.is_initialized /\ ~f.is_closed /\ f.buffer # <<CR>> BY <1>6, <1>15, <3>1
      <3> QED BY <1>5, <1>13, <1>16, <1>19, <1>20, <3>2, <3>3, <3>4 DEF Closes
    <2> QED BY <2>1, <2>2
  <1>25. AtWork(e, os') BY <1>6, <1>18, <1>19, <1>20, <1>24 DEF AtWork
  <1>26. os' \in Streams /\ Sound(os') BY <1>15, <1>18
  <1> QED BY <1>2, <1>18, <1>19, <1>22, <1>23, <1>25, <1>26, GoesOn

LEMMA ClosedKeeps == ASSUME LoadInv, NEW l \in Loads, Closed(l) PROVE LoadInv'
  <1>1. "close" \in Calls \ {"none"} BY DEF Calls
  <1>2. /\ loader = l /\ Waiting(loaders[l]) /\ loaders[l] \in LoaderSet /\ Tells(loaders[l])
        /\ loaders[l].call = "close" /\ AtWork(loaders[l], os) /\ file' = file
    BY <1>1, HasTheTurn DEF Closed
  <1>3. PICK r \in LoaderSet : r = loaders[l] BY <1>2
  <1>4. PICK c \in Text : c = r.content BY DEF LoaderSet
  <1>5. PICK g : g = r.guessed OBVIOUS
  <1>6. PICK text \in Text, kept \in Text : text = os.text /\ kept = os.buffer
    BY DEF LoadInv, LoadTyped, Streams
  <1>7. os \in Streams /\ Sound(os) /\ Wf(text) /\ Held(kept) BY <1>6 DEF LoadInv, LoadTyped, Sound
  <1>8. Closes(r, os) BY <1>2, <1>3 DEF AtWork
  <1>9. /\ c # <<>> => Chosen(r) /\ os.is_initialized
        /\ ~os.is_closed /\ r.error = "none" /\ g # NoEncoding
        /\ r.newline_type = NewlineType(text) /\ kept # <<CR>>
    BY <1>4, <1>5, <1>6, <1>8 DEF Closes
  <1>10. text \o kept = Converted(g, c)
    <2>1. text \o kept = Converted(g, SubSeq(c, 1, Len(c)))
      BY <1>4, <1>5, <1>6, <1>8 DEF Closes, Copied, Fits, Whole
    <2> QED BY <2>1, WholeCut
  <1>11. g # UTF8 => (\A i \in DOMAIN c : Decodable(g, c[i])) /\ kept \in {<<>>, <<CR>>}
    <2>1. DOMAIN c = 1..Len(c) BY DEF Text
    <2> QED BY <1>4, <1>5, <1>6, <1>8, <2>1 DEF Closes, Copied, Fits
  <1>12. CASE Fails(l, LoadIOError) BY <1>2, <1>12, FailsKeeps
  <1>13. CASE ~Fails(l, LoadIOError)
    <2>1. PICK error : error = (IF CloseFails(os) THEN "incomplete" ELSE "none") OBVIOUS
    <2>2. Loaded(l, r, error, os) BY <1>3, <1>9, <1>13, <2>1 DEF Closed
    <2>3. error \in LoadErrors BY <2>1 DEF LoadErrors
    <2>4. CASE kept # <<>>
      <3>1. error = "incomplete" BY <1>6, <2>1, <2>4 DEF CloseFails
      <3>2. g = UTF8 BY <1>9, <1>11, <2>4
      <3>3. PICK e \in Lead : kept = <<e>> BY <1>7, <1>9, <2>4 DEF Held
      <3>4. c = text \o kept BY <1>10, <3>2 DEF Converted
      <3>5. ~Wf(c)
        <4>1. e \in Bytes BY BytesAre
        <4>2. Len(kept) = 1 /\ kept[1] = e BY <3>3, <4>1, PairIs
        <4>3. PICK m \in Nat : m = Len(text) BY DEF Text
        <4>4. Len(c) = m + 1 /\ c[m + 1] = e
          <5>1. Len(text \o kept) = Len(text) + Len(kept) BY JoinedIs
          <5>2. \A i \in 1..Len(kept) : (text \o kept)[Len(text) + i] = kept[i] BY JoinedIs
          <5>3. 1 \in 1..Len(kept) BY <4>2
          <5> QED BY <3>4, <4>2, <4>3, <5>1, <5>2, <5>3
        <4>5. m + 1 \in 1..(m + 1) /\ ~(m + 1 < m + 1) OBVIOUS
        <4> QED BY <4>4, <4>5 DEF Wf, Utf8Prefix
      <3>6. ~Decodes(g, c) BY <3>2, <3>5, ValidLengthIs DEF Decodes
      <3>7. Refuses(r, error) BY <1>4, <1>5, <3>1, <3>6 DEF Refuses
      <3> QED BY <1>2, <1>3, <1>7, <2>2, <2>3, <3>1, <3>7, IsLoaded
    <2>5. CASE kept = <<>>
      <3>1. error = "none" BY <1>6, <2>1, <2>5 DEF CloseFails
      <3>2. text = Converted(g, c) BY <1>10, <2>5, JoinNone
      <3>3. Flush(os).os = os BY <1>6, <1>7, <2>5, FlushIs
      <3>4. PICK enc : enc = EncodingOf(r) OBVIOUS
      <3>5. enc \in Encodings
        <4>1. r.encoding \in AnyEncoding /\ g \in AnyEncoding BY <1>5 DEF LoaderSet
        <4> QED BY <1>5, <1>9, <3>4, <4>1 DEF EncodingOf, AnyEncoding
      <3>6. ASSUME c # <<>> PROVE Shows(r, os)
        <4>1. enc = g BY <1>5, <1>9, <3>4, <3>6 DEF EncodingOf, Chosen
        <4>2. Close(os).text = WithoutEndingNewline(text) BY <1>6, <1>7, <1>9, <3>6, CloseIs
        <4>3. Decodes(g, c)
          <5>1. CASE g = UTF8
            <6>1. c = text BY <3>2, <5>1 DEF Converted
            <6> QED BY <1>7, <5>1, <6>1, ValidLengthIs DEF Decodes
          <5>2. CASE g # UTF8 BY <1>11, <5>2 DEF Decodes
          <5> QED BY <5>1, <5>2
        <4>4. EncodingOf(r) \in Encodings /\ Decodes(EncodingOf(r), r.content)
          BY <1>4, <3>4, <3>5, <4>1, <4>3
        <4>5. Converted(EncodingOf(r), r.content) = text BY <1>4, <3>2, <3>4, <4>1
        <4>6. Close(Flush(os).os).text = WithoutEndingNewline(text) BY <3>3, <4>2
        <4> QED BY <1>9, <4>4, <4>5, <4>6 DEF Shows
      <3>7. ASSUME c = <<>> PROVE Shows(r, os)
        <4>1. text = <<>> /\ Converted(enc, c) = text BY <3>2, <3>7, ConvertedNone
        <4>2. WithoutEndingNewline(<<>>) = <<>> BY DEF WithoutEndingNewline
        <4>3. Close(os).text = <<>>
          <5>1. CASE os.is_initialized BY <1>6, <1>7, <1>9, <4>1, <4>2, <5>1, CloseIs
          <5>2. CASE ~os.is_initialized BY <1>6, <4>1, <5>2 DEF Close
          <5> QED BY <5>1, <5>2
        <4>4. Decodes(enc, c)
          <5>1. Valid(c) BY <3>7, EmptyIsWf, ValidLengthIs
          <5>2. DOMAIN c = {} BY <3>7
          <5> QED BY <5>1, <5>2 DEF Decodes
        <4>5. EncodingOf(r) \in Encodings /\ Decodes(EncodingOf(r), r.content)
          BY <1>4, <3>4, <3>5, <4>4
        <4>6. Converted(EncodingOf(r), r.content) = text BY <1>4, <3>4, <4>1
        <4>7. Close(Flush(os).os).text = WithoutEndingNewline(text) BY <3>3, <4>1, <4>2, <4>3
        <4> QED BY <1>9, <4>5, <4>6, <4>7 DEF Shows
      <3>8. Shows(r, os) BY <3>6, <3>7
      <3>9. OfItsTime(r) BY <1>2, <1>3 DEF Tells, Waiting
      <3>10. Refuses(r, error) BY <3>1 DEF Refuses
      <3> QED BY <1>2, <1>3, <1>7, <2>2, <2>3, <3>8, <3>9, <3>10, IsLoaded
    <2> QED BY <2>4, <2>5
  <1> QED BY <1>12, <1>13

LEMMA NextKeeps == ASSUME LoadInv, [LoadNext]_loadVars PROVE LoadInv'
  <1>1. CASE UNCHANGED loadVars
    <2>1. UNCHANGED <<file, loaders, loader, os, doc, metadata>> BY <1>1 DEF loadVars
    <2>2. LoadTyped' BY <2>1 DEF LoadInv, LoadTyped
    <2>3. InTurn' /\ Working' BY <2>1 DEF LoadInv, InTurn, Working
    <2>4. Timely' BY <2>1 DEF LoadInv, Timely, Tells, OfItsTime, Shown, Done
    <2>5. LoadedIsDecoded' BY <2>1 DEF LoadInv, LoadedIsDecoded, LastLoad, Done
    <2>6. GoodFilesLoad' BY <2>1 DEF LoadInv, GoodFilesLoad, Done
    <2>7. Sound(os') BY <2>1 DEF LoadInv
    <2> QED BY <2>2, <2>3, <2>4, <2>5, <2>6, <2>7 DEF LoadInv
  <1>2. ASSUME NEW l \in Loads, Load(l) PROVE LoadInv' BY <1>2, LoadKeeps
  <1>3. ASSUME NEW l \in Loads, Callback(l) PROVE LoadInv'
    BY <1>3, DropKeeps, OpenedKeeps, NotOpenedKeeps, MountedKeeps, QueriedKeeps, QueryFailsKeeps,
       ChunkKeeps, ChunkFailsKeeps, EndOfFileKeeps, ClosedKeeps DEF Callback
  <1>4. CASE Cancel BY <1>4, CancelKeeps
  <1>5. CASE Replace BY <1>5, ReplaceKeeps
  <1> QED BY <1>1, <1>2, <1>3, <1>4, <1>5 DEF LoadNext

THEOREM LoadInvariance == LoadSpec => []LoadInv
  <1>1. LoadInv /\ [LoadNext]_loadVars => LoadInv' BY NextKeeps
  <1> QED BY <1>1, InitiallySound, PTL DEF LoadSpec

\* In whatever pieces a file comes, from whatever charset, and whoever replaces
\* it meanwhile, the document is the file, or there is an error that says why
\* not (async_read_cb, finish_query_info, document_loader_loaded).
THEOREM TheFileIsLoaded == LoadSpec => []LoadedIsTheFile
  <1>1. LoadInv => LoadedIsTheFile
    <2> SUFFICES ASSUME LoadInv PROVE LoadedIsTheFile OBVIOUS
    <2>1. LoadTypeOK
      <3>1. /\ loaders \in [Loads -> LoaderSet] /\ os \in Streams /\ loader \in Loads \union {0}
            /\ file \in [content : Contents, mtime : 1..(MaxReplaced + 1)]
            /\ doc \in [encoding : Encodings, newline_type : NewlineTypes, mtime : Nat]
            /\ metadata \in AnyEncoding
        BY DEF LoadInv, LoadTyped
      <3>2. ASSUME loader # 0 PROVE loaders[loader].call \in Calls \ {"none"}
        <4>1. loader \in Loads BY <3>1, <3>2
        <4>2. Waiting(loaders[loader])
          BY <4>1 DEF LoadInv, InTurn, Waiting, Reported, NoLoader, NewLoader
        <4>3. loaders[loader].call \in Calls BY <3>1, <4>1 DEF LoaderSet
        <4> QED BY <4>2, <4>3 DEF Waiting
      <3>3. \A l \in Loads : /\ loaders[l].error \in LoadErrors /\ loaders[l].call \in Calls
                             /\ loaders[l].guessed \in Encodings \union {NoEncoding}
        BY <3>1 DEF LoaderSet, AnyEncoding
      <3>4. Valid(os.text) /\ Len(os.buffer) < UnicharLen /\ os.not_undoable \in 0..1
        <4>1. os.text \in Text /\ Sound(os) BY <3>1 DEF LoadInv, Streams
        <4>2. Valid(os.text) BY <4>1, ValidLengthIs DEF Sound
        <4>3. Len(os.buffer) < UnicharLen BY <4>1, HeldIsText DEF Sound
        <4>4. os.not_undoable \in 0..1 BY <4>1 DEF Sound
        <4> QED BY <4>2, <4>3, <4>4
      <3> QED BY <3>1, <3>2, <3>3, <3>4 DEF LoadTypeOK, AnyEncoding
    <2>2. StaleIsNoticed
      <3> SUFFICES ASSUME NEW l \in Loads, Done(l, {"none"}), ~loaders[l].raced,
                          \A k \in Loads : k > l => ~Done(k, {"none"}), doc.mtime = file.mtime
                   PROVE  loaders[l].content = file.content
        BY DEF StaleIsNoticed
      <3>1. doc.mtime = loaders[l].mtime BY DEF LoadInv, Timely, Shown
      <3>2. OfItsTime(loaders[l]) BY DEF LoadInv, Timely, Tells, Done
      <3> QED BY <3>1, <3>2 DEF OfItsTime
    <2> QED BY <2>1, <2>2 DEF LoadInv, LoadedIsTheFile
  <1> QED BY <1>1, LoadInvariance, PTL

\* Every load, also a cancelled one whose call is still in flight, is reported
\* once, and undo works again afterwards (lapiz_gio_document_loader_cancel,
\* lapiz_document_output_stream_close).
THEOREM LoadsEndOnce == LoadSpec => []LoadEndsOnce
  <1>1. LoadInv => LoadEndsOnce
    <2> SUFFICES ASSUME LoadInv PROVE LoadEndsOnce OBVIOUS
    <2>1. ReportedOnce
      <3> SUFFICES ASSUME NEW l \in Loads
                   PROVE  loaders[l].reports = IF loaders[l].used /\ loader # l THEN 1 ELSE 0
        BY DEF ReportedOnce
      <3>1. CASE ~loaders[l].used
        <4>1. NoLoader.reports = 0 BY DEF NoLoader, NewLoader
        <4> QED BY <3>1, <4>1 DEF LoadInv, InTurn
      <3>2. CASE loaders[l].used /\ loader = l BY <3>2 DEF LoadInv, InTurn, Waiting
      <3>3. CASE loaders[l].used /\ loader # l BY <3>3 DEF LoadInv, InTurn, Reported
      <3> QED BY <3>1, <3>2, <3>3
    <2>2. UndoIsEnabled
      <3> SUFFICES ASSUME loader = 0 PROVE os.not_undoable = 0 BY DEF UndoIsEnabled
      <3>1. Idle(os) BY DEF LoadInv, Working
      <3> QED BY <3>1 DEF LoadInv, Sound, Idle
    <2> QED BY <2>1, <2>2 DEF LoadEndsOnce
  <1> QED BY <1>1, LoadInvariance, PTL

-----------------------------------------------------------------------------
(***************************************************************************)
(* Every answer brings the end of a load nearer.                           *)
(***************************************************************************)
LEMMA LengthsAreBounded == \E m \in Nat : \A c \in Contents : Len(c) <= m
  <1>1. \A c \in Contents : Len(c) \in Nat BY ContentAssumption
  <1> DEFINE Bounded(S) == \E m \in Nat : \A c \in S : Len(c) <= m
             T == {n \in Nat : \A S \in SUBSET Contents : Cardinality(S) = n => Bounded(S)}
  <1>2. \A S \in SUBSET Contents : IsFiniteSet(S) BY ContentAssumption, FS_Subset
  <1>3. 0 \in T
    <2>1. \A S \in SUBSET Contents : Cardinality(S) = 0 => S = {} BY <1>2, FS_EmptySet
    <2>2. Bounded({})
      <3>1. 0 \in Nat /\ \A c \in {} : Len(c) <= 0 OBVIOUS
      <3> QED BY <3>1
    <2> QED BY <2>1, <2>2
  <1>4. ASSUME NEW n \in Nat, n \in T PROVE n + 1 \in T
    <2> SUFFICES ASSUME NEW S \in SUBSET Contents, Cardinality(S) = n + 1 PROVE Bounded(S) OBVIOUS
    <2>1. PICK x \in Contents : x \in S
      <3>1. S # {}
        <4>1. Cardinality({}) = 0 BY FS_EmptySet
        <4> QED BY <4>1
      <3> QED BY <3>1
    <2>2. Cardinality(S \ {x}) = n BY <1>2, <2>1, FS_RemoveElement
    <2>3. Bounded(S \ {x}) BY <1>4, <2>2
    <2>4. PICK m \in Nat : \A c \in S \ {x} : Len(c) <= m BY <2>3
    <2>5. PICK k \in Nat : k = Len(x) BY <1>1
    <2>6. m + k \in Nat /\ \A c \in S : Len(c) <= m + k
      <3> SUFFICES ASSUME NEW c \in S PROVE Len(c) <= m + k OBVIOUS
      <3>1. CASE c = x BY <2>5, <3>1
      <3>2. CASE c # x
        <4>1. Len(c) <= m /\ Len(c) \in Nat BY <1>1, <2>4, <3>2
        <4> QED BY <4>1
      <3> QED BY <3>1, <3>2
    <2> QED BY <2>6
  <1>5. \A n \in Nat : n \in T
    <2> HIDE DEF T
    <2> QED BY <1>3, <1>4, EveryNatural
  <1>6. Cardinality(Contents) \in Nat BY ContentAssumption, FS_CardinalityType
  <1>7. Contents \in SUBSET Contents OBVIOUS
  <1> QED BY <1>5, <1>6, <1>7

LEMMA MaxLengthIs ==
    ASSUME NEW content \in Contents
    PROVE  MaxLength \in Nat /\ Len(content) <= MaxLength
  <1>1. PICK m \in Nat : \A c \in Contents : Len(c) <= m BY LengthsAreBounded
  <1> DEFINE T == {Len(c) : c \in Contents}
  <1>2. T \in SUBSET (0..m) /\ Len(content) \in T
    <2>1. \A c \in Contents : Len(c) \in Nat BY ContentAssumption
    <2> QED BY <1>1, <2>1
  <1>3. MaxLength = Max(T) BY DEF MaxLength
  <1> HIDE DEF T
  <1>4. Max(T) \in T /\ \A y \in T : y <= Max(T)
    <2>1. T # {} BY <1>2
    <2> QED BY <1>2, <2>1, MaxIsGreatest
  <1>5. \A y \in T : y \in Nat BY <1>2
  <1> QED BY <1>2, <1>3, <1>4, <1>5

LEMMA LeftIs ==
    ASSUME NEW l
    PROVE  /\ loaders[l].call = "close" => CallsLeft(l) = 0
           /\ loaders[l].call = "chunk" => CallsLeft(l) = Len(loaders[l].stream) + 1
           /\ loaders[l].call = "query" => CallsLeft(l) = Len(loaders[l].stream) + 2
           /\ loaders[l].call = "mount" => CallsLeft(l) = MaxLength + 4
           /\ loaders[l].call = "read" => CallsLeft(l) = MaxLength + (IF loaders[l].tried_mount THEN 3 ELSE 5)
  BY DEF CallsLeft

LEMMA LeftThen ==
    ASSUME NEW l
    PROVE  /\ loaders'[l].call = "close" => CallsLeft(l)' = 0
           /\ loaders'[l].call = "chunk" => CallsLeft(l)' = Len(loaders'[l].stream) + 1
           /\ loaders'[l].call = "query" => CallsLeft(l)' = Len(loaders'[l].stream) + 2
           /\ loaders'[l].call = "mount" => CallsLeft(l)' = MaxLength + 4
           /\ loaders'[l].call = "read" => CallsLeft(l)' = MaxLength + (IF loaders'[l].tried_mount THEN 3 ELSE 5)
  BY DEF CallsLeft, MaxLength

LEMMA ChunkIsTaken ==
    ASSUME LoadInv, NEW l \in Loads, loader = l, loader' = l, Chunk(l)
    PROVE  CallsLeft(l)' < CallsLeft(l)
  <1>1. loaders \in [Loads -> LoaderSet] /\ loader' # 0 BY LoadsAre DEF LoadInv, LoadTyped
  <1>2. PICK r \in LoaderSet : r = loaders[l] /\ r.call = "chunk" BY <1>1 DEF Chunk, Running
  <1>3. PICK st \in Text : st = r.stream BY DEF LoaderSet
  <1>4. PICK n \in 1..Min({ReadChunkSize, Len(st)}) :
           LET block   == SubSeq(st, 1, n)
               loading == Guess(r, block)
               taken   == Convertible(loading.guessed, block)
           IN  taken # 0 /\ Calling(l, [loading EXCEPT !.stream = SubSeq(@, taken + 1, Len(@))])
    BY <1>1, <1>2, <1>3 DEF Chunk, Loaded
  <1>5. PICK len \in Nat : len = Len(st) BY DEF Text
  <1>6. n \in 0..len
    <2>1. {ReadChunkSize, len} \in SUBSET Nat BY LengthAssumption
    <2>2. PICK h \in Nat : h = Min({ReadChunkSize, len}) /\ h <= len BY <2>1, MinIsLeast
    <2> QED BY <1>5, <2>2
  <1>7. PICK block \in Text : block = SubSeq(st, 1, n) /\ Len(block) = n
    <2>1. n \in 0..Len(st) BY <1>5, <1>6
    <2> QED BY <2>1, CutInTwo
  <1>8. PICK b \in LoaderSet : b = Guess(r, block) /\ b.call = "chunk" /\ b.stream = st
    BY <1>2, <1>3, GuessedIs
  <1>9. PICK taken : taken = Convertible(b.guessed, block) OBVIOUS
  <1>10. taken \in 0..n BY <1>7, <1>9, ConvertibleIs
  <1>11. taken # 0 /\ Calling(l, [b EXCEPT !.stream = SubSeq(@, taken + 1, Len(@))])
    BY <1>4, <1>7, <1>8, <1>9
  <1>12. PICK rest \in Text : rest = SubSeq(st, taken + 1, Len(st)) /\ Len(rest) = len - taken
    <2>1. taken \in 0..Len(st) BY <1>5, <1>6, <1>10
    <2>2. SubSeq(st, taken + 1, Len(st)) \in Text /\ Len(SubSeq(st, taken + 1, Len(st))) = Len(st) - taken
      BY <2>1, CutInTwo
    <2> QED BY <1>5, <2>2
  <1>13. loaders'[l] = [b EXCEPT !.stream = rest] BY <1>1, <1>8, <1>11, <1>12 DEF Calling, LoaderSet
  <1>14. loaders'[l].call = "chunk" /\ loaders'[l].stream = rest BY <1>8, <1>13 DEF LoaderSet
  <1>15. CallsLeft(l)' = Len(rest) + 1 BY <1>14, LeftThen
  <1>16. CallsLeft(l) = len + 1 BY <1>2, <1>3, <1>5, LeftIs
  <1>17. taken \in Nat /\ taken # 0 /\ taken <= len BY <1>6, <1>10, <1>11
  <1> QED BY <1>12, <1>15, <1>16, <1>17

LEMMA StepsNearer ==
    ASSUME LoadInv, [LoadNext]_loadVars, NEW l \in Loads, loader = l, loader' = l,
           <<loaders[l].call, loaders[l].stream>> # <<loaders'[l].call, loaders'[l].stream>>
    PROVE  CallsLeft(l)' < CallsLeft(l)
  <1>1. loaders \in [Loads -> LoaderSet] /\ loader # 0 /\ loader' # 0 BY LoadsAre DEF LoadInv, LoadTyped
  <1>2. PICK r \in LoaderSet : r = loaders[l] BY <1>1
  <1>3. Waiting(r) BY <1>2 DEF LoadInv, InTurn, Waiting, Reported, NoLoader, NewLoader
  <1>4. AtWork(r, os) BY <1>1, <1>2 DEF LoadInv, Working
  <1>5. \A k \in Loads : \A call \in Calls \ {"none"} : Running(k, call) => k = l /\ r.call = call
    BY <1>2, HasTheTurn
  <1>6. {"read", "mount", "query", "chunk", "close"} \subseteq Calls \ {"none"} BY DEF Calls
  <1>7. PICK len \in Nat : len = Len(r.stream) BY DEF LoaderSet, Text
  <1>8. ~UNCHANGED loadVars BY DEF loadVars
  <1>9. \A k \in Loads : ~Load(k) BY <1>1 DEF Load
  <1>10. \A k \in Loads : ~Drop(k)
    <2> SUFFICES ASSUME NEW k \in Loads, Drop(k) PROVE FALSE OBVIOUS
    <2>1. k # l BY <1>2, <1>3 DEF Drop, Waiting
    <2>2. loaders'[l] = loaders[l] BY <1>1, <2>1 DEF Drop
    <2> QED BY <2>2
  <1>11. ~Cancel BY <1>1 DEF Cancel
  <1>12. ~Replace
    <2> SUFFICES ASSUME Replace PROVE FALSE OBVIOUS
    <2>1. loaders'[l] = IF l \in Querying THEN [r EXCEPT !.raced = TRUE] ELSE r BY <1>2 DEF Replace
    <2>2. loaders'[l].call = r.call /\ loaders'[l].stream = r.stream BY <2>1 DEF LoaderSet
    <2> QED BY <1>2, <2>2
  <1>13. \A k \in Loads : \A b, error, s : ~Loaded(k, b, error, s) BY <1>1 DEF Loaded
  <1>14. ASSUME NEW k \in Loads, Opened(k) PROVE CallsLeft(l)' < CallsLeft(l)
    <2>1. k = l /\ r.call = "read" BY <1>5, <1>6, <1>14 DEF Opened
    <2>2. PICK c \in Contents : c = file.content BY DEF LoadInv, LoadTyped
    <2>3. PICK m \in Nat, n \in Nat : m = MaxLength /\ n = Len(c) /\ n <= m
      BY MaxLengthIs, ContentAssumption
    <2>4. loaders'[l] = [r EXCEPT !.call = "query", !.stream = c, !.content = c]
      BY <1>1, <1>2, <1>14, <2>1, <2>2 DEF Opened, Calling
    <2>5. loaders'[l].call = "query" /\ loaders'[l].stream = c BY <2>4 DEF LoaderSet
    <2>6. CallsLeft(l)' = n + 2 BY <2>3, <2>5, LeftThen
    <2>7. CallsLeft(l) = m + (IF r.tried_mount THEN 3 ELSE 5) BY <1>2, <2>1, <2>3, LeftIs
    <2> QED BY <2>3, <2>6, <2>7
  <1>15. ASSUME NEW k \in Loads, NotOpened(k) PROVE CallsLeft(l)' < CallsLeft(l)
    <2>1. k = l /\ r.call = "read" BY <1>5, <1>6, <1>15 DEF NotOpened
    <2>2. ~r.tried_mount /\ Calling(l, [r EXCEPT !.call = "mount", !.tried_mount = TRUE])
      BY <1>2, <1>13, <1>15, <2>1 DEF NotOpened, Fails
    <2>3. loaders'[l] = [r EXCEPT !.call = "mount", !.tried_mount = TRUE] BY <1>1, <2>2 DEF Calling
    <2>4. loaders'[l].call = "mount" BY <2>3 DEF LoaderSet
    <2>5. PICK m \in Nat : m = MaxLength
      <3>1. PICK c \in Contents : c = file.content BY DEF LoadInv, LoadTyped
      <3> QED BY <3>1, MaxLengthIs
    <2>6. CallsLeft(l)' = m + 4 BY <2>4, <2>5, LeftThen
    <2>7. CallsLeft(l) = m + 5 BY <1>2, <2>1, <2>2, <2>5, LeftIs
    <2> QED BY <2>5, <2>6, <2>7
  <1>16. ASSUME NEW k \in Loads, Mounted(k) PROVE CallsLeft(l)' < CallsLeft(l)
    <2>1. k = l /\ r.call = "mount" /\ r.tried_mount BY <1>4, <1>5, <1>6, <1>16 DEF Mounted, AtWork
    <2>2. Calling(l, [r EXCEPT !.call = "read"]) BY <1>2, <1>13, <1>16, <2>1 DEF Mounted, Fails
    <2>3. loaders'[l] = [r EXCEPT !.call = "read"] BY <1>1, <2>2 DEF Calling
    <2>4. loaders'[l].call = "read" /\ loaders'[l].tried_mount BY <2>1, <2>3 DEF LoaderSet
    <2>5. PICK m \in Nat : m = MaxLength
      <3>1. PICK c \in Contents : c = file.content BY DEF LoadInv, LoadTyped
      <3> QED BY <3>1, MaxLengthIs
    <2>6. CallsLeft(l)' = m + 3 BY <2>4, <2>5, LeftThen
    <2>7. CallsLeft(l) = m + 4 BY <1>2, <2>1, <2>5, LeftIs
    <2> QED BY <2>5, <2>6, <2>7
  <1>17. ASSUME NEW k \in Loads, Queried(k) PROVE CallsLeft(l)' < CallsLeft(l)
    <2>1. k = l /\ r.call = "query" BY <1>5, <1>6, <1>17 DEF Queried
    <2>2. loaders'[l] = [r EXCEPT !.call = "chunk", !.mtime = file.mtime, !.candidates = Candidates(r)]
      BY <1>1, <1>2, <1>17, <2>1 DEF Queried, Calling
    <2>3. loaders'[l].call = "chunk" /\ loaders'[l].stream = r.stream BY <2>2 DEF LoaderSet
    <2>4. CallsLeft(l)' = len + 1 BY <1>7, <2>3, LeftThen
    <2>5. CallsLeft(l) = len + 2 BY <1>2, <1>7, <2>1, LeftIs
    <2> QED BY <2>4, <2>5
  <1>18. ASSUME NEW k \in Loads, QueryFails(k) \/ ChunkFails(k) \/ Closed(k) PROVE CallsLeft(l)' < CallsLeft(l)
    BY <1>13, <1>18 DEF QueryFails, ChunkFails, Closed, Fails
  <1>19. ASSUME NEW k \in Loads, Chunk(k) PROVE CallsLeft(l)' < CallsLeft(l)
    <2>1. k = l BY <1>5, <1>6, <1>19 DEF Chunk
    <2> QED BY <1>19, <2>1, ChunkIsTaken
  <1>20. ASSUME NEW k \in Loads, EndOfFile(k) PROVE CallsLeft(l)' < CallsLeft(l)
    <2>1. k = l /\ r.call = "chunk" BY <1>5, <1>6, <1>20 DEF EndOfFile
    <2>2. PICK b \in LoaderSet : b = Guess(r, <<>>)
      <3>1. <<>> \in Text BY DEF Text
      <3> QED BY <3>1, GuessedIs
    <2>3. PICK type, error : Calling(l, [b EXCEPT !.call = "close", !.newline_type = type, !.error = error])
      <3>1. PICK type, error : type = NewlineType(Flush(os).os.text)
                               /\ error = (IF Flush(os).valid THEN "none" ELSE "invalid")
        OBVIOUS
      <3>2. Calling(l, [b EXCEPT !.call = "close", !.newline_type = type, !.error = error])
        BY <1>2, <1>20, <2>1, <2>2, <3>1 DEF EndOfFile
      <3> QED BY <3>2
    <2>4. loaders'[l] = [b EXCEPT !.call = "close", !.newline_type = type, !.error = error]
      BY <1>1, <2>3 DEF Calling
    <2>5. loaders'[l].call = "close" BY <2>4 DEF LoaderSet
    <2>6. CallsLeft(l)' = 0 BY <2>5, LeftThen
    <2>7. CallsLeft(l) = len + 1 BY <1>2, <1>7, <2>1, LeftIs
    <2> QED BY <2>6, <2>7
  <1> QED BY <1>8, <1>9, <1>10, <1>11, <1>12, <1>14, <1>15, <1>16, <1>17, <1>18, <1>19, <1>20
       DEF LoadNext, Callback

\* Every answer brings a load nearer its end, also of a volume that is unmounted
\* again and again, and however small the pieces are (tried_mount,
\* read_file_chunk).
THEOREM EachAnswerBringsNearer == LoadSpec => NearerTheEnd
  <1>1. LoadInv /\ [LoadNext]_loadVars =>
          [\A l \in Loads :
             /\ loader = l /\ loader' = l
             /\ <<loaders[l].call, loaders[l].stream>> # <<loaders'[l].call, loaders'[l].stream>>
             => CallsLeft(l)' < CallsLeft(l)]_loadVars
    BY StepsNearer
  <1> QED BY <1>1, LoadInvariance, PTL DEF LoadSpec, NearerTheEnd

-----------------------------------------------------------------------------
(***************************************************************************)
(* SAVED AND LOADED: what a save writes of a text (DocumentInputStream), and *)
(* what a load makes of that.                                              *)
(***************************************************************************)
LEMMA NewlineIs ==
    ASSUME NEW type \in NewlineTypes
    PROVE  Newline(type) \in Text /\ Newline(type) # <<>> /\ Len(Newline(type)) \in 1..2
  <1>1. PICK x \in Bytes, y \in Bytes : x = CR /\ y = LF BY BytesAre
  <1>2. /\ <<x>> \in Text /\ Len(<<x>>) = 1 /\ <<y>> \in Text /\ Len(<<y>>) = 1
        /\ <<x, y>> \in Text /\ Len(<<x, y>>) = 2
    BY PairIs
  <1>3. Newline(type) \in {<<x>>, <<y>>, <<x, y>>} BY <1>1 DEF Newline, NewlineTypes
  <1>4. PICK v : v = Newline(type) OBVIOUS
  <1>5. v \in Text /\ Len(v) \in 1..2
    <2>1. CASE v = <<x>> BY <1>2, <2>1
    <2>2. CASE v = <<y>> BY <1>2, <2>2
    <2>3. CASE v = <<x, y>> BY <1>2, <2>3
    <2> QED BY <1>3, <1>4, <2>1, <2>2, <2>3
  <1>6. v # <<>>
    <2>1. Len(<<>>) = 0 OBVIOUS
    <2> QED BY <1>5, <2>1
  <1> QED BY <1>4, <1>5, <1>6

LEMMA NormalPartIs ==
    ASSUME NEW b \in Text, NEW type \in NewlineTypes, NEW k \in 1..Len(b)
    PROVE  NormalPart(b, type, k) \in Text
  <1>1. b[k] \in Bytes BY ElementOfSeq DEF Text
  <1>2. <<b[k]>> \in Text /\ <<>> \in Text BY <1>1, PairIs DEF Text
  <1> QED BY <1>2, NewlineIs DEF NormalPart

\* f[n] is the first n bytes of a text with their line ends made one of the type.
IsNormal(f, b, type) ==
    /\ f \in [0..Len(b) -> Text] /\ f[0] = <<>>
    /\ \A k \in 1..Len(b) : f[k] = f[k - 1] \o NormalPart(b, type, k)

LEMMA NormalMade ==
    ASSUME NEW b \in Text, NEW type \in NewlineTypes
    PROVE  \E f : IsNormal(f, b, type) /\ Normal(b, type) = f[Len(b)]
  <1> DEFINE n == Len(b)
             Step(k, v) == v \o NormalPart(b, type, k)
             h == [k \in 1..n |-> [v \in Text |-> Step(k, v)]]
             made == CHOOSE f : f = [k \in 0..n |-> IF k = 0 THEN <<>> ELSE Step(k, f[k - 1])]
  <1>1. n \in Nat BY DEF Text
  <1>2. Normal(b, type) = made[n] BY DEF Normal
  <1>3. h \in Makers(Text, n)
    <2>1. ASSUME NEW k \in 1..n, NEW v \in Text PROVE Step(k, v) \in Text
      BY <1>1, NormalPartIs, JoinedIs
    <2> HIDE DEF n, Step
    <2> QED BY <2>1 DEF Makers
  <1> HIDE DEF n, Step
  <1>4. \A k \in 1..n : \A v \in Text : h[k][v] = Step(k, v) OBVIOUS
  <1> HIDE DEF h
  <1>5. <<>> \in Text BY DEF Text
  <1>6. PICK f \in [0..n -> Text] : IsMade(f, <<>>, h, n) BY <1>1, <1>3, <1>5, RecursionExists
  <1>7. f[0] = <<>> /\ \A k \in 1..n : f[k] = Step(k, f[k - 1])
    <2>1. f[0] = <<>> /\ \A k \in 1..n : f[k] = h[k][f[k - 1]] BY <1>6 DEF IsMade
    <2>2. \A k \in 1..n : k - 1 \in 0..n BY <1>1
    <2> QED BY <1>4, <1>6, <2>1, <2>2
  <1>8. made = [k \in 0..n |-> IF k = 0 THEN <<>> ELSE Step(k, made[k - 1])]
    <2>1. \A k \in 0..n : k # 0 => k \in 1..n BY <1>1
    <2>2. f = [k \in 0..n |-> IF k = 0 THEN <<>> ELSE Step(k, f[k - 1])] BY <1>6, <1>7, <2>1
    <2> QED BY <2>2
  <1> HIDE DEF made
  <1>9. made[0] = <<>> /\ \A k \in 1..n : made[k] = Step(k, made[k - 1])
    <2>1. 0 \in 0..n /\ \A k \in 1..n : k \in 0..n /\ k # 0 BY <1>1
    <2> QED BY <1>8, <2>1
  <1> DEFINE S == [k \in 0..n |-> Text]
  <1>10. \A k \in 0..n : made[k] \in S[k]
    <2>1. IsChain(S, h, n)
      <3>1. \A k \in 1..n : k \in 0..n /\ k - 1 \in 0..n BY <1>1
      <3>2. \A k \in 1..n : \A v \in Text : h[k][v] \in Text BY <1>3 DEF Makers
      <3> QED BY <3>1, <3>2 DEF IsChain
    <2>2. made[0] \in S[0] BY <1>1, <1>5, <1>9
    <2>3. \A k \in 1..n : made[k - 1] \in S[k - 1] => made[k] = h[k][made[k - 1]]
      <3>1. \A k \in 1..n : k - 1 \in 0..n BY <1>1
      <3> QED BY <1>4, <1>9, <3>1
    <2> HIDE DEF S
    <2> QED BY <1>1, <2>1, <2>2, <2>3, ChainStays
  <1>11. made \in [0..n -> Text]
    <2>1. \A k \in 0..n : made[k] \in Text BY <1>10
    <2>2. made = [k \in 0..n |-> made[k]] BY <1>8
    <2> QED BY <2>1, <2>2
  <1>12. IsNormal(made, b, type) BY <1>9, <1>11 DEF IsNormal, Step, n
  <1> QED BY <1>2, <1>12 DEF n

\* A piece of a text and the byte after it.
LEMMA CutNext ==
    ASSUME NEW s \in Text, NEW p \in Nat, NEW m \in Nat, p <= m, m + 1 <= Len(s)
    PROVE  SubSeq(s, p + 1, m + 1) = SubSeq(s, p + 1, m) \o <<s[m + 1]>>
  <1>1. PICK q \in Nat : q = m + 1 /\ m <= q /\ p <= q /\ q <= Len(s) /\ m <= Len(s) BY DEF Text
  <1>2. PICK u \in Text : u = SubSeq(s, p + 1, m) BY <1>1, CutIs
  <1>3. Len(u) = m - p /\ \A i \in 1..(m - p) : u[i] = s[p + i] BY <1>1, <1>2, CutIs
  <1>4. PICK v \in Text : v = SubSeq(s, p + 1, q) BY <1>1, CutIs
  <1>5. Len(v) = q - p /\ \A i \in 1..(q - p) : v[i] = s[p + i] BY <1>1, <1>4, CutIs
  <1>6. PICK w \in Text : w = <<s[q]>> /\ Len(w) = 1 /\ w[1] = s[q]
    <2>1. q \in 1..Len(s) BY <1>1
    <2>2. s[q] \in Bytes BY <2>1, ElementOfSeq DEF Text
    <2> QED BY <2>2, PairIs
  <1>7. PICK j : j = u \o w OBVIOUS
  <1>8. /\ j \in Text /\ Len(j) = Len(u) + Len(w)
        /\ \A i \in 1..Len(u) : j[i] = u[i]
        /\ \A i \in 1..Len(w) : j[Len(u) + i] = w[i]
    BY <1>7, JoinedIs
  <1>9. Len(v) = Len(j) BY <1>1, <1>3, <1>5, <1>6, <1>8
  <1>10. ASSUME NEW i \in 1..Len(v) PROVE v[i] = j[i]
    <2>1. i \in 1..(q - p) /\ q - p \in Nat /\ m - p \in Nat BY <1>1, <1>5
    <2>2. v[i] = s[p + i] BY <1>5, <2>1
    <2>3. CASE i \in 1..(m - p) BY <1>3, <1>8, <2>2, <2>3
    <2>4. CASE i \notin 1..(m - p)
      <3>1. i = (m - p) + 1 /\ p + i = q BY <1>1, <2>1, <2>4
      <3>2. 1 \in 1..Len(w) BY <1>6
      <3>3. j[Len(u) + 1] = w[1] BY <1>8, <3>2
      <3> QED BY <1>3, <1>6, <2>2, <3>1, <3>3
    <2> QED BY <2>3, <2>4
  <1>11. v = j BY <1>8, <1>9, <1>10, SameText
  <1> QED BY <1>1, <1>2, <1>4, <1>6, <1>7, <1>11

\* A stretch without line ends stays as it is.
Unbroken(b, p, q) == \A i \in (p + 1)..q : b[i] \notin {CR, LF}

LEMMA NormalStretch ==
    ASSUME NEW b \in Text, NEW type \in NewlineTypes, NEW f, IsNormal(f, b, type),
           NEW p \in Nat, NEW q \in Nat, p <= q, q <= Len(b), Unbroken(b, p, q)
    PROVE  f[q] = f[p] \o SubSeq(b, p + 1, q)
  <1> DEFINE A(k) == f[p + k] = f[p] \o SubSeq(b, p + 1, p + k)
             T == {k \in Nat : p + k <= q => A(k)}
  <1>1. PICK n \in Nat : n = Len(b) BY DEF Text
  <1>2. \A k \in 0..n : f[k] \in Text BY <1>1 DEF IsNormal
  <1>3. 0 \in T
    <2>1. PICK m \in Nat : m = p + 0 /\ m = p /\ p <= m /\ m <= Len(b) /\ m - p = 0 BY <1>1
    <2>2. PICK u \in Text : u = SubSeq(b, p + 1, m) /\ Len(u) = m - p BY <2>1, CutIs
    <2>3. <<>> \in Text /\ Len(<<>>) = 0 /\ \A i \in 1..0 : u[i] = <<>>[i] BY DEF Text
    <2>4. u = <<>> BY <2>1, <2>2, <2>3, SameText
    <2>5. f[p] \in Text BY <1>1, <1>2, <2>1
    <2> QED BY <2>1, <2>2, <2>4, <2>5, JoinNone
  <1>4. ASSUME NEW k \in Nat, k \in T PROVE k + 1 \in T
    <2> SUFFICES ASSUME p + (k + 1) <= q PROVE A(k + 1)
      <3> HIDE DEF A
      <3> QED OBVIOUS
    <2>1. PICK m \in Nat : m = p + k /\ p + (k + 1) = m + 1 /\ m + 1 <= n /\ p <= m /\ m + 1 <= q /\ m <= Len(b) BY <1>1
    <2>2. f[m] = f[p] \o SubSeq(b, p + 1, m)
      <3>1. p + k <= q BY <2>1
      <3> QED BY <1>4, <2>1, <3>1
    <2> HIDE DEF T
    <2>3. b[m + 1] \notin {CR, LF} /\ b[m + 1] \in Bytes
      <3>1. m + 1 \in (p + 1)..q /\ m + 1 \in 1..n BY <2>1
      <3> QED BY <1>1, <3>1, ElementOfSeq DEF Text, Unbroken
    <2>4. f[m + 1] = f[m] \o <<b[m + 1]>>
      <3>1. m + 1 \in 1..n /\ (m + 1) - 1 = m BY <2>1
      <3>2. NormalPart(b, type, m + 1) = <<b[m + 1]>> BY <2>3 DEF NormalPart
      <3> QED BY <1>1, <3>1, <3>2 DEF IsNormal
    <2>5. SubSeq(b, p + 1, m + 1) = SubSeq(b, p + 1, m) \o <<b[m + 1]>> BY <1>1, <2>1, CutNext
    <2>6. SubSeq(b, p + 1, m) \in Text BY <1>1, <2>1, CutIs
    <2>7. f[p] \in Text /\ <<b[m + 1]>> \in Text
      <3>1. p \in 0..n BY <1>1
      <3>2. PICK x \in Bytes : x = b[m + 1] BY <2>3
      <3>3. <<x>> \in Text BY PairIs
      <3> QED BY <1>2, <3>1, <3>2, <3>3
    <2>8. f[m + 1] = f[p] \o SubSeq(b, p + 1, m + 1)
      <3>1. PICK a \in Text, c \in Text, x \in Text : a = f[p] /\ c = SubSeq(b, p + 1, m) /\ x = <<b[m + 1]>>
        BY <2>6, <2>7
      <3>2. (a \o c) \o x = a \o (c \o x) BY JoinThree
      <3> QED BY <2>2, <2>4, <2>5, <3>1, <3>2
    <2> QED BY <2>1, <2>8
  <1>5. PICK d \in Nat : p + d = q
    <2>1. q - p \in Nat /\ p + (q - p) = q OBVIOUS
    <2> QED BY <2>1
  <1> HIDE DEF A
  <1>6. \A k \in Nat : k \in T
    <2> HIDE DEF T
    <2> QED BY <1>3, <1>4, EveryNatural
  <1>7. A(d) BY <1>5, <1>6
  <1> QED BY <1>5, <1>7 DEF A

Stretches(b, f) ==
    \A p, q \in Nat : p <= q /\ q <= Len(b) /\ Unbroken(b, p, q) => f[q] = f[p] \o SubSeq(b, p + 1, q)

LEMMA NormalStretches ==
    ASSUME NEW b \in Text, NEW type \in NewlineTypes, NEW f, IsNormal(f, b, type)
    PROVE  Stretches(b, f)
  <1>1. SUFFICES ASSUME NEW p \in Nat, NEW q \in Nat, p <= q /\ q <= Len(b) /\ Unbroken(b, p, q)
                 PROVE  f[q] = f[p] \o SubSeq(b, p + 1, q)
    BY DEF Stretches
  <1>2. p <= q /\ q <= Len(b) /\ Unbroken(b, p, q) BY <1>1
  <1> QED BY <1>2, NormalStretch, Zenon

\* Where a line ends, from a place in it.
LEMMA LineEndIs ==
    ASSUME NEW b \in Text, NEW p \in 0..Len(b)
    PROVE  /\ LineEnd(b, p) \in p..Len(b) /\ EndsLine(b, LineEnd(b, p))
           /\ Unbroken(b, p, LineEnd(b, p))
  <1>1. PICK n \in Nat : n = Len(b) BY DEF Text
  <1> DEFINE T == {j \in p..n : EndsLine(b, j)}
             e == LineEnd(b, p)
  <1>2. T \in SUBSET Nat /\ n \in T BY <1>1 DEF EndsLine
  <1>3. e = Min(T) BY <1>1 DEF LineEnd
  <1>4. Min(T) \in T /\ \A y \in T : Min(T) <= y
    <2> HIDE DEF T
    <2> QED BY <1>2, MinIsLeast
  <1>5. e \in p..n /\ EndsLine(b, e) /\ \A y \in p..n : EndsLine(b, y) => e <= y BY <1>3, <1>4
  <1> HIDE DEF T, e
  <1>6. ASSUME NEW i \in (p + 1)..e, b[i] \in {CR, LF} PROVE FALSE
    <2>1. PICK j \in Nat : j + 1 = i /\ j \in p..n /\ j < e
      <3>1. i - 1 \in Nat /\ (i - 1) + 1 = i /\ i - 1 \in p..n /\ i - 1 < e BY <1>1, <1>5
      <3> QED BY <3>1
    <2>2. EndsLine(b, j) BY <1>6, <2>1 DEF EndsLine
    <2> QED BY <1>5, <2>1, <2>2
  <1> QED BY <1>1, <1>5, <1>6 DEF e, Unbroken

\* The mark is never between the two bytes of a CR LF.
AtPlace(b, p) == p \in 0..Len(b) /\ ~(0 < p /\ p < Len(b) /\ b[p] = CR /\ b[p + 1] = LF)

\* From the end of a line to the next.
LEMMA NextLineIs ==
    ASSUME NEW b \in Text, NEW type \in NewlineTypes, NEW f, IsNormal(f, b, type),
           NEW e \in 0..Len(b), e # Len(b), EndsLine(b, e), AtPlace(b, e)
    PROVE  /\ NextLine(b, e) \in (e + 1)..Len(b) /\ AtPlace(b, NextLine(b, e))
           /\ b[NextLine(b, e)] \in {CR, LF}
           /\ f[NextLine(b, e)] = f[e] \o Newline(type)
  <1>1. PICK n \in Nat : n = Len(b) BY DEF Text
  <1>2. \A k \in 0..n : f[k] \in Text BY <1>1 DEF IsNormal
  <1>3. /\ e \in Nat /\ e + 1 \in 1..n /\ (e + 1) - 1 = e /\ e + 1 \in Nat
        /\ b[e + 1] \in {CR, LF} /\ CR # LF
    BY <1>1, BytesAre DEF EndsLine
  <1>4. ~(b[e + 1] = LF /\ e + 1 > 1 /\ b[e] = CR) BY <1>1, <1>3 DEF AtPlace
  <1>5. f[e + 1] = f[e] \o Newline(type)
    <2>1. NormalPart(b, type, e + 1) = Newline(type) BY <1>3, <1>4 DEF NormalPart
    <2> QED BY <1>1, <1>3, <2>1 DEF IsNormal
  <1>6. CASE b[e + 1] = CR /\ e + 1 < n /\ b[e + 2] = LF
    <2>1. NextLine(b, e) = e + 2 BY <1>1, <1>6 DEF NextLine
    <2>2. PICK k \in Nat : k = e + 2 /\ k \in 1..n /\ k > 1 /\ k - 1 = e + 1 BY <1>3, <1>6
    <2>3. NormalPart(b, type, k) = <<>> BY <1>6, <2>2 DEF NormalPart
    <2>4. f[k] = f[e + 1] \o <<>> BY <1>1, <2>2, <2>3 DEF IsNormal
    <2>5. f[e + 1] \in Text BY <1>2, <1>3
    <2>6. f[k] = f[e + 1] BY <2>4, <2>5, JoinNone
    <2>7. AtPlace(b, k) BY <1>1, <1>3, <1>6, <2>2 DEF AtPlace
    <2>8. k \in (e + 1)..n /\ b[k] \in {CR, LF} BY <1>3, <1>6, <2>2
    <2> QED BY <1>1, <1>5, <2>1, <2>2, <2>6, <2>7, <2>8
  <1>7. CASE ~(b[e + 1] = CR /\ e + 1 < n /\ b[e + 2] = LF)
    <2>1. NextLine(b, e) = e + 1 BY <1>1, <1>7 DEF NextLine
    <2>2. (e + 1) + 1 = e + 2 BY <1>3
    <2>3. AtPlace(b, e + 1) BY <1>1, <1>3, <1>7, <2>2 DEF AtPlace
    <2>4. e + 1 \in (e + 1)..n BY <1>3
    <2> QED BY <1>1, <1>3, <1>5, <2>1, <2>3, <2>4
  <1> QED BY <1>6, <1>7

\* Places in a line.
LEMMA PlacesInLine ==
    ASSUME NEW b \in Text, NEW p \in Nat, AtPlace(b, p), NEW q \in Nat, p <= q, q <= Len(b), Unbroken(b, p, q)
    PROVE  AtPlace(b, q)
  <1>1. PICK n \in Nat : n = Len(b) BY DEF Text
  <1>2. CASE p = q BY <1>2
  <1>3. CASE p < q
    <2>1. q \in (p + 1)..q BY <1>3
    <2> QED BY <1>1, <2>1 DEF AtPlace, Unbroken
  <1> QED BY <1>2, <1>3

-----------------------------------------------------------------------------
(***************************************************************************)
(* What read_line and the loop around it make of the mark.                 *)
(***************************************************************************)
InStreams == [pos : Nat, bytes_partial : Nat, newline_added : BOOLEAN]
Marks(b, s) == s \in InStreams /\ AtPlace(b, s.pos) /\ EndOfChar(b, s.pos)

\* What was read is what the mark went over.
Reading(b, f, s, r) ==
    /\ Marks(b, r.stream) /\ r.stream.newline_added = s.newline_added
    /\ s.pos <= r.stream.pos /\ r.out \in Text /\ f[r.stream.pos] = f[s.pos] \o r.out
Advances(s, r) == r.out # <<>> /\ s.pos < r.stream.pos

LEMMA CharEnds ==
    ASSUME NEW b \in Text, Wf(b), NEW p \in 0..Len(b), p = 0 \/ p = Len(b) \/ b[p] \notin Lead
    PROVE  EndOfChar(b, p)
  <1>1. PICK n \in Nat : n = Len(b) BY DEF Text
  <1>2. CASE p = n BY <1>1, <1>2 DEF EndOfChar
  <1>3. CASE p # n
    <2>1. p + 1 \in 1..n /\ (p + 1) - 1 = p BY <1>1, <1>3
    <2>2. b[p + 1] \in Trail => p + 1 > 1 /\ b[p] \in Lead BY <1>1, <2>1 DEF Wf, Utf8Prefix
    <2>3. b[p + 1] \notin Trail
      <3>1. p = 0 => ~(p + 1 > 1) OBVIOUS
      <3> QED BY <1>1, <1>3, <2>2, <3>1
    <2> QED BY <2>3 DEF EndOfChar
  <1> QED BY <1>2, <1>3

\* The longest part of a line that fits.
PartOf(b, p, space, bytes) == Max({k \in 0..Min({space, bytes}) : EndOfChar(b, p + k)})

LEMMA PartThatFits ==
    ASSUME NEW b \in Text, Wf(b), NEW p \in Nat, NEW e \in Nat, p <= e, e <= Len(b),
           EndsLine(b, e), EndOfChar(b, p), NEW space \in Nat, NEW bytes \in Nat, p + bytes = e,
           NEW w, w = PartOf(b, p, space, bytes)
    PROVE  /\ w \in Nat /\ w <= space /\ w <= bytes /\ EndOfChar(b, p + w)
           /\ space > 1 /\ bytes > 0 => w > 0
  <1>1. PICK n \in Nat : n = Len(b) BY DEF Text
  <1>2. PICK m \in Nat : m = Min({space, bytes}) /\ m <= space /\ m <= bytes /\ m \in {space, bytes}
    <2>1. {space, bytes} \in SUBSET Nat /\ {space, bytes} # {} OBVIOUS
    <2>2. Min({space, bytes}) \in {space, bytes} /\ \A y \in {space, bytes} : Min({space, bytes}) <= y
      BY <2>1, MinIsLeast
    <2> QED BY <2>2
  <1> DEFINE T == {k \in 0..m : EndOfChar(b, p + k)}
  <1>3. T \in SUBSET (0..m) /\ 0 \in T
    <2>1. p + 0 = p OBVIOUS
    <2> QED BY <1>2, <2>1
  <1>4. Max(T) \in T /\ \A y \in T : y <= Max(T)
    <2> HIDE DEF T
    <2> QED BY <1>2, <1>3, MaxIsGreatest
  <1>5. w = Max(T) BY <1>2 DEF PartOf
  <1>6. w \in 0..m /\ EndOfChar(b, p + w) /\ \A y \in 0..m : EndOfChar(b, p + y) => y <= w BY <1>4, <1>5
  <1> HIDE DEF T
  <1>7. ASSUME space > 1, bytes > 0, w = 0 PROVE FALSE
    <2>1. 1 \in 0..m /\ ~EndOfChar(b, p + 1)
      <3>1. 1 \in 0..m BY <1>2, <1>7
      <3>2. ~(1 <= w) BY <1>7
      <3> QED BY <1>6, <3>1, <3>2
    <2>2. p + 1 < n /\ b[p + 2] \in Trail /\ p + 2 \in 1..n
      <3>1. p + 1 <= n /\ (p + 1) + 1 = p + 2 BY <1>1, <1>7
      <3>2. p + 1 # n /\ b[p + 2] \in Trail BY <1>1, <2>1, <3>1 DEF EndOfChar
      <3> QED BY <3>1, <3>2
    <2>3. bytes # 1
      <3> SUFFICES ASSUME bytes = 1 PROVE FALSE OBVIOUS
      <3>1. e = p + 1 /\ e # n /\ e + 1 = p + 2 BY <2>2
      <3>2. b[p + 2] \in {CR, LF} BY <1>1, <3>1 DEF EndsLine
      <3> QED BY <2>2, <3>2, BytesAre
    <2>4. 2 \in 0..m BY <1>2, <1>7, <2>3
    <2>5. EndOfChar(b, p + 2)
      <3>1. b[p + 2] \notin Lead /\ p + 2 \in 0..Len(b) BY <1>1, <2>2, BytesAre
      <3> QED BY <3>1, CharEnds
    <2>6. ~(2 <= w) BY <1>7
    <2> QED BY <1>6, <2>4, <2>5, <2>6
  <1>8. w \in Nat /\ w <= space /\ w <= bytes BY <1>2, <1>6
  <1> QED BY <1>6, <1>7, <1>8

LEMMA ReadLineIs ==
    ASSUME NEW b \in Text, Wf(b), NEW type \in NewlineTypes, NEW f, IsNormal(f, b, type),
           NEW s, Marks(b, s), NEW space \in Nat, NEW r, r = ReadLine(b, type, s, space)
    PROVE  /\ Reading(b, f, s, r) /\ Len(r.out) <= space
           /\ space > 1 /\ s.pos < Len(b) => Advances(s, r)
  <1>1. PICK n \in Nat : n = Len(b) BY DEF Text
  <1>2. PICK p \in Nat : p = s.pos /\ p <= n /\ p \in 0..Len(b) BY <1>1 DEF Marks, InStreams, AtPlace
  <1>3. AtPlace(b, p) /\ EndOfChar(b, p) /\ s \in InStreams BY <1>2 DEF Marks
  <1>4. PICK e \in Nat : e = LineEnd(b, p) /\ p <= e /\ e <= n /\ e <= Len(b) BY <1>1, <1>2, LineEndIs
  <1>5. EndsLine(b, e) /\ Unbroken(b, p, e) BY <1>2, <1>4, LineEndIs
  <1>0. IsNormal(f, b, type) OBVIOUS
  <1>12. Stretches(b, f) BY <1>0, NormalStretches
  <1>6. PICK bytes \in Nat : bytes = e - p /\ p + bytes = e
    <2>1. e - p \in Nat /\ p + (e - p) = e BY <1>4
    <2> QED BY <2>1
  <1>7. PICK newline \in Text : newline = IF e = n THEN <<>> ELSE Newline(type)
    <2>1. <<>> \in Text BY DEF Text
    <2> QED BY <2>1, NewlineIs
  <1>8. \A k \in 0..n : f[k] \in Text BY <1>1 DEF IsNormal
  <1>9. bytes \in Nat /\ Len(newline) \in Nat /\ space \in Nat BY DEF Text
  <1>10. CASE bytes + Len(newline) <= space
    <2>1. PICK line \in Text : line = SubSeq(b, p + 1, p + bytes) /\ Len(line) = bytes
      <3>1. SubSeq(b, p + 1, e) \in Text /\ Len(SubSeq(b, p + 1, e)) = e - p BY <1>1, <1>4, CutIs
      <3> QED BY <1>6, <3>1
    <2>2. PICK t : t = [s EXCEPT !.pos = NextLine(b, e), !.bytes_partial = 0] OBVIOUS
    <2>3. r = [out |-> line \o newline, stream |-> t]
      BY <1>1, <1>2, <1>4, <1>6, <1>7, <1>10, <2>1, <2>2 DEF ReadLine
    <2>4. PICK q \in Nat : q = NextLine(b, e) /\ q \in 0..n /\ e <= q
      <3>1. CASE e = n
        <4>1. NextLine(b, e) = e BY <1>1, <3>1 DEF NextLine
        <4> QED BY <1>4, <4>1
      <3>2. CASE e # n
        <4>1. NextLine(b, e) \in (e + 1)..n
          <5>1. e \in 0..Len(b) /\ e # Len(b) BY <1>1, <1>4, <3>2
          <5>2. AtPlace(b, e) BY <1>1, <1>3, <1>4, <1>5, PlacesInLine
          <5> QED BY <1>1, <1>5, <5>1, <5>2, NextLineIs
        <4> QED BY <1>4, <4>1
      <3> QED BY <3>1, <3>2
    <2>5. t \in InStreams /\ t.pos = q /\ t.newline_added = s.newline_added
      <3>1. t \in InStreams /\ t.pos = q BY <1>3, <2>2, <2>4 DEF InStreams
      <3>2. t.newline_added = s.newline_added BY <1>3, <2>2, Zenon DEF InStreams
      <3> QED BY <3>1, <3>2
    <2>6. f[e] = f[p] \o line
      <3>1. f[e] = f[p] \o SubSeq(b, p + 1, e) BY <1>12, <1>4, <1>5 DEF Stretches
      <3> QED BY <1>6, <2>1, <3>1
    <2>7. AtPlace(b, e) BY <1>1, <1>3, <1>4, <1>5, PlacesInLine
    <2>8. AtPlace(b, q) /\ EndOfChar(b, q) /\ f[q] = f[p] \o (line \o newline)
      <3>1. f[p] \in Text BY <1>2, <1>8, <1>1
      <3>2. CASE e = n
        <4>1. q = e /\ q = Len(b) /\ newline = <<>> BY <1>1, <1>7, <2>4, <3>2 DEF NextLine
        <4>2. EndOfChar(b, q) BY <4>1 DEF EndOfChar
        <4>3. line \o newline = line BY <4>1, JoinNone
        <4> QED BY <2>6, <2>7, <4>1, <4>2, <4>3
      <3>3. CASE e # n
        <4>1. e \in 0..Len(b) /\ e # Len(b) BY <1>1, <1>4, <3>3
        <4>2. AtPlace(b, q) /\ b[q] \in {CR, LF} /\ f[q] = f[e] \o Newline(type)
          BY <1>5, <2>4, <2>7, <4>1, NextLineIs
        <4>3. b[q] \notin Lead BY <4>2, BytesAre
        <4>4. EndOfChar(b, q) BY <1>1, <2>4, <4>3, CharEnds
        <4>5. PICK a \in Text : a = f[p] BY <3>1
        <4>6. (a \o line) \o newline = a \o (line \o newline) BY JoinThree
        <4>7. newline = Newline(type) BY <1>7, <3>3
        <4> QED BY <2>6, <4>2, <4>4, <4>5, <4>6, <4>7
      <3> QED BY <3>2, <3>3
    <2>9. line \o newline \in Text /\ Len(line \o newline) = bytes + Len(newline)
      BY <2>1, JoinedIs
    <2>10. r.out = line \o newline /\ r.stream = t BY <2>3
    <2>11. Marks(b, t) BY <2>5, <2>8 DEF Marks
    <2>12. p <= q BY <1>4, <2>4
    <2>13. Reading(b, f, s, r) BY <1>2, <2>5, <2>8, <2>9, <2>10, <2>11, <2>12 DEF Reading
    <2>14. Len(r.out) <= space BY <1>10, <2>9, <2>10
    <2>15. ASSUME p < n PROVE Advances(s, r)
      <3>1. CASE e = n
        <4>1. bytes > 0 /\ p < q BY <1>6, <2>4, <2>15, <3>1
        <4>2. Len(line \o newline) > 0 BY <1>9, <2>9, <4>1
        <4>3. line \o newline # <<>> BY <4>2
        <4> QED BY <1>2, <2>5, <2>10, <4>1, <4>3 DEF Advances
      <3>2. CASE e # n
        <4>1. Len(newline) > 0 BY <1>7, <3>2, NewlineIs
        <4>2. Len(line \o newline) > 0 BY <1>9, <2>9, <4>1
        <4>3. line \o newline # <<>> BY <4>2
        <4>4. q \in (e + 1)..n
          <5>1. e \in 0..Len(b) /\ e # Len(b) BY <1>1, <1>4, <3>2
          <5> QED BY <1>1, <1>5, <2>4, <2>7, <5>1, NextLineIs
        <4>5. p < q BY <1>4, <4>4
        <4> QED BY <1>2, <2>5, <2>10, <4>3, <4>5 DEF Advances
      <3> QED BY <3>1, <3>2
    <2> QED BY <1>1, <1>2, <2>13, <2>14, <2>15
  <1>11. CASE ~(bytes + Len(newline) <= space)
    <2>1. PICK w : w = PartOf(b, p, space, bytes) OBVIOUS
    <2>2. /\ w \in Nat /\ w <= space /\ w <= bytes /\ EndOfChar(b, p + w)
          /\ space > 1 /\ bytes > 0 => w > 0
      BY <1>3, <1>4, <1>5, <1>6, <2>1, PartThatFits
    <2>3. PICK q \in Nat : q = p + w /\ p <= q /\ q <= e /\ q <= n /\ q - p = w /\ q <= Len(b)
      <3>1. p + w \in Nat /\ p <= p + w /\ p + w <= e /\ p + w <= n /\ (p + w) - p = w /\ p + w <= Len(b)
        BY <1>4, <1>6, <2>2
      <3> QED BY <3>1
    <2>4. PICK line \in Text : line = SubSeq(b, p + 1, q) /\ Len(line) = w
      <3>1. SubSeq(b, p + 1, q) \in Text /\ Len(SubSeq(b, p + 1, q)) = q - p BY <1>1, <2>3, CutIs
      <3> QED BY <2>3, <3>1
    <2>5. PICK t : t = [s EXCEPT !.pos = q, !.bytes_partial = @ + w] OBVIOUS
    <2>6. r = [out |-> line, stream |-> t]
      <3>1. t = [s EXCEPT !.pos = @ + w, !.bytes_partial = @ + w] BY <1>2, <1>3, <2>3, <2>5 DEF InStreams
      <3> QED BY <1>1, <1>2, <1>4, <1>6, <1>7, <1>11, <2>1, <2>3, <2>4, <3>1 DEF ReadLine, PartOf
    <2>7. t \in InStreams /\ t.pos = q /\ t.newline_added = s.newline_added
      <3>1. s.bytes_partial + w \in Nat BY <1>3, <2>2 DEF InStreams
      <3>2. t \in InStreams /\ t.pos = q BY <1>3, <2>5, <3>1 DEF InStreams
      <3>3. t.newline_added = s.newline_added BY <1>3, <2>5, Zenon DEF InStreams
      <3> QED BY <3>2, <3>3
    <2>8. Unbroken(b, p, q)
      <3>1. \A i \in (p + 1)..q : i \in (p + 1)..e BY <2>3
      <3> QED BY <1>5, <3>1 DEF Unbroken
    <2>9. f[q] = f[p] \o line
      <3>1. f[q] = f[p] \o SubSeq(b, p + 1, q) BY <1>12, <2>3, <2>8 DEF Stretches
      <3> QED BY <2>4, <3>1
    <2>10. AtPlace(b, q) BY <1>1, <1>3, <2>3, <2>8, PlacesInLine
    <2>11. Marks(b, t) BY <2>2, <2>3, <2>7, <2>10 DEF Marks
    <2>12. r.out = line /\ r.stream = t BY <2>6
    <2>13. Reading(b, f, s, r) BY <1>2, <2>3, <2>4, <2>7, <2>9, <2>11, <2>12 DEF Reading
    <2>14. Len(r.out) <= space BY <2>2, <2>4, <2>12
    <2>15. ASSUME p < n, space > 1 PROVE Advances(s, r)
      <3>1. bytes > 0
        <4> SUFFICES ASSUME bytes = 0 PROVE FALSE OBVIOUS
        <4>1. Len(newline) <= 2
          <5>1. CASE e = n
            <6>1. newline = <<>> /\ Len(<<>>) = 0 BY <1>7, <5>1
            <6> QED BY <6>1
          <5>2. CASE e # n
            <6>1. newline = Newline(type) BY <1>7, <5>2
            <6>2. Len(Newline(type)) \in 1..2 BY NewlineIs
            <6>3. Len(newline) \in 1..2 BY <6>1, <6>2, Zenon
            <6>4. PICK m \in 1..2 : m = Len(newline) BY <6>3, Zenon
            <6>5. m <= 2 OBVIOUS
            <6> QED BY <6>4, <6>5
          <5> QED BY <5>1, <5>2
        <4> QED BY <1>9, <1>11, <2>15, <4>1
      <3>2. w > 0
        <4>1. space > 1 /\ bytes > 0 => w > 0 BY <2>2
        <4>2. space > 1 BY <2>15
        <4>3. bytes > 0 BY <3>1
        <4> QED BY <4>1, <4>2, <4>3
      <3>3. line # <<>>
        <4>1. Len(<<>>) = 0 /\ w # 0 BY <2>2, <3>2
        <4> QED BY <2>4, <4>1
      <3>4. p < q BY <2>3, <3>2
      <3> QED BY <1>2, <2>7, <2>12, <3>3, <3>4 DEF Advances
    <2> QED BY <1>1, <1>2, <2>13, <2>14, <2>15
  <1> QED BY <1>10, <1>11

\* The loop around it.
Lines == [out : Text, stream : InStreams, ends : BOOLEAN]
LinesRead(b, f, s, count, r) == r \in Lines /\ Reading(b, f, s, r) /\ Len(r.out) <= count
NothingRead(s) == [out |-> <<>>, stream |-> s, ends |-> FALSE]
ReadOn(b, type, count, r) ==
    LET line == ReadLine(b, type, r.stream, count - Len(r.out))
        out  == r.out \o line.out
    IN  IF r.ends THEN r
        ELSE [out |-> out, stream |-> line.stream,
              ends |-> \/ line.out = <<>> \/ Len(out) = count
                       \/ line.stream.bytes_partial # 0]

LEMMA NothingReadIs ==
    ASSUME NEW b \in Text, NEW type \in NewlineTypes, NEW f, IsNormal(f, b, type), NEW s, Marks(b, s),
           NEW count \in Nat
    PROVE  LinesRead(b, f, s, count, NothingRead(s))
  <1>1. PICK r : r = NothingRead(s) OBVIOUS
  <1>2. r.out = <<>> /\ r.stream = s /\ <<>> \in Text /\ Len(<<>>) = 0 BY <1>1 DEF NothingRead, Text
  <1>3. r \in Lines BY <1>1, <1>2 DEF NothingRead, Lines, Marks
  <1>4. PICK p \in Nat : p = s.pos /\ p \in 0..Len(b) BY DEF Marks, InStreams, AtPlace
  <1>5. f[p] \in Text BY <1>4 DEF IsNormal
  <1>6. f[p] = f[p] \o <<>> BY <1>5, JoinNone
  <1>7. Reading(b, f, s, r) BY <1>2, <1>4, <1>6 DEF Reading
  <1> QED BY <1>1, <1>2, <1>3, <1>7 DEF LinesRead

LEMMA ReadOnIs ==
    ASSUME NEW b \in Text, Wf(b), NEW type \in NewlineTypes, NEW f, IsNormal(f, b, type), NEW s, Marks(b, s),
           NEW count \in Nat, NEW r, LinesRead(b, f, s, count, r),
           NEW x, x = ReadOn(b, type, count, r)
    PROVE  /\ LinesRead(b, f, s, count, x)
           /\ Advances(s, r) => Advances(s, x)
           /\ r = NothingRead(s) /\ count > 1 /\ s.pos < Len(b) => Advances(s, x)
  <1>1. PICK out \in Text, t \in InStreams : out = r.out /\ t = r.stream
    BY DEF LinesRead, Reading, Marks
  <1>2. Marks(b, t) /\ Len(out) <= count BY <1>1 DEF LinesRead, Reading
  <1>3. PICK space \in Nat : space = count - Len(out) /\ Len(out) + space = count
    <2>1. Len(out) \in Nat BY DEF Text
    <2>2. count - Len(out) \in Nat /\ Len(out) + (count - Len(out)) = count BY <1>2, <2>1
    <2> QED BY <2>2
  <1>4. PICK line : line = ReadLine(b, type, t, space) OBVIOUS
  <1>0. IsNormal(f, b, type) OBVIOUS
  <1>5. /\ Reading(b, f, t, line) /\ Len(line.out) <= space
        /\ space > 1 /\ t.pos < Len(b) => Advances(t, line)
    BY <1>0, <1>2, <1>4, ReadLineIs
  <1>6. CASE r.ends
    <2>1. x = r BY <1>6 DEF ReadOn
    <2>2. r # NothingRead(s) BY <1>6 DEF NothingRead
    <2> QED BY <2>1, <2>2
  <1>7. CASE ~r.ends
    <2>1. PICK added \in Text, u \in InStreams : added = line.out /\ u = line.stream
      BY <1>5 DEF Reading, Marks
    <2>2. PICK all \in Text : all = out \o added /\ Len(all) = Len(out) + Len(added)
      BY JoinedIs
    <2>3. x.out = all /\ x.stream = u /\ x \in Lines
      <3>1. PICK ends \in BOOLEAN : x = [out |-> all, stream |-> u, ends |-> ends]
        BY <1>1, <1>3, <1>4, <1>7, <2>1, <2>2 DEF ReadOn
      <3> QED BY <3>1 DEF Lines
    <2>4. Len(all) <= count
      <3>1. Len(out) \in Nat /\ Len(added) \in Nat BY DEF Text
      <3>2. Len(added) <= space BY <1>5, <2>1
      <3>3. Len(out) + Len(added) <= count BY <1>3, <3>1, <3>2
      <3> QED BY <2>2, <3>3
    <2>5. PICK p \in Nat, q \in Nat, v \in Nat : p = s.pos /\ q = t.pos /\ v = u.pos
      BY DEF Marks, InStreams
    <2>6. p <= q /\ q <= v /\ p \in 0..Len(b)
      <3>1. p <= q BY <1>1, <2>5 DEF LinesRead, Reading
      <3>2. q <= v BY <1>5, <2>1, <2>5 DEF Reading
      <3> QED BY <2>5, <3>1, <3>2 DEF Marks, AtPlace
    <2>7. f[q] = f[p] \o out /\ f[v] = f[q] \o added
      <3>1. f[q] = f[p] \o out BY <1>1, <2>5 DEF LinesRead, Reading
      <3>2. f[v] = f[q] \o added BY <1>5, <2>1, <2>5 DEF Reading
      <3> QED BY <3>1, <3>2
    <2>8. f[v] = f[p] \o all
      <3>1. PICK a \in Text : a = f[p] BY <2>6 DEF IsNormal
      <3>2. (a \o out) \o added = a \o (out \o added) BY JoinThree
      <3> QED BY <2>2, <2>7, <3>1, <3>2
    <2>9. Reading(b, f, s, x)
      <3>1. Marks(b, u) BY <1>5, <2>1 DEF Reading
      <3>2. u.newline_added = s.newline_added BY <1>1, <1>5, <2>1, Zenon DEF LinesRead, Reading
      <3>3. p <= v BY <2>6
      <3> QED BY <2>3, <2>5, <2>8, <3>1, <3>2, <3>3 DEF Reading
    <2>10. LinesRead(b, f, s, count, x) BY <2>3, <2>4, <2>9 DEF LinesRead
    <2>11. ASSUME Advances(s, r) PROVE Advances(s, x)
      <3>1. p < q /\ out # <<>> BY <1>1, <2>5, <2>11 DEF Advances
      <3>2. p < v BY <2>6, <3>1
      <3>3. all # <<>>
        <4>1. Len(out) # 0 BY <3>1, EmptySeq DEF Text
        <4>2. Len(all) # 0
          <5>1. Len(out) \in Nat /\ Len(added) \in Nat BY DEF Text
          <5> QED BY <2>2, <4>1, <5>1
        <4> QED BY <4>2
      <3> QED BY <2>3, <2>5, <3>2, <3>3 DEF Advances
    <2>12. ASSUME r = NothingRead(s), count > 1, s.pos < Len(b) PROVE Advances(s, x)
      <3>1. out = <<>> /\ t = s /\ Len(<<>>) = 0 BY <1>1, <2>12 DEF NothingRead
      <3>2. space = count BY <1>3, <3>1
      <3>3. Advances(t, line) BY <1>5, <2>12, <3>1, <3>2
      <3>4. added # <<>> /\ q < v BY <2>1, <2>5, <3>3 DEF Advances
      <3>5. p = q BY <2>5, <3>1
      <3>6. all = added BY <2>2, <3>1, JoinNone
      <3> QED BY <2>3, <2>5, <3>4, <3>5, <3>6 DEF Advances
    <2> QED BY <2>10, <2>11, <2>12
  <1> QED BY <1>6, <1>7

LEMMA ReadLinesIs ==
    ASSUME NEW b \in Text, Wf(b), NEW type \in NewlineTypes, NEW f, IsNormal(f, b, type), NEW s, Marks(b, s),
           NEW count \in Nat, count > 1, NEW r, r = ReadLines(b, type, s, count)
    PROVE  /\ Reading(b, f, s, r) /\ Len(r.out) <= count
           /\ s.pos < Len(b) => Advances(s, r)
  <1> DEFINE Step(v) ==
                 LET line == ReadLine(b, type, v.stream, count - Len(v.out))
                     out  == v.out \o line.out
                 IN  IF v.ends THEN v
                     ELSE [out |-> out, stream |-> line.stream,
                           ends |-> \/ line.out = <<>> \/ Len(out) = count
                                    \/ line.stream.bytes_partial # 0]
             after == CHOOSE g : g = [k \in 0..count |->
                                         IF k = 0 THEN [out |-> <<>>, stream |-> s, ends |-> FALSE]
                                         ELSE Step(g[k - 1])]
             Good(v, k) == /\ LinesRead(b, f, s, count, v)
                           /\ k > 0 /\ s.pos < Len(b) => Advances(s, v)
                           /\ k = 0 => v = NothingRead(s)
             S == [k \in 0..count |-> {v \in Lines : Good(v, k)}]
             h == [k \in 1..count |-> [v \in Lines |-> Step(v)]]
             a == NothingRead(s)
  <1>0. IsNormal(f, b, type) /\ Marks(b, s) /\ Wf(b) OBVIOUS
  <1>1. r = [out |-> after[count].out, stream |-> after[count].stream] BY Zenon DEF ReadLines
  <1>2. \A v : Step(v) = ReadOn(b, type, count, v) BY DEF ReadOn
  <1>3. Good(a, 0) BY <1>0, NothingReadIs
  <1>4. ASSUME NEW k \in 1..count, NEW v, Good(v, k - 1) PROVE Good(Step(v), k)
    <2>1. LinesRead(b, f, s, count, v) BY <1>4
    <2>2. PICK w : w = ReadOn(b, type, count, v) /\ w = Step(v) BY <1>2
    <2> HIDE DEF Step
    <2>3. /\ LinesRead(b, f, s, count, w)
          /\ Advances(s, v) => Advances(s, w)
          /\ v = NothingRead(s) /\ count > 1 /\ s.pos < Len(b) => Advances(s, w)
      BY <1>0, <2>1, <2>2, ReadOnIs
    <2>4. k > 0 /\ k # 0 /\ (k - 1 > 0 \/ k - 1 = 0) OBVIOUS
    <2>5. s.pos < Len(b) => Advances(s, w) BY <1>4, <2>3, <2>4
    <2> QED BY <2>2, <2>3, <2>4, <2>5
  <1>6. \A v, k : Good(v, k) => v \in Lines BY DEF LinesRead
  <1>5. a = [out |-> <<>>, stream |-> s, ends |-> FALSE] BY DEF NothingRead
  <1> HIDE DEF Step, Good, a
  <1>7. /\ \A v : \A k \in 0..count : v \in S[k] <=> Good(v, k)
        /\ \A k \in 1..count : \A v \in S[k - 1] : h[k][v] = Step(v) /\ Step(v) \in S[k]
    <2>1. \A v : \A k \in 0..count : v \in S[k] <=> Good(v, k) BY <1>6
    <2>3. \A k \in 1..count : k \in 0..count /\ k - 1 \in 0..count OBVIOUS
    <2>4. \A k \in 1..count : \A v \in Lines : h[k][v] = Step(v) OBVIOUS
    <2> HIDE DEF S, h
    <2>2. \A k \in 1..count : \A v \in S[k - 1] : h[k][v] = Step(v) BY <1>6, <2>1, <2>3, <2>4
    <2> QED BY <1>4, <2>1, <2>2, <2>3
  <1> HIDE DEF S, h
  <1>8. IsChain(S, h, count) BY <1>7 DEF IsChain
  <1>9. a \in S[0] BY <1>3, <1>7
  <1>10. after = [k \in 0..count |-> IF k = 0 THEN a ELSE Step(after[k - 1])]
    <2>1. PICK g : IsRun(g, a, h, count) /\ \A k \in 0..count : g[k] \in S[k]
      BY <1>8, <1>9, ChainExists
    <2>2. \A k \in 0..count : k # 0 => h[k][g[k - 1]] = Step(g[k - 1])
      <3>1. \A k \in 0..count : k # 0 => k \in 1..count /\ k - 1 \in 0..count OBVIOUS
      <3> QED BY <1>7, <2>1, <3>1
    <2>3. g = [k \in 0..count |-> IF k = 0 THEN [out |-> <<>>, stream |-> s, ends |-> FALSE]
                                  ELSE Step(g[k - 1])]
      BY <1>5, <2>1, <2>2 DEF IsRun
    <2>4. after = [k \in 0..count |-> IF k = 0 THEN [out |-> <<>>, stream |-> s, ends |-> FALSE]
                                      ELSE Step(after[k - 1])]
      BY <2>3
    <2> HIDE DEF after
    <2> QED BY <1>5, <2>4
  <1> HIDE DEF after
  <1>11. after[0] = a /\ \A k \in 1..count : after[k] = Step(after[k - 1])
    <2>1. 0 \in 0..count /\ \A k \in 1..count : k \in 0..count /\ k # 0 OBVIOUS
    <2> QED BY <1>10, <2>1
  <1>12. \A k \in 1..count : after[k - 1] \in S[k - 1] => after[k] = h[k][after[k - 1]] BY <1>7, <1>11
  <1>13. \A k \in 0..count : after[k] \in S[k] BY <1>8, <1>9, <1>11, <1>12, ChainStays
  <1>14. PICK x : x = after[count] OBVIOUS
  <1>15. Good(x, count) BY <1>7, <1>13, <1>14
  <1>16. LinesRead(b, f, s, count, x) /\ (s.pos < Len(b) => Advances(s, x)) BY <1>15 DEF Good
  <1>17. r.out = x.out /\ r.stream = x.stream BY <1>1, <1>14
  <1>18. Reading(b, f, s, x) /\ Len(x.out) <= count BY <1>16, Zenon DEF LinesRead
  <1>19. Reading(b, f, s, r) BY <1>17, <1>18, Zenon DEF Reading
  <1>20. Advances(s, x) => Advances(s, r) BY <1>17, Zenon DEF Advances
  <1> QED BY <1>16, <1>17, <1>18, <1>19, <1>20, Zenon

\* The newline after the last line: what was written when the mark is there.
WrittenAs(f, type, s) == IF s.newline_added THEN f[s.pos] \o Newline(type) ELSE f[s.pos]
Going(b, s) == Marks(b, s) /\ (s.newline_added => s.pos = Len(b) /\ b # <<>>)
Finished(b, s) == s.pos = Len(b) /\ (s.newline_added \/ b = <<>>)
Reached(s) == IF s.newline_added THEN s.pos + 1 ELSE s.pos

LEMMA NothingMore ==
    ASSUME NEW b \in Text, NEW type \in NewlineTypes, NEW f, IsNormal(f, b, type), NEW s, NEW r,
           Reading(b, f, s, r), s.pos = Len(b)
    PROVE  r.out = <<>> /\ r.stream.pos = Len(b)
  <1>1. PICK n \in Nat : n = Len(b) BY DEF Text
  <1>2. PICK q \in Nat : q = r.stream.pos /\ q <= n BY <1>1 DEF Reading, Marks, InStreams, AtPlace
  <1>3. n <= q BY <1>1, <1>2 DEF Reading
  <1>4. q = n BY <1>2, <1>3
  <1>5. PICK a \in Text, out \in Text : a = f[n] /\ out = r.out
    <2>1. n \in 0..Len(b) BY <1>1
    <2>2. f[n] \in Text BY <2>1 DEF IsNormal
    <2>3. r.out \in Text BY DEF Reading
    <2> QED BY <2>2, <2>3
  <1>6. a = a \o out BY <1>1, <1>2, <1>4, <1>5 DEF Reading
  <1>7. Len(a \o out) = Len(a) + Len(out) BY JoinedIs
  <1>8. Len(a) \in Nat /\ Len(out) \in Nat BY DEF Text
  <1>9. Len(out) = 0 BY <1>6, <1>7, <1>8
  <1>10. out = <<>> BY <1>9, EmptySeq DEF Text
  <1> QED BY <1>1, <1>2, <1>4, <1>5, <1>10

\* What a read leaves written, and that it goes on.
ReadsFrom(b, type, f, s, r) ==
    /\ Going(b, r.stream) /\ r.out \in Text
    /\ WrittenAs(f, type, r.stream) = WrittenAs(f, type, s) \o r.out
    /\ Finished(b, s) => Finished(b, r.stream)
    /\ ~Finished(b, s) => r.out # <<>> /\ Reached(s) < Reached(r.stream)

LEMMA ReadIs ==
    ASSUME NEW b \in Text, Wf(b), NEW type \in NewlineTypes, NEW f, IsNormal(f, b, type), NEW s, Going(b, s),
           NEW count \in Nat, count > 1, NEW r, r = Read(b, type, s, count)
    PROVE  ReadsFrom(b, type, f, s, r)
  <1>0. IsNormal(f, b, type) /\ Marks(b, s) BY DEF Going
  <1>1. PICK l : l = ReadLines(b, type, s, count) OBVIOUS
  <1>2. Reading(b, f, s, l) /\ Len(l.out) <= count /\ (s.pos < Len(b) => Advances(s, l))
    BY <1>0, <1>1, ReadLinesIs
  <1>3. PICK p \in Nat, n \in Nat : p = s.pos /\ n = Len(b) /\ p <= n
    <2>1. s.pos \in Nat /\ Len(b) \in Nat BY <1>0 DEF Marks, InStreams, Text
    <2>2. s.pos <= Len(b) BY <1>0, <2>1 DEF Marks, AtPlace
    <2> QED BY <2>1, <2>2
  <1>4. PICK out \in Text, t \in InStreams : out = l.out /\ t = l.stream BY <1>2 DEF Reading, Marks
  <1>5. PICK q \in Nat : q = t.pos /\ p <= q /\ q <= n
    <2>1. t.pos \in Nat BY DEF InStreams
    <2>2. p <= t.pos BY <1>2, <1>3, <1>4 DEF Reading
    <2>3. t.pos \in 0..n BY <1>2, <1>3, <1>4 DEF Reading, Marks, AtPlace
    <2> QED BY <2>1, <2>2, <2>3
  <1>6. PICK a \in Text, c \in Text : a = f[p] /\ c = f[q]
    <2>1. p \in 0..Len(b) /\ q \in 0..Len(b) BY <1>3, <1>5
    <2> QED BY <1>0, <2>1 DEF IsNormal
  <1>7. c = a \o out BY <1>2, <1>3, <1>4, <1>5, <1>6 DEF Reading
  <1>8. t.newline_added = s.newline_added BY <1>2, <1>4, Zenon DEF Reading
  <1>9. PICK newline \in Text : newline = Newline(type) /\ newline # <<>> BY NewlineIs
  <1>10. PICK size \in 1..2 : size = Len(newline)
    <2>1. Len(Newline(type)) \in 1..2 BY NewlineIs
    <2> QED BY <1>9, <2>1, Zenon
  <1>11. PICK space : space = count - Len(out) OBVIOUS
  <1> DEFINE Adds == q = n /\ q # 0 /\ space >= size /\ ~s.newline_added
  <1>12. r = IF Adds THEN [out |-> out \o newline, stream |-> [t EXCEPT !.newline_added = TRUE]] ELSE l
    <2>1. /\ t.pos = Len(b) <=> q = n
          /\ t.pos # 0 <=> q # 0
          /\ space >= Len(Newline(type)) <=> space >= size
          /\ t.newline_added <=> s.newline_added
      BY <1>3, <1>5, <1>8, <1>9, <1>10, Zenon
    <2>2. r = IF /\ l.stream.pos = Len(b) /\ l.stream.pos # 0
                 /\ count - Len(l.out) >= Len(Newline(type)) /\ ~l.stream.newline_added
              THEN [out |-> l.out \o Newline(type), stream |-> [l.stream EXCEPT !.newline_added = TRUE]]
              ELSE l
      BY <1>1, Zenon DEF Read
    <2> QED BY <1>4, <1>9, <1>11, <2>1, <2>2, Zenon
  <1>13. CASE Adds
    <2>1. PICK x : x = [t EXCEPT !.newline_added = TRUE] OBVIOUS
    <2>2. x \in InStreams /\ x.pos = q /\ x.newline_added = TRUE BY <1>5, <2>1 DEF InStreams
    <2>3. r.out = out \o newline /\ r.stream = x BY <1>12, <1>13, <2>1
    <2>4. ~s.newline_added /\ q = n /\ n # 0 BY <1>13
    <2>5. Marks(b, t) BY <1>2, <1>4 DEF Reading
    <2>6. Marks(b, x) BY <1>5, <2>2, <2>5 DEF Marks
    <2>7. b # <<>>
      <3>1. Len(<<>>) = 0 OBVIOUS
      <3> QED BY <1>3, <2>4, <3>1
    <2>8. Going(b, x) BY <1>3, <2>2, <2>4, <2>6, <2>7 DEF Going
    <2>9. out \o newline \in Text /\ out \o newline # <<>>
      <3>1. out \o newline \in Text /\ Len(out \o newline) = Len(out) + Len(newline) BY JoinedIs
      <3>2. Len(out) \in Nat BY DEF Text
      <3>3. Len(out \o newline) # 0 BY <1>10, <3>1, <3>2
      <3> QED BY <3>1, <3>3
    <2>10. WrittenAs(f, type, x) = WrittenAs(f, type, s) \o (out \o newline)
      <3>1. WrittenAs(f, type, s) = a BY <1>3, <1>6, <2>4 DEF WrittenAs
      <3>2. WrittenAs(f, type, x) = c \o newline BY <1>6, <1>9, <2>2 DEF WrittenAs
      <3>3. (a \o out) \o newline = a \o (out \o newline) BY JoinThree
      <3> QED BY <1>7, <3>1, <3>2, <3>3
    <2>11. Finished(b, x) BY <1>3, <2>2, <2>4 DEF Finished
    <2>12. Reached(s) < Reached(x)
      <3>1. Reached(s) = p BY <1>3, <2>4 DEF Reached
      <3>2. Reached(x) = q + 1 BY <2>2 DEF Reached
      <3> QED BY <1>5, <3>1, <3>2
    <2> QED BY <2>3, <2>8, <2>9, <2>10, <2>11, <2>12 DEF ReadsFrom
  <1>14. CASE ~Adds
    <2>1. r.out = out /\ r.stream = t BY <1>4, <1>12, <1>14
    <2>2. Marks(b, t) BY <1>2, <1>4 DEF Reading
    <2>3. ASSUME p = n PROVE out = <<>> /\ q = n
      <3>1. s.pos = Len(b) BY <1>3, <2>3
      <3>2. l.out = <<>> /\ l.stream.pos = Len(b) BY <1>0, <1>2, <3>1, NothingMore
      <3> QED BY <1>3, <1>4, <1>5, <3>2
    <2>4. s.newline_added => p = n /\ b # <<>> BY <1>3 DEF Going
    <2>5. Going(b, t)
      <3>1. t.newline_added => t.pos = Len(b) /\ b # <<>> BY <1>3, <1>5, <1>8, <2>3, <2>4, Zenon
      <3> QED BY <2>2, <3>1 DEF Going
    <2>6. WrittenAs(f, type, t) = WrittenAs(f, type, s) \o out
      <3>1. CASE s.newline_added
        <4>1. p = n /\ out = <<>> /\ q = n BY <2>3, <2>4, <3>1
        <4>2. t.newline_added BY <1>8, <3>1, Zenon
        <4>3. WrittenAs(f, type, t) = c \o newline BY <1>5, <1>6, <1>9, <4>2 DEF WrittenAs
        <4>4. WrittenAs(f, type, s) = a \o newline BY <1>3, <1>6, <1>9, <3>1 DEF WrittenAs
        <4>5. PICK all \in Text : all = a \o newline BY JoinedIs
        <4>6. all \o <<>> = all BY JoinNone
        <4> QED BY <1>6, <4>1, <4>3, <4>4, <4>5, <4>6
      <3>2. CASE ~s.newline_added
        <4>1. ~t.newline_added BY <1>8, <3>2, Zenon
        <4>2. WrittenAs(f, type, t) = c BY <1>5, <1>6, <4>1 DEF WrittenAs
        <4>3. WrittenAs(f, type, s) = a BY <1>3, <1>6, <3>2 DEF WrittenAs
        <4> QED BY <1>7, <4>2, <4>3
      <3> QED BY <3>1, <3>2
    <2>7. ASSUME Finished(b, s) PROVE Finished(b, t)
      <3>1. p = n /\ (s.newline_added \/ b = <<>>) BY <1>3, <2>7 DEF Finished
      <3>2. t.newline_added \/ b = <<>> BY <1>8, <3>1, Zenon
      <3> QED BY <1>3, <1>5, <2>3, <3>1, <3>2 DEF Finished
    <2>8. ASSUME ~Finished(b, s) PROVE out # <<>> /\ Reached(s) < Reached(t)
      <3>1. p < n
        <4> SUFFICES ASSUME p = n PROVE FALSE BY <1>3
        <4>1. ~s.newline_added /\ b # <<>> BY <1>3, <2>8 DEF Finished
        <4>2. out = <<>> /\ q = n BY <2>3
        <4>3. n # 0 BY <1>3, <4>1, EmptySeq DEF Text
        <4>4. space = count
          <5>1. Len(<<>>) = 0 OBVIOUS
          <5> QED BY <1>11, <4>2, <5>1
        <4>5. space >= size BY <4>4
        <4> QED BY <1>14, <4>1, <4>2, <4>3, <4>5
      <3>2. Advances(s, l) BY <1>2, <1>3, <3>1
      <3>3. out # <<>> /\ p < q BY <1>3, <1>4, <1>5, <3>2 DEF Advances
      <3>4. ~s.newline_added BY <2>4, <3>1
      <3>5. ~t.newline_added BY <1>8, <3>4, Zenon
      <3>6. Reached(s) = p /\ Reached(t) = q BY <1>3, <1>5, <3>4, <3>5 DEF Reached
      <3> QED BY <3>3, <3>6
    <2> QED BY <2>1, <2>5, <2>6, <2>7, <2>8 DEF ReadsFrom
  <1> HIDE DEF Adds
  <1> QED BY <1>13, <1>14

\* The loop of the saver.
Written == [out : Text, stream : InStreams]
WrittenSoFar(b, type, f, w, k) ==
    /\ w \in Written /\ Going(b, w.stream) /\ w.out = WrittenAs(f, type, w.stream)
    /\ Finished(b, w.stream) \/ k <= Reached(w.stream)
NothingWritten == [out |-> <<>>, stream |-> NewInputStream]
WriteOn(b, type, count, w) ==
    LET r == Read(b, type, w.stream, count)
    IN  IF r.out = <<>> THEN w ELSE [out |-> w.out \o r.out, stream |-> r.stream]

LEMMA NothingWrittenIs ==
    ASSUME NEW b \in Text, Wf(b), NEW type \in NewlineTypes, NEW f, IsNormal(f, b, type)
    PROVE  WrittenSoFar(b, type, f, NothingWritten, 0)
  <1>1. PICK s \in InStreams : s = NewInputStream /\ s.pos = 0 /\ s.newline_added = FALSE
    <2>1. NewInputStream.pos = 0 /\ NewInputStream.newline_added = FALSE BY Zenon DEF NewInputStream
    <2>2. NewInputStream \in InStreams BY DEF NewInputStream, InStreams
    <2> QED BY <2>1, <2>2
  <1>2. 0 \in 0..Len(b)
    <2>1. Len(b) \in Nat BY DEF Text
    <2> QED BY <2>1
  <1>3. AtPlace(b, 0) /\ EndOfChar(b, 0) BY <1>2, CharEnds DEF AtPlace
  <1>4. Going(b, s) BY <1>1, <1>3 DEF Going, Marks
  <1>5. WrittenAs(f, type, s) = <<>> BY <1>1 DEF WrittenAs, IsNormal
  <1>6. Reached(s) = 0 BY <1>1 DEF Reached
  <1>7. PICK w : w = NothingWritten /\ w.out = <<>> /\ w.stream = s
    <2>1. NothingWritten.out = <<>> /\ NothingWritten.stream = NewInputStream BY Zenon DEF NothingWritten
    <2> QED BY <1>1, <2>1
  <1>8. w \in Written
    <2>1. <<>> \in Text BY DEF Text
    <2> QED BY <1>1, <1>7, <2>1 DEF NothingWritten, Written
  <1> QED BY <1>4, <1>5, <1>6, <1>7, <1>8 DEF WrittenSoFar

LEMMA WriteOnIs ==
    ASSUME NEW b \in Text, Wf(b), NEW type \in NewlineTypes, NEW f, IsNormal(f, b, type), NEW count \in Nat, count > 1,
           NEW k \in Nat, NEW w, WrittenSoFar(b, type, f, w, k), NEW x, x = WriteOn(b, type, count, w)
    PROVE  WrittenSoFar(b, type, f, x, k + 1)
  <1>0. IsNormal(f, b, type) /\ Wf(b) OBVIOUS
  <1>1. PICK s \in InStreams, out \in Text : s = w.stream /\ out = w.out
    BY DEF WrittenSoFar, Written
  <1>2. /\ Going(b, s) /\ out = WrittenAs(f, type, s)
        /\ Finished(b, s) \/ k <= Reached(s)
    BY <1>1 DEF WrittenSoFar
  <1>3. PICK r : r = Read(b, type, s, count) OBVIOUS
  <1>4. /\ Going(b, r.stream) /\ r.out \in Text
        /\ WrittenAs(f, type, r.stream) = WrittenAs(f, type, s) \o r.out
        /\ Finished(b, s) => Finished(b, r.stream)
        /\ ~Finished(b, s) => r.out # <<>> /\ Reached(s) < Reached(r.stream)
    <2>1. ReadsFrom(b, type, f, s, r) BY <1>0, <1>2, <1>3, ReadIs
    <2> QED BY <2>1 DEF ReadsFrom
  <1>5. PICK t \in InStreams, more \in Text : t = r.stream /\ more = r.out BY <1>4 DEF Going, Marks
  <1>6. CASE more = <<>>
    <2>1. x = w BY <1>1, <1>3, <1>5, <1>6 DEF WriteOn
    <2>2. Finished(b, s) BY <1>4, <1>5, <1>6
    <2> QED BY <1>1, <2>1, <2>2 DEF WrittenSoFar
  <1>7. CASE more # <<>>
    <2>1. x = [out |-> out \o more, stream |-> t] BY <1>1, <1>3, <1>5, <1>7 DEF WriteOn
    <2>2. out \o more \in Text BY JoinedIs
    <2>3. x \in Written /\ x.out = out \o more /\ x.stream = t BY <2>1, <2>2 DEF Written
    <2>4. x.out = WrittenAs(f, type, t) BY <1>2, <1>4, <1>5, <2>3
    <2>5. Finished(b, t) \/ k + 1 <= Reached(t)
      <3>1. CASE Finished(b, s) BY <1>4, <1>5, <3>1
      <3>2. CASE ~Finished(b, s)
        <4>1. k <= Reached(s) /\ Reached(s) < Reached(t) BY <1>2, <1>4, <1>5, <3>2
        <4>2. PICK u \in Nat, v \in Nat : u = Reached(s) /\ v = Reached(t)
          <5>1. s.pos \in Nat /\ t.pos \in Nat BY DEF InStreams
          <5>2. s.pos + 1 \in Nat /\ t.pos + 1 \in Nat BY <5>1
          <5>3. Reached(s) \in Nat /\ Reached(t) \in Nat BY <5>1, <5>2, Zenon DEF Reached
          <5> QED BY <5>3
        <4>3. k + 1 <= v BY <4>1, <4>2
        <4> QED BY <4>2, <4>3
      <3> QED BY <3>1, <3>2
    <2> QED BY <1>4, <1>5, <2>3, <2>4, <2>5 DEF WrittenSoFar
  <1> QED BY <1>6, <1>7

\* At the end everything was written.
LEMMA WrittenInFull ==
    ASSUME NEW b \in Text, NEW type \in NewlineTypes, NEW f, IsNormal(f, b, type), NEW w,
           WrittenSoFar(b, type, f, w, Len(b) + 1)
    PROVE  w.out = IF b = <<>> THEN <<>> ELSE f[Len(b)] \o Newline(type)
  <1>1. PICK n \in Nat : n = Len(b) BY DEF Text
  <1>2. PICK s \in InStreams : s = w.stream /\ Going(b, s) /\ w.out = WrittenAs(f, type, s)
    BY DEF WrittenSoFar, Written
  <1>3. Finished(b, s) \/ n + 1 <= Reached(s) BY <1>1, <1>2 DEF WrittenSoFar
  <1>4. PICK p \in Nat : p = s.pos /\ p <= n
    <2>1. s.pos \in Nat BY DEF InStreams
    <2>2. s.pos \in 0..n BY <1>1, <1>2 DEF Going, Marks, AtPlace
    <2> QED BY <2>1, <2>2
  <1>5. CASE s.newline_added
    <2>1. p = n /\ b # <<>> BY <1>1, <1>2, <1>4, <1>5 DEF Going
    <2>2. w.out = f[n] \o Newline(type) BY <1>2, <1>4, <1>5, <2>1 DEF WrittenAs
    <2> QED BY <1>1, <2>1, <2>2
  <1>6. CASE ~s.newline_added
    <2>1. Finished(b, s)
      <3>1. Reached(s) = p BY <1>4, <1>6 DEF Reached
      <3>2. ~(n + 1 <= Reached(s)) BY <1>4, <3>1
      <3> QED BY <1>3, <3>2
    <2>2. b = <<>> /\ p = n BY <1>1, <1>4, <1>6, <2>1 DEF Finished
    <2>3. n = 0
      <3>1. Len(<<>>) = 0 OBVIOUS
      <3> QED BY <1>1, <2>2, <3>1
    <2>4. w.out = f[0] BY <1>2, <1>4, <1>6, <2>2, <2>3 DEF WrittenAs
    <2> QED BY <2>2, <2>4 DEF IsNormal
  <1> QED BY <1>5, <1>6

\* Everything a saver writes, for every count that takes a line end or a character.
LEMMA SavedIs ==
    ASSUME NEW b \in Text, Wf(b), NEW type \in NewlineTypes, NEW count \in Nat, count > 1
    PROVE  Saved(b, type, count) = IF b = <<>> THEN <<>> ELSE Normal(b, type) \o Newline(type)
  <1> DEFINE n == Len(b) + 1
             Step(v) ==
                 LET x == Read(b, type, v.stream, count)
                 IN  IF x.out = <<>> THEN v ELSE [out |-> v.out \o x.out, stream |-> x.stream]
             after == CHOOSE g : g = [k \in 0..(Len(b) + 1) |->
                                         IF k = 0 THEN [out |-> <<>>, stream |-> NewInputStream]
                                         ELSE Step(g[k - 1])]
  <1>1. PICK f : IsNormal(f, b, type) /\ Normal(b, type) = f[Len(b)] BY NormalMade
  <1> DEFINE Good(v, k) == WrittenSoFar(b, type, f, v, k)
             S == [k \in 0..n |-> {v \in Written : Good(v, k)}]
             h == [k \in 1..n |-> [v \in Written |-> Step(v)]]
             a == NothingWritten
  <1>0. IsNormal(f, b, type) /\ Wf(b) /\ n \in Nat
    <2>1. Len(b) \in Nat BY DEF Text
    <2> QED BY <1>1, <2>1
  <1>2. Saved(b, type, count) = after[n].out BY Zenon DEF Saved
  <1>3. \A v : Step(v) = WriteOn(b, type, count, v) BY DEF WriteOn
  <1>4. Good(a, 0) BY <1>0, NothingWrittenIs
  <1>5. a = [out |-> <<>>, stream |-> NewInputStream] BY DEF NothingWritten
  <1> HIDE DEF Step, n
  <1>6. ASSUME NEW k \in 1..n, NEW v, Good(v, k - 1) PROVE Good(Step(v), k)
    <2>1. PICK m \in Nat : m = k - 1 /\ m + 1 = k
      <3>1. k - 1 \in Nat /\ (k - 1) + 1 = k BY <1>0
      <3> QED BY <3>1
    <2>2. WrittenSoFar(b, type, f, v, m) BY <1>6, <2>1
    <2>3. PICK x : x = WriteOn(b, type, count, v) /\ x = Step(v) BY <1>3
    <2>4. WrittenSoFar(b, type, f, x, m + 1) BY <1>0, <2>2, <2>3, WriteOnIs
    <2> QED BY <2>1, <2>3, <2>4
  <1>7. \A v, k : Good(v, k) => v \in Written BY DEF WrittenSoFar
  <1> HIDE DEF Good, a
  <1>8. /\ \A v : \A k \in 0..n : v \in S[k] <=> Good(v, k)
        /\ \A k \in 1..n : \A v \in S[k - 1] : h[k][v] = Step(v) /\ Step(v) \in S[k]
    <2>1. \A v : \A k \in 0..n : v \in S[k] <=> Good(v, k) BY <1>7
    <2>2. \A k \in 1..n : k \in 0..n /\ k - 1 \in 0..n BY <1>0
    <2>3. \A k \in 1..n : \A v \in Written : h[k][v] = Step(v) OBVIOUS
    <2> HIDE DEF S, h
    <2>4. \A k \in 1..n : \A v \in S[k - 1] : h[k][v] = Step(v) BY <1>7, <2>1, <2>2, <2>3
    <2> QED BY <1>6, <2>1, <2>2, <2>4
  <1> HIDE DEF S, h
  <1>9. IsChain(S, h, n) BY <1>8 DEF IsChain
  <1>10. a \in S[0] BY <1>0, <1>4, <1>8
  <1>11. after = [k \in 0..n |-> IF k = 0 THEN a ELSE Step(after[k - 1])]
    <2>1. PICK g : IsRun(g, a, h, n) /\ \A k \in 0..n : g[k] \in S[k]
      BY <1>0, <1>9, <1>10, ChainExists
    <2>2. \A k \in 0..n : k # 0 => h[k][g[k - 1]] = Step(g[k - 1])
      <3>1. \A k \in 0..n : k # 0 => k \in 1..n /\ k - 1 \in 0..n BY <1>0
      <3> QED BY <1>8, <2>1, <3>1
    <2>3. g = [k \in 0..n |-> IF k = 0 THEN [out |-> <<>>, stream |-> NewInputStream] ELSE Step(g[k - 1])]
      BY <1>5, <2>1, <2>2 DEF IsRun
    <2>4. after = [k \in 0..n |-> IF k = 0 THEN [out |-> <<>>, stream |-> NewInputStream]
                                  ELSE Step(after[k - 1])]
      BY <2>3 DEF n
    <2> HIDE DEF after
    <2> QED BY <1>5, <2>4
  <1> HIDE DEF after
  <1>12. after[0] = a /\ \A k \in 1..n : after[k] = Step(after[k - 1])
    <2>1. 0 \in 0..n /\ \A k \in 1..n : k \in 0..n /\ k # 0 BY <1>0
    <2> QED BY <1>11, <2>1
  <1>13. \A k \in 1..n : after[k - 1] \in S[k - 1] => after[k] = h[k][after[k - 1]] BY <1>8, <1>12
  <1>14. \A k \in 0..n : after[k] \in S[k] BY <1>0, <1>9, <1>10, <1>12, <1>13, ChainStays
  <1>15. PICK w : w = after[n] OBVIOUS
  <1>16. Good(w, n)
    <2>1. n \in 0..n BY <1>0
    <2> QED BY <1>8, <1>14, <1>15, <2>1
  <1>17. WrittenSoFar(b, type, f, w, Len(b) + 1) BY <1>16 DEF Good, n
  <1>18. w.out = IF b = <<>> THEN <<>> ELSE f[Len(b)] \o Newline(type) BY <1>0, <1>17, WrittenInFull
  <1> QED BY <1>1, <1>2, <1>15, <1>18

-----------------------------------------------------------------------------
(***************************************************************************)
(* What is written is read back.                                           *)
(***************************************************************************)
\* The line ends of a text are all of one type.
OneType(t, type) ==
    /\ type = "LF" => \A i \in 1..Len(t) : t[i] # CR
    /\ type = "CR" => \A i \in 1..Len(t) : t[i] # LF
    /\ type = "CR_LF" => \A i \in 1..Len(t) : /\ t[i] = CR => i < Len(t) /\ t[i + 1] = LF
                                              /\ t[i] = LF => i > 1 /\ t[i - 1] = CR

LEMMA OneTypeJoin ==
    ASSUME NEW a \in Text, NEW b \in Text, NEW type, OneType(a, type), OneType(b, type)
    PROVE  OneType(a \o b, type)
  <1>1. PICK m \in Nat, n \in Nat : m = Len(a) /\ n = Len(b) BY DEF Text
  <1>2. PICK j \in Text : j = a \o b /\ Len(j) = m + n BY <1>1, JoinedIs
  <1>3. (\A i \in 1..m : j[i] = a[i]) /\ \A i \in 1..n : j[m + i] = b[i] BY <1>1, <1>2, JoinedIs
  <1>4. ASSUME NEW i \in 1..(m + n), i \notin 1..m
        PROVE  \E k \in 1..n : i = m + k
    <2>1. i - m \in 1..n /\ i = m + (i - m) BY <1>4
    <2> QED BY <2>1
  <1>5. ASSUME NEW v, \A i \in 1..m : a[i] # v, \A i \in 1..n : b[i] # v
        PROVE  \A i \in 1..(m + n) : j[i] # v
    <2> SUFFICES ASSUME NEW i \in 1..(m + n) PROVE j[i] # v OBVIOUS
    <2>1. CASE i \in 1..m BY <1>3, <1>5, <2>1
    <2>2. CASE i \notin 1..m
      <3>1. PICK k \in 1..n : i = m + k BY <1>4, <2>2
      <3> QED BY <1>3, <1>5, <3>1
    <2> QED BY <2>1, <2>2
  <1>6. ASSUME type = "CR_LF", NEW i \in 1..(m + n)
        PROVE  /\ j[i] = CR => i < m + n /\ j[i + 1] = LF
               /\ j[i] = LF => i > 1 /\ j[i - 1] = CR
    <2>1. CASE i \in 1..m
      <3>1. /\ a[i] = CR => i < m /\ a[i + 1] = LF
            /\ a[i] = LF => i > 1 /\ a[i - 1] = CR
        BY <1>1, <1>6, <2>1 DEF OneType
      <3>2. i < m => i + 1 \in 1..m BY <2>1
      <3>3. i > 1 => i - 1 \in 1..m BY <2>1
      <3>4. i < m => i < m + n BY <2>1
      <3> QED BY <1>3, <2>1, <3>1, <3>2, <3>3, <3>4
    <2>2. CASE i \notin 1..m
      <3>1. PICK k \in 1..n : i = m + k BY <1>4, <2>2
      <3>2. /\ b[k] = CR => k < n /\ b[k + 1] = LF
            /\ b[k] = LF => k > 1 /\ b[k - 1] = CR
        BY <1>1, <1>6 DEF OneType
      <3>3. k < n => k + 1 \in 1..n /\ m + (k + 1) = i + 1 /\ i < m + n BY <3>1
      <3>4. k > 1 => k - 1 \in 1..n /\ m + (k - 1) = i - 1 /\ i > 1 BY <3>1
      <3>5. j[i] = b[k] BY <1>3, <3>1
      <3>6. k < n => j[i + 1] = b[k + 1] BY <1>3, <3>3
      <3>7. k > 1 => j[i - 1] = b[k - 1] BY <1>3, <3>4
      <3> QED BY <3>2, <3>3, <3>4, <3>5, <3>6, <3>7
    <2> QED BY <2>1, <2>2
  <1>7. type = "LF" => \A i \in 1..(m + n) : j[i] # CR BY <1>1, <1>5 DEF OneType
  <1>8. type = "CR" => \A i \in 1..(m + n) : j[i] # LF BY <1>1, <1>5 DEF OneType
  <1>9. OneType(j, type) BY <1>2, <1>6, <1>7, <1>8 DEF OneType
  <1> QED BY <1>2, <1>9

LEMMA NewlineBytes ==
    ASSUME NEW type \in NewlineTypes, NEW v, v = Newline(type)
    PROVE  /\ v \in Text /\ Len(v) \in 1..2 /\ OneType(v, type)
           /\ type = "LF" => Len(v) = 1 /\ v[1] = LF
           /\ type = "CR" => Len(v) = 1 /\ v[1] = CR
           /\ type = "CR_LF" => Len(v) = 2 /\ v[1] = CR /\ v[2] = LF
  <1>1. PICK x \in Bytes, y \in Bytes : x = CR /\ y = LF /\ x # y BY BytesAre
  <1>2. /\ <<x>> \in Text /\ Len(<<x>>) = 1 /\ <<x>>[1] = x
        /\ <<y>> \in Text /\ Len(<<y>>) = 1 /\ <<y>>[1] = y
        /\ <<x, y>> \in Text /\ Len(<<x, y>>) = 2 /\ <<x, y>>[1] = x /\ <<x, y>>[2] = y
    BY PairIs
  <1>3. \A i \in 1..1 : i = 1 OBVIOUS
  <1>4. \A i \in 1..2 : i = 1 \/ i = 2 OBVIOUS
  <1>5. CASE type = "LF"
    <2>1. v = <<y>> BY <1>1, <1>5 DEF Newline
    <2>2. v \in Text /\ Len(v) = 1 /\ v[1] = LF BY <1>1, <1>2, <2>1
    <2>3. OneType(v, type) BY <1>1, <1>3, <1>5, <2>2 DEF OneType
    <2> QED BY <1>5, <2>2, <2>3
  <1>6. CASE type = "CR"
    <2>1. v = <<x>> BY <1>1, <1>6 DEF Newline
    <2>2. v \in Text /\ Len(v) = 1 /\ v[1] = CR BY <1>1, <1>2, <2>1
    <2>3. OneType(v, type) BY <1>1, <1>3, <1>6, <2>2 DEF OneType
    <2> QED BY <1>6, <2>2, <2>3
  <1>7. CASE type = "CR_LF"
    <2>1. v = <<x, y>> BY <1>1, <1>7 DEF Newline
    <2>2. v \in Text /\ Len(v) = 2 /\ v[1] = CR /\ v[2] = LF BY <1>1, <1>2, <2>1
    <2>3. 1 < 2 /\ 2 > 1 /\ 1 + 1 = 2 /\ 2 - 1 = 1 OBVIOUS
    <2>4. OneType(v, type)
      <3> SUFFICES ASSUME NEW i \in 1..2
                   PROVE  /\ v[i] = CR => i < 2 /\ v[i + 1] = LF
                          /\ v[i] = LF => i > 1 /\ v[i - 1] = CR
        BY <1>7, <2>2 DEF OneType
      <3>1. CASE i = 1 BY <1>1, <2>2, <2>3, <3>1
      <3>2. CASE i = 2 BY <1>1, <2>2, <2>3, <3>2
      <3> QED BY <1>4, <3>1, <3>2
    <2> QED BY <1>7, <2>2, <2>4
  <1> QED BY <1>5, <1>6, <1>7 DEF NewlineTypes

LEMMA NewlinesDiffer ==
    ASSUME NEW a \in NewlineTypes, NEW b \in NewlineTypes, Newline(a) = Newline(b)
    PROVE  a = b
  <1>1. PICK v : v = Newline(a) /\ v = Newline(b) OBVIOUS
  <1>2. /\ a = "LF" => Len(v) = 1 /\ v[1] = LF
        /\ a = "CR" => Len(v) = 1 /\ v[1] = CR
        /\ a = "CR_LF" => Len(v) = 2
    BY <1>1, NewlineBytes
  <1>3. /\ b = "LF" => Len(v) = 1 /\ v[1] = LF
        /\ b = "CR" => Len(v) = 1 /\ v[1] = CR
        /\ b = "CR_LF" => Len(v) = 2
    BY <1>1, NewlineBytes
  <1>4. CR # LF BY BytesAre
  <1> QED BY <1>2, <1>3, <1>4 DEF NewlineTypes

\* What a text is made has one type of line ends.
LEMMA NormalOneType ==
    ASSUME NEW b \in Text, NEW type \in NewlineTypes, NEW f, IsNormal(f, b, type)
    PROVE  OneType(f[Len(b)], type)
  <1>1. PICK n \in Nat : n = Len(b) BY DEF Text
  <1> DEFINE T == {k \in Nat : k <= n => OneType(f[k], type)}
  <1>2. OneType(<<>>, type)
    <2>1. Len(<<>>) = 0 /\ 1..0 = {} OBVIOUS
    <2> QED BY <2>1 DEF OneType
  <1>3. 0 \in T BY <1>2 DEF IsNormal
  <1>4. ASSUME NEW k \in 1..n PROVE OneType(NormalPart(b, type, k), type)
    <2>1. PICK x \in Bytes : x = b[k] BY <1>1, ElementOfSeq DEF Text
    <2>2. CASE x \notin {CR, LF}
      <3>1. NormalPart(b, type, k) = <<x>> BY <2>1, <2>2 DEF NormalPart
      <3>2. PICK v : v = <<x>> /\ Len(v) = 1 /\ v[1] = x BY PairIs
      <3>3. \A i \in 1..1 : i = 1 OBVIOUS
      <3>4. \A i \in 1..Len(v) : v[i] # CR /\ v[i] # LF BY <2>2, <3>2, <3>3
      <3>5. OneType(v, type) BY <3>4 DEF OneType
      <3> QED BY <3>1, <3>2, <3>5
    <2>3. CASE x \in {CR, LF}
      <3>1. NormalPart(b, type, k) = <<>> \/ NormalPart(b, type, k) = Newline(type)
        BY <2>1, <2>3 DEF NormalPart
      <3>2. OneType(Newline(type), type) BY NewlineBytes
      <3> QED BY <1>2, <3>1, <3>2
    <2> QED BY <2>2, <2>3
  <1>5. ASSUME NEW k \in Nat, k \in T PROVE k + 1 \in T
    <2> SUFFICES ASSUME k + 1 <= n PROVE OneType(f[k + 1], type) OBVIOUS
    <2>1. k + 1 \in 1..n /\ (k + 1) - 1 = k /\ k \in 0..n /\ k <= n OBVIOUS
    <2>2. OneType(f[k], type) BY <1>5, <2>1
    <2> HIDE DEF T
    <2>3. f[k + 1] = f[k] \o NormalPart(b, type, k + 1) BY <1>1, <2>1 DEF IsNormal
    <2>4. f[k] \in Text BY <1>1, <2>1 DEF IsNormal
    <2>5. NormalPart(b, type, k + 1) \in Text BY <1>1, <2>1, NormalPartIs
    <2>6. OneType(NormalPart(b, type, k + 1), type) BY <1>4, <2>1
    <2> QED BY <2>2, <2>3, <2>4, <2>5, <2>6, OneTypeJoin
  <1>6. \A k \in Nat : k \in T
    <2> HIDE DEF T
    <2> QED BY <1>3, <1>5, EveryNatural
  <1> QED BY <1>1, <1>6

\* The newline after the last line goes when the text is loaded.
LEMMA EndingNewlineGoes ==
    ASSUME NEW t \in Text, NEW type \in NewlineTypes, OneType(t, type)
    PROVE  WithoutEndingNewline(t \o Newline(type)) = t
  <1>1. PICK v \in Text : v = Newline(type) BY NewlineBytes
  <1>2. /\ OneType(v, type)
        /\ type = "LF" => Len(v) = 1 /\ v[1] = LF
        /\ type = "CR" => Len(v) = 1 /\ v[1] = CR
        /\ type = "CR_LF" => Len(v) = 2 /\ v[1] = CR /\ v[2] = LF
    BY <1>1, NewlineBytes
  <1>3. PICK m \in Nat : m = Len(t) BY DEF Text
  <1>4. PICK j \in Text : j = t \o v BY JoinedIs
  <1>5. /\ Len(j) = m + Len(v) /\ \A i \in 1..m : j[i] = t[i]
        /\ \A i \in 1..Len(v) : j[m + i] = v[i]
    BY <1>3, <1>4, JoinedIs
  <1>6. SubSeq(j, 1, m) = t
    <2>1. Len(v) \in Nat BY DEF Text
    <2>2. m \in 0..Len(j) BY <1>5, <2>1
    <2>3. PICK u \in Text : u = SubSeq(j, 1, m) /\ Len(u) = m /\ \A i \in 1..m : u[i] = j[i]
      BY <2>2, CutInTwo
    <2>4. Len(u) = Len(t) /\ \A i \in 1..Len(u) : u[i] = t[i] BY <1>3, <1>5, <2>3
    <2>5. u = t BY <2>4, SameText
    <2> QED BY <2>3, <2>5
  <1>7. CR # LF BY BytesAre
  <1>8. PICK n \in Nat : n = Len(j) BY DEF Text
  <1>9. CASE type = "CR_LF"
    <2>1. Len(v) = 2 /\ v[1] = CR /\ v[2] = LF BY <1>2, <1>9
    <2>2. n = m + 2 /\ n - 1 = m + 1 /\ n - 2 = m /\ n # 0 /\ n > 1 BY <1>5, <1>8, <2>1
    <2>3. j[n] = LF /\ j[n - 1] = CR
      <3>1. 1 \in 1..Len(v) /\ 2 \in 1..Len(v) BY <2>1
      <3>2. j[m + 1] = v[1] /\ j[m + 2] = v[2] BY <1>5, <3>1
      <3> QED BY <2>1, <2>2, <3>2
    <2>4. WithoutEndingNewline(j) = SubSeq(j, 1, n - 2) BY <1>8, <2>2, <2>3 DEF WithoutEndingNewline
    <2> QED BY <1>1, <1>4, <1>6, <2>2, <2>4
  <1>10. CASE type \in {"LF", "CR"}
    <2>1. Len(v) = 1 /\ v[1] \in {CR, LF} BY <1>2, <1>10
    <2>2. n = m + 1 /\ n - 1 = m /\ n # 0 BY <1>5, <1>8, <2>1
    <2>3. j[n] = v[1]
      <3>1. 1 \in 1..Len(v) BY <2>1
      <3>2. j[m + 1] = v[1] BY <1>5, <3>1
      <3> QED BY <2>2, <3>2
    <2>4. ~(n > 1 /\ j[n] = LF /\ j[n - 1] = CR)
      <3> SUFFICES ASSUME n > 1, j[n] = LF, j[n - 1] = CR PROVE FALSE OBVIOUS
      <3>1. type = "LF" BY <1>2, <1>7, <1>10, <2>3
      <3>2. m \in 1..m /\ t[m] = CR BY <1>5, <2>2
      <3> QED BY <1>3, <3>1, <3>2 DEF OneType
    <2>5. WithoutEndingNewline(j) = SubSeq(j, 1, n - 1)
      BY <1>8, <2>1, <2>2, <2>3, <2>4 DEF WithoutEndingNewline
    <2> QED BY <1>1, <1>4, <1>6, <2>2, <2>5
  <1> QED BY <1>9, <1>10 DEF NewlineTypes

\* The first line end tells the type of them all.
LEMMA TypeIsFound ==
    ASSUME NEW t \in Text, NEW type \in NewlineTypes, OneType(t, type),
           NEW n \in Nat, n = Len(t), n > 0, t[n] \in {CR, LF}
    PROVE  NewlineType(t) = type
  <1>1. 0 \in 0..Len(t) /\ 0 \in Nat OBVIOUS
  <1>2. PICK e \in Nat : e = LineEnd(t, 0) /\ e <= n
    <2>1. LineEnd(t, 0) \in 0..Len(t) BY <1>1, LineEndIs
    <2> QED BY <2>1
  <1>3. EndsLine(t, e) /\ Unbroken(t, 0, e) BY <1>1, <1>2, LineEndIs
  <1>4. \A i \in 1..e : t[i] \notin {CR, LF}
    <2>1. 0 + 1 = 1 OBVIOUS
    <2> QED BY <1>3, <2>1 DEF Unbroken
  <1>5. e # n /\ e + 1 \in 1..n /\ t[e + 1] \in {CR, LF}
    <2>1. e # n
      <3> SUFFICES ASSUME e = n PROVE FALSE OBVIOUS
      <3>1. n \in 1..e OBVIOUS
      <3> QED BY <1>4, <3>1
    <2>2. e + 1 \in 1..n BY <1>2, <2>1
    <2> QED BY <1>3, <2>1, <2>2 DEF EndsLine
  <1>6. CR # LF BY BytesAre
  <1>7. PICK v \in Text : v = Newline(type) BY NewlineBytes
  <1>8. /\ type = "LF" => Len(v) = 1 /\ v[1] = LF
        /\ type = "CR" => Len(v) = 1 /\ v[1] = CR
        /\ type = "CR_LF" => Len(v) = 2 /\ v[1] = CR /\ v[2] = LF
    BY <1>7, NewlineBytes
  <1>9. SubSeq(t, e + 1, NextLine(t, e)) = v
    <2>1. CASE type = "CR_LF"
      <3>1. t[e + 1] = CR
        <4> SUFFICES ASSUME t[e + 1] = LF PROVE FALSE BY <1>5
        <4>1. e + 1 > 1 /\ t[(e + 1) - 1] = CR BY <1>5, <2>1 DEF OneType
        <4>2. (e + 1) - 1 = e /\ e \in 1..e BY <4>1
        <4> QED BY <1>4, <4>1, <4>2
      <3>2. e + 1 < n /\ t[(e + 1) + 1] = LF BY <1>5, <2>1, <3>1 DEF OneType
      <3>3. PICK q \in Nat : q = e + 2 /\ (e + 1) + 1 = q /\ e <= q /\ q <= n /\ q - e = 2 BY <3>2
      <3>4. NextLine(t, e) = q BY <1>5, <3>1, <3>2, <3>3 DEF NextLine
      <3>5. PICK u \in Text : u = SubSeq(t, e + 1, q) BY <3>3, CutIs
      <3>6. Len(u) = q - e /\ \A i \in 1..(q - e) : u[i] = t[e + i] BY <3>3, <3>5, CutIs
      <3>7. Len(u) = 2 /\ u[1] = CR /\ u[2] = LF BY <3>1, <3>2, <3>3, <3>6
      <3>8. Len(v) = 2 /\ v[1] = CR /\ v[2] = LF BY <1>8, <2>1
      <3>9. \A i \in 1..2 : i = 1 \/ i = 2 OBVIOUS
      <3>10. Len(u) = Len(v) /\ \A i \in 1..Len(u) : u[i] = v[i] BY <3>7, <3>8, <3>9
      <3>11. u = v BY <3>10, SameText
      <3> QED BY <3>4, <3>5, <3>11
    <2>2. CASE type \in {"LF", "CR"}
      <3>1. PICK x : x = (IF type = "LF" THEN LF ELSE CR) OBVIOUS
      <3>2. t[e + 1] = x /\ Len(v) = 1 /\ v[1] = x BY <1>5, <1>6, <1>8, <2>2, <3>1 DEF OneType
      <3>3. ~(t[e + 1] = CR /\ e + 1 < n /\ t[e + 2] = LF)
        <4> SUFFICES ASSUME t[e + 1] = CR, e + 1 < n, t[e + 2] = LF PROVE FALSE OBVIOUS
        <4>1. type = "CR" BY <1>6, <2>2, <3>1, <3>2
        <4>2. e + 2 \in 1..n OBVIOUS
        <4> QED BY <4>1, <4>2 DEF OneType
      <3>4. PICK q \in Nat : q = e + 1 /\ e <= q /\ q <= n /\ q - e = 1 BY <1>5
      <3>5. NextLine(t, e) = q BY <1>5, <3>3, <3>4 DEF NextLine
      <3>6. PICK u \in Text : u = SubSeq(t, e + 1, q) BY <3>4, CutIs
      <3>7. Len(u) = q - e /\ \A i \in 1..(q - e) : u[i] = t[e + i] BY <3>4, <3>6, CutIs
      <3>8. Len(u) = 1 /\ u[1] = x BY <3>2, <3>4, <3>7
      <3>9. \A i \in 1..1 : i = 1 OBVIOUS
      <3>10. Len(u) = Len(v) /\ \A i \in 1..Len(u) : u[i] = v[i] BY <3>2, <3>8, <3>9
      <3>11. u = v BY <3>10, SameText
      <3> QED BY <3>5, <3>6, <3>11
    <2> QED BY <2>1, <2>2 DEF NewlineTypes
  <1>10. NewlineType(t) = CHOOSE k \in NewlineTypes : Newline(k) = v
    BY <1>2, <1>5, <1>9 DEF NewlineType
  <1>11. \A k \in NewlineTypes : Newline(k) = v => k = type BY <1>7, NewlinesDiffer
  <1>12. Newline(type) = v BY <1>7
  <1> QED BY <1>10, <1>11, <1>12, Zenon

\* A text that was saved and is loaded: what is shown, and the type of its line ends.
LEMMA SavedIsLoaded ==
    ASSUME NEW b \in Text, Wf(b), NEW type \in NewlineTypes, NEW count \in Nat, count > 1,
           NEW t, t = Saved(b, type, count)
    PROVE  /\ WithoutEndingNewline(t) = Normal(b, type)
           /\ b # <<>> => NewlineType(t) = type
  <1>1. PICK f : IsNormal(f, b, type) /\ Normal(b, type) = f[Len(b)] BY NormalMade
  <1>2. PICK a \in Text : a = Normal(b, type) /\ OneType(a, type)
    <2>1. Len(b) \in 0..Len(b) BY DEF Text
    <2>2. f[Len(b)] \in Text BY <1>1, <2>1 DEF IsNormal
    <2>3. OneType(f[Len(b)], type) BY <1>1, NormalOneType
    <2> QED BY <1>1, <2>2, <2>3
  <1>3. t = IF b = <<>> THEN <<>> ELSE a \o Newline(type) BY <1>2, SavedIs
  <1>4. CASE b = <<>>
    <2>1. Len(<<>>) = 0 OBVIOUS
    <2>2. a = f[0] BY <1>1, <1>2, <1>4, <2>1
    <2>3. a = <<>> BY <1>1, <2>2 DEF IsNormal
    <2>4. WithoutEndingNewline(<<>>) = <<>> BY <2>1 DEF WithoutEndingNewline
    <2> QED BY <1>2, <1>3, <1>4, <2>3, <2>4
  <1>5. CASE b # <<>>
    <2>1. PICK v \in Text : v = Newline(type) BY NewlineBytes
    <2>2. PICK j \in Text : j = a \o v /\ j = t BY <1>3, <1>5, <2>1, JoinedIs
    <2>3. WithoutEndingNewline(j) = a BY <1>2, <2>1, <2>2, EndingNewlineGoes
    <2>4. OneType(v, type) BY <2>1, NewlineBytes
    <2>5. OneType(j, type) BY <1>2, <2>2, <2>4, OneTypeJoin
    <2>6. PICK m \in Nat, k \in 1..2 : m = Len(a) /\ k = Len(v) /\ v[k] \in {CR, LF}
      <3>1. Len(a) \in Nat BY DEF Text
      <3>2. /\ Len(v) \in 1..2
            /\ type = "LF" => Len(v) = 1 /\ v[1] = LF
            /\ type = "CR" => Len(v) = 1 /\ v[1] = CR
            /\ type = "CR_LF" => Len(v) = 2 /\ v[1] = CR /\ v[2] = LF
        BY <2>1, NewlineBytes
      <3>3. v[Len(v)] \in {CR, LF} BY <3>2 DEF NewlineTypes
      <3> QED BY <3>1, <3>2, <3>3
    <2>7. PICK n \in Nat : n = m + k /\ n = Len(j) /\ n > 0
      <3>1. Len(j) = m + k BY <2>2, <2>6, JoinedIs
      <3> QED BY <3>1
    <2>8. j[n] \in {CR, LF}
      <3>0. \A i \in 1..Len(v) : (a \o v)[Len(a) + i] = v[i] BY JoinedIs
      <3>1. \A i \in 1..Len(v) : j[m + i] = v[i] BY <2>2, <2>6, <3>0
      <3>2. k \in 1..Len(v) BY <2>6
      <3> QED BY <2>6, <2>7, <3>1, <3>2
    <2>9. NewlineType(j) = type BY <2>5, <2>7, <2>8, TypeIsFound
    <2> QED BY <1>2, <2>2, <2>3, <2>9
  <1> QED BY <1>4, <1>5

\* What a save wrote is loaded as the text that was saved, with its line ends
\* made those of the document, and the document finds their type again
\* (read_line and its callers, write, remove_ending_newline,
\* detect_newline_type): for every text, every count a save reads with and
\* every size of the pieces a load reads.
THEOREM SavedTextsComeBack == LoadSpec => []RoundTrip
  <1>1. LoadInv => RoundTrip
    <2> SUFFICES ASSUME LoadInv, NEW l \in Loads, LastLoad(l) /\ Done(l, {"none"}) /\ doc.encoding = UTF8,
                        NEW text \in Texts, NEW type \in NewlineTypes,
                        SavedAs[text][type] = loaders[l].content
                 PROVE  /\ os.text = Normal(text, type)
                        /\ text # <<>> => doc.newline_type = type
      BY DEF RoundTrip
    <2>1. PICK t : t = loaders[l].content OBVIOUS
    <2>2. /\ os.text = WithoutEndingNewline(Converted(UTF8, t))
          /\ doc.newline_type = NewlineType(Converted(UTF8, t))
      BY <2>1 DEF LoadInv, LoadedIsDecoded
    <2>3. Converted(UTF8, t) = t BY DEF Converted
    <2>4. t = Saved(text, type, ReadCount) BY <2>1 DEF SavedAs
    <2>5. text \in Text /\ Wf(text)
      <3>1. text \in Text /\ Valid(text) BY TextsAssumption DEF Text
      <3> QED BY <3>1, ValidLengthIs
    <2>6. ReadCount \in Nat /\ ReadCount > 1 BY TextsAssumption
    <2>7. /\ WithoutEndingNewline(t) = Normal(text, type)
          /\ text # <<>> => NewlineType(t) = type
      BY <2>4, <2>5, <2>6, SavedIsLoaded
    <2> QED BY <2>2, <2>3, <2>7
  <1> QED BY <1>1, LoadInvariance, PTL

-----------------------------------------------------------------------------
(***************************************************************************)
(* SAVING: the copy, and the file that others write.                        *)
(***************************************************************************)
\* The progress of the copy: what is in the stream is the part of the buffer
\* before the current chunk and the written part of it, and the chunk is the
\* part of the buffer just before the mark.
Progress ==
    /\ Len(stream) + Len(chunk) = pos + written
    /\ \A i \in 1..Len(stream) : stream[i] = buffer[i]
    /\ \A i \in 1..Len(chunk) : chunk[i] = buffer[pos - Len(chunk) + i]

Copying ==
    /\ pc \in {"write", "close", "info"} => Progress
    /\ pc = "write" => written < Len(chunk)
    /\ pc \in {"close", "info"} => pos = Len(buffer) /\ chunk = <<>>
    /\ pc = "idle" => pos = 0 /\ chunk = <<>> /\ written = 0 /\ stream = <<>>

IInv == TypeOK /\ Copying

USE ChunkAssumption, BoundsAssumption, UriAssumption, FlagAssumption

\* Moving a summand across an equation.
LEMMA Transpose ==
    \A x \in Int, y \in Int, p \in Int : y = x - p => x - y = p
OBVIOUS

LEMMA MinusZero ==
    \A x \in Int, i \in Int : x - 0 = x /\ x - x + i = 0 + i
OBVIOUS

LEMMA Zero ==
    \A n \in Nat : 0 \in 0..n
OBVIOUS

\* The part of a sequence after its first m elements.
LEMMA SuffixFacts ==
    ASSUME NEW s \in Seq(Nat), NEW m \in Nat, m <= Len(s)
    PROVE  /\ SubSeq(s, m + 1, Len(s)) \in Seq(Nat)
           /\ Len(SubSeq(s, m + 1, Len(s))) = Len(s) - m
           /\ \A i \in 1..(Len(s) - m) : SubSeq(s, m + 1, Len(s))[i] = s[m + i]
<1>1. Len(s) \in Nat
  BY LenProperties
<1>2. \A i \in (m + 1)..Len(s) : s[i] \in Nat
  BY <1>1, ElementOfSeq
<1>3. /\ SubSeq(s, m + 1, Len(s)) \in Seq(Nat)
      /\ Len(SubSeq(s, m + 1, Len(s))) =
            IF m + 1 <= Len(s) THEN Len(s) - (m + 1) + 1 ELSE 0
      /\ \A i \in 1..(Len(s) - (m + 1) + 1) :
            SubSeq(s, m + 1, Len(s))[i] = s[(m + 1) + i - 1]
  BY <1>1, <1>2, SubSeqProperties
<1>4. Len(SubSeq(s, m + 1, Len(s))) = Len(s) - m
  BY <1>1, <1>3
<1>5. ASSUME NEW i \in 1..(Len(s) - m)
      PROVE  SubSeq(s, m + 1, Len(s))[i] = s[m + i]
  <2>1. i \in 1..(Len(s) - (m + 1) + 1) /\ (m + 1) + i - 1 = m + i
    BY <1>1
  <2> QED  BY <1>3, <2>1
<1> QED  BY <1>3, <1>4, <1>5

\* A concatenation, with the lengths of its parts named.
LEMMA ConcatFacts ==
    ASSUME NEW s \in Seq(Nat), NEW t \in Seq(Nat), NEW m, NEW n,
           Len(s) = m, Len(t) = n
    PROVE  /\ s \o t \in Seq(Nat)
           /\ Len(s \o t) = m + n
           /\ \A i \in 1..(m + n) :
                (s \o t)[i] = IF i <= m THEN s[i] ELSE t[i - m]
BY ConcatProperties, Zenon

\* An empty AsyncData is well typed.
LEMMA FreshTyped ==
    ASSUME FreshAsyncData, buffer' \in Seq(Nat)
    PROVE  /\ triedMount' \in BOOLEAN /\ pos' \in 0..Len(buffer')
           /\ chunk' \in Seq(Nat) /\ written' \in 0..Len(chunk')
           /\ failure' \in {"none", IOError} /\ stream' \in Seq(Nat)
<1>1. Len(buffer') \in Nat
  BY LenProperties
<1>2. <<>> \in Seq(Nat) /\ Len(<<>>) = 0
  BY EmptySeq
<1>3. triedMount' \in BOOLEAN
  BY DEF FreshAsyncData
<1> QED  BY <1>1, <1>2, <1>3, SMT DEF FreshAsyncData

\* What reading a chunk from the mark on establishes (read_file_chunk).
LEMMA ReadFileChunkFacts ==
    ASSUME buffer \in Seq(Nat), NEW from \in 0..Len(buffer), ReadFileChunk(from)
    PROVE  /\ written' = 0
           /\ pos' \in from..Len(buffer)
           /\ chunk' \in Seq(Nat)
           /\ Len(chunk') = pos' - from
           /\ \A i \in 1..Len(chunk') : chunk'[i] = buffer[from + i]
           /\ pc' \in {"write", "close"}
           /\ pc' = "write" => Len(chunk') > 0
           /\ pc' = "close" => pos' = Len(buffer) /\ chunk' = <<>>
<1> DEFINE n == MinOf(ChunkSize, Len(buffer) - from)
<1>1. Len(buffer) \in Nat /\ ChunkSize \in Nat \ {0}
  BY LenProperties
<1>2. n \in Nat /\ from + n <= Len(buffer) /\ (n = 0 => from = Len(buffer))
  BY <1>1 DEF MinOf
<1>3. /\ chunk' = SubSeq(buffer, from + 1, from + n)
      /\ pos' = from + n /\ written' = 0
      /\ pc' = IF n = 0 THEN "close" ELSE "write"
  BY DEF ReadFileChunk
<1> HIDE DEF n
<1>4. PICK m \in Nat : m = from + n /\ from <= m /\ m <= Len(buffer) /\ m - from = n
  BY <1>1, <1>2
<1>a. from \in Nat
  BY <1>1
<1>5. /\ SubSeq(buffer, from + 1, m) \in Seq(Nat)
      /\ Len(SubSeq(buffer, from + 1, m)) = m - from
      /\ \A i \in 1..(m - from) : SubSeq(buffer, from + 1, m)[i] = buffer[from + i]
  BY <1>4, <1>a, SliceIs
<1>6. Len(chunk') = n
  BY <1>3, <1>4, <1>5
<1>7. \A i \in 1..Len(chunk') : chunk'[i] = buffer[from + i]
  BY <1>3, <1>4, <1>5, <1>6
<1>8. n = 0 => chunk' = <<>>
  BY <1>3, <1>4, <1>5, <1>6, EmptySeq
<1> QED
  BY <1>1, <1>2, <1>3, <1>4, <1>5, <1>6, <1>7, <1>8

\* The saver is thrown away only at the end of a save: what remains is idle.
LEMMA CompletedPreserves ==
    ASSUME IInv, pc # "idle", UNCHANGED worldVars,
           NEW e \in Results, NEW t \in Nat, Completed(e, t)
    PROVE  IInv'
<1>1. buffer' \in Seq(Nat) /\ version' \in Nat
  BY DEF IInv, TypeOK, DocTypeOK, Completed
<1>2. DocTypeOK'
  <2>1. modified' \in BOOLEAN
    BY DEF IInv, TypeOK, DocTypeOK, Completed
  <2>2. saver \in [uri: Locations, flags: SUBSET Flags,
                   keepBackup: BOOLEAN, oldMtime: Nat]
    BY DEF IInv, TypeOK, SaverTypeOK
  <2>3. uri' \in Locations \union {NoUri} /\ docMtime' \in Nat
    BY <2>2 DEF IInv, TypeOK, DocTypeOK, Completed
  <2> QED  BY <1>1, <2>1, <2>3 DEF DocTypeOK
<1>3. SaverTypeOK'
  <2>1. saver' = NoSaver /\ pc' = "idle" /\ result' = e
    BY DEF Completed, ThrowSaverAway
  <2> QED  BY <2>1 DEF SaverTypeOK
<1>4. AsyncTypeOK'
  BY <1>1, FreshTyped DEF AsyncTypeOK, Completed, ThrowSaverAway
<1>5. WorldTypeOK'
  BY DEF IInv, TypeOK, WorldTypeOK, worldVars
<1>6. Copying'
  BY DEF Copying, Completed, ThrowSaverAway, FreshAsyncData
<1> QED  BY <1>2, <1>3, <1>4, <1>5, <1>6 DEF IInv, TypeOK

LEMMA InitEstablishes ==
    ASSUME Init
    PROVE  IInv
<1>1. PICK n \in 0..MaxLen : buffer = [i \in 1..n |-> 1]
  BY DEF Init
<1>2. buffer \in Seq(Nat)
  BY <1>1
<1>3. <<>> \in Seq(Nat) /\ Len(<<>>) = 0
  BY EmptySeq
<1>4. Len(buffer) \in Nat
  BY <1>2, LenProperties
<1>5. DocTypeOK
  <2>1. modified \in BOOLEAN
    BY DEF Init
  <2> QED  BY <1>2, <2>1 DEF Init, DocTypeOK
<1>6. SaverTypeOK
  BY DEF Init, SaverTypeOK, Results
<1>7. AsyncTypeOK
  <2>1. triedMount \in BOOLEAN
    BY DEF Init
  <2> QED  BY <1>3, <1>4, <2>1 DEF Init, AsyncTypeOK
<1>8. WorldTypeOK
  <2>1. mounted \in BOOLEAN
    BY DEF Init
  <2>2. NoFile \in FileRecord
    BY <1>3 DEF NoFile, FileRecord
  <2>3. [exists |-> TRUE, content |-> buffer, mtime |-> 1] \in FileRecord
    BY <1>2 DEF FileRecord
  <2>4. files \in [Locations -> FileRecord]
    BY <2>2, <2>3 DEF Init
  <2> QED  BY <1>3, <2>1, <2>4 DEF Init, WorldTypeOK
<1>9. Copying
  BY DEF Init, Copying
<1> QED  BY <1>5, <1>6, <1>7, <1>8, <1>9 DEF IInv, TypeOK

\* Steps of the pipeline that keep the saver, the document and the copy.
LEMMA FrameAsync ==
    ASSUME IInv, pc # "idle", UNCHANGED <<docVars, saver, pos, chunk, written,
                                          failure, stream, result>>,
           triedMount' \in BOOLEAN, WorldTypeOK',
           pc' \in {"query", "mount", "replace"}
    PROVE  IInv'
<1>1. DocTypeOK'
  BY DEF IInv, TypeOK, DocTypeOK, docVars
<1>2. SaverTypeOK'
  BY DEF IInv, TypeOK, SaverTypeOK, InFlight
<1>3. AsyncTypeOK'
  BY DEF IInv, TypeOK, AsyncTypeOK, docVars
<1>4. Copying'
  BY DEF Copying
<1> QED  BY <1>1, <1>2, <1>3, <1>4 DEF IInv, TypeOK

\* Steps of other programs change only the world.
LEMMA FrameWorld ==
    ASSUME IInv, UNCHANGED <<docVars, saver, pc, asyncVars, result>>, WorldTypeOK'
    PROVE  IInv'
BY DEF IInv, TypeOK, DocTypeOK, SaverTypeOK, AsyncTypeOK, Copying, Progress,
       docVars, asyncVars

LEMMA ForeignersPreserve ==
    ASSUME IInv, Foreigners
    PROVE  IInv'
<1>1. NoFile \in FileRecord /\ Foreign \in Seq(Nat)
  BY EmptySeq DEF NoFile, FileRecord, Foreign
<1>2. ASSUME NEW l \in Locations, ForeignWrite(l)
      PROVE  IInv'
  <2>1. clock' \in Nat
    BY <1>2 DEF ForeignWrite, IInv, TypeOK, WorldTypeOK
  <2>2. [exists |-> TRUE, content |-> Foreign, mtime |-> clock'] \in FileRecord
    BY <1>1, <2>1 DEF FileRecord
  <2>3. files' \in [Locations -> FileRecord]
    BY <1>2, <2>2 DEF ForeignWrite, IInv, TypeOK, WorldTypeOK
  <2>4. WorldTypeOK'
    BY <1>2, <2>1, <2>3 DEF ForeignWrite, IInv, TypeOK, WorldTypeOK
  <2> QED  BY <1>2, <2>4, FrameWorld DEF ForeignWrite
<1>3. ASSUME NEW l \in Locations, ForeignDelete(l)
      PROVE  IInv'
  <2>1. files' \in [Locations -> FileRecord]
    BY <1>1, <1>3 DEF ForeignDelete, IInv, TypeOK, WorldTypeOK
  <2>2. WorldTypeOK'
    BY <1>3, <2>1 DEF ForeignDelete, IInv, TypeOK, WorldTypeOK
  <2> QED  BY <1>3, <2>2, FrameWorld DEF ForeignDelete
<1>4. ASSUME Unmount
      PROVE  IInv'
  <2>1. WorldTypeOK'
    BY <1>4 DEF Unmount, IInv, TypeOK, WorldTypeOK
  <2> QED  BY <1>4, <2>1, FrameWorld DEF Unmount
<1> QED  BY <1>2, <1>3, <1>4 DEF Foreigners

\* One step of the copy loop: k more units of the chunk reached the stream.
LEMMA WritePreserves ==
    ASSUME IInv, WriteReady
    PROVE  IInv'
<1>1. /\ buffer \in Seq(Nat) /\ stream \in Seq(Nat) /\ chunk \in Seq(Nat)
      /\ Len(buffer) \in Nat /\ Len(stream) \in Nat /\ Len(chunk) \in Nat
      /\ pos \in 0..Len(buffer) /\ written \in 0..Len(chunk)
      /\ pc = "write"
  BY LenProperties DEF IInv, TypeOK, DocTypeOK, AsyncTypeOK, WriteReady
<1>2. /\ written < Len(chunk)
      /\ Len(stream) + Len(chunk) = pos + written
      /\ \A i \in 1..Len(stream) : stream[i] = buffer[i]
      /\ \A i \in 1..Len(chunk) : chunk[i] = buffer[pos - Len(chunk) + i]
  BY <1>1 DEF IInv, Copying, Progress
<1>a. /\ pos \in Int /\ written \in Int /\ Len(stream) \in Int /\ Len(chunk) \in Int
      /\ Len(stream) + Len(chunk) = pos + written
  BY <1>1, <1>2
<1>3. UNCHANGED <<docVars, saver, triedMount, worldVars, result>>
  BY DEF WriteReady
<1>b. buffer' = buffer
  BY <1>3 DEF docVars
<1>4. DocTypeOK' /\ WorldTypeOK'
  BY <1>3 DEF IInv, TypeOK, DocTypeOK, WorldTypeOK, docVars, worldVars
<1>5. pc' \in InFlight => SaverTypeOK'
  BY <1>1, <1>3 DEF IInv, TypeOK, SaverTypeOK, InFlight
<1>6. triedMount' \in BOOLEAN
  BY <1>3 DEF IInv, TypeOK, AsyncTypeOK
<1>7. ASSUME NEW k \in 1..(Len(chunk) - written),
             stream' = stream \o SubSeq(chunk, written + 1, written + k),
             IF written + k # Len(chunk)
             THEN written' = written + k /\ UNCHANGED <<pos, chunk, pc>>
             ELSE ReadFileChunk(pos),
             UNCHANGED failure
      PROVE  IInv'
  <2> DEFINE out == SubSeq(chunk, written + 1, written + k)
  <2>1. /\ out \in Seq(Nat) /\ Len(out) = k
        /\ \A i \in 1..k : out[i] = chunk[written + i]
    <3>1. PICK m \in Nat : m = written + k /\ written <= m /\ m <= Len(chunk) /\ m - written = k
      BY <1>1
    <3>0. chunk \in Seq(Nat) /\ written \in Nat
      BY <1>1
    <3>2. /\ SubSeq(chunk, written + 1, m) \in Seq(Nat)
          /\ Len(SubSeq(chunk, written + 1, m)) = m - written
          /\ \A i \in 1..(m - written) : SubSeq(chunk, written + 1, m)[i] = chunk[written + i]
      BY <3>0, <3>1, SliceIs
    <3> QED  BY <3>1, <3>2
  <2>2. stream' = stream \o out
    BY <1>7
  <2> HIDE DEF out
  <2>3. /\ stream' \in Seq(Nat) /\ Len(stream') = Len(stream) + k
        /\ \A i \in 1..(Len(stream) + k) :
             stream'[i] = IF i <= Len(stream) THEN stream[i] ELSE out[i - Len(stream)]
    <3>1. /\ stream \o out \in Seq(Nat)
          /\ Len(stream \o out) = Len(stream) + Len(out)
          /\ \A i \in 1..(Len(stream) + Len(out)) :
               (stream \o out)[i] = IF i <= Len(stream) THEN stream[i]
                                                        ELSE out[i - Len(stream)]
      BY <1>1, <2>1, ConcatProperties
    <3>2. Len(out) = k
      BY <2>1
    <3> QED  BY <2>2, <3>1, <3>2, Zenon
  <2>4. \A i \in 1..Len(stream') : stream'[i] = buffer[i]
    <3> SUFFICES ASSUME NEW i \in 1..(Len(stream) + k) PROVE stream'[i] = buffer[i]
      BY <2>3
    <3>1. CASE i <= Len(stream)
      <4>1. i \in 1..Len(stream)
        BY <1>1, <3>1
      <4>2. stream'[i] = stream[i]
        BY <2>3, <3>1
      <4> QED  BY <1>2, <4>1, <4>2
    <3>2. CASE i > Len(stream)
      <4>1. i - Len(stream) \in 1..k
        BY <1>1, <3>2
      <4>2. stream'[i] = chunk[written + (i - Len(stream))]
        <5>1. ~(i <= Len(stream))
          BY <1>1, <3>2
        <5>2. stream'[i] = out[i - Len(stream)]
          BY <2>3, <5>1
        <5> QED  BY <2>1, <4>1, <5>2
      <4>3. written + (i - Len(stream)) \in 1..Len(chunk)
        BY <1>1, <4>1
      <4>4. chunk[written + (i - Len(stream))]
              = buffer[pos - Len(chunk) + (written + (i - Len(stream)))]
        BY <1>2, <4>3
      <4>5. pos - Len(chunk) + (written + (i - Len(stream))) = i
        BY <1>a
      <4> QED  BY <4>2, <4>4, <4>5
    <3> QED  BY <1>1, <3>1, <3>2
  <2>5. CASE written + k # Len(chunk)
    <3>1. written' = written + k /\ UNCHANGED <<pos, chunk, pc>>
      BY <1>7, <2>5
    <3>2. AsyncTypeOK'
      BY <1>1, <1>3, <1>6, <1>7, <2>3, <3>1
         DEF IInv, TypeOK, AsyncTypeOK, docVars
    <3>3. Copying'
      <4>1. Len(stream') + Len(chunk') = pos' + written'
        <5>1. Len(stream') = Len(stream) + k
          BY <2>3
        <5> QED  BY <1>a, <3>1, <5>1
      <4>2. \A i \in 1..Len(stream') : stream'[i] = buffer'[i]
        BY <1>b, <2>4
      <4>3. \A i \in 1..Len(chunk') : chunk'[i] = buffer'[pos' - Len(chunk') + i]
        BY <1>2, <1>b, <3>1
      <4>4. written' < Len(chunk')
        BY <1>a, <2>5, <3>1
      <4> QED  BY <1>1, <3>1, <4>1, <4>2, <4>3, <4>4 DEF Copying, Progress
    <3> QED  BY <1>1, <1>4, <1>5, <3>1, <3>2, <3>3 DEF IInv, TypeOK, InFlight
  <2>6. CASE written + k = Len(chunk)
    <3>1. ReadFileChunk(pos)
      BY <1>7, <2>6
    <3>2. /\ written' = 0 /\ pos' \in pos..Len(buffer) /\ chunk' \in Seq(Nat)
          /\ Len(chunk') = pos' - pos
          /\ \A i \in 1..Len(chunk') : chunk'[i] = buffer[pos + i]
          /\ pc' \in {"write", "close"}
          /\ pc' = "write" => Len(chunk') > 0
          /\ pc' = "close" => pos' = Len(buffer) /\ chunk' = <<>>
      BY <1>1, <3>1, ReadFileChunkFacts
    <3>a. /\ Len(buffer) \in Nat
          /\ pos \in 0..Len(buffer) /\ pos' \in pos..Len(buffer)
          /\ Len(chunk') = pos' - pos /\ written' = 0
      BY <1>1, <3>2
    <3>b. pos' \in Int /\ pos <= pos' /\ pos \in Int
      BY <3>a
    <3>c. Len(chunk') \in Nat /\ Len(chunk') = pos' - pos
      BY <3>2, LenProperties
    <3>3. AsyncTypeOK'
      <4>1. pos' \in 0..Len(buffer') /\ written' \in 0..Len(chunk')
        <5>1. pos' \in 0..Len(buffer)
          BY <1>a, <3>a
        <5>2. written' \in 0..Len(chunk')
          BY <3>c, <3>2, Zero, Zenon
        <5> QED  BY <1>b, <5>1, <5>2
      <4>2. failure' \in {"none", IOError}
        BY <1>7 DEF IInv, TypeOK, AsyncTypeOK
      <4> QED  BY <1>6, <2>3, <3>2, <4>1, <4>2 DEF AsyncTypeOK
    <3>4. Len(stream) + k = pos
      BY <1>a, <2>6
    <3>5. Progress'
      <4>1. Len(stream') + Len(chunk') = pos' + written'
        <5>1. Len(stream') = Len(stream) + k
          BY <2>3
        <5> QED  BY <1>a, <3>a, <3>4, <5>1
      <4>2. \A i \in 1..Len(stream') : stream'[i] = buffer'[i]
        BY <1>b, <2>4
      <4>3. pos' - Len(chunk') = pos
        <5>1. pos' \in Int /\ pos \in Int /\ Len(chunk') \in Int
          BY <3>b, <3>c
        <5> QED  BY <3>c, <5>1, Transpose, Zenon
      <4>4. \A i \in 1..Len(chunk') : chunk'[i] = buffer'[pos' - Len(chunk') + i]
        BY <1>b, <3>2, <4>3
      <4> QED  BY <4>1, <4>2, <4>4 DEF Progress
    <3>6. Copying'
      BY <1>1, <1>3, <3>2, <3>5 DEF Copying, docVars
    <3> QED  BY <1>4, <1>5, <3>2, <3>3, <3>6 DEF IInv, TypeOK, InFlight
  <2> QED  BY <1>1, <2>5, <2>6
<1>8. ASSUME failure' = IOError, pc' = "cancelClose",
             UNCHANGED <<stream, written, pos, chunk>>
      PROVE  IInv'
  <2>1. AsyncTypeOK'
    BY <1>1, <1>3, <1>6, <1>8 DEF IInv, TypeOK, AsyncTypeOK, docVars
  <2>2. Copying'
    BY <1>8 DEF Copying
  <2> QED  BY <1>4, <1>5, <1>8, <2>1, <2>2 DEF IInv, TypeOK, InFlight
<1> QED  BY <1>7, <1>8 DEF WriteReady

LEMMA ResultsFacts ==
    /\ {NotMounted, ExternallyModified, CantCreateBackup, IOError, InfoError, "ok"}
         \subseteq Results
    /\ "none" \in Results
BY DEF Results, Errors

\* A failing step throws the saver away and leaves the world alone.
LEMMA FailedPreserves ==
    ASSUME IInv, pc # "idle", UNCHANGED worldVars, NEW e \in Results, Failed(e)
    PROVE  IInv'
<1>1. docMtime \in Nat
  BY DEF IInv, TypeOK, DocTypeOK
<1> QED  BY <1>1, CompletedPreserves DEF Failed

LEMMA EditPreserves ==
    ASSUME IInv, Edit
    PROVE  IInv'
<1>1. PICK n \in 0..MaxLen : buffer' = [i \in 1..n |-> version']
  BY DEF Edit
<1>2. version' \in Nat
  BY DEF Edit, IInv, TypeOK, DocTypeOK
<1>3. buffer' \in Seq(Nat) /\ Len(buffer') \in Nat
  BY <1>1, <1>2, LenProperties
<1>4. pos = 0 /\ chunk = <<>> /\ written = 0 /\ stream = <<>> /\ pc = "idle"
  BY DEF Edit, IInv, Copying
<1>5. UNCHANGED <<uri, docMtime, saver, pc, asyncVars, worldVars, result>>
  BY DEF Edit
<1>6. DocTypeOK'
  <2>1. modified' \in BOOLEAN
    BY DEF Edit
  <2> QED  BY <1>2, <1>3, <1>5, <2>1 DEF IInv, TypeOK, DocTypeOK
<1>7. SaverTypeOK' /\ WorldTypeOK'
  BY <1>5 DEF IInv, TypeOK, SaverTypeOK, WorldTypeOK, worldVars
<1>8. AsyncTypeOK'
  <2>1. pos' \in 0..Len(buffer')
    BY <1>3, <1>4, <1>5, Zero, Zenon DEF asyncVars
  <2> QED  BY <1>5, <2>1 DEF IInv, TypeOK, AsyncTypeOK, asyncVars
<1>9. Copying'
  BY <1>4, <1>5 DEF Copying, asyncVars
<1> QED  BY <1>6, <1>7, <1>8, <1>9 DEF IInv, TypeOK

LEMMA CreateSaverPreserves ==
    ASSUME IInv, NEW l \in Locations, NEW flags \in SUBSET Flags,
           NEW b \in BOOLEAN, CreateSaver(l, flags, b)
    PROVE  IInv'
<1>1. UNCHANGED <<docVars, worldVars>> /\ FreshAsyncData
  BY DEF CreateSaver
<1>2. DocTypeOK' /\ WorldTypeOK'
  BY <1>1 DEF IInv, TypeOK, DocTypeOK, WorldTypeOK, docVars, worldVars
<1>3. SaverTypeOK'
  <2>1. docMtime \in Nat
    BY DEF IInv, TypeOK, DocTypeOK
  <2>2. KeepBackup(flags, b) \in BOOLEAN
    BY DEF KeepBackup
  <2> DEFINE new == NewSaver(l, flags, KeepBackup(flags, b))
  <2>3. new \in [uri: Locations, flags: SUBSET Flags,
                 keepBackup: BOOLEAN, oldMtime: Nat]
    BY <2>1, <2>2 DEF NewSaver
  <2>4. new.uri = l /\ NoSaver.uri = NoUri
    BY DEF NewSaver, NoSaver
  <2>5. new # NoSaver
    BY <2>4
  <2>6. saver' = new /\ pc' = "timeout" /\ result' = "none"
    BY DEF CreateSaver
  <2> HIDE DEF new
  <2>7. pc' \in InFlight /\ pc' # "idle"
    BY <2>6 DEF InFlight
  <2> QED  BY <2>3, <2>5, <2>6, <2>7, ResultsFacts DEF SaverTypeOK
<1>4. AsyncTypeOK'
  BY <1>1, <1>2, FreshTyped DEF DocTypeOK, AsyncTypeOK
<1>5. Copying'
  BY DEF Copying, CreateSaver
<1> QED  BY <1>2, <1>3, <1>4, <1>5 DEF IInv, TypeOK

LEMMA UserPreserves ==
    ASSUME IInv, User
    PROVE  IInv'
<1>1. CASE Edit
  BY <1>1, EditPreserves
<1>2. ASSUME NEW flags \in FlagSets, Save(flags)
      PROVE  IInv'
  <2>1. PICK b \in BOOLEAN : CreateSaver(uri, flags, b)
    BY <1>2 DEF Save
  <2>2. uri \in Locations /\ flags \in SUBSET Flags
    BY <1>2 DEF Save, IInv, TypeOK, DocTypeOK
  <2> QED  BY <2>1, <2>2, CreateSaverPreserves
<1>3. ASSUME NEW l \in Locations, NEW flags \in SUBSET {IGNORE_BACKUP}, SaveAs(l, flags)
      PROVE  IInv'
  <2>1. PICK b \in BOOLEAN : CreateSaver(l, flags \union {IGNORE_MTIME}, b)
    BY <1>3 DEF SaveAs
  <2>2. flags \union {IGNORE_MTIME} \in SUBSET Flags
    BY <1>3 DEF Flags
  <2> QED  BY <2>1, <2>2, CreateSaverPreserves
<1> QED  BY <1>1, <1>2, <1>3 DEF User

\* Opening the replacement starts the copy at the beginning of the buffer.
LEMMA OpenPreserves ==
    ASSUME IInv, ReadFileChunk(0), stream' = <<>>, UNCHANGED worldVars, pc = "replace",
           UNCHANGED <<docVars, saver, triedMount, failure, result>>
    PROVE  IInv'
<1>1. buffer \in Seq(Nat) /\ Len(buffer) \in Nat /\ buffer' = buffer
  BY LenProperties DEF IInv, TypeOK, DocTypeOK, docVars
<1>2. 0 \in 0..Len(buffer)
  BY <1>1, Zero, Zenon
<1>3. /\ written' = 0 /\ pos' \in 0..Len(buffer) /\ chunk' \in Seq(Nat)
      /\ Len(chunk') = pos' - 0
      /\ \A i \in 1..Len(chunk') : chunk'[i] = buffer[0 + i]
      /\ pc' \in {"write", "close"}
      /\ pc' = "write" => Len(chunk') > 0
      /\ pc' = "close" => pos' = Len(buffer) /\ chunk' = <<>>
  BY <1>1, <1>2, ReadFileChunkFacts
<1>4. pos' \in Int /\ Len(chunk') = pos'
  <2>1. pos' \in Int
    BY <1>1, <1>3
  <2>2. pos' - 0 = pos'
    BY <2>1, MinusZero, Zenon
  <2> QED  BY <1>3, <2>1, <2>2, Zenon
<1>5. DocTypeOK' /\ WorldTypeOK'
  BY DEF IInv, TypeOK, DocTypeOK, WorldTypeOK, docVars, worldVars
<1>6. SaverTypeOK'
  BY <1>3 DEF IInv, TypeOK, SaverTypeOK, InFlight
<1>7. <<>> \in Seq(Nat) /\ Len(<<>>) = 0
  BY EmptySeq
<1>8. AsyncTypeOK'
  <2>1. pos' \in 0..Len(buffer')
    BY <1>1, <1>3
  <2>2. written' \in 0..Len(chunk')
    BY <1>3, Zero, LenProperties, Zenon
  <2>3. triedMount' \in BOOLEAN /\ failure' \in {"none", IOError}
    BY DEF IInv, TypeOK, AsyncTypeOK
  <2> QED  BY <1>3, <1>7, <2>1, <2>2, <2>3 DEF AsyncTypeOK
<1>9. Progress'
  <2>1. Len(stream') + Len(chunk') = pos' + written'
    BY <1>3, <1>4, <1>7
  <2>2. \A i \in 1..Len(stream') : stream'[i] = buffer'[i]
    BY <1>7
  <2>3. \A i \in 1..Len(chunk') : chunk'[i] = buffer'[pos' - Len(chunk') + i]
    <3> SUFFICES ASSUME NEW i \in 1..Len(chunk')
                 PROVE  chunk'[i] = buffer'[pos' - Len(chunk') + i]
      OBVIOUS
    <3>1. pos' - Len(chunk') + i = 0 + i
      <4>a. i \in Int
        OBVIOUS
      <4>1. pos' - pos' + i = 0 + i
        BY <1>4, <4>a, MinusZero, Zenon
      <4> QED  BY <1>4, <4>1, Zenon
    <3> QED  BY <1>1, <1>3, <3>1
  <2> QED  BY <2>1, <2>2, <2>3 DEF Progress
<1>10. Copying'
  BY <1>1, <1>3, <1>9 DEF Copying
<1> QED  BY <1>5, <1>6, <1>8, <1>10 DEF IInv, TypeOK

\* Moving the replacement over the original changes only the world.
LEMMA MoveOverPreserves ==
    ASSUME IInv, pc = "close", MoveOver, pc' = "info",
           UNCHANGED <<docVars, saver, asyncVars, mounted, result>>
    PROVE  IInv'
<1>1. saver.uri \in Locations
  BY DEF IInv, TypeOK, SaverTypeOK
<1>2. clock' \in Nat
  BY DEF MoveOver, IInv, TypeOK, WorldTypeOK
<1>3. [exists |-> TRUE, content |-> stream, mtime |-> clock'] \in FileRecord
  BY <1>2 DEF FileRecord, IInv, TypeOK, AsyncTypeOK
<1>4. files' \in [Locations -> FileRecord]
  BY <1>3 DEF MoveOver, IInv, TypeOK, WorldTypeOK
<1>5. backups' \in [Locations -> Seq(Nat)]
  <2>1. files[saver.uri] \in FileRecord /\ backups \in [Locations -> Seq(Nat)]
    BY <1>1 DEF IInv, TypeOK, WorldTypeOK
  <2>2. files[saver.uri].content \in Seq(Nat)
    BY <2>1 DEF FileRecord
  <2> QED  BY <2>1, <2>2 DEF MoveOver
<1>6. WorldTypeOK'
  BY <1>2, <1>4, <1>5 DEF IInv, TypeOK, WorldTypeOK
<1>7. DocTypeOK' /\ AsyncTypeOK'
  BY DEF IInv, TypeOK, DocTypeOK, AsyncTypeOK, docVars, asyncVars
<1>8. SaverTypeOK'
  BY DEF IInv, TypeOK, SaverTypeOK, InFlight
<1>9. Copying'
  BY DEF IInv, Copying, Progress, docVars, asyncVars
<1> QED  BY <1>6, <1>7, <1>8, <1>9 DEF IInv, TypeOK

LEMMA CheckModificationPreserves ==
    ASSUME IInv, CheckModification
    PROVE  IInv'
<1>1. pc = "query" /\ UNCHANGED worldVars
  BY DEF CheckModification
<1>2. WorldTypeOK'
  BY <1>1 DEF IInv, TypeOK, WorldTypeOK, worldVars
<1>3. CASE RecoverNotMounted
  BY <1>1, <1>2, <1>3, FrameAsync DEF RecoverNotMounted
<1>4. CASE pc' = "replace" /\ UNCHANGED <<docVars, saver, asyncVars, result>>
  <2>1. triedMount' \in BOOLEAN
    BY <1>4 DEF IInv, TypeOK, AsyncTypeOK, asyncVars
  <2> QED  BY <1>1, <1>2, <1>4, <2>1, FrameAsync DEF asyncVars
<1>5. ASSUME NEW e \in {NotMounted, IOError, ExternallyModified}, Failed(e)
      PROVE  IInv'
  BY <1>1, <1>5, ResultsFacts, FailedPreserves
<1> QED  BY <1>3, <1>4, <1>5 DEF CheckModification

LEMMA PipelinePreserves ==
    ASSUME IInv, Pipeline
    PROVE  IInv'
<1>1. CASE SaveTimeout
  <2>1. WorldTypeOK' /\ triedMount' \in BOOLEAN
    BY <1>1 DEF SaveTimeout, IInv, TypeOK, WorldTypeOK, AsyncTypeOK, worldVars, asyncVars
  <2> QED  BY <1>1, <2>1, FrameAsync DEF SaveTimeout, asyncVars
<1>2. CASE CheckModification
  BY <1>2, CheckModificationPreserves
<1>3. CASE MountReady
  <2>1. pc = "mount" /\ UNCHANGED <<files, backups, clock>>
    BY <1>3 DEF MountReady
  <2>2. CASE mounted' = TRUE /\ pc' = "query"
             /\ UNCHANGED <<docVars, saver, asyncVars, result>>
    <3>1. WorldTypeOK'
      BY <2>1, <2>2 DEF IInv, TypeOK, WorldTypeOK
    <3>2. triedMount' \in BOOLEAN
      BY <2>2 DEF IInv, TypeOK, AsyncTypeOK, asyncVars
    <3> QED  BY <2>1, <2>2, <3>1, <3>2, FrameAsync DEF asyncVars
  <2>3. CASE Failed(IOError) /\ UNCHANGED mounted
    BY <2>1, <2>3, ResultsFacts, FailedPreserves DEF worldVars
  <2> QED  BY <1>3, <2>2, <2>3 DEF MountReady
<1>4. CASE ReplaceReady
  <2>1. pc = "replace" /\ UNCHANGED worldVars
    BY <1>4 DEF ReplaceReady
  <2>2. CASE /\ ReadFileChunk(0) /\ stream' = <<>>
             /\ UNCHANGED <<docVars, saver, triedMount, failure, result>>
    BY <2>1, <2>2, OpenPreserves
  <2>3. ASSUME NEW e \in {IOError, CantCreateBackup}, Failed(e)
        PROVE  IInv'
    BY <2>1, <2>3, ResultsFacts, FailedPreserves
  <2> QED  BY <1>4, <2>2, <2>3 DEF ReplaceReady
<1>5. CASE WriteReady
  BY <1>5, WritePreserves
<1>6. CASE CancelOutputStreamReady
  <2>1. /\ pc # "idle" /\ Failed(failure)
        /\ UNCHANGED <<files, backups>> /\ UNCHANGED <<mounted, clock>>
    BY <1>6 DEF CancelOutputStreamReady, CancelClose
  <2>2. failure \in Results /\ UNCHANGED worldVars
    BY <2>1, ResultsFacts DEF worldVars, IInv, TypeOK, AsyncTypeOK
  <2> QED  BY <2>1, <2>2, FailedPreserves
<1>7. CASE CloseReady
  <2>1. pc = "close"
    BY <1>7 DEF CloseReady
  <2>2. CASE /\ MoveOver /\ pc' = "info"
             /\ UNCHANGED <<docVars, saver, asyncVars, mounted, result>>
    BY <2>1, <2>2, MoveOverPreserves
  <2>3. ASSUME NEW e \in {IOError, CantCreateBackup}, Failed(e), UNCHANGED worldVars
        PROVE  IInv'
    BY <2>1, <2>3, ResultsFacts, FailedPreserves
  <2> QED  BY <1>7, <2>2, <2>3 DEF CloseReady
<1>8. CASE GetInfoReady
  <2>1. pc = "info" /\ UNCHANGED worldVars
    BY <1>8 DEF GetInfoReady
  <2>2. CASE Completed("ok", files[saver.uri].mtime)
    <3>1. saver.uri \in Locations
      BY <2>1 DEF IInv, TypeOK, SaverTypeOK
    <3>2. files[saver.uri] \in FileRecord
      BY <3>1 DEF IInv, TypeOK, WorldTypeOK
    <3>3. files[saver.uri].mtime \in Nat
      BY <3>2 DEF FileRecord
    <3> QED  BY <2>1, <2>2, <3>3, ResultsFacts, CompletedPreserves
  <2>3. CASE Failed(InfoError)
    BY <2>1, <2>3, ResultsFacts, FailedPreserves
  <2> QED  BY <1>8, <2>2, <2>3 DEF GetInfoReady
<1> QED
  BY <1>1, <1>2, <1>3, <1>4, <1>5, <1>6, <1>7, <1>8 DEF Pipeline

\* IInv is inductive.
LEMMA NextPreserves ==
    ASSUME IInv, [Next]_vars
    PROVE  IInv'
<1>1. CASE UNCHANGED vars
  <2>1. WorldTypeOK'
    BY <1>1 DEF vars, worldVars, IInv, TypeOK, WorldTypeOK
  <2> QED  BY <1>1, <2>1, FrameWorld DEF vars
<1> QED
  BY <1>1, ForeignersPreserve, UserPreserves, PipelinePreserves DEF Next

\* The inductive invariant holds in every reachable state.
THEOREM Invariance == Spec => []IInv
<1>1. Init => IInv
  BY InitEstablishes
<1>2. IInv /\ [Next]_vars => IInv'
  BY NextPreserves
<1> QED  BY <1>1, <1>2, PTL DEF Spec

\* Every variable of the save pipeline keeps its type, whatever the user, the
\* file system and other programs do (lapiz-gio-document-saver.c).
THEOREM TypeCorrect == Spec => []TypeOK
<1>1. IInv => TypeOK
  BY DEF IInv
<1> QED  BY <1>1, Invariance, PTL

\* However the copy is split in chunks and partial writes, the output stream,
\* the unwritten part of the chunk and the rest of the buffer make up the text.
THEOREM NothingLost == Spec => []NothingLostOnTheWay
<1>1. ASSUME IInv PROVE NothingLostOnTheWay
  <2> SUFFICES ASSUME pc \in {"write", "close", "info"}
               PROVE  stream \o SubSeq(chunk, written + 1, Len(chunk))
                        \o SubSeq(buffer, pos + 1, Len(buffer)) = buffer
    BY DEF NothingLostOnTheWay
  <2>1. /\ buffer \in Seq(Nat) /\ stream \in Seq(Nat) /\ chunk \in Seq(Nat)
        /\ Len(buffer) \in Nat /\ Len(stream) \in Nat /\ Len(chunk) \in Nat
        /\ pos \in 0..Len(buffer) /\ written \in 0..Len(chunk)
    BY <1>1, LenProperties DEF IInv, TypeOK, DocTypeOK, AsyncTypeOK
  <2>2. /\ Len(stream) + Len(chunk) = pos + written
        /\ \A i \in 1..Len(stream) : stream[i] = buffer[i]
        /\ \A i \in 1..Len(chunk) : chunk[i] = buffer[pos - Len(chunk) + i]
    BY <1>1 DEF IInv, Copying, Progress
  <2>a. /\ Len(stream) + Len(chunk) = pos + written
        /\ pos \in Nat /\ written \in Nat
        /\ pos <= Len(buffer) /\ written <= Len(chunk)
        /\ Len(buffer) \in Nat /\ Len(stream) \in Nat /\ Len(chunk) \in Nat
    BY <2>1, <2>2
  <2> DEFINE mid  == SubSeq(chunk, written + 1, Len(chunk))
             rest == SubSeq(buffer, pos + 1, Len(buffer))
             M == Len(chunk) - written
             R == Len(buffer) - pos
  <2>3. M \in Nat /\ R \in Nat /\ Len(stream) + M = pos /\ pos + R = Len(buffer)
    BY <2>a
  <2>4. /\ mid \in Seq(Nat) /\ Len(mid) = M
        /\ \A i \in 1..M : mid[i] = chunk[written + i]
    BY <2>1, <2>a, SuffixFacts
  <2>5. /\ rest \in Seq(Nat) /\ Len(rest) = R
        /\ \A i \in 1..R : rest[i] = buffer[pos + i]
    BY <2>1, <2>a, SuffixFacts
  <2>6. \A i \in 1..M : written + i \in 1..Len(chunk)
                         /\ pos - Len(chunk) + (written + i) = Len(stream) + i
    BY <2>a
  <2>7. \A i \in 1..M : mid[i] = buffer[Len(stream) + i]
    <3> SUFFICES ASSUME NEW i \in 1..M PROVE mid[i] = buffer[Len(stream) + i]
      OBVIOUS
    <3> HIDE DEF mid
    <3>1. mid[i] = chunk[written + i]
      BY <2>4
    <3>2. chunk[written + i] = buffer[pos - Len(chunk) + (written + i)]
      BY <2>2, <2>6
    <3> QED  BY <2>6, <3>1, <3>2
  <2> HIDE DEF mid, rest, M, R
  <2>8. /\ stream \o mid \in Seq(Nat)
        /\ Len(stream \o mid) = Len(stream) + M
        /\ \A i \in 1..(Len(stream) + M) :
             (stream \o mid)[i] = IF i <= Len(stream) THEN stream[i]
                                                      ELSE mid[i - Len(stream)]
    BY <2>1, <2>4, ConcatFacts
  <2>9. \A i \in 1..pos : (stream \o mid)[i] = buffer[i]
    <3> SUFFICES ASSUME NEW i \in 1..pos PROVE (stream \o mid)[i] = buffer[i]
      OBVIOUS
    <3>1. i \in 1..(Len(stream) + M) /\ i \in Int
      BY <2>3
    <3>2. CASE i <= Len(stream)
      <4>1. i \in 1..Len(stream)
        BY <2>a, <3>2
      <4>2. (stream \o mid)[i] = stream[i]
        BY <2>8, <3>1, <3>2
      <4> QED  BY <2>2, <4>1, <4>2
    <3>3. CASE ~(i <= Len(stream))
      <4>1. i - Len(stream) \in 1..M /\ Len(stream) + (i - Len(stream)) = i
        BY <2>a, <2>3, <3>1, <3>3
      <4>2. (stream \o mid)[i] = mid[i - Len(stream)]
        BY <2>8, <3>1, <3>3
      <4>3. mid[i - Len(stream)] = buffer[Len(stream) + (i - Len(stream))]
        BY <2>7, <4>1
      <4> QED  BY <4>1, <4>2, <4>3
    <3> QED  BY <3>2, <3>3
  <2> DEFINE both == stream \o mid
  <2>10. both \in Seq(Nat) /\ Len(both) = pos /\ \A i \in 1..pos : both[i] = buffer[i]
    BY <2>3, <2>8, <2>9
  <2> HIDE DEF both
  <2>11. /\ both \o rest \in Seq(Nat)
         /\ Len(both \o rest) = pos + R
         /\ \A i \in 1..(pos + R) :
              (both \o rest)[i] = IF i <= pos THEN both[i] ELSE rest[i - pos]
    BY <2>5, <2>10, ConcatFacts
  <2>12. \A i \in 1..Len(buffer) : (both \o rest)[i] = buffer[i]
    <3> SUFFICES ASSUME NEW i \in 1..Len(buffer) PROVE (both \o rest)[i] = buffer[i]
      OBVIOUS
    <3>1. i \in 1..(pos + R) /\ i \in Int
      BY <2>3
    <3>2. CASE i <= pos
      <4>1. i \in 1..pos
        BY <2>a, <3>2
      <4>2. (both \o rest)[i] = both[i]
        BY <2>11, <3>1, <3>2
      <4> QED  BY <2>10, <4>1, <4>2
    <3>3. CASE ~(i <= pos)
      <4>1. i - pos \in 1..R /\ pos + (i - pos) = i
        BY <2>a, <2>3, <3>1, <3>3
      <4>2. (both \o rest)[i] = rest[i - pos]
        BY <2>11, <3>1, <3>3
      <4>3. rest[i - pos] = buffer[pos + (i - pos)]
        BY <2>5, <4>1
      <4> QED  BY <4>1, <4>2, <4>3
    <3> QED  BY <3>2, <3>3
  <2>13. Len(both \o rest) = Len(buffer)
    BY <2>3, <2>11
  <2>14. both \o rest = buffer
    BY <2>1, <2>11, <2>12, <2>13, SeqEqual
  <2> QED  BY <2>14 DEF both, mid, rest
<1> QED  BY <1>1, Invariance, PTL

\* When the stream is closed it holds the whole text.
LEMMA WholeText ==
    ASSUME IInv, pc = "close"
    PROVE  stream = buffer
<1>1. Progress /\ pos = Len(buffer) /\ chunk = <<>>
  BY DEF IInv, Copying
<1>2. /\ stream \in Seq(Nat) /\ buffer \in Seq(Nat) /\ Len(buffer) \in Nat
      /\ Len(chunk) = 0 /\ written \in 0..Len(chunk) /\ Len(stream) \in Nat
  BY <1>1, EmptySeq, LenProperties DEF IInv, TypeOK, DocTypeOK, AsyncTypeOK
<1>3. Len(stream) + Len(chunk) = pos + written
  BY <1>1 DEF Progress
<1>4. Len(stream) = Len(buffer)
  BY <1>1, <1>2, <1>3
<1>5. \A i \in 1..Len(stream) : stream[i] = buffer[i]
  BY <1>1 DEF Progress
<1> QED  BY <1>2, <1>4, <1>5, SeqEqual

\* A save never leaves a file holding anything but the whole text: the file
\* system changes a file to the complete buffer or somebody else changes it.
THEOREM NoTornFile == Spec => NeverTorn
<1>1. ASSUME IInv, Next, NEW l \in Locations, files'[l] # files[l]
      PROVE  files'[l] \in {NoFile} \/ files'[l].content \in {Foreign, buffer}
  <2>1. files \in [Locations -> FileRecord]
    BY <1>1 DEF IInv, TypeOK, WorldTypeOK
  <2>2. ASSUME UNCHANGED worldVars PROVE FALSE
    BY <1>1, <2>2 DEF worldVars
  <2>3. ASSUME NEW k \in Locations, ForeignWrite(k)
        PROVE  files'[l].content = Foreign
    <3>1. files' = [files EXCEPT ![k] = [exists |-> TRUE, content |-> Foreign,
                                         mtime |-> clock']]
      BY <2>3 DEF ForeignWrite
    <3> QED  BY <1>1, <2>1, <3>1
  <2>4. ASSUME NEW k \in Locations, ForeignDelete(k)
        PROVE  files'[l] = NoFile
    <3>1. files' = [files EXCEPT ![k] = NoFile]
      BY <2>4 DEF ForeignDelete
    <3> QED  BY <1>1, <2>1, <3>1
  <2>5. ASSUME UNCHANGED files PROVE FALSE
    BY <1>1, <2>5
  <2>6. ASSUME pc = "close", MoveOver
        PROVE  files'[l].content = buffer
    <3>1. stream = buffer BY <1>1, <2>6, WholeText
    <3>2. files' = [files EXCEPT ![saver.uri] = [exists |-> TRUE, content |-> stream,
                                                 mtime |-> clock']]
      BY <2>6 DEF MoveOver
    <3> QED  BY <1>1, <2>1, <3>1, <3>2
  <2>7. CASE Foreigners
    BY <2>3, <2>4, <2>5, <2>7 DEF Foreigners, Unmount
  <2>8. CASE User
    BY <2>2, <2>8 DEF User, Edit, Save, SaveAs, CreateSaver
  <2>9. CASE Pipeline
    <3>1. CASE CloseReady
      BY <2>2, <2>6, <3>1 DEF CloseReady
    <3>2. CASE SaveTimeout \/ CheckModification \/ ReplaceReady \/ WriteReady
                 \/ GetInfoReady
      BY <2>2, <3>2 DEF SaveTimeout, CheckModification, ReplaceReady, WriteReady,
                        GetInfoReady
    <3>3. CASE MountReady \/ CancelOutputStreamReady
      BY <2>5, <3>3 DEF MountReady, CancelOutputStreamReady, CancelClose
    <3> QED  BY <2>9, <3>1, <3>2, <3>3 DEF Pipeline
  <2> QED  BY <1>1, <2>7, <2>8, <2>9 DEF Next
<1>2. IInv /\ [Next]_vars =>
        [\A l \in Locations :
           files'[l] # files[l] => \/ files'[l] \in {NoFile}
                                   \/ files'[l].content \in {Foreign, buffer}]_vars
  BY <1>1
<1> QED  BY <1>2, Invariance, PTL DEF Spec, NeverTorn

-----------------------------------------------------------------------------
(***************************************************************************)
(* What the document knows of its file, as long as no other program        *)
(* touched the files during a save.                                        *)
(***************************************************************************)

\* What is typed is never what other programs write.
Numbered == version >= 1 /\ \A i \in DOMAIN buffer : buffer[i] >= 1

\* A file that is written gets a time nobody has seen yet.
Clocked == docMtime <= clock /\ \A l \in Locations : files[l].mtime <= clock

\* A saver compares with the document's time, and an autosave keeps no backup.
Briefed ==
    saver # NoSaver =>
        /\ saver.oldMtime = docMtime
        /\ saver.keepBackup => PRESERVE_BACKUP \notin saver.flags

\* The file has the time the document knows: then it has its text.
Known ==
    (uri # NoUri /\ files[uri].exists /\ files[uri].mtime = docMtime) =>
        /\ files[uri].content # Foreign
        /\ ~modified => files[uri].content = buffer

\* The file whose time will be asked for is the one that was written.
Placed == pc = "info" => files[saver.uri].exists /\ files[saver.uri].content = buffer

\* The file that will be replaced is the one that was compared.
Looked ==
    (/\ pc \in {"replace", "write", "close"} /\ IGNORE_MTIME \notin saver.flags
     /\ files[saver.uri].exists) => files[saver.uri].mtime = docMtime

Undisturbed == Known /\ Placed /\ Looked

\* The second inductive invariant, which rests on the first.
HInv == Numbered /\ Clocked /\ Briefed /\ (raced \/ Undisturbed)

\* Types of what the steps below read.
LEMMA WorldIs ==
    ASSUME IInv
    PROVE  /\ files \in [Locations -> FileRecord] /\ clock \in Nat /\ docMtime \in Nat
           /\ uri \in Locations \union {NoUri} /\ NoUri \notin Locations
           /\ (saver = NoSaver) <=> (pc = "idle")
           /\ pc # "idle" => saver.uri \in Locations /\ saver.uri # NoUri
           /\ \A l \in Locations : /\ files[l].mtime \in Nat /\ files[l].exists \in BOOLEAN
                                   /\ files[l] \in FileRecord
           /\ buffer \in Seq(Nat) /\ version \in Nat
  BY UriAssumption DEF IInv, TypeOK, WorldTypeOK, DocTypeOK, SaverTypeOK, FileRecord

LEMMA ForeignIsNotTyped ==
    ASSUME Numbered
    PROVE  buffer # Foreign
  BY DEF Numbered, Foreign

LEMMA HInitially == HInit => HInv
  <1> SUFFICES ASSUME HInit PROVE HInv OBVIOUS
  <1>1. Init /\ IInv BY InitEstablishes DEF HInit
  <1>2. Numbered
    <2>1. PICK n \in 0..MaxLen : buffer = [i \in 1..n |-> 1] BY <1>1 DEF Init
    <2> QED BY <1>1, <2>1 DEF Init, Numbered
  <1>3. Clocked BY <1>1, BoundsAssumption DEF Init, Clocked, NoFile
  <1>4. Briefed BY <1>1 DEF Init, Briefed
  <1>5. buffer # Foreign BY <1>2, ForeignIsNotTyped
  <1>6. Known
    <2>1. uri # NoUri => uri \in Locations /\ files[uri] = [exists |-> TRUE, content |-> buffer, mtime |-> 1]
      BY <1>1 DEF Init
    <2> QED BY <1>5, <2>1 DEF Known
  <1>7. Placed /\ Looked BY <1>1 DEF Init, Placed, Looked
  <1> QED BY <1>2, <1>3, <1>4, <1>6, <1>7 DEF HInv, Undisturbed

\* Another program gives a file a time of its own, or does so during a save.
LEMMA ForeignersKeep ==
    ASSUME IInv, HInv, Foreigners, raced' = (raced \/ pc # "idle")
    PROVE  HInv'
  <1>1. /\ UNCHANGED <<docVars, saver, pc>>
        /\ \/ UNCHANGED <<files, clock>>
           \/ \E l \in Locations : \/ /\ clock' = clock + 1
                                      /\ files' = [files EXCEPT ![l] = [exists |-> TRUE, content |-> Foreign,
                                                                        mtime |-> clock + 1]]
                                   \/ clock' = clock /\ files' = [files EXCEPT ![l] = NoFile]
    BY DEF Foreigners, ForeignWrite, ForeignDelete, Unmount
  <1>2. Numbered' BY <1>1 DEF HInv, Numbered, docVars
  <1>3. Briefed' BY <1>1 DEF HInv, Briefed, docVars
  <1>4. Clocked'
    <2>1. CASE UNCHANGED <<files, clock>> BY <1>1, <2>1 DEF HInv, Clocked, docVars
    <2>2. ASSUME NEW l \in Locations, clock' = clock + 1,
                 files' = [files EXCEPT ![l] = [exists |-> TRUE, content |-> Foreign, mtime |-> clock + 1]]
          PROVE  Clocked'
      BY <1>1, <2>2, WorldIs DEF HInv, Clocked, docVars
    <2>3. ASSUME NEW l \in Locations, clock' = clock, files' = [files EXCEPT ![l] = NoFile]
          PROVE  Clocked'
      BY <1>1, <2>3, WorldIs DEF HInv, Clocked, docVars, NoFile
    <2> QED BY <1>1, <2>1, <2>2, <2>3
  <1>5. CASE raced' BY <1>2, <1>3, <1>4, <1>5 DEF HInv
  <1>6. CASE ~raced'
    <2>1. pc = "idle" /\ ~raced /\ pc' = "idle" /\ Known BY <1>1, <1>6 DEF HInv, Undisturbed
    <2>2. Placed' /\ Looked' BY <2>1 DEF Placed, Looked
    <2>3. Known'
      <3>1. CASE UNCHANGED <<files, clock>> BY <1>1, <2>1, <3>1 DEF Known, docVars
      <3>2. ASSUME NEW l \in Locations, clock' = clock + 1,
                   files' = [files EXCEPT ![l] = [exists |-> TRUE, content |-> Foreign, mtime |-> clock + 1]]
            PROVE  Known'
        BY <1>1, <2>1, <3>2, WorldIs DEF HInv, Clocked, Known, docVars
      <3>3. ASSUME NEW l \in Locations, clock' = clock, files' = [files EXCEPT ![l] = NoFile]
            PROVE  Known'
        BY <1>1, <2>1, <3>3, WorldIs DEF Known, docVars, NoFile
      <3> QED BY <1>1, <3>1, <3>2, <3>3
    <2> QED BY <1>2, <1>3, <1>4, <2>2, <2>3 DEF HInv, Undisturbed
  <1> QED BY <1>5, <1>6

\* A step of the pipeline that neither ends the save nor replaces the file.
LEMMA OnTheWay ==
    ASSUME IInv, HInv, pc # "idle", UNCHANGED <<docVars, saver, files, clock, raced>>,
           pc' \in InFlight \ {"info"},
           pc' \in {"replace", "write", "close"} =>
              \/ pc \in {"replace", "write", "close"}
              \/ ~IsExternallyModified(files[saver.uri])
    PROVE  HInv'
  <1>1. Numbered' /\ Clocked' /\ Briefed' BY DEF HInv, Numbered, Clocked, Briefed, docVars
  <1>2. Known => Known' BY DEF Known, docVars
  <1>3. Placed' BY DEF Placed, InFlight
  <1>4. Looked => Looked'
    <2> SUFFICES ASSUME Looked, pc' \in {"replace", "write", "close"}, IGNORE_MTIME \notin saver.flags,
                        files[saver.uri].exists
                 PROVE  files[saver.uri].mtime = docMtime
      BY DEF Looked, docVars
    <2>1. CASE pc \in {"replace", "write", "close"} BY <2>1 DEF Looked
    <2>2. CASE ~IsExternallyModified(files[saver.uri])
      <3>1. saver.oldMtime = docMtime BY WorldIs DEF HInv, Briefed
      <3>2. files[saver.uri].mtime = saver.oldMtime \/ ~(docMtime > 0 \/ files[saver.uri].mtime > 0)
        BY <2>2, <3>1 DEF IsExternallyModified
      <3> QED BY <3>1, <3>2, WorldIs
    <2> QED BY <2>1, <2>2
  <1> QED BY <1>1, <1>2, <1>3, <1>4 DEF HInv, Undisturbed

\* The SAVED signal: with an error the document keeps what it knew, without one
\* it takes the time of the file that was written.
LEMMA CompletedKeeps ==
    ASSUME IInv, HInv, pc # "idle", UNCHANGED <<files, clock, raced>>, NEW error, NEW mtime,
           Completed(error, mtime),
           error = "ok" => pc = "info" /\ mtime = files[saver.uri].mtime
    PROVE  HInv'
  <1>1. /\ saver' = NoSaver /\ pc' = "idle" /\ UNCHANGED <<buffer, version>>
        /\ \/ error = "ok" /\ uri' = saver.uri /\ docMtime' = mtime /\ modified' = FALSE
           \/ UNCHANGED <<uri, docMtime, modified>>
    BY DEF Completed, ThrowSaverAway
  <1>2. Numbered' BY <1>1 DEF HInv, Numbered
  <1>3. Clocked' BY <1>1, WorldIs DEF HInv, Clocked
  <1>4. Briefed' BY <1>1 DEF Briefed
  <1>5. Placed' /\ Looked' BY <1>1 DEF Placed, Looked
  <1>6. ASSUME Undisturbed PROVE Known'
    <2>1. CASE error = "ok" /\ uri' = saver.uri /\ docMtime' = mtime /\ modified' = FALSE
      <3>1. files[saver.uri].content = buffer BY <1>6, <2>1 DEF Undisturbed, Placed
      <3>2. buffer # Foreign BY ForeignIsNotTyped DEF HInv
      <3> QED BY <1>1, <2>1, <3>1, <3>2 DEF Known
    <2>2. CASE UNCHANGED <<uri, docMtime, modified>> BY <1>1, <1>6, <2>2 DEF Undisturbed, Known
    <2> QED BY <1>1, <2>1, <2>2
  <1> QED BY <1>2, <1>3, <1>4, <1>5, <1>6 DEF HInv, Undisturbed

LEMMA FailedKeeps ==
    ASSUME IInv, HInv, pc # "idle", UNCHANGED <<files, clock, raced>>,
           NEW error \in Errors \union {"none"}, Failed(error)
    PROVE  HInv'
  <1>1. error # "ok"
    BY DEF Errors, NotMounted, ExternallyModified, CantCreateBackup, IOError, InfoError
  <1> QED BY <1>1, CompletedKeeps DEF Failed

\* The file gets the whole text and a time the document does not know yet.
LEMMA MoveOverKeeps ==
    ASSUME IInv, HInv, pc = "close", MoveOver, pc' = "info", UNCHANGED <<docVars, saver, raced>>
    PROVE  HInv'
  <1>1. PICK l \in Locations : l = saver.uri BY WorldIs
  <1>2. stream = buffer BY WholeText
  <1>3. /\ clock' = clock + 1
        /\ files' = [files EXCEPT ![l] = [exists |-> TRUE, content |-> buffer, mtime |-> clock + 1]]
    BY <1>1, <1>2 DEF MoveOver
  <1>4. files'[l].exists /\ files'[l].content = buffer /\ files'[l].mtime = clock + 1
    BY <1>3, WorldIs
  <1>5. \A k \in Locations : k # l => files'[k] = files[k] BY <1>3, WorldIs
  <1>6. Numbered' /\ Briefed' BY DEF HInv, Numbered, Briefed, docVars
  <1>7. Clocked' BY <1>3, <1>4, <1>5, WorldIs DEF HInv, Clocked, docVars
  <1>8. Placed' BY <1>1, <1>4 DEF Placed, docVars
  <1>9. Looked' BY DEF Looked
  <1>10. Known => Known'
    BY <1>4, <1>5, WorldIs DEF HInv, Clocked, Known, docVars
  <1> QED BY <1>6, <1>7, <1>8, <1>9, <1>10 DEF HInv, Undisturbed

LEMMA UserKeeps ==
    ASSUME IInv, HInv, User, UNCHANGED raced
    PROVE  HInv'
  <1>1. CASE Edit
    <2>1. /\ pc = "idle" /\ pc' = "idle" /\ UNCHANGED <<uri, docMtime, saver, files, clock>>
          /\ version' = version + 1 /\ modified' = TRUE
      BY <1>1 DEF Edit, worldVars
    <2>2. PICK n \in 0..MaxLen : buffer' = [i \in 1..n |-> version'] BY <1>1 DEF Edit
    <2>3. Numbered'
      <3>1. version' >= 1 BY <2>1, WorldIs DEF HInv, Numbered
      <3> QED BY <2>2, <3>1 DEF Numbered
    <2>4. Clocked' /\ Briefed' BY <2>1 DEF HInv, Clocked, Briefed
    <2>5. Placed' /\ Looked' BY <2>1 DEF Placed, Looked
    <2>6. Known => Known' BY <2>1 DEF Known
    <2> QED BY <2>3, <2>4, <2>5, <2>6 DEF HInv, Undisturbed
  <1>2. ASSUME NEW l, NEW flags, NEW b, CreateSaver(l, flags, b)
        PROVE  HInv'
    <2>1. /\ saver' = NewSaver(l, flags, KeepBackup(flags, b)) /\ pc' = "timeout"
          /\ UNCHANGED <<docVars, files, clock>>
      BY <1>2 DEF CreateSaver, worldVars
    <2>2. Numbered' /\ Clocked' BY <2>1 DEF HInv, Numbered, Clocked, docVars
    <2>3. Briefed' BY <2>1 DEF Briefed, NewSaver, KeepBackup, docVars
    <2>4. Placed' /\ Looked' BY <2>1 DEF Placed, Looked
    <2>5. Known => Known' BY <2>1 DEF Known, docVars
    <2> QED BY <2>2, <2>3, <2>4, <2>5 DEF HInv, Undisturbed
  <1> QED BY <1>1, <1>2 DEF User, Save, SaveAs

LEMMA PipelineKeeps ==
    ASSUME IInv, HInv, Pipeline, UNCHANGED raced
    PROVE  HInv'
  <1> USE DEF worldVars, InFlight
  <1>1. CASE SaveTimeout BY <1>1, OnTheWay DEF SaveTimeout
  <1>2. CASE CheckModification
    <2>1. pc = "query" /\ UNCHANGED worldVars BY <1>2 DEF CheckModification
    <2>2. \/ \E e \in Errors : Failed(e)
          \/ RecoverNotMounted
          \/ /\ ~IsExternallyModified(files[saver.uri]) /\ pc' = "replace"
             /\ UNCHANGED <<docVars, saver, asyncVars, result>>
      BY <1>2 DEF CheckModification, Errors
    <2>3. CASE RecoverNotMounted BY <2>1, <2>3, OnTheWay DEF RecoverNotMounted
    <2> QED BY <2>1, <2>2, <2>3, OnTheWay, FailedKeeps
  <1>3. CASE MountReady
    <2>1. pc = "mount" /\ UNCHANGED <<files, clock>> BY <1>3 DEF MountReady
    <2>2. \/ \E e \in Errors : Failed(e)
          \/ pc' = "query" /\ UNCHANGED <<docVars, saver>>
      BY <1>3 DEF MountReady, Errors
    <2> QED BY <2>1, <2>2, OnTheWay, FailedKeeps
  <1>4. CASE ReplaceReady
    <2>1. pc = "replace" /\ UNCHANGED worldVars BY <1>4 DEF ReplaceReady
    <2>2. \/ \E e \in Errors : Failed(e)
          \/ pc' \in {"write", "close"} /\ UNCHANGED <<docVars, saver>>
      BY <1>4 DEF ReplaceReady, ReadFileChunk, Errors
    <2> QED BY <2>1, <2>2, OnTheWay, FailedKeeps
  <1>5. CASE WriteReady
    <2>1. pc = "write" /\ UNCHANGED <<docVars, saver, files, clock>> BY <1>5 DEF WriteReady
    <2>2. pc' \in {"write", "close", "cancelClose"} BY <1>5, <2>1 DEF WriteReady, ReadFileChunk
    <2> QED BY <2>1, <2>2, OnTheWay
  <1>6. CASE CancelOutputStreamReady
    <2>1. /\ pc = "cancelClose" /\ UNCHANGED <<files, clock>> /\ Failed(failure)
          /\ failure \in {"none", IOError}
      BY <1>6 DEF CancelOutputStreamReady, CancelClose, IInv, TypeOK, AsyncTypeOK
    <2>2. failure \in Errors \union {"none"} BY <2>1 DEF Errors
    <2> QED BY <2>1, <2>2, FailedKeeps
  <1>7. CASE CloseReady
    <2>1. \/ /\ pc = "close" /\ MoveOver /\ pc' = "info" /\ UNCHANGED <<docVars, saver>>
          \/ pc = "close" /\ UNCHANGED <<files, clock>> /\ \E e \in Errors : Failed(e)
      BY <1>7 DEF CloseReady, Errors
    <2> QED BY <2>1, MoveOverKeeps, FailedKeeps
  <1>8. CASE GetInfoReady
    <2>1. /\ pc = "info" /\ UNCHANGED worldVars
          /\ Completed("ok", files[saver.uri].mtime) \/ Failed(InfoError)
      BY <1>8 DEF GetInfoReady
    <2>2. InfoError \in Errors BY DEF Errors
    <2> QED BY <2>1, <2>2, CompletedKeeps, FailedKeeps
  <1> QED BY <1>1, <1>2, <1>3, <1>4, <1>5, <1>6, <1>7, <1>8 DEF Pipeline

LEMMA HNextKeeps ==
    ASSUME IInv, HInv, [HNext]_<<vars, raced>>
    PROVE  HInv'
  <1>1. CASE UNCHANGED <<vars, raced>>
    BY <1>1 DEF vars, docVars, worldVars, HInv, Numbered, Clocked, Briefed, Undisturbed, Known, Placed, Looked
  <1> QED BY <1>1, ForeignersKeep, UserKeeps, PipelineKeeps DEF HNext

\* Both invariants hold in every state that can be reached.
THEOREM HInvariance == HSpec => [](IInv /\ HInv)
  <1>1. HInit => IInv /\ HInv BY HInitially, InitEstablishes DEF HInit
  <1>2. IInv /\ HInv /\ [HNext]_<<vars, raced>> => IInv' /\ HInv'
    <2> SUFFICES ASSUME IInv, HInv, [HNext]_<<vars, raced>> PROVE IInv' /\ HInv' OBVIOUS
    <2>1. [Next]_vars BY DEF HNext, Next
    <2> QED BY <2>1, NextPreserves, HNextKeeps
  <1> QED BY <1>1, <1>2, PTL DEF HSpec

\* Whatever is saved, fails or is saved under another name, and whatever other
\* programs do between saves: a document that is unmodified and whose file has
\* the time it knows shows that file, and text that others wrote is not taken for
\* its own (document_saver_saving, check_modification_callback).
THEOREM FileIsKnown == HSpec => []KnowsItsFile
  <1>1. ASSUME IInv, HInv PROVE KnowsItsFile
    <2>1. raced \/ Known BY <1>1 DEF HInv, Undisturbed
    <2>2. Known => CleanMeansOnDisk BY DEF Known, CleanMeansOnDisk
    <2>3. Known => ForeignContentIsDetectable BY DEF Known, ForeignContentIsDetectable
    <2> QED BY <2>1, <2>2, <2>3 DEF KnowsItsFile, CleanUnlessRaced, DetectableUnlessRaced
  <1> QED BY <1>1, HInvariance, PTL

\* A file is replaced only when it is the one the document knows, or was to be
\* replaced whatever it is; its backup is what was replaced, and an autosave
\* leaves the backup alone (begin_write, async_replace_ready_callback).
THEOREM NothingIsOverwritten == HSpec => OverwritesNothing
  <1> DEFINE Asked == (/\ pc = "close" /\ pc' = "info"
                       /\ IGNORE_MTIME \notin saver.flags /\ ~raced) =>
                        LET f == files[saver.uri] IN f.exists => f.mtime = docMtime
             Kept == backups' # backups =>
                        /\ PRESERVE_BACKUP \notin saver.flags
                        /\ saver.uri \in LocalLocations
                        /\ backups'[saver.uri] = files[saver.uri].content
  <1>1. ASSUME IInv, HInv PROVE Asked
    BY <1>1 DEF HInv, Undisturbed, Looked
  <1>2. ASSUME IInv, HInv, [HNext]_<<vars, raced>> PROVE Kept
    <2> SUFFICES ASSUME backups' # backups
                 PROVE  /\ PRESERVE_BACKUP \notin saver.flags /\ saver.uri \in LocalLocations
                        /\ backups'[saver.uri] = files[saver.uri].content
      OBVIOUS
    <2>1. CloseReady /\ MoveOver /\ pc = "close"
      BY <1>2 DEF HNext, Foreigners, ForeignWrite, ForeignDelete, Unmount, User, Edit, Save, SaveAs,
         CreateSaver, Pipeline, SaveTimeout, CheckModification, RecoverNotMounted, MountReady, ReplaceReady,
         WriteReady, CancelOutputStreamReady, CancelClose, CloseReady, GetInfoReady, worldVars, vars
    <2>2. KeepsBackup /\ backups' = [backups EXCEPT ![saver.uri] = files[saver.uri].content]
      BY <2>1 DEF MoveOver
    <2>3. backups \in [Locations -> Seq(Nat)] /\ saver.uri \in Locations /\ saver # NoSaver
      BY <1>2, <2>1, WorldIs DEF IInv, TypeOK, WorldTypeOK
    <2> QED BY <1>2, <2>2, <2>3 DEF KeepsBackup, HInv, Briefed
  <1>3. IInv /\ HInv /\ [HNext]_<<vars, raced>> => [Asked]_vars /\ [Kept]_vars BY <1>1, <1>2
  <1> QED BY <1>3, HInvariance, PTL DEF HSpec, OverwritesNothing, NoSilentOverwrite, BackupsArePreserved

=============================================================================
