-------------------------- MODULE LapizWindowProofs --------------------------
(* Theorems about LapizWindow, for any number of windows and tabs: whatever  *)
(* tabs are opened, closed, moved and detached, and however their operations *)
(* end, what a window says, shows and offers is what its tabs are.           *)
EXTENDS LapizWindow, SequenceLemmas

-----------------------------------------------------------------------------
(***************************************************************************)
(* The inductive invariant.                                                *)
(***************************************************************************)

Flags    == {"LOADING", "SAVING", "PRINTING", "ERROR"}
TabOrNot == Tabs \union {NoTab}
TabStates == [Tabs -> States]

Window == [pages: Seq(Tabs), current: TabOrNot, focused: Seq(Tabs),
           active: TabOrNot, listens: TabOrNot, num_tabs: Nat,
           state: SUBSET Flags, errors: Nat, bar: (SUBSET Flags) \X Nat,
           menu: Seq(Tabs), shown: Nat,
           close: BOOLEAN, save: BOOLEAN, closeAll: BOOLEAN, prev: BOOLEAN,
           paste: BOOLEAN]

\* The statusbar and Close All are those of the state that was computed last.
Told(x) ==
    /\ x.bar = <<x.state, x.errors>>
    /\ x.closeAll = (x.state \intersect {"SAVING", "PRINTING"} = {})

\* What the actions of tab t are in the states ts.
Offers(x, t, ts) ==
    /\ x.save = (ts[t] = "NORMAL")
    /\ x.close = (ts[t] \notin {"SAVING", "PRINTING", "SAVING_ERROR"})
    /\ x.paste => ts[t] = "NORMAL"

\* A window at the end of a step, or between two tabs of a Close All.
Follows(x, ts) ==
    /\ x \in Window /\ IsInjective(x.pages)
    /\ x.active = x.current /\ x.listens = x.current /\ x.num_tabs = Len(x.pages)
    /\ x.pages = <<>> => x.current = NoTab
    /\ x.pages # <<>> => x.current \in Range(x.pages) /\ Offers(x, x.current, ts)
    /\ x.state = FlagsOf(x.pages, ts) /\ x.errors = ErrorsIn(x.pages, ts) /\ Told(x)

\* Its menu, which a drag or the tabs that are closed together leave for the end.
Listed(x) ==
    /\ x.menu = x.pages /\ x.shown = PageNum(x.pages, x.active)
    /\ x.pages # <<>> => x.prev = (PageNum(x.pages, x.active) # 1)

Apart == \A v, w \in Windows : v # w => TabsOf(v) \intersect TabsOf(w) = {}

IInv ==
    /\ opened \subseteq Windows /\ drag \subseteq opened /\ wiped \subseteq opened
    /\ tabState \in TabStates /\ jumpTo \subseteq Tabs
    /\ drag = {} \/ \E w \in Windows : drag = {w}
    /\ synced = [t \in Tabs |-> {w \in Windows : t \in TabsOf(w)}]
    /\ Apart
    /\ win \in [Windows -> Window]
    /\ \A w \in Windows \ opened : win[w] = EmptyWindow
    /\ \A w \in Windows : Follows(win[w], tabState) /\ (w \notin drag => Listed(win[w]))

-----------------------------------------------------------------------------
(***************************************************************************)
(* Pages.                                                                  *)
(***************************************************************************)

LEMMA EmptyPages == <<>> \in Seq(Tabs) /\ IsInjective(<<>>) /\ Range(<<>>) = {} /\ Len(<<>>) = 0
  BY DEF IsInjective, Range

\* A sequence of tabs that are all different.
LEMMA PagesAre ==
    ASSUME NEW s \in Seq(Tabs)
    PROVE  /\ Len(s) \in Nat /\ DOMAIN s = 1..Len(s) /\ Range(s) \subseteq Tabs
           /\ \A i \in 1..Len(s) : s[i] \in Tabs /\ s[i] \in Range(s)
           /\ \A t \in Range(s) : \E i \in 1..Len(s) : s[i] = t
           /\ s # <<>> => Len(s) \in 1..Len(s) /\ 1 \in 1..Len(s)
           /\ (s = <<>>) <=> (Range(s) = {})
  <1>1. Len(s) \in Nat /\ DOMAIN s = 1..Len(s) /\ \A i \in 1..Len(s) : s[i] \in Tabs
    BY LenProperties
  <1>2. s # <<>> => Len(s) # 0 BY EmptySeq
  <1>3. /\ Range(s) \subseteq Tabs /\ \A i \in 1..Len(s) : s[i] \in Range(s)
        /\ \A t \in Range(s) : \E i \in 1..Len(s) : s[i] = t
    BY <1>1 DEF Range
  <1>4. s # <<>> => Len(s) \in 1..Len(s) /\ 1 \in 1..Len(s) BY <1>1, <1>2
  <1>5. s # <<>> => Range(s) # {} BY <1>3, <1>4
  <1>6. s = <<>> => Range(s) = {} BY EmptyPages
  <1> QED BY <1>1, <1>3, <1>4, <1>5, <1>6

\* The number of a page is its place.
LEMMA PageNumIs ==
    ASSUME NEW s \in Seq(Tabs), NEW t
    PROVE  /\ PageNum(s, t) \in Nat
           /\ t \notin Range(s) => PageNum(s, t) = 0
           /\ t \in Range(s) => PageNum(s, t) \in 1..Len(s) /\ s[PageNum(s, t)] = t
           /\ \A i \in 1..Len(s) : IsInjective(s) /\ s[i] = t => PageNum(s, t) = i
  <1> DEFINE I == {i \in 1..Len(s) : s[i] = t}
  <1>1. PageNum(s, t) = IF I # {} THEN Min(I) ELSE 0 BY DEF PageNum, SelectInSeq
  <1>2. I \in SUBSET Nat /\ DOMAIN s = 1..Len(s) BY PagesAre
  <1>3. I # {} <=> t \in Range(s) BY PagesAre DEF Range
  <1>4. I # {} => Min(I) \in I
    <2> HIDE DEF I
    <2> QED BY <1>2, MinIsLeast
  <1>5. PageNum(s, t) \in Nat BY <1>1, <1>2, <1>4
  <1>6. t \notin Range(s) => PageNum(s, t) = 0 BY <1>1, <1>3
  <1>7. t \in Range(s) => PageNum(s, t) \in I BY <1>1, <1>3, <1>4
  <1>8. ASSUME NEW i \in 1..Len(s), IsInjective(s), s[i] = t PROVE PageNum(s, t) = i
    <2>1. PageNum(s, t) \in I BY <1>1, <1>4, <1>8
    <2> QED BY <1>2, <1>8, <2>1 DEF IsInjective
  <1> QED BY <1>5, <1>6, <1>7, <1>8

\* The pages without one of them.
LEMMA WithoutPage ==
    ASSUME NEW s \in Seq(Tabs), IsInjective(s), NEW t \in Range(s)
    PROVE  /\ RemoveFirst(s, t) \in Seq(Tabs) /\ IsInjective(RemoveFirst(s, t))
           /\ Range(RemoveFirst(s, t)) = Range(s) \ {t} /\ Len(RemoveFirst(s, t)) = Len(s) - 1
  <1>1. PICK k : k = PageNum(s, t) OBVIOUS
  <1>2. k \in 1..Len(s) /\ s[k] = t BY <1>1, PageNumIs
  <1>3. PICK r : r = RemoveAt(s, k) OBVIOUS
  <1>4. RemoveFirst(s, t) = r
    BY <1>1, <1>2, <1>3 DEF RemoveFirst, PageNum
  <1>5. /\ r \in Seq(Tabs) /\ Len(r) = Len(s) - 1
        /\ \A i \in 1..(Len(s) - 1) : r[i] = IF i < k THEN s[i] ELSE s[i + 1]
    BY <1>2, <1>3, RemoveAtProperties
  <1>6. /\ Len(s) \in Nat /\ k \in Nat /\ DOMAIN s = 1..Len(s) /\ DOMAIN r = 1..(Len(s) - 1)
    BY <1>2, <1>5, PagesAre, LenProperties
  <1>7. \A i \in DOMAIN r : \E j \in 1..Len(s) : j # k /\ r[i] = s[j] /\ j = IF i < k THEN i ELSE i + 1
    BY <1>5, <1>6
  <1>8. \A i, j \in 1..Len(s) : s[i] = s[j] => i = j BY <1>6 DEF IsInjective
  <1>9. IsInjective(r)
    <2> SUFFICES ASSUME NEW i \in DOMAIN r, NEW j \in DOMAIN r, r[i] = r[j] PROVE i = j
      BY DEF IsInjective
    <2>1. (IF i < k THEN i ELSE i + 1) = (IF j < k THEN j ELSE j + 1) BY <1>7, <1>8
    <2> QED BY <1>6, <2>1
  <1>10. Range(r) \subseteq Range(s) \ {t} BY <1>2, <1>6, <1>7, <1>8 DEF Range
  <1>11. ASSUME NEW u \in Range(s) \ {t} PROVE u \in Range(r)
    <2>1. PICK j \in 1..Len(s) : s[j] = u /\ j # k BY <1>2, PagesAre
    <2>2. CASE j < k
      <3>1. j \in 1..(Len(s) - 1) /\ r[j] = u BY <1>2, <1>5, <1>6, <2>1, <2>2
      <3> QED BY <1>6, <3>1 DEF Range
    <2>3. CASE j > k
      <3>1. j - 1 \in 1..(Len(s) - 1) /\ ~(j - 1 < k) /\ (j - 1) + 1 = j BY <1>2, <1>6, <2>1, <2>3
      <3>2. r[j - 1] = u BY <1>5, <2>1, <3>1
      <3> QED BY <1>6, <3>1, <3>2 DEF Range
    <2> QED BY <1>6, <2>1, <2>2, <2>3
  <1> QED BY <1>4, <1>5, <1>9, <1>10, <1>11

\* One more page, at place k.
LEMMA OneMorePage ==
    ASSUME NEW s \in Seq(Tabs), NEW t \in Tabs \ Range(s), NEW r \in Seq(Tabs), NEW k \in 1..(Len(s) + 1),
           IsInjective(s), Len(r) = Len(s) + 1,
           \A i \in 1..(Len(s) + 1) :
              r[i] = IF i < k THEN s[i] ELSE IF i = k THEN t ELSE s[i - 1]
    PROVE  IsInjective(r) /\ Range(r) = Range(s) \union {t}
  <1>1. /\ Len(s) \in Nat /\ k \in Nat /\ DOMAIN s = 1..Len(s) /\ DOMAIN r = 1..(Len(s) + 1)
    BY PagesAre
  <1> DEFINE Old(i) == IF i < k THEN i ELSE i - 1
  <1>2. \A i \in DOMAIN r : i # k => Old(i) \in 1..Len(s) /\ r[i] = s[Old(i)] BY <1>1
  <1>3. r[k] = t /\ \A i \in 1..Len(s) : s[i] # t BY <1>1, PagesAre
  <1>4. \A i, j \in 1..Len(s) : s[i] = s[j] => i = j BY <1>1 DEF IsInjective
  <1>5. IsInjective(r)
    <2> SUFFICES ASSUME NEW i \in DOMAIN r, NEW j \in DOMAIN r, r[i] = r[j] PROVE i = j
      BY DEF IsInjective
    <2>1. CASE i = k \/ j = k BY <1>2, <1>3, <2>1
    <2>2. CASE i # k /\ j # k
      <3>1. Old(i) = Old(j) BY <1>2, <1>4, <2>2
      <3> QED BY <1>1, <2>2, <3>1
    <2> QED BY <2>1, <2>2
  <1>6. Range(r) \subseteq Range(s) \union {t} BY <1>1, <1>2, <1>3 DEF Range
  <1>7. t \in Range(r) BY <1>1, <1>3 DEF Range
  <1>8. ASSUME NEW u \in Range(s) PROVE u \in Range(r)
    <2>1. PICK j \in 1..Len(s) : s[j] = u BY PagesAre
    <2>2. CASE j < k
      <3>1. j \in DOMAIN r /\ r[j] = u BY <1>1, <2>1, <2>2
      <3> QED BY <3>1 DEF Range
    <2>3. CASE ~(j < k)
      <3>1. j + 1 \in DOMAIN r /\ j + 1 # k /\ Old(j + 1) = j BY <1>1, <2>1, <2>3
      <3>2. r[j + 1] = u BY <1>2, <2>1, <3>1
      <3> QED BY <3>1, <3>2 DEF Range
    <2> QED BY <2>2, <2>3
  <1> QED BY <1>5, <1>6, <1>7, <1>8

LEMMA InsertIs ==
    ASSUME NEW s \in Seq(Tabs), NEW t \in Tabs \ Range(s), NEW position \in Nat, IsInjective(s)
    PROVE  /\ Insert(s, t, position) \in Seq(Tabs) /\ Len(Insert(s, t, position)) = Len(s) + 1
           /\ IsInjective(Insert(s, t, position))
           /\ Range(Insert(s, t, position)) = Range(s) \union {t}
           /\ position = 0 => \A i \in 1..Len(s) : Insert(s, t, position)[i] = s[i]
  <1>1. Len(s) \in Nat /\ \A i \in 1..Len(s) : s[i] \in Tabs BY LenProperties
  <1>2. CASE position = 0 \/ position > Len(s)
    <2>1. PICK r : r = Append(s, t) OBVIOUS
    <2>2. r \in Seq(Tabs) /\ Len(r) = Len(s) + 1 /\ r[Len(s) + 1] = t /\ \A i \in 1..Len(s) : r[i] = s[i]
      BY <2>1, AppendProperties
    <2>3. PICK k \in 1..(Len(s) + 1) : k = Len(s) + 1 BY <1>1
    <2>4. \A i \in 1..(Len(s) + 1) : r[i] = IF i < k THEN s[i] ELSE IF i = k THEN t ELSE s[i - 1]
      BY <1>1, <2>2, <2>3
    <2>5. r \in Seq(Tabs) /\ Len(r) = Len(s) + 1 BY <2>2
    <2> HIDE <2>3
    <2>6. IsInjective(r) /\ Range(r) = Range(s) \union {t} BY <2>4, <2>5, OneMorePage
    <2>7. Insert(s, t, position) = r BY <1>2, <2>1 DEF Insert
    <2> QED BY <2>2, <2>6, <2>7
  <1>3. CASE position \in 1..Len(s)
    <2> DEFINE a == SubSeq(s, 1, position - 1)
               b == SubSeq(s, position, Len(s))
    <2>1. a \in Seq(Tabs) /\ Len(a) = position - 1 /\ \A i \in 1..(position - 1) : a[i] = s[i]
      <3>1. \A i \in 1..(position - 1) : s[i] \in Tabs BY <1>1, <1>3
      <3> QED BY <1>1, <1>3, <3>1, SubSeqProperties
    <2>2. /\ b \in Seq(Tabs) /\ Len(b) = Len(s) - position + 1
          /\ \A i \in 1..(Len(s) - position + 1) : b[i] = s[position + i - 1]
      <3>1. \A i \in position..Len(s) : s[i] \in Tabs BY <1>1, <1>3
      <3> QED BY <1>1, <1>3, <3>1, SubSeqProperties
    <2> HIDE DEF a, b
    <2>3. PICK c : c = a \o <<t>> OBVIOUS
    <2>4. /\ <<t>> \in Seq(Tabs) /\ Len(<<t>>) = 1 /\ <<t>>[1] = t OBVIOUS
    <2>5. /\ c \in Seq(Tabs) /\ Len(c) = Len(a) + 1
          /\ \A i \in 1..(Len(a) + 1) : c[i] = IF i <= Len(a) THEN a[i] ELSE <<t>>[i - Len(a)]
      BY <2>1, <2>3, <2>4, ConcatProperties
    <2>6. Len(c) = position BY <1>1, <1>3, <2>1, <2>5
    <2>7. \A i \in 1..position : c[i] = IF i < position THEN s[i] ELSE t
      BY <1>1, <1>3, <2>1, <2>4, <2>5
    <2>8. PICK r : r = c \o b OBVIOUS
    <2>9. /\ r \in Seq(Tabs) /\ Len(r) = Len(c) + Len(b)
          /\ \A i \in 1..(Len(c) + Len(b)) : r[i] = IF i <= Len(c) THEN c[i] ELSE b[i - Len(c)]
      BY <2>2, <2>5, <2>8, ConcatProperties
    <2>10. Len(r) = Len(s) + 1 BY <1>1, <1>3, <2>2, <2>6, <2>9
    <2>11. ASSUME NEW i \in 1..(Len(s) + 1)
           PROVE  r[i] = IF i < position THEN s[i] ELSE IF i = position THEN t ELSE s[i - 1]
      <3>1. r[i] = IF i <= position THEN c[i] ELSE b[i - position] BY <2>6, <2>9, <2>10
      <3>2. CASE i <= position BY <1>3, <2>7, <3>1, <3>2
      <3>3. CASE ~(i <= position)
        <4>1. i - position \in 1..(Len(s) - position + 1) /\ position + (i - position) - 1 = i - 1
          BY <1>1, <1>3, <3>3
        <4> QED BY <1>1, <1>3, <2>2, <3>1, <3>3, <4>1
      <3> QED BY <3>2, <3>3
    <2>12. position \in 1..(Len(s) + 1) BY <1>1, <1>3
    <2>13. IsInjective(r) /\ Range(r) = Range(s) \union {t} BY <2>9, <2>10, <2>11, <2>12, OneMorePage
    <2>14. Insert(s, t, position) = r BY <1>1, <1>3, <2>3, <2>8 DEF Insert, InsertAt, a, b
    <2>15. position # 0 BY <1>3
    <2> QED BY <2>9, <2>10, <2>13, <2>14, <2>15
  <1> QED BY <1>1, <1>2, <1>3

\* A page is moved to another place.
LEMMA ReorderIs ==
    ASSUME NEW s \in Seq(Tabs), IsInjective(s), NEW t \in Range(s), NEW position \in Nat
    PROVE  /\ Reorder(s, t, position) \in Seq(Tabs) /\ Len(Reorder(s, t, position)) = Len(s)
           /\ IsInjective(Reorder(s, t, position)) /\ Range(Reorder(s, t, position)) = Range(s)
  <1>1. PICK r : r = RemoveFirst(s, t) OBVIOUS
  <1>2. r \in Seq(Tabs) /\ IsInjective(r) /\ Range(r) = Range(s) \ {t} /\ Len(r) = Len(s) - 1
    BY <1>1, WithoutPage
  <1>3. Reorder(s, t, position) = Insert(r, t, position) BY <1>1 DEF Reorder
  <1>4. t \in Tabs \ Range(r) /\ Len(s) \in Nat /\ (Len(s) - 1) + 1 = Len(s) BY <1>2, PagesAre
  <1>5. /\ Insert(r, t, position) \in Seq(Tabs) /\ Len(Insert(r, t, position)) = Len(r) + 1
        /\ IsInjective(Insert(r, t, position)) /\ Range(Insert(r, t, position)) = Range(r) \union {t}
    BY <1>2, <1>4, InsertIs
  <1> QED BY <1>2, <1>3, <1>4, <1>5

\* The tabs that are closed together.
LEMMA FromTheLastIs ==
    ASSUME NEW s \in Seq(Tabs), IsInjective(s), NEW tabs \in SUBSET Range(s)
    PROVE  /\ FromTheLast(s, tabs) \in Seq(Tabs) /\ IsInjective(FromTheLast(s, tabs))
           /\ Range(FromTheLast(s, tabs)) = tabs
  <1> DEFINE n == Len(s)
             S == Seq(Tabs)
             Step(k, l) == IF s[k] \in tabs THEN <<s[k]>> \o l ELSE l
             list == CHOOSE f : f = [k \in 0..n |-> IF k = 0 THEN <<>> ELSE Step(k, f[k - 1])]
             Upto(k) == tabs \intersect {s[i] : i \in 1..k}
             Fine(l, k) == IsInjective(l) /\ Range(l) = Upto(k)
  <1>1. /\ n \in Nat /\ DOMAIN s = 1..n /\ \A i \in 1..n : s[i] \in Tabs
        /\ \A i, j \in 1..n : s[i] = s[j] => i = j
    BY LenProperties DEF IsInjective
  <1>2. FromTheLast(s, tabs) = list[n]
    <2> DEFINE F == CHOOSE f : f = [k \in 0..n |-> IF k = 0 THEN <<>>
                      ELSE IF s[k] \in tabs THEN <<s[k]>> \o f[k - 1] ELSE f[k - 1]]
    <2>1. FromTheLast(s, tabs) = F[n] BY DEF FromTheLast
    <2> QED BY <2>1
  <1>3. <<>> \in S OBVIOUS
  <1>4. \A k \in 1..n, l \in S :
           Step(k, l) \in S /\ (Fine(l, k - 1) => Fine(Step(k, l), k))
    <2> SUFFICES ASSUME NEW k \in 1..n, NEW l \in S
                 PROVE  Step(k, l) \in S /\ (Fine(l, k - 1) => Fine(Step(k, l), k))
      OBVIOUS
    <2>1. {s[i] : i \in 1..k} = {s[i] : i \in 1..(k - 1)} \union {s[k]}
      <3>1. \A i \in 1..k : i = k \/ i \in 1..(k - 1) BY <1>1
      <3>2. 1..(k - 1) \subseteq 1..k /\ k \in 1..k BY <1>1
      <3> QED BY <3>1, <3>2
    <2>2. CASE s[k] \notin tabs
      <3>1. Upto(k) = Upto(k - 1) BY <2>1, <2>2
      <3> QED BY <2>2, <3>1
    <2>3. CASE s[k] \in tabs
      <3>1. PICK t \in Tabs : t = s[k] BY <1>1
      <3>2. PICK b : b = <<t>> \o l OBVIOUS
      <3>3. <<t>> \in Seq(Tabs) /\ Len(<<t>>) = 1 /\ <<t>>[1] = t OBVIOUS
      <3>4. /\ b \in Seq(Tabs) /\ Len(b) = 1 + Len(l)
            /\ \A i \in 1..(1 + Len(l)) : b[i] = IF i <= 1 THEN <<t>>[i] ELSE l[i - 1]
        BY <3>2, <3>3, ConcatProperties
      <3>5. Len(l) \in Nat BY LenProperties
      <3>6. /\ 1 \in 1..(Len(l) + 1) /\ Len(b) = Len(l) + 1
            /\ \A i \in 1..(Len(l) + 1) : b[i] = IF i < 1 THEN l[i] ELSE IF i = 1 THEN t ELSE l[i - 1]
        BY <3>3, <3>4, <3>5
      <3>7. ASSUME Fine(l, k - 1) PROVE Fine(b, k)
        <4>1. \A i \in 1..(k - 1) : i \in 1..n /\ i # k BY <1>1
        <4>2. t \notin {s[i] : i \in 1..(k - 1)} BY <1>1, <3>1, <4>1
        <4>3. t \in Tabs \ Range(l) BY <3>7, <4>2
        <4>4. IsInjective(l) BY <3>7
        <4>5. IsInjective(b) /\ Range(b) = Range(l) \union {t}
          BY <3>4, <3>6, <4>3, <4>4, OneMorePage
        <4>6. Range(l) = Upto(k - 1) BY <3>7
        <4>7. Upto(k) = Upto(k - 1) \union {t} BY <2>1, <2>3, <3>1
        <4> QED BY <4>5, <4>6, <4>7
      <3>8. Step(k, l) = b BY <2>3, <3>1, <3>2
      <3> QED BY <3>4, <3>7, <3>8
    <2> QED BY <2>2, <2>3
  <1>5. Fine(<<>>, 0) BY EmptyPages
  <1> HIDE DEF Step, Fine, S, n
  <1>6. \E f : f = [k \in 0..n |-> IF k = 0 THEN <<>> ELSE Step(k, f[k - 1])]
    <2> DEFINE h == [k \in 1..n |-> [l \in S |-> Step(k, l)]]
    <2>1. h \in Makers(S, n) BY <1>4 DEF Makers
    <2>2. \A k \in 1..n, l \in S : h[k][l] = Step(k, l) OBVIOUS
    <2> HIDE DEF h
    <2>3. PICK f \in [0..n -> S] : IsMade(f, <<>>, h, n) BY <1>1, <1>3, <2>1, RecursionExists
    <2>4. f[0] = <<>> /\ \A k \in 1..n : f[k] = h[k][f[k - 1]] BY <2>3 DEF IsMade
    <2>5. ASSUME NEW k \in 0..n, k # 0 PROVE f[k] = Step(k, f[k - 1])
      <3>1. k \in 1..n /\ k - 1 \in 0..n BY <1>1, <2>5
      <3> QED BY <2>2, <2>4, <3>1
    <2> QED BY <2>4, <2>5
  <1>7. list = [k \in 0..n |-> IF k = 0 THEN <<>> ELSE Step(k, list[k - 1])] BY <1>6
  <1> HIDE DEF list
  <1>8. list[0] = <<>> /\ \A k \in 0..n : k # 0 => list[k] = Step(k, list[k - 1]) BY <1>1, <1>7
  <1> DEFINE T == {k \in Nat : k <= n => list[k] \in S /\ Fine(list[k], k)}
  <1>9. 0 \in T BY <1>3, <1>5, <1>8
  <1>10. ASSUME NEW k \in Nat, k \in T PROVE k + 1 \in T
    <2> SUFFICES ASSUME k + 1 <= n PROVE list[k + 1] \in S /\ Fine(list[k + 1], k + 1) OBVIOUS
    <2>1. k + 1 \in 1..n /\ k + 1 \in 0..n /\ (k + 1) - 1 = k /\ k <= n BY <1>1
    <2>2. list[k] \in S /\ Fine(list[k], k) BY <1>10, <2>1
    <2> HIDE DEF T
    <2>3. list[k + 1] = Step(k + 1, list[k]) BY <1>8, <2>1
    <2> QED BY <1>4, <2>1, <2>2, <2>3
  <1>11. n \in T
    <2> HIDE DEF T
    <2> QED BY <1>1, <1>9, <1>10, EveryNatural
  <1>12. list[n] \in S /\ Fine(list[n], n) BY <1>1, <1>11
  <1>13. tabs \intersect {s[i] : i \in 1..n} = tabs BY <1>1 DEF Range
  <1> QED BY <1>2, <1>12, <1>13 DEF Fine, S, n

-----------------------------------------------------------------------------
(***************************************************************************)
(* Lists of tabs that some of them leave.                                  *)
(***************************************************************************)

\* What the definition of Among computes.
Picks(f, s, tabs) ==
    /\ f \in [0..Len(s) -> Seq(Tabs)] /\ f[0] = <<>>
    /\ \A k \in 1..Len(s) : f[k] = IF s[k] \in tabs THEN Append(f[k - 1], s[k]) ELSE f[k - 1]

LEMMA AmongMade ==
    ASSUME NEW s \in Seq(Tabs), NEW tabs
    PROVE  \E f : Picks(f, s, tabs) /\ Among(s, tabs) = f[Len(s)]
  <1> DEFINE n == Len(s)
             S == Seq(Tabs)
             Step(k, l) == IF s[k] \in tabs THEN Append(l, s[k]) ELSE l
             list == CHOOSE f : f = [k \in 0..n |-> IF k = 0 THEN <<>> ELSE Step(k, f[k - 1])]
  <1>1. n \in Nat /\ \A i \in 1..n : s[i] \in Tabs BY LenProperties
  <1>2. Among(s, tabs) = list[n]
    <2> DEFINE F == CHOOSE f : f = [k \in 0..n |-> IF k = 0 THEN <<>>
                      ELSE IF s[k] \in tabs THEN Append(f[k - 1], s[k]) ELSE f[k - 1]]
    <2>1. Among(s, tabs) = F[n] BY DEF Among
    <2> QED BY <2>1
  <1>3. \A k \in 1..n, l \in S : Step(k, l) \in S BY <1>1, AppendProperties
  <1>4. <<>> \in S OBVIOUS
  <1>5. \A k \in 1..n : k \in 0..n /\ k # 0 /\ k - 1 \in 0..n BY <1>1
  <1> DEFINE h == [k \in 1..n |-> [l \in S |-> Step(k, l)]]
  <1>6. h \in Makers(S, n) BY <1>3 DEF Makers
  <1>7. \A k \in 1..n, l \in S : h[k][l] = Step(k, l) OBVIOUS
  <1> HIDE DEF h, Step, S, n
  <1>8. PICK f \in [0..n -> S] : IsMade(f, <<>>, h, n) BY <1>1, <1>4, <1>6, RecursionExists
  <1>9. f[0] = <<>> /\ \A k \in 1..n : f[k] = h[k][f[k - 1]] BY <1>8 DEF IsMade
  <1>10. \A k \in 1..n : f[k] = Step(k, f[k - 1]) BY <1>5, <1>7, <1>9
  <1>11. f = [k \in 0..n |-> IF k = 0 THEN <<>> ELSE Step(k, f[k - 1])]
    <2>1. \A k \in 0..n : k # 0 => k \in 1..n BY <1>1
    <2>2. \A k \in 0..n : f[k] = IF k = 0 THEN <<>> ELSE Step(k, f[k - 1]) BY <1>9, <1>10, <2>1
    <2> QED BY <2>2
  <1>12. list = [k \in 0..n |-> IF k = 0 THEN <<>> ELSE Step(k, list[k - 1])] BY <1>11
  <1> HIDE DEF list
  <1> DEFINE T == {k \in Nat : k <= n => list[k] = f[k]}
  <1>13. 0 \in T
    <2>1. 0 \in 0..n BY <1>1
    <2> QED BY <1>9, <1>12, <2>1
  <1>14. ASSUME NEW k \in Nat, k \in T PROVE k + 1 \in T
    <2> SUFFICES ASSUME k + 1 <= n PROVE list[k + 1] = f[k + 1] OBVIOUS
    <2>1. k + 1 \in 1..n /\ k + 1 \in 0..n /\ k + 1 # 0 /\ (k + 1) - 1 = k /\ k <= n BY <1>1
    <2>2. list[k] = f[k] BY <1>14, <2>1
    <2>3. list[k + 1] = Step(k + 1, list[k]) BY <1>12, <2>1
    <2> QED BY <1>10, <2>1, <2>2, <2>3
  <1>15. n \in T
    <2> HIDE DEF T
    <2> QED BY <1>1, <1>13, <1>14, EveryNatural
  <1>16. Among(s, tabs) = f[n] BY <1>1, <1>2, <1>15
  <1> QED BY <1>8, <1>9, <1>10, <1>16 DEF Picks, Step, S, n

LEMMA AmongNone == ASSUME NEW tabs PROVE Among(<<>>, tabs) = <<>>
  <1>1. <<>> \in Seq(Tabs) /\ Len(<<>>) = 0 OBVIOUS
  <1>2. PICK f : Picks(f, <<>>, tabs) /\ Among(<<>>, tabs) = f[0] BY <1>1, AmongMade
  <1> QED BY <1>2 DEF Picks

\* The last element of the list is taken or left.
LEMMA AmongAppended ==
    ASSUME NEW s \in Seq(Tabs), NEW t \in Tabs, NEW tabs
    PROVE  Among(Append(s, t), tabs) = IF t \in tabs THEN Append(Among(s, tabs), t) ELSE Among(s, tabs)
  <1>1. PICK n \in Nat : n = Len(s) BY LenProperties
  <1>2. PICK r : r = Append(s, t) OBVIOUS
  <1>3. r \in Seq(Tabs) /\ Len(r) = n + 1 /\ r[n + 1] = t /\ \A i \in 1..n : r[i] = s[i]
    BY <1>1, <1>2, AppendProperties
  <1>4. PICK f : Picks(f, s, tabs) /\ Among(s, tabs) = f[n] BY <1>1, AmongMade
  <1>5. PICK g : Picks(g, r, tabs) /\ Among(r, tabs) = g[n + 1] BY <1>3, AmongMade
  <1>6. /\ f[0] = <<>>
        /\ \A k \in 1..n : f[k] = IF s[k] \in tabs THEN Append(f[k - 1], s[k]) ELSE f[k - 1]
    BY <1>1, <1>4 DEF Picks
  <1>7. /\ g[0] = <<>>
        /\ \A k \in 1..(n + 1) : g[k] = IF r[k] \in tabs THEN Append(g[k - 1], r[k]) ELSE g[k - 1]
    BY <1>3, <1>5 DEF Picks
  <1> DEFINE T == {k \in Nat : k <= n => f[k] = g[k]}
  <1>8. 0 \in T BY <1>6, <1>7
  <1>9. ASSUME NEW k \in Nat, k \in T PROVE k + 1 \in T
    <2> SUFFICES ASSUME k + 1 <= n PROVE f[k + 1] = g[k + 1] OBVIOUS
    <2>1. k + 1 \in 1..n /\ k + 1 \in 1..(n + 1) /\ (k + 1) - 1 = k /\ k <= n OBVIOUS
    <2>2. f[k] = g[k] BY <1>9, <2>1
    <2> QED BY <1>3, <1>6, <1>7, <2>1, <2>2
  <1>10. n \in T
    <2> HIDE DEF T
    <2> QED BY <1>8, <1>9, EveryNatural
  <1>11. n + 1 \in 1..(n + 1) /\ (n + 1) - 1 = n OBVIOUS
  <1>12. g[n + 1] = IF t \in tabs THEN Append(g[n], t) ELSE g[n] BY <1>3, <1>7, <1>11
  <1> QED BY <1>2, <1>4, <1>5, <1>10, <1>12

LEMMA AmongIs ==
    ASSUME NEW s \in Seq(Tabs), NEW tabs
    PROVE  /\ Among(s, tabs) \in Seq(Tabs) /\ Range(Among(s, tabs)) = Range(s) \intersect tabs
           /\ IsInjective(s) => IsInjective(Among(s, tabs))
  <1> DEFINE Fine(l) == /\ Among(l, tabs) \in Seq(Tabs)
                        /\ Range(Among(l, tabs)) = Range(l) \intersect tabs
                        /\ IsInjective(l) => IsInjective(Among(l, tabs))
             T == {l \in Seq(Tabs) : Fine(l)}
  <1>1. <<>> \in T BY AmongNone, EmptyPages
  <1>2. ASSUME NEW l \in Seq(Tabs), l \in T, NEW t \in Tabs PROVE Append(l, t) \in T
    <2>1. Fine(l) BY <1>2
    <2>2. PICK r : r = Append(l, t) OBVIOUS
    <2>3. /\ r \in Seq(Tabs) /\ Range(r) = Range(l) \union {t}
          /\ IsInjective(r) <=> IsInjective(l) /\ t \notin Range(l)
      BY <2>2, AppendedIs
    <2>4. PICK a \in Seq(Tabs) : a = Among(l, tabs) BY <2>1
    <2>5. Among(r, tabs) = IF t \in tabs THEN Append(a, t) ELSE a BY <2>2, <2>4, AmongAppended
    <2>6. PICK b : b = Append(a, t) OBVIOUS
    <2>7. /\ b \in Seq(Tabs) /\ Range(b) = Range(a) \union {t}
          /\ IsInjective(b) <=> IsInjective(a) /\ t \notin Range(a)
      BY <2>6, AppendedIs
    <2>8. Fine(r) BY <2>1, <2>3, <2>4, <2>5, <2>6, <2>7
    <2> HIDE DEF Fine
    <2> QED BY <2>2, <2>3, <2>8
  <1>3. s \in T
    <2> HIDE DEF T
    <2> QED BY <1>1, <1>2, EverySequence
  <1> QED BY <1>3

\* What is taken depends on the tabs of the list only.
LEMMA AmongSame ==
    ASSUME NEW s \in Seq(Tabs), NEW tabs, NEW others,
           \A t \in Range(s) : t \in tabs <=> t \in others
    PROVE  Among(s, tabs) = Among(s, others)
  <1> DEFINE T == {l \in Seq(Tabs) : (\A t \in Range(l) : t \in tabs <=> t \in others)
                                        => Among(l, tabs) = Among(l, others)}
  <1>1. <<>> \in T BY AmongNone
  <1>2. ASSUME NEW l \in Seq(Tabs), l \in T, NEW t \in Tabs PROVE Append(l, t) \in T
    <2>1. PICK r : r = Append(l, t) OBVIOUS
    <2>2. r \in Seq(Tabs) /\ Range(r) = Range(l) \union {t} BY <2>1, AppendedIs
    <2>3. Among(r, tabs) = IF t \in tabs THEN Append(Among(l, tabs), t) ELSE Among(l, tabs)
      BY <2>1, AmongAppended
    <2>4. Among(r, others) = IF t \in others THEN Append(Among(l, others), t) ELSE Among(l, others)
      BY <2>1, AmongAppended
    <2>5. ASSUME \A u \in Range(r) : u \in tabs <=> u \in others PROVE Among(r, tabs) = Among(r, others)
      <3>1. (\A u \in Range(l) : u \in tabs <=> u \in others) /\ (t \in tabs <=> t \in others)
        BY <2>2, <2>5
      <3>2. Among(l, tabs) = Among(l, others) BY <1>2, <3>1
      <3> QED BY <2>3, <2>4, <3>1, <3>2
    <2> QED BY <2>1, <2>2, <2>5
  <1>3. s \in T
    <2> HIDE DEF T
    <2> QED BY <1>1, <1>2, EverySequence
  <1> QED BY <1>3

LEMMA AmongAll ==
    ASSUME NEW s \in Seq(Tabs), NEW tabs, Range(s) \subseteq tabs
    PROVE  Among(s, tabs) = s
  <1> DEFINE T == {l \in Seq(Tabs) : Range(l) \subseteq tabs => Among(l, tabs) = l}
  <1>1. <<>> \in T BY AmongNone
  <1>2. ASSUME NEW l \in Seq(Tabs), l \in T, NEW t \in Tabs PROVE Append(l, t) \in T
    <2>1. PICK r : r = Append(l, t) OBVIOUS
    <2>2. r \in Seq(Tabs) /\ Range(r) = Range(l) \union {t} BY <2>1, AppendedIs
    <2>3. Among(r, tabs) = IF t \in tabs THEN Append(Among(l, tabs), t) ELSE Among(l, tabs)
      BY <2>1, AmongAppended
    <2>4. r \in T BY <1>2, <2>1, <2>2, <2>3
    <2> QED BY <2>1, <2>4
  <1>3. s \in T
    <2> HIDE DEF T
    <2> QED BY <1>1, <1>2, EverySequence
  <1> QED BY <1>3

LEMMA AmongAmong ==
    ASSUME NEW s \in Seq(Tabs), NEW tabs, NEW others
    PROVE  Among(Among(s, tabs), others) = Among(s, tabs \intersect others)
  <1> DEFINE T == {l \in Seq(Tabs) : Among(Among(l, tabs), others) = Among(l, tabs \intersect others)}
  <1>1. <<>> \in T BY AmongNone
  <1>2. ASSUME NEW l \in Seq(Tabs), l \in T, NEW t \in Tabs PROVE Append(l, t) \in T
    <2>1. PICK r : r = Append(l, t) OBVIOUS
    <2>2. PICK both : both = tabs \intersect others OBVIOUS
    <2>3. PICK a \in Seq(Tabs) : a = Among(l, tabs) BY AmongIs
    <2>4. Among(r, tabs) = IF t \in tabs THEN Append(a, t) ELSE a BY <2>1, <2>3, AmongAppended
    <2>5. Among(r, both) = IF t \in both THEN Append(Among(l, both), t) ELSE Among(l, both)
      BY <2>1, AmongAppended
    <2>6. Among(Append(a, t), others) = IF t \in others THEN Append(Among(a, others), t) ELSE Among(a, others)
      BY <2>3, AmongAppended
    <2>7. Among(a, others) = Among(l, both) BY <1>2, <2>2, <2>3
    <2>8. r \in Seq(Tabs) BY <2>1, AppendedIs
    <2>9. Among(Among(r, tabs), others) = Among(r, both)
      <3>1. CASE t \in tabs BY <2>2, <2>4, <2>5, <2>6, <2>7, <3>1
      <3>2. CASE t \notin tabs BY <2>2, <2>4, <2>5, <2>7, <3>2
      <3> QED BY <3>1, <3>2
    <2> QED BY <2>1, <2>2, <2>8, <2>9
  <1>3. s \in T
    <2> HIDE DEF T
    <2> QED BY <1>1, <1>2, EverySequence
  <1> QED BY <1>3

\* Without one of them.
LEMMA AmongOthers ==
    ASSUME NEW s \in Seq(Tabs), IsInjective(s), NEW t
    PROVE  RemoveFirst(s, t) = Among(s, Tabs \ {t})
  <1> DEFINE others == Tabs \ {t}
             T == {l \in Seq(Tabs) : IsInjective(l) => RemoveFirst(l, t) = Among(l, others)}
  <1>1. <<>> \in T
    <2>1. <<>> \in Seq(Tabs) /\ t \notin Range(<<>>) BY EmptyPages
    <2>2. RemoveFirst(<<>>, t) = <<>> BY <2>1, RemoveFirstAbsent
    <2> QED BY <2>2, AmongNone
  <1>2. ASSUME NEW l \in Seq(Tabs), l \in T, NEW u \in Tabs PROVE Append(l, u) \in T
    <2>1. PICK r : r = Append(l, u) OBVIOUS
    <2>2. r \in Seq(Tabs) /\ (IsInjective(r) <=> IsInjective(l) /\ u \notin Range(l)) BY <2>1, AppendedIs
    <2>3. Among(r, others) = IF u \in others THEN Append(Among(l, others), u) ELSE Among(l, others)
      BY <2>1, AmongAppended
    <2>4. ASSUME IsInjective(r) PROVE RemoveFirst(r, t) = Among(r, others)
      <3>1. RemoveFirst(r, t) = IF t = u THEN l ELSE Append(RemoveFirst(l, t), u)
        BY <2>1, <2>4, RemoveFirstAppended
      <3>2. RemoveFirst(l, t) = Among(l, others) BY <1>2, <2>2, <2>4
      <3>3. CASE t = u
        <4>1. Range(l) \subseteq others BY <2>2, <2>4, <3>3, PagesAre
        <4>2. Among(l, others) = l
          <5> HIDE DEF others
          <5> QED BY <4>1, AmongAll
        <4> QED BY <2>3, <3>1, <3>3, <4>2
      <3>4. CASE t # u BY <2>3, <3>1, <3>2, <3>4
      <3> QED BY <3>3, <3>4
    <2> QED BY <2>1, <2>2, <2>4
  <1>3. s \in T
    <2> HIDE DEF T
    <2> QED BY <1>1, <1>2, EverySequence
  <1> QED BY <1>3

-----------------------------------------------------------------------------
(***************************************************************************)
(* What the user has seen of a window, and the focus history.              *)
(***************************************************************************)

\* The window shows one of its pages.
Shown(x) == x \in Window /\ IF Range(x.pages) = {} THEN x.current = NoTab
                                                   ELSE x.current \in Range(x.pages)

\* The focus history of x is what has been seen of it, and that of y what has been
\* seen since.
Remembers(x) == IsInjective(x.focused) /\ SeenOf(x.focused, x) = x.focused
Sees(x, y) == Remembers(x) => y.focused = SeenOf(x.focused, y)

\* y has no new page, and the page that x shows is shown or gone.
Leaves(x, y) == Range(y.pages) \subseteq Range(x.pages) /\ x.current \notin Range(y.pages) \ {y.current}

\* The handler of switch-page has been called for a page that was not shown.
Refocused(focused, x, y) ==
    y.focused = IF y.current \in {x.current, NoTab} THEN focused ELSE Focus(focused, y.current)

LEMMA FollowsShown == ASSUME NEW x, NEW ts, Follows(x, ts) PROVE Shown(x)
  <1>1. x.pages \in Seq(Tabs) BY DEF Follows, Window
  <1>2. x.pages = <<>> <=> Range(x.pages) = {} BY <1>1, PagesAre
  <1> QED BY <1>2 DEF Follows, Shown

LEMMA SeenIs ==
    ASSUME NEW seen \in Seq(Tabs), NEW x, Shown(x)
    PROVE  /\ SeenOf(seen, x) \in Seq(Tabs) /\ Range(SeenOf(seen, x)) \subseteq Range(x.pages)
           /\ IsInjective(seen) => IsInjective(SeenOf(seen, x))
  <1>1. PICK c : c = x.current OBVIOUS
  <1>2. PICK others : others = Range(x.pages) \ {c} OBVIOUS
  <1>3. PICK a \in Seq(Tabs) : a = Among(seen, others) BY AmongIs
  <1>4. Range(a) = Range(seen) \intersect others /\ (IsInjective(seen) => IsInjective(a)) BY <1>3, AmongIs
  <1>5. SeenOf(seen, x) = IF c = NoTab THEN a ELSE Append(a, c) BY <1>1, <1>2, <1>3 DEF SeenOf
  <1>6. CASE c = NoTab BY <1>2, <1>4, <1>5, <1>6
  <1>7. CASE c # NoTab
    <2>1. c \in Range(x.pages) /\ c \in Tabs BY <1>1, <1>7 DEF Shown, Window, TabOrNot
    <2>2. PICK r : r = Append(a, c) OBVIOUS
    <2>3. r \in Seq(Tabs) /\ Range(r) = Range(a) \union {c} BY <2>1, <2>2, AppendedIs
    <2>4. IsInjective(r) <=> IsInjective(a) /\ c \notin Range(a) BY <2>1, <2>2, AppendedIs
    <2> QED BY <1>2, <1>4, <1>5, <1>7, <2>1, <2>2, <2>3, <2>4
  <1> QED BY <1>6, <1>7

\* What is seen of v and then of w, of which v may have had more.
LEMMA SeenTwice ==
    ASSUME NEW seen \in Seq(Tabs), NEW v, Shown(v), NEW w, Shown(w), Leaves(v, w)
    PROVE  SeenOf(SeenOf(seen, v), w) = SeenOf(seen, w)
  <1>1. PICK c : c = v.current OBVIOUS
  <1>2. PICK first : first = Range(v.pages) \ {c} OBVIOUS
  <1>3. PICK later : later = Range(w.pages) \ {w.current} OBVIOUS
  <1>4. PICK a \in Seq(Tabs) : a = Among(seen, first) BY AmongIs
  <1>5. PICK r : r = SeenOf(seen, v) OBVIOUS
  <1>6. r = IF c = NoTab THEN a ELSE Append(a, c) BY <1>1, <1>2, <1>4, <1>5 DEF SeenOf
  <1>7. c \notin later /\ first \intersect later = later BY <1>1, <1>2, <1>3 DEF Leaves
  <1>8. c # NoTab => c \in Tabs BY <1>1 DEF Shown, Window, TabOrNot
  <1>9. Among(r, later) = Among(a, later)
    <2>1. ASSUME c # NoTab PROVE Among(Append(a, c), later) = Among(a, later)
      BY <1>7, <1>8, <2>1, AmongAppended
    <2> QED BY <1>6, <2>1
  <1>10. Among(a, later) = Among(seen, first \intersect later) BY <1>4, AmongAmong
  <1>11. Among(r, later) = Among(seen, later) BY <1>7, <1>9, <1>10
  <1> QED BY <1>3, <1>5, <1>11 DEF SeenOf

LEMMA SeesOn ==
    ASSUME NEW x, x.focused \in Seq(Tabs), NEW v, Shown(v), NEW w, Shown(w),
           Sees(x, v), Sees(v, w), Leaves(v, w)
    PROVE  Sees(x, w)
  <1> SUFFICES ASSUME Remembers(x) PROVE w.focused = SeenOf(x.focused, w) BY DEF Sees
  <1>1. PICK seen \in Seq(Tabs) : seen = x.focused OBVIOUS
  <1>2. v.focused = SeenOf(seen, v) BY <1>1 DEF Sees
  <1>3. IsInjective(v.focused) BY <1>1, <1>2, SeenIs DEF Remembers
  <1>4. Leaves(v, v) BY DEF Leaves
  <1>5. SeenOf(v.focused, v) = v.focused BY <1>2, <1>4, SeenTwice
  <1>6. w.focused = SeenOf(v.focused, w) BY <1>3, <1>5 DEF Sees, Remembers
  <1>7. SeenOf(SeenOf(seen, v), w) = SeenOf(seen, w) BY SeenTwice
  <1> QED BY <1>1, <1>2, <1>6, <1>7

LEMMA SeesAlike ==
    ASSUME NEW x, NEW y, y.focused = x.focused, y.current = x.current, Range(y.pages) = Range(x.pages)
    PROVE  Sees(x, y) /\ Leaves(x, y)
  <1>1. \A seen : SeenOf(seen, y) = SeenOf(seen, x) BY DEF SeenOf
  <1> QED BY <1>1 DEF Sees, Remembers, Leaves

\* The handlers keep up with what is seen, when the tabs of D have left the list.
LEMMA RefocusedSees ==
    ASSUME NEW x, Shown(x), Remembers(x), NEW y, Shown(y), NEW D,
           Range(x.pages) \subseteq Range(y.pages) \union D, Range(y.pages) \intersect D = {},
           Refocused(Among(x.focused, Tabs \ D), x, y)
    PROVE  y.focused = SeenOf(x.focused, y)
  <1>1. x.focused \in Seq(Tabs) /\ x.pages \in Seq(Tabs) /\ y.pages \in Seq(Tabs) BY DEF Shown, Window
  <1>2. PICK f \in Seq(Tabs) : f = x.focused BY <1>1
  <1>3. IsInjective(f) /\ f = SeenOf(f, x) BY <1>2 DEF Remembers
  <1>4. Range(f) \subseteq Range(x.pages) BY <1>3, SeenIs
  <1>5. Range(x.pages) \subseteq Tabs /\ Range(y.pages) \subseteq Tabs BY <1>1, PagesAre
  <1>6. PICK rest : rest = Tabs \ D OBVIOUS
  <1>7. PICK g \in Seq(Tabs) : g = Among(f, rest) BY AmongIs
  <1>8. IsInjective(g) BY <1>3, <1>7, AmongIs
  <1>9. PICK c : c = y.current OBVIOUS
  <1>10. PICK others : others = Range(y.pages) \ {c} OBVIOUS
  <1>11. SeenOf(f, y) = IF c = NoTab THEN Among(f, others) ELSE Append(Among(f, others), c)
    BY <1>9, <1>10 DEF SeenOf
  <1>12. y.focused = IF c \in {x.current, NoTab} THEN g ELSE Focus(g, c)
    BY <1>2, <1>6, <1>7, <1>9 DEF Refocused
  <1>13. CASE c = NoTab
    <2>1. Range(y.pages) = {} BY <1>9, <1>13, <1>5, TabAssumption DEF Shown
    <2>2. \A u \in Range(f) : u \in rest <=> u \in others BY <1>4, <1>6, <1>10, <2>1
    <2>3. g = Among(f, others) BY <1>7, <2>2, AmongSame
    <2> QED BY <1>2, <1>11, <1>12, <1>13, <2>3
  <1>14. CASE c # NoTab /\ c = x.current
    <2>1. PICK before : before = Range(x.pages) \ {c} OBVIOUS
    <2>2. PICK a \in Seq(Tabs) : a = Among(f, before) BY AmongIs
    <2>3. f = Append(a, c) BY <1>3, <1>14, <2>1, <2>2 DEF SeenOf
    <2>4. c \in Range(y.pages) BY <1>9, <1>14 DEF Shown
    <2>5. c \in Tabs /\ c \in rest BY <1>5, <1>6, <2>4
    <2>6. g = Append(Among(a, rest), c) BY <1>7, <2>3, <2>5, AmongAppended
    <2>7. Among(a, rest) = Among(f, before \intersect rest) BY <2>2, AmongAmong
    <2>8. PICK both : both = before \intersect rest OBVIOUS
    <2>9. \A u \in Range(f) : u \in both <=> u \in others BY <1>4, <1>5, <1>6, <1>10, <2>1, <2>8
    <2>10. Among(f, both) = Among(f, others) BY <2>9, AmongSame
    <2> QED BY <1>2, <1>11, <1>12, <1>14, <2>6, <2>7, <2>8, <2>10
  <1>15. CASE c \notin {x.current, NoTab}
    <2>1. y.focused = Append(RemoveFirst(g, c), c) BY <1>12, <1>15 DEF Focus
    <2>2. PICK besides : besides = Tabs \ {c} OBVIOUS
    <2>3. RemoveFirst(g, c) = Among(g, besides) BY <1>8, <2>2, AmongOthers
    <2>4. Among(g, besides) = Among(f, rest \intersect besides) BY <1>7, AmongAmong
    <2>5. PICK both : both = rest \intersect besides OBVIOUS
    <2>6. \A u \in Range(f) : u \in both <=> u \in others BY <1>4, <1>5, <1>6, <1>10, <2>2, <2>5
    <2>7. Among(f, both) = Among(f, others) BY <2>6, AmongSame
    <2> QED BY <1>2, <1>11, <1>15, <2>1, <2>3, <2>4, <2>5, <2>7
  <1> QED BY <1>13, <1>14, <1>15

\* The tabs are those there were and perhaps more ...
LEMMA GainsSees ==
    ASSUME NEW x, Shown(x), NEW y, Shown(y), Range(x.pages) \subseteq Range(y.pages),
           Refocused(x.focused, x, y)
    PROVE  Sees(x, y)
  <1> SUFFICES ASSUME Remembers(x) PROVE y.focused = SeenOf(x.focused, y) BY DEF Sees
  <1>1. x.focused \in Seq(Tabs) BY DEF Shown, Window
  <1>2. Range(x.focused) \subseteq Tabs BY <1>1, PagesAre
  <1>3. PICK D : D = {} OBVIOUS
  <1>4. Among(x.focused, Tabs \ D) = x.focused BY <1>1, <1>2, <1>3, AmongAll
  <1>5. Range(x.pages) \subseteq Range(y.pages) \union D /\ Range(y.pages) \intersect D = {} BY <1>3
  <1>6. Refocused(Among(x.focused, Tabs \ D), x, y) BY <1>4
  <1> QED BY <1>5, <1>6, RefocusedSees

\* ... or all but one, which has left the list.
LEMMA LosesSees ==
    ASSUME NEW x, Shown(x), NEW y, Shown(y), NEW t, Range(y.pages) = Range(x.pages) \ {t},
           Refocused(RemoveFirst(x.focused, t), x, y)
    PROVE  Sees(x, y)
  <1> SUFFICES ASSUME Remembers(x) PROVE y.focused = SeenOf(x.focused, y) BY DEF Sees
  <1>1. x.focused \in Seq(Tabs) /\ IsInjective(x.focused) BY DEF Shown, Window, Remembers
  <1>2. PICK D : D = {t} OBVIOUS
  <1>3. RemoveFirst(x.focused, t) = Among(x.focused, Tabs \ D) BY <1>1, <1>2, AmongOthers
  <1>4. Range(x.pages) \subseteq Range(y.pages) \union D /\ Range(y.pages) \intersect D = {} BY <1>2
  <1>5. Refocused(Among(x.focused, Tabs \ D), x, y) BY <1>3
  <1> QED BY <1>4, <1>5, RefocusedSees

-----------------------------------------------------------------------------
(***************************************************************************)
(* What the window computes.                                               *)
(***************************************************************************)

\* The errors are counted by page, and no tab has two pages.
LEMMA ErrorsAre ==
    ASSUME NEW s \in Seq(Tabs), IsInjective(s), NEW ts
    PROVE  /\ ErrorsIn(s, ts) \in Nat
           /\ ErrorsIn(s, ts) = Cardinality({t \in Range(s) : ts[t] = "SAVING_ERROR"})
  <1> DEFINE P == {i \in DOMAIN s : ts[s[i]] = "SAVING_ERROR"}
             E == {t \in Range(s) : ts[t] = "SAVING_ERROR"}
  <1>1. Len(s) \in Nat /\ DOMAIN s = 1..Len(s) BY PagesAre
  <1>2. IsFiniteSet(P)
    <2>1. IsFiniteSet(1..Len(s)) /\ P \subseteq 1..Len(s) BY <1>1, FS_Interval
    <2> QED BY <2>1, FS_Subset
  <1>3. PICK f : f = [i \in P |-> s[i]] OBVIOUS
  <1>4. f \in [P -> E] BY <1>3 DEF Range
  <1>5. f \in Bijection(P, E)
    <2>1. \A i, j \in P : f[i] = f[j] => i = j BY <1>3 DEF IsInjective
    <2>2. \A t \in E : \E i \in P : f[i] = t BY <1>3 DEF Range
    <2> HIDE DEF P, E
    <2> QED BY <1>4, <2>1, <2>2 DEF Bijection, Injection, Surjection, IsInjective
  <1>6. ExistsBijection(P, E) BY <1>5 DEF ExistsBijection
  <1>7. ErrorsIn(s, ts) = Cardinality(P) BY DEF ErrorsIn
  <1> HIDE DEF P, E
  <1>8. Cardinality(P) \in Nat BY <1>2, FS_CardinalityType
  <1>9. Cardinality(E) = Cardinality(P) BY <1>2, <1>6, FS_Bijection
  <1> QED BY <1>7, <1>8, <1>9 DEF E

LEMMA FlagsAre == \A s, ts : FlagsOf(s, ts) \in SUBSET Flags
  BY DEF FlagsOf, Flags

\* Both depend on the states of the pages only.
LEMMA SameSummary ==
    ASSUME NEW s \in Seq(Tabs), IsInjective(s), NEW ts, NEW us, \A t \in Range(s) : us[t] = ts[t]
    PROVE  FlagsOf(s, us) = FlagsOf(s, ts) /\ ErrorsIn(s, us) = ErrorsIn(s, ts)
  <1>1. {ts[t] : t \in Range(s)} = {us[t] : t \in Range(s)} OBVIOUS
  <1>2. {t \in Range(s) : ts[t] = "SAVING_ERROR"} = {t \in Range(s) : us[t] = "SAVING_ERROR"} OBVIOUS
  <1>3. FlagsOf(s, us) = FlagsOf(s, ts) BY <1>1 DEF FlagsOf
  <1> QED BY <1>2, <1>3, ErrorsAre

\* update_window_state leaves all but four fields alone.
LEMMA UpdateStateIs ==
    ASSUME NEW x \in Window, IsInjective(x.pages), Told(x), NEW ts
    PROVE  /\ UpdateState(x, ts) \in Window /\ Told(UpdateState(x, ts))
           /\ UpdateState(x, ts).state = FlagsOf(x.pages, ts)
           /\ UpdateState(x, ts).errors = ErrorsIn(x.pages, ts)
           /\ UpdateState(x, ts).pages = x.pages /\ UpdateState(x, ts).current = x.current
           /\ UpdateState(x, ts).active = x.active /\ UpdateState(x, ts).listens = x.listens
           /\ UpdateState(x, ts).num_tabs = x.num_tabs /\ UpdateState(x, ts).focused = x.focused
           /\ UpdateState(x, ts).menu = x.menu /\ UpdateState(x, ts).shown = x.shown
           /\ UpdateState(x, ts).close = x.close /\ UpdateState(x, ts).save = x.save
           /\ UpdateState(x, ts).prev = x.prev /\ UpdateState(x, ts).paste = x.paste
  <1>1. PICK fl \in SUBSET Flags : fl = FlagsOf(x.pages, ts) BY FlagsAre
  <1>2. PICK er \in Nat : er = ErrorsIn(x.pages, ts)
    <2>1. x.pages \in Seq(Tabs) BY DEF Window
    <2> QED BY <2>1, ErrorsAre
  <1>3. UpdateState(x, ts) =
           LET new  == [x EXCEPT !.state = fl, !.errors = er]
               told == [new EXCEPT !.bar = <<new.state, new.errors>>]
           IN IF new.state # x.state THEN SetWindowSensitivity(told)
              ELSE IF new.errors # x.errors THEN told ELSE new
    BY <1>1, <1>2 DEF UpdateState
  <1> DEFINE Rest(y) ==
        /\ y.pages = x.pages /\ y.current = x.current /\ y.active = x.active
        /\ y.listens = x.listens /\ y.num_tabs = x.num_tabs /\ y.focused = x.focused
        /\ y.menu = x.menu /\ y.shown = x.shown
        /\ y.close = x.close /\ y.save = x.save /\ y.prev = x.prev /\ y.paste = x.paste
  <1>4. <<fl, er>> \in (SUBSET Flags) \X Nat OBVIOUS
  <1>5. PICK y : y = UpdateState(x, ts) OBVIOUS
  <1>6. CASE fl # x.state
    <2>1. PICK all \in BOOLEAN : all = (fl \intersect {"SAVING", "PRINTING"} = {}) OBVIOUS
    <2>2. y = [x EXCEPT !.state = fl, !.errors = er, !.bar = <<fl, er>>, !.closeAll = all]
      BY <1>3, <1>5, <1>6, <2>1 DEF SetWindowSensitivity, Window
    <2>3. y \in Window BY <1>4, <2>2 DEF Window
    <2>4. Rest(y) BY <2>2 DEF Window
    <2>5. y.state = fl /\ y.errors = er /\ y.bar = <<fl, er>> /\ y.closeAll = all
      BY <2>2 DEF Window
    <2> QED BY <1>1, <1>2, <1>5, <2>1, <2>3, <2>4, <2>5 DEF Told
  <1>7. CASE fl = x.state /\ er # x.errors
    <2>1. y = [x EXCEPT !.state = fl, !.errors = er, !.bar = <<fl, er>>]
      BY <1>3, <1>5, <1>7 DEF Window
    <2>2. y \in Window BY <1>4, <2>1 DEF Window
    <2>3. Rest(y) BY <2>1 DEF Window
    <2>4. y.state = fl /\ y.errors = er /\ y.bar = <<fl, er>> /\ y.closeAll = x.closeAll
      BY <2>1 DEF Window
    <2> QED BY <1>1, <1>2, <1>5, <1>7, <2>2, <2>3, <2>4 DEF Told
  <1>8. CASE fl = x.state /\ er = x.errors
    <2>1. y = x BY <1>3, <1>5, <1>8 DEF Window
    <2> QED BY <1>1, <1>2, <1>5, <1>8, <2>1 DEF Told
  <1> QED BY <1>6, <1>7, <1>8

LEMMA SensitivityTyped ==
    ASSUME NEW x \in Window, NEW pr \in BOOLEAN, NEW cl \in BOOLEAN, NEW sa \in BOOLEAN, NEW pa \in BOOLEAN
    PROVE  [x EXCEPT !.prev = pr, !.close = cl, !.save = sa, !.paste = pa] \in Window
  <1>1. PICK a \in Window : a = [x EXCEPT !.prev = pr] BY DEF Window
  <1>2. PICK b \in Window : b = [a EXCEPT !.close = cl] BY DEF Window
  <1>3. PICK c \in Window : c = [b EXCEPT !.save = sa] BY DEF Window
  <1>4. PICK d \in Window : d = [c EXCEPT !.paste = pa] BY DEF Window
  <1>5. d = [x EXCEPT !.prev = pr, !.close = cl, !.save = sa, !.paste = pa]
    BY <1>1, <1>2, <1>3, <1>4 DEF Window
  <1> QED BY <1>5

\* switch-page for a page that was not the one shown.
LEMMA ShowIs ==
    ASSUME NEW x \in Window, NEW ts, NEW p \in Range(x.pages), p # x.current, p # x.active,
           NEW y, y = Show(x, p, ts)
    PROVE  /\ y \in Window /\ y.pages = x.pages /\ y.num_tabs = x.num_tabs
           /\ y.state = x.state /\ y.errors = x.errors /\ y.bar = x.bar /\ y.closeAll = x.closeAll
           /\ y.current = p /\ y.active = p /\ y.listens = p /\ Offers(y, p, ts)
           /\ y.menu = x.menu /\ y.prev = (PageNum(x.pages, p) # 1)
           /\ PageNum(x.pages, p) \in DOMAIN x.menu => y.shown = PageNum(x.pages, p)
           /\ y.focused = Focus(x.focused, p)
  <1>1. x.pages \in Seq(Tabs) /\ x.menu \in Seq(Tabs) /\ x.focused \in Seq(Tabs) BY DEF Window
  <1>2. p \in Tabs /\ p # NoTab BY <1>1, PagesAre, TabAssumption
  <1>3. PICK n \in Nat : n = PageNum(x.pages, p) BY <1>1, PageNumIs
  <1>4. PICK sh \in Nat : sh = IF n \in DOMAIN x.menu THEN n ELSE x.shown BY DEF Window
  <1>5. PICK cl \in BOOLEAN : cl = (ts[p] \notin {"SAVING", "PRINTING", "SAVING_ERROR"}) OBVIOUS
  <1>6. PICK sa \in BOOLEAN : sa = (ts[p] = "NORMAL") OBVIOUS
  <1>7. PICK pa \in BOOLEAN : pa = (x.paste /\ ts[p] = "NORMAL") OBVIOUS
  <1>8. PICK pr \in BOOLEAN : pr = (n # 1) OBVIOUS
  <1>9. PICK z : z = [x EXCEPT !.active = p, !.listens = p, !.shown = sh, !.prev = pr,
                        !.close = cl, !.save = sa, !.paste = pa]
    OBVIOUS
  <1>10. SwitchActive(x, p, ts) = z
    <2>1. SwitchActive(x, p, ts) =
             SetSensitivity([x EXCEPT !.active = p, !.listens = p, !.shown = sh], p, ts)
      BY <1>3, <1>4 DEF SwitchActive
    <2>2. PICK v : v = [x EXCEPT !.active = p, !.listens = p, !.shown = sh] OBVIOUS
    <2>3. v.pages = x.pages /\ v.paste = x.paste BY <2>2 DEF Window
    <2>4. UpdatePrevious(v, p) = [v EXCEPT !.prev = pr] BY <1>3, <1>8, <2>3 DEF UpdatePrevious
    <2>5. SetSensitivity(v, p, ts) = [v EXCEPT !.prev = pr, !.close = cl, !.save = sa, !.paste = pa]
      BY <1>5, <1>6, <1>7, <2>2, <2>3, <2>4 DEF SetSensitivity, Window
    <2> QED BY <1>9, <2>1, <2>2, <2>5 DEF Window
  <1>11. PICK fo \in Seq(Tabs) : fo = Focus(x.focused, p)
    <2>1. RemoveFirst(x.focused, p) \in Seq(Tabs) BY <1>1, RemoveFirstProperties
    <2>2. Append(RemoveFirst(x.focused, p), p) \in Seq(Tabs) BY <1>2, <2>1, AppendProperties
    <2> QED BY <2>2 DEF Focus
  <1>12. z.focused = x.focused BY <1>9 DEF Window
  <1>13. y = [z EXCEPT !.current = p, !.focused = fo]
    BY <1>2, <1>10, <1>11, <1>12 DEF Show
  <1>14. y = [x EXCEPT !.active = p, !.listens = p, !.shown = sh, !.prev = pr,
                 !.close = cl, !.save = sa, !.paste = pa, !.current = p, !.focused = fo]
    BY <1>9, <1>13 DEF Window
  <1>15. y \in Window
    <2>1. p \in TabOrNot BY <1>2 DEF TabOrNot
    <2>2. PICK v : v = [x EXCEPT !.active = p, !.listens = p, !.shown = sh] OBVIOUS
    <2>3. v \in Window BY <2>1, <2>2 DEF Window
    <2>4. z = [v EXCEPT !.prev = pr, !.close = cl, !.save = sa, !.paste = pa]
      BY <1>9, <2>2 DEF Window
    <2>5. z \in Window BY <1>5, <1>6, <1>7, <1>8, <2>3, <2>4, SensitivityTyped, Zenon
    <2> QED BY <1>13, <2>1, <2>5 DEF Window
  <1>16. /\ y.pages = x.pages /\ y.num_tabs = x.num_tabs
         /\ y.state = x.state /\ y.errors = x.errors /\ y.bar = x.bar /\ y.closeAll = x.closeAll
         /\ y.current = p /\ y.active = p /\ y.listens = p /\ y.menu = x.menu /\ y.focused = fo
    BY <1>14 DEF Window
  <1>17. y.save = sa /\ y.close = cl /\ y.paste = pa /\ y.prev = pr /\ y.shown = sh
    BY <1>14 DEF Window
  <1> QED BY <1>3, <1>4, <1>5, <1>6, <1>7, <1>8, <1>11, <1>15, <1>16, <1>17 DEF Offers

\* A page is selected.
LEMMA ShowFollows ==
    ASSUME NEW x, NEW ts, Follows(x, ts), NEW p \in Range(x.pages), NEW y, y = Show(x, p, ts)
    PROVE  /\ Follows(y, ts) /\ y.pages = x.pages /\ (Listed(x) => Listed(y))
           /\ y.current = p /\ Refocused(x.focused, x, y)
  <1>1. CASE p = x.current BY <1>1 DEF Show, Refocused
  <1>2. CASE p # x.current
    <2>1. /\ x \in Window /\ x.pages \in Seq(Tabs) /\ x.pages # <<>> /\ x.active = x.current
      BY PagesAre DEF Follows, Window
    <2>2. /\ y \in Window /\ y.pages = x.pages /\ y.num_tabs = x.num_tabs
          /\ y.state = x.state /\ y.errors = x.errors /\ y.bar = x.bar /\ y.closeAll = x.closeAll
          /\ y.current = p /\ y.active = p /\ y.listens = p /\ Offers(y, p, ts)
          /\ y.menu = x.menu /\ y.prev = (PageNum(x.pages, p) # 1)
          /\ PageNum(x.pages, p) \in DOMAIN x.menu => y.shown = PageNum(x.pages, p)
      BY <1>2, <2>1, ShowIs
    <2>3. Follows(y, ts) BY <2>1, <2>2 DEF Follows, Told
    <2>4. PageNum(x.pages, p) \in DOMAIN x.pages BY <2>1, PagesAre, PageNumIs
    <2>5. Listed(x) => Listed(y) BY <2>2, <2>4 DEF Listed
    <2>6. y.focused = Focus(x.focused, p) BY <1>2, <2>1, ShowIs
    <2>7. p # NoTab BY <2>1, PagesAre, TabAssumption
    <2> QED BY <1>2, <2>2, <2>3, <2>5, <2>6, <2>7 DEF Refocused
  <1> QED BY <1>1, <1>2

-----------------------------------------------------------------------------
(***************************************************************************)
(* Tabs come and go.                                                       *)
(***************************************************************************)

LEMMA MenuIs ==
    ASSUME NEW x \in Window, NEW y, y = UpdateMenu(x)
    PROVE  /\ y \in Window /\ y.menu = x.pages /\ y.shown = PageNum(x.pages, x.active)
           /\ y.pages = x.pages /\ y.current = x.current /\ y.focused = x.focused
           /\ y.active = x.active /\ y.listens = x.listens /\ y.num_tabs = x.num_tabs
           /\ y.state = x.state /\ y.errors = x.errors /\ y.bar = x.bar /\ y.closeAll = x.closeAll
           /\ y.close = x.close /\ y.save = x.save /\ y.prev = x.prev /\ y.paste = x.paste
  <1>1. x.pages \in Seq(Tabs) BY DEF Window
  <1>2. PICK n \in Nat : n = PageNum(x.pages, x.active) BY <1>1, PageNumIs
  <1>3. y = [x EXCEPT !.menu = x.pages, !.shown = n] BY <1>2 DEF UpdateMenu
  <1>4. y \in Window BY <1>3 DEF Window
  <1> QED BY <1>2, <1>3, <1>4 DEF Window

LEMMA TabAddedIs ==
    ASSUME NEW x \in Window, IsInjective(x.pages), Told(x), NEW ts, NEW y, y = TabAdded(x, ts)
    PROVE  /\ y \in Window /\ y.num_tabs = x.num_tabs + 1 /\ Told(y)
           /\ y.state = FlagsOf(x.pages, ts) /\ y.errors = ErrorsIn(x.pages, ts)
           /\ y.menu = x.pages /\ y.shown = PageNum(x.pages, x.active)
           /\ y.pages = x.pages /\ y.current = x.current /\ y.focused = x.focused
           /\ y.active = x.active /\ y.listens = x.listens
           /\ y.close = x.close /\ y.save = x.save /\ y.prev = x.prev /\ y.paste = x.paste
  <1>1. PICK a : a = [x EXCEPT !.num_tabs = @ + 1] OBVIOUS
  <1>2. x.num_tabs + 1 \in Nat BY DEF Window
  <1>3. a \in Window BY <1>1, <1>2 DEF Window
  <1>4. /\ a.num_tabs = x.num_tabs + 1 /\ a.pages = x.pages /\ a.current = x.current
        /\ a.focused = x.focused
        /\ a.active = x.active /\ a.listens = x.listens
        /\ a.state = x.state /\ a.errors = x.errors /\ a.bar = x.bar /\ a.closeAll = x.closeAll
        /\ a.close = x.close /\ a.save = x.save /\ a.prev = x.prev /\ a.paste = x.paste
    BY <1>1 DEF Window
  <1>5. PICK b : b = UpdateMenu(a) OBVIOUS
  <1>6. /\ b \in Window /\ b.menu = a.pages /\ b.shown = PageNum(a.pages, a.active)
        /\ b.pages = a.pages /\ b.current = a.current /\ b.focused = a.focused
        /\ b.active = a.active /\ b.listens = a.listens /\ b.num_tabs = a.num_tabs
        /\ b.state = a.state /\ b.errors = a.errors /\ b.bar = a.bar /\ b.closeAll = a.closeAll
        /\ b.close = a.close /\ b.save = a.save /\ b.prev = a.prev /\ b.paste = a.paste
    BY <1>3, <1>5, MenuIs
  <1>7. y = UpdateState(b, ts) BY <1>1, <1>5 DEF TabAdded
  <1>8. Told(b) /\ IsInjective(b.pages) BY <1>4, <1>6 DEF Told
  <1> QED BY <1>4, <1>6, <1>7, <1>8, UpdateStateIs

\* The tabs of a window of which it has gained one.
Gains(x, y, t) == Range(y.pages) = Range(x.pages) \union {t}

\* A window that has gained a page and a tab.
LEMMA AddTabIs ==
    ASSUME NEW x, NEW ts, Follows(x, ts), NEW t \in Tabs \ Range(x.pages), NEW position \in Nat,
           NEW jump, NEW y, y = AddTab(x, t, position, jump, ts)
    PROVE  /\ Follows(y, ts) /\ Gains(x, y, t) /\ Sees(x, y)
           /\ jump \/ (position = 0 /\ Listed(x)) => Listed(y)
  <1>1. PICK pages : pages = Insert(x.pages, t, position) OBVIOUS
  <1>2. x \in Window /\ x.pages \in Seq(Tabs) /\ IsInjective(x.pages) /\ Told(x)
    BY DEF Follows, Window
  <1>3. /\ pages \in Seq(Tabs) /\ Len(pages) = Len(x.pages) + 1 /\ IsInjective(pages)
        /\ Range(pages) = Range(x.pages) \union {t}
        /\ position = 0 => \A i \in 1..Len(x.pages) : pages[i] = x.pages[i]
    BY <1>1, <1>2, InsertIs
  <1>4. t # NoTab /\ Len(x.pages) \in Nat /\ pages # <<>>
    BY <1>2, <1>3, PagesAre, EmptyPages, TabAssumption
  <1>5. PICK a : a = [x EXCEPT !.pages = pages] OBVIOUS
  <1>6. /\ a \in Window /\ a.pages = pages /\ a.current = x.current /\ a.active = x.active
        /\ a.listens = x.listens /\ a.num_tabs = x.num_tabs /\ a.menu = x.menu
        /\ a.focused = x.focused
        /\ a.state = x.state /\ a.errors = x.errors /\ a.bar = x.bar /\ a.closeAll = x.closeAll
        /\ a.close = x.close /\ a.save = x.save /\ a.prev = x.prev /\ a.paste = x.paste
    BY <1>2, <1>3, <1>5 DEF Window
  <1>7. PICK b : b = (IF x.current = NoTab THEN Show(a, t, ts) ELSE a) OBVIOUS
  <1>8. PICK c : c = TabAdded(b, ts) OBVIOUS
  <1>9. y = IF jump THEN Show(c, t, ts) ELSE c BY <1>1, <1>5, <1>7, <1>8 DEF AddTab
  <1>10. /\ b \in Window /\ b.pages = pages /\ b.num_tabs = x.num_tabs /\ Told(b)
         /\ b.current \in Range(pages) /\ b.active = b.current /\ b.listens = b.current
         /\ Offers(b, b.current, ts)
         /\ position = 0 /\ Listed(x) => b.prev = (PageNum(pages, b.active) # 1)
         /\ b.current = (IF x.current = NoTab THEN t ELSE x.current) /\ Refocused(x.focused, x, b)
    <2>1. CASE x.current = NoTab
      <3>1. x.pages = <<>> BY <1>2, <2>1, PagesAre, TabAssumption DEF Follows
      <3>2. t \in Range(a.pages) /\ t # a.current /\ t # a.active /\ b = Show(a, t, ts)
        BY <1>3, <1>4, <1>6, <1>7, <2>1 DEF Follows
      <3>3. /\ b \in Window /\ b.pages = a.pages /\ b.num_tabs = a.num_tabs
            /\ b.state = a.state /\ b.errors = a.errors /\ b.bar = a.bar /\ b.closeAll = a.closeAll
            /\ b.current = t /\ b.active = t /\ b.listens = t /\ Offers(b, t, ts)
            /\ b.prev = (PageNum(a.pages, t) # 1)
        BY <1>6, <3>2, ShowIs
      <3>4. b.focused = Focus(a.focused, t) BY <1>6, <3>2, ShowIs
      <3> QED BY <1>2, <1>4, <1>6, <2>1, <3>2, <3>3, <3>4 DEF Told, Refocused
    <2>2. CASE x.current # NoTab
      <3>1. x.pages # <<>> BY <2>2 DEF Follows
      <3>2. /\ b = a /\ x.current \in Range(x.pages) /\ Offers(x, x.current, ts)
            /\ x.active = x.current /\ x.listens = x.current
        BY <1>7, <2>2, <3>1 DEF Follows
      <3>3. ASSUME position = 0, Listed(x) PROVE b.prev = (PageNum(pages, b.active) # 1)
        <4>1. PICK n \in 1..Len(x.pages) : n = PageNum(x.pages, x.current) /\ x.pages[n] = x.current
          BY <1>2, <3>2, PageNumIs
        <4>2. n \in 1..Len(pages) /\ pages[n] = x.current BY <1>3, <1>4, <3>3, <4>1
        <4>3. PageNum(pages, x.current) = n BY <1>3, <4>2, PageNumIs
        <4> QED BY <1>6, <3>1, <3>2, <3>3, <4>1, <4>3 DEF Listed
      <3> QED BY <1>2, <1>3, <1>6, <2>2, <3>2, <3>3 DEF Told, Offers, Refocused
    <2> QED BY <2>1, <2>2
  <1>11. /\ c \in Window /\ c.num_tabs = b.num_tabs + 1 /\ Told(c)
         /\ c.state = FlagsOf(b.pages, ts) /\ c.errors = ErrorsIn(b.pages, ts)
         /\ c.menu = b.pages /\ c.shown = PageNum(b.pages, b.active)
         /\ c.pages = b.pages /\ c.current = b.current /\ c.focused = b.focused
         /\ c.active = b.active /\ c.listens = b.listens
         /\ c.close = b.close /\ c.save = b.save /\ c.prev = b.prev /\ c.paste = b.paste
    BY <1>3, <1>8, <1>10, TabAddedIs
  <1>12. x.num_tabs = Len(x.pages) BY DEF Follows
  <1>13. Follows(c, ts) /\ c.pages = pages
    BY <1>3, <1>4, <1>10, <1>11, <1>12 DEF Follows, Offers
  <1>14. position = 0 /\ Listed(x) => Listed(c) BY <1>10, <1>11 DEF Listed
  <1>15. ASSUME Follows(y, ts), y.pages = pages, Refocused(x.focused, x, y) PROVE Sees(x, y)
    <2>1. Shown(x) /\ Shown(y) BY <1>15, FollowsShown
    <2> QED BY <1>3, <1>15, <2>1, GainsSees
  <1>16. CASE ~jump
    <2>1. Refocused(x.focused, x, y) BY <1>9, <1>10, <1>11, <1>16 DEF Refocused
    <2> QED BY <1>3, <1>9, <1>13, <1>14, <1>15, <1>16, <2>1 DEF Gains
  <1>17. CASE jump
    <2>1. t \in Range(c.pages) /\ y = Show(c, t, ts) BY <1>3, <1>9, <1>13, <1>17
    <2>2. /\ Follows(y, ts) /\ y.pages = c.pages
          /\ y.current = t /\ Refocused(c.focused, c, y)
      BY <1>13, <2>1, ShowFollows
    <2>3. Listed(y)
      <3>1. CASE t = c.current
        <4>1. y = c BY <2>1, <3>1 DEF Show
        <4>2. c.prev = (PageNum(c.pages, c.active) # 1)
          <5>1. CASE x.current = NoTab
            <6>1. t # a.current /\ t # a.active /\ t \in Range(a.pages) /\ b = Show(a, t, ts)
              BY <1>3, <1>4, <1>6, <1>7, <5>1 DEF Follows
            <6>2. b.active = t /\ b.prev = (PageNum(a.pages, t) # 1) BY <1>6, <6>1, ShowIs
            <6> QED BY <1>6, <1>10, <1>11, <6>2
          <5>2. CASE x.current # NoTab
            <6>1. c.current = x.current /\ x.current \in Range(x.pages)
              BY <1>6, <1>7, <1>11, <5>2 DEF Follows
            <6> QED BY <3>1, <6>1
          <5> QED BY <5>1, <5>2
        <4> QED BY <1>10, <1>11, <4>1, <4>2 DEF Listed
      <3>2. CASE t # c.current
        <4>1. t # c.active BY <1>13, <3>2 DEF Follows
        <4>2. /\ y.menu = c.menu /\ y.prev = (PageNum(c.pages, t) # 1) /\ y.active = t
              /\ PageNum(c.pages, t) \in DOMAIN c.menu => y.shown = PageNum(c.pages, t)
          BY <1>11, <2>1, <3>2, <4>1, ShowIs
        <4>3. PageNum(c.pages, t) \in DOMAIN c.pages BY <1>3, <1>13, <2>1, PagesAre, PageNumIs
        <4> QED BY <1>10, <1>11, <1>13, <2>2, <4>2, <4>3 DEF Listed
      <3> QED BY <3>1, <3>2
    <2>4. Refocused(x.focused, x, y) BY <1>4, <1>10, <1>11, <2>2 DEF Refocused
    <2> QED BY <1>3, <1>13, <1>15, <2>2, <2>3, <2>4 DEF Gains
  <1> QED BY <1>16, <1>17

\* notebook_tab_removed, when the page is gone.
LEMMA TabRemovedIs ==
    ASSUME NEW x \in Window, IsInjective(x.pages), Told(x), x.num_tabs = Len(x.pages) + 1,
           NEW t, NEW removing, NEW ts, NEW y, y = TabRemoved(x, t, removing, ts)
    PROVE  /\ y \in Window /\ Told(y) /\ y.num_tabs = Len(x.pages)
           /\ y.state = FlagsOf(x.pages, ts) /\ y.errors = ErrorsIn(x.pages, ts)
           /\ y.pages = x.pages /\ y.current = x.current /\ y.focused = x.focused
           /\ y.active = (IF x.pages = <<>> THEN NoTab ELSE x.active)
           /\ y.listens = (IF x.active = t THEN NoTab ELSE x.listens)
           /\ y.close = x.close /\ y.save = x.save /\ y.paste = x.paste
           /\ ~removing \/ x.pages = <<>> =>
                 /\ y.menu = y.pages /\ y.shown = PageNum(y.pages, y.active)
                 /\ y.active # NoTab => y.prev = (PageNum(y.pages, y.active) # 1)
  <1>1. x.pages \in Seq(Tabs) /\ NoTab \in TabOrNot /\ x.listens \in TabOrNot BY DEF Window, TabOrNot
  <1>2. Len(x.pages) \in Nat /\ (Len(x.pages) = 0 <=> x.pages = <<>>) BY <1>1, EmptySeq, LenProperties
  <1>3. PICK li \in TabOrNot : li = IF x.active = t THEN NoTab ELSE x.listens BY <1>1
  <1>4. PICK ac \in TabOrNot : ac = IF x.pages = <<>> THEN NoTab ELSE x.active BY <1>1 DEF Window
  <1>5. PICK a : a = [x EXCEPT !.num_tabs = Len(x.pages), !.listens = li, !.active = ac] OBVIOUS
  <1>6. /\ a \in Window /\ a.num_tabs = Len(x.pages) /\ a.listens = li /\ a.active = ac
        /\ a.pages = x.pages /\ a.current = x.current /\ a.focused = x.focused
        /\ a.state = x.state /\ a.errors = x.errors /\ a.bar = x.bar /\ a.closeAll = x.closeAll
        /\ a.close = x.close /\ a.save = x.save /\ a.prev = x.prev /\ a.paste = x.paste
    BY <1>2, <1>3, <1>4, <1>5 DEF Window
  <1>7. PICK b : b = IF removing /\ a.num_tabs # 0 THEN a
                     ELSE IF a.active = NoTab THEN [UpdateMenu(a) EXCEPT !.prev = FALSE]
                     ELSE UpdatePrevious(UpdateMenu(a), a.active)
    OBVIOUS
  <1>8. y = UpdateState(b, ts)
    <2>1. x.num_tabs - 1 = Len(x.pages) BY <1>2
    <2>2. PICK l : l = [x EXCEPT !.num_tabs = @ - 1, !.listens = IF x.active = t THEN NoTab ELSE @]
      OBVIOUS
    <2>3. l = [x EXCEPT !.num_tabs = Len(x.pages), !.listens = li] BY <1>3, <2>1, <2>2 DEF Window
    <2>4. (IF l.num_tabs = 0 THEN [l EXCEPT !.active = NoTab] ELSE l) = a
      BY <1>2, <1>4, <1>5, <2>3 DEF Window
    <2> DEFINE Menu(gone) == IF removing /\ gone.num_tabs # 0 THEN gone
                             ELSE IF gone.active = NoTab THEN [UpdateMenu(gone) EXCEPT !.prev = FALSE]
                             ELSE UpdatePrevious(UpdateMenu(gone), gone.active)
    <2>5. TabRemoved(x, t, removing, ts) =
             UpdateState(Menu(IF l.num_tabs = 0 THEN [l EXCEPT !.active = NoTab] ELSE l), ts)
      BY <2>2 DEF TabRemoved
    <2>6. b = Menu(a) BY <1>7
    <2> HIDE DEF Menu
    <2> QED BY <2>4, <2>5, <2>6
  <1>9. PICK m : m = UpdateMenu(a) OBVIOUS
  <1>10. /\ m \in Window /\ m.menu = a.pages /\ m.shown = PageNum(a.pages, a.active)
         /\ m.pages = a.pages /\ m.current = a.current /\ m.focused = a.focused
         /\ m.active = a.active /\ m.listens = a.listens /\ m.num_tabs = a.num_tabs
         /\ m.state = a.state /\ m.errors = a.errors /\ m.bar = a.bar /\ m.closeAll = a.closeAll
         /\ m.close = a.close /\ m.save = a.save /\ m.prev = a.prev /\ m.paste = a.paste
    BY <1>6, <1>9, MenuIs
  <1> DEFINE Rest == /\ b \in Window /\ b.pages = a.pages /\ b.current = a.current /\ b.focused = a.focused
                     /\ b.active = a.active /\ b.listens = a.listens /\ b.num_tabs = a.num_tabs
                     /\ b.state = a.state /\ b.errors = a.errors /\ b.bar = a.bar /\ b.closeAll = a.closeAll
                     /\ b.close = a.close /\ b.save = a.save /\ b.paste = a.paste
  <1>11. CASE removing /\ a.num_tabs # 0
    <2>1. b = a /\ x.pages # <<>> BY <1>2, <1>6, <1>7, <1>11
    <2>2. Rest BY <1>6, <2>1
    <2>3. Told(b) /\ IsInjective(b.pages) BY <1>6, <2>2 DEF Told
    <2> QED BY <1>3, <1>4, <1>6, <1>8, <1>11, <2>1, <2>2, <2>3, UpdateStateIs
  <1>12. CASE ~(removing /\ a.num_tabs # 0)
    <2>1. PICK pr \in BOOLEAN : pr = (a.active # NoTab /\ PageNum(a.pages, a.active) # 1) OBVIOUS
    <2>2. b = [m EXCEPT !.prev = pr] BY <1>7, <1>9, <1>10, <1>12, <2>1 DEF UpdatePrevious
    <2>3. Rest /\ b.menu = m.menu /\ b.shown = m.shown /\ b.prev = pr BY <1>10, <2>2 DEF Window
    <2>4. Told(b) /\ IsInjective(b.pages) BY <1>6, <2>3 DEF Told
    <2> QED BY <1>3, <1>4, <1>6, <1>8, <1>10, <2>1, <2>3, <2>4, UpdateStateIs
  <1> QED BY <1>11, <1>12

\* What CtkNotebook shows instead of a page is another one, if there is one.
LEMMA NeighbourIs ==
    ASSUME NEW s \in Seq(Tabs), IsInjective(s), NEW t \in Range(s)
    PROVE  IF Range(s) = {t} THEN Neighbour(s, t) = NoTab ELSE Neighbour(s, t) \in Range(s) \ {t}
  <1>1. PICK n \in 1..Len(s) : n = PageNum(s, t) /\ s[n] = t BY PageNumIs
  <1>2. /\ Len(s) \in Nat /\ n \in Nat /\ \A i \in 1..Len(s) : s[i] \in Range(s)
        /\ \A u \in Range(s) : \E i \in 1..Len(s) : s[i] = u
        /\ \A i, j \in 1..Len(s) : s[i] = s[j] => i = j
    BY <1>1, PagesAre DEF IsInjective
  <1>3. Neighbour(s, t) = IF n < Len(s) THEN s[n + 1] ELSE IF n > 1 THEN s[n - 1] ELSE NoTab
    BY <1>1 DEF Neighbour
  <1>4. CASE n < Len(s)
    <2>1. n + 1 \in 1..Len(s) /\ n + 1 # n BY <1>2, <1>4
    <2>2. s[n + 1] \in Range(s) \ {t} BY <1>1, <1>2, <2>1
    <2> QED BY <1>3, <1>4, <2>2
  <1>5. CASE ~(n < Len(s)) /\ n > 1
    <2>1. n - 1 \in 1..Len(s) /\ n - 1 # n BY <1>2, <1>5
    <2>2. s[n - 1] \in Range(s) \ {t} BY <1>1, <1>2, <2>1
    <2> QED BY <1>3, <1>5, <2>2
  <1>6. CASE ~(n < Len(s)) /\ ~(n > 1)
    <2>1. \A i \in 1..Len(s) : i = n BY <1>1, <1>2, <1>6
    <2>2. Range(s) = {t} BY <1>1, <1>2, <2>1
    <2> QED BY <1>3, <1>6, <2>2
  <1> QED BY <1>4, <1>5, <1>6

Loses(x, y, t) == Range(y.pages) = Range(x.pages) \ {t}

\* A window that has lost a page.
LEMMA RemovePageIs ==
    ASSUME NEW x, NEW ts, Follows(x, ts), NEW t \in Range(x.pages), NEW removing,
           NEW y, y = RemovePage(x, t, removing, ts)
    PROVE  /\ Follows(y, ts) /\ Loses(x, y, t)
           /\ ~removing \/ y.pages = <<>> => Listed(y)
           /\ Refocused(x.focused, x, y) /\ (t # x.current => y.current = x.current)
  <1>1. PICK pages : pages = RemoveFirst(x.pages, t) OBVIOUS
  <1>2. x \in Window /\ x.pages \in Seq(Tabs) /\ IsInjective(x.pages) /\ Told(x) /\ x.pages # <<>>
    BY PagesAre DEF Follows, Window
  <1>3. /\ pages \in Seq(Tabs) /\ IsInjective(pages)
        /\ Range(pages) = Range(x.pages) \ {t} /\ Len(pages) = Len(x.pages) - 1
    BY <1>1, <1>2, WithoutPage
  <1>4. /\ t # NoTab /\ Len(x.pages) \in Nat /\ Len(pages) \in Nat /\ Len(x.pages) = Len(pages) + 1
        /\ (pages = <<>> <=> Range(pages) = {})
    BY <1>2, <1>3, PagesAre, TabAssumption
  <1>5. PICK a : a = [x EXCEPT !.pages = pages] OBVIOUS
  <1>6. /\ a \in Window /\ a.pages = pages /\ a.current = x.current /\ a.active = x.active
        /\ a.listens = x.listens /\ a.num_tabs = x.num_tabs /\ a.focused = x.focused
        /\ a.state = x.state /\ a.errors = x.errors /\ a.bar = x.bar /\ a.closeAll = x.closeAll
        /\ a.close = x.close /\ a.save = x.save /\ a.prev = x.prev /\ a.paste = x.paste
    BY <1>2, <1>3, <1>5 DEF Window
  <1>7. PICK next : next = Neighbour(x.pages, t) OBVIOUS
  <1>8. IF pages = <<>> THEN next = NoTab ELSE next \in Range(pages) \/ (t # x.current /\ next # t)
    <2>1. IF Range(x.pages) = {t} THEN next = NoTab ELSE next \in Range(x.pages) \ {t}
      BY <1>2, <1>7, NeighbourIs
    <2>2. pages = <<>> <=> Range(x.pages) = {t} BY <1>3, <1>4
    <2> QED BY <1>3, <2>1, <2>2
  <1>9. PICK b : b = IF t # x.current THEN a ELSE Show([a EXCEPT !.current = NoTab], next, ts) OBVIOUS
  <1>10. y = TabRemoved(b, t, removing, ts) BY <1>1, <1>5, <1>7, <1>9 DEF RemovePage
  <1>11. /\ x.active = x.current /\ x.listens = x.current /\ x.num_tabs = Len(x.pages)
         /\ x.current \in Range(x.pages) /\ Offers(x, x.current, ts)
    BY <1>2 DEF Follows
  <1>12. /\ b \in Window /\ b.pages = pages /\ b.num_tabs = x.num_tabs /\ Told(b)
         /\ pages # <<>> => /\ b.current \in Range(pages) /\ b.active = b.current /\ b.listens = b.current
                            /\ Offers(b, b.current, ts)
         /\ pages = <<>> => b.current = NoTab /\ b.active = t
         /\ Refocused(x.focused, x, b) /\ (t # x.current => b.current = x.current)
    <2>1. CASE t # x.current
      <3>1. b = a /\ x.current \in Range(pages) BY <1>3, <1>9, <1>11, <2>1
      <3> QED BY <1>2, <1>4, <1>6, <1>11, <2>1, <3>1 DEF Told, Offers, Refocused
    <2>2. CASE t = x.current
      <3>1. PICK c : c = [a EXCEPT !.current = NoTab] OBVIOUS
      <3>2. /\ c \in Window /\ c.pages = pages /\ c.current = NoTab /\ c.active = x.active
            /\ c.listens = x.listens /\ c.num_tabs = x.num_tabs /\ c.focused = x.focused
            /\ c.state = x.state /\ c.errors = x.errors /\ c.bar = x.bar /\ c.closeAll = x.closeAll
        BY <1>6, <3>1 DEF Window, TabOrNot
      <3>3. b = Show(c, next, ts) BY <1>9, <2>2, <3>1
      <3>4. CASE pages = <<>>
        <4>1. b = c BY <1>8, <3>2, <3>3, <3>4 DEF Show
        <4> QED BY <1>2, <1>11, <2>2, <3>2, <3>4, <4>1 DEF Told, Refocused
      <3>5. CASE pages # <<>>
        <4>1. next \in Range(c.pages) /\ next # c.current /\ next # c.active
          BY <1>3, <1>8, <1>11, <2>2, <3>2, <3>5, PagesAre, TabAssumption
        <4>2. /\ b \in Window /\ b.pages = c.pages /\ b.num_tabs = c.num_tabs
              /\ b.state = c.state /\ b.errors = c.errors /\ b.bar = c.bar /\ b.closeAll = c.closeAll
              /\ b.current = next /\ b.active = next /\ b.listens = next /\ Offers(b, next, ts)
          BY <3>2, <3>3, <4>1, ShowIs
        <4>3. b.focused = Focus(c.focused, next) BY <3>2, <3>3, <4>1, ShowIs
        <4>4. next # x.current BY <1>3, <2>2, <3>2, <4>1
        <4> QED BY <1>2, <2>2, <3>2, <3>5, <4>1, <4>2, <4>3, <4>4 DEF Told, Refocused
      <3> QED BY <3>4, <3>5
    <2> QED BY <2>1, <2>2
  <1>13. /\ y \in Window /\ Told(y) /\ y.num_tabs = Len(b.pages)
         /\ y.state = FlagsOf(b.pages, ts) /\ y.errors = ErrorsIn(b.pages, ts)
         /\ y.pages = b.pages /\ y.current = b.current /\ y.focused = b.focused
         /\ y.active = (IF b.pages = <<>> THEN NoTab ELSE b.active)
         /\ y.listens = (IF b.active = t THEN NoTab ELSE b.listens)
         /\ y.close = b.close /\ y.save = b.save /\ y.paste = b.paste
         /\ ~removing \/ b.pages = <<>> =>
               /\ y.menu = y.pages /\ y.shown = PageNum(y.pages, y.active)
               /\ y.active # NoTab => y.prev = (PageNum(y.pages, y.active) # 1)
    <2>1. b \in Window /\ IsInjective(b.pages) /\ Told(b) /\ b.num_tabs = Len(b.pages) + 1
      BY <1>3, <1>4, <1>11, <1>12
    <2> QED BY <1>10, <2>1, TabRemovedIs
  <1>14. y.active = y.current /\ y.listens = y.current
    <2>1. CASE pages = <<>> BY <1>12, <1>13, <2>1
    <2>2. CASE pages # <<>>
      <3>1. b.active # t BY <1>3, <1>12, <2>2
      <3> QED BY <1>12, <1>13, <2>2, <3>1
    <2> QED BY <2>1, <2>2
  <1>15. Follows(y, ts) BY <1>3, <1>12, <1>13, <1>14 DEF Follows, Offers
  <1>16. y.pages # <<>> => y.active # NoTab
    BY <1>3, <1>12, <1>13, <1>14, PagesAre, TabAssumption
  <1>17. ~removing \/ y.pages = <<>> => Listed(y) BY <1>12, <1>13, <1>16 DEF Listed
  <1>18. Refocused(x.focused, x, y) /\ (t # x.current => y.current = x.current)
    BY <1>12, <1>13 DEF Refocused
  <1> QED BY <1>3, <1>12, <1>13, <1>15, <1>17, <1>18 DEF Loses

\* The page that is shown before the current one is removed is one of the pages,
\* whatever the focus history remembers.
LEMMA PageAfterClosingIs ==
    ASSUME NEW s \in Seq(Tabs), IsInjective(s), NEW t \in Range(s), NEW focused, NEW jump
    PROVE  PageAfterClosing(s, focused, t, jump) \in Range(s)
  <1>1. PICK n \in 1..Len(s) : n = PageNum(s, t) /\ s[n] = t BY PageNumIs
  <1>2. Len(s) \in Nat /\ s # <<>> /\ \A i \in 1..Len(s) : s[i] \in Range(s) BY PagesAre
  <1>3. NextPage(s, t) \in Range(s)
    <2>1. NextPage(s, t) = IF n = Len(s) THEN t ELSE s[n + 1] BY <1>1 DEF NextPage
    <2>2. n # Len(s) => n + 1 \in 1..Len(s) BY <1>1, <1>2
    <2> QED BY <1>2, <2>1, <2>2
  <1>4. Contains(s, Last(focused)) => Last(focused) \in Range(s) BY <1>2 DEF Contains
  <1>5. Last(s) \in Range(s) BY <1>2, PagesAre DEF Last
  <1> QED BY <1>3, <1>4, <1>5 DEF PageAfterClosing

\* The page that is shown instead of the current one t is that of PageAfterClosing,
\* unless this is t itself.
Returns(x, y, t) ==
    LET p == PageAfterClosing(x.pages, RemoveFirst(x.focused, t), t, t \in jumpTo)
    IN t = x.current => p \in {t, y.current}

LEMMA RemoveTabIs ==
    ASSUME NEW x, NEW ts, Follows(x, ts), NEW t \in Range(x.pages), NEW removing,
           NEW y, y = RemoveTab(x, t, removing, ts)
    PROVE  /\ Follows(y, ts) /\ Loses(x, y, t)
           /\ ~removing \/ y.pages = <<>> => Listed(y)
           /\ Sees(x, y) /\ Leaves(x, y) /\ Returns(x, y, t)
  <1>1. x \in Window /\ x.focused \in Seq(Tabs) /\ x.pages \in Seq(Tabs) /\ IsInjective(x.pages)
    BY DEF Follows, Window
  <1>2. PICK fo \in Seq(Tabs) : fo = RemoveFirst(x.focused, t) BY <1>1, RemoveFirstProperties
  <1>3. PICK a : a = [x EXCEPT !.focused = fo] OBVIOUS
  <1>4. /\ a \in Window /\ a.pages = x.pages /\ a.current = x.current /\ a.active = x.active
        /\ a.listens = x.listens /\ a.num_tabs = x.num_tabs /\ a.focused = fo
        /\ a.state = x.state /\ a.errors = x.errors /\ a.bar = x.bar /\ a.closeAll = x.closeAll
        /\ a.close = x.close /\ a.save = x.save /\ a.prev = x.prev /\ a.paste = x.paste
    BY <1>1, <1>2, <1>3 DEF Window
  <1>5. Follows(a, ts) BY <1>4 DEF Follows, Told, Offers
  <1>6. PICK p \in Range(x.pages) : p = PageAfterClosing(a.pages, a.focused, t, t \in jumpTo)
    BY <1>1, <1>4, PageAfterClosingIs
  <1>7. PICK z : z = IF t # a.current THEN a ELSE Show(a, p, ts) OBVIOUS
  <1>8. y = RemovePage(z, t, removing, ts) BY <1>2, <1>3, <1>6, <1>7 DEF RemoveTab
  <1>9. /\ Follows(z, ts) /\ z.pages = x.pages /\ Refocused(fo, x, z)
        /\ z.current = IF t = x.current THEN p ELSE x.current
    <2>1. CASE t # a.current BY <1>4, <1>5, <1>7, <2>1 DEF Refocused
    <2>2. CASE t = a.current
      <3>1. p \in Range(a.pages) /\ z = Show(a, p, ts) BY <1>4, <1>6, <1>7, <2>2
      <3>2. /\ Follows(z, ts) /\ z.pages = a.pages
            /\ z.current = p /\ Refocused(a.focused, a, z)
        BY <1>5, <3>1, ShowFollows
      <3> QED BY <1>4, <2>2, <3>2 DEF Refocused
    <2> QED BY <2>1, <2>2
  <1>10. t \in Range(z.pages) BY <1>9
  <1>11. Follows(y, ts) BY <1>8, <1>9, <1>10, RemovePageIs
  <1>12. Loses(z, y, t) BY <1>8, <1>9, <1>10, RemovePageIs
  <1>13. ~removing \/ y.pages = <<>> => Listed(y) BY <1>8, <1>9, <1>10, RemovePageIs
  <1>14. Refocused(z.focused, z, y) /\ (t # z.current => y.current = z.current)
    BY <1>8, <1>9, <1>10, RemovePageIs
  <1>15. Range(y.pages) = Range(x.pages) \ {t} BY <1>9, <1>12 DEF Loses
  <1>16. Refocused(fo, x, y)
    <2>1. CASE t = z.current
      <3>1. z.current = x.current BY <1>9, <2>1
      <3>2. z.focused = fo BY <1>9, <3>1 DEF Refocused
      <3> QED BY <1>14, <3>1, <3>2 DEF Refocused
    <2>2. CASE t # z.current
      <3>1. y.current = z.current /\ y.focused = z.focused BY <1>14, <2>2 DEF Refocused
      <3> QED BY <1>9, <3>1 DEF Refocused
    <2> QED BY <2>1, <2>2
  <1>17. Sees(x, y)
    <2>1. Shown(x) /\ Shown(y) BY <1>11, FollowsShown
    <2> QED BY <1>2, <1>15, <1>16, <2>1, LosesSees
  <1>18. Leaves(x, y) BY <1>9, <1>14, <1>15 DEF Leaves
  <1>19. t = x.current => y.current = p \/ t = p BY <1>9, <1>14
  <1>20. p = PageAfterClosing(x.pages, RemoveFirst(x.focused, t), t, t \in jumpTo) BY <1>2, <1>4, <1>6
  <1> QED BY <1>9, <1>11, <1>12, <1>13, <1>17, <1>18, <1>19, <1>20 DEF Loses, Returns

\* Several tabs are closed one after another, and the menu is made at the end.
LEMMA RemoveTabsAre ==
    ASSUME NEW x, NEW ts, Follows(x, ts), NEW s \in Seq(Tabs), IsInjective(s), s # <<>>,
           Range(s) \subseteq Range(x.pages), NEW y, y = RemoveTabs(x, s, ts)
    PROVE  Follows(y, ts) /\ Range(y.pages) = Range(x.pages) \ Range(s) /\ Listed(y) /\ Sees(x, y)
  <1> DEFINE n == Len(s)
             Gone(k) == {s[i] : i \in 1..k}
             Left(v, k) == /\ Follows(v, ts) /\ Range(v.pages) = Range(x.pages) \ Gone(k)
                           /\ k = n => Listed(v)
                           /\ Sees(x, v)
             Step(k, v) == RemoveTab(v, s[k], k # n, ts)
             S == [k \in 0..n |-> {v \in Window : Left(v, k)}]
             h == [k \in 1..n |-> [v \in S[k - 1] |-> Step(k, v)]]
             left == CHOOSE f : f = [k \in 0..n |-> IF k = 0 THEN x ELSE Step(k, f[k - 1])]
  <1>1. /\ n \in Nat /\ n # 0 /\ DOMAIN s = 1..n /\ \A i \in 1..n : s[i] \in Range(s)
        /\ \A i, j \in 1..n : s[i] = s[j] => i = j
    BY PagesAre, EmptySeq DEF IsInjective
  <1>2. y = left[n]
    <2> DEFINE F == CHOOSE f : f = [k \in 0..n |-> IF k = 0 THEN x ELSE RemoveTab(f[k - 1], s[k], k # n, ts)]
    <2>1. y = F[n] BY DEF RemoveTabs
    <2> QED BY <2>1
  <1>3. Left(x, 0)
    <2>1. Gone(0) = {} OBVIOUS
    <2> QED BY <1>1, <2>1, SeesAlike
  <1>4. ASSUME NEW k \in 1..n, NEW v, Left(v, k - 1) PROVE Left(Step(k, v), k)
    <2>1. s[k] \notin Gone(k - 1)
      <3>1. \A i \in 1..(k - 1) : i \in 1..n /\ i # k BY <1>1
      <3> QED BY <1>1, <3>1
    <2>2. Gone(k) = Gone(k - 1) \union {s[k]}
      <3>1. \A i \in 1..k : i = k \/ i \in 1..(k - 1) BY <1>1
      <3>2. 1..(k - 1) \subseteq 1..k /\ k \in 1..k BY <1>1
      <3> QED BY <3>1, <3>2
    <2>3. Follows(v, ts) /\ Range(v.pages) = Range(x.pages) \ Gone(k - 1) /\ Sees(x, v) BY <1>4
    <2>4. PICK u \in Range(v.pages) : u = s[k] BY <1>1, <2>1, <2>3
    <2>5. PICK removing \in BOOLEAN : removing = (k # n) OBVIOUS
    <2>6. PICK w : w = RemoveTab(v, u, removing, ts) OBVIOUS
    <2>7. Follows(w, ts) /\ Range(w.pages) = Range(v.pages) \ {u} /\ (~removing => Listed(w))
      <3>1. Follows(v, ts) BY <2>3
      <3>2. Follows(w, ts) BY <2>6, <3>1, RemoveTabIs
      <3>3. Loses(v, w, u) BY <2>6, <3>1, RemoveTabIs
      <3>4. ~removing => Listed(w) BY <2>6, <3>1, RemoveTabIs
      <3> QED BY <3>2, <3>3, <3>4 DEF Loses
    <2>8. w = Step(k, v) BY <2>4, <2>5, <2>6
    <2>9. Sees(x, w)
      <3>1. Follows(v, ts) BY <2>3
      <3>2. Sees(v, w) /\ Leaves(v, w) BY <2>6, <3>1, RemoveTabIs
      <3>3. Shown(v) /\ Shown(w) BY <2>7, <3>1, FollowsShown
      <3>4. x.focused \in Seq(Tabs) BY DEF Follows, Window
      <3> QED BY <2>3, <3>2, <3>3, <3>4, SeesOn
    <2> HIDE DEF Step, Gone
    <2> QED BY <2>2, <2>3, <2>4, <2>5, <2>7, <2>8, <2>9
  <1>5. \A v, k : Left(v, k) => v \in Window BY DEF Follows
  <1> HIDE DEF Step, Left, n
  <1>6. /\ \A v : \A k \in 0..n : v \in S[k] <=> Left(v, k)
        /\ \A k \in 1..n : \A v \in S[k - 1] : h[k][v] = Step(k, v) /\ Step(k, v) \in S[k]
    <2>1. \A v : \A k \in 0..n : v \in S[k] <=> Left(v, k) BY <1>5
    <2>2. \A k \in 1..n : \A v \in S[k - 1] : h[k][v] = Step(k, v) OBVIOUS
    <2>3. \A k \in 1..n : k \in 0..n /\ k - 1 \in 0..n BY <1>1
    <2> HIDE DEF S
    <2> QED BY <1>4, <2>1, <2>2, <2>3
  <1> HIDE DEF S, h
  <1>7. IsChain(S, h, n) BY <1>6 DEF IsChain
  <1>8. x \in S[0] BY <1>1, <1>3, <1>6
  <1>9. left = [k \in 0..n |-> IF k = 0 THEN x ELSE Step(k, left[k - 1])]
    <2>1. PICK f : IsRun(f, x, h, n) /\ \A k \in 0..n : f[k] \in S[k]
      BY <1>1, <1>7, <1>8, ChainExists
    <2>2. \A k \in 0..n : k # 0 => h[k][f[k - 1]] = Step(k, f[k - 1])
      <3>1. \A k \in 0..n : k # 0 => k \in 1..n /\ k - 1 \in 0..n BY <1>1
      <3> QED BY <1>6, <2>1, <3>1
    <2>3. f = [k \in 0..n |-> IF k = 0 THEN x ELSE Step(k, f[k - 1])] BY <2>1, <2>2 DEF IsRun
    <2> QED BY <2>3
  <1> HIDE DEF left
  <1>10. left[0] = x /\ \A k \in 1..n : left[k] = Step(k, left[k - 1])
    <2>1. 0 \in 0..n /\ \A k \in 1..n : k \in 0..n /\ k # 0 BY <1>1
    <2> QED BY <1>9, <2>1
  <1>11. \A k \in 1..n : left[k - 1] \in S[k - 1] => left[k] = h[k][left[k - 1]] BY <1>6, <1>10
  <1>12. \A k \in 0..n : left[k] \in S[k] BY <1>1, <1>7, <1>8, <1>10, <1>11, ChainStays
  <1>13. Left(left[n], n) BY <1>1, <1>6, <1>12
  <1>14. {s[i] : i \in 1..n} = Range(s) BY <1>1 DEF Range
  <1> QED BY <1>2, <1>13, <1>14 DEF Left

\* All of them are closed, from the first to the last.
LEMMA RemoveAllTabsIs ==
    ASSUME NEW x, NEW ts, Follows(x, ts), Listed(x), NEW y, y = RemoveAllTabs(x, ts)
    PROVE  Follows(y, ts) /\ Range(y.pages) = {} /\ Listed(y)
  <1> DEFINE s == x.pages
             n == Len(s)
             Gone(k) == {s[i] : i \in 1..k}
             Left(v, k) == /\ Follows(v, ts) /\ Range(v.pages) = Range(s) \ Gone(k)
                           /\ v.pages = <<>> => Listed(v)
             Step(k, v) == RemovePage(v, s[k], TRUE, ts)
             S == [k \in 0..n |-> {v \in Window : Left(v, k)}]
             h == [k \in 1..n |-> [v \in S[k - 1] |-> Step(k, v)]]
             left == CHOOSE f : f = [k \in 0..n |-> IF k = 0 THEN [x EXCEPT !.focused = <<>>]
                                                    ELSE Step(k, f[k - 1])]
  <1>1. /\ s \in Seq(Tabs) /\ n \in Nat /\ DOMAIN s = 1..n /\ \A i \in 1..n : s[i] \in Range(s)
        /\ \A i, j \in 1..n : s[i] = s[j] => i = j
    BY PagesAre DEF IsInjective, Follows, Window
  <1>2. y = left[n]
    <2> DEFINE F == CHOOSE f : f = [k \in 0..n |-> IF k = 0 THEN [x EXCEPT !.focused = <<>>]
                                                   ELSE RemovePage(f[k - 1], x.pages[k], TRUE, ts)]
    <2>1. y = F[n] BY DEF RemoveAllTabs
    <2> QED BY <2>1
  <1>3. PICK a : a = [x EXCEPT !.focused = <<>>] OBVIOUS
  <1>4. Left(a, 0)
    <2>1. Gone(0) = {} OBVIOUS
    <2>2. x \in Window /\ <<>> \in Seq(Tabs) BY DEF Follows
    <2>3. /\ a \in Window /\ a.pages = x.pages /\ a.current = x.current /\ a.active = x.active
          /\ a.listens = x.listens /\ a.num_tabs = x.num_tabs /\ a.menu = x.menu /\ a.shown = x.shown
          /\ a.state = x.state /\ a.errors = x.errors /\ a.bar = x.bar /\ a.closeAll = x.closeAll
          /\ a.close = x.close /\ a.save = x.save /\ a.prev = x.prev /\ a.paste = x.paste
      BY <1>3, <2>2 DEF Window
    <2>4. Follows(a, ts) BY <2>3 DEF Follows, Told, Offers
    <2>5. Listed(a) BY <2>3 DEF Listed
    <2> QED BY <2>1, <2>3, <2>4, <2>5
  <1>5. ASSUME NEW k \in 1..n, NEW v, Left(v, k - 1) PROVE Left(Step(k, v), k)
    <2>1. s[k] \notin Gone(k - 1)
      <3>1. \A i \in 1..(k - 1) : i \in 1..n /\ i # k BY <1>1
      <3> QED BY <1>1, <3>1
    <2>2. Gone(k) = Gone(k - 1) \union {s[k]}
      <3>1. \A i \in 1..k : i = k \/ i \in 1..(k - 1) BY <1>1
      <3>2. 1..(k - 1) \subseteq 1..k /\ k \in 1..k BY <1>1
      <3> QED BY <3>1, <3>2
    <2>3. Follows(v, ts) /\ Range(v.pages) = Range(s) \ Gone(k - 1) BY <1>5
    <2>4. PICK u \in Range(v.pages) : u = s[k] BY <1>1, <2>1, <2>3
    <2>5. PICK w : w = RemovePage(v, u, TRUE, ts) OBVIOUS
    <2>6. Follows(w, ts) /\ Range(w.pages) = Range(v.pages) \ {u} /\ (w.pages = <<>> => Listed(w))
      <3>1. Follows(v, ts) BY <2>3
      <3>2. Follows(w, ts) BY <2>5, <3>1, RemovePageIs
      <3>3. Loses(v, w, u) BY <2>5, <3>1, RemovePageIs
      <3>4. w.pages = <<>> => Listed(w) BY <2>5, <3>1, RemovePageIs
      <3> QED BY <3>2, <3>3, <3>4 DEF Loses
    <2>7. w = Step(k, v) BY <2>4, <2>5
    <2> HIDE DEF Step, Gone
    <2> QED BY <2>2, <2>3, <2>4, <2>6, <2>7
  <1>6. \A v, k : Left(v, k) => v \in Window BY DEF Follows
  <1> HIDE DEF Step, Left, n
  <1>7. /\ \A v : \A k \in 0..n : v \in S[k] <=> Left(v, k)
        /\ \A k \in 1..n : \A v \in S[k - 1] : h[k][v] = Step(k, v) /\ Step(k, v) \in S[k]
    <2>1. \A v : \A k \in 0..n : v \in S[k] <=> Left(v, k) BY <1>6
    <2>2. \A k \in 1..n : \A v \in S[k - 1] : h[k][v] = Step(k, v) OBVIOUS
    <2>3. \A k \in 1..n : k \in 0..n /\ k - 1 \in 0..n BY <1>1
    <2> HIDE DEF S
    <2> QED BY <1>5, <2>1, <2>2, <2>3
  <1> HIDE DEF S, h
  <1>8. IsChain(S, h, n) BY <1>7 DEF IsChain
  <1>9. a \in S[0] BY <1>1, <1>4, <1>7
  <1>10. left = [k \in 0..n |-> IF k = 0 THEN a ELSE Step(k, left[k - 1])]
    <2>1. PICK f : IsRun(f, a, h, n) /\ \A k \in 0..n : f[k] \in S[k]
      BY <1>1, <1>8, <1>9, ChainExists
    <2>2. \A k \in 0..n : k # 0 => h[k][f[k - 1]] = Step(k, f[k - 1])
      <3>1. \A k \in 0..n : k # 0 => k \in 1..n /\ k - 1 \in 0..n BY <1>1
      <3> QED BY <1>7, <2>1, <3>1
    <2>3. f = [k \in 0..n |-> IF k = 0 THEN [x EXCEPT !.focused = <<>>] ELSE Step(k, f[k - 1])]
      BY <1>3, <2>1, <2>2 DEF IsRun
    <2>4. left = [k \in 0..n |-> IF k = 0 THEN [x EXCEPT !.focused = <<>>] ELSE Step(k, left[k - 1])]
      BY <2>3
    <2> HIDE DEF left
    <2> QED BY <1>3, <2>4
  <1> HIDE DEF left
  <1>11. left[0] = a /\ \A k \in 1..n : left[k] = Step(k, left[k - 1])
    <2>1. 0 \in 0..n /\ \A k \in 1..n : k \in 0..n /\ k # 0 BY <1>1
    <2> QED BY <1>10, <2>1
  <1>12. \A k \in 1..n : left[k - 1] \in S[k - 1] => left[k] = h[k][left[k - 1]] BY <1>7, <1>11
  <1>13. \A k \in 0..n : left[k] \in S[k] BY <1>1, <1>8, <1>9, <1>11, <1>12, ChainStays
  <1>14. Left(left[n], n) BY <1>1, <1>7, <1>13
  <1>15. {s[i] : i \in 1..n} = Range(s) BY <1>1 DEF Range
  <1>16. Follows(y, ts) /\ Range(y.pages) = {} /\ (y.pages = <<>> => Listed(y))
    BY <1>2, <1>14, <1>15 DEF Left
  <1>17. y.pages = <<>> BY <1>16, PagesAre DEF Follows, Window
  <1> QED BY <1>16, <1>17

-----------------------------------------------------------------------------
(***************************************************************************)
(* A window while its tabs stay.                                           *)
(***************************************************************************)

LEMMA EmptyWindowIs == \A ts : Follows(EmptyWindow, ts) /\ Listed(EmptyWindow)
  <1> SUFFICES ASSUME NEW ts PROVE Follows(EmptyWindow, ts) /\ Listed(EmptyWindow) OBVIOUS
  <1>1. FlagsOf(<<>>, ts) = {} BY EmptyPages DEF FlagsOf
  <1>2. ErrorsIn(<<>>, ts) = 0
    <2>1. {i \in DOMAIN <<>> : ts[<<>>[i]] = "SAVING_ERROR"} = {} OBVIOUS
    <2> QED BY <2>1, FS_EmptySet DEF ErrorsIn
  <1>3. PageNum(<<>>, NoTab) = 0 BY EmptyPages, PageNumIs
  <1>4. {} \in SUBSET Flags /\ <<{}, 0>> \in (SUBSET Flags) \X Nat /\ NoTab \in TabOrNot /\ <<>> \in Seq(Tabs)
    BY DEF TabOrNot
  <1>5. EmptyWindow \in Window BY <1>4 DEF EmptyWindow, Window
  <1> QED BY <1>1, <1>2, <1>3, <1>5, EmptyPages DEF EmptyWindow, Follows, Told, Listed

\* What a window says depends on its own tabs only.
LEMMA FollowsOn ==
    ASSUME NEW x, NEW ts, Follows(x, ts), NEW us, \A t \in Range(x.pages) : us[t] = ts[t]
    PROVE  Follows(x, us)
  <1>1. x.pages \in Seq(Tabs) /\ IsInjective(x.pages) BY DEF Follows, Window
  <1>2. FlagsOf(x.pages, us) = FlagsOf(x.pages, ts) /\ ErrorsIn(x.pages, us) = ErrorsIn(x.pages, ts)
    BY <1>1, SameSummary
  <1>3. x.pages # <<>> => x.current \in Range(x.pages) /\ Offers(x, x.current, us)
    BY DEF Follows, Offers
  <1> QED BY <1>2, <1>3 DEF Follows

\* A tab of the window, or another one, changes its state.
LEMMA SyncStateIs ==
    ASSUME NEW x, NEW ts, Follows(x, ts), NEW t \in Tabs, NEW us,
           \A u \in Range(x.pages) \ {t} : us[u] = ts[u],
           NEW z, z = UpdateState(x, us),
           NEW y, y = IF t = z.active THEN SetSensitivity(z, t, us) ELSE z
    PROVE  Follows(y, us) /\ y.pages = x.pages /\ (Listed(x) => Listed(y)) /\ Sees(x, y)
  <1>1. x \in Window /\ x.pages \in Seq(Tabs) /\ IsInjective(x.pages) /\ Told(x) BY DEF Follows, Window
  <1>2. /\ z \in Window /\ Told(z)
        /\ z.state = FlagsOf(x.pages, us) /\ z.errors = ErrorsIn(x.pages, us)
        /\ z.pages = x.pages /\ z.current = x.current
        /\ z.active = x.active /\ z.listens = x.listens
        /\ z.num_tabs = x.num_tabs /\ z.focused = x.focused
        /\ z.menu = x.menu /\ z.shown = x.shown
        /\ z.close = x.close /\ z.save = x.save
        /\ z.prev = x.prev /\ z.paste = x.paste
    BY <1>1, UpdateStateIs
  <1>3. Listed(x) => Listed(z) BY <1>2 DEF Listed
  <1>4. CASE t # z.active
    <2>1. x.pages # <<>> => x.current \in Range(x.pages) \ {t} /\ Offers(x, x.current, ts)
      BY <1>2, <1>4 DEF Follows
    <2>2. x.pages # <<>> => Offers(z, z.current, us) BY <1>2, <2>1 DEF Offers
    <2>3. Follows(z, us) BY <1>1, <1>2, <2>2 DEF Follows
    <2>4. y = z BY <1>4
    <2>5. Sees(x, y) BY <1>2, <2>4, SeesAlike
    <2> QED BY <1>2, <1>3, <2>3, <2>4, <2>5
  <1>5. CASE t = z.active
    <2>1. PICK cl \in BOOLEAN : cl = (us[t] \notin {"SAVING", "PRINTING", "SAVING_ERROR"}) OBVIOUS
    <2>2. PICK sa \in BOOLEAN : sa = (us[t] = "NORMAL") OBVIOUS
    <2>3. PICK pa \in BOOLEAN : pa = (z.paste /\ us[t] = "NORMAL") OBVIOUS
    <2>4. PICK pr \in BOOLEAN : pr = (PageNum(z.pages, t) # 1) OBVIOUS
    <2>5. y = [z EXCEPT !.prev = pr, !.close = cl, !.save = sa, !.paste = pa]
      <3>1. UpdatePrevious(z, t) = [z EXCEPT !.prev = pr] BY <2>4 DEF UpdatePrevious
      <3>2. SetSensitivity(z, t, us) = [z EXCEPT !.prev = pr, !.close = cl, !.save = sa, !.paste = pa]
        BY <1>2, <2>1, <2>2, <2>3, <3>1 DEF SetSensitivity, Window
      <3> QED BY <1>5, <3>2
    <2>6. y \in Window
      <3>1. z \in Window BY <1>2
      <3> QED BY <2>5, <3>1, SensitivityTyped, Zenon
    <2>7. /\ y.pages = z.pages /\ y.current = z.current /\ y.active = z.active /\ y.focused = z.focused
          /\ y.listens = z.listens /\ y.num_tabs = z.num_tabs /\ y.menu = z.menu /\ y.shown = z.shown
          /\ y.state = z.state /\ y.errors = z.errors /\ y.bar = z.bar /\ y.closeAll = z.closeAll
          /\ y.prev = pr /\ y.close = cl /\ y.save = sa /\ y.paste = pa
      BY <1>2, <2>5 DEF Window
    <2>8. Offers(y, t, us) BY <2>1, <2>2, <2>3, <2>7 DEF Offers
    <2>9. Told(y) BY <1>2, <2>7 DEF Told
    <2>10. y.current = t BY <1>2, <1>5, <2>7 DEF Follows
    <2>11. Follows(y, us) BY <1>1, <1>2, <2>6, <2>7, <2>8, <2>9, <2>10 DEF Follows
    <2>12. Listed(x) => Listed(y) BY <1>2, <1>5, <2>4, <2>7 DEF Listed
    <2>13. Sees(x, y) BY <1>2, <2>7, SeesAlike
    <2> QED BY <1>2, <2>7, <2>11, <2>12, <2>13
  <1> QED BY <1>4, <1>5

\* tabs-reordered makes the menu that of the pages.
LEMMA TabsReorderedIs ==
    ASSUME NEW x, NEW ts, Follows(x, ts), NEW y, y = TabsReordered(x)
    PROVE  Follows(y, ts) /\ y.pages = x.pages /\ Listed(y) /\ Sees(x, y) /\ Leaves(x, y)
  <1>1. x \in Window BY DEF Follows
  <1>2. PICK m : m = UpdateMenu(x) OBVIOUS
  <1>3. /\ m \in Window /\ m.menu = x.pages /\ m.shown = PageNum(x.pages, x.active)
        /\ m.pages = x.pages /\ m.current = x.current /\ m.focused = x.focused
        /\ m.active = x.active /\ m.listens = x.listens /\ m.num_tabs = x.num_tabs
        /\ m.state = x.state /\ m.errors = x.errors /\ m.bar = x.bar /\ m.closeAll = x.closeAll
        /\ m.close = x.close /\ m.save = x.save /\ m.paste = x.paste
    BY <1>1, <1>2, MenuIs
  <1>4. PICK pr \in BOOLEAN : pr = (x.active # NoTab /\ PageNum(x.pages, x.active) # 1) OBVIOUS
  <1>5. y = [m EXCEPT !.prev = pr] BY <1>2, <1>3, <1>4 DEF TabsReordered, UpdatePrevious
  <1>6. /\ y \in Window /\ y.menu = m.menu /\ y.shown = m.shown
        /\ y.pages = m.pages /\ y.current = m.current /\ y.focused = m.focused
        /\ y.active = m.active /\ y.listens = m.listens /\ y.num_tabs = m.num_tabs
        /\ y.state = m.state /\ y.errors = m.errors /\ y.bar = m.bar /\ y.closeAll = m.closeAll
        /\ y.close = m.close /\ y.save = m.save /\ y.paste = m.paste /\ y.prev = pr
    BY <1>3, <1>5 DEF Window
  <1>7. x.pages # <<>> => x.active # NoTab
    BY PagesAre, TabAssumption DEF Follows, Window
  <1>8. Follows(y, ts) BY <1>3, <1>6 DEF Follows, Told, Offers
  <1>9. Sees(x, y) /\ Leaves(x, y) BY <1>3, <1>6, SeesAlike
  <1> QED BY <1>3, <1>4, <1>6, <1>7, <1>8, <1>9 DEF Listed

\* The current page is moved.
LEMMA MovedPageIs ==
    ASSUME NEW x, NEW ts, Follows(x, ts), x.current # NoTab, NEW position \in Nat,
           NEW y, y = [x EXCEPT !.pages = Reorder(@, x.current, position)]
    PROVE  Follows(y, ts) /\ Range(y.pages) = Range(x.pages) /\ Sees(x, y) /\ Leaves(x, y)
  <1>1. x \in Window /\ x.pages \in Seq(Tabs) /\ IsInjective(x.pages) /\ x.pages # <<>>
        /\ x.current \in Range(x.pages)
    BY DEF Follows, Window
  <1>2. PICK pages : pages = Reorder(x.pages, x.current, position) OBVIOUS
  <1>3. /\ pages \in Seq(Tabs) /\ Len(pages) = Len(x.pages)
        /\ IsInjective(pages) /\ Range(pages) = Range(x.pages)
    BY <1>1, <1>2, ReorderIs
  <1>4. y = [x EXCEPT !.pages = pages] BY <1>2
  <1>5. /\ y \in Window /\ y.pages = pages /\ y.current = x.current /\ y.active = x.active
        /\ y.listens = x.listens /\ y.num_tabs = x.num_tabs /\ y.focused = x.focused
        /\ y.state = x.state /\ y.errors = x.errors /\ y.bar = x.bar /\ y.closeAll = x.closeAll
        /\ y.close = x.close /\ y.save = x.save /\ y.paste = x.paste
    BY <1>1, <1>3, <1>4 DEF Window
  <1>6. FlagsOf(pages, ts) = FlagsOf(x.pages, ts) /\ ErrorsIn(pages, ts) = ErrorsIn(x.pages, ts)
    <2>1. FlagsOf(pages, ts) = FlagsOf(x.pages, ts) BY <1>3 DEF FlagsOf
    <2>2. ErrorsIn(x.pages, ts) = Cardinality({t \in Range(x.pages) : ts[t] = "SAVING_ERROR"})
      BY <1>1, ErrorsAre
    <2>3. ErrorsIn(pages, ts) = Cardinality({t \in Range(pages) : ts[t] = "SAVING_ERROR"})
      BY <1>3, ErrorsAre
    <2> QED BY <1>3, <2>1, <2>2, <2>3
  <1>7. pages # <<>> BY <1>1, <1>3, PagesAre
  <1>8. Follows(y, ts) BY <1>1, <1>3, <1>5, <1>6, <1>7 DEF Follows, Told, Offers
  <1>9. Sees(x, y) /\ Leaves(x, y) BY <1>3, <1>5, SeesAlike
  <1> QED BY <1>3, <1>5, <1>8, <1>9

-----------------------------------------------------------------------------
(***************************************************************************)
(* The steps.                                                              *)
(***************************************************************************)

LEMMA WindowIs ==
    ASSUME IInv, NEW w \in Windows
    PROVE  /\ win[w] \in Window /\ Follows(win[w], tabState) /\ (w \notin drag => Listed(win[w]))
           /\ w \notin opened => win[w] = EmptyWindow
           /\ TabsOf(w) = Range(win[w].pages) /\ win[w].pages \in Seq(Tabs) /\ IsInjective(win[w].pages)
           /\ TabsOf(w) \subseteq Tabs
           /\ win[w].active = win[w].current
           /\ win[w].current # NoTab <=> TabsOf(w) # {}
           /\ win[w].current # NoTab => win[w].current \in TabsOf(w)
  <1>1. /\ win[w] \in Window /\ Follows(win[w], tabState) /\ (w \notin drag => Listed(win[w]))
        /\ w \notin opened => win[w] = EmptyWindow
    BY DEF IInv
  <1>2. TabsOf(w) = Range(win[w].pages) BY DEF TabsOf
  <1>3. win[w].pages \in Seq(Tabs) /\ IsInjective(win[w].pages) BY <1>1 DEF Follows, Window
  <1>4. TabsOf(w) \subseteq Tabs /\ (win[w].pages = <<>> <=> TabsOf(w) = {}) BY <1>2, <1>3, PagesAre
  <1> QED BY <1>1, <1>2, <1>3, <1>4, TabAssumption DEF Follows

\* What a step does: it makes the windows of W right, leaves the others and their
\* tabs alone, ...
Makes(W) ==
    \A v \in W : /\ Follows(win'[v], tabState') /\ (v \notin drag' => Listed(win'[v]))
                 /\ v \notin opened' => win'[v] = EmptyWindow
Spares(W) ==
    \A v \in Windows \ W : /\ win'[v] = win[v] /\ (v \in drag => v \in drag')
                           /\ v \in opened => v \in opened'
                           /\ \A t \in TabsOf(v) : tabState'[t] = tabState[t]
\* ... keeps the types, ...
TypesStay ==
    /\ opened' \subseteq Windows /\ drag' \subseteq opened' /\ wiped' \subseteq opened'
    /\ tabState' \in TabStates /\ jumpTo' \subseteq Tabs
    /\ drag' = {} \/ \E w \in Windows : drag' = {w}
\* ... and the tabs of the windows apart.
TabsStayApart ==
    /\ win' \in [Windows -> Window] /\ Apart'
    /\ synced' = [t \in Tabs |-> {v \in Windows : t \in Range(win'[v].pages)}]

\* ... In the focus histories it leaves what has been seen, unless a Close All has
\* made the history another one.
Seen ==
    \A v \in Windows \ wiped' : IF v \in wiped THEN win'[v] = EmptyWindow
                                              ELSE Sees(win[v], win'[v])

LEMMA StepIs ==
    ASSUME IInv, NEW W \in SUBSET Windows, Makes(W), Spares(W), TypesStay, TabsStayApart
    PROVE  IInv'
  <1>1. ASSUME NEW v \in Windows \ W
        PROVE  /\ Follows(win'[v], tabState') /\ (v \notin drag' => Listed(win'[v]))
               /\ v \notin opened' => win'[v] = EmptyWindow
    <2>1. /\ Follows(win[v], tabState) /\ (v \notin drag => Listed(win[v]))
          /\ v \notin opened => win[v] = EmptyWindow /\ TabsOf(v) = Range(win[v].pages)
      BY WindowIs
    <2>2. PICK us : us = tabState' OBVIOUS
    <2>3. \A t \in Range(win[v].pages) : us[t] = tabState[t] BY <2>2 DEF Spares, TabsOf
    <2>4. Follows(win[v], us) BY <2>1, <2>3, FollowsOn
    <2> QED BY <2>1, <2>2, <2>4 DEF Spares
  <1>2. \A v \in Windows : /\ Follows(win'[v], tabState') /\ (v \notin drag' => Listed(win'[v]))
                           /\ v \notin opened' => win'[v] = EmptyWindow
    BY <1>1 DEF Makes
  <1> QED BY <1>2 DEF IInv, TabsOf, TypesStay, TabsStayApart

LEMMA SeenUnless ==
    ASSUME NEW W, \A v \in Windows \ W : win'[v] = win[v], wiped' = wiped \/ wiped' = wiped \union W,
           \A v \in W : v \in wiped' \/ Sees(win[v], win'[v])
    PROVE  Seen
  <1>1. ASSUME NEW v \in Windows \ wiped' PROVE v \notin wiped /\ Sees(win[v], win'[v])
    <2>1. v \notin wiped BY <1>1
    <2>2. CASE v \in W BY <1>1, <2>1, <2>2
    <2>3. CASE v \notin W
      <3>1. win'[v] = win[v] BY <1>1, <2>3
      <3> QED BY <2>1, <3>1, SeesAlike
    <2> QED BY <2>2, <2>3
  <1> QED BY <1>1 DEF Seen

\* The tabs of one window change, and none of them is in another one.
LEMMA OneChanges ==
    ASSUME IInv, NEW w \in Windows, win' \in [Windows -> Window],
           \A v \in Windows \ {w} : /\ win'[v] = win[v] /\ Range(win'[w].pages) \intersect TabsOf(v) = {},
           synced' = [t \in Tabs |-> IF t \in Range(win'[w].pages) THEN synced[t] \union {w}
                                                                   ELSE synced[t] \ {w}]
    PROVE  TabsStayApart
  <1>1. Apart' BY DEF IInv, Apart, TabsOf
  <1>2. ASSUME NEW t \in Tabs
        PROVE  synced'[t] = {v \in Windows : t \in Range(win'[v].pages)}
    <2>1. synced[t] = {v \in Windows : t \in Range(win[v].pages)} BY DEF IInv, TabsOf
    <2> QED BY <2>1
  <1> QED BY <1>1, <1>2 DEF TabsStayApart

\* No tab comes or goes.
LEMMA NoneChanges ==
    ASSUME IInv, win' \in [Windows -> Window], synced' = synced,
           \A v \in Windows : Range(win'[v].pages) = Range(win[v].pages)
    PROVE  TabsStayApart
  <1>1. Apart' BY DEF IInv, Apart, TabsOf
  <1>2. ASSUME NEW t \in Tabs
        PROVE  {v \in Windows : t \in Range(win[v].pages)} = {v \in Windows : t \in Range(win'[v].pages)}
    OBVIOUS
  <1>3. synced = [t \in Tabs |-> {v \in Windows : t \in Range(win[v].pages)}] BY DEF IInv, TabsOf
  <1> QED BY <1>1, <1>2, <1>3 DEF TabsStayApart

LEMMA TheTypes ==
    ASSUME IInv
    PROVE  /\ opened \subseteq Windows /\ drag \subseteq opened /\ wiped \subseteq opened
           /\ tabState \in TabStates /\ jumpTo \subseteq Tabs
           /\ drag = {} \/ \E w \in Windows : drag = {w}
           /\ win \in [Windows -> Window] /\ DOMAIN synced = Tabs
  BY DEF IInv

LEMMA CreateTabStep ==
    ASSUME IInv, NEW w \in Windows, NEW t \in Tabs, NEW jump \in BOOLEAN, CreateTab(w, t, jump)
    PROVE  IInv' /\ Seen
  <1>1. PICK s \in States : tabState' = [tabState EXCEPT ![t] = s]
                            /\ win' = [win EXCEPT ![w] = AddTab(@, t, 0, jump, tabState')]
    BY DEF CreateTab, States
  <1>2. PICK x : x = win[w] OBVIOUS
  <1>3. PICK us : us = tabState' OBVIOUS
  <1>4. PICK y : y = AddTab(x, t, 0, jump, us) OBVIOUS
  <1>5. \A v \in Windows : t \notin TabsOf(v) BY DEF CreateTab
  <1>6. us \in TabStates /\ \A v \in Windows : \A u \in TabsOf(v) : us[u] = tabState[u]
    BY <1>1, <1>3, <1>5, TheTypes DEF TabStates
  <1>7. Follows(x, us)
    <2>1. Follows(win[w], tabState) /\ \A u \in Range(win[w].pages) : us[u] = tabState[u]
      BY <1>6, WindowIs DEF TabsOf
    <2> QED BY <1>2, <2>1, FollowsOn
  <1>8. t \in Tabs \ Range(x.pages) BY <1>2, <1>5 DEF TabsOf
  <1>9. /\ Follows(y, us) /\ Range(y.pages) = Range(x.pages) \union {t}
        /\ jump \/ Listed(x) => Listed(y)
        /\ Sees(x, y)
    <2>1. Follows(y, us) BY <1>4, <1>7, <1>8, AddTabIs
    <2>2. Gains(x, y, t) BY <1>4, <1>7, <1>8, AddTabIs
    <2>3. jump \/ Listed(x) => Listed(y) BY <1>4, <1>7, <1>8, AddTabIs
    <2>4. Sees(x, y) BY <1>4, <1>7, <1>8, AddTabIs
    <2> QED BY <2>1, <2>2, <2>3, <2>4 DEF Gains
  <1>10. y \in Window BY <1>9 DEF Follows
  <1>11. win' = [win EXCEPT ![w] = y] BY <1>1, <1>2, <1>3, <1>4
  <1>12. /\ win' \in [Windows -> Window] /\ win'[w] = y
         /\ \A v \in Windows \ {w} : win'[v] = win[v]
    BY <1>10, <1>11, TheTypes
  <1>13. /\ w \in opened /\ opened' = opened /\ drag' = drag /\ wiped' = wiped
         /\ jumpTo' = IF jump THEN jumpTo \union {t} ELSE jumpTo \ {t}
         /\ synced' = [synced EXCEPT ![t] = {w}]
    BY DEF CreateTab
  <1>14. w \notin drag => Listed(y) BY <1>2, <1>9, WindowIs
  <1>15. TabsStayApart
    <2>1. \A v \in Windows \ {w} : TabsOf(w) \intersect TabsOf(v) = {} BY DEF IInv, Apart
    <2>2. \A v \in Windows \ {w} : Range(win'[w].pages) \intersect TabsOf(v) = {}
      BY <1>2, <1>5, <1>9, <1>12, <2>1 DEF TabsOf
    <2>3. \A u \in Tabs : synced[u] = {v \in Windows : u \in TabsOf(v)} BY DEF IInv
    <2>4. synced[t] = {} BY <1>5, <2>3
    <2>5. \A u \in Tabs : (u \in TabsOf(w) => synced[u] \union {w} = synced[u])
                          /\ (u \notin TabsOf(w) => synced[u] \ {w} = synced[u])
      BY <2>3
    <2>6. synced' = [u \in Tabs |-> IF u \in Range(win'[w].pages) THEN synced[u] \union {w}
                                                                  ELSE synced[u] \ {w}]
      BY <1>2, <1>8, <1>9, <1>12, <1>13, <2>4, <2>5, TheTypes DEF TabsOf
    <2> QED BY <1>12, <2>2, <2>6, OneChanges
  <1>16. Makes({w}) BY <1>3, <1>9, <1>12, <1>13, <1>14 DEF Makes
  <1>17. Spares({w}) BY <1>3, <1>6, <1>12, <1>13 DEF Spares
  <1>18. TypesStay BY <1>3, <1>6, <1>13, TheTypes DEF TypesStay
  <1>19. Seen
    <2>1. \A v \in {w} : Sees(win[v], win'[v]) BY <1>2, <1>9, <1>12
    <2> QED BY <1>12, <1>13, <2>1, SeenUnless
  <1> QED BY <1>15, <1>16, <1>17, <1>18, <1>19, StepIs

\* Some tabs of a window are closed and destroyed.
LEMMA LosesStep ==
    ASSUME IInv, NEW w \in opened, NEW D \in SUBSET TabsOf(w), NEW y, win' = [win EXCEPT ![w] = y],
           Follows(y, tabState), Range(y.pages) = TabsOf(w) \ D, w \notin drag => Listed(y),
           opened' = opened, drag' = drag, Destroy(D),
           (wiped' = wiped /\ Sees(win[w], y)) \/ wiped' = wiped \union {w},
           synced' = [t \in Tabs |-> IF t \in D THEN synced[t] \ {w} ELSE synced[t]]
    PROVE  IInv' /\ Seen
  <1>1. w \in Windows /\ D \subseteq Tabs BY TheTypes, WindowIs
  <1>2. PICK us : us = [t \in Tabs |-> IF t \in D THEN "NORMAL" ELSE tabState[t]] OBVIOUS
  <1>3. tabState' = us /\ jumpTo' = jumpTo \ D BY <1>2 DEF Destroy
  <1>4. \A v \in Windows \ {w} : TabsOf(w) \intersect TabsOf(v) = {} BY <1>1 DEF IInv, Apart
  <1>5. \A v \in Windows \ {w} : \A t \in TabsOf(v) : t \in Tabs \ D BY <1>1, <1>4, WindowIs
  <1>6. y \in Window /\ y.pages \in Seq(Tabs) BY DEF Follows, Window
  <1>7. Follows(y, us)
    <2>1. \A t \in Range(y.pages) : us[t] = tabState[t] BY <1>2, <1>6, PagesAre
    <2> QED BY <2>1, FollowsOn
  <1>8. win' \in [Windows -> Window] /\ win'[w] = y /\ \A v \in Windows \ {w} : win'[v] = win[v]
    BY <1>1, <1>6, TheTypes
  <1>9. TabsStayApart
    <2>1. \A v \in Windows \ {w} : win'[v] = win[v] /\ Range(win'[w].pages) \intersect TabsOf(v) = {}
      BY <1>4, <1>8
    <2>2. \A t \in Tabs : synced[t] = {v \in Windows : t \in TabsOf(v)} BY DEF IInv
    <2>3. ASSUME NEW t \in Tabs
          PROVE  (IF t \in Range(win'[w].pages) THEN synced[t] \union {w} ELSE synced[t] \ {w})
                    = (IF t \in D THEN synced[t] \ {w} ELSE synced[t])
      <3>1. t \in Range(win'[w].pages) <=> t \in TabsOf(w) /\ t \notin D BY <1>8
      <3>2. t \in TabsOf(w) <=> w \in synced[t] BY <1>1, <2>2
      <3> QED BY <3>1, <3>2
    <2>4. synced' = [t \in Tabs |-> IF t \in Range(win'[w].pages) THEN synced[t] \union {w}
                                                                  ELSE synced[t] \ {w}]
      BY <2>3
    <2> QED BY <1>1, <1>8, <2>1, <2>4, OneChanges
  <1>10. Makes({w}) BY <1>3, <1>7, <1>8 DEF Makes
  <1>11. Spares({w}) BY <1>2, <1>3, <1>5, <1>8 DEF Spares
  <1>12. tabState' \in TabStates BY <1>2, <1>3, TheTypes DEF TabStates, States
  <1>13. TypesStay BY <1>3, <1>12, TheTypes DEF TypesStay
  <1>14. Seen
    <2>1. \A v \in {w} : v \in wiped' \/ Sees(win[v], win'[v]) BY <1>8
    <2>2. wiped' = wiped \/ wiped' = wiped \union {w} OBVIOUS
    <2> QED BY <1>8, <2>1, <2>2, SeenUnless
  <1> QED BY <1>1, <1>9, <1>10, <1>11, <1>13, <1>14, StepIs

\* A window changes, and its tabs stay.
LEMMA KeepsStep ==
    ASSUME IInv, NEW w \in opened, NEW y, win' = [win EXCEPT ![w] = y],
           Follows(y, tabState), Sees(win[w], y), Range(y.pages) = TabsOf(w), w \notin drag' => Listed(y),
           opened' = opened, tabState' = tabState, jumpTo' = jumpTo, synced' = synced, wiped' = wiped,
           drag' = drag \/ (drag' = {} /\ drag = {w})
    PROVE  IInv' /\ Seen
  <1>1. w \in Windows BY TheTypes
  <1>2. y \in Window BY DEF Follows
  <1>3. win' \in [Windows -> Window] /\ win'[w] = y /\ \A v \in Windows \ {w} : win'[v] = win[v]
    BY <1>1, <1>2, TheTypes
  <1>4. \A v \in Windows : Range(win'[v].pages) = Range(win[v].pages) BY <1>3 DEF TabsOf
  <1>5. TabsStayApart BY <1>3, <1>4, NoneChanges
  <1>6. Makes({w}) BY <1>3 DEF Makes
  <1>7. Spares({w}) BY <1>3 DEF Spares
  <1>8. TypesStay BY TheTypes DEF TypesStay
  <1>9. Seen
    <2>1. \A v \in {w} : Sees(win[v], win'[v]) BY <1>3
    <2> QED BY <1>3, <2>1, SeenUnless
  <1> QED BY <1>1, <1>5, <1>6, <1>7, <1>8, <1>9, StepIs

\* A tab goes from one window to another.
LEMMA MovesStep ==
    ASSUME IInv, NEW src \in opened, NEW dest \in Windows \ {src}, NEW t \in TabsOf(src),
           NEW y, NEW z, win' = [win EXCEPT ![src] = y, ![dest] = z],
           Follows(y, tabState), Sees(win[src], y), Range(y.pages) = TabsOf(src) \ {t}, Listed(y),
           Follows(z, tabState), Sees(win[dest], z), Range(z.pages) = TabsOf(dest) \union {t}, Listed(z),
           opened' = opened \union {dest}, drag \subseteq {src}, drag' = {dest} \/ drag' = {},
           synced' = Moved(src, dest, t), jumpTo' = jumpTo \union {t},
           tabState' = tabState, wiped' = wiped
    PROVE  IInv' /\ Seen
  <1>1. src \in Windows /\ t \in Tabs BY TheTypes, WindowIs
  <1>2. y \in Window /\ z \in Window BY DEF Follows
  <1>3. /\ win' \in [Windows -> Window] /\ win'[src] = y /\ win'[dest] = z
        /\ \A v \in Windows \ {src, dest} : win'[v] = win[v]
    BY <1>1, <1>2, TheTypes
  <1>4. \A v, u \in Windows : v # u => TabsOf(v) \intersect TabsOf(u) = {} BY DEF IInv, Apart
  <1>5. /\ Range(win'[src].pages) = TabsOf(src) \ {t} /\ Range(win'[dest].pages) = TabsOf(dest) \union {t}
        /\ \A v \in Windows \ {src, dest} : Range(win'[v].pages) = TabsOf(v)
    BY <1>3 DEF TabsOf
  <1>6. \A q \in Windows : t \in TabsOf(q) <=> q = src
    <2>1. \A q \in Windows \ {src} : t \notin TabsOf(q) BY <1>1, <1>4
    <2> QED BY <1>1, <2>1
  <1>7. ASSUME NEW q \in Windows, NEW u
        PROVE  u \in Range(win'[q].pages) <=> IF u = t THEN q = dest ELSE u \in TabsOf(q)
    <2>1. CASE q = src BY <1>5, <1>6, <2>1
    <2>2. CASE q = dest BY <1>5, <2>2
    <2>3. CASE q \notin {src, dest} BY <1>5, <1>6, <2>3
    <2> QED BY <2>1, <2>2, <2>3
  <1>8. Apart'
    <2>1. ASSUME NEW v \in Windows, NEW u \in Windows, v # u, NEW q
          PROVE  ~(q \in Range(win'[v].pages) /\ q \in Range(win'[u].pages))
      <3>1. TabsOf(v) \intersect TabsOf(u) = {} BY <1>4, <2>1
      <3> QED BY <1>7, <2>1, <3>1
    <2>2. \A v, u \in Windows : v # u => Range(win'[v].pages) \intersect Range(win'[u].pages) = {}
      BY <2>1
    <2> QED BY <2>2 DEF Apart, TabsOf
  <1>9. TabsStayApart
    <2>1. synced = [u \in Tabs |-> {v \in Windows : u \in TabsOf(v)}] BY DEF IInv
    <2>2. \A u \in Tabs : synced'[u] = IF u = t THEN (synced[t] \ {src}) \union {dest} ELSE synced[u]
      BY <1>1, <2>1 DEF Moved
    <2>3. synced[t] = {src} BY <1>1, <1>6, <2>1
    <2>4. ASSUME NEW u \in Tabs
          PROVE  synced'[u] = {v \in Windows : u \in Range(win'[v].pages)}
      <3>1. CASE u = t
        <4>1. {v \in Windows : u \in Range(win'[v].pages)} = {dest} BY <1>7, <3>1
        <4> QED BY <2>2, <2>3, <3>1, <4>1
      <3>2. CASE u # t
        <4>1. \A v \in Windows : u \in Range(win'[v].pages) <=> u \in TabsOf(v) BY <1>7, <3>2
        <4> QED BY <2>1, <2>2, <3>2, <4>1
      <3> QED BY <3>1, <3>2
    <2>5. synced' = [u \in Tabs |-> synced'[u]] BY <2>1 DEF Moved
    <2>6. synced' = [u \in Tabs |-> {v \in Windows : u \in Range(win'[v].pages)}] BY <2>4, <2>5
    <2> QED BY <1>3, <1>8, <2>6 DEF TabsStayApart
  <1>10. Makes({src, dest}) BY <1>3 DEF Makes
  <1>11. Spares({src, dest}) BY <1>3 DEF Spares
  <1>12. TypesStay BY <1>1, TheTypes DEF TypesStay
  <1>13. Seen
    <2>1. PICK W : W = {src, dest} OBVIOUS
    <2>2. \A v \in W : Sees(win[v], win'[v]) BY <1>3, <2>1
    <2>3. \A v \in Windows \ W : win'[v] = win[v] BY <1>3, <2>1
    <2> QED BY <2>2, <2>3, SeenUnless
  <1> QED BY <1>1, <1>9, <1>10, <1>11, <1>12, <1>13, StepIs

LEMMA CloseTabStep ==
    ASSUME IInv, NEW w \in Windows, NEW t \in Tabs, CloseTab(w, t)
    PROVE  IInv' /\ Seen
  <1>1. /\ w \in opened /\ t \in TabsOf(w) /\ Destroy({t})
        /\ win' = [win EXCEPT ![w] = RemoveTab(@, t, FALSE, tabState)]
        /\ synced' = [synced EXCEPT ![t] = @ \ {w}]
        /\ opened' = opened /\ drag' = drag /\ wiped' = wiped
    BY DEF CloseTab
  <1>2. PICK x : x = win[w] OBVIOUS
  <1>3. Follows(x, tabState) /\ t \in Range(x.pages) BY <1>1, <1>2, WindowIs DEF TabsOf
  <1>4. PICK y : y = RemoveTab(x, t, FALSE, tabState) OBVIOUS
  <1>5. Follows(y, tabState) BY <1>3, <1>4, RemoveTabIs
  <1>6. Loses(x, y, t) BY <1>3, <1>4, RemoveTabIs
  <1>7. Listed(y) BY <1>3, <1>4, RemoveTabIs
  <1>8. win' = [win EXCEPT ![w] = y] BY <1>1, <1>2, <1>4
  <1>9. {t} \in SUBSET TabsOf(w) /\ Range(y.pages) = TabsOf(w) \ {t}
    BY <1>1, <1>2, <1>6 DEF Loses, TabsOf
  <1>10. synced' = [u \in Tabs |-> IF u \in {t} THEN synced[u] \ {w} ELSE synced[u]] BY <1>1, TheTypes
  <1>11. wiped' = wiped /\ Sees(win[w], y) BY <1>1, <1>2, <1>3, <1>4, RemoveTabIs
  <1> QED BY <1>1, <1>5, <1>7, <1>8, <1>9, <1>10, <1>11, LosesStep

LEMMA CloseTabsStep ==
    ASSUME IInv, NEW w \in Windows, NEW tabs \in SUBSET Tabs, CloseTabs(w, tabs)
    PROVE  IInv' /\ Seen
  <1>1. /\ w \in opened /\ tabs # {} /\ tabs \subseteq TabsOf(w) /\ Destroy(tabs)
        /\ win' = [win EXCEPT ![w] = RemoveTabs(@, FromTheLast(@.pages, tabs), tabState)]
        /\ synced' = [t \in Tabs |-> IF t \in tabs THEN synced[t] \ {w} ELSE synced[t]]
        /\ opened' = opened /\ drag' = drag /\ wiped' = wiped
    BY DEF CloseTabs
  <1>2. PICK x : x = win[w] OBVIOUS
  <1>3. /\ Follows(x, tabState) /\ x.pages \in Seq(Tabs) /\ IsInjective(x.pages)
        /\ tabs \in SUBSET Range(x.pages)
    BY <1>1, <1>2, WindowIs DEF TabsOf
  <1>4. PICK s : s = FromTheLast(x.pages, tabs) OBVIOUS
  <1>5. s \in Seq(Tabs) /\ IsInjective(s) /\ Range(s) = tabs BY <1>3, <1>4, FromTheLastIs
  <1>6. s # <<>> /\ Range(s) \subseteq Range(x.pages) BY <1>1, <1>3, <1>5, EmptyPages
  <1>7. PICK y : y = RemoveTabs(x, s, tabState) OBVIOUS
  <1>8. Follows(y, tabState) BY <1>3, <1>5, <1>6, <1>7, RemoveTabsAre
  <1>9. Range(y.pages) = Range(x.pages) \ Range(s) BY <1>3, <1>5, <1>6, <1>7, RemoveTabsAre
  <1>10. Listed(y) BY <1>3, <1>5, <1>6, <1>7, RemoveTabsAre
  <1>11. win' = [win EXCEPT ![w] = y] BY <1>1, <1>2, <1>4, <1>7
  <1>12. Range(y.pages) = TabsOf(w) \ tabs BY <1>2, <1>5, <1>9 DEF TabsOf
  <1>13. wiped' = wiped /\ tabs \in SUBSET TabsOf(w) BY <1>1
  <1>14. Sees(win[w], y) BY <1>2, <1>3, <1>5, <1>6, <1>7, RemoveTabsAre
  <1> QED BY <1>1, <1>8, <1>10, <1>11, <1>12, <1>13, <1>14, LosesStep

LEMMA CloseAllTabsStep ==
    ASSUME IInv, NEW w \in Windows, CloseAllTabs(w)
    PROVE  IInv' /\ Seen
  <1>1. /\ w \in opened /\ drag = {} /\ Destroy(TabsOf(w))
        /\ win' = [win EXCEPT ![w] = RemoveAllTabs(@, tabState)]
        /\ synced' = [t \in Tabs |-> IF t \in TabsOf(w) THEN synced[t] \ {w} ELSE synced[t]]
        /\ opened' = opened /\ drag' = drag /\ wiped' = wiped \union {w}
    BY DEF CloseAllTabs, Idle
  <1>2. PICK x : x = win[w] OBVIOUS
  <1>3. Follows(x, tabState) /\ Listed(x) BY <1>1, <1>2, WindowIs
  <1>4. PICK y : y = RemoveAllTabs(x, tabState) OBVIOUS
  <1>5. Follows(y, tabState) /\ Range(y.pages) = {} /\ Listed(y) BY <1>3, <1>4, RemoveAllTabsIs
  <1>6. win' = [win EXCEPT ![w] = y] BY <1>1, <1>2, <1>4
  <1>7. /\ Range(y.pages) = TabsOf(w) \ TabsOf(w) /\ TabsOf(w) \in SUBSET TabsOf(w)
        /\ wiped' = wiped \union {w}
    BY <1>1, <1>5
  <1> QED BY <1>1, <1>5, <1>6, <1>7, LosesStep

LEMMA CloseWindowStep ==
    ASSUME IInv, NEW w \in Windows, CloseWindow(w)
    PROVE  IInv' /\ Seen
  <1>1. /\ w \in opened /\ drag = {} /\ TabsOf(w) = {} /\ opened' = opened \ {w}
        /\ win' = [win EXCEPT ![w] = EmptyWindow] /\ wiped' = wiped \ {w}
        /\ tabState' = tabState /\ jumpTo' = jumpTo /\ synced' = synced /\ drag' = drag
    BY DEF CloseWindow, Idle
  <1>2. PICK y : y = EmptyWindow OBVIOUS
  <1>3. Follows(y, tabState) /\ Listed(y) BY <1>2, EmptyWindowIs
  <1>4. y \in Window BY <1>3 DEF Follows
  <1>5. win' \in [Windows -> Window] /\ win'[w] = y /\ \A v \in Windows \ {w} : win'[v] = win[v]
    BY <1>1, <1>2, <1>4, TheTypes
  <1>6. Range(y.pages) = Range(win[w].pages) BY <1>1, <1>2, EmptyPages DEF EmptyWindow, TabsOf
  <1>7. \A v \in Windows : Range(win'[v].pages) = Range(win[v].pages) BY <1>5, <1>6
  <1>8. TabsStayApart BY <1>1, <1>5, <1>7, NoneChanges
  <1>9. Makes({w}) BY <1>1, <1>2, <1>3, <1>5 DEF Makes
  <1>10. Spares({w}) BY <1>1, <1>5 DEF Spares
  <1>11. TypesStay BY <1>1, TheTypes DEF TypesStay
  <1>12. Seen
    <2>1. w \notin wiped => Sees(win[w], y)
      <3>1. win[w].focused \in Seq(Tabs) BY WindowIs DEF Window
      <3>2. y.current = NoTab /\ Range(y.pages) = {} /\ y.focused = <<>>
        BY <1>2, EmptyPages DEF EmptyWindow
      <3>3. Range(y.pages) \ {y.current} = {} BY <3>2
      <3>4. SeenOf(win[w].focused, y) = Among(win[w].focused, {}) BY <3>2, <3>3 DEF SeenOf
      <3>5. PICK a \in Seq(Tabs) : a = Among(win[w].focused, {}) /\ Range(a) = {} BY <3>1, AmongIs
      <3>6. a = <<>> BY <3>5, PagesAre
      <3> QED BY <3>2, <3>4, <3>5, <3>6 DEF Sees
    <2>2. ASSUME NEW v \in Windows \ wiped'
          PROVE  IF v \in wiped THEN win'[v] = EmptyWindow ELSE Sees(win[v], win'[v])
      <3>1. CASE v = w BY <1>2, <1>5, <2>1, <3>1
      <3>2. CASE v # w
        <4>1. v \notin wiped /\ win'[v] = win[v] BY <1>1, <1>5, <2>2, <3>2
        <4> QED BY <4>1, SeesAlike
      <3> QED BY <3>1, <3>2
    <2> QED BY <2>2 DEF Seen
  <1> QED BY <1>8, <1>9, <1>10, <1>11, <1>12, StepIs

LEMMA SelectPageStep ==
    ASSUME IInv, NEW w \in Windows, NEW n \in Nat, SelectPage(w, n)
    PROVE  IInv' /\ Seen
  <1>1. /\ w \in opened /\ drag = {} /\ n \in DOMAIN win[w].menu
        /\ win' = [win EXCEPT ![w] = Show(@, @.pages[n], tabState)]
        /\ opened' = opened /\ tabState' = tabState /\ jumpTo' = jumpTo /\ synced' = synced
        /\ drag' = drag /\ wiped' = wiped
    BY DEF SelectPage, Idle
  <1>2. PICK x : x = win[w] OBVIOUS
  <1>3. Follows(x, tabState) /\ Listed(x) /\ Range(x.pages) = TabsOf(w) BY <1>1, <1>2, WindowIs
  <1>4. n \in DOMAIN x.pages BY <1>1, <1>2, <1>3 DEF Listed
  <1>5. PICK p \in Range(x.pages) : p = x.pages[n] BY <1>4 DEF Range
  <1>6. PICK y : y = Show(x, p, tabState) OBVIOUS
  <1>7. /\ Follows(y, tabState) /\ y.pages = x.pages /\ Listed(y)
        /\ Refocused(x.focused, x, y)
    BY <1>3, <1>6, ShowFollows
  <1>8. win' = [win EXCEPT ![w] = y] BY <1>1, <1>2, <1>5, <1>6
  <1>9. Range(y.pages) = TabsOf(w) BY <1>3, <1>7
  <1>10. Sees(win[w], y)
    <2>1. Shown(x) /\ Shown(y) BY <1>3, <1>7, FollowsShown
    <2> QED BY <1>2, <1>7, <2>1, GainsSees
  <1> QED BY <1>1, <1>7, <1>8, <1>9, <1>10, KeepsStep

LEMMA ClipboardReceivedStep ==
    ASSUME IInv, NEW w \in Windows, NEW text \in BOOLEAN, ClipboardReceived(w, text)
    PROVE  IInv' /\ Seen
  <1>1. /\ w \in opened
        /\ win' = [win EXCEPT ![w].paste = PasteAfter(win[w], text, tabState)]
        /\ opened' = opened /\ tabState' = tabState /\ jumpTo' = jumpTo /\ synced' = synced
        /\ drag' = drag /\ wiped' = wiped
    BY DEF ClipboardReceived
  <1>2. PICK x : x = win[w] OBVIOUS
  <1>3. Follows(x, tabState) /\ (w \notin drag => Listed(x)) /\ Range(x.pages) = TabsOf(w) /\ x \in Window
    BY <1>2, WindowIs
  <1>4. PICK pa \in BOOLEAN : pa = PasteAfter(x, text, tabState) BY DEF PasteAfter
  <1>5. PICK y : y = [x EXCEPT !.paste = pa] OBVIOUS
  <1>6. /\ y \in Window /\ y.pages = x.pages /\ y.current = x.current /\ y.active = x.active
        /\ y.listens = x.listens /\ y.num_tabs = x.num_tabs /\ y.menu = x.menu /\ y.shown = x.shown
        /\ y.state = x.state /\ y.errors = x.errors /\ y.bar = x.bar /\ y.closeAll = x.closeAll
        /\ y.close = x.close /\ y.save = x.save /\ y.prev = x.prev /\ y.paste = pa
        /\ y.focused = x.focused
    BY <1>3, <1>4, <1>5 DEF Window
  <1>7. pa => tabState[x.active] = "NORMAL" BY <1>4 DEF PasteAfter
  <1>8. Follows(y, tabState) BY <1>3, <1>6, <1>7 DEF Follows, Told, Offers
  <1>9. w \notin drag' => Listed(y) BY <1>1, <1>3, <1>6 DEF Listed
  <1>10. win' = [win EXCEPT ![w] = y] BY <1>1, <1>2, <1>4, <1>5
  <1>11. Range(y.pages) = TabsOf(w) BY <1>3, <1>6
  <1>12. Sees(win[w], y) BY <1>2, <1>6, SeesAlike
  <1> QED BY <1>1, <1>8, <1>9, <1>10, <1>11, <1>12, KeepsStep

LEMMA ReorderTabStep ==
    ASSUME IInv, NEW w \in Windows, NEW n \in Nat, ReorderTab(w, n)
    PROVE  IInv' /\ Seen
  <1>1. /\ w \in opened /\ win[w].active # NoTab
        /\ win' = [win EXCEPT ![w] = TabsReordered([@ EXCEPT !.pages = Reorder(win[w].pages, win[w].active, n)])]
        /\ opened' = opened /\ tabState' = tabState /\ jumpTo' = jumpTo /\ synced' = synced
        /\ drag' = drag /\ wiped' = wiped
    BY DEF ReorderTab
  <1>2. PICK x : x = win[w] OBVIOUS
  <1>3. Follows(x, tabState) /\ Range(x.pages) = TabsOf(w) /\ x.current = x.active BY <1>2, WindowIs
  <1>4. PICK z : z = [x EXCEPT !.pages = Reorder(@, x.current, n)] OBVIOUS
  <1>5. Follows(z, tabState) /\ Range(z.pages) = Range(x.pages) /\ Sees(x, z)
    BY <1>1, <1>2, <1>3, <1>4, MovedPageIs
  <1>6. PICK y : y = TabsReordered(z) OBVIOUS
  <1>7. /\ Follows(y, tabState) /\ y.pages = z.pages /\ Listed(y)
        /\ Sees(z, y) /\ Leaves(z, y)
    BY <1>5, <1>6, TabsReorderedIs
  <1>8. win' = [win EXCEPT ![w] = y] BY <1>1, <1>2, <1>3, <1>4, <1>6
  <1>9. Range(y.pages) = TabsOf(w) BY <1>3, <1>5, <1>7
  <1>10. Sees(win[w], y)
    <2>1. Shown(z) /\ Shown(y) BY <1>5, <1>7, FollowsShown
    <2>2. x.focused \in Seq(Tabs) BY <1>3 DEF Follows, Window
    <2> QED BY <1>2, <1>5, <1>7, <2>1, <2>2, SeesOn
  <1> QED BY <1>1, <1>7, <1>8, <1>9, <1>10, KeepsStep

LEMMA DragStartStep ==
    ASSUME IInv, NEW w \in Windows, DragStart(w)
    PROVE  IInv' /\ Seen
  <1>1. /\ w \in opened /\ drag = {} /\ drag' = {w} /\ win' = win
        /\ opened' = opened /\ tabState' = tabState /\ jumpTo' = jumpTo /\ synced' = synced
        /\ wiped' = wiped
    BY DEF DragStart, Idle
  <1>2. TabsStayApart BY <1>1, TheTypes, NoneChanges
  <1>3. Makes({}) BY DEF Makes
  <1>4. Spares({}) BY <1>1 DEF Spares
  <1>5. TypesStay BY <1>1, TheTypes DEF TypesStay
  <1>6. Seen
    <2>1. \A v \in {} : Sees(win[v], win'[v]) OBVIOUS
    <2>2. \A v \in Windows \ {} : win'[v] = win[v] BY <1>1
    <2> QED BY <1>1, <2>1, <2>2, SeenUnless
  <1> QED BY <1>2, <1>3, <1>4, <1>5, <1>6, StepIs

LEMMA DragOverStep ==
    ASSUME IInv, NEW w \in Windows, NEW n \in Nat, DragOver(w, n)
    PROVE  IInv' /\ Seen
  <1>1. /\ w \in drag /\ win[w].current # NoTab
        /\ win' = [win EXCEPT ![w].pages = Reorder(@, win[w].current, n)]
        /\ opened' = opened /\ tabState' = tabState /\ jumpTo' = jumpTo /\ synced' = synced
        /\ drag' = drag /\ wiped' = wiped
    BY DEF DragOver
  <1>2. PICK x : x = win[w] OBVIOUS
  <1>3. Follows(x, tabState) /\ Range(x.pages) = TabsOf(w) BY <1>2, WindowIs
  <1>4. PICK y : y = [x EXCEPT !.pages = Reorder(@, x.current, n)] OBVIOUS
  <1>5. Follows(y, tabState) /\ Range(y.pages) = Range(x.pages) /\ Sees(x, y)
    <2>1. x.current # NoTab BY <1>1, <1>2
    <2>2. Follows(y, tabState) BY <1>3, <1>4, <2>1, MovedPageIs
    <2>3. Range(y.pages) = Range(x.pages) BY <1>3, <1>4, <2>1, MovedPageIs
    <2>4. Sees(x, y) BY <1>3, <1>4, <2>1, MovedPageIs
    <2> QED BY <2>2, <2>3, <2>4
  <1>6. win' = [win EXCEPT ![w] = y] BY <1>1, <1>2, <1>4
  <1>7. w \in opened /\ Range(y.pages) = TabsOf(w) BY <1>1, <1>3, <1>5, TheTypes
  <1>8. Sees(win[w], y) BY <1>2, <1>5
  <1> QED BY <1>1, <1>5, <1>6, <1>7, <1>8, KeepsStep

LEMMA DragStopStep ==
    ASSUME IInv, NEW w \in Windows, DragStop(w)
    PROVE  IInv' /\ Seen
  <1>1. /\ w \in drag /\ drag' = {} /\ win' = [win EXCEPT ![w] = TabsReordered(@)]
        /\ opened' = opened /\ tabState' = tabState /\ jumpTo' = jumpTo /\ synced' = synced
        /\ wiped' = wiped
    BY DEF DragStop
  <1>2. PICK x : x = win[w] OBVIOUS
  <1>3. Follows(x, tabState) /\ Range(x.pages) = TabsOf(w) BY <1>2, WindowIs
  <1>4. PICK y : y = TabsReordered(x) OBVIOUS
  <1>5. Follows(y, tabState) /\ y.pages = x.pages /\ Listed(y) /\ Sees(x, y) BY <1>3, <1>4, TabsReorderedIs
  <1>6. win' = [win EXCEPT ![w] = y] BY <1>1, <1>2, <1>4
  <1>7. w \in opened /\ drag = {w} /\ Range(y.pages) = TabsOf(w) BY <1>1, <1>3, <1>5, TheTypes
  <1>8. Sees(win[w], y) BY <1>2, <1>5
  <1> QED BY <1>1, <1>5, <1>6, <1>7, <1>8, KeepsStep

LEMMA SetStateStep ==
    ASSUME IInv, NEW t \in Tabs, SetState(t)
    PROVE  IInv' /\ Seen
  <1>1. PICK s \in NextState(tabState[t]) : tabState' = [tabState EXCEPT ![t] = s]
                                            /\ win' = [w \in Windows |-> SyncState(w, t, tabState')]
    BY DEF SetState
  <1>2. /\ opened' = opened /\ jumpTo' = jumpTo /\ synced' = synced
        /\ drag' = drag /\ wiped' = wiped
    BY DEF SetState
  <1>3. PICK us : us = tabState' OBVIOUS
  <1>4. s \in States BY <1>1 DEF NextState, States
  <1>5. us \in TabStates /\ \A u \in Tabs \ {t} : us[u] = tabState[u]
    BY <1>1, <1>3, <1>4, TheTypes DEF TabStates
  <1>6. \A w \in Windows : win'[w] = SyncState(w, t, us) BY <1>1, <1>3
  <1>7. \A w \in Windows : w \in synced[t] <=> t \in TabsOf(w) BY DEF IInv
  <1>8. ASSUME NEW w \in Windows
        PROVE  /\ Follows(win'[w], us) /\ win'[w].pages = win[w].pages
               /\ Listed(win[w]) => Listed(win'[w])
               /\ Sees(win[w], win'[w])
    <2>1. PICK x : x = win[w] OBVIOUS
    <2>2. Follows(x, tabState) /\ Range(x.pages) = TabsOf(w) /\ TabsOf(w) \subseteq Tabs
      BY <2>1, WindowIs
    <2>3. \A u \in Range(x.pages) \ {t} : us[u] = tabState[u] BY <1>5, <2>2
    <2>4. CASE t \notin TabsOf(w)
      <3>1. win'[w] = x BY <1>6, <1>7, <2>1, <2>4 DEF SyncState
      <3>2. \A u \in Range(x.pages) : us[u] = tabState[u] BY <2>2, <2>3, <2>4
      <3>3. Follows(x, us) BY <2>2, <3>2, FollowsOn
      <3>4. Sees(x, x) BY SeesAlike
      <3> QED BY <2>1, <3>1, <3>3, <3>4
    <2>5. CASE t \in TabsOf(w)
      <3>1. PICK z : z = UpdateState(x, us) OBVIOUS
      <3>2. PICK y : y = IF t = z.active THEN SetSensitivity(z, t, us) ELSE z OBVIOUS
      <3>3. z.active = x.active
        <4>1. x \in Window /\ IsInjective(x.pages) /\ Told(x) BY <2>2 DEF Follows
        <4> QED BY <3>1, <4>1, UpdateStateIs
      <3>4. win'[w] = y BY <1>6, <1>7, <2>1, <2>5, <3>1, <3>2, <3>3 DEF SyncState
      <3>5. Follows(y, us) BY <2>2, <2>3, <3>1, <3>2, SyncStateIs
      <3>6. y.pages = x.pages BY <2>2, <2>3, <3>1, <3>2, SyncStateIs
      <3>7. Listed(x) => Listed(y) BY <2>2, <2>3, <3>1, <3>2, SyncStateIs
      <3>8. Sees(x, y) BY <2>2, <2>3, <3>1, <3>2, SyncStateIs
      <3> QED BY <2>1, <3>4, <3>5, <3>6, <3>7, <3>8
    <2> QED BY <2>4, <2>5
  <1>9. win' \in [Windows -> Window]
    <2>1. \A w \in Windows : win'[w] \in Window BY <1>8 DEF Follows
    <2>2. win' = [w \in Windows |-> win'[w]] BY <1>1
    <2> QED BY <2>1, <2>2
  <1>10. TabsStayApart BY <1>2, <1>8, <1>9, NoneChanges
  <1>11. Makes(Windows)
    <2>1. \A w \in Windows : w \notin drag' => Listed(win'[w]) BY <1>2, <1>8, WindowIs
    <2>2. ASSUME NEW w \in Windows, w \notin opened' PROVE win'[w] = EmptyWindow
      <3>1. win[w] = EmptyWindow BY <1>2, <2>2, WindowIs
      <3>2. TabsOf(w) = {} BY <3>1, EmptyPages DEF EmptyWindow, TabsOf
      <3> QED BY <1>6, <1>7, <3>1, <3>2 DEF SyncState
    <2> QED BY <1>3, <1>8, <2>1, <2>2 DEF Makes
  <1>12. Spares(Windows) BY DEF Spares
  <1>13. TypesStay BY <1>2, <1>3, <1>5, TheTypes DEF TypesStay
  <1>14. Seen
    <2>1. \A w \in Windows : Sees(win[w], win'[w]) BY <1>8
    <2> QED BY <1>2, <2>1 DEF Seen
  <1> QED BY <1>10, <1>11, <1>12, <1>13, <1>14, StepIs

LEMMA DragToStep ==
    ASSUME IInv, NEW src \in Windows, NEW dest \in Windows, NEW n \in Nat, DragTo(src, dest, n)
    PROVE  IInv' /\ Seen
  <1>1. /\ src \in drag /\ dest \in opened /\ src # dest
        /\ drag' = (drag \ {src}) \union {dest}
        /\ opened' = opened /\ tabState' = tabState /\ wiped' = wiped
    BY DEF DragTo, DragLeaves
  <1>2. src \in opened /\ drag = {src} /\ drag' = {dest} /\ opened' = opened \union {dest}
    BY <1>1, TheTypes
  <1>3. PICK x : x = win[src] OBVIOUS
  <1>4. PICK t : t = win[src].current OBVIOUS
  <1>5. Follows(x, tabState) /\ Range(x.pages) = TabsOf(src) BY <1>3, WindowIs
  <1>6. PICK r : r = TabsReordered(x) OBVIOUS
  <1>7. /\ Follows(r, tabState) /\ r.pages = x.pages /\ Listed(r)
        /\ Sees(x, r)
    BY <1>5, <1>6, TabsReorderedIs
  <1>8. CASE t = NoTab
    <2>1. win' = [win EXCEPT ![src] = r] /\ synced' = synced /\ jumpTo' = jumpTo
      BY <1>3, <1>4, <1>6, <1>8 DEF DragTo
    <2>2. r \in Window BY <1>7 DEF Follows
    <2>3. /\ win' \in [Windows -> Window] /\ win'[src] = r
          /\ \A v \in Windows \ {src} : win'[v] = win[v]
      BY <2>1, <2>2, TheTypes
    <2>4. \A v \in Windows : Range(win'[v].pages) = Range(win[v].pages) BY <1>3, <1>7, <2>3
    <2>5. TabsStayApart BY <2>1, <2>3, <2>4, NoneChanges
    <2>6. Makes({src}) BY <1>1, <1>2, <1>7, <2>3 DEF Makes
    <2>7. Spares({src}) BY <1>1, <1>2, <2>3 DEF Spares
    <2>8. TypesStay BY <1>1, <1>2, <2>1, TheTypes DEF TypesStay
    <2>9. Seen
      <3>1. \A v \in {src} : Sees(win[v], win'[v]) BY <1>3, <1>7, <2>3
      <3> QED BY <1>1, <2>3, <3>1, SeenUnless
    <2> QED BY <2>5, <2>6, <2>7, <2>8, <2>9, StepIs
  <1>9. CASE t # NoTab
    <2>1. t \in TabsOf(src) BY <1>4, <1>9, WindowIs
    <2>2. PICK d : d = win[dest] OBVIOUS
    <2>3. Follows(d, tabState) /\ Range(d.pages) = TabsOf(dest) BY <2>2, WindowIs
    <2>4. t \in Tabs \ Range(d.pages)
      <3>1. TabsOf(src) \intersect TabsOf(dest) = {} BY <1>1 DEF IInv, Apart
      <3> QED BY <2>1, <2>3, <3>1, WindowIs
    <2>5. PICK y : y = RemoveTab(r, t, FALSE, tabState) OBVIOUS
    <2>6. t \in Range(r.pages) BY <1>5, <1>7, <2>1
    <2>7. Follows(y, tabState) BY <1>7, <2>5, <2>6, RemoveTabIs
    <2>8. Loses(r, y, t) BY <1>7, <2>5, <2>6, RemoveTabIs
    <2>9. Listed(y) BY <1>7, <2>5, <2>6, RemoveTabIs
    <2>10. PICK z : z = AddTab(d, t, n, TRUE, tabState) OBVIOUS
    <2>11. Follows(z, tabState) BY <2>3, <2>4, <2>10, AddTabIs
    <2>12. Gains(d, z, t) BY <2>3, <2>4, <2>10, AddTabIs
    <2>13. Listed(z) BY <2>3, <2>4, <2>10, AddTabIs
    <2>14. win' = [win EXCEPT ![src] = y, ![dest] = z]
      <3>1. win' = MoveTab([win EXCEPT ![src] = r], src, dest, t, n)
        BY <1>3, <1>4, <1>6, <1>9 DEF DragTo
      <3>2. PICK v : v = [win EXCEPT ![src] = r] OBVIOUS
      <3>3. v[src] = r /\ v[dest] = d /\ src # dest BY <1>1, <2>2, <3>2, TheTypes
      <3>4. MoveTab(v, src, dest, t, n) = [v EXCEPT ![src] = y, ![dest] = z]
        BY <2>5, <2>10, <3>3 DEF MoveTab
      <3> QED BY <3>1, <3>2, <3>4
    <2>15. synced' = Moved(src, dest, t) /\ jumpTo' = jumpTo \union {t}
      BY <1>4, <1>9 DEF DragTo
    <2>16. Range(y.pages) = TabsOf(src) \ {t} /\ Range(z.pages) = TabsOf(dest) \union {t}
      BY <1>5, <1>7, <2>3, <2>8, <2>12 DEF Loses, Gains
    <2>17. drag \subseteq {src} /\ dest \in Windows \ {src} BY <1>1, <1>2
    <2>18. Sees(win[src], y)
      <3>1. Sees(r, y) /\ Leaves(r, y) BY <1>7, <2>5, <2>6, RemoveTabIs
      <3>2. Shown(r) /\ Shown(y) BY <1>7, <2>7, FollowsShown
      <3>3. x.focused \in Seq(Tabs) BY <1>5 DEF Follows, Window
      <3> QED BY <1>3, <1>7, <3>1, <3>2, <3>3, SeesOn
    <2>19. Sees(win[dest], z) BY <2>2, <2>3, <2>4, <2>10, AddTabIs
    <2> QED BY <1>1, <1>2, <2>1, <2>7, <2>9, <2>11, <2>13, <2>14, <2>15, <2>16, <2>17, <2>18, <2>19, MovesStep
  <1> QED BY <1>8, <1>9

LEMMA DetachStep ==
    ASSUME IInv, NEW w \in Windows, NEW new \in Windows, NEW dragged \in BOOLEAN,
           Detach(w, new, dragged)
    PROVE  IInv' /\ Seen
  <1>1. PICK t : t = win[w].current OBVIOUS
  <1>2. /\ w \in opened /\ new \notin opened /\ (IF dragged THEN w \in drag ELSE drag = {})
        /\ Len(win[w].pages) > 1
        /\ opened' = opened \union {new}
        /\ win' = IF dragged THEN [MoveTab(win, w, new, t, 0) EXCEPT ![w] = TabsReordered(@)]
                             ELSE MoveTab(win, w, new, t, 0)
        /\ synced' = Moved(w, new, t) /\ jumpTo' = jumpTo \union {t} /\ drag' = {}
        /\ tabState' = tabState /\ wiped' = wiped
    BY <1>1 DEF Detach, Idle
  <1>3. w # new /\ drag \subseteq {w} BY <1>2, TheTypes
  <1>4. PICK x : x = win[w] OBVIOUS
  <1>5. Follows(x, tabState) /\ Range(x.pages) = TabsOf(w) BY <1>4, WindowIs
  <1>6. t \in TabsOf(w) /\ t \in Tabs
    <2>1. win[w].pages # <<>> /\ win[w].pages \in Seq(Tabs) BY <1>2, EmptyPages, WindowIs
    <2>2. TabsOf(w) # {} BY <2>1, PagesAre DEF TabsOf
    <2> QED BY <1>1, <2>2, WindowIs
  <1>7. PICK d : d = win[new] OBVIOUS
  <1>8. Follows(d, tabState) /\ Range(d.pages) = TabsOf(new) BY <1>7, WindowIs
  <1>9. t \in Tabs \ Range(d.pages)
    <2>1. TabsOf(w) \intersect TabsOf(new) = {} BY <1>3 DEF IInv, Apart
    <2> QED BY <1>6, <1>8, <2>1
  <1>10. PICK r : r = RemoveTab(x, t, FALSE, tabState) OBVIOUS
  <1>11. t \in Range(x.pages) BY <1>5, <1>6
  <1>12. Follows(r, tabState) BY <1>5, <1>10, <1>11, RemoveTabIs
  <1>13. Loses(x, r, t) BY <1>5, <1>10, <1>11, RemoveTabIs
  <1>14. Listed(r) BY <1>5, <1>10, <1>11, RemoveTabIs
  <1>15. PICK z : z = AddTab(d, t, 0, TRUE, tabState) OBVIOUS
  <1>16. Follows(z, tabState) BY <1>8, <1>9, <1>15, AddTabIs
  <1>17. Gains(d, z, t) BY <1>8, <1>9, <1>15, AddTabIs
  <1>18. Listed(z)
    <2>1. PICK jump : jump = TRUE OBVIOUS
    <2>2. z = AddTab(d, t, 0, jump, tabState) BY <1>15, <2>1
    <2>3. jump \/ (0 = 0 /\ Listed(d)) => Listed(z) BY <1>8, <1>9, <2>2, AddTabIs
    <2> QED BY <2>1, <2>3
  <1>19. PICK m : m = [win EXCEPT ![w] = r, ![new] = z] OBVIOUS
  <1>20. MoveTab(win, w, new, t, 0) = m
    BY <1>3, <1>4, <1>7, <1>10, <1>15, <1>19, TheTypes DEF MoveTab
  <1>21. PICK y : y = IF dragged THEN TabsReordered(r) ELSE r OBVIOUS
  <1>22. Follows(y, tabState) /\ y.pages = r.pages /\ Listed(y)
    BY <1>12, <1>14, <1>21, TabsReorderedIs
  <1>23. win' = [win EXCEPT ![w] = y, ![new] = z]
    <2>1. m[w] = r BY <1>3, <1>19, TheTypes
    <2>2. win' = IF dragged THEN [m EXCEPT ![w] = TabsReordered(r)] ELSE m BY <1>2, <1>20, <2>1
    <2>3. [m EXCEPT ![w] = y] = [win EXCEPT ![w] = y, ![new] = z] BY <1>3, <1>19, TheTypes
    <2>4. ~dragged => win' = [m EXCEPT ![w] = y] BY <1>19, <1>21, <2>1, <2>2, TheTypes
    <2> QED BY <1>21, <2>2, <2>3, <2>4
  <1>24. /\ Range(y.pages) = TabsOf(w) \ {t} /\ Range(z.pages) = TabsOf(new) \union {t}
         /\ new \in Windows \ {w}
    BY <1>3, <1>5, <1>8, <1>13, <1>17, <1>22 DEF Loses, Gains
  <1>25. Sees(win[w], y)
    <2>1. Sees(x, r) BY <1>5, <1>10, <1>11, RemoveTabIs
    <2>2. Sees(r, y) /\ Leaves(r, y)
      <3>1. dragged => Sees(r, y) /\ Leaves(r, y) BY <1>12, <1>21, TabsReorderedIs
      <3>2. ~dragged => Sees(r, y) /\ Leaves(r, y) BY <1>21, SeesAlike
      <3> QED BY <3>1, <3>2
    <2>3. Shown(r) /\ Shown(y) BY <1>12, <1>22, FollowsShown
    <2>4. x.focused \in Seq(Tabs) BY <1>5 DEF Follows, Window
    <2> QED BY <1>4, <2>1, <2>2, <2>3, <2>4, SeesOn
  <1>26. Sees(win[new], z) BY <1>7, <1>8, <1>9, <1>15, AddTabIs
  <1> QED BY <1>2, <1>3, <1>6, <1>16, <1>18, <1>22, <1>23, <1>24, <1>25, <1>26, MovesStep

-----------------------------------------------------------------------------

LEMMA NextKeeps ==
    ASSUME IInv, [Next]_vars
    PROVE  IInv' /\ Seen
  <1>1. Cardinality(Tabs) \in Nat BY TabAssumption, FS_CardinalityType
  <1>2. \A n \in 0..Cardinality(Tabs) : n \in Nat BY <1>1
  <1>3. \A n \in 1..Cardinality(Tabs) : n \in Nat BY <1>1
  <1>4. CASE UNCHANGED vars
    <2>1. IInv' BY <1>4 DEF vars, IInv, Apart, TabsOf
    <2>2. win' = win /\ wiped' = wiped BY <1>4 DEF vars
    <2>3. \A v \in Windows : win'[v] = win[v] /\ Sees(win[v], win'[v]) BY <2>2, SeesAlike
    <2> QED BY <2>1, <2>2, <2>3 DEF Seen
  <1>5. ASSUME NEW w \in Windows, NEW t \in Tabs, CloseTab(w, t) PROVE IInv' /\ Seen BY <1>5, CloseTabStep
  <1>6. ASSUME NEW w \in Windows, NEW t \in Tabs, NEW jump \in BOOLEAN, CreateTab(w, t, jump)
        PROVE  IInv' /\ Seen
    BY <1>6, CreateTabStep
  <1>7. ASSUME NEW w \in Windows, NEW tabs \in SUBSET Tabs, CloseTabs(w, tabs) PROVE IInv' /\ Seen
    BY <1>7, CloseTabsStep
  <1>8. ASSUME NEW w \in Windows,
               CloseAllTabs(w) \/ CloseWindow(w) \/ DragStart(w) \/ DragStop(w)
        PROVE  IInv' /\ Seen
    BY <1>8, CloseAllTabsStep, CloseWindowStep, DragStartStep, DragStopStep
  <1>9. ASSUME NEW w \in Windows, NEW n \in 1..Cardinality(Tabs),
               SelectPage(w, n) \/ ReorderTab(w, n) \/ DragOver(w, n)
        PROVE  IInv' /\ Seen
    BY <1>3, <1>9, SelectPageStep, ReorderTabStep, DragOverStep
  <1>10. ASSUME NEW w \in Windows, NEW text \in BOOLEAN, ClipboardReceived(w, text) PROVE IInv' /\ Seen
    BY <1>10, ClipboardReceivedStep
  <1>11. ASSUME NEW w \in Windows, NEW v \in Windows, NEW n \in 0..Cardinality(Tabs), DragTo(w, v, n)
         PROVE  IInv' /\ Seen
    BY <1>2, <1>11, DragToStep
  <1>12. ASSUME NEW w \in Windows, NEW v \in Windows, NEW dragged \in BOOLEAN, Detach(w, v, dragged)
         PROVE  IInv' /\ Seen
    BY <1>12, DetachStep
  <1>13. ASSUME NEW t \in Tabs, SetState(t) PROVE IInv' /\ Seen BY <1>13, SetStateStep
  <1> QED BY <1>4, <1>5, <1>6, <1>7, <1>8, <1>9, <1>10, <1>11, <1>12, <1>13 DEF Next

LEMMA InitIs == Init => IInv
  <1> SUFFICES ASSUME Init PROVE IInv OBVIOUS
  <1>1. \A ts : Follows(EmptyWindow, ts) /\ Listed(EmptyWindow) BY EmptyWindowIs
  <1>2. win = [w \in Windows |-> EmptyWindow] BY DEF Init
  <1>3. \A w \in Windows : win[w] = EmptyWindow /\ TabsOf(w) = {}
    BY <1>2, EmptyPages DEF TabsOf, EmptyWindow
  <1>4. EmptyWindow \in Window BY <1>1 DEF Follows
  <1>5. win \in [Windows -> Window] BY <1>2, <1>4
  <1>6. synced = [t \in Tabs |-> {w \in Windows : t \in TabsOf(w)}] BY <1>3 DEF Init
  <1>7. Apart BY <1>3 DEF Apart
  <1>8. /\ opened \subseteq Windows /\ drag \subseteq opened /\ wiped \subseteq opened
        /\ tabState \in TabStates /\ jumpTo \subseteq Tabs /\ drag = {}
    BY DEF Init, TabStates, States
  <1> QED BY <1>1, <1>3, <1>5, <1>6, <1>7, <1>8 DEF IInv

\* IInv holds of what a step makes of a state of which it holds, and it holds at the
\* start: no order of openings, closings, moves and drags leaves it.
THEOREM Invariance == Spec => []IInv
  <1> QED BY InitIs, NextKeeps, PTL DEF Spec

\* What each window says, shows and offers is what its tabs are, whatever is opened,
\* closed, moved, dragged and detached, and however the operations of the tabs end:
\* for any number of windows and tabs.
THEOREM WindowsShowTheirTabs == Spec => []WindowShowsItsTabs
  <1>1. ASSUME IInv PROVE WindowShowsItsTabs
    <2>1. Cardinality(drag) <= 1
      <3>1. Cardinality({}) = 0 /\ \A w \in Windows : Cardinality({w}) = 1 BY FS_EmptySet, FS_Singleton
      <3> QED BY <1>1, <3>1 DEF IInv
    <2>2. \A w \in Windows : Follows(win[w], tabState) /\ (w \notin drag => Listed(win[w])) BY <1>1, WindowIs
    <2>3. TypeOK
      <3>1. synced \in [Tabs -> SUBSET Windows] BY <1>1 DEF IInv
      <3>2. ASSUME NEW w \in Windows
            PROVE  /\ TabsOf(w) \subseteq Tabs /\ IsInjective(win[w].pages)
                   /\ {win[w].current, win[w].active, win[w].listens} \subseteq Tabs \union {NoTab}
                   /\ win[w].state \subseteq {"LOADING", "SAVING", "PRINTING", "ERROR"}
        <4>1. TabsOf(w) \subseteq Tabs /\ IsInjective(win[w].pages) /\ win[w] \in Window BY <1>1, WindowIs
        <4> QED BY <4>1 DEF Window, TabOrNot, Flags
      <3> QED BY <1>1, <2>1, <3>1, <3>2 DEF IInv, TypeOK, TabStates
    <2>4. StateIsItsTabs
      <3>1. ASSUME NEW t \in Tabs
            PROVE  synced[t] = {w \in Windows : t \in TabsOf(w)} /\ Cardinality(synced[t]) <= 1
        <4>1. synced[t] = {w \in Windows : t \in TabsOf(w)} BY <1>1 DEF IInv
        <4>2. \A v, w \in synced[t] : v = w BY <1>1, <4>1 DEF IInv, Apart
        <4>3. synced[t] = {} \/ \E w \in Windows : synced[t] = {w} BY <4>1, <4>2
        <4>4. Cardinality({}) = 0 /\ \A w \in Windows : Cardinality({w}) = 1 BY FS_EmptySet, FS_Singleton
        <4> QED BY <4>1, <4>3, <4>4
      <3>2. ASSUME NEW w \in opened
            PROVE  /\ win[w].state = FlagsOf(win[w].pages, tabState)
                   /\ win[w].errors = Cardinality({t \in TabsOf(w) : tabState[t] = "SAVING_ERROR"})
                   /\ win[w].bar = <<win[w].state, win[w].errors>>
        <4>1. w \in Windows BY <1>1, TheTypes
        <4>2. /\ win[w].state = FlagsOf(win[w].pages, tabState)
              /\ win[w].errors = ErrorsIn(win[w].pages, tabState) /\ Told(win[w])
          BY <2>2, <4>1 DEF Follows
        <4>3. win[w].pages \in Seq(Tabs) /\ IsInjective(win[w].pages) BY <1>1, <4>1, WindowIs
        <4>4. ErrorsIn(win[w].pages, tabState)
                 = Cardinality({t \in Range(win[w].pages) : tabState[t] = "SAVING_ERROR"})
          BY <4>3, ErrorsAre
        <4> QED BY <4>2, <4>4 DEF Told, TabsOf
      <3> QED BY <3>1, <3>2 DEF StateIsItsTabs
    <2>5. ActiveIsCurrent
      <3>1. ASSUME NEW w \in opened
            PROVE  /\ win[w].active = win[w].current /\ win[w].listens = win[w].current
                   /\ win[w].num_tabs = Len(win[w].pages)
                   /\ IF TabsOf(w) = {} THEN win[w].current = NoTab ELSE win[w].current \in TabsOf(w)
        <4>1. w \in Windows BY <1>1, TheTypes
        <4> QED BY <1>1, <2>2, <4>1, WindowIs DEF Follows
      <3> QED BY <3>1 DEF ActiveIsCurrent
    <2>6. MenuIsThePages BY <1>1, <2>2, TheTypes DEF MenuIsThePages, Listed
    <2>7. ASSUME NEW w \in opened, TabsOf(w) # {}
          PROVE  /\ Offers(win[w], win[w].active, tabState)
                 /\ w \notin drag => (win[w].prev <=> win[w].pages[1] # win[w].active)
                 /\ win[w].closeAll = (\A p \in TabsOf(w) : tabState[p] \notin {"SAVING", "PRINTING"})
      <3>1. w \in Windows BY <1>1, TheTypes
      <3>2. /\ win[w].pages \in Seq(Tabs) /\ win[w].pages # <<>> /\ IsInjective(win[w].pages)
            /\ TabsOf(w) = Range(win[w].pages)
        BY <1>1, <2>7, <3>1, EmptyPages, WindowIs
      <3>3. Offers(win[w], win[w].active, tabState) /\ win[w].active \in Range(win[w].pages)
        BY <2>2, <3>1, <3>2 DEF Follows
      <3>4. ASSUME w \notin drag PROVE win[w].prev <=> win[w].pages[1] # win[w].active
        <4>1. PICK s \in Seq(Tabs) : s = win[w].pages BY <3>2
        <4>2. PICK t \in Range(s) : t = win[w].active BY <3>3, <4>1
        <4>3. PICK n \in 1..Len(s) : n = PageNum(s, t) /\ s[n] = t BY PageNumIs
        <4>4. 1 \in 1..Len(s) /\ DOMAIN s = 1..Len(s) BY <3>2, <4>1, PagesAre
        <4>5. n = 1 <=> s[1] = t BY <3>2, <4>1, <4>3, <4>4 DEF IsInjective
        <4>6. win[w].prev = (PageNum(s, t) # 1) BY <2>2, <3>1, <3>2, <3>4, <4>1, <4>2 DEF Listed
        <4> QED BY <4>1, <4>2, <4>3, <4>5, <4>6
      <3>5. win[w].closeAll = (\A p \in TabsOf(w) : tabState[p] \notin {"SAVING", "PRINTING"})
        <4>1. win[w].closeAll = (FlagsOf(win[w].pages, tabState) \intersect {"SAVING", "PRINTING"} = {})
          BY <2>2, <3>1 DEF Follows, Told
        <4>2. FlagsOf(win[w].pages, tabState) \intersect {"SAVING", "PRINTING"} = {}
                 <=> \A p \in TabsOf(w) : tabState[p] \notin {"SAVING", "PRINTING"}
          BY <3>2 DEF FlagsOf
        <4> QED BY <4>1, <4>2
      <3> QED BY <3>3, <3>4, <3>5
    <2>8. ActionsFitTheTab BY <2>7 DEF ActionsFitTheTab, Offers
    <2>9. PasteFitsTheTab BY <2>7 DEF PasteFitsTheTab, Offers
    <2> QED BY <2>3, <2>4, <2>5, <2>6, <2>8, <2>9 DEF WindowShowsItsTabs
  <1> QED BY <1>1, Invariance, PTL

-----------------------------------------------------------------------------
(***************************************************************************)
(* The focus history.                                                      *)
(***************************************************************************)

\* It is what the user has seen of the window, until a Close All empties it on the way
\* out; and of what has been seen, the page that is shown is the last.
HInv ==
    /\ \A w \in Windows : /\ used[w] \in Seq(Tabs) /\ IsInjective(used[w])
                          /\ SeenOf(used[w], win[w]) = used[w]
    /\ \A w \in Windows \ wiped : win[w].focused = used[w]

\* The user looks at every step.
LEMMA UserLooks ==
    ASSUME IInv, HInv, [Next]_vars, NEW w \in Windows
    PROVE  used'[w] = SeenOf(used[w], win'[w])
  <1>1. SeenOf(used[w], win[w]) = used[w] BY DEF HInv
  <1>2. CASE Look BY <1>2 DEF Look
  <1>3. CASE win' = win /\ used' = used BY <1>1, <1>3
  <1>4. ASSUME NEW v \in Windows, NEW text \in BOOLEAN, ClipboardReceived(v, text)
        PROVE  used'[w] = SeenOf(used[w], win'[w])
    <2>1. win' = [win EXCEPT ![v].paste = PasteAfter(win[v], text, tabState)] /\ used' = used
      BY <1>4 DEF ClipboardReceived
    <2>2. win[v] \in Window /\ DOMAIN win = Windows BY WindowIs, TheTypes
    <2>3. win'[w].pages = win[w].pages /\ win'[w].current = win[w].current
      BY <2>1, <2>2 DEF Window
    <2>4. SeenOf(used[w], win'[w]) = SeenOf(used[w], win[w]) BY <2>3 DEF SeenOf
    <2> QED BY <1>1, <2>1, <2>4
  <1>5. ASSUME NEW v \in Windows, DragStart(v) PROVE win' = win /\ used' = used
    BY <1>5 DEF DragStart
  <1>6. UNCHANGED vars => win' = win /\ used' = used BY DEF vars
  <1>7. ASSUME NEW v \in Windows,
               \/ \E t \in Tabs : CloseTab(v, t) \/ \E jump \in BOOLEAN : CreateTab(v, t, jump)
               \/ \E tabs \in SUBSET Tabs : CloseTabs(v, tabs)
               \/ CloseAllTabs(v) \/ CloseWindow(v)
        PROVE  Look
    BY <1>7 DEF CloseTab, CreateTab, CloseTabs, CloseAllTabs, CloseWindow
  <1>8. ASSUME NEW v \in Windows, NEW n, SelectPage(v, n) \/ ReorderTab(v, n) \/ DragOver(v, n)
        PROVE  Look
    BY <1>8 DEF SelectPage, ReorderTab, DragOver
  <1>9. ASSUME NEW v \in Windows,
               \/ DragStop(v)
               \/ \E u \in Windows : \/ \E n \in 0..Cardinality(Tabs) : DragTo(v, u, n)
                                     \/ \E dragged \in BOOLEAN : Detach(v, u, dragged)
        PROVE  Look
    BY <1>9 DEF DragStop, DragTo, Detach
  <1>10. ASSUME NEW t \in Tabs, SetState(t) PROVE Look BY <1>10 DEF SetState
  <1> QED BY <1>2, <1>3, <1>4, <1>5, <1>6, <1>7, <1>8, <1>9, <1>10 DEF Next

LEMMA HistoryStays ==
    ASSUME IInv, HInv, [Next]_vars
    PROVE  HInv'
  <1>1. IInv' /\ Seen BY NextKeeps
  <1>2. ASSUME NEW w \in Windows
        PROVE  /\ used'[w] \in Seq(Tabs) /\ IsInjective(used'[w])
               /\ SeenOf(used'[w], win'[w]) = used'[w]
               /\ w \notin wiped' => win'[w].focused = used'[w]
    <2>1. used[w] \in Seq(Tabs) /\ IsInjective(used[w]) /\ SeenOf(used[w], win[w]) = used[w]
      BY DEF HInv
    <2>2. PICK y : y = win'[w] OBVIOUS
    <2>3. Shown(y)
      <3>1. PICK ts : ts = tabState' OBVIOUS
      <3>2. Follows(y, ts) BY <1>1, <2>2, <3>1 DEF IInv
      <3> QED BY <3>2, FollowsShown
    <2>4. used'[w] = SeenOf(used[w], y) BY <2>2, UserLooks
    <2>5. used'[w] \in Seq(Tabs) /\ IsInjective(used'[w]) BY <2>1, <2>3, <2>4, SeenIs
    <2>6. Leaves(y, y) BY DEF Leaves
    <2>7. SeenOf(used'[w], y) = used'[w] BY <2>1, <2>3, <2>4, <2>6, SeenTwice
    <2>8. ASSUME w \notin wiped' PROVE y.focused = used'[w]
      <3>1. CASE w \in wiped
        <4>1. y = EmptyWindow BY <1>1, <2>2, <2>8, <3>1 DEF Seen
        <4>2. y.focused = <<>> /\ Range(y.pages) = {} BY <4>1, EmptyPages DEF EmptyWindow
        <4>3. Range(used'[w]) \subseteq Range(y.pages) BY <2>1, <2>3, <2>4, SeenIs
        <4>4. used'[w] = <<>> BY <2>5, <4>2, <4>3, PagesAre
        <4> QED BY <4>2, <4>4
      <3>2. CASE w \notin wiped
        <4>1. Sees(win[w], y) BY <1>1, <2>2, <2>8, <3>2 DEF Seen
        <4>2. win[w].focused = used[w] BY <3>2 DEF HInv
        <4>3. Remembers(win[w]) BY <2>1, <4>2 DEF Remembers
        <4> QED BY <2>4, <4>1, <4>2, <4>3 DEF Sees
      <3> QED BY <3>1, <3>2
    <2> QED BY <2>2, <2>5, <2>7, <2>8
  <1> QED BY <1>2 DEF HInv

LEMMA HistoryStarts == Init => HInv
  <1> SUFFICES ASSUME Init PROVE HInv OBVIOUS
  <1>1. ASSUME NEW w \in Windows
        PROVE  /\ used[w] \in Seq(Tabs) /\ IsInjective(used[w])
               /\ SeenOf(used[w], win[w]) = used[w] /\ win[w].focused = used[w]
    <2>1. win[w] = EmptyWindow /\ used[w] = <<>> BY DEF Init
    <2>2. EmptyWindow.current = NoTab /\ EmptyWindow.focused = <<>> BY DEF EmptyWindow
    <2>3. SeenOf(<<>>, EmptyWindow) = <<>> BY <2>2, AmongNone DEF SeenOf
    <2> QED BY <2>1, <2>2, <2>3, EmptyPages
  <1> QED BY <1>1 DEF HInv

\* The focus history is what the user has seen, in the order in which it was seen,
\* whatever has been opened, moved and dragged between the windows: so the tab that
\* lapiz_notebook_remove_tab goes back to is the one looked at before the one that is
\* closed, for any number of windows and tabs.
THEOREM ClosingReturnsToTheLast == Spec => ClosingReturns
  <1> DEFINE A == \A w \in opened \ wiped : \A t \in jumpTo :
                     LET before == Among(used[w], Tabs \ {t}) IN
                     (CloseTab(w, t) /\ t = win[w].current /\ before # <<>>)
                         => win'[w].current = Last(before)
  <1>1. ASSUME IInv, HInv PROVE A
    <2> SUFFICES ASSUME NEW w \in opened \ wiped, NEW t \in jumpTo, NEW before,
                        before = Among(used[w], Tabs \ {t}),
                        CloseTab(w, t), t = win[w].current, before # <<>>
                 PROVE  win'[w].current = Last(before)
      OBVIOUS
    <2>1. w \in Windows /\ t \in Tabs BY <1>1, TheTypes
    <2>2. PICK x : x = win[w] OBVIOUS
    <2>3. /\ x.focused = used[w] /\ used[w] \in Seq(Tabs) /\ IsInjective(used[w])
          /\ SeenOf(used[w], x) = used[w]
      BY <1>1, <2>1, <2>2 DEF HInv
    <2>4. Follows(x, tabState) /\ Shown(x) /\ t \in Range(x.pages) /\ x.pages \in Seq(Tabs)
      <3>1. Follows(x, tabState) BY <1>1, <2>1, <2>2, WindowIs
      <3>2. t \in Range(x.pages) BY <2>2 DEF CloseTab, TabsOf
      <3> QED BY <3>1, <3>2, FollowsShown DEF Follows, Window
    <2>5. PICK y : y = RemoveTab(x, t, FALSE, tabState) OBVIOUS
    <2>6. win'[w] = y BY <1>1, <2>1, <2>2, <2>5, TheTypes DEF CloseTab
    <2>7. RemoveFirst(x.focused, t) = before BY <2>3, AmongOthers
    <2>8. PICK p : p = Last(before) OBVIOUS
    <2>9. p \in Range(x.pages) \ {t}
      <3>1. PICK rest : rest = Tabs \ {t} OBVIOUS
      <3>2. before \in Seq(Tabs) /\ Range(before) = Range(used[w]) \intersect rest BY <2>3, <3>1, AmongIs
      <3>3. p \in Range(before) BY <2>8, <3>2, PagesAre DEF Last
      <3>4. Range(used[w]) \subseteq Range(x.pages) BY <2>3, <2>4, SeenIs
      <3> QED BY <3>1, <3>2, <3>3, <3>4
    <2>10. Contains(x.pages, p) BY <2>4, <2>9, PagesAre DEF Contains
    <2>11. PageAfterClosing(x.pages, before, t, t \in jumpTo) = p
      BY <2>8, <2>10 DEF PageAfterClosing
    <2>12. Returns(x, y, t) BY <2>4, <2>5, RemoveTabIs
    <2>13. p \in {t, y.current} BY <2>2, <2>7, <2>11, <2>12 DEF Returns
    <2> QED BY <2>6, <2>8, <2>9, <2>13
  <1>2. Spec => [][A]_vars
    <2>1. IInv /\ HInv /\ [Next]_vars => (IInv /\ HInv)' BY NextKeeps, HistoryStays
    <2>2. Init => IInv /\ HInv BY InitIs, HistoryStarts
    <2>3. IInv /\ HInv => A BY <1>1
    <2> HIDE DEF A
    <2> QED BY <2>1, <2>2, <2>3, PTL DEF Spec
  <1> QED BY <1>2 DEF ClosingReturns
==============================================================================
