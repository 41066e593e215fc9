--------------------------- MODULE InstancesProofs ---------------------------
(* Proofs about Instances, for any number of processes, documents, keys and   *)
(* items: processes that start and end one at a time have one server among    *)
(* them, and what they remember of documents is true.                         *)
EXTENDS Instances, FiniteSetTheorems, TLAPS

USE NamesAssumption, TimeAssumption, MaxItemsAssumption

-----------------------------------------------------------------------------
(***************************************************************************)
(* The items of documents.                                                 *)
(***************************************************************************)

Store == UNION {[S -> Item] : S \in {S \in SUBSET Uris : IsFiniteSet(S)}}

LEMMA StoreIs ==
    ASSUME NEW items \in Store
    PROVE  /\ items \in [DOMAIN items -> Item] /\ DOMAIN items \subseteq Uris
           /\ IsFiniteSet(DOMAIN items)
  BY DEF Store

LEMMA EmptyStore == <<>> \in Store /\ DOMAIN <<>> = {}
  <1>1. {} \in {S \in SUBSET Uris : IsFiniteSet(S)} BY FS_EmptySet
  <1>2. <<>> \in [{} -> Item] /\ DOMAIN <<>> = {} BY SMT
  <1> QED BY <1>1, <1>2 DEF Store

LEMMA NoFileIsNoStore == NoFile \notin Store
  BY NoFileAssumption DEF Store

\* Fewer items of a store are a store.
LEMMA RestrictedStore ==
    ASSUME NEW items \in Store, NEW S \in SUBSET DOMAIN items
    PROVE  /\ Restrict(items, S) \in Store /\ DOMAIN Restrict(items, S) = S
           /\ \A u \in S : Restrict(items, S)[u] = items[u]
  <1>1. DOMAIN Restrict(items, S) = S /\ \A u \in S : Restrict(items, S)[u] = items[u]
    BY DEF Restrict
  <1>2. Restrict(items, S) \in [S -> Item] BY StoreIs DEF Restrict
  <1>3. S \in {T \in SUBSET Uris : IsFiniteSet(T)} BY StoreIs, FS_Subset
  <1> QED BY <1>1, <1>2, <1>3 DEF Store

\* An item more, or another one.
LEMMA StoreWith ==
    ASSUME NEW items \in Store, NEW uri \in Uris, NEW item \in Item
    PROVE  /\ Put(items, uri, item) \in Store
           /\ DOMAIN Put(items, uri, item) = DOMAIN items \union {uri}
           /\ \A u \in DOMAIN items \union {uri} :
                 Put(items, uri, item)[u] = IF u = uri THEN item ELSE items[u]
  <1>1. DOMAIN items \union {uri} \in {S \in SUBSET Uris : IsFiniteSet(S)}
    BY StoreIs, FS_AddElement
  <1>2. Put(items, uri, item) \in [DOMAIN items \union {uri} -> Item] BY StoreIs DEF Put
  <1> QED BY <1>1, <1>2 DEF Store, Put

\* What resize_items can leave: a part of the items that is not too large, and
\* none of it has been used before one that has been dropped.
LEMMA ResizedFits ==
    ASSUME NEW items \in Store, NEW kept \in Resized(items)
    PROVE  /\ kept \in Store /\ DOMAIN kept \subseteq DOMAIN items
           /\ \A u \in DOMAIN kept : kept[u] = items[u]
           /\ Cardinality(DOMAIN kept) <= MaxItems
           /\ \A u \in DOMAIN items \ DOMAIN kept, v \in DOMAIN kept : items[u].atime <= items[v].atime
  <1> DEFINE D == DOMAIN items
             n == Cardinality(D) - MaxItems
  <1>1. IsFiniteSet(D) /\ Cardinality(D) \in Nat BY StoreIs, FS_CardinalityType
  <1>2. PICK r \in Removals(items, n) : kept = Restrict(items, D \ Range(r)) BY DEF Resized
  <1> DEFINE Left(i) == D \ {r[j] : j \in 1..(i - 1)}
  <1>3. r \in [1..n -> D] /\ \A i \in 1..n : r[i] \in Oldest(Restrict(items, Left(i)))
    BY <1>2 DEF Removals
  <1>4. Range(r) \subseteq D BY <1>3 DEF Range
  <1>5. kept \in Store /\ DOMAIN kept = D \ Range(r) /\ \A u \in DOMAIN kept : kept[u] = items[u]
    BY <1>2, RestrictedStore
  <1>6. ASSUME NEW i \in 1..n
        PROVE  r[i] \in Left(i) /\ \A v \in Left(i) : items[r[i]].atime <= items[v].atime
    <2>1. Left(i) \in SUBSET DOMAIN items OBVIOUS
    <2>2. /\ DOMAIN Restrict(items, Left(i)) = Left(i)
          /\ \A v \in Left(i) : Restrict(items, Left(i))[v] = items[v]
      BY <2>1, RestrictedStore
    <2>3. r[i] \in Oldest(Restrict(items, Left(i))) BY <1>3
    <2> HIDE DEF Left, D, n
    <2> QED BY <2>2, <2>3 DEF Oldest
  <1>7. ASSUME NEW u \in D \ DOMAIN kept, NEW v \in DOMAIN kept
        PROVE  items[u].atime <= items[v].atime
    <2>1. PICK i \in 1..n : u = r[i] BY <1>3, <1>5, <1>7 DEF Range
    <2>2. v \in D /\ v \notin Range(r) BY <1>4, <1>5, <1>7
    <2>3. 1..(i - 1) \subseteq 1..n BY <1>1
    <2>4. \A j \in 1..n : r[j] \in Range(r) BY <1>3 DEF Range
    <2>5. v \in Left(i) BY <2>2, <2>3, <2>4
    <2> QED BY <1>6, <2>1, <2>5
  <1>8. Cardinality(DOMAIN kept) <= MaxItems
    <2>1. CASE n <= 0
      <3>1. DOMAIN kept \in SUBSET D BY <1>5
      <3> QED BY <1>1, <2>1, <3>1, FS_Subset, FS_CardinalityType
    <2>2. CASE n > 0
      <3>1. \A i, j \in 1..n : i < j => r[i] # r[j] BY <1>1, <1>6
      <3>2. \A i, j \in 1..n : r[i] = r[j] => i = j
        <4> SUFFICES ASSUME NEW i \in 1..n, NEW j \in 1..n, r[i] = r[j] PROVE i = j OBVIOUS
        <4>1. i \in Int /\ j \in Int BY <1>1
        <4>2. ~(i < j) /\ ~(j < i) BY <3>1
        <4> QED BY <4>1, <4>2
      <3>3. r \in Bijection(1..n, Range(r))
        BY <1>3, <3>2 DEF Bijection, Injection, Surjection, IsInjective, Range
      <3>4. Cardinality(Range(r)) = n BY <1>1, <2>2, <3>3, FS_CountingElements DEF ExistsBijection
      <3>5. D \intersect Range(r) = Range(r) BY <1>4
      <3>6. Cardinality(D \ Range(r)) = Cardinality(D) - Cardinality(Range(r))
        BY <1>1, <3>5, FS_Difference
      <3> QED BY <1>1, <1>5, <3>4, <3>6
    <2> QED BY <1>1, <2>1, <2>2
  <1> QED BY <1>5, <1>7, <1>8

-----------------------------------------------------------------------------
(***************************************************************************)
(* The inductive invariant.                                                *)
(***************************************************************************)

Phases  == Starting \union Running \union Ending \union {"off", "client"}
Busy    == Starting \union Ending
Present == Running \union Ending
Manager == [loaded : BOOLEAN, timer : BOOLEAN, items : Store]

Types ==
    /\ phase \in [Procs -> Phases]
    /\ path \in [Procs -> Procs \union {Nobody}]
    /\ tmp \in [Procs -> Procs \union {Nobody, Stale}]
    /\ manager \in [Procs -> Manager]
    /\ file = NoFile \/ file \in Store
    /\ last \in [Uris -> [Keys -> Values \union {NoValue}]]
    /\ now \in Nat /\ hurried \in BOOLEAN /\ damaged \in BOOLEAN

\* Who looks at a path has one, and what is saved fits.
Fits ==
    /\ \A p \in Procs : /\ phase[p] \in Starting \union {"server", "client"} => path[p] # Nobody
                        /\ phase[p] \in {"off", "alone", "saving"} => path[p] = Nobody
    /\ file = NoFile \/ Cardinality(DOMAIN file) <= MaxItems

\* One process at a time starts or ends, and one is there; it is the server
\* sooner or later, because nobody takes its path away.
OneOfEach ==
    /\ \A p, q \in Procs : phase[p] \in Busy /\ phase[q] \in Busy => p = q
    /\ \A p, q \in Procs : phase[p] \in Present /\ phase[q] \in Present => p = q
    /\ \A p \in Procs : phase[p] # "alone"

NoneIsThere == \A q \in Procs : phase[q] \notin Present
NoSockets   == \A r \in Procs : tmp[r] = Nobody

\* There is at most one socket.  A process that starts knows whether there is
\* one, and whether somebody listens.
OneSocket ==
    /\ \A r, s \in Procs : tmp[r] # Nobody /\ tmp[s] # Nobody => r = s
    /\ \A p \in Procs :
          /\ phase[p] \in {"server", "bound"} => tmp[path[p]] = p
          /\ phase[p] \in {"unlinking", "binding", "bound"} => NoneIsThere
          /\ phase[p] = "found" => tmp[path[p]] # Nobody \/ NoSockets
          /\ phase[p] = "binding" => NoSockets
          /\ phase[p] \in {"connecting", "unlinking"} => tmp[path[p]] # Nobody

\* Metadata are kept by processes that are there only, and the timer of one that
\* has not read them is not armed.
ManagersAreNew ==
    \A p \in Procs :
        /\ phase[p] \notin Present => manager[p] = NewManager
        /\ manager[p].timer => manager[p].loaded
        /\ ~manager[p].loaded => manager[p].items = <<>>

InFile == IF file = NoFile THEN <<>> ELSE file

\* What has been set is in memory, and in the file unless a timer is to write it.
RememberedIsLast ==
    /\ \A p \in Procs : manager[p].loaded => Remembered(manager[p].items) = last
    /\ (\A p \in Procs : ~manager[p].timer) => Remembered(InFile) = last

IInv ==
    /\ Types /\ Fits /\ ManagersAreNew
    /\ ~hurried => OneOfEach /\ OneSocket
    /\ ~hurried /\ ~damaged => RememberedIsLast

-----------------------------------------------------------------------------
(***************************************************************************)
(* What the operators of the manager return.                               *)
(***************************************************************************)

LEMMA NewManagerIs == NewManager \in Manager
  BY EmptyStore DEF NewManager, Manager

\* What the file gives to a process that has not read it.
Known(m) == IF m.loaded THEN m.items ELSE InFile

LEMMA ReadyIs ==
    ASSUME NEW m \in Manager, file = NoFile \/ file \in Store, m.timer => m.loaded,
           ~m.loaded => m.items = <<>>
    PROVE  /\ Ready(m, file) \in Manager /\ Ready(m, file).loaded
           /\ Ready(m, file).timer = m.timer
           /\ Ready(m, file).items = Known(m)
  <1>1. CASE m.loaded BY <1>1 DEF Ready, Known
  <1>2. CASE ~m.loaded
    <2>1. Ready(m, file) = [m EXCEPT !.loaded = TRUE, !.items = InFile]
      BY <1>2 DEF Ready, LoadValues, InFile, Manager
    <2>2. InFile \in Store BY EmptyStore DEF InFile
    <2> QED BY <1>2, <2>1, <2>2 DEF Manager, Known
  <1> QED BY <1>1, <1>2

LEMMA GetValueIs ==
    ASSUME NEW m \in Manager, file = NoFile \/ file \in Store, m.timer => m.loaded,
           ~m.loaded => m.items = <<>>, NEW uri \in Uris, NEW time \in Int
    PROVE  LET got == GetValue(m, file, uri, time)
           IN  /\ got \in Manager /\ got.loaded /\ got.timer = m.timer
               /\ DOMAIN got.items = DOMAIN Known(m)
               /\ \A u \in DOMAIN Known(m) : got.items[u].values = Known(m)[u].values
  <1> DEFINE ready == Ready(m, file)
             items == Known(m)
  <1>1. ready \in Manager /\ ready.loaded /\ ready.timer = m.timer /\ ready.items = items
    BY ReadyIs
  <1> HIDE DEF ready, items
  <1>2. ready.items \in Store BY <1>1 DEF Manager
  <1>3. ready.items \in [DOMAIN ready.items -> Item] /\ DOMAIN ready.items \subseteq Uris
        /\ IsFiniteSet(DOMAIN ready.items)
    BY <1>2, StoreIs
  <1>4. CASE uri \in DOMAIN ready.items
    <2> DEFINE new == [ready.items EXCEPT ![uri].atime = time]
    <2>1. new \in [DOMAIN ready.items -> Item] /\ DOMAIN new = DOMAIN ready.items
          /\ \A u \in DOMAIN new : new[u].values = ready.items[u].values
      BY <1>3, <1>4, SMT DEF Item
    <2>2. new \in Store BY <1>3, <2>1 DEF Store
    <2> HIDE DEF new
    <2>3. [ready EXCEPT !.items = new] \in Manager BY <1>1, <2>2 DEF Manager
    <2>4. [ready EXCEPT !.items[uri].atime = time] = [ready EXCEPT !.items = new]
      BY <1>1 DEF Manager, new
    <2>5. /\ [ready EXCEPT !.items = new].loaded /\ [ready EXCEPT !.items = new].timer = m.timer
          /\ [ready EXCEPT !.items = new].items = new
      BY <1>1 DEF Manager
    <2>6. CASE Usable(m, file)
      <3>1. GetValue(m, file, uri, time) = [ready EXCEPT !.items = new]
        BY <1>4, <2>4, <2>6 DEF GetValue, ready
      <3> QED BY <1>1, <2>1, <2>3, <2>5, <3>1 DEF items
    <2>7. CASE ~Usable(m, file)
      <3>1. GetValue(m, file, uri, time) = ready BY <2>7 DEF GetValue, ready
      <3> QED BY <1>1, <3>1 DEF items
    <2> QED BY <2>6, <2>7
  <1>5. CASE uri \notin DOMAIN ready.items
    <2>1. GetValue(m, file, uri, time) = ready BY <1>5 DEF GetValue, ready
    <2> QED BY <1>1, <2>1 DEF items
  <1> QED BY <1>4, <1>5

\* The manager m has the items, but for a value that has been set.
IsSet(m, items, uri, key, value) ==
    LET before == IF uri \in DOMAIN items THEN items[uri].values ELSE Nothing
    IN  /\ m.timer /\ DOMAIN m.items = DOMAIN items \union {uri}
        /\ \A u \in DOMAIN items \union {uri} :
              m.items[u].values = IF u = uri THEN [before EXCEPT ![key] = value] ELSE items[u].values

LEMMA SetValueIs ==
    ASSUME NEW m \in Manager, file = NoFile \/ file \in Store, m.timer => m.loaded,
           ~m.loaded => m.items = <<>>, NEW uri \in Uris, NEW key \in Keys,
           NEW value \in Values \union {NoValue}, NEW time \in Int
    PROVE  /\ SetValue(m, file, uri, key, value, time) \in Manager
           /\ SetValue(m, file, uri, key, value, time).loaded
           /\ Usable(m, file) => IsSet(SetValue(m, file, uri, key, value, time), Known(m), uri, key, value)
           /\ ~Usable(m, file) => /\ SetValue(m, file, uri, key, value, time).timer = m.timer
                                 /\ SetValue(m, file, uri, key, value, time).items = Known(m)
  <1> DEFINE ready == Ready(m, file)
             items == Known(m)
             before == IF uri \in DOMAIN items THEN items[uri].values ELSE Nothing
             old == ItemOf(ready, uri)
             item == [old EXCEPT !.atime = time, !.values[key] = value]
  <1>1. ready \in Manager /\ ready.loaded /\ ready.timer = m.timer /\ ready.items = items
    BY ReadyIs
  <1> HIDE DEF ready, items
  <1>2. ready.items \in Store BY <1>1 DEF Manager
  <1>3. ready.items \in [DOMAIN ready.items -> Item] BY <1>2, StoreIs
  <1>4. old \in Item /\ old.values = before
    BY <1>1, <1>3 DEF ItemOf, NewItem, Nothing, Item
  <1> HIDE DEF old, before
  <1>5. item \in Item /\ item.values = [before EXCEPT ![key] = value]
    BY <1>4 DEF Item
  <1> HIDE DEF item
  <1> DEFINE new == Put(ready.items, uri, item)
  <1>6. /\ new \in Store /\ DOMAIN new = DOMAIN items \union {uri}
        /\ \A u \in DOMAIN items \union {uri} : new[u] = IF u = uri THEN item ELSE items[u]
    <2>1. ready.items \in Store /\ item \in Item BY <1>2, <1>5
    <2>2. /\ Put(ready.items, uri, item) \in Store
          /\ DOMAIN Put(ready.items, uri, item) = DOMAIN ready.items \union {uri}
          /\ \A u \in DOMAIN ready.items \union {uri} :
                Put(ready.items, uri, item)[u] = IF u = uri THEN item ELSE ready.items[u]
      <3> SUFFICES ASSUME NEW st \in Store, NEW it \in Item
                   PROVE  /\ Put(st, uri, it) \in Store
                          /\ DOMAIN Put(st, uri, it) = DOMAIN st \union {uri}
                          /\ \A u \in DOMAIN st \union {uri} :
                                Put(st, uri, it)[u] = IF u = uri THEN it ELSE st[u]
        BY <2>1
      <3> QED BY StoreWith
    <2> HIDE DEF new
    <2> QED BY <1>1, <2>2 DEF new
  <1>7. CASE Usable(m, file)
    <2> DEFINE set == [ready EXCEPT !.timer = TRUE, !.items = new]
    <2>1. SetValue(m, file, uri, key, value, time) = set
      BY <1>1, <1>7 DEF SetValue, ready, item, old, Manager
    <2> HIDE DEF new
    <2>2. set \in Manager /\ set.loaded /\ set.timer /\ set.items = new
      BY <1>1, <1>6 DEF Manager
    <2> HIDE DEF set
    <2>3. \A u \in DOMAIN items \union {uri} :
             new[u].values = IF u = uri THEN [before EXCEPT ![key] = value] ELSE items[u].values
      BY <1>5, <1>6
    <2> QED BY <1>6, <1>7, <2>1, <2>2, <2>3 DEF items, before, IsSet
  <1>8. CASE ~Usable(m, file)
    <2>1. SetValue(m, file, uri, key, value, time) = ready BY <1>8 DEF SetValue, ready
    <2> QED BY <1>1, <1>8, <2>1 DEF items
  <1> QED BY <1>7, <1>8

-----------------------------------------------------------------------------
(***************************************************************************)
(* Types.                                                                  *)
(***************************************************************************)

LEMMA InitTypes == Init => Types /\ Fits
  <1> SUFFICES ASSUME Init PROVE Types /\ Fits OBVIOUS
  <1>1. Types BY EmptyStore, NewManagerIs DEF Init, Types, Phases, Nothing
  <1>2. Cardinality(DOMAIN <<>>) <= MaxItems BY EmptyStore, FS_EmptySet
  <1>3. Fits BY <1>2 DEF Init, Fits, Starting
  <1> QED BY <1>1, <1>3

\* What all steps of the connection leave alone.
LEMMA OtherMetadata ==
    ASSUME Types, Fits, UNCHANGED <<manager, file, last, now, damaged>>
    PROVE  /\ manager' \in [Procs -> Manager] /\ (file' = NoFile \/ file' \in Store)
           /\ last' \in [Uris -> [Keys -> Values \union {NoValue}]] /\ now' \in Nat
           /\ damaged' \in BOOLEAN
           /\ file' = NoFile \/ Cardinality(DOMAIN file') <= MaxItems
  BY DEF Types, Fits

LEMMA SaveKeepsTypes ==
    ASSUME Types, NEW p \in Procs, Save(p)
    PROVE  /\ file' \in Store /\ Cardinality(DOMAIN file') <= MaxItems
           /\ last' \in [Uris -> [Keys -> Values \union {NoValue}]]
  <1>1. manager[p].items \in Store BY DEF Types, Manager
  <1>2. PICK items \in Resized(manager[p].items) :
           /\ file' = items
           /\ last' = [u \in Uris |-> IF u \in DOMAIN manager[p].items \ DOMAIN items
                                      THEN Nothing ELSE last[u]]
    BY DEF Save
  <1>3. items \in Store /\ Cardinality(DOMAIN items) <= MaxItems
    <2> SUFFICES ASSUME NEW all \in Store, NEW kept \in Resized(all)
                 PROVE  kept \in Store /\ Cardinality(DOMAIN kept) <= MaxItems
      BY <1>1
    <2> QED BY ResizedFits
  <1>4. Nothing \in [Keys -> Values \union {NoValue}] BY DEF Nothing
  <1> QED BY <1>2, <1>3, <1>4 DEF Types

LEMMA TypesKept == Types /\ Fits /\ ManagersAreNew /\ [Next]_vars => Types' /\ Fits'
  <1> SUFFICES ASSUME Types, Fits, ManagersAreNew, [Next]_vars PROVE Types' /\ Fits' OBVIOUS
  <1> USE DEF Phases, Starting, Running, Ending
  <1>1. ASSUME UNCHANGED vars PROVE Types' /\ Fits'
    BY <1>1 DEF vars, sockets, metadata, Types, Fits
  <1>2. ASSUME NEW p \in Procs,
               Find(p) \/ TestIsSocket(p) \/ Bind(p) \/ Listen(p) \/ Connect(p) \/ Unlink(p)
                 \/ SendRequest(p) \/ Quit(p) \/ FreeConnection(p)
        PROVE  Types' /\ Fits'
    <2>1. UNCHANGED <<manager, file, last, now, damaged>>
      BY <1>2 DEF Find, TestIsSocket, Bind, Listen, Connect, Unlink, SendRequest, Quit,
                  FreeConnection, OnlySockets, metadata
    <2>2. /\ manager' \in [Procs -> Manager] /\ (file' = NoFile \/ file' \in Store)
          /\ last' \in [Uris -> [Keys -> Values \union {NoValue}]] /\ now' \in Nat
          /\ damaged' \in BOOLEAN
          /\ file' = NoFile \/ Cardinality(DOMAIN file') <= MaxItems
      BY <2>1, OtherMetadata
    <2>3. CASE Find(p)
      <3>1. Candidates(p) \subseteq Procs BY DEF Candidates
      <3> QED BY <2>2, <2>3, <3>1 DEF Find, Goes, Types, Fits
    <2>4. CASE TestIsSocket(p)
      BY <2>2, <2>4 DEF TestIsSocket, Goes, Types, Fits, sockets
    <2>5. CASE Bind(p)
      <3>1. path[p] \in Procs BY <2>5 DEF Bind, Types, Fits
      <3>2. /\ phase' \in [Procs -> Phases] /\ path' \in [Procs -> Procs \union {Nobody}]
            /\ tmp' \in [Procs -> Procs \union {Nobody, Stale}] /\ hurried' \in BOOLEAN
        <4>1. CASE tmp[path[p]] = Nobody BY <2>5, <3>1, <4>1 DEF Bind, Goes, Types
        <4>2. CASE tmp[path[p]] # Nobody BY <2>5, <4>2 DEF Bind, Goes, Leaves, Types
        <4> QED BY <4>1, <4>2
      <3>3. Fits' BY <2>2, <2>5, <3>1 DEF Bind, Goes, Leaves, Types, Fits
      <3> QED BY <2>2, <3>2, <3>3 DEF Types
    <2>6. CASE Listen(p)
      BY <2>2, <2>6 DEF Listen, Goes, Types, Fits, sockets
    <2>7. CASE Connect(p)
      BY <2>2, <2>7 DEF Connect, Goes, Types, Fits, sockets
    <2>8. CASE Unlink(p)
      BY <2>2, <2>8 DEF Unlink, Unlinked, Goes, Types, Fits
    <2>9. CASE SendRequest(p)
      BY <2>2, <2>9 DEF SendRequest, Goes, Leaves, Types, Fits
    <2>10. CASE Quit(p)
      BY <2>2, <2>10 DEF Quit, Goes, Types, Fits, sockets
    <2>11. CASE FreeConnection(p)
      BY <2>2, <2>11 DEF FreeConnection, Closed, Unlinked, Goes, Leaves, Types, Fits
    <2> QED BY <1>2, <2>3, <2>4, <2>5, <2>6, <2>7, <2>8, <2>9, <2>10, <2>11
  <1>3. ASSUME NEW p \in Procs, HandleRequest(p) PROVE Types' /\ Fits'
    BY <1>3 DEF HandleRequest, metadata, Types, Fits
  <1>4. ASSUME NEW p \in Procs, Crash(p) PROVE Types' /\ Fits'
    BY <1>4, NewManagerIs DEF Crash, Closed, Goes, Leaves, Types, Fits
  <1>5. ASSUME NEW p \in Procs, SaveMetadata(p) PROVE Types' /\ Fits'
    <2>1. Save(p) BY <1>5 DEF SaveMetadata
    <2>2. /\ file' \in Store /\ Cardinality(DOMAIN file') <= MaxItems
          /\ last' \in [Uris -> [Keys -> Values \union {NoValue}]]
      BY <2>1, SaveKeepsTypes
    <2>3. manager' \in [Procs -> Manager] BY <1>5, <2>2 DEF SaveMetadata, Types, Manager
    <2> QED BY <1>5, <2>2, <2>3 DEF SaveMetadata, OnlyMetadata, sockets, Types, Fits
  <1>6. ASSUME NEW p \in Procs, ShutdownMetadata(p) PROVE Types' /\ Fits'
    <2>1. manager' \in [Procs -> Manager] BY <1>6, NewManagerIs DEF ShutdownMetadata, Types
    <2>2. CASE Save(p)
      <3>1. /\ file' \in Store /\ Cardinality(DOMAIN file') <= MaxItems
            /\ last' \in [Uris -> [Keys -> Values \union {NoValue}]]
        BY <2>2, SaveKeepsTypes
      <3> QED BY <1>6, <2>1, <3>1 DEF ShutdownMetadata, Goes, sockets, Types, Fits
    <2>3. CASE UNCHANGED <<file, last>>
      BY <1>6, <2>1, <2>3 DEF ShutdownMetadata, Goes, sockets, Types, Fits
    <2> QED BY <1>6, <2>2, <2>3 DEF ShutdownMetadata
  <1>7. ASSUME NEW p \in Procs, NEW uri \in Uris, Get(p, uri) PROVE Types' /\ Fits'
    <2>1. now' \in Nat BY <1>7 DEF Get, Access, Types
    <2>2. GetValue(manager[p], file, uri, now') \in Manager
      BY <2>1, GetValueIs DEF Types, ManagersAreNew
    <2> QED BY <1>7, <2>1, <2>2 DEF Get, OnlyMetadata, sockets, Types, Fits
  <1>8. ASSUME NEW p \in Procs, NEW uri \in Uris, NEW key \in Keys,
               NEW value \in Values \union {NoValue}, Set(p, uri, key, value)
        PROVE  Types' /\ Fits'
    <2>1. now' \in Nat BY <1>8 DEF Set, Access, Types
    <2>2. SetValue(manager[p], file, uri, key, value, now') \in Manager
      BY <2>1, SetValueIs DEF Types, ManagersAreNew
    <2>3. last' \in [Uris -> [Keys -> Values \union {NoValue}]] BY <1>8 DEF Set, Types
    <2> QED BY <1>8, <2>1, <2>2, <2>3 DEF Set, OnlyMetadata, sockets, Types, Fits
  <1> QED BY <1>1, <1>2, <1>3, <1>4, <1>5, <1>6, <1>7, <1>8 DEF Next

-----------------------------------------------------------------------------
(***************************************************************************)
(* The sockets.                                                            *)
(***************************************************************************)

\* Nobody else starts or ends while p goes on, unless that is noted.
LEMMA GoesAlone ==
    ASSUME Types, NEW p \in Procs, NEW to \in Phases, Goes(p, to), ~hurried'
    PROVE  /\ ~hurried /\ phase' = [phase EXCEPT ![p] = to]
           /\ to \in Busy => \A q \in Procs \ {p} : phase[q] \notin Busy
  BY DEF Types, Goes, Busy

LEMMA SocketsKept ==
    Types /\ Fits /\ (~hurried => OneOfEach /\ OneSocket) /\ [Next]_vars
        => (~hurried' => OneOfEach' /\ OneSocket')
  <1> SUFFICES ASSUME Types, Fits, ~hurried => OneOfEach /\ OneSocket, [Next]_vars, ~hurried'
               PROVE  OneOfEach' /\ OneSocket'
    OBVIOUS
  <1> USE DEF Starting, Running, Ending, Busy, Present
  <1>1. CASE UNCHANGED <<phase, path, tmp, hurried>>
    BY <1>1 DEF OneOfEach, OneSocket, NoneIsThere, NoSockets
  <1>2. ASSUME NEW p \in Procs, NEW to \in Phases, Goes(p, to)
        PROVE  /\ OneOfEach /\ OneSocket /\ phase' = [phase EXCEPT ![p] = to]
               /\ to \in Busy => \A q \in Procs \ {p} : phase[q] \notin Busy
    BY <1>2, GoesAlone
  <1>3. ASSUME NEW p \in Procs, Find(p) PROVE OneOfEach' /\ OneSocket'
    <2>1. /\ OneOfEach /\ OneSocket /\ phase' = [phase EXCEPT ![p] = "found"] /\ tmp' = tmp
          /\ \A q \in Procs \ {p} : phase[q] \notin Busy
      BY <1>2, <1>3 DEF Find, Phases
    <2>2. PICK q \in Candidates(p) : path' = [path EXCEPT ![p] = q] BY <1>3 DEF Find
    <2>3. q \in Procs /\ (tmp[q] # Nobody \/ NoSockets) BY <2>2 DEF Candidates, NoSockets
    <2>4. OneOfEach' BY <1>3, <2>1 DEF Find, Types, OneOfEach
    <2> QED BY <1>3, <2>1, <2>2, <2>3, <2>4
            DEF Find, Types, OneOfEach, OneSocket, NoneIsThere, NoSockets
  <1>4. ASSUME NEW p \in Procs, TestIsSocket(p) PROVE OneOfEach' /\ OneSocket'
    <2> DEFINE to == IF tmp[path[p]] = Nobody THEN "binding" ELSE "connecting"
    <2>1. /\ OneOfEach /\ OneSocket /\ phase' = [phase EXCEPT ![p] = to] /\ tmp' = tmp /\ path' = path
          /\ \A q \in Procs \ {p} : phase[q] \notin Busy
      BY <1>2, <1>4 DEF TestIsSocket, Phases, sockets
    <2>2. OneOfEach' BY <1>4, <2>1 DEF TestIsSocket, Types, OneOfEach
    <2>3. path[p] \in Procs BY <1>4 DEF TestIsSocket, Types, Fits
    <2>4. to = "binding" => NoSockets /\ NoneIsThere
      BY <1>4, <2>1, <2>3 DEF TestIsSocket, OneSocket, OneOfEach, NoSockets, NoneIsThere, Types, Fits
    <2> QED BY <1>4, <2>1, <2>2, <2>3, <2>4
            DEF TestIsSocket, Types, OneOfEach, OneSocket, NoneIsThere, NoSockets
  <1>5. ASSUME NEW p \in Procs, Bind(p) PROVE OneOfEach' /\ OneSocket'
    <2>1. path[p] \in Procs BY <1>5 DEF Bind, Types, Fits
    <2>2. OneSocket BY <1>2, <1>5 DEF Bind, Phases
    <2>3. tmp[path[p]] = Nobody /\ NoSockets BY <1>5, <2>1, <2>2 DEF Bind, OneSocket, NoSockets
    <2>4. /\ OneOfEach /\ OneSocket /\ phase' = [phase EXCEPT ![p] = "bound"]
          /\ tmp' = [tmp EXCEPT ![path[p]] = p] /\ path' = path
          /\ \A q \in Procs \ {p} : phase[q] \notin Busy
      BY <1>2, <1>5, <2>3 DEF Bind, Phases
    <2>5. OneOfEach' BY <1>5, <2>4 DEF Bind, Types, OneOfEach
    <2> QED BY <1>5, <2>1, <2>3, <2>4, <2>5
            DEF Bind, Types, OneOfEach, OneSocket, NoneIsThere, NoSockets
  <1>6. ASSUME NEW p \in Procs, Listen(p) PROVE OneOfEach' /\ OneSocket'
    <2>1. /\ OneOfEach /\ OneSocket /\ phase' = [phase EXCEPT ![p] = "server"]
          /\ tmp' = tmp /\ path' = path
      BY <1>2, <1>6 DEF Listen, Phases, sockets
    <2>2. NoneIsThere /\ tmp[path[p]] = p BY <1>6, <2>1 DEF Listen, OneSocket
    <2>3. \A q \in Procs \ {p} : phase[q] \notin Busy BY <1>6, <2>1 DEF Listen, OneOfEach
    <2>4. OneOfEach' BY <1>6, <2>1, <2>2, <2>3 DEF Listen, Types, OneOfEach, NoneIsThere
    <2> QED BY <1>6, <2>1, <2>2, <2>3, <2>4
            DEF Listen, Types, OneOfEach, OneSocket, NoneIsThere, NoSockets
  <1>7. ASSUME NEW p \in Procs, Connect(p) PROVE OneOfEach' /\ OneSocket'
    <2> DEFINE to == IF Answers(p) THEN "client" ELSE "unlinking"
    <2>1. /\ OneOfEach /\ OneSocket /\ phase' = [phase EXCEPT ![p] = to] /\ tmp' = tmp /\ path' = path
      BY <1>2, <1>7 DEF Connect, Phases, sockets
    <2>2. path[p] \in Procs /\ tmp[path[p]] # Nobody
      BY <1>7, <2>1 DEF Connect, Types, Fits, OneSocket
    <2>3. \A q \in Procs \ {p} : phase[q] \notin Busy BY <1>7, <2>1 DEF Connect, OneOfEach
    <2>4. ~Answers(p) => NoneIsThere
      <3> SUFFICES ASSUME NEW q \in Procs, phase[q] \in Present PROVE Answers(p)
        BY DEF NoneIsThere
      <3>1. phase[q] = "server" /\ path[q] \in Procs
        BY <1>7, <2>1, <2>3 DEF Connect, OneOfEach, Types, Fits
      <3>2. tmp[path[q]] = q BY <2>1, <3>1 DEF OneSocket
      <3>3. path[q] = path[p] BY <2>1, <2>2, <3>1, <3>2 DEF OneSocket
      <3> QED BY <3>1, <3>2, <3>3 DEF Answers, Listening
    <2>5. OneOfEach' BY <1>7, <2>1, <2>3 DEF Connect, Types, OneOfEach
    <2> HIDE DEF to
    <2>6. (to = "client" /\ Answers(p)) \/ (to = "unlinking" /\ ~Answers(p)) BY DEF to
    <2> QED BY <1>7, <2>1, <2>2, <2>3, <2>4, <2>5, <2>6
            DEF Connect, Types, OneOfEach, OneSocket, NoneIsThere, NoSockets
  <1>8. ASSUME NEW p \in Procs, Unlink(p) PROVE OneOfEach' /\ OneSocket'
    <2>1. /\ OneOfEach /\ OneSocket /\ phase' = [phase EXCEPT ![p] = "binding"]
          /\ tmp' = [tmp EXCEPT ![path[p]] = Nobody] /\ path' = path
      BY <1>2, <1>8 DEF Unlink, Unlinked, Phases
    <2>2. path[p] \in Procs /\ tmp[path[p]] # Nobody /\ NoneIsThere
      BY <1>8, <2>1 DEF Unlink, Types, Fits, OneSocket
    <2>3. \A q \in Procs \ {p} : phase[q] \notin Busy BY <1>8, <2>1 DEF Unlink, OneOfEach
    <2>4. OneOfEach' BY <1>8, <2>1, <2>3 DEF Unlink, Types, OneOfEach
    <2>5. NoSockets' BY <2>1, <2>2 DEF NoSockets, OneSocket, Types
    <2> QED BY <1>8, <2>1, <2>2, <2>3, <2>4, <2>5
            DEF Unlink, Types, OneOfEach, OneSocket, NoneIsThere, NoSockets
  <1>9. ASSUME NEW p \in Procs, SendRequest(p) PROVE OneOfEach' /\ OneSocket'
    <2>1. /\ OneOfEach /\ OneSocket /\ phase' = [phase EXCEPT ![p] = "off"]
          /\ tmp' = tmp /\ path' = [path EXCEPT ![p] = Nobody]
      BY <1>2, <1>9 DEF SendRequest, Leaves, Phases
    <2>2. OneOfEach' BY <1>9, <2>1 DEF SendRequest, Types, OneOfEach
    <2> QED BY <1>9, <2>1, <2>2
            DEF SendRequest, Types, OneOfEach, OneSocket, NoneIsThere, NoSockets
  <1>10. ASSUME NEW p \in Procs, Quit(p) PROVE OneOfEach' /\ OneSocket'
    <2>1. /\ OneOfEach /\ OneSocket /\ phase' = [phase EXCEPT ![p] = "quitting"]
          /\ tmp' = tmp /\ path' = path
          /\ \A q \in Procs \ {p} : phase[q] \notin Busy
      BY <1>2, <1>10 DEF Quit, Phases, sockets
    <2>2. OneOfEach' BY <1>10, <2>1 DEF Quit, Types, OneOfEach
    <2> QED BY <1>10, <2>1, <2>2
            DEF Quit, Types, OneOfEach, OneSocket, NoneIsThere, NoSockets
  <1>11. ASSUME NEW p \in Procs, FreeConnection(p) PROVE OneOfEach' /\ OneSocket'
    <2>1. /\ OneOfEach /\ OneSocket /\ phase' = [phase EXCEPT ![p] = "saving"]
          /\ path' = [path EXCEPT ![p] = Nobody]
          /\ \A q \in Procs \ {p} : phase[q] \notin Busy
      BY <1>2, <1>11 DEF FreeConnection, Leaves, Phases
    <2>2. tmp' \in [Procs -> Procs \union {Nobody, Stale}]
          /\ \A q \in Procs : tmp'[q] # Nobody => tmp[q] # Nobody
      BY <1>11 DEF FreeConnection, Closed, Unlinked, Types
    <2>3. \A q \in Procs \ {p} : phase[q] \notin {"server", "bound", "found", "binding", "connecting", "unlinking"}
      BY <1>11, <2>1 DEF FreeConnection, OneOfEach
    <2>4. OneOfEach' BY <1>11, <2>1 DEF FreeConnection, Types, OneOfEach
    <2> QED BY <1>11, <2>1, <2>2, <2>3, <2>4
            DEF FreeConnection, Types, OneOfEach, OneSocket, NoneIsThere, NoSockets
  <1>12. ASSUME NEW p \in Procs, Crash(p) PROVE OneOfEach' /\ OneSocket'
    <2>1. /\ OneOfEach /\ OneSocket /\ phase' = [phase EXCEPT ![p] = "off"]
          /\ path' = [path EXCEPT ![p] = Nobody]
      BY <1>2, <1>12 DEF Crash, Leaves, Phases
    <2>2. tmp' = [q \in Procs |-> IF tmp[q] = p THEN Stale ELSE tmp[q]]
      BY <1>12 DEF Crash, Closed
    <2>3. OneOfEach' BY <1>12, <2>1 DEF Crash, Types, OneOfEach
    <2>4. \A q \in Procs : tmp'[q] = Nobody <=> tmp[q] = Nobody BY <2>2 DEF Types
    <2>5. NoneIsThere => NoneIsThere' BY <2>1 DEF NoneIsThere, Types
    <2> QED BY <1>12, <2>1, <2>2, <2>3, <2>4, <2>5
            DEF Crash, Types, Fits, OneOfEach, OneSocket, NoSockets
  <1>13. ASSUME NEW p \in Procs, ShutdownMetadata(p) PROVE OneOfEach' /\ OneSocket'
    <2>1. /\ OneOfEach /\ OneSocket /\ phase' = [phase EXCEPT ![p] = "off"]
          /\ path' = path /\ tmp' = tmp
      BY <1>2, <1>13 DEF ShutdownMetadata, sockets, Phases
    <2>2. OneOfEach' BY <1>13, <2>1 DEF ShutdownMetadata, Types, OneOfEach
    <2> QED BY <1>13, <2>1, <2>2
            DEF ShutdownMetadata, Types, OneOfEach, OneSocket, NoneIsThere, NoSockets
  <1>14. ASSUME NEW p \in Procs,
                \/ HandleRequest(p) \/ SaveMetadata(p) \/ \E uri \in Uris : Get(p, uri)
                \/ \E uri \in Uris, key \in Keys, value \in Values \union {NoValue} :
                      Set(p, uri, key, value)
         PROVE  UNCHANGED <<phase, path, tmp, hurried>>
    BY <1>14 DEF HandleRequest, SaveMetadata, Get, Set, OnlyMetadata, sockets
  <1>15. CASE UNCHANGED vars BY <1>1, <1>15 DEF vars, sockets
  <1> QED BY <1>1, <1>3, <1>4, <1>5, <1>6, <1>7, <1>8, <1>9, <1>10, <1>11, <1>12, <1>13, <1>14, <1>15
          DEF Next

-----------------------------------------------------------------------------
(***************************************************************************)
(* The metadata.                                                           *)
(***************************************************************************)

LEMMA ManagersKept ==
    Types /\ Fits /\ ManagersAreNew /\ [Next]_vars => ManagersAreNew'
  <1> SUFFICES ASSUME Types, Fits, ManagersAreNew, [Next]_vars PROVE ManagersAreNew' OBVIOUS
  <1> USE DEF Phases, Starting, Running, Ending, Present
  <1>1. ASSUME UNCHANGED <<phase, manager>> PROVE ManagersAreNew' BY <1>1 DEF ManagersAreNew
  <1>2. ASSUME NEW p \in Procs,
               Find(p) \/ TestIsSocket(p) \/ Bind(p) \/ Listen(p) \/ Connect(p) \/ Unlink(p)
                 \/ SendRequest(p) \/ Quit(p) \/ FreeConnection(p)
        PROVE  ManagersAreNew'
    <2>1. manager' = manager
      BY <1>2 DEF Find, TestIsSocket, Bind, Listen, Connect, Unlink, SendRequest, Quit,
                  FreeConnection, OnlySockets, metadata
    <2>2. PICK to \in Phases : phase' = [phase EXCEPT ![p] = to]
      BY <1>2 DEF Find, TestIsSocket, Bind, Listen, Connect, Unlink, SendRequest, Quit,
                  FreeConnection, Goes
    <2>3. phase[p] \in Present => to \in Present
      BY <1>2, <2>2 DEF Find, TestIsSocket, Bind, Listen, Connect, Unlink, SendRequest, Quit,
                  FreeConnection, Goes, Types
    <2> QED BY <2>1, <2>2, <2>3 DEF ManagersAreNew, Types
  <1>3. ASSUME NEW p \in Procs, HandleRequest(p) PROVE ManagersAreNew'
    BY <1>1, <1>3 DEF HandleRequest, metadata
  <1>4. ASSUME NEW p \in Procs, Crash(p) \/ ShutdownMetadata(p) PROVE ManagersAreNew'
    <2>1. manager' = [manager EXCEPT ![p] = NewManager] /\ phase' = [phase EXCEPT ![p] = "off"]
      BY <1>4 DEF Crash, ShutdownMetadata, Goes
    <2> QED BY <2>1 DEF ManagersAreNew, Types, NewManager
  <1>5. ASSUME NEW p \in Procs, SaveMetadata(p) PROVE ManagersAreNew'
    BY <1>5 DEF SaveMetadata, OnlyMetadata, ManagersAreNew, Types, Manager
  <1>6. ASSUME NEW p \in Procs, NEW uri \in Uris, Get(p, uri) PROVE ManagersAreNew'
    <2> DEFINE got == GetValue(manager[p], file, uri, now')
    <2>1. now' \in Nat BY <1>6 DEF Get, Access, Types
    <2>2. got \in Manager /\ got.loaded
      BY <2>1, GetValueIs DEF Types, ManagersAreNew
    <2>3. manager' = [manager EXCEPT ![p] = got] /\ phase' = phase /\ phase[p] \in Running
      BY <1>6 DEF Get, OnlyMetadata
    <2> HIDE DEF got
    <2> QED BY <2>2, <2>3 DEF ManagersAreNew, Types
  <1>7. ASSUME NEW p \in Procs, NEW uri \in Uris, NEW key \in Keys,
               NEW value \in Values \union {NoValue}, Set(p, uri, key, value)
        PROVE  ManagersAreNew'
    <2> DEFINE set == SetValue(manager[p], file, uri, key, value, now')
    <2>1. now' \in Nat BY <1>7 DEF Set, Access, Types
    <2>2. set \in Manager /\ set.loaded
      BY <2>1, SetValueIs DEF Types, ManagersAreNew
    <2>3. manager' = [manager EXCEPT ![p] = set] /\ phase' = phase /\ phase[p] \in Running
      BY <1>7 DEF Set, OnlyMetadata
    <2> HIDE DEF set
    <2> QED BY <2>2, <2>3 DEF ManagersAreNew, Types
  <1>8. CASE UNCHANGED vars BY <1>1, <1>8 DEF vars, metadata
  <1> QED BY <1>2, <1>3, <1>4, <1>5, <1>6, <1>7, <1>8 DEF Next

\* What has been saved is what has been set since it was dropped.
LEMMA SaveRemembers ==
    ASSUME Types, NEW p \in Procs, Save(p), Remembered(manager[p].items) = last
    PROVE  Remembered(file') = last'
  <1>1. PICK items \in Resized(manager[p].items) :
           /\ file' = items
           /\ last' = [u \in Uris |-> IF u \in DOMAIN manager[p].items \ DOMAIN items
                                      THEN Nothing ELSE last[u]]
    BY DEF Save
  <1>2. DOMAIN items \subseteq DOMAIN manager[p].items
        /\ \A u \in DOMAIN items : items[u] = manager[p].items[u]
    <2> SUFFICES ASSUME NEW all \in Store, NEW kept \in Resized(all)
                 PROVE  DOMAIN kept \subseteq DOMAIN all /\ \A u \in DOMAIN kept : kept[u] = all[u]
      BY DEF Types, Manager
    <2> QED BY ResizedFits
  <1>3. \A u \in Uris :
           last[u] = IF u \in DOMAIN manager[p].items THEN manager[p].items[u].values ELSE Nothing
    BY Zenon DEF Remembered
  <1> QED BY <1>1, <1>2, <1>3 DEF Remembered

\* A timer is armed only in a process that is there, and there is only one.
LEMMA OnlyOneManager ==
    ASSUME Types, ManagersAreNew, OneOfEach, NEW p \in Procs, phase[p] \in Present
    PROVE  \A q \in Procs \ {p} : manager[q] = NewManager
  BY DEF ManagersAreNew, OneOfEach

\* What a process goes on with is what has been set.
LEMMA KnownIsLast ==
    ASSUME Types, ManagersAreNew, OneOfEach, RememberedIsLast,
           NEW p \in Procs, phase[p] \in Present
    PROVE  Remembered(Known(manager[p])) = last
  <1>1. CASE manager[p].loaded BY <1>1 DEF RememberedIsLast, Known
  <1>2. CASE ~manager[p].loaded
    <2>1. \A q \in Procs : ~manager[q].timer
      BY <1>2, OnlyOneManager DEF ManagersAreNew, NewManager
    <2> QED BY <1>2, <2>1 DEF RememberedIsLast, Known
  <1> QED BY <1>1, <1>2

LEMMA MetadataKept ==
    ASSUME IInv, [Next]_vars, ~hurried', ~damaged'
    PROVE  RememberedIsLast'
  <1> USE DEF Phases, Starting, Running, Ending, Present
  <1>1. ~hurried /\ ~damaged
    BY DEF Next, Find, TestIsSocket, Bind, Listen, Connect, Unlink, SendRequest, HandleRequest, Quit,
           FreeConnection, Crash, SaveMetadata, ShutdownMetadata, Get, Set, Goes, OnlySockets,
           OnlyMetadata, metadata, vars, IInv, Types
  <1>2. Types /\ Fits /\ ManagersAreNew /\ OneOfEach /\ OneSocket /\ RememberedIsLast
    BY <1>1 DEF IInv
  <1>3. ASSUME UNCHANGED <<manager, file, last>> PROVE RememberedIsLast'
    BY <1>2, <1>3 DEF RememberedIsLast, Remembered, InFile
  <1>4. ASSUME NEW p \in Procs,
               Find(p) \/ TestIsSocket(p) \/ Bind(p) \/ Listen(p) \/ Connect(p) \/ Unlink(p)
                 \/ SendRequest(p) \/ HandleRequest(p) \/ Quit(p) \/ FreeConnection(p)
        PROVE  RememberedIsLast'
    BY <1>3, <1>4 DEF Find, TestIsSocket, Bind, Listen, Connect, Unlink, SendRequest, HandleRequest,
                      Quit, FreeConnection, OnlySockets, metadata
  <1>5. ASSUME NEW p \in Procs, Crash(p) PROVE RememberedIsLast'
    <2>1. ~manager[p].timer /\ file' = file /\ last' = last
          /\ manager' = [manager EXCEPT ![p] = NewManager]
      BY <1>5 DEF Crash
    <2>2. \A q \in Procs : manager'[q].timer = manager[q].timer
      BY <1>2, <2>1 DEF Types, Manager, NewManager
    <2>3. \A q \in Procs : manager'[q].loaded => manager'[q] = manager[q]
      BY <1>2, <2>1 DEF Types, NewManager
    <2> QED BY <1>2, <2>1, <2>2, <2>3 DEF RememberedIsLast, Remembered, InFile
  <1>6. ASSUME NEW p \in Procs, SaveMetadata(p) PROVE RememberedIsLast'
    <2>1. Save(p) /\ manager' = [manager EXCEPT ![p].timer = FALSE, ![p].items = file']
          /\ phase[p] \in Present /\ manager[p].loaded
      BY <1>2, <1>6 DEF SaveMetadata, ManagersAreNew
    <2>2. Remembered(file') = last'
      BY <1>2, <2>1, SaveRemembers DEF RememberedIsLast
    <2>3. \A q \in Procs \ {p} : manager'[q] = NewManager
      BY <1>2, <2>1, OnlyOneManager DEF Types
    <2>4. manager'[p].items = file' BY <1>2, <2>1 DEF Types, Manager
    <2>5. file' \in Store BY <1>2, <2>1, SaveKeepsTypes
    <2>6. InFile' = file' BY <2>5, NoFileIsNoStore DEF InFile
    <2> QED BY <2>2, <2>3, <2>4, <2>6 DEF RememberedIsLast, Remembered, NewManager
  <1>7. ASSUME NEW p \in Procs, ShutdownMetadata(p) PROVE RememberedIsLast'
    <2>1. manager' = [manager EXCEPT ![p] = NewManager] /\ phase[p] \in Present
      BY <1>7 DEF ShutdownMetadata
    <2>2. \A q \in Procs : manager'[q] = NewManager
      BY <1>2, <2>1, OnlyOneManager DEF Types
    <2>3. CASE manager[p].timer
      <3>1. Save(p) /\ manager[p].loaded
        BY <1>2, <1>7, <2>3 DEF ShutdownMetadata, SavesAtExit, ManagersAreNew
      <3>2. Remembered(file') = last' BY <1>2, <3>1, SaveRemembers DEF RememberedIsLast
      <3>3. InFile' = file' BY <1>2, <3>1, SaveKeepsTypes, NoFileIsNoStore DEF InFile
      <3> QED BY <2>2, <3>2, <3>3 DEF RememberedIsLast, Remembered, NewManager
    <2>4. CASE ~manager[p].timer
      <3>1. file' = file /\ last' = last BY <1>7, <2>4 DEF ShutdownMetadata, SavesAtExit
      <3>2. \A q \in Procs : ~manager[q].timer
        BY <1>2, <2>1, <2>4, OnlyOneManager DEF NewManager
      <3>3. Remembered(InFile) = last BY <1>2, <3>2 DEF RememberedIsLast
      <3> QED BY <2>2, <3>1, <3>3 DEF RememberedIsLast, Remembered, NewManager, InFile
    <2> QED BY <2>3, <2>4
  <1>8. ASSUME NEW p \in Procs, NEW uri \in Uris, Get(p, uri) PROVE RememberedIsLast'
    <2> DEFINE got == GetValue(manager[p], file, uri, now')
    <2>1. now' \in Nat /\ manager' = [manager EXCEPT ![p] = got] /\ phase[p] \in Present
          /\ file' = file /\ last' = last
      BY <1>2, <1>8 DEF Get, Access, Types
    <2>2. /\ got.timer = manager[p].timer /\ DOMAIN got.items = DOMAIN Known(manager[p])
          /\ \A u \in DOMAIN Known(manager[p]) : got.items[u].values = Known(manager[p])[u].values
      BY <1>2, <2>1, GetValueIs DEF Types, ManagersAreNew
    <2> HIDE DEF got
    <2>3. Remembered(got.items) = last
      BY <1>2, <2>1, <2>2, KnownIsLast DEF Remembered
    <2>4. \A q \in Procs \ {p} : manager'[q] = NewManager /\ manager[q] = NewManager
      BY <1>2, <2>1, OnlyOneManager DEF Types
    <2>5. manager'[p] = got BY <1>2, <2>1 DEF Types
    <2>6. \A q \in Procs : manager'[q].timer = manager[q].timer BY <2>2, <2>4, <2>5
    <2>7. \A q \in Procs : manager'[q].loaded => Remembered(manager'[q].items) = last
      BY <2>3, <2>4, <2>5 DEF NewManager
    <2> QED BY <1>2, <2>1, <2>6, <2>7 DEF RememberedIsLast, Remembered, InFile
  <1>9. ASSUME NEW p \in Procs, NEW uri \in Uris, NEW key \in Keys,
               NEW value \in Values \union {NoValue}, Set(p, uri, key, value)
        PROVE  RememberedIsLast'
    <2> DEFINE set == SetValue(manager[p], file, uri, key, value, now')
               items == Known(manager[p])
    <2>1. now' \in Nat /\ manager' = [manager EXCEPT ![p] = set] /\ phase[p] \in Present /\ file' = file
          /\ last' = IF Usable(manager[p], file) THEN [last EXCEPT ![uri][key] = value] ELSE last
      BY <1>2, <1>9 DEF Set, Access, Types
    <2>2. /\ Usable(manager[p], file) => IsSet(set, items, uri, key, value)
          /\ ~Usable(manager[p], file) => set.timer = manager[p].timer /\ set.items = items
      BY <1>2, <2>1, SetValueIs DEF Types, ManagersAreNew
    <2> HIDE DEF set, items
    <2>3. Remembered(items) = last BY <1>2, <2>1, KnownIsLast DEF items
    <2>4. \A q \in Procs \ {p} : manager'[q] = NewManager /\ manager[q] = NewManager
      BY <1>2, <2>1, OnlyOneManager DEF Types
    <2>5. manager'[p] = set BY <1>2, <2>1 DEF Types
    <2>6. CASE Usable(manager[p], file)
      <3>1. set.timer /\ DOMAIN set.items = DOMAIN items \union {uri} BY <2>2, <2>6 DEF IsSet
      <3>2. \A u \in Uris : last[u] = IF u \in DOMAIN items THEN items[u].values ELSE Nothing
        BY <2>3, Zenon DEF Remembered
      <3>3. \A u \in DOMAIN items \union {uri} :
               set.items[u].values = IF u = uri THEN [last[uri] EXCEPT ![key] = value]
                                     ELSE items[u].values
        BY <2>2, <2>6, <3>2 DEF IsSet
      <3>4. last' \in [Uris -> [Keys -> Values \union {NoValue}]]
            /\ \A u \in Uris : last'[u] = IF u = uri THEN [last[uri] EXCEPT ![key] = value] ELSE last[u]
        BY <1>2, <2>1, <2>6 DEF Types
      <3>5. Remembered(set.items) = last' BY <3>1, <3>2, <3>3, <3>4 DEF Remembered
      <3> QED BY <2>4, <2>5, <3>1, <3>5 DEF RememberedIsLast, Remembered, NewManager
    <2>7. CASE ~Usable(manager[p], file)
      <3>1. last' = last /\ set.timer = manager[p].timer /\ Remembered(set.items) = last
        BY <2>1, <2>2, <2>3, <2>7
      <3>2. \A q \in Procs : manager'[q].timer = manager[q].timer BY <2>4, <2>5, <3>1
      <3>3. \A q \in Procs : manager'[q].loaded => Remembered(manager'[q].items) = last
        BY <2>4, <2>5, <3>1 DEF NewManager
      <3> QED BY <1>2, <2>1, <3>1, <3>2, <3>3 DEF RememberedIsLast, Remembered, InFile
    <2> QED BY <2>6, <2>7
  <1>10. CASE UNCHANGED vars BY <1>3, <1>10 DEF vars, metadata
  <1> QED BY <1>4, <1>5, <1>6, <1>7, <1>8, <1>9, <1>10 DEF Next

-----------------------------------------------------------------------------

LEMMA Invariance == Spec => []IInv
  <1>1. Init => IInv
    <2> SUFFICES ASSUME Init PROVE IInv OBVIOUS
    <2>1. Types /\ Fits BY InitTypes
    <2>2. ManagersAreNew BY DEF Init, ManagersAreNew, NewManager
    <2>3. OneOfEach /\ OneSocket
      BY DEF Init, OneOfEach, OneSocket, NoneIsThere, NoSockets, Busy, Present, Starting, Running, Ending
    <2>4. Remembered(<<>>) = last BY EmptyStore DEF Init, Remembered
    <2>5. RememberedIsLast BY <2>4 DEF Init, RememberedIsLast, NewManager, InFile
    <2> QED BY <2>1, <2>2, <2>3, <2>5 DEF IInv
  <1>2. IInv /\ [Next]_vars => IInv'
    BY TypesKept, ManagersKept, SocketsKept, MetadataKept DEF IInv
  <1> QED BY <1>1, <1>2, PTL DEF Spec

\* For any number of processes, whenever they start, quit and crash: while they
\* start and end one at a time there is one server, whose socket a newcomer
\* finds, and what a process or the file remembers of a document is what has
\* been set since it was dropped (lapiz.c, bacon-message-connection.c and
\* lapiz-metadata-manager.c).
THEOREM ProcessesAgree == Spec => []InstancesAgree
  <1>1. IInv => InstancesAgree
    <2> SUFFICES ASSUME IInv PROVE InstancesAgree OBVIOUS
    <2> USE DEF Phases, Starting, Running, Ending, Present
    <2>1. TypeOK BY DEF IInv, Types, Fits, TypeOK
    <2>2. OneServer
      <3> SUFFICES ASSUME ~hurried, NEW p \in Procs, phase[p] = "server"
                   PROVE  /\ \A q \in Procs : phase[q] \in Running => p = q
                          /\ tmp[path[p]] = p
                          /\ \A r \in Procs : tmp[r] = Nobody \/ r = path[p]
        BY DEF OneServer
      <3>1. OneOfEach /\ OneSocket /\ path[p] \in Procs BY DEF IInv, Types, Fits
      <3>2. tmp[path[p]] = p BY <3>1 DEF OneSocket
      <3> QED BY <3>1, <3>2 DEF OneOfEach, OneSocket
    <2>3. MetadataAreCurrent
      <3> SUFFICES ASSUME ~hurried, ~damaged
                   PROVE  /\ \A p \in Procs : manager[p].loaded => Remembered(manager[p].items) = last
                          /\ file # NoFile /\ (\A p \in Procs : phase[p] = "off")
                                => Remembered(file) = last
        BY DEF MetadataAreCurrent
      <3>1. RememberedIsLast /\ ManagersAreNew BY DEF IInv
      <3>2. (\A p \in Procs : phase[p] = "off") => \A p \in Procs : ~manager[p].timer
        BY <3>1 DEF ManagersAreNew, NewManager
      <3> QED BY <3>1, <3>2 DEF RememberedIsLast, InFile
    <2> QED BY <2>1, <2>2, <2>3 DEF InstancesAgree
  <1> QED BY <1>1, Invariance, PTL

\* Whenever the metadata do not fit, those that have not been used for longest
\* are dropped (resize_items and get_oldest).
THEOREM TheOldestAreDropped == Spec => OldestGoFirst
  <1> DEFINE Step == \A p \in Procs : SaveMetadata(p) =>
                 \A u \in DOMAIN manager[p].items \ DOMAIN file', v \in DOMAIN file' :
                    manager[p].items[u].atime <= manager[p].items[v].atime
  <1>1. IInv /\ [Next]_vars => [Step]_vars
    <2> SUFFICES ASSUME IInv, NEW p \in Procs, SaveMetadata(p),
                        NEW u \in DOMAIN manager[p].items \ DOMAIN file', NEW v \in DOMAIN file'
                 PROVE  manager[p].items[u].atime <= manager[p].items[v].atime
      OBVIOUS
    <2>1. manager[p].items \in Store /\ file' \in Resized(manager[p].items)
      BY DEF IInv, Types, Manager, SaveMetadata, Save
    <2>2. \A all \in Store : \A kept \in Resized(all) :
             \A x \in DOMAIN all \ DOMAIN kept, y \in DOMAIN kept : all[x].atime <= all[y].atime
      BY ResizedFits
    <2> QED BY <2>1, <2>2
  <1> QED BY <1>1, Invariance, PTL DEF Spec, OldestGoFirst
=============================================================================
