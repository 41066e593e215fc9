-------------------------- MODULE MessageBusProofs --------------------------
(* Proofs about MessageBus, for any number of identifiers, listeners and     *)
(* messages and any height of the call stack: what listeners do while they   *)
(* are called leaves nobody out, and queued messages come in their order.    *)
EXTENDS MessageBus, SequenceLemmas

USE DepthAssumption

-----------------------------------------------------------------------------
(***************************************************************************)
(* The inductive invariant.                                                *)
(***************************************************************************)

Listener == [id : Nat \ {0}, func : Funcs]
Messages == [n : Nat \ {0}, of : Identifiers]
Drains   == [kind : {"drain"}, batch : Seq(Messages), at : Nat]
Dispatches == [kind : {"dispatch"}, msg : Messages, item : Nat, due : SUBSET Nat, called : Seq(Nat)]

Types ==
    /\ types \subseteq Identifiers
    /\ listeners \in [Identifiers -> Seq(Listener)]
    /\ blocked \subseteq Nat /\ nextId \in Nat
    /\ queue \in Seq(Messages) /\ idleId \in BOOLEAN /\ idle \in BOOLEAN
    /\ stack \in Seq(Drains \union Dispatches)
    /\ sent \in Nat /\ started \in Seq(Nat) /\ severed \in BOOLEAN

\* Listeners are in the order of their ids, which are never used again.
InOrder ==
    /\ \A i \in Identifiers : \A k \in DOMAIN listeners[i] :
          /\ listeners[i][k].id <= nextId
          /\ \A j \in 1..(k - 1) : listeners[i][j].id < listeners[i][k].id
    /\ \A i, j \in Identifiers : i # j => Ids(i) \intersect Ids(j) = {}
    /\ blocked \subseteq AllIds

\* A dispatch has called, in the order of their ids, the listeners up to the one
\* it is at: all of them that have been there the whole time.
CallsInOrder(f) ==
    /\ f.item # None => f.item \in Ids(f.msg.of)
    /\ f.due \subseteq Ids(f.msg.of) \ blocked
    /\ \A k \in DOMAIN f.called :
          /\ f.item # None => f.called[k] <= f.item
          /\ f.called[k] \in 1..nextId
          /\ \A j \in 1..(k - 1) : f.called[j] < f.called[k]
    /\ f.item # None => \A d \in f.due : d <= f.item => d \in Range(f.called)
    /\ f.item = None /\ ~severed => f.due \subseteq Range(f.called)

\* Messages that wait, or have waited, are numbered in the order in which they
\* were sent, from the outermost drain to the end of the queue, and a drain has
\* started those it is past.
WaitInOrder ==
    /\ \A k \in DOMAIN queue : queue[k].n <= sent /\ \A j \in 1..(k - 1) : queue[k].n < queue[j].n
    /\ \A k \in DOMAIN started : started[k] \in 1..sent /\ \A j \in DOMAIN queue : started[k] < queue[j].n
    /\ \A j, k \in DOMAIN started : started[j] = started[k] => j = k

DrainsInOrder(f) ==
    /\ f.at <= Len(f.batch)
    /\ \A k \in DOMAIN f.batch :
          /\ f.batch[k].n <= sent
          /\ \A j \in 1..(k - 1) : f.batch[j].n < f.batch[k].n
          /\ \A j \in DOMAIN queue : f.batch[k].n < queue[j].n
          /\ f.batch[k].n \in Range(started) <=> k <= f.at

StackInOrder ==
    /\ Len(stack) <= MaxDepth
    /\ \A k \in DOMAIN stack :
          IF stack[k].kind = "drain"
          THEN /\ k < MaxDepth /\ DrainsInOrder(stack[k])
               /\ \A j \in 1..(k - 1) : stack[j].kind = "drain" =>
                     \A x \in DOMAIN stack[j].batch, y \in DOMAIN stack[k].batch :
                        stack[j].batch[x].n < stack[k].batch[y].n
          ELSE CallsInOrder(stack[k])

Scheduled == (idleId => idle) /\ (queue # <<>> => idleId)

IInv == Types /\ InOrder /\ WaitInOrder /\ StackInOrder /\ Scheduled

-----------------------------------------------------------------------------
(***************************************************************************)
(* What the parts of the state are.                                        *)
(***************************************************************************)

LEMMA ListenersAre ==
    ASSUME Types, NEW i \in Identifiers
    PROVE  /\ listeners[i] \in Seq(Listener) /\ Len(listeners[i]) \in Nat
           /\ DOMAIN listeners[i] = 1..Len(listeners[i])
           /\ \A k \in 1..Len(listeners[i]) : /\ listeners[i][k] \in Listener
                                              /\ listeners[i][k].id \in Nat \ {0}
           /\ Ids(i) \subseteq Nat \ {0}
  <1>1. listeners[i] \in Seq(Listener) BY DEF Types
  <1>2. /\ Len(listeners[i]) \in Nat /\ DOMAIN listeners[i] = 1..Len(listeners[i])
        /\ \A k \in 1..Len(listeners[i]) : listeners[i][k] \in Listener
    BY <1>1, LenProperties
  <1> QED BY <1>1, <1>2 DEF Listener, Ids

LEMMA StackIs ==
    ASSUME Types
    PROVE  /\ Len(stack) \in Nat /\ DOMAIN stack = 1..Len(stack)
           /\ \A k \in 1..Len(stack) :
                 /\ stack[k] \in Drains \union Dispatches
                 /\ stack[k].kind = "drain" => stack[k] \in Drains
                 /\ stack[k].kind # "drain" => stack[k] \in Dispatches
           /\ stack # <<>> => Len(stack) \in 1..Len(stack) /\ Top = stack[Len(stack)]
  <1>1. stack \in Seq(Drains \union Dispatches) BY DEF Types
  <1>2. /\ Len(stack) \in Nat /\ DOMAIN stack = 1..Len(stack)
        /\ \A k \in 1..Len(stack) : stack[k] \in Drains \union Dispatches
        /\ stack # <<>> => Len(stack) \in Nat \ {0}
    BY <1>1, LenProperties, EmptySeq
  <1>3. \A f \in Drains \union Dispatches : /\ f.kind = "drain" => f \in Drains
                                            /\ f.kind # "drain" => f \in Dispatches
    BY DEF Drains, Dispatches
  <1> QED BY <1>2, <1>3 DEF Top, Last

LEMMA DrainIs ==
    ASSUME NEW f \in Drains
    PROVE  /\ Len(f.batch) \in Nat /\ DOMAIN f.batch = 1..Len(f.batch) /\ f.at \in Nat
           /\ f.kind = "drain" /\ f.batch \in Seq(Messages)
           /\ \A k \in 1..Len(f.batch) : f.batch[k] \in Messages /\ f.batch[k].n \in Nat \ {0}
  <1>1. f.batch \in Seq(Messages) /\ f.at \in Nat /\ f.kind = "drain" BY DEF Drains
  <1>2. \A k \in 1..Len(f.batch) : f.batch[k] \in Messages BY <1>1, LenProperties
  <1> QED BY <1>1, <1>2, LenProperties DEF Messages

LEMMA QueueIs ==
    ASSUME Types
    PROVE  /\ Len(queue) \in Nat /\ DOMAIN queue = 1..Len(queue)
           /\ \A k \in 1..Len(queue) : queue[k] \in Messages /\ queue[k].n \in Nat \ {0}
           /\ Len(started) \in Nat /\ DOMAIN started = 1..Len(started)
           /\ \A k \in 1..Len(started) : started[k] \in Nat
  <1>1. queue \in Seq(Messages) /\ started \in Seq(Nat) BY DEF Types
  <1>2. \A k \in 1..Len(queue) : queue[k] \in Messages BY <1>1, LenProperties
  <1> QED BY <1>1, <1>2, LenProperties DEF Messages

\* A listener has one place among those of its identifier.
LEMMA IdsAreOrdered ==
    ASSUME Types, InOrder, NEW i \in Identifiers
    PROVE  \A j, k \in 1..Len(listeners[i]) :
              /\ j < k => listeners[i][j].id < listeners[i][k].id
              /\ listeners[i][j].id = listeners[i][k].id => j = k
              /\ listeners[i][j].id < listeners[i][k].id => j < k
  <1>1. \A j, k \in 1..Len(listeners[i]) : j < k => listeners[i][j].id < listeners[i][k].id
    BY ListenersAre DEF InOrder
  <1> SUFFICES ASSUME NEW j \in 1..Len(listeners[i]), NEW k \in 1..Len(listeners[i])
               PROVE  /\ listeners[i][j].id = listeners[i][k].id => j = k
                      /\ listeners[i][j].id < listeners[i][k].id => j < k
    BY <1>1
  <1>2. listeners[i][j].id \in Nat /\ listeners[i][k].id \in Nat /\ j \in Nat /\ k \in Nat
    BY ListenersAre
  <1>3. j < k \/ j = k \/ k < j BY <1>2
  <1> QED BY <1>1, <1>2, <1>3

-----------------------------------------------------------------------------
(***************************************************************************)
(* The loop of dispatch_message_real.                                      *)
(***************************************************************************)

LEMMA NextFromIs ==
    ASSUME Types, NEW i \in Identifiers, NEW k \in Nat \ {0}
    PROVE  \/ /\ NextFrom(i, k) = None
              /\ \A j \in k..Len(listeners[i]) : listeners[i][j].id \in blocked
           \/ \E j \in k..Len(listeners[i]) :
                 /\ NextFrom(i, k) = listeners[i][j].id /\ listeners[i][j].id \notin blocked
                 /\ \A m \in k..(j - 1) : listeners[i][m].id \in blocked
  <1> DEFINE there == {j \in k..Len(listeners[i]) : listeners[i][j].id \notin blocked}
  <1>1. CASE there = {} BY <1>1 DEF NextFrom
  <1>2. CASE there # {}
    <2>1. there \in SUBSET Nat BY ListenersAre
    <2>2. Min(there) \in there /\ \A y \in there : Min(there) <= y
      <3> HIDE DEF there
      <3> SUFFICES ASSUME NEW T \in SUBSET Nat, T # {}
                   PROVE  Min(T) \in T /\ \A y \in T : Min(T) <= y
        BY <1>2, <2>1
      <3> QED BY MinIsLeast
    <2>3. NextFrom(i, k) = listeners[i][Min(there)].id BY <1>2 DEF NextFrom
    <2>4. \A m \in k..(Min(there) - 1) : listeners[i][m].id \in blocked
      BY <2>2, ListenersAre
    <2> QED BY <2>2, <2>3, <2>4
  <1> QED BY <1>1, <1>2

\* In terms of ids: the next one that is called is the next one that is not
\* blocked.
LEMMA NextIsNext ==
    ASSUME Types, InOrder, NEW i \in Identifiers, NEW k \in Nat \ {0},
           NEW l \in Nat, \A j \in 1..Len(listeners[i]) : j < k <=> listeners[i][j].id <= l
    PROVE  /\ NextFrom(i, k) # None => /\ NextFrom(i, k) \in Ids(i) \ blocked
                                       /\ NextFrom(i, k) > l /\ NextFrom(i, k) \in 1..nextId
           /\ \A d \in Ids(i) \ blocked : d > l => NextFrom(i, k) # None /\ NextFrom(i, k) <= d
           /\ NextFrom(i, k) \in Nat
  <1>1. CASE /\ NextFrom(i, k) = None
             /\ \A j \in k..Len(listeners[i]) : listeners[i][j].id \in blocked
    <2>1. ASSUME NEW d \in Ids(i) \ blocked, d > l PROVE FALSE
      <3>1. PICK j \in 1..Len(listeners[i]) : d = listeners[i][j].id BY <2>1, ListenersAre DEF Ids
      <3>2. ~(j < k) BY <2>1, <3>1, ListenersAre
      <3>3. j \in k..Len(listeners[i]) BY <3>1, <3>2, ListenersAre
      <3> QED BY <1>1, <2>1, <3>1, <3>3
    <2> QED BY <1>1, <2>1 DEF None
  <1>2. ASSUME NEW j \in k..Len(listeners[i]),
               NextFrom(i, k) = listeners[i][j].id, listeners[i][j].id \notin blocked,
               \A m \in k..(j - 1) : listeners[i][m].id \in blocked
        PROVE  /\ NextFrom(i, k) \in Ids(i) \ blocked
               /\ NextFrom(i, k) > l /\ NextFrom(i, k) \in 1..nextId /\ NextFrom(i, k) # None
               /\ \A d \in Ids(i) \ blocked : d > l => NextFrom(i, k) <= d
    <2>1. j \in 1..Len(listeners[i]) /\ ~(j < k) BY ListenersAre
    <2>2. listeners[i][j].id \in Nat \ {0} /\ listeners[i][j].id > l BY <2>1, ListenersAre
    <2>3. NextFrom(i, k) \in Ids(i) \ blocked BY <1>2, <2>1, ListenersAre DEF Ids
    <2>4. listeners[i][j].id <= nextId /\ nextId \in Nat BY <2>1, ListenersAre DEF InOrder, Types
    <2>5. ASSUME NEW d \in Ids(i) \ blocked, d > l PROVE NextFrom(i, k) <= d
      <3>1. PICK m \in 1..Len(listeners[i]) : d = listeners[i][m].id BY <2>5, ListenersAre DEF Ids
      <3>2. ~(m < k) BY <2>5, <3>1, ListenersAre
      <3>3. m \notin k..(j - 1) BY <1>2, <2>5, <3>1
      <3>4. j = m \/ j < m BY <2>1, <3>1, <3>2, <3>3, ListenersAre
      <3>5. listeners[i][j].id = listeners[i][m].id \/ listeners[i][j].id < listeners[i][m].id
        BY <2>1, <3>4, IdsAreOrdered
      <3> QED BY <1>2, <2>2, <3>1, <3>5, ListenersAre
    <2> QED BY <1>2, <2>2, <2>3, <2>4, <2>5 DEF None
  <1>3. NextFrom(i, k) # None => NextFrom(i, k) \in Nat BY <1>1, <1>2, NextFromIs
  <1> QED BY <1>1, <1>2, <1>3, NextFromIs DEF None

\* A dispatch that begins has called the first listener that is not blocked.
LEMMA BeginDispatchIs ==
    ASSUME Types, InOrder, NEW m \in Messages
    PROVE  BeginDispatch(m) \in Dispatches /\ CallsInOrder(BeginDispatch(m))
  <1> DEFINE i == m.of
             first == NextFrom(i, 1)
             due == Ids(i) \ blocked
             called == IF first = None THEN <<>> ELSE <<first>>
  <1>1. i \in Identifiers BY DEF Messages
  <1>2. \A j \in 1..Len(listeners[i]) : j < 1 <=> listeners[i][j].id <= 0 BY <1>1, ListenersAre
  <1>3. /\ first # None => first \in Ids(i) \ blocked /\ first \in 1..nextId
        /\ \A d \in due : d > 0 => first # None /\ first <= d
        /\ first \in Nat
    <2>1. 1 \in Nat \ {0} /\ 0 \in Nat OBVIOUS
    <2> HIDE DEF i
    <2> QED BY <1>1, <1>2, <2>1, NextIsNext
  <1>4. due \subseteq Nat \ {0} BY <1>1, ListenersAre
  <1> HIDE DEF first, due, i
  <1>5. BeginDispatch(m) = [kind |-> "dispatch", msg |-> m, item |-> first, due |-> due, called |-> called]
    <2> DEFINE frame == [kind |-> "dispatch", msg |-> m, item |-> first, due |-> due, called |-> <<>>]
    <2>1. BeginDispatch(m) = [frame EXCEPT !.called = called]
      BY DEF BeginDispatch, Dispatch, first, due, i
    <2> HIDE DEF called
    <2> QED BY <2>1
  <1>6. called \in Seq(Nat) /\ Range(called) = IF first = None THEN {} ELSE {first}
    BY <1>3 DEF Range
  <1>7. BeginDispatch(m) \in Dispatches BY <1>3, <1>4, <1>5, <1>6 DEF Dispatches
  <1>8. DOMAIN called = IF first = None THEN {} ELSE {1} OBVIOUS
  <1>9. \A d \in due : d \in Range(called) \/ (first # None /\ ~(d <= first))
    BY <1>3, <1>4, <1>6
  <1>10. due \subseteq Ids(m.of) \ blocked BY DEF due, i
  <1> QED BY <1>3, <1>5, <1>6, <1>7, <1>8, <1>9, <1>10 DEF CallsInOrder, None, i

\* The loop goes on from the listener it has called.
LEMMA OnwardIs ==
    ASSUME Types, InOrder, NEW f \in Dispatches, CallsInOrder(f), f.item # None,
           NEW here \in DOMAIN listeners[f.msg.of], listeners[f.msg.of][here].id = f.item
    PROVE  LET next == NextFrom(f.msg.of, here + 1)
           IN  Onward(f, next) \in Dispatches /\ CallsInOrder(Onward(f, next))
  <1> DEFINE i == f.msg.of
             next == NextFrom(f.msg.of, here + 1)
             called == IF next = None THEN f.called ELSE Append(f.called, next)
             g == Onward(f, next)
  <1>1. i \in Identifiers BY DEF Dispatches, Messages
  <1>2. here \in 1..Len(listeners[i]) /\ f.item \in Nat BY <1>1, ListenersAre DEF Dispatches
  <1>3. \A j \in 1..Len(listeners[i]) : j < here + 1 <=> listeners[i][j].id <= f.item
    <2> SUFFICES ASSUME NEW j \in 1..Len(listeners[i])
                 PROVE  j < here + 1 <=> listeners[i][j].id <= listeners[i][here].id
      OBVIOUS
    <2>1. j \in Nat /\ here \in Nat /\ listeners[i][j].id \in Nat /\ listeners[i][here].id \in Nat
      BY <1>1, <1>2, ListenersAre
    <2>2. j < here \/ j = here \/ here < j BY <2>1
    <2>3. /\ j < here => listeners[i][j].id < listeners[i][here].id
          /\ here < j => listeners[i][here].id < listeners[i][j].id
      BY <1>1, <1>2, IdsAreOrdered
    <2> QED BY <2>1, <2>2, <2>3
  <1>4. /\ next # None => next \in Ids(i) \ blocked /\ next > f.item /\ next \in 1..nextId
        /\ \A d \in Ids(i) \ blocked : d > f.item => next # None /\ next <= d
        /\ next \in Nat
    <2>1. here + 1 \in Nat \ {0} BY <1>2
    <2> QED BY <1>1, <1>2, <1>3, <2>1, NextIsNext
  <1> HIDE DEF next
  <1>5. f.called \in Seq(Nat) /\ Len(f.called) \in Nat /\ DOMAIN f.called = 1..Len(f.called)
        /\ \A k \in 1..Len(f.called) : f.called[k] \in Nat
    BY LenProperties DEF Dispatches
  <1>6. called \in Seq(Nat) BY <1>4, <1>5
  <1>7. g = [f EXCEPT !.item = next, !.called = called] BY DEF Onward
  <1>8. g \in Dispatches /\ g.item = next /\ g.called = called /\ g.due = f.due /\ g.msg = f.msg
    BY <1>4, <1>6, <1>7 DEF Dispatches
  <1>9. ASSUME next = None PROVE CallsInOrder(g)
    <2>1. called = f.called BY <1>9
    <2>2. \A d \in f.due : d \in Range(f.called)
      <3> SUFFICES ASSUME NEW d \in f.due PROVE d \in Range(f.called) OBVIOUS
      <3>1. d \in Ids(i) \ blocked /\ d \in Nat BY DEF CallsInOrder, Dispatches
      <3>2. d <= f.item BY <1>2, <1>4, <1>9, <3>1
      <3> QED BY <3>2 DEF CallsInOrder
    <2>3. \A k \in DOMAIN called : called[k] \in 1..nextId /\ \A j \in 1..(k - 1) : called[j] < called[k]
      BY <2>1 DEF CallsInOrder
    <2>4. f.due \subseteq Ids(f.msg.of) \ blocked BY DEF CallsInOrder
    <2> HIDE DEF g, called
    <2> QED BY <1>8, <1>9, <2>1, <2>2, <2>3, <2>4 DEF CallsInOrder
  <1>10. ASSUME next # None PROVE CallsInOrder(g)
    <2>1. /\ Len(called) = Len(f.called) + 1 /\ DOMAIN called = 1..(Len(f.called) + 1)
          /\ \A k \in 1..Len(f.called) : called[k] = f.called[k]
          /\ called[Len(f.called) + 1] = next
      BY <1>4, <1>5, <1>10
    <2>2. \A k \in 1..Len(f.called) : /\ f.called[k] <= f.item /\ f.called[k] \in 1..nextId
                                      /\ \A j \in 1..(k - 1) : f.called[j] < f.called[k]
      BY <1>5 DEF CallsInOrder
    <2>3. \A k \in DOMAIN called : /\ called[k] <= next /\ called[k] \in 1..nextId
                                   /\ \A j \in 1..(k - 1) : called[j] < called[k]
      <3> SUFFICES ASSUME NEW k \in 1..(Len(f.called) + 1)
                   PROVE  /\ called[k] <= next /\ called[k] \in 1..nextId
                          /\ \A j \in 1..(k - 1) : called[j] < called[k]
        BY <2>1
      <3> HIDE DEF called
      <3>1. next > f.item /\ next \in 1..nextId BY <1>4, <1>10
      <3>2. CASE k <= Len(f.called)
        <4>1. k \in 1..Len(f.called) /\ 1..(k - 1) \subseteq 1..Len(f.called) BY <1>5, <3>2
        <4>2. called[k] = f.called[k] /\ \A j \in 1..(k - 1) : called[j] = f.called[j] BY <2>1, <4>1
        <4>3. f.called[k] <= next BY <1>2, <1>4, <1>5, <2>2, <3>1, <4>1
        <4> QED BY <2>2, <4>1, <4>2, <4>3
      <3>3. CASE k = Len(f.called) + 1
        <4>1. called[k] = next /\ \A j \in 1..(k - 1) : j \in 1..Len(f.called) /\ called[j] = f.called[j]
          BY <1>5, <2>1, <3>3
        <4>2. \A j \in 1..Len(f.called) : f.called[j] < next BY <1>2, <1>4, <1>5, <2>2, <3>1
        <4> QED BY <1>4, <3>1, <4>1, <4>2
      <3> QED BY <1>5, <3>2, <3>3
    <2>4. \A d \in f.due : d <= next => d \in Range(called)
      <3> SUFFICES ASSUME NEW d \in f.due, d <= next PROVE d \in Range(called) OBVIOUS
      <3>1. d \in Ids(i) \ blocked /\ d \in Nat BY DEF CallsInOrder, Dispatches
      <3>2. CASE d <= f.item
        <4>1. d \in Range(f.called) BY <3>2 DEF CallsInOrder
        <4>2. PICK k \in 1..Len(f.called) : d = f.called[k] BY <1>5, <4>1 DEF Range
        <4>3. k \in DOMAIN called /\ called[k] = d BY <1>5, <2>1, <4>2
        <4> QED BY <4>3 DEF Range
      <3>3. CASE ~(d <= f.item)
        <4>1. next <= d BY <1>2, <1>4, <3>1, <3>3
        <4>2. d = next BY <1>4, <3>1, <4>1
        <4>3. Len(f.called) + 1 \in DOMAIN called BY <1>5, <2>1
        <4> QED BY <2>1, <4>2, <4>3 DEF Range
      <3> QED BY <3>2, <3>3
    <2>5. f.due \subseteq Ids(f.msg.of) \ blocked BY DEF CallsInOrder
    <2> HIDE DEF g, called
    <2> QED BY <1>4, <1>8, <1>10, <2>3, <2>4, <2>5 DEF CallsInOrder
  <1>11. g \in Dispatches /\ CallsInOrder(g) BY <1>8, <1>9, <1>10
  <1> HIDE DEF g
  <1> QED BY <1>11 DEF next, g

-----------------------------------------------------------------------------
(***************************************************************************)
(* What steps leave alone.                                                 *)
(***************************************************************************)

LEMMA RegistryKept ==
    ASSUME UNCHANGED <<listeners, blocked, nextId>>
    PROVE  /\ InOrder => InOrder'
           /\ \A i \in Identifiers : Ids(i)' = Ids(i)
           /\ \A f \in Dispatches : severed' = severed /\ CallsInOrder(f) => CallsInOrder(f)'
  <1>1. listeners' = listeners /\ blocked' = blocked /\ nextId' = nextId OBVIOUS
  <1>2. \A i \in Identifiers : Ids(i)' = Ids(i) BY <1>1 DEF Ids
  <1>3. AllIds' = AllIds BY <1>2 DEF AllIds
  <1>4. InOrder => InOrder' BY <1>1, <1>2, <1>3 DEF InOrder
  <1>5. ASSUME NEW f \in Dispatches, severed' = severed, CallsInOrder(f) PROVE CallsInOrder(f)'
    <2>1. Ids(f.msg.of)' = Ids(f.msg.of) BY <1>1 DEF Ids
    <2> QED BY <1>1, <1>5, <2>1 DEF CallsInOrder
  <1> QED BY <1>2, <1>4, <1>5

LEMMA QueueKept ==
    ASSUME UNCHANGED <<queue, sent, started>>
    PROVE  /\ WaitInOrder => WaitInOrder'
           /\ \A f : DrainsInOrder(f) => DrainsInOrder(f)'
  BY DEF WaitInOrder, DrainsInOrder

LEMMA StackKept ==
    ASSUME Types, StackInOrder, UNCHANGED stack,
           \A f \in Dispatches : CallsInOrder(f) => CallsInOrder(f)',
           \A f \in Drains : DrainsInOrder(f) => DrainsInOrder(f)'
    PROVE  StackInOrder'
  <1>1. \A k \in DOMAIN stack : IF stack[k].kind = "drain" THEN stack[k] \in Drains
                                ELSE stack[k] \in Dispatches
    BY StackIs
  <1>2. \A k \in DOMAIN stack' :
          IF stack'[k].kind = "drain" THEN DrainsInOrder(stack[k])' ELSE CallsInOrder(stack[k])'
    <2> SUFFICES ASSUME NEW k \in DOMAIN stack
                 PROVE  IF stack[k].kind = "drain" THEN DrainsInOrder(stack[k])' ELSE CallsInOrder(stack[k])'
      OBVIOUS
    <2>1. \A f \in Dispatches : f = stack[k] /\ CallsInOrder(stack[k]) => CallsInOrder(f)' OBVIOUS
    <2> QED BY <1>1 DEF StackInOrder
  <1> QED BY <1>2 DEF StackInOrder

-----------------------------------------------------------------------------
(***************************************************************************)
(* Registration of types, and listeners.                                   *)
(***************************************************************************)

LEMMA TypesOnly ==
    ASSUME IInv, types' \subseteq Identifiers,
           UNCHANGED <<listeners, blocked, nextId, queue, idleId, idle, stack, sent, started, severed>>
    PROVE  IInv'
  <1>1. Types' BY DEF IInv, Types
  <1>2. InOrder' /\ WaitInOrder' BY RegistryKept, QueueKept DEF IInv
  <1>3. StackInOrder' BY RegistryKept, QueueKept, StackKept DEF IInv
  <1>4. Scheduled' BY DEF IInv, Scheduled
  <1> QED BY <1>1, <1>2, <1>3, <1>4 DEF IInv

LEMMA UnblockKeeps == ASSUME IInv, NEW l, Unblock(l) PROVE IInv'
  <1>1. Types' BY DEF IInv, Types, Unblock
  <1>2. \A i \in Identifiers : Ids(i)' = Ids(i) BY DEF Unblock, Ids
  <1>3. InOrder' BY <1>2 DEF IInv, InOrder, Unblock, AllIds
  <1>4. \A f \in Dispatches : CallsInOrder(f) => CallsInOrder(f)'
    <2> SUFFICES ASSUME NEW f \in Dispatches, CallsInOrder(f) PROVE CallsInOrder(f)' OBVIOUS
    <2>1. f.msg.of \in Identifiers BY DEF Dispatches, Messages
    <2>2. blocked' \subseteq blocked /\ nextId' = nextId /\ severed' = severed BY DEF Unblock
    <2> QED BY <1>2, <2>1, <2>2 DEF CallsInOrder
  <1>5. WaitInOrder' /\ \A f : DrainsInOrder(f) => DrainsInOrder(f)' BY QueueKept DEF IInv, Unblock
  <1>6. StackInOrder' BY <1>4, <1>5, StackKept DEF IInv, Unblock
  <1>7. Scheduled' BY DEF IInv, Scheduled, Unblock
  <1> QED BY <1>1, <1>3, <1>5, <1>6, <1>7 DEF IInv

LEMMA ConnectKeeps == ASSUME IInv, NEW i \in Identifiers, NEW func \in Funcs, Connect(i, func) PROVE IInv'
  <1> DEFINE new == [id |-> nextId + 1, func |-> func]
  <1>1. /\ nextId \in Nat /\ nextId' = nextId + 1 /\ new \in Listener
        /\ listeners' = [listeners EXCEPT ![i] = Append(@, new)]
        /\ UNCHANGED <<types, blocked, queue, idleId, idle, stack, sent, started, severed>>
    BY DEF Connect, IInv, Types, Listener
  <1> HIDE DEF new
  <1>2. Types' BY <1>1 DEF IInv, Types
  <1>3. \A j \in Identifiers \ {i} : listeners'[j] = listeners[j] BY <1>1 DEF IInv, Types
  <1>4. listeners'[i] = Append(listeners[i], new) BY <1>1 DEF IInv, Types
  <1>5. /\ Len(listeners'[i]) = Len(listeners[i]) + 1 /\ listeners'[i][Len(listeners[i]) + 1] = new
        /\ \A k \in 1..Len(listeners[i]) : listeners'[i][k] = listeners[i][k]
        /\ DOMAIN listeners'[i] = 1..(Len(listeners[i]) + 1) /\ Len(listeners[i]) \in Nat
        /\ DOMAIN listeners[i] = 1..Len(listeners[i])
    <2>1. Types BY DEF IInv
    <2>2. listeners[i] \in Seq(Listener) BY <2>1, ListenersAre
    <2> HIDE DEF IInv
    <2> QED BY <1>1, <1>4, <2>1, <2>2, ListenersAre, AppendProperties, LenProperties
  <1>6. new.id = nextId + 1 BY DEF new
  <1>7. Ids(i)' = Ids(i) \union {nextId + 1}
    BY <1>5, <1>6 DEF Ids
  <1>8. \A j \in Identifiers \ {i} : Ids(j)' = Ids(j) BY <1>3 DEF Ids
  <1>9. \A j \in Identifiers : Ids(j) \subseteq 1..nextId
    BY ListenersAre DEF IInv, InOrder, Ids
  <1>10. InOrder'
    <2>1. \A j \in Identifiers : \A k \in DOMAIN listeners[j] :
             /\ listeners[j][k].id <= nextId
             /\ \A m \in 1..(k - 1) : listeners[j][m].id < listeners[j][k].id
      BY DEF IInv, InOrder
    <2>2. \A j \in Identifiers : \A k \in DOMAIN listeners[j] : listeners[j][k].id \in Nat
      BY ListenersAre DEF IInv
    <2>3. \A k \in DOMAIN listeners'[i] :
             /\ listeners'[i][k].id <= nextId'
             /\ \A m \in 1..(k - 1) : listeners'[i][m].id < listeners'[i][k].id
      <3> SUFFICES ASSUME NEW k \in 1..(Len(listeners[i]) + 1)
                   PROVE  /\ listeners'[i][k].id <= nextId'
                          /\ \A m \in 1..(k - 1) : listeners'[i][m].id < listeners'[i][k].id
        BY <1>5
      <3>1. \A m \in 1..(k - 1) : m \in 1..Len(listeners[i]) /\ listeners'[i][m] = listeners[i][m]
        BY <1>5
      <3>2. CASE k \in 1..Len(listeners[i]) BY <1>1, <1>5, <2>1, <2>2, <3>1, <3>2
      <3>3. CASE k = Len(listeners[i]) + 1 BY <1>1, <1>5, <1>6, <2>1, <2>2, <3>1, <3>3
      <3> QED BY <1>5, <3>2, <3>3
    <2>4. \A j \in Identifiers \ {i} : \A k \in DOMAIN listeners'[j] :
             /\ listeners'[j][k].id <= nextId'
             /\ \A m \in 1..(k - 1) : listeners'[j][m].id < listeners'[j][k].id
      BY <1>1, <1>3, <2>1, <2>2
    <2>5. \A j, k \in Identifiers : j # k => Ids(j)' \intersect Ids(k)' = {}
      <3>1. nextId + 1 \notin 1..nextId BY <1>1
      <3>2. \A j, k \in Identifiers : j # k => Ids(j) \intersect Ids(k) = {} BY DEF IInv, InOrder
      <3> QED BY <1>7, <1>8, <1>9, <3>1, <3>2
    <2>6. blocked' \subseteq AllIds'
      <3>1. blocked \subseteq AllIds BY DEF IInv, InOrder
      <3> QED BY <1>1, <1>7, <1>8, <3>1 DEF AllIds
    <2> QED BY <2>3, <2>4, <2>5, <2>6 DEF InOrder
  <1>11. \A f \in Dispatches : CallsInOrder(f) => CallsInOrder(f)'
    <2> SUFFICES ASSUME NEW f \in Dispatches, CallsInOrder(f) PROVE CallsInOrder(f)' OBVIOUS
    <2>1. Ids(f.msg.of) \subseteq Ids(f.msg.of)'
      BY <1>7, <1>8 DEF Dispatches, Messages
    <2>2. 1..nextId \subseteq 1..nextId' BY <1>1
    <2> QED BY <1>1, <2>1, <2>2 DEF CallsInOrder
  <1>12. WaitInOrder' /\ \A f : DrainsInOrder(f) => DrainsInOrder(f)' BY <1>1, QueueKept DEF IInv
  <1>13. StackInOrder' BY <1>1, <1>11, <1>12, StackKept DEF IInv
  <1>14. Scheduled' BY <1>1 DEF IInv, Scheduled
  <1> QED BY <1>2, <1>10, <1>12, <1>13, <1>14 DEF IInv

\* Frames that change where they are: every call in progress becomes another one.
LEMMA FramesChange ==
    ASSUME Types, StackInOrder, NEW g, g \in [DOMAIN stack -> Drains \union Dispatches], stack' = g,
           \A k \in DOMAIN stack :
              IF stack[k].kind = "drain" THEN g[k] = stack[k]
              ELSE g[k] \in Dispatches /\ CallsInOrder(g[k])',
           \A f : DrainsInOrder(f) => DrainsInOrder(f)'
    PROVE  stack' \in Seq(Drains \union Dispatches) /\ StackInOrder'
  <1>1. Len(stack) \in Nat /\ DOMAIN stack = 1..Len(stack) BY StackIs
  <1>2. g \in Seq(Drains \union Dispatches) /\ Len(g) = Len(stack) /\ DOMAIN g = DOMAIN stack
    BY <1>1
  <1>3. ASSUME NEW k \in DOMAIN stack, NEW j \in 1..(k - 1) PROVE j \in DOMAIN stack BY <1>1
  <1>4. \A k \in DOMAIN stack : g[k].kind = "drain" <=> stack[k].kind = "drain"
    BY DEF Dispatches
  <1>5. \A k \in DOMAIN stack : stack[k].kind = "drain" => DrainsInOrder(stack[k])
    BY DEF StackInOrder
  <1>6. \A k \in DOMAIN stack : stack[k].kind = "drain" => DrainsInOrder(g[k])' BY <1>5
  <1> QED BY <1>1, <1>2, <1>3, <1>4, <1>6 DEF StackInOrder

LEMMA RemoveListenerKeeps ==
    ASSUME IInv, NEW i \in Identifiers, NEW k \in DOMAIN listeners[i], RemoveListener(i, k)
    PROVE  IInv'
  <1>a. PICK l : l = listeners[i][k].id OBVIOUS
  <1>b. PICK g : g = [n \in DOMAIN stack |-> AfterRemoval(stack[n], l, i)] OBVIOUS
  <1>1. /\ listeners' = [listeners EXCEPT ![i] = RemoveAt(@, k)] /\ blocked' = blocked \ {l}
        /\ stack' = g
        /\ severed' = (severed \/ \E n \in DOMAIN stack : Calls(stack[n]) /\ stack[n].item = l)
        /\ UNCHANGED <<types, nextId, queue, idleId, idle, sent, started>>
    BY <1>a, <1>b DEF RemoveListener
  <1>2. /\ k \in 1..Len(listeners[i]) /\ Len(listeners[i]) \in Nat /\ l \in Nat \ {0}
        /\ DOMAIN listeners[i] = 1..Len(listeners[i])
    BY <1>a, ListenersAre DEF IInv
  <1>3. \A j \in Identifiers \ {i} : listeners'[j] = listeners[j] BY <1>1 DEF IInv, Types
  <1>4. listeners'[i] = RemoveAt(listeners[i], k) BY <1>1 DEF IInv, Types
  <1>5. /\ listeners'[i] \in Seq(Listener) /\ Len(listeners'[i]) = Len(listeners[i]) - 1
        /\ DOMAIN listeners'[i] = 1..(Len(listeners[i]) - 1)
        /\ \A j \in 1..(Len(listeners[i]) - 1) :
              listeners'[i][j] = IF j < k THEN listeners[i][j] ELSE listeners[i][j + 1]
    <2>1. listeners[i] \in Seq(Listener) BY ListenersAre DEF IInv
    <2>2. /\ RemoveAt(listeners[i], k) \in Seq(Listener)
          /\ Len(RemoveAt(listeners[i], k)) = Len(listeners[i]) - 1
          /\ \A j \in 1..(Len(listeners[i]) - 1) :
                RemoveAt(listeners[i], k)[j] = IF j < k THEN listeners[i][j] ELSE listeners[i][j + 1]
      <3> SUFFICES ASSUME NEW s \in Seq(Listener), NEW at \in 1..Len(s)
                   PROVE  /\ RemoveAt(s, at) \in Seq(Listener) /\ Len(RemoveAt(s, at)) = Len(s) - 1
                          /\ \A j \in 1..(Len(s) - 1) :
                                RemoveAt(s, at)[j] = IF j < at THEN s[j] ELSE s[j + 1]
        BY <1>2, <2>1
      <3> QED BY RemoveAtProperties
    <2> QED BY <1>4, <2>2, LenProperties
  <1>6. \A j \in Identifiers \ {i} : Ids(j)' = Ids(j) /\ l \notin Ids(j)
    <2>1. l \in Ids(i) BY <1>a, <1>2 DEF Ids
    <2> QED BY <1>3, <2>1 DEF Ids, IInv, InOrder
  <1>7. Ids(i)' = Ids(i) \ {l}
    <2>1. \A j \in 1..Len(listeners[i]) : listeners[i][j].id = l <=> j = k
      BY <1>a, <1>2, IdsAreOrdered DEF IInv
    <2>2. ASSUME NEW j \in 1..Len(listeners[i]), j # k
          PROVE  \E m \in 1..(Len(listeners[i]) - 1) : listeners'[i][m] = listeners[i][j]
      <3>1. CASE j < k
        <4>1. j \in 1..(Len(listeners[i]) - 1) /\ listeners'[i][j] = listeners[i][j] BY <1>2, <1>5, <3>1
        <4> QED BY <4>1
      <3>2. CASE ~(j < k)
        <4>1. j - 1 \in 1..(Len(listeners[i]) - 1) /\ ~(j - 1 < k) /\ j - 1 + 1 = j
          BY <1>2, <2>2, <3>2
        <4>2. listeners'[i][j - 1] = listeners[i][j] BY <1>5, <4>1
        <4> QED BY <4>1, <4>2
      <3> QED BY <3>1, <3>2
    <2>3. ASSUME NEW m \in 1..(Len(listeners[i]) - 1)
          PROVE  \E j \in 1..Len(listeners[i]) : j # k /\ listeners'[i][m] = listeners[i][j]
      <3>1. m \in 1..Len(listeners[i]) /\ m + 1 \in 1..Len(listeners[i]) BY <1>2
      <3> QED BY <1>2, <1>5, <3>1
    <2>4. Ids(i)' = {listeners'[i][m].id : m \in 1..(Len(listeners[i]) - 1)} BY <1>5 DEF Ids
    <2>5. Ids(i) = {listeners[i][j].id : j \in 1..Len(listeners[i])} BY <1>2 DEF Ids
    <2>6. ASSUME NEW x \in Ids(i)' PROVE x \in Ids(i) \ {l}
      BY <2>1, <2>3, <2>4, <2>5, <2>6
    <2>7. ASSUME NEW x \in Ids(i) \ {l} PROVE x \in Ids(i)'
      BY <2>1, <2>2, <2>4, <2>5, <2>7
    <2> QED BY <2>6, <2>7
  <1>8. InOrder'
    <2>1. \A j \in Identifiers : \A m \in DOMAIN listeners[j] :
             /\ listeners[j][m].id <= nextId
             /\ \A n \in 1..(m - 1) : listeners[j][n].id < listeners[j][m].id
      BY DEF IInv, InOrder
    <2>2. \A j \in Identifiers \ {i} : \A m \in DOMAIN listeners'[j] :
             /\ listeners'[j][m].id <= nextId'
             /\ \A n \in 1..(m - 1) : listeners'[j][n].id < listeners'[j][m].id
      BY <1>1, <1>3, <2>1
    <2>3. \A m \in DOMAIN listeners'[i] :
             /\ listeners'[i][m].id <= nextId'
             /\ \A n \in 1..(m - 1) : listeners'[i][n].id < listeners'[i][m].id
      <3> SUFFICES ASSUME NEW m \in 1..(Len(listeners[i]) - 1)
                   PROVE  /\ listeners'[i][m].id <= nextId
                          /\ \A n \in 1..(m - 1) : listeners'[i][n].id < listeners'[i][m].id
        BY <1>1, <1>5
      <3> DEFINE p(n) == IF n < k THEN n ELSE n + 1
      <3>1. \A n \in 1..(Len(listeners[i]) - 1) : p(n) \in 1..Len(listeners[i])
                                                  /\ listeners'[i][n] = listeners[i][p(n)]
        BY <1>2, <1>5
      <3>2. \A n \in 1..(m - 1) : n \in 1..(Len(listeners[i]) - 1) /\ p(n) < p(m)
        BY <1>2
      <3> HIDE DEF p
      <3>3. listeners'[i][m] = listeners[i][p(m)] /\ p(m) \in 1..Len(listeners[i]) BY <3>1
      <3>4. \A n \in 1..(m - 1) : listeners[i][p(n)].id < listeners[i][p(m)].id
        <4> SUFFICES ASSUME NEW n \in 1..(m - 1) PROVE listeners[i][p(n)].id < listeners[i][p(m)].id
          OBVIOUS
        <4>1. p(n) \in 1..Len(listeners[i]) /\ p(n) < p(m) BY <3>1, <3>2
        <4> QED BY <3>3, <4>1, IdsAreOrdered DEF IInv
      <3> QED BY <1>2, <2>1, <3>1, <3>2, <3>3, <3>4
    <2>4. \A j, m \in Identifiers : j # m => Ids(j)' \intersect Ids(m)' = {}
      <3>1. \A j, m \in Identifiers : j # m => Ids(j) \intersect Ids(m) = {} BY DEF IInv, InOrder
      <3>2. \A j \in Identifiers : Ids(j)' \subseteq Ids(j) BY <1>6, <1>7
      <3> QED BY <3>1, <3>2
    <2>5. blocked' \subseteq AllIds'
      <3>1. blocked \subseteq AllIds BY DEF IInv, InOrder
      <3> QED BY <1>1, <1>6, <1>7, <3>1 DEF AllIds
    <2> QED BY <2>2, <2>3, <2>4, <2>5 DEF InOrder
  <1>9. ASSUME NEW n \in DOMAIN stack, stack[n].kind = "drain" PROVE g[n] = stack[n]
    BY <1>b, <1>9 DEF AfterRemoval
  <1>10. ASSUME NEW f \in Dispatches, CallsInOrder(f), NEW n \in DOMAIN stack, f = stack[n]
         PROVE  AfterRemoval(f, l, i) \in Dispatches /\ CallsInOrder(AfterRemoval(f, l, i))'
    <2> DEFINE item == IF f.msg.of = i /\ f.item = l THEN None ELSE f.item
               h == [f EXCEPT !.item = item, !.due = @ \ {l}]
    <2>1. AfterRemoval(f, l, i) = h BY DEF AfterRemoval, Dispatches
    <2>2. h \in Dispatches /\ h.item = item /\ h.due = f.due \ {l} /\ h.msg = f.msg /\ h.called = f.called
          /\ f.kind = "dispatch" /\ f.msg.of \in Identifiers /\ f.item \in Nat
      BY DEF Dispatches, None, Messages
    <2>3. f.item # None => f.item \in Ids(f.msg.of) BY <1>10 DEF CallsInOrder
    <2>4. f.item # None /\ item = None => severed'
      BY <1>1, <1>10, <2>2 DEF Calls
    <2>5. item # None => item = f.item /\ item \in Ids(f.msg.of)'
      <3> SUFFICES ASSUME item # None PROVE item = f.item /\ item \in Ids(f.msg.of)' OBVIOUS
      <3>1. item = f.item /\ ~(f.msg.of = i /\ f.item = l) OBVIOUS
      <3> QED BY <1>6, <1>7, <2>2, <2>3, <3>1
    <2>6. f.due \ {l} \subseteq Ids(f.msg.of)' \ blocked'
      <3>1. f.due \subseteq Ids(f.msg.of) \ blocked BY <1>10 DEF CallsInOrder
      <3> QED BY <1>1, <1>6, <1>7, <2>2, <3>1
    <2>7. severed' \in BOOLEAN /\ (severed => severed') BY <1>1 DEF IInv, Types
    <2>8. nextId' = nextId BY <1>1
    <2> HIDE DEF h, item
    <2>9. \A j \in DOMAIN f.called :
             /\ f.item # None => f.called[j] <= f.item
             /\ f.called[j] \in 1..nextId
             /\ \A m \in 1..(j - 1) : f.called[m] < f.called[j]
      BY <1>10 DEF CallsInOrder
    <2>10. /\ f.item # None => \A d \in f.due : d <= f.item => d \in Range(f.called)
           /\ f.item = None /\ ~severed => f.due \subseteq Range(f.called)
      BY <1>10 DEF CallsInOrder
    <2>11. CallsInOrder(h)'
      BY <2>2, <2>4, <2>5, <2>6, <2>7, <2>8, <2>9, <2>10 DEF CallsInOrder
    <2> QED BY <2>1, <2>2, <2>11
  <1>11. \A n \in DOMAIN stack :
           IF stack[n].kind = "drain" THEN g[n] = stack[n]
           ELSE g[n] \in Dispatches /\ CallsInOrder(g[n])'
    <2> SUFFICES ASSUME NEW n \in DOMAIN stack, stack[n].kind # "drain"
                 PROVE  g[n] \in Dispatches /\ CallsInOrder(g[n])'
      BY <1>9
    <2>1. stack[n] \in Dispatches /\ CallsInOrder(stack[n]) BY StackIs DEF IInv, StackInOrder
    <2>2. g[n] = AfterRemoval(stack[n], l, i) BY <1>b
    <2>3. \A f \in Dispatches : f = stack[n] /\ CallsInOrder(f)
                                   => AfterRemoval(f, l, i) \in Dispatches /\ CallsInOrder(AfterRemoval(f, l, i))'
      BY <1>10
    <2>4. PICK f \in Dispatches : f = stack[n] /\ CallsInOrder(f) BY <2>1
    <2>5. g[n] = AfterRemoval(f, l, i) BY <2>2, <2>4
    <2> QED BY <2>3, <2>4, <2>5
  <1>12. g \in [DOMAIN stack -> Drains \union Dispatches] BY <1>b, <1>11, StackIs DEF IInv
  <1>13. WaitInOrder' /\ \A f : DrainsInOrder(f) => DrainsInOrder(f)' BY <1>1, QueueKept DEF IInv
  <1>14. stack' \in Seq(Drains \union Dispatches) /\ StackInOrder'
    BY <1>1, <1>11, <1>12, <1>13, FramesChange DEF IInv
  <1>15. Types'
    <2>1. listeners' \in [Identifiers -> Seq(Listener)] BY <1>1, <1>4, <1>5 DEF IInv, Types
    <2>2. severed' \in BOOLEAN BY <1>1 DEF IInv, Types
    <2> QED BY <1>1, <1>14, <2>1, <2>2 DEF IInv, Types
  <1>16. Scheduled' BY <1>1 DEF IInv, Scheduled
  <1> QED BY <1>8, <1>13, <1>14, <1>15, <1>16 DEF IInv

LEMMA BlockKeeps == ASSUME IInv, NEW l \in AllIds \ blocked, Block(l) PROVE IInv'
  <1>a. PICK g : g = [n \in DOMAIN stack |-> IF stack[n].kind = "drain" THEN stack[n]
                                              ELSE [stack[n] EXCEPT !.due = @ \ {l}]]
    OBVIOUS
  <1>1. /\ blocked' = blocked \union {l} /\ stack' = g
        /\ UNCHANGED <<types, listeners, nextId, queue, idleId, idle, sent, started, severed>>
    BY <1>a DEF Block
  <1>2. \A i \in Identifiers : Ids(i)' = Ids(i) BY <1>1 DEF Ids
  <1>3. InOrder' BY <1>1, <1>2 DEF IInv, InOrder, AllIds
  <1>4. \A n \in DOMAIN stack :
           IF stack[n].kind = "drain" THEN g[n] = stack[n]
           ELSE g[n] \in Dispatches /\ CallsInOrder(g[n])'
    <2> SUFFICES ASSUME NEW n \in DOMAIN stack, stack[n].kind # "drain"
                 PROVE  g[n] \in Dispatches /\ CallsInOrder(g[n])'
      BY <1>a
    <2>1. stack[n] \in Dispatches /\ CallsInOrder(stack[n]) BY StackIs DEF IInv, StackInOrder
    <2>2. g[n] = [stack[n] EXCEPT !.due = @ \ {l}] BY <1>a
    <2>3. /\ g[n] \in Dispatches /\ g[n].item = stack[n].item /\ g[n].due = stack[n].due \ {l}
          /\ g[n].msg = stack[n].msg /\ g[n].called = stack[n].called /\ g[n].msg.of \in Identifiers
      BY <2>1, <2>2 DEF Dispatches, Messages
    <2>4. CallsInOrder(g[n])'
      <3> SUFFICES ASSUME NEW h \in Dispatches, h = g[n] PROVE CallsInOrder(h)' BY <2>3
      <3>1. Ids(h.msg.of)' = Ids(h.msg.of) BY <1>2, <2>3
      <3> QED BY <1>1, <2>1, <2>3, <3>1 DEF CallsInOrder
    <2> QED BY <2>3, <2>4
  <1>5. g \in [DOMAIN stack -> Drains \union Dispatches] BY <1>a, <1>4, StackIs DEF IInv
  <1>6. WaitInOrder' /\ \A f : DrainsInOrder(f) => DrainsInOrder(f)' BY <1>1, QueueKept DEF IInv
  <1>7. stack' \in Seq(Drains \union Dispatches) /\ StackInOrder'
    BY <1>1, <1>4, <1>5, <1>6, FramesChange DEF IInv
  <1>8. Types'
    <2>1. AllIds \subseteq Nat BY ListenersAre DEF IInv, AllIds
    <2> QED BY <1>1, <1>7, <2>1 DEF IInv, Types
  <1>9. Scheduled' BY <1>1 DEF IInv, Scheduled
  <1> QED BY <1>3, <1>6, <1>7, <1>8, <1>9 DEF IInv

-----------------------------------------------------------------------------
(***************************************************************************)
(* Messages.                                                               *)
(***************************************************************************)

\* Another call on top of the stack.
LEMMA CallBegins ==
    ASSUME NEW s \in Seq(Drains \union Dispatches), NEW f \in Drains \union Dispatches,
           stack' = Append(s, f), Len(s) < MaxDepth,
           \A k \in DOMAIN s :
              IF s[k].kind = "drain"
              THEN /\ k < MaxDepth /\ DrainsInOrder(s[k])'
                   /\ \A j \in 1..(k - 1) : s[j].kind = "drain" =>
                         \A x \in DOMAIN s[j].batch, y \in DOMAIN s[k].batch : s[j].batch[x].n < s[k].batch[y].n
              ELSE CallsInOrder(s[k])',
           IF f.kind = "drain"
           THEN /\ Len(s) + 1 < MaxDepth /\ DrainsInOrder(f)'
                /\ \A j \in DOMAIN s : s[j].kind = "drain" =>
                      \A x \in DOMAIN s[j].batch, y \in DOMAIN f.batch : s[j].batch[x].n < f.batch[y].n
           ELSE CallsInOrder(f)'
    PROVE  stack' \in Seq(Drains \union Dispatches) /\ StackInOrder'
  <1> PICK t : t = Append(s, f) OBVIOUS
  <1>1. /\ t \in Seq(Drains \union Dispatches) /\ Len(t) = Len(s) + 1 /\ t[Len(s) + 1] = f
        /\ \A k \in 1..Len(s) : t[k] = s[k]
        /\ DOMAIN t = 1..(Len(s) + 1) /\ Len(s) \in Nat /\ DOMAIN s = 1..Len(s)
    <2>1. t \in Seq(Drains \union Dispatches) /\ Len(t) = Len(s) + 1 /\ t[Len(s) + 1] = f
          /\ \A k \in 1..Len(s) : t[k] = s[k]
      BY AppendProperties
    <2> QED BY <2>1, LenProperties
  <1>2. stack' = t OBVIOUS
  <1>3. ASSUME NEW k \in DOMAIN t
        PROVE  IF t[k].kind = "drain"
               THEN /\ k < MaxDepth /\ DrainsInOrder(t[k])'
                    /\ \A j \in 1..(k - 1) : t[j].kind = "drain" =>
                          \A x \in DOMAIN t[j].batch, y \in DOMAIN t[k].batch : t[j].batch[x].n < t[k].batch[y].n
               ELSE CallsInOrder(t[k])'
    <2>1. CASE k \in 1..Len(s)
      <3>1. t[k] = s[k] /\ \A j \in 1..(k - 1) : j \in 1..Len(s) /\ t[j] = s[j] BY <1>1, <2>1
      <3>2. PICK h : h = s[k] OBVIOUS
      <3> QED BY <1>1, <2>1, <3>1, <3>2
    <2>2. CASE k = Len(s) + 1
      <3>1. t[k] = f /\ \A j \in 1..(k - 1) : j \in DOMAIN s /\ t[j] = s[j] BY <1>1, <2>2
      <3> QED BY <1>1, <2>2, <3>1
    <2> QED BY <1>1, <2>1, <2>2
  <1> QED BY <1>1, <1>2, <1>3 DEF StackInOrder

\* The call on top of the stack ends.
LEMMA CallEnds ==
    ASSUME IInv, stack # <<>>, stack' = Front(stack),
           UNCHANGED <<registry, queue, idleId, idle, sent, started, severed>>
    PROVE  IInv'
  <1>1. /\ Front(stack) \in Seq(Drains \union Dispatches) /\ Len(Front(stack)) = Len(stack) - 1
        /\ \A k \in 1..(Len(stack) - 1) : Front(stack)[k] = stack[k]
    <2>1. stack \in Seq(Drains \union Dispatches) BY DEF IInv, Types
    <2> SUFFICES ASSUME NEW s \in Seq(Drains \union Dispatches), s # <<>>
                 PROVE  /\ Front(s) \in Seq(Drains \union Dispatches) /\ Len(Front(s)) = Len(s) - 1
                        /\ \A k \in 1..(Len(s) - 1) : Front(s)[k] = s[k]
      BY <2>1
    <2> QED BY FrontProperties
  <1>2. PICK s \in Seq(Drains \union Dispatches) : s = Front(stack) BY <1>1
  <1>3. /\ stack' = s /\ Len(s) = Len(stack) - 1 /\ \A k \in 1..Len(s) : s[k] = stack[k]
        /\ DOMAIN s = 1..Len(s) /\ Len(s) \in Nat /\ Len(stack) \in Nat /\ DOMAIN stack = 1..Len(stack)
    BY <1>1, <1>2, StackIs, LenProperties DEF IInv
  <1>4. WaitInOrder' /\ \A f : DrainsInOrder(f) => DrainsInOrder(f)' BY QueueKept DEF IInv
  <1>5. InOrder' /\ \A f \in Dispatches : CallsInOrder(f) => CallsInOrder(f)'
    BY RegistryKept DEF IInv, registry
  <1>6. StackInOrder'
    <2>1. \A k \in DOMAIN s :
            IF s[k].kind = "drain"
            THEN /\ k < MaxDepth /\ DrainsInOrder(s[k])
                 /\ \A j \in 1..(k - 1) : s[j].kind = "drain" =>
                       \A x \in DOMAIN s[j].batch, y \in DOMAIN s[k].batch : s[j].batch[x].n < s[k].batch[y].n
            ELSE s[k] \in Dispatches /\ CallsInOrder(s[k])
      <3> SUFFICES ASSUME NEW k \in 1..Len(s)
                   PROVE  IF s[k].kind = "drain"
                          THEN /\ k < MaxDepth /\ DrainsInOrder(s[k])
                               /\ \A j \in 1..(k - 1) : s[j].kind = "drain" =>
                                     \A x \in DOMAIN s[j].batch, y \in DOMAIN s[k].batch :
                                        s[j].batch[x].n < s[k].batch[y].n
                          ELSE s[k] \in Dispatches /\ CallsInOrder(s[k])
        BY <1>3
      <3>1. s[k] = stack[k] /\ k \in 1..Len(stack) /\ \A j \in 1..(k - 1) : s[j] = stack[j]
        BY <1>3
      <3> QED BY <1>3, <3>1, StackIs DEF IInv, StackInOrder
    <2>2. Len(stack) <= MaxDepth BY DEF IInv, StackInOrder
    <2> QED BY <1>3, <1>4, <1>5, <2>1, <2>2 DEF StackInOrder
  <1>7. Types' BY <1>2, <1>3 DEF IInv, Types, registry
  <1>8. Scheduled' BY DEF IInv, Scheduled
  <1> QED BY <1>4, <1>5, <1>6, <1>7, <1>8 DEF IInv

LEMMA SendMessageKeeps == ASSUME IInv, NEW i \in Identifiers, SendMessage(i) PROVE IInv'
  <1>1. PICK m \in Messages : m = Message(i)
    <2>1. sent \in Nat BY DEF IInv, Types
    <2>2. PICK m : m = [n |-> sent + 1, of |-> i] OBVIOUS
    <2>3. m \in Messages BY <2>1, <2>2 DEF Messages
    <2> QED BY <2>2, <2>3 DEF Message
  <1>2. /\ m.n = sent + 1 /\ sent \in Nat /\ sent' = sent + 1
        /\ queue' = <<m>> \o queue /\ queue \in Seq(Messages)
        /\ idleId' = TRUE /\ idle' = (idle \/ ~idleId)
        /\ UNCHANGED <<types, listeners, blocked, nextId, stack, started, severed>>
    BY <1>1 DEF SendMessage, Message, IInv, Types, registry
  <1>3. /\ queue' \in Seq(Messages) /\ Len(queue') = Len(queue) + 1 /\ queue'[1] = m
        /\ \A k \in 2..(Len(queue) + 1) : queue'[k] = queue[k - 1]
        /\ DOMAIN queue' = 1..(Len(queue) + 1) /\ Len(queue) \in Nat /\ DOMAIN queue = 1..Len(queue)
    BY <1>2, ConcatProperties, LenProperties
  <1>4. \A k \in 1..Len(queue) : queue[k].n \in Nat /\ queue[k].n <= sent
    BY <1>3, QueueIs DEF IInv, WaitInOrder
  <1>5. \A j \in DOMAIN queue' : \/ j = 1 /\ queue'[j].n = sent + 1
                                 \/ j - 1 \in DOMAIN queue /\ queue'[j] = queue[j - 1]
    <2> SUFFICES ASSUME NEW j \in 1..(Len(queue) + 1), j # 1
                 PROVE  j - 1 \in 1..Len(queue) /\ queue'[j] = queue[j - 1]
      BY <1>2, <1>3
    <2>1. j \in 2..(Len(queue) + 1) /\ j - 1 \in 1..Len(queue) BY <1>3
    <2> QED BY <1>3, <2>1
  <1>6. WaitInOrder'
    <2>1. ASSUME NEW k \in DOMAIN queue'
          PROVE  queue'[k].n <= sent' /\ \A j \in 1..(k - 1) : queue'[k].n < queue'[j].n
      <3>1. CASE k = 1 BY <1>2, <1>3, <3>1
      <3>2. CASE k # 1
        <4>1. /\ k - 1 \in 1..Len(queue) /\ queue'[k] = queue[k - 1]
              /\ \A j \in 1..(k - 1) : \/ j = 1
                                       \/ j - 1 \in 1..((k - 1) - 1) /\ queue'[j] = queue[j - 1]
          <5>1. k \in 2..(Len(queue) + 1) /\ k - 1 \in 1..Len(queue) BY <1>3, <3>2
          <5>2. \A j \in 1..(k - 1) : j # 1 => j \in 2..(Len(queue) + 1) /\ j - 1 \in 1..((k - 1) - 1)
            BY <1>3, <5>1
          <5> QED BY <1>3, <5>1, <5>2
        <4>2. \A j \in 1..((k - 1) - 1) : queue[k - 1].n < queue[j].n
          BY <1>3, <4>1 DEF IInv, WaitInOrder
        <4> QED BY <1>2, <1>3, <1>4, <4>1, <4>2
      <3> QED BY <3>1, <3>2
    <2>2. ASSUME NEW k \in DOMAIN started
          PROVE  started[k] \in 1..sent' /\ \A j \in DOMAIN queue' : started[k] < queue'[j].n
      <3>1. started[k] \in 1..sent /\ \A j \in DOMAIN queue : started[k] < queue[j].n
        BY DEF IInv, WaitInOrder
      <3> QED BY <1>2, <1>5, <3>1
    <2>3. \A j, k \in DOMAIN started : started[j] = started[k] => j = k BY DEF IInv, WaitInOrder
    <2>4. started' = started BY <1>2
    <2> QED BY <2>1, <2>2, <2>3, <2>4 DEF WaitInOrder
  <1>7. ASSUME NEW f \in Drains, DrainsInOrder(f) PROVE DrainsInOrder(f)'
    <2>1. \A k \in DOMAIN f.batch : f.batch[k].n \in Nat BY DrainIs
    <2>2. \A k \in DOMAIN f.batch : f.batch[k].n <= sent /\ \A j \in DOMAIN queue : f.batch[k].n < queue[j].n
      BY <1>7 DEF DrainsInOrder
    <2>3. \A k \in DOMAIN f.batch : f.batch[k].n <= sent' /\ \A j \in DOMAIN queue' : f.batch[k].n < queue'[j].n
      BY <1>2, <1>5, <2>1, <2>2
    <2> QED BY <1>2, <1>7, <2>3 DEF DrainsInOrder
  <1>8. InOrder' /\ \A f \in Dispatches : CallsInOrder(f) => CallsInOrder(f)'
    BY <1>2, RegistryKept DEF IInv
  <1>9. StackInOrder' BY <1>2, <1>7, <1>8, StackKept DEF IInv
  <1>10. Types' BY <1>2, <1>3 DEF IInv, Types
  <1>11. Scheduled' BY <1>2 DEF IInv, Scheduled, Types
  <1> QED BY <1>6, <1>8, <1>9, <1>10, <1>11 DEF IInv

LEMMA SendSyncKeeps == ASSUME IInv, NEW i \in Identifiers, SendSync(i) PROVE IInv'
  <1>1. PICK m \in Messages : m = Message(i)
    <2>1. sent \in Nat BY DEF IInv, Types
    <2>2. PICK m : m = [n |-> sent + 1, of |-> i] OBVIOUS
    <2>3. m \in Messages BY <2>1, <2>2 DEF Messages
    <2> QED BY <2>2, <2>3 DEF Message
  <1>2. PICK f : f = BeginDispatch(m) OBVIOUS
  <1>3. f \in Dispatches /\ CallsInOrder(f) /\ f.kind # "drain" BY <1>2, BeginDispatchIs DEF IInv, Dispatches
  <1>4. /\ sent \in Nat /\ sent' = sent + 1 /\ Len(stack) < MaxDepth /\ stack' = Append(stack, f)
        /\ UNCHANGED <<types, listeners, blocked, nextId, queue, idleId, idle, started, severed>>
    BY <1>1, <1>2 DEF SendSync, IInv, Types, registry
  <1>5. WaitInOrder'
    <2>1. /\ \A k \in DOMAIN queue : queue[k].n <= sent + 1 /\ \A j \in 1..(k - 1) : queue[k].n < queue[j].n
          /\ \A k \in DOMAIN started : started[k] \in 1..(sent + 1) /\ \A j \in DOMAIN queue : started[k] < queue[j].n
          /\ \A j, k \in DOMAIN started : started[j] = started[k] => j = k
      BY <1>4, QueueIs DEF IInv, WaitInOrder
    <2> QED BY <1>4, <2>1 DEF WaitInOrder
  <1>6. \A d \in Drains : DrainsInOrder(d) => DrainsInOrder(d)'
    <2> SUFFICES ASSUME NEW d \in Drains, DrainsInOrder(d) PROVE DrainsInOrder(d)' OBVIOUS
    <2>1. \A k \in DOMAIN d.batch : d.batch[k].n \in Nat /\ d.batch[k].n <= sent
      BY DrainIs DEF DrainsInOrder
    <2>2. \A k \in DOMAIN d.batch : d.batch[k].n <= sent' BY <1>4, <2>1
    <2> QED BY <1>4, <2>2 DEF DrainsInOrder
  <1>7. InOrder' /\ \A d \in Dispatches : CallsInOrder(d) => CallsInOrder(d)'
    BY <1>4, RegistryKept DEF IInv
  <1>8. stack' \in Seq(Drains \union Dispatches) /\ StackInOrder'
    <2>1. PICK s \in Seq(Drains \union Dispatches) : s = stack BY DEF IInv, Types
    <2>2. \A k \in DOMAIN s :
            IF s[k].kind = "drain"
            THEN /\ k < MaxDepth /\ DrainsInOrder(s[k])'
                 /\ \A j \in 1..(k - 1) : s[j].kind = "drain" =>
                       \A x \in DOMAIN s[j].batch, y \in DOMAIN s[k].batch : s[j].batch[x].n < s[k].batch[y].n
            ELSE CallsInOrder(s[k])'
      <3> SUFFICES ASSUME NEW k \in DOMAIN s
                   PROVE  IF s[k].kind = "drain"
                          THEN /\ k < MaxDepth /\ DrainsInOrder(s[k])'
                               /\ \A j \in 1..(k - 1) : s[j].kind = "drain" =>
                                     \A x \in DOMAIN s[j].batch, y \in DOMAIN s[k].batch :
                                        s[j].batch[x].n < s[k].batch[y].n
                          ELSE CallsInOrder(s[k])'
        OBVIOUS
      <3>1. PICK h : h = s[k] OBVIOUS
      <3>2. /\ h.kind = "drain" => h \in Drains /\ DrainsInOrder(h)
            /\ h.kind # "drain" => h \in Dispatches /\ CallsInOrder(h)
        BY <2>1, <3>1, StackIs DEF IInv, StackInOrder
      <3>3. (h.kind = "drain" => DrainsInOrder(h)') /\ (h.kind # "drain" => CallsInOrder(h)')
        BY <1>6, <1>7, <3>2
      <3> QED BY <2>1, <3>1, <3>3 DEF IInv, StackInOrder
    <2>3. CallsInOrder(f)' BY <1>3, <1>7
    <2>4. stack' = Append(s, f) /\ Len(s) < MaxDepth BY <1>4, <2>1
    <2> QED BY <1>3, <2>2, <2>3, <2>4, CallBegins
  <1>9. Types' BY <1>4, <1>8 DEF IInv, Types
  <1>10. Scheduled' BY <1>4 DEF IInv, Scheduled
  <1> QED BY <1>5, <1>7, <1>8, <1>9, <1>10 DEF IInv

LEMMA ReturnKeeps == ASSUME IInv, Return PROVE IInv'
  <1>1. stack # <<>> /\ Calls(Top) /\ UNCHANGED <<registry, queue, idleId, idle, sent, started, severed>>
    BY DEF Return
  <1>2. PICK f : f = Top OBVIOUS
  <1>3. PICK n : n = Len(stack) OBVIOUS
  <1>4. /\ n \in DOMAIN stack /\ f = stack[n] /\ f.kind = "dispatch" /\ f.item # None
        /\ f \in Dispatches /\ CallsInOrder(f)
    BY <1>1, <1>2, <1>3, StackIs DEF IInv, Calls, StackInOrder
  <1> DEFINE i == f.msg.of
  <1>5. i \in Identifiers BY <1>4 DEF Dispatches, Messages
  <1>6. PICK here \in DOMAIN listeners[i] :
           /\ listeners[i][here].id = f.item
           /\ here = CHOOSE k \in DOMAIN listeners[i] : listeners[i][k].id = f.item
    <2>1. \E k \in DOMAIN listeners[i] : listeners[i][k].id = f.item
      BY <1>4 DEF CallsInOrder, Ids
    <2> QED BY <2>1
  <1>7. PICK next : next = NextFrom(i, here + 1) OBVIOUS
  <1>8. PICK h : h = Onward(f, next) OBVIOUS
  <1>9. h \in Dispatches /\ CallsInOrder(h)
    BY <1>4, <1>6, <1>7, <1>8, OnwardIs DEF IInv
  <1>10. PICK g : g = [stack EXCEPT ![n] = h] OBVIOUS
  <1>11. stack' = g
    <2>1. stack' = [stack EXCEPT ![n] = Onward(@, next)] BY <1>2, <1>3, <1>6, <1>7 DEF Return
    <2> QED BY <1>4, <1>8, <1>10, <2>1
  <1>12. InOrder' /\ \A d \in Dispatches : CallsInOrder(d) => CallsInOrder(d)'
    BY <1>1, RegistryKept DEF IInv, registry
  <1>13. WaitInOrder' /\ \A d : DrainsInOrder(d) => DrainsInOrder(d)' BY <1>1, QueueKept DEF IInv
  <1>14. \A k \in DOMAIN stack :
            IF stack[k].kind = "drain" THEN g[k] = stack[k]
            ELSE g[k] \in Dispatches /\ CallsInOrder(g[k])'
    <2> SUFFICES ASSUME NEW k \in DOMAIN stack
                 PROVE  IF stack[k].kind = "drain" THEN g[k] = stack[k]
                        ELSE g[k] \in Dispatches /\ CallsInOrder(g[k])'
      OBVIOUS
    <2>1. CASE k = n BY <1>4, <1>9, <1>10, <1>12, <2>1
    <2>2. CASE k # n
      <3>1. PICK d : d = stack[k] OBVIOUS
      <3>2. g[k] = d BY <1>10, <2>2, <3>1
      <3>3. d.kind = "drain" \/ (d \in Dispatches /\ CallsInOrder(d))
        BY <3>1, StackIs DEF IInv, StackInOrder
      <3> QED BY <1>12, <3>1, <3>2, <3>3
    <2> QED BY <2>1, <2>2
  <1>15. g \in [DOMAIN stack -> Drains \union Dispatches]
    BY <1>9, <1>10, StackIs DEF IInv
  <1>16. stack' \in Seq(Drains \union Dispatches) /\ StackInOrder'
    BY <1>11, <1>13, <1>14, <1>15, FramesChange DEF IInv
  <1>17. Types' BY <1>1, <1>16 DEF IInv, Types, registry
  <1>18. Scheduled' BY <1>1 DEF IInv, Scheduled
  <1> QED BY <1>12, <1>13, <1>16, <1>17, <1>18 DEF IInv

LEMMA IdleDispatchKeeps == ASSUME IInv, IdleDispatch PROVE IInv'
  <1>1. PICK batch : batch = Reverse(queue) OBVIOUS
  <1>2. PICK f : f = Drain(batch) OBVIOUS
  <1>3. /\ idleId' = FALSE /\ idle' = FALSE /\ queue' = <<>> /\ stack' = Append(stack, f)
        /\ Len(stack) + 1 < MaxDepth
        /\ UNCHANGED <<types, listeners, blocked, nextId, sent, started, severed>>
    BY <1>1, <1>2 DEF IdleDispatch, IdleIdWhileDraining, Batch, registry
  <1>4. /\ batch \in Seq(Messages) /\ Len(batch) = Len(queue) /\ DOMAIN batch = 1..Len(queue)
        /\ \A k \in 1..Len(queue) : Len(queue) - k + 1 \in DOMAIN queue
                                    /\ batch[k] = queue[Len(queue) - k + 1]
        /\ Len(queue) \in Nat /\ DOMAIN queue = 1..Len(queue)
    <2>1. PICK q \in Seq(Messages) : q = queue BY DEF IInv, Types
    <2>2. /\ Reverse(q) \in Seq(Messages) /\ Len(Reverse(q)) = Len(q)
          /\ \A k \in 1..Len(q) : Len(q) - k + 1 \in 1..Len(q) /\ Reverse(q)[k] = q[Len(q) - k + 1]
      BY ReverseProperties
    <2>3. batch = Reverse(q) BY <1>1, <2>1
    <2> QED BY <2>1, <2>2, <2>3, LenProperties
  <1>5. f = [kind |-> "drain", batch |-> batch, at |-> 0] BY <1>2 DEF Drain
  <1>6. f \in Drains /\ f.kind = "drain" /\ f.batch = batch /\ f.at = 0 BY <1>4, <1>5 DEF Drains
  <1>7. \A k \in DOMAIN batch :
          /\ batch[k].n <= sent /\ batch[k].n \notin Range(started)
          /\ \A j \in 1..(k - 1) : batch[j].n < batch[k].n
    <2> SUFFICES ASSUME NEW k \in 1..Len(queue)
                 PROVE  /\ batch[k].n <= sent /\ batch[k].n \notin Range(started)
                        /\ \A j \in 1..(k - 1) : batch[j].n < batch[k].n
      BY <1>4
    <2>1. PICK m \in DOMAIN queue : m = Len(queue) - k + 1 /\ batch[k] = queue[m] BY <1>4
    <2>2. batch[k].n <= sent BY <2>1 DEF IInv, WaitInOrder
    <2>3. ASSUME NEW j \in DOMAIN started PROVE batch[k].n # started[j]
      <3>1. started[j] < queue[m].n BY <2>1 DEF IInv, WaitInOrder
      <3>2. started[j] \in Nat BY QueueIs DEF IInv
      <3> QED BY <2>1, <3>1, <3>2
    <2>4. ASSUME NEW j \in 1..(k - 1) PROVE batch[j].n < batch[k].n
      <3>1. j \in 1..Len(queue) /\ m \in 1..((Len(queue) - j + 1) - 1) BY <1>4, <2>1
      <3>2. Len(queue) - j + 1 \in DOMAIN queue /\ batch[j] = queue[Len(queue) - j + 1] BY <1>4, <3>1
      <3>3. queue[Len(queue) - j + 1].n < queue[m].n BY <3>1, <3>2 DEF IInv, WaitInOrder
      <3> QED BY <2>1, <3>2, <3>3
    <2> QED BY <2>2, <2>3, <2>4 DEF Range
  <1>8. DrainsInOrder(f)'
    <2>1. f.at <= Len(batch) BY <1>4, <1>6
    <2>2. \A k \in DOMAIN batch : ~(k <= 0) BY <1>4
    <2> QED BY <1>3, <1>6, <1>7, <2>1, <2>2 DEF DrainsInOrder
  <1>9. \A d \in Drains : DrainsInOrder(d) => DrainsInOrder(d)'
    BY <1>3 DEF DrainsInOrder
  <1>10. InOrder' /\ \A d \in Dispatches : CallsInOrder(d) => CallsInOrder(d)'
    BY <1>3, RegistryKept DEF IInv
  <1>11. stack' \in Seq(Drains \union Dispatches) /\ StackInOrder'
    <2>1. PICK s \in Seq(Drains \union Dispatches) : s = stack BY DEF IInv, Types
    <2>2. \A k \in DOMAIN s :
            IF s[k].kind = "drain"
            THEN /\ k < MaxDepth /\ DrainsInOrder(s[k])'
                 /\ \A j \in 1..(k - 1) : s[j].kind = "drain" =>
                       \A x \in DOMAIN s[j].batch, y \in DOMAIN s[k].batch : s[j].batch[x].n < s[k].batch[y].n
            ELSE CallsInOrder(s[k])'
      <3> SUFFICES ASSUME NEW k \in DOMAIN s
                   PROVE  IF s[k].kind = "drain"
                          THEN /\ k < MaxDepth /\ DrainsInOrder(s[k])'
                               /\ \A j \in 1..(k - 1) : s[j].kind = "drain" =>
                                     \A x \in DOMAIN s[j].batch, y \in DOMAIN s[k].batch :
                                        s[j].batch[x].n < s[k].batch[y].n
                          ELSE CallsInOrder(s[k])'
        OBVIOUS
      <3>1. PICK h : h = s[k] OBVIOUS
      <3>2. /\ h.kind = "drain" => h \in Drains /\ DrainsInOrder(h)
            /\ h.kind # "drain" => h \in Dispatches /\ CallsInOrder(h)
        BY <2>1, <3>1, StackIs DEF IInv, StackInOrder
      <3>3. (h.kind = "drain" => DrainsInOrder(h)') /\ (h.kind # "drain" => CallsInOrder(h)')
        BY <1>9, <1>10, <3>2
      <3> QED BY <2>1, <3>1, <3>3 DEF IInv, StackInOrder
    <2>3. \A j \in DOMAIN s : s[j].kind = "drain" =>
             \A x \in DOMAIN s[j].batch, y \in DOMAIN batch : s[j].batch[x].n < batch[y].n
      BY <1>4, <2>1 DEF IInv, StackInOrder, DrainsInOrder
    <2>4. stack' = Append(s, f) /\ Len(s) + 1 < MaxDepth /\ Len(s) < MaxDepth
      BY <1>3, <2>1, LenProperties
    <2> QED BY <1>6, <1>8, <2>2, <2>3, <2>4, CallBegins
  <1>12. WaitInOrder'
    <2>1. DOMAIN queue' = {} BY <1>3
    <2>2. \A k \in DOMAIN started : started[k] \in 1..sent BY DEF IInv, WaitInOrder
    <2>3. \A j, k \in DOMAIN started : started[j] = started[k] => j = k BY DEF IInv, WaitInOrder
    <2> QED BY <1>3, <2>1, <2>2, <2>3 DEF WaitInOrder
  <1>13. Types'
    <2>1. queue' \in Seq(Messages) BY <1>3
    <2> QED BY <1>3, <1>11, <2>1 DEF IInv, Types
  <1>14. Scheduled' BY <1>3 DEF Scheduled
  <1> QED BY <1>10, <1>11, <1>12, <1>13, <1>14 DEF IInv

LEMMA DrainTakes == ASSUME IInv, DrainNext, Goes(Top) PROVE IInv'
  <1>1. PICK f : f = Top OBVIOUS
  <1>2. PICK n : n = Len(stack) OBVIOUS
  <1>3. /\ n \in DOMAIN stack /\ f = stack[n] /\ f.kind = "drain" /\ f \in Drains /\ stack # <<>>
        /\ DrainsInOrder(f) /\ f.at < Len(f.batch) /\ n \in Nat /\ DOMAIN stack = 1..n
        /\ n < MaxDepth
    BY <1>1, <1>2, StackIs DEF IInv, StackInOrder, DrainNext, Goes
  <1>4. /\ f.at + 1 \in 1..Len(f.batch) /\ Len(f.batch) \in Nat /\ DOMAIN f.batch = 1..Len(f.batch)
        /\ f.at \in Nat
    BY <1>3, DrainIs
  <1>5. PICK m \in Messages : m = f.batch[f.at + 1] BY <1>3, <1>4, DrainIs
  <1>6. PICK b : b = BeginDispatch(m) OBVIOUS
  <1>7. b \in Dispatches /\ CallsInOrder(b) /\ b.kind # "drain" BY <1>6, BeginDispatchIs DEF IInv, Dispatches
  <1>8. PICK g : g = [f EXCEPT !.at = @ + 1] OBVIOUS
  <1>9. g \in Drains /\ g.at = f.at + 1 /\ g.batch = f.batch /\ g.kind = "drain"
    BY <1>3, <1>4, <1>8 DEF Drains
  <1>10. PICK s : s = [stack EXCEPT ![n] = g] OBVIOUS
  <1>11. /\ stack' = Append(s, b) /\ started' = Append(started, m.n)
         /\ UNCHANGED <<types, listeners, blocked, nextId, queue, idleId, idle, sent, severed>>
    <2>1. /\ stack' = Append([stack EXCEPT ![n].at = @ + 1], b) /\ started' = Append(started, m.n)
          /\ UNCHANGED <<registry, queue, idleId, idle, sent, severed>>
      BY <1>1, <1>2, <1>5, <1>6 DEF DrainNext
    <2>2. s = [stack EXCEPT ![n].at = @ + 1] BY <1>3, <1>8, <1>10
    <2> QED BY <2>1, <2>2 DEF registry
  <1>12. /\ s \in Seq(Drains \union Dispatches) /\ Len(s) = n /\ DOMAIN s = 1..n
         /\ s[n] = g /\ \A k \in 1..(n - 1) : s[k] = stack[k] /\ k \in DOMAIN stack
    BY <1>2, <1>3, <1>9, <1>10, LenProperties DEF IInv, Types
  <1>13. /\ m.n \in 1..sent /\ m.n \notin Range(started) /\ m.n \in Nat
         /\ \A j \in DOMAIN queue : m.n < queue[j].n
    <2>1. f.at + 1 \in DOMAIN f.batch /\ ~(f.at + 1 <= f.at) BY <1>4
    <2>2. sent \in Nat /\ m.n \in Nat \ {0} BY DEF IInv, Types, Messages
    <2> QED BY <1>3, <1>5, <2>1, <2>2 DEF DrainsInOrder
  <1>14. /\ Len(started') = Len(started) + 1 /\ DOMAIN started' = 1..(Len(started) + 1)
         /\ \A k \in 1..Len(started) : started'[k] = started[k] /\ k \in DOMAIN started
         /\ started'[Len(started) + 1] = m.n /\ started' \in Seq(Nat) /\ Len(started) \in Nat
         /\ DOMAIN started = 1..Len(started)
    <2>1. PICK r \in Seq(Nat) : r = started BY DEF IInv, Types
    <2>2. PICK t : t = Append(r, m.n) OBVIOUS
    <2>3. /\ t \in Seq(Nat) /\ Len(t) = Len(r) + 1 /\ t[Len(r) + 1] = m.n
          /\ \A k \in 1..Len(r) : t[k] = r[k]
      BY <1>13, <2>2, AppendProperties
    <2> QED BY <1>11, <2>1, <2>2, <2>3, LenProperties
  <1>15. Range(started)' = Range(started) \union {m.n} BY <1>14 DEF Range
  <1>16. WaitInOrder'
    <2>1. /\ \A k \in DOMAIN queue : queue[k].n <= sent /\ \A j \in 1..(k - 1) : queue[k].n < queue[j].n
          /\ \A k \in DOMAIN started : started[k] \in 1..sent /\ \A j \in DOMAIN queue : started[k] < queue[j].n
          /\ \A j, k \in DOMAIN started : started[j] = started[k] => j = k
      BY DEF IInv, WaitInOrder
    <2>2. \A k \in DOMAIN started' : started'[k] \in 1..sent /\ \A j \in DOMAIN queue : started'[k] < queue[j].n
      <3> SUFFICES ASSUME NEW k \in 1..(Len(started) + 1)
                   PROVE  started'[k] \in 1..sent /\ \A j \in DOMAIN queue : started'[k] < queue[j].n
        BY <1>14
      <3>1. k \in 1..Len(started) \/ k = Len(started) + 1 BY <1>14
      <3> QED BY <1>13, <1>14, <2>1, <3>1
    <2>3. \A k \in DOMAIN started : started[k] # m.n BY <1>13 DEF Range
    <2>4. \A j, k \in DOMAIN started' : started'[j] = started'[k] => j = k
      <3> SUFFICES ASSUME NEW j \in 1..(Len(started) + 1), NEW k \in 1..(Len(started) + 1),
                          started'[j] = started'[k]
                   PROVE  j = k
        BY <1>14
      <3>1. /\ k \in 1..Len(started) \/ k = Len(started) + 1
            /\ j \in 1..Len(started) \/ j = Len(started) + 1
        BY <1>14
      <3> QED BY <1>14, <2>1, <2>3, <3>1
    <2> QED BY <1>11, <2>1, <2>2, <2>4 DEF WaitInOrder
  <1>17. DrainsInOrder(g)'
    <2>1. \A k \in DOMAIN f.batch :
            /\ f.batch[k].n <= sent
            /\ \A j \in 1..(k - 1) : f.batch[j].n < f.batch[k].n
            /\ \A j \in DOMAIN queue : f.batch[k].n < queue[j].n
            /\ f.batch[k].n \in Range(started) <=> k <= f.at
      BY <1>3 DEF DrainsInOrder
    <2>2. \A k \in DOMAIN f.batch : f.batch[k].n \in Nat BY <1>3, DrainIs
    <2>3. ASSUME NEW k \in DOMAIN f.batch
          PROVE  f.batch[k].n \in Range(started) \union {m.n} <=> k <= f.at + 1
      <3>1. f.batch[k].n = m.n <=> k = f.at + 1
        <4>1. k \in Nat /\ f.at + 1 \in DOMAIN f.batch BY <1>4
        <4>2. k < f.at + 1 \/ k = f.at + 1 \/ f.at + 1 < k BY <1>4, <4>1
        <4>3. CASE k < f.at + 1
          <5>1. k \in 1..((f.at + 1) - 1) BY <1>4, <4>3
          <5>2. f.batch[k].n < f.batch[f.at + 1].n BY <2>1, <4>1, <5>1
          <5> QED BY <1>5, <2>2, <4>1, <4>3, <5>2
        <4>4. CASE f.at + 1 < k
          <5>1. f.at + 1 \in 1..(k - 1) BY <1>4, <4>1, <4>4
          <5>2. f.batch[f.at + 1].n < f.batch[k].n BY <2>1, <5>1
          <5> QED BY <1>5, <2>2, <4>1, <4>4, <5>2
        <4> QED BY <1>5, <4>2, <4>3, <4>4
      <3>2. k \in Nat BY <1>4
      <3> QED BY <1>4, <2>1, <3>1, <3>2
    <2>4. g.at <= Len(g.batch) BY <1>4, <1>9
    <2> QED BY <1>9, <1>11, <1>15, <2>1, <2>3, <2>4 DEF DrainsInOrder
  <1>18. ASSUME NEW d \in Drains, DrainsInOrder(d), \A x \in DOMAIN d.batch : d.batch[x].n < m.n
         PROVE  DrainsInOrder(d)'
    <2>1. \A x \in DOMAIN d.batch : d.batch[x].n # m.n BY <1>13, <1>18, DrainIs
    <2> QED BY <1>11, <1>15, <1>18, <2>1 DEF DrainsInOrder
  <1>19. InOrder' /\ \A d \in Dispatches : CallsInOrder(d) => CallsInOrder(d)'
    BY <1>11, RegistryKept DEF IInv
  <1>20. stack' \in Seq(Drains \union Dispatches) /\ StackInOrder'
    <2>1. \A k \in DOMAIN s :
            IF s[k].kind = "drain"
            THEN /\ k < MaxDepth /\ DrainsInOrder(s[k])'
                 /\ \A j \in 1..(k - 1) : s[j].kind = "drain" =>
                       \A x \in DOMAIN s[j].batch, y \in DOMAIN s[k].batch : s[j].batch[x].n < s[k].batch[y].n
            ELSE CallsInOrder(s[k])'
      <3>1. CASE n \in DOMAIN s
        <4> SUFFICES ASSUME NEW k \in 1..n
                     PROVE  IF s[k].kind = "drain"
                            THEN /\ k < MaxDepth /\ DrainsInOrder(s[k])'
                                 /\ \A j \in 1..(k - 1) : s[j].kind = "drain" =>
                                       \A x \in DOMAIN s[j].batch, y \in DOMAIN s[k].batch :
                                          s[j].batch[x].n < s[k].batch[y].n
                            ELSE CallsInOrder(s[k])'
          BY <1>12
        <4>1. \A j \in 1..(n - 1) : s[j].kind = "drain" =>
                 \A x \in DOMAIN s[j].batch, y \in DOMAIN f.batch : s[j].batch[x].n < f.batch[y].n
          BY <1>3, <1>12 DEF IInv, StackInOrder
        <4>2. CASE k = n BY <1>3, <1>9, <1>12, <1>17, <4>1, <4>2
        <4>3. CASE k # n
          <5>1. k \in 1..(n - 1) /\ s[k] = stack[k] /\ k \in DOMAIN stack
                /\ \A j \in 1..(k - 1) : s[j] = stack[j]
            BY <1>3, <1>12, <4>3
          <5>2. PICK h : h = s[k] OBVIOUS
          <5>3. /\ h.kind = "drain" => /\ h \in Drains /\ DrainsInOrder(h)
                                       /\ \A x \in DOMAIN h.batch : h.batch[x].n < m.n
                /\ h.kind # "drain" => h \in Dispatches /\ CallsInOrder(h)
            <6>1. f.at + 1 \in DOMAIN f.batch BY <1>4
            <6> QED BY <1>5, <4>1, <5>1, <5>2, <6>1, StackIs DEF IInv, StackInOrder
          <5>4. (h.kind = "drain" => DrainsInOrder(h)') /\ (h.kind # "drain" => CallsInOrder(h)')
            BY <1>18, <1>19, <5>3
          <5>5. h.kind = "drain" =>
                   /\ k < MaxDepth
                   /\ \A j \in 1..(k - 1) : stack[j].kind = "drain" =>
                         \A x \in DOMAIN stack[j].batch, y \in DOMAIN h.batch :
                            stack[j].batch[x].n < h.batch[y].n
            BY <5>1, <5>2 DEF IInv, StackInOrder
          <5> QED BY <5>1, <5>2, <5>4, <5>5
        <4> QED BY <4>2, <4>3
      <3> QED BY <1>3, <1>12, <3>1
    <2>2. CallsInOrder(b)' BY <1>7, <1>19
    <2>3. Len(s) < MaxDepth BY <1>3, <1>12
    <2> QED BY <1>7, <1>11, <1>12, <2>1, <2>2, <2>3, CallBegins
  <1>21. Types' BY <1>11, <1>14, <1>20 DEF IInv, Types
  <1>22. Scheduled' BY <1>11 DEF IInv, Scheduled
  <1> QED BY <1>16, <1>19, <1>20, <1>21, <1>22 DEF IInv

-----------------------------------------------------------------------------
(***************************************************************************)
(* The theorems.                                                           *)
(***************************************************************************)

LEMMA Beginning == Init => IInv
  <1> SUFFICES ASSUME Init PROVE IInv OBVIOUS
  <1>1. \A i \in Identifiers : listeners[i] = <<>> /\ Ids(i) = {}  BY DEF Init, Ids
  <1>2. Types
    <2>1. listeners \in [Identifiers -> Seq(Listener)] BY DEF Init
    <2>2. queue \in Seq(Messages) /\ started \in Seq(Nat) /\ stack \in Seq(Drains \union Dispatches)
      BY DEF Init
    <2> QED BY <2>1, <2>2 DEF Init, Types
  <1>3. InOrder BY <1>1 DEF Init, InOrder
  <1>4. WaitInOrder BY DEF Init, WaitInOrder
  <1>5. StackInOrder BY DEF Init, StackInOrder
  <1>6. Scheduled BY DEF Init, Scheduled
  <1> QED BY <1>2, <1>3, <1>4, <1>5, <1>6 DEF IInv

LEMMA Stuttering == IInv /\ UNCHANGED vars => IInv'
  <1> SUFFICES ASSUME IInv, UNCHANGED vars PROVE IInv' OBVIOUS
  <1>1. types' \subseteq Identifiers BY DEF IInv, Types, vars
  <1> QED BY <1>1, TypesOnly DEF vars

LEMMA Invariance == IInv /\ [Next]_vars => IInv'
  <1> SUFFICES ASSUME IInv, [Next]_vars PROVE IInv' OBVIOUS
  <1>1. ASSUME NEW i \in Identifiers, Register(i) \/ Unregister(i) PROVE IInv'
    <2>1. types' \subseteq Identifiers BY <1>1 DEF Register, Unregister, IInv, Types
    <2> QED BY <1>1, <2>1, TypesOnly DEF Register, Unregister
  <1>2. ASSUME NEW i \in Identifiers, NEW func \in Funcs, DisconnectByFunc(i, func) PROVE IInv'
    BY <1>2, RemoveListenerKeeps DEF DisconnectByFunc
  <1>3. ASSUME NEW l \in AllIds, Disconnect(l) PROVE IInv'
    BY <1>3, RemoveListenerKeeps DEF Disconnect
  <1>4. ASSUME NEW l \in AllIds, Block(l) PROVE IInv'
    <2>1. l \in AllIds \ blocked BY <1>4 DEF Block
    <2> QED BY <1>4, <2>1, BlockKeeps
  <1>5. ASSUME EndDispatch PROVE IInv' BY <1>5, CallEnds DEF EndDispatch
  <1>6. ASSUME DrainNext PROVE IInv'
    <2>1. CASE Goes(Top) BY <1>6, <2>1, DrainTakes
    <2>2. CASE ~Goes(Top) BY <1>6, <2>2, CallEnds DEF DrainNext
    <2> QED BY <2>1, <2>2
  <1>7. CASE UNCHANGED vars BY <1>7, Stuttering
  <1> QED BY <1>1, <1>2, <1>3, <1>4, <1>5, <1>6, <1>7, ConnectKeeps, UnblockKeeps, SendMessageKeeps,
             SendSyncKeeps, ReturnKeeps, IdleDispatchKeeps DEF Next

THEOREM Invariant == Spec => []IInv
  <1>1. Init => IInv BY Beginning
  <1>2. IInv /\ [Next]_vars => IInv' BY Invariance
  <1> QED BY <1>1, <1>2, PTL DEF Spec

LEMMA OrderIsKept == IInv => InTheOrderSent
  <1> SUFFICES ASSUME IInv, NEW n \in Range(started), NEW m \in (1..n) \ Range(started)
               PROVE  /\ m \notin Numbers(queue)
                      /\ \A f \in Frames("drain") : m \in Numbers(f.batch) =>
                            /\ m \in Numbers(SubSeq(f.batch, f.at + 1, Len(f.batch)))
                            /\ n \notin Numbers(f.batch)
    BY DEF InTheOrderSent
  <1>1. PICK s \in DOMAIN started : n = started[s] BY DEF Range
  <1>2. n \in Nat /\ m \in Nat /\ m <= n BY <1>1, QueueIs DEF IInv
  <1>3. m \notin Numbers(queue)
    <2> SUFFICES ASSUME NEW j \in DOMAIN queue PROVE m # queue[j].n BY DEF Numbers
    <2>1. n < queue[j].n /\ queue[j].n \in Nat BY <1>1, QueueIs DEF IInv, WaitInOrder
    <2> QED BY <1>2, <2>1
  <1>4. ASSUME NEW f \in Frames("drain"), m \in Numbers(f.batch)
        PROVE  /\ m \in Numbers(SubSeq(f.batch, f.at + 1, Len(f.batch)))
               /\ n \notin Numbers(f.batch)
    <2>1. f \in Drains /\ DrainsInOrder(f)
      BY StackIs DEF Frames, Range, IInv, StackInOrder
    <2>2. /\ Len(f.batch) \in Nat /\ DOMAIN f.batch = 1..Len(f.batch) /\ f.at \in Nat
          /\ f.batch \in Seq(Messages)
          /\ \A k \in 1..Len(f.batch) : f.batch[k] \in Messages /\ f.batch[k].n \in Nat
      BY <2>1, DrainIs
    <2>3. PICK k \in 1..Len(f.batch) : m = f.batch[k].n BY <1>4, <2>2 DEF Numbers
    <2>4. f.at < k /\ f.at <= Len(f.batch) BY <2>1, <2>2, <2>3 DEF DrainsInOrder
    <2>5. n \notin Numbers(f.batch)
      <3> SUFFICES ASSUME NEW j \in 1..Len(f.batch), n = f.batch[j].n PROVE FALSE BY <2>2 DEF Numbers
      <3>1. j <= f.at BY <2>1, <2>2 DEF DrainsInOrder
      <3>2. j \in 1..(k - 1) BY <2>2, <2>4, <3>1
      <3>3. f.batch[j].n < f.batch[k].n BY <2>1, <2>2, <3>2 DEF DrainsInOrder
      <3> QED BY <1>2, <2>3, <3>3
    <2>6. m \in Numbers(SubSeq(f.batch, f.at + 1, Len(f.batch)))
      <3> DEFINE a == f.at + 1
                 t == SubSeq(f.batch, a, Len(f.batch))
      <3>1. a \in 1..(Len(f.batch) + 1) /\ \A x \in a..Len(f.batch) : f.batch[x] \in Messages
        BY <2>2, <2>4
      <3>2. k - f.at \in 1..(Len(f.batch) - a + 1) /\ a + (k - f.at) - 1 = k BY <2>2, <2>4
      <3>3. Len(t) = Len(f.batch) - a + 1 /\ \A x \in 1..(Len(f.batch) - a + 1) : t[x] = f.batch[a + x - 1]
            /\ t \in Seq(Messages)
        <4> HIDE DEF a
        <4> QED BY <2>2, <3>1, SubSeqProperties
      <3> HIDE DEF t
      <3>4. k - f.at \in DOMAIN t /\ t[k - f.at] = f.batch[k] BY <3>2, <3>3, LenProperties
      <3>5. m \in Numbers(t) BY <2>3, <3>4 DEF Numbers
      <3> QED BY <3>5 DEF t
    <2> QED BY <2>5, <2>6
  <1> QED BY <1>3, <1>4

\* For any number of identifiers, listeners and messages, and any depth of main
\* loops in main loops, queued messages are dispatched in the order in which
\* they were sent, but for those an outer loop of idle_dispatch still holds.
THEOREM QueuedInOrder == Spec => []InTheOrderSent
  BY Invariant, OrderIsKept, PTL

LEMMA TypesAreOK == IInv => TypeOK
  <1> SUFFICES ASSUME IInv PROVE TypeOK OBVIOUS
  <1>1. \A i \in Identifiers : Ids(i) \subseteq 1..nextId
    BY ListenersAre DEF IInv, InOrder, Types, Ids
  <1>2. \A i \in Identifiers : Len(listeners[i]) = Cardinality(Ids(i))
    <2> SUFFICES ASSUME NEW i \in Identifiers PROVE Len(listeners[i]) = Cardinality(Ids(i)) OBVIOUS
    <2>1. PICK s : s = [k \in 1..Len(listeners[i]) |-> listeners[i][k].id] OBVIOUS
    <2>2. s \in Seq(Nat) /\ Len(s) = Len(listeners[i]) /\ DOMAIN s = 1..Len(listeners[i])
      BY <2>1, ListenersAre DEF IInv
    <2>3. Range(s) = Ids(i) BY <2>1, ListenersAre DEF IInv, Range, Ids
    <2>4. \A j, k \in DOMAIN s : s[j] = s[k] => j = k BY <2>1, IdsAreOrdered DEF IInv
    <2> QED BY <2>2, <2>3, <2>4, InjectiveSeq
  <1>3. Len(queue) + Len(started) <= sent
    <2> DEFINE numbers == Numbers(queue)
    <2>1. IsFiniteSet(Range(started)) /\ Cardinality(Range(started)) = Len(started)
      <3>1. PICK s \in Seq(Nat) : s = started BY DEF IInv, Types
      <3>2. \A j, k \in DOMAIN s : s[j] = s[k] => j = k BY <3>1 DEF IInv, WaitInOrder
      <3> QED BY <3>1, <3>2, InjectiveSeq
    <2>2. IsFiniteSet(numbers) /\ Cardinality(numbers) = Len(queue)
      <3>1. PICK s : s = [k \in 1..Len(queue) |-> queue[k].n] OBVIOUS
      <3>2. s \in Seq(Nat) /\ Len(s) = Len(queue) /\ DOMAIN s = 1..Len(queue)
        BY <3>1, QueueIs DEF IInv
      <3>3. Range(s) = numbers BY <3>1, QueueIs DEF IInv, Range, Numbers
      <3>4. ASSUME NEW j \in 1..Len(queue), NEW k \in 1..Len(queue), j < k PROVE queue[k].n < queue[j].n
        <4>1. j \in 1..(k - 1) /\ k \in DOMAIN queue BY <3>4, QueueIs DEF IInv
        <4> QED BY <4>1 DEF IInv, WaitInOrder
      <3>5. \A j, k \in DOMAIN s : s[j] = s[k] => j = k
        <4> SUFFICES ASSUME NEW j \in 1..Len(queue), NEW k \in 1..Len(queue), s[j] = s[k] PROVE j = k
          BY <3>2
        <4>1. s[j] = queue[j].n /\ s[k] = queue[k].n /\ queue[j].n \in Nat /\ queue[k].n \in Nat
          BY <3>1, QueueIs DEF IInv
        <4>2. j < k \/ j = k \/ k < j BY QueueIs DEF IInv
        <4>3. \A x, y \in Nat : x = y => ~(x < y) /\ ~(y < x) OBVIOUS
        <4>4. queue[j].n = queue[k].n BY <4>1, Zenon
        <4>5. ~(j < k) /\ ~(k < j) BY <3>4, <4>1, <4>3, <4>4, Zenon
        <4> QED BY <4>2, <4>5
      <3> QED BY <3>2, <3>3, <3>5, InjectiveSeq
    <2>3. Range(started) \intersect numbers = {}
      <3> SUFFICES ASSUME NEW j \in DOMAIN started, NEW k \in DOMAIN queue PROVE started[j] # queue[k].n
        BY DEF Range, Numbers
      <3>1. started[j] < queue[k].n BY DEF IInv, WaitInOrder
      <3> QED BY <3>1, QueueIs DEF IInv
    <2>4. Range(started) \union numbers \subseteq 1..sent
      BY QueueIs DEF IInv, WaitInOrder, Range, Numbers, Types
    <2>5. sent \in Nat /\ IsFiniteSet(1..sent) /\ Cardinality(1..sent) = sent
      BY FS_Interval DEF IInv, Types
    <2> HIDE DEF numbers
    <2>6. /\ IsFiniteSet(Range(started) \union numbers)
          /\ Cardinality(Range(started) \union numbers) =
                Cardinality(Range(started)) + Cardinality(numbers) - Cardinality(Range(started) \intersect numbers)
      BY <2>1, <2>2, FS_Union
    <2>7. Cardinality(Range(started) \intersect numbers) = 0 BY <2>3, FS_EmptySet
    <2>8. Cardinality(Range(started) \union numbers) <= sent BY <2>4, <2>5, FS_Subset
    <2> QED BY <2>1, <2>2, <2>6, <2>7, <2>8, QueueIs DEF IInv
  <1>4. \A f \in Frames("dispatch") : f.item = None \/ f.item \in Ids(f.msg.of)
    BY StackIs DEF IInv, StackInOrder, CallsInOrder, Frames, Range
  <1>5. AllIds \subseteq 1..nextId BY <1>1 DEF AllIds
  <1>6. types \subseteq Identifiers /\ blocked \subseteq AllIds /\ Len(stack) <= MaxDepth
        /\ \A i, j \in Identifiers : i # j => Ids(i) \intersect Ids(j) = {}
    BY DEF IInv, Types, InOrder, StackInOrder
  <1> QED BY <1>2, <1>3, <1>4, <1>5, <1>6 DEF TypeOK

LEMMA NobodyIsLeftOut == IInv => EverybodyIsCalledOnce
  <1> SUFFICES ASSUME IInv, NEW f \in Frames("dispatch")
               PROVE  /\ Cardinality(Range(f.called)) = Len(f.called)
                      /\ f.item = None /\ ~severed => f.due \subseteq Range(f.called)
    BY DEF EverybodyIsCalledOnce
  <1>1. f \in Dispatches /\ CallsInOrder(f)
    BY StackIs DEF IInv, StackInOrder, Frames, Range
  <1>2. f.called \in Seq(Nat) /\ DOMAIN f.called = 1..Len(f.called) /\ Len(f.called) \in Nat
        /\ \A k \in 1..Len(f.called) : f.called[k] \in Nat
    BY <1>1, LenProperties DEF Dispatches
  <1>3. ASSUME NEW j \in 1..Len(f.called), NEW k \in 1..Len(f.called), j < k
        PROVE  f.called[j] < f.called[k]
    <2>1. j \in 1..(k - 1) /\ k \in DOMAIN f.called BY <1>2, <1>3
    <2> QED BY <1>1, <2>1 DEF CallsInOrder
  <1>4. \A j, k \in DOMAIN f.called : f.called[j] = f.called[k] => j = k
    <2> SUFFICES ASSUME NEW j \in 1..Len(f.called), NEW k \in 1..Len(f.called), f.called[j] = f.called[k]
                 PROVE  j = k
      BY <1>2
    <2>1. j < k \/ j = k \/ k < j BY <1>2
    <2> QED BY <1>2, <1>3, <2>1
  <1>5. Cardinality(Range(f.called)) = Len(f.called) BY <1>2, <1>4, InjectiveSeq
  <1> QED BY <1>1, <1>5 DEF CallsInOrder

\* For any number of identifiers, listeners and messages: whatever listeners do
\* to the bus while they are called, its lists stay sound, what waits in the
\* queue has its idle, and a dispatch calls everybody who was there all the time
\* exactly once, unless somebody disconnects the listener that is being called.
THEOREM SoundBus == Spec => []BusIsSound
  <1>1. IInv => BusIsSound
    BY TypesAreOK, NobodyIsLeftOut DEF BusIsSound, IInv, Scheduled, QueueIsScheduled
  <1> QED BY <1>1, Invariant, PTL
=============================================================================
