----------------------------- MODULE MessageBus -----------------------------
(* LapizMessageBus (lapiz-message-bus.c): the bus on which the plugins of a   *)
(* window talk to each other.  Everything runs in one thread, but listeners   *)
(* are called in the middle of a dispatch and may do to the bus whatever they *)
(* like: connect and disconnect, send another message, at once or later, or   *)
(* run a main loop of their own (a dialog), in which the idle of the bus      *)
(* fires again.  The call stack is part of the state.                         *)
EXTENDS Naturals, FiniteSets, SequencesExt

CONSTANTS
    Identifiers,  \* object path and method of a message
    Funcs,        \* callbacks
    MaxListeners, \* bound: how many listeners are connected in all
    MaxSends,     \* bound: how many messages are sent in all
    MaxDepth      \* bound: height of the call stack

ASSUME DepthAssumption == MaxDepth \in Nat

VARIABLES
    types,     \* the registered message types
    listeners, \* the listeners of each identifier, in order: their ids and callbacks
    blocked,   \* the blocked listeners
    nextId,
    queue,     \* message_queue, the last message sent first
    idleId,    \* idle_id is set
    idle,      \* idle_dispatch is scheduled
    stack,     \* the calls in progress, the outermost first
    sent,      \* how many messages have been sent
    started,   \* history: the queued messages dispatched so far, in that order
    severed    \* history: a listener disconnected itself while it was called

vars == <<types, listeners, blocked, nextId, queue, idleId, idle, stack, sent, started, severed>>
registry == <<types, listeners, blocked, nextId>>

None == 0
Ids(i) == {listeners[i][k].id : k \in DOMAIN listeners[i]}
AllIds == UNION {Ids(i) : i \in Identifiers}

Drain(batch) == [kind |-> "drain", batch |-> batch, at |-> 0]

\* due: history, the listeners that have been there, unblocked, ever since the
\* dispatch began; called: history, the listeners called
Dispatch(m, first) ==
    [kind |-> "dispatch", msg |-> m, item |-> first,
     due |-> Ids(m.of) \ blocked, called |-> <<>>]

Top == Last(stack)
Calls(f) == f.kind = "dispatch" /\ f.item # None

Init ==
    /\ types = Identifiers /\ listeners = [i \in Identifiers |-> <<>>]
    /\ blocked = {} /\ nextId = 0
    /\ queue = <<>> /\ idleId = FALSE /\ idle = FALSE /\ stack = <<>>
    /\ sent = 0 /\ started = <<>> /\ severed = FALSE

\* A listener that is being called may do everything an application may.
Free == stack # <<>> => Calls(Top)

-----------------------------------------------------------------------------
(***************************************************************************)
(* Registration of types, and listeners.                                   *)
(***************************************************************************)

\* lapiz_message_bus_register: only once
Register(i) ==
    /\ Free /\ i \notin types
    /\ types' = types \union {i}
    /\ UNCHANGED <<listeners, blocked, nextId, queue, idleId, idle, stack, sent, started, severed>>

\* lapiz_message_bus_unregister: what is queued stays, and so do the listeners
Unregister(i) ==
    /\ Free /\ i \in types
    /\ types' = types \ {i}
    /\ UNCHANGED <<listeners, blocked, nextId, queue, idleId, idle, stack, sent, started, severed>>

\* lapiz_message_bus_connect, add_listener
Connect(i, func) ==
    /\ Free /\ nextId < MaxListeners
    /\ nextId' = nextId + 1
    /\ listeners' = [listeners EXCEPT ![i] = Append(@, [id |-> nextId', func |-> func])]
    /\ UNCHANGED <<types, blocked, queue, idleId, idle, stack, sent, started, severed>>

\* What a call in progress makes of the removal of a listener.  The loop of a
\* listener that is removed while it is called goes on from a freed element: it
\* stops there (a crash, the other outcome, ends everything).
AfterRemoval(f, l, i) ==
    IF f.kind = "drain" THEN f
    ELSE [f EXCEPT !.item = IF f.msg.of = i /\ f.item = l THEN None ELSE @,
                   !.due = @ \ {l}]

\* remove_listener of the k-th listener.  The Message of an identifier stays
\* without listeners: its removal looks for it under a wrong key.
RemoveListener(i, k) ==
    LET l == listeners[i][k].id
    IN  /\ listeners' = [listeners EXCEPT ![i] = RemoveAt(@, k)]
        /\ blocked' = blocked \ {l}
        /\ stack' = [n \in DOMAIN stack |-> AfterRemoval(stack[n], l, i)]
        /\ severed' = (severed \/ \E n \in DOMAIN stack : Calls(stack[n]) /\ stack[n].item = l)
        /\ UNCHANGED <<types, nextId, queue, idleId, idle, sent, started>>

\* lapiz_message_bus_disconnect
Disconnect(l) ==
    /\ Free
    /\ \E i \in Identifiers : \E k \in DOMAIN listeners[i] :
          listeners[i][k].id = l /\ RemoveListener(i, k)

\* lapiz_message_bus_disconnect_by_func: the first one that matches
DisconnectByFunc(i, func) ==
    /\ Free
    /\ \E k \in DOMAIN listeners[i] :
          /\ listeners[i][k].func = func
          /\ \A j \in 1..(k - 1) : listeners[i][j].func # func
          /\ RemoveListener(i, k)

\* lapiz_message_bus_block
Block(l) ==
    /\ Free /\ l \in AllIds \ blocked
    /\ blocked' = blocked \union {l}
    /\ stack' = [k \in DOMAIN stack |->
                    IF stack[k].kind = "drain" THEN stack[k] ELSE [stack[k] EXCEPT !.due = @ \ {l}]]
    /\ UNCHANGED <<types, listeners, nextId, queue, idleId, idle, sent, started, severed>>

\* lapiz_message_bus_unblock
Unblock(l) ==
    /\ Free /\ l \in blocked
    /\ blocked' = blocked \ {l}
    /\ UNCHANGED <<types, listeners, nextId, queue, idleId, idle, stack, sent, started, severed>>

-----------------------------------------------------------------------------
(***************************************************************************)
(* Messages.                                                               *)
(***************************************************************************)

Message(i) == [n |-> sent + 1, of |-> i]

\* lapiz_message_bus_send, create_message and send_message_real
SendMessage(i) ==
    /\ Free /\ sent < MaxSends /\ i \in types
    /\ sent' = sent + 1
    /\ queue' = <<Message(i)>> \o queue
    /\ idleId' = TRUE
    /\ idle' = (idle \/ ~idleId)
    /\ UNCHANGED <<registry, stack, started, severed>>

\* Mutant: whoever is blocked when his turn comes still stops the loop.
NextFrom_StopsAtBlocked(i, k) ==
    IF k \in DOMAIN listeners[i] /\ listeners[i][k].id \notin blocked
    THEN listeners[i][k].id ELSE None

\* The next listener the loop of dispatch_message_real calls: at k or behind.
NextFrom(i, k) ==
    LET there == {j \in k..Len(listeners[i]) : listeners[i][j].id \notin blocked}
    IN IF there = {} THEN None ELSE listeners[i][Min(there)].id

\* lapiz_message_bus_dispatch_real and dispatch_message_real, up to the first call
BeginDispatch(m) ==
    LET first == NextFrom(m.of, 1)
        frame == Dispatch(m, first)
    IN [frame EXCEPT !.called = IF first = None THEN <<>> ELSE <<first>>]

\* lapiz_message_bus_send_sync
SendSync(i) ==
    /\ Free /\ sent < MaxSends /\ i \in types /\ Len(stack) < MaxDepth
    /\ sent' = sent + 1
    /\ stack' = Append(stack, BeginDispatch(Message(i)))
    /\ UNCHANGED <<registry, queue, idleId, idle, started, severed>>

\* The loop of a dispatch goes on to the next listener.
Onward(f, next) == [f EXCEPT !.item = next, !.called = IF next = None THEN @ ELSE Append(@, next)]

\* A listener returns, and the loop goes on.
Return ==
    /\ stack # <<>> /\ Calls(Top)
    /\ LET i    == Top.msg.of
           here == CHOOSE k \in DOMAIN listeners[i] : listeners[i][k].id = Top.item
       IN stack' = [stack EXCEPT ![Len(stack)] = Onward(@, NextFrom(i, here + 1))]
    /\ UNCHANGED <<registry, queue, idleId, idle, sent, started, severed>>

EndDispatch ==
    /\ stack # <<>> /\ Top.kind = "dispatch" /\ Top.item = None
    /\ stack' = Front(stack)
    /\ UNCHANGED <<registry, queue, idleId, idle, sent, started, severed>>

\* Mutant: the queue is drained as it is kept, the last message first.
Batch_AsKept == queue

Batch == Reverse(queue)

IdleIdWhileDraining == FALSE

\* idle_dispatch begins: from the main loop, or from one that a listener runs
IdleDispatch ==
    /\ idle /\ Free /\ Len(stack) + 1 < MaxDepth
    /\ idle' = FALSE /\ idleId' = IdleIdWhileDraining
    /\ queue' = <<>>
    /\ stack' = Append(stack, Drain(Batch))
    /\ UNCHANGED <<registry, sent, started, severed>>

\* Mutant: one message per idle.
Goes_Once(f) == f.batch # <<>> /\ f.at = 0

Goes(f) == f.at < Len(f.batch)

\* idle_dispatch takes the next message of its list, or ends.
DrainNext ==
    /\ stack # <<>> /\ Top.kind = "drain"
    /\ IF Goes(Top)
       THEN LET m == Top.batch[Top.at + 1]
            IN /\ stack' = Append([stack EXCEPT ![Len(stack)].at = @ + 1], BeginDispatch(m))
               /\ started' = Append(started, m.n)
       ELSE stack' = Front(stack) /\ UNCHANGED started
    /\ UNCHANGED <<registry, queue, idleId, idle, sent, severed>>

-----------------------------------------------------------------------------

Next ==
    \/ \E i \in Identifiers : Register(i) \/ Unregister(i) \/ SendMessage(i) \/ SendSync(i)
    \/ \E i \in Identifiers, func \in Funcs : Connect(i, func) \/ DisconnectByFunc(i, func)
    \/ \E l \in AllIds : Disconnect(l) \/ Block(l) \/ Unblock(l)
    \/ Return \/ EndDispatch \/ IdleDispatch \/ DrainNext

Spec == Init /\ [][Next]_vars

\* Listeners return, and the main loop runs its idles (this one with high
\* priority).
Fairness == WF_vars(Return) /\ WF_vars(EndDispatch) /\ WF_vars(DrainNext) /\ WF_vars(IdleDispatch)

FairSpec == Spec /\ Fairness

-----------------------------------------------------------------------------

Frames(k) == {f \in Range(stack) : f.kind = k}
Numbers(messages) == {messages[k].n : k \in DOMAIN messages}

\* The variables have their types; a listener has one place.
TypeOK ==
    /\ types \subseteq Identifiers /\ blocked \subseteq AllIds /\ AllIds \subseteq 1..nextId
    /\ \A i, j \in Identifiers : i # j => Ids(i) \intersect Ids(j) = {}
    /\ \A i \in Identifiers : Len(listeners[i]) = Cardinality(Ids(i))
    /\ Len(stack) <= MaxDepth /\ Len(queue) + Len(started) <= sent
    /\ \A f \in Frames("dispatch") : f.item = None \/ f.item \in Ids(f.msg.of)

\* A message that waits has its idle: nothing is left in the queue for good
\* because it was sent while the queue was drained.
QueueIsScheduled == queue # <<>> => idle

\* When a dispatch ends, every listener that was there all the time has been
\* called, whatever the others did to the list, and nobody twice; unless a
\* listener disconnected itself.
EverybodyIsCalledOnce ==
    \A f \in Frames("dispatch") :
        /\ Cardinality(Range(f.called)) = Len(f.called)
        /\ f.item = None /\ ~severed => f.due \subseteq Range(f.called)

\* Queued messages are dispatched in the order in which they were sent.  One is
\* overtaken only while an outer idle_dispatch still has it in its list and a
\* listener runs a main loop, never by a message of the same list, and never
\* while it is in the queue.
InTheOrderSent ==
    \A n \in Range(started) : \A m \in (1..n) \ Range(started) :
        /\ m \notin Numbers(queue)
        /\ \A f \in Frames("drain") : m \in Numbers(f.batch) =>
               m \in Numbers(SubSeq(f.batch, f.at + 1, Len(f.batch))) /\ n \notin Numbers(f.batch)

\* A message that is queued is dispatched in the end.
MessagesAreDispatched ==
    \A n \in 1..MaxSends :
        n \in Numbers(queue) ~> n \in Range(started)

\* Whatever listeners do to the bus while they are called, its lists stay sound
\* and nobody is left out.
BusIsSound == TypeOK /\ QueueIsScheduled /\ EverybodyIsCalledOnce
=============================================================================
