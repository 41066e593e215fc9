----------------------------- MODULE SessionsProofs -----------------------------
(* Proofs about Logout, for any windows and documents and any number of       *)
(* messages and edits: client, application and session manager keep to the    *)
(* protocol whenever a shutdown is cancelled or the connection breaks, and    *)
(* what the user did not give up is not lost.  And about OpenFiles, for any   *)
(* files in any number of tabs and windows: of the copies of a file one can   *)
(* be edited unasked, and what was asked for, by whomever, is shown.          *)
EXTENDS Sessions, SequenceLemmas

USE WindowsAssumption

-----------------------------------------------------------------------------
(***************************************************************************)
(* The inductive invariant.                                                *)
(***************************************************************************)

Words == {"InteractRequest", "InteractDone", "InteractCancel", "SaveYourselfDone"}
Clients ==
    [state : ClientStates, connected : BOOLEAN, expecting : BOOLEAN, needQuitRequested : BOOLEAN,
     initialProperties : BOOLEAN, emitQuit : BOOLEAN, emitCancelled : BOOLEAN,
     saveMyself : BOOLEAN, idle : BOOLEAN, out : Seq(Words), quit : BOOLEAN, astray : BOOLEAN]
Managers ==
    [phase : {"idle", "saving", "interacting", "done", "gone"}, shutdown : BOOLEAN,
     cancelled : BOOLEAN, left : Nat]
Messages ==
    [kind : {"SaveYourself", "Interact", "SaveComplete", "ShutdownCancelled", "Die"},
     shutdown : BOOLEAN, interact : BOOLEAN]
UpToTwo == {<<>>} \union {<<m>> : m \in Messages} \union {<<end, m>> : end, m \in Messages}

Typed ==
    /\ client \in Clients /\ manager \in Managers /\ inbox \in Seq(Messages)
    /\ dirtyList \in Seq(AllWindows) /\ watched \subseteq AllWindows
    /\ toSave \in [AllWindows -> SUBSET Docs]
    /\ \A w \in AllWindows : \A d \in toSave[w] : WindowOf[d] = w
    /\ \/ dialog = NoDialog
       \/ \E w \in AllWindows, docs \in SUBSET Docs :
             dialog = [window |-> w, docs |-> docs] /\ \A d \in docs : WindowOf[d] = w
    /\ modified \subseteq Docs /\ saving \subseteq Docs /\ covered \subseteq Docs
    /\ asked \in BOOLEAN /\ mishap \in BOOLEAN

Waiting == {"IDLE", "SHUTDOWN_CANCELLED"}

\* Answers of the client, and what remains of them on their way.
Answers == { <<"InteractCancel", "SaveYourselfDone">>, <<"InteractDone", "SaveYourselfDone">>,
             <<"SaveYourselfDone">> }

IsSaveYourself(m) == m.kind = "SaveYourself"
IsEnd(m)          == m.kind \in {"SaveComplete", "ShutdownCancelled"}

\* Where a SaveYourself may be that nobody has called off: c is the client, and
\* the messages in are on their way to it.
InProgress(c, in) ==
    \/ /\ c.out = <<>> /\ ~c.saveMyself
       /\ \/ \E m \in Messages : in = <<m>> /\ IsSaveYourself(m) /\ c.state \in Waiting
          \/ \E m, end \in Messages : /\ in = <<end, m>> /\ IsSaveYourself(m) /\ IsEnd(end)
                                      /\ c.state = "SAVE_YOURSELF_DONE"
          \/ in = <<Message("Interact")>> /\ c.state = "INTERACT_REQUEST"
          \/ in = <<>> /\ c.state = "INTERACT"
    \/ in = <<>> /\ c.out = <<>> /\ c.saveMyself /\ c.state = "SHUTDOWN_CANCELLED"
    \/ in = <<>> /\ ~c.saveMyself /\ c.state = "SAVE_YOURSELF_DONE" /\ c.out \in Answers
    \/ in = <<>> /\ ~c.saveMyself /\ c.state = "INTERACT_REQUEST" /\ c.out = <<"InteractRequest">>

\* The request of the client to interact came when the manager had called it off.
Refused(c, in) ==
    in = <<>> /\ c.out = <<>> /\ ~c.saveMyself /\ c.state = "INTERACT_REQUEST"

\* The client knows that the SaveYourself is called off.
CalledOff(c, in) ==
    /\ in = <<>> /\ ~c.saveMyself /\ c.state \in Waiting
    /\ c.out \in Answers \union {<<>>, <<"InteractRequest", "SaveYourselfDone">>}

Cancellation == Message("ShutdownCancelled")

\* The cancellation is on its way, behind what the manager sent before.
BeingCancelled(c, in) ==
    \E q \in UpToTwo : in = Append(q, Cancellation) /\ (InProgress(c, q) \/ Refused(c, q))

Idling(c, in) ==
    /\ c.out = <<>> /\ ~c.saveMyself
    /\ \/ in = <<>> /\ c.state \in Waiting
       \/ (\E end \in Messages : in = <<end>> /\ IsEnd(end)) /\ c.state = "SAVE_YOURSELF_DONE"

Gone(c, in) ==
    /\ c.out = <<>> /\ ~c.saveMyself
    /\ c.connected => in = <<Message("Die")>> /\ c.state = "SAVE_YOURSELF_DONE"
    /\ ~c.connected => in = <<>> /\ c.state \in {"CONNECTION_CLOSED", "IDLE"}

Open == {"saving", "interacting"}

Exchange(c, m, in) ==
    /\ m.phase = "idle" => Idling(c, in)
    /\ m.phase \in Open /\ ~m.cancelled => InProgress(c, in)
    /\ m.phase \in Open /\ m.cancelled => CalledOff(c, in) \/ BeingCancelled(c, in)
    /\ m.phase = "done" => /\ in = <<>> /\ c.out = <<>> /\ ~c.saveMyself
                           /\ c.state = "SAVE_YOURSELF_DONE" /\ ~m.cancelled
    /\ m.phase = "gone" => Gone(c, in)
    /\ m.phase # "gone" => c.connected /\ ~c.emitQuit /\ ~c.quit /\ c.state # "CONNECTION_CLOSED"
    /\ ~c.astray
    /\ c.expecting => c.state \in {"IDLE", "CONNECTION_CLOSED"}

\* The application is at rest, unless it has been asked and has not answered:
\* it asks in one window at a time.
AtRest == dirtyList = <<>> /\ dialog = NoDialog /\ watched = {}
Manners ==
    /\ \/ AtRest
       \/ /\ client.state \in {"INTERACT", "SHUTDOWN_CANCELLED", "CONNECTION_CLOSED"}
          /\ ~client.emitCancelled /\ ~client.emitQuit /\ ~client.quit
    /\ client.emitCancelled => client.state \in {"SHUTDOWN_CANCELLED", "CONNECTION_CLOSED"}
    /\ watched # {} => dialog = NoDialog /\ \E w \in AllWindows : watched = {w}

\* What the user has not decided on is in a window whose turn comes, in the
\* dialog, or among what is being saved.
Accounted ==
    asked => \A d \in modified \ covered :
        /\ WindowOf[d] \in Range(dirtyList)
        /\ dialog.window = WindowOf[d] => d \in dialog.docs
        /\ WindowOf[d] \in watched => d \in toSave[WindowOf[d]]

IInv == Typed /\ Exchange(client, manager, inbox) /\ Manners /\ Accounted

-----------------------------------------------------------------------------
(***************************************************************************)
(* What the functions of the client make of its record.                    *)
(***************************************************************************)

\* The fields by which the client is connected, and ends.
Bearing(c) == <<c.connected, c.emitQuit, c.emitCancelled, c.quit, c.astray>>

LEMMA OutIs ==
    ASSUME NEW c \in Clients
    PROVE  /\ c.out \in Seq(Words) /\ <<>> \in Seq(Words)
           /\ \A a, b \in Words : c.out \o <<a>> \in Seq(Words) /\ c.out \o <<a, b>> \in Seq(Words)
  <1>1. c.out \in Seq(Words) BY DEF Clients
  <1>2. ASSUME NEW a \in Words, NEW b \in Words
        PROVE  <<a>> \in Seq(Words) /\ <<a, b>> \in Seq(Words)
    OBVIOUS
  <1> QED BY <1>1, <1>2, ConcatProperties

LEMMA PendingEventsAre ==
    ASSUME NEW c \in Clients
    PROVE  LET r == UpdatePendingEvents(c)
           IN  /\ r \in Clients /\ Bearing(r) = Bearing(c) /\ r.expecting = c.expecting
               /\ r.state = c.state /\ r.out = c.out /\ r.saveMyself = c.saveMyself
  BY DEF UpdatePendingEvents, Clients, Bearing

\* do_save_yourself and xsmp_save_yourself: the client asks to interact, or has
\* saved itself, or waits until the application knows of the last cancellation.
Asks(r, c)  == r.state = "INTERACT_REQUEST" /\ r.out = c.out \o <<"InteractRequest">>
Saves(r, c) == r.state = "SAVE_YOURSELF_DONE" /\ r.out = c.out \o <<"SaveYourselfDone">>

LEMMA DoSaveYourselfIs ==
    ASSUME NEW c \in Clients
    PROVE  LET r == DoSaveYourself(c)
           IN  /\ r \in Clients /\ Bearing(r) = Bearing(c) /\ r.expecting = c.expecting
               /\ IF c.state = "SHUTDOWN_CANCELLED"
                  THEN r.state = c.state /\ r.out = c.out /\ r.saveMyself
                  ELSE r.saveMyself = c.saveMyself /\ (Asks(r, c) \/ Saves(r, c))
  <1> DEFINE r == DoSaveYourself(c)
  <1>1. CASE c.state = "SHUTDOWN_CANCELLED"
    <2> DEFINE d == [c EXCEPT !.saveMyself = TRUE]
    <2>1. /\ d \in Clients /\ Bearing(d) = Bearing(c) /\ d.expecting = c.expecting
          /\ d.state = c.state /\ d.out = c.out /\ d.saveMyself
      BY DEF Clients, Bearing
    <2>2. r = UpdatePendingEvents(d) BY <1>1 DEF DoSaveYourself
    <2> HIDE DEF d, r
    <2> QED BY <1>1, <2>1, <2>2, PendingEventsAre DEF r
  <1>2. CASE c.state # "SHUTDOWN_CANCELLED"
    <2>1. CASE c.needQuitRequested
      <3>1. PICK out \in Seq(Words) : out = c.out \o <<"InteractRequest">> BY OutIs DEF Words
      <3>2. r = [c EXCEPT !.state = "INTERACT_REQUEST", !.out = out]
        BY <1>2, <2>1, <3>1 DEF DoSaveYourself, Send, Clients
      <3> HIDE DEF r
      <3>3. r \in Clients BY <3>2 DEF Clients, ClientStates
      <3>4. Bearing(r) = Bearing(c) /\ r.expecting = c.expecting /\ r.saveMyself = c.saveMyself /\ Asks(r, c)
        BY <3>1, <3>2 DEF Clients, Bearing, Asks
      <3> QED BY <1>2, <3>3, <3>4 DEF r
    <2>2. CASE ~c.needQuitRequested
      <3>1. PICK out \in Seq(Words) : out = c.out \o <<"SaveYourselfDone">> BY OutIs DEF Words
      <3>2. r = [c EXCEPT !.state = "SAVE_YOURSELF_DONE", !.out = out]
        BY <1>2, <2>2, <3>1 DEF DoSaveYourself, Send, Clients
      <3> HIDE DEF r
      <3>3. r \in Clients BY <3>2 DEF Clients, ClientStates
      <3>4. Bearing(r) = Bearing(c) /\ r.expecting = c.expecting /\ r.saveMyself = c.saveMyself /\ Saves(r, c)
        BY <3>1, <3>2 DEF Clients, Bearing, Saves
      <3> QED BY <1>2, <3>3, <3>4 DEF r
    <2> QED BY <2>1, <2>2
  <1> QED BY <1>1, <1>2

\* What the exchange with the manager depends on.
Alike(r, c) ==
    /\ Bearing(r) = Bearing(c) /\ r.expecting = c.expecting /\ r.state = c.state
    /\ r.out = c.out /\ r.saveMyself = c.saveMyself

LEMMA SaveYourselfIs ==
    ASSUME NEW c \in Clients, c.state \in Waiting, c.expecting => c.state = "IDLE",
           NEW shutdown \in BOOLEAN, NEW interact \in BOOLEAN
    PROVE  LET r == SaveYourself(c, shutdown, interact)
           IN  /\ r \in Clients /\ Bearing(r) = Bearing(c) /\ ~r.expecting
               /\ IF c.state = "SHUTDOWN_CANCELLED"
                  THEN r.state = c.state /\ r.out = c.out /\ r.saveMyself
                  ELSE r.saveMyself = c.saveMyself /\ (Asks(r, c) \/ Saves(r, c))
  <1> DEFINE r == SaveYourself(c, shutdown, interact)
  <1>1. PICK ready \in Clients :
           /\ ready = IF c.initialProperties THEN SetInitialProperties(c) ELSE c
           /\ Alike(ready, c)
    <2>1. CASE ~c.initialProperties BY <2>1 DEF Alike
    <2>2. CASE c.initialProperties
      <3>a. PICK d : d = [c EXCEPT !.initialProperties = FALSE] OBVIOUS
      <3>1. d \in Clients /\ Alike(d, c) BY <3>a DEF Clients, Alike, Bearing
      <3>2. SetInitialProperties(c) = UpdatePendingEvents(d) BY <3>a DEF SetInitialProperties
      <3>3. UpdatePendingEvents(d) \in Clients /\ Alike(UpdatePendingEvents(d), d)
        BY <3>1, PendingEventsAre DEF Alike
      <3>4. Alike(UpdatePendingEvents(d), c) BY <3>1, <3>3 DEF Alike
      <3> QED BY <2>2, <3>2, <3>3, <3>4
    <2> QED BY <2>1, <2>2
  <1>a. PICK started : started = [ready EXCEPT !.expecting = FALSE] OBVIOUS
  <1>2. /\ started \in Clients /\ ~started.expecting /\ started.state = c.state /\ started.out = c.out
        /\ started.saveMyself = c.saveMyself /\ Bearing(started) = Bearing(c)
    BY <1>1, <1>a DEF Clients, Alike, Bearing
  <1>3. c.state \in {"IDLE", "SHUTDOWN_CANCELLED"} BY DEF Waiting
  <1>4. CASE ready.expecting /\ ~shutdown /\ ~interact
    <2>1. c.state = "IDLE" BY <1>1, <1>4 DEF Alike
    <2>2. PICK out \in Seq(Words) : out = started.out \o <<"SaveYourselfDone">> BY <1>2, OutIs DEF Words
    <2>3. r = [started EXCEPT !.state = "SAVE_YOURSELF_DONE", !.out = out]
      BY <1>1, <1>2, <1>3, <1>4, <1>a, <2>2 DEF SaveYourself, Send, Clients
    <2> HIDE DEF r
    <2>4. r \in Clients BY <1>2, <2>3 DEF Clients, ClientStates
    <2>5. /\ Bearing(r) = Bearing(started) /\ ~r.expecting /\ r.saveMyself = started.saveMyself
          /\ Saves(r, c)
      BY <1>2, <2>2, <2>3 DEF Clients, Bearing, Saves
    <2> QED BY <1>2, <2>1, <2>4, <2>5 DEF r
  <1>5. CASE ~(ready.expecting /\ ~shutdown /\ ~interact)
    <2>a. PICK d : d = [started EXCEPT !.needQuitRequested = shutdown /\ interact] OBVIOUS
    <2>1. /\ d \in Clients /\ ~d.expecting /\ d.state = c.state /\ d.out = c.out
          /\ d.saveMyself = c.saveMyself /\ Bearing(d) = Bearing(c)
      BY <1>2, <2>a DEF Clients, Bearing
    <2>2. r = DoSaveYourself(d)
      BY <1>1, <1>2, <1>3, <1>5, <1>a, <2>a DEF SaveYourself
    <2> HIDE DEF r
    <2>3. /\ r \in Clients /\ Bearing(r) = Bearing(d) /\ r.expecting = d.expecting
          /\ IF d.state = "SHUTDOWN_CANCELLED"
             THEN r.state = d.state /\ r.out = d.out /\ r.saveMyself
             ELSE r.saveMyself = d.saveMyself /\ (Asks(r, d) \/ Saves(r, d))
      BY <2>1, <2>2, DoSaveYourselfIs
    <2> QED BY <2>1, <2>3 DEF Asks, Saves, r
  <1> QED BY <1>4, <1>5

LEMMA ShutdownCancelledIs ==
    ASSUME NEW c \in Clients
    PROVE  LET r == ShutdownCancelled(c)
           IN  /\ r \in Clients /\ Bearing(r) = Bearing(c) /\ r.expecting = c.expecting
               /\ CASE c.state = "SAVE_YOURSELF_DONE" ->
                         r.state = "IDLE" /\ r.out = c.out /\ r.saveMyself = c.saveMyself
                    [] c.state = "SHUTDOWN_CANCELLED" ->
                         r.state = c.state /\ r.out = c.out /\ ~r.saveMyself
                    [] c.state = "INTERACT" ->
                         /\ r.state = "SHUTDOWN_CANCELLED" /\ r.saveMyself = c.saveMyself
                         /\ r.out = c.out \o <<"SaveYourselfDone">>
                    [] OTHER ->
                         /\ r.state = "IDLE" /\ r.saveMyself = c.saveMyself
                         /\ r.out = c.out \o <<"SaveYourselfDone">>
  <1> DEFINE r == ShutdownCancelled(c)
  <1>1. CASE c.state = "SAVE_YOURSELF_DONE"
    BY <1>1 DEF ShutdownCancelled, Clients, ClientStates, Bearing
  <1>2. CASE c.state = "SHUTDOWN_CANCELLED"
    <2>a. PICK d : d = [c EXCEPT !.saveMyself = FALSE] OBVIOUS
    <2>1. /\ d \in Clients /\ Bearing(d) = Bearing(c)
          /\ d.expecting = c.expecting /\ d.state = c.state /\ d.out = c.out /\ ~d.saveMyself
      BY <2>a DEF Clients, Bearing
    <2>2. r = UpdatePendingEvents(d) BY <1>2, <2>a DEF ShutdownCancelled
    <2> HIDE DEF r
    <2> QED BY <1>2, <2>1, <2>2, PendingEventsAre DEF r
  <1>3. CASE c.state \notin {"SAVE_YOURSELF_DONE", "SHUTDOWN_CANCELLED"}
    <2>1. PICK out \in Seq(Words) : out = c.out \o <<"SaveYourselfDone">> BY OutIs DEF Words
    <2>2. PICK state \in ClientStates :
             state = IF c.state = "INTERACT" THEN "SHUTDOWN_CANCELLED" ELSE "IDLE"
      BY DEF ClientStates
    <2>3. r = [c EXCEPT !.state = state, !.out = out]
      BY <1>3, <2>1, <2>2 DEF ShutdownCancelled, Send, Clients
    <2> HIDE DEF r
    <2>4. /\ r \in Clients /\ Bearing(r) = Bearing(c) /\ r.expecting = c.expecting
          /\ r.state = state /\ r.out = out /\ r.saveMyself = c.saveMyself
      BY <2>3 DEF Clients, Bearing
    <2> QED BY <1>3, <2>1, <2>2, <2>4 DEF r
  <1> QED BY <1>1, <1>2, <1>3

LEMMA DisconnectIs ==
    ASSUME NEW c \in Clients, c.connected
    PROVE  LET r == Disconnect(c)
           IN  /\ r \in Clients /\ ~r.connected /\ r.state = "CONNECTION_CLOSED"
               /\ ~r.saveMyself /\ r.out = <<>> /\ r.expecting = c.expecting /\ r.emitQuit = c.emitQuit
               /\ r.emitCancelled = c.emitCancelled /\ r.quit = c.quit /\ r.astray = c.astray
  <1> DEFINE r == Disconnect(c)
  <1>a. PICK d : d = [c EXCEPT !.connected = FALSE, !.state = "CONNECTION_CLOSED",
                               !.saveMyself = FALSE, !.out = <<>>]
    OBVIOUS
  <1>1. /\ d \in Clients
           /\ ~d.connected /\ d.state = "CONNECTION_CLOSED"
           /\ ~d.saveMyself /\ d.out = <<>> /\ d.expecting = c.expecting /\ d.emitQuit = c.emitQuit
           /\ d.emitCancelled = c.emitCancelled /\ d.quit = c.quit /\ d.astray = c.astray
    BY <1>a, OutIs DEF Clients, ClientStates
  <1>2. r = UpdatePendingEvents(d) BY <1>a DEF Disconnect
  <1> HIDE DEF r
  <1> QED BY <1>1, <1>2, PendingEventsAre DEF Bearing, r

LEMMA DieIs ==
    ASSUME NEW c \in Clients, c.connected
    PROVE  LET r == Die(c)
           IN  /\ r \in Clients /\ ~r.connected /\ r.state = "CONNECTION_CLOSED" /\ r.quit
               /\ ~r.saveMyself /\ r.out = <<>> /\ r.expecting = c.expecting /\ r.astray = c.astray
               /\ r.emitCancelled = c.emitCancelled
  <1>1. PICK d : d = Disconnect(c) OBVIOUS
  <1>2. d \in Clients /\ ~d.connected /\ d.state = "CONNECTION_CLOSED" /\ ~d.saveMyself /\ d.out = <<>>
        /\ d.expecting = c.expecting /\ d.astray = c.astray /\ d.emitCancelled = c.emitCancelled
    BY <1>1, DisconnectIs
  <1>3. Die(c) = [d EXCEPT !.quit = TRUE] BY <1>1 DEF Die
  <1> QED BY <1>2, <1>3 DEF Clients

LEMMA WillQuitIs ==
    ASSUME NEW c \in Clients, NEW yes \in BOOLEAN,
           c.state \in {"CONNECTION_CLOSED", "SHUTDOWN_CANCELLED", "INTERACT"}
    PROVE  LET r == WillQuit(c, yes)
           IN  /\ r \in Clients /\ r.connected = c.connected /\ r.quit = c.quit /\ r.astray = c.astray
               /\ r.expecting = c.expecting /\ r.saveMyself = c.saveMyself
               /\ r.emitQuit = (c.emitQuit \/ c.state = "CONNECTION_CLOSED")
               /\ r.emitCancelled = (c.emitCancelled \/ c.state = "SHUTDOWN_CANCELLED")
               /\ IF c.state = "INTERACT"
                  THEN /\ r.state = "SAVE_YOURSELF_DONE"
                       /\ \E w \in {"InteractDone", "InteractCancel"} : r.out = c.out \o <<w, "SaveYourselfDone">>
                  ELSE r.state = c.state /\ r.out = c.out
  <1> DEFINE r == WillQuit(c, yes)
  <1>1. CASE c.state = "CONNECTION_CLOSED"
    <2>a. PICK d : d = [c EXCEPT !.emitQuit = TRUE] OBVIOUS
    <2>1. /\ d \in Clients /\ d.emitQuit /\ d.emitCancelled = c.emitCancelled
          /\ d.connected = c.connected /\ d.quit = c.quit /\ d.astray = c.astray
          /\ d.expecting = c.expecting /\ d.saveMyself = c.saveMyself /\ d.state = c.state /\ d.out = c.out
      BY <2>a DEF Clients
    <2>2. r = UpdatePendingEvents(d) BY <1>1, <2>a DEF WillQuit
    <2>3. d.emitQuit = (c.emitQuit \/ c.state = "CONNECTION_CLOSED") BY <1>1, <2>1
    <2>4. d.emitCancelled = (c.emitCancelled \/ c.state = "SHUTDOWN_CANCELLED")
      BY <1>1, <2>1 DEF Clients
    <2> HIDE DEF r
    <2>5. r \in Clients /\ Alike(r, d) BY <2>1, <2>2, PendingEventsAre DEF Alike
    <2> QED BY <1>1, <2>1, <2>3, <2>4, <2>5 DEF Alike, Bearing, r
  <1>2. CASE c.state = "SHUTDOWN_CANCELLED"
    <2>a. PICK d : d = [c EXCEPT !.emitCancelled = TRUE] OBVIOUS
    <2>1. /\ d \in Clients /\ d.emitCancelled /\ d.emitQuit = c.emitQuit
          /\ d.connected = c.connected /\ d.quit = c.quit /\ d.astray = c.astray
          /\ d.expecting = c.expecting /\ d.saveMyself = c.saveMyself /\ d.state = c.state /\ d.out = c.out
      BY <2>a DEF Clients
    <2>2. r = UpdatePendingEvents(d) BY <1>2, <2>a DEF WillQuit
    <2>3. d.emitCancelled = (c.emitCancelled \/ c.state = "SHUTDOWN_CANCELLED") BY <1>2, <2>1
    <2>4. d.emitQuit = (c.emitQuit \/ c.state = "CONNECTION_CLOSED")
      BY <1>2, <2>1 DEF Clients
    <2> HIDE DEF r
    <2>5. r \in Clients /\ Alike(r, d) BY <2>1, <2>2, PendingEventsAre DEF Alike
    <2> QED BY <1>2, <2>1, <2>3, <2>4, <2>5 DEF Alike, Bearing, r
  <1>3. CASE c.state = "INTERACT"
    <2>1. PICK w \in {"InteractDone", "InteractCancel"} : w = IF yes THEN "InteractDone" ELSE "InteractCancel"
      OBVIOUS
    <2>2. PICK out \in Seq(Words) : out = c.out \o <<w, "SaveYourselfDone">> BY OutIs DEF Words
    <2>3. r = [c EXCEPT !.state = "SAVE_YOURSELF_DONE", !.out = out]
      BY <1>3, <2>1, <2>2 DEF WillQuit, Send, Clients
    <2>4. c.emitQuit \in BOOLEAN /\ c.emitCancelled \in BOOLEAN BY DEF Clients
    <2> HIDE DEF r
    <2>5. /\ r \in Clients /\ r.connected = c.connected /\ r.quit = c.quit /\ r.astray = c.astray
          /\ r.expecting = c.expecting /\ r.saveMyself = c.saveMyself
          /\ r.emitQuit = c.emitQuit /\ r.emitCancelled = c.emitCancelled
          /\ r.state = "SAVE_YOURSELF_DONE" /\ r.out = out
      BY <2>3 DEF Clients, ClientStates
    <2> QED BY <1>3, <2>1, <2>2, <2>4, <2>5 DEF r
  <1> QED BY <1>1, <1>2, <1>3

\* The idle: it quits, or tells the application of a cancellation, after which a
\* SaveYourself that has waited is taken up.
LEMMA DoPendingEventsIs ==
    ASSUME NEW c \in Clients, c.saveMyself => c.state = "SHUTDOWN_CANCELLED"
    PROVE  LET r == DoPendingEvents(c)
           IN  /\ r \in Clients /\ r.connected = c.connected /\ r.astray = c.astray /\ r.expecting = c.expecting
               /\ \/ Alike(r, c)
                  \/ /\ c.emitQuit /\ r.state = c.state /\ r.out = c.out /\ r.saveMyself = c.saveMyself
                     /\ r.emitCancelled = c.emitCancelled /\ r.quit
                  \/ /\ c.emitCancelled /\ ~r.emitCancelled /\ r.emitQuit = c.emitQuit /\ r.quit = c.quit
                     /\ ~r.saveMyself
                     /\ IF c.saveMyself THEN Asks(r, c) \/ Saves(r, c) ELSE r.state = "IDLE" /\ r.out = c.out
  <1> DEFINE r == DoPendingEvents(c)
  <1>1. CASE c.initialProperties
    <2>1. PICK d : d = [c EXCEPT !.initialProperties = FALSE] OBVIOUS
    <2>2. d \in Clients /\ Alike(d, c) BY <2>1 DEF Clients, Alike, Bearing
    <2>3. r = UpdatePendingEvents(d) BY <1>1, <2>1 DEF DoPendingEvents, SetInitialProperties
    <2> HIDE DEF r
    <2>4. r \in Clients /\ Alike(r, d) BY <2>2, <2>3, PendingEventsAre DEF Alike
    <2> QED BY <2>2, <2>4 DEF Alike, Bearing, r
  <1>a. PICK rest : rest = [c EXCEPT !.idle = FALSE] OBVIOUS
  <1>b. rest \in Clients /\ Alike(rest, c) BY <1>a DEF Clients, Alike, Bearing
  <1>2. CASE ~c.initialProperties /\ c.emitQuit
    <2>1. r = [rest EXCEPT !.emitQuit = FALSE, !.quit = TRUE] BY <1>2, <1>a DEF DoPendingEvents
    <2> HIDE DEF r
    <2>2. /\ r \in Clients /\ r.connected = rest.connected /\ r.astray = rest.astray
          /\ r.expecting = rest.expecting /\ r.state = rest.state /\ r.out = rest.out
          /\ r.saveMyself = rest.saveMyself /\ r.emitCancelled = rest.emitCancelled /\ r.quit
      BY <1>b, <2>1 DEF Clients
    <2> QED BY <1>2, <1>b, <2>2 DEF Alike, Bearing, r
  <1>3. CASE ~c.initialProperties /\ ~c.emitQuit /\ ~c.emitCancelled
    <2>1. CASE ~c.saveMyself
      <3>1. r = rest BY <1>3, <1>a, <2>1 DEF DoPendingEvents
      <3> QED BY <1>b, <3>1 DEF Alike, Bearing
    <2>2. CASE c.saveMyself
      <3>1. PICK d : d = [rest EXCEPT !.saveMyself = FALSE] OBVIOUS
      <3>2. d \in Clients /\ Bearing(d) = Bearing(rest) /\ d.expecting = rest.expecting
            /\ d.state = rest.state /\ d.out = rest.out
        BY <1>b, <3>1 DEF Clients, Bearing
      <3>3. r = DoSaveYourself(d) BY <1>3, <1>a, <2>2, <3>1 DEF DoPendingEvents
      <3>4. d.state = "SHUTDOWN_CANCELLED" BY <1>b, <2>2, <3>2 DEF Alike
      <3> HIDE DEF r
      <3>5. /\ r \in Clients /\ Bearing(r) = Bearing(d) /\ r.expecting = d.expecting
            /\ r.state = d.state /\ r.out = d.out /\ r.saveMyself
        BY <3>2, <3>3, <3>4, DoSaveYourselfIs
      <3>6. Alike(r, c) BY <1>b, <2>2, <3>2, <3>5, Zenon DEF Alike, Clients
      <3> QED BY <3>5, <3>6 DEF Alike, Bearing, r
    <2> QED BY <2>1, <2>2
  <1>4. CASE ~c.initialProperties /\ ~c.emitQuit /\ c.emitCancelled
    <2>1. PICK told : told = [rest EXCEPT !.emitCancelled = FALSE, !.state = "IDLE"] OBVIOUS
    <2>2. /\ told \in Clients /\ ~told.emitCancelled /\ told.state = "IDLE" /\ told.out = c.out
          /\ told.connected = c.connected /\ told.astray = c.astray /\ told.expecting = c.expecting
          /\ told.emitQuit = c.emitQuit /\ told.quit = c.quit /\ told.saveMyself = c.saveMyself
      BY <1>b, <2>1 DEF Clients, ClientStates, Alike, Bearing
    <2>3. CASE ~c.saveMyself
      <3>1. r = told BY <1>4, <1>a, <2>1, <2>3 DEF DoPendingEvents
      <3> QED BY <1>4, <2>2, <2>3, <3>1
    <2>4. CASE c.saveMyself
      <3>1. PICK d : d = [told EXCEPT !.saveMyself = FALSE] OBVIOUS
      <3>2. d \in Clients /\ Bearing(d) = Bearing(told) /\ d.expecting = told.expecting
            /\ d.state = told.state /\ d.out = told.out /\ ~d.saveMyself
        BY <2>2, <3>1 DEF Clients, Bearing
      <3>3. r = DoSaveYourself(d) BY <1>4, <1>a, <2>1, <2>4, <3>1 DEF DoPendingEvents
      <3> HIDE DEF r
      <3>4. /\ r \in Clients /\ Bearing(r) = Bearing(d) /\ r.expecting = d.expecting
            /\ r.saveMyself = d.saveMyself /\ (Asks(r, d) \/ Saves(r, d))
        BY <2>2, <3>2, <3>3, DoSaveYourselfIs
      <3>5. Asks(r, c) \/ Saves(r, c) BY <2>2, <3>2, <3>4 DEF Asks, Saves
      <3> QED BY <1>4, <2>2, <2>4, <3>2, <3>4, <3>5 DEF Bearing, r
    <2> QED BY <2>3, <2>4
  <1> QED BY <1>1, <1>2, <1>3, <1>4

-----------------------------------------------------------------------------
(***************************************************************************)
(* The exchange: what the manager sends.                                   *)
(***************************************************************************)

LEMMA MessageIs ==
    /\ \A kind \in {"SaveYourself", "Interact", "SaveComplete", "ShutdownCancelled", "Die"} :
          Message(kind) \in Messages /\ Message(kind).kind = kind
    /\ Cancellation \in Messages /\ IsEnd(Cancellation) /\ Cancellation.kind = "ShutdownCancelled"
  BY DEF Message, Messages, Cancellation, IsEnd

LEMMA InProgressIsShort ==
    ASSUME NEW c, NEW in, InProgress(c, in) \/ Refused(c, in) PROVE in \in UpToTwo
  BY MessageIs DEF InProgress, Refused, UpToTwo

\* The exchange depends on a few fields of the client.
LEMMA ExchangeIsAlike ==
    ASSUME NEW c, NEW r, NEW m, NEW in, Exchange(c, m, in),
           r.state = c.state, r.out = c.out, r.saveMyself = c.saveMyself, r.connected = c.connected,
           r.astray = c.astray, r.expecting = c.expecting,
           m.phase # "gone" => r.emitQuit = c.emitQuit /\ r.quit = c.quit
    PROVE  Exchange(r, m, in)
  <1>1. \A q : (InProgress(c, q) => InProgress(r, q)) /\ (Refused(c, q) => Refused(r, q))
    BY DEF InProgress, Refused
  <1>2. BeingCancelled(c, in) => BeingCancelled(r, in) BY <1>1 DEF BeingCancelled
  <1>3. /\ CalledOff(c, in) => CalledOff(r, in)
        /\ Idling(c, in) => Idling(r, in)
        /\ Gone(c, in) => Gone(r, in)
    BY DEF CalledOff, Idling, Gone
  <1> QED BY <1>1, <1>2, <1>3 DEF Exchange

LEMMA ManagerSavesIs ==
    ASSUME NEW c \in Clients, NEW m \in Managers, NEW in \in Seq(Messages), Exchange(c, m, in), m.phase = "idle",
           NEW save \in Messages, IsSaveYourself(save),
           NEW n, n.phase = "saving", n.cancelled = FALSE
    PROVE  Exchange(c, n, Append(in, save))
  <1>1. Idling(c, in) BY DEF Exchange
  <1>2. InProgress(c, Append(in, save))
    <2>1. CASE in = <<>> /\ c.state \in Waiting
      <3>1. Append(in, save) = <<save>> BY <2>1, ShortSequences
      <3> QED BY <1>1, <2>1, <3>1 DEF Idling, InProgress
    <2>2. ASSUME NEW end \in Messages, in = <<end>>, IsEnd(end), c.state = "SAVE_YOURSELF_DONE"
          PROVE  InProgress(c, Append(in, save))
      <3>1. Append(in, save) = <<end, save>> BY <2>2, ShortSequences
      <3> QED BY <1>1, <2>2, <3>1 DEF Idling, InProgress
    <2> QED BY <1>1, <2>1, <2>2 DEF Idling
  <1> QED BY <1>2 DEF Exchange, Open

LEMMA ManagerCancelsIs ==
    ASSUME NEW c \in Clients, NEW m \in Managers, NEW in \in Seq(Messages), Exchange(c, m, in),
           m.phase \in {"saving", "interacting", "done"}, ~m.cancelled,
           NEW n, n.cancelled = TRUE, n.phase = IF m.phase = "done" THEN "idle" ELSE m.phase
    PROVE  Exchange(c, n, Append(in, Cancellation))
  <1>1. CASE m.phase = "done"
    <2>1. Append(in, Cancellation) = <<Cancellation>> BY <1>1, ShortSequences DEF Exchange
    <2>2. Idling(c, Append(in, Cancellation)) BY <1>1, <2>1, MessageIs DEF Exchange, Idling
    <2> QED BY <1>1, <2>2 DEF Exchange, Open
  <1>2. CASE m.phase # "done"
    <2>1. InProgress(c, in) BY <1>2 DEF Exchange, Open
    <2>2. BeingCancelled(c, Append(in, Cancellation)) BY <2>1, InProgressIsShort DEF BeingCancelled
    <2> QED BY <1>2, <2>2 DEF Exchange, Open
  <1> QED BY <1>1, <1>2

LEMMA ManagerKillsIs ==
    ASSUME NEW c \in Clients, NEW m \in Managers, NEW in \in Seq(Messages), Exchange(c, m, in), m.phase = "done",
           NEW n, n.phase = "gone"
    PROVE  Exchange(c, n, Append(in, Message("Die")))
  <1>1. Append(in, Message("Die")) = <<Message("Die")>> BY ShortSequences DEF Exchange
  <1>2. Gone(c, Append(in, Message("Die"))) BY <1>1 DEF Exchange, Gone
  <1> QED BY <1>2 DEF Exchange, Open

\* The next message of the client: alone, or with a SaveYourselfDone behind it.
LEMMA OutIsShort ==
    ASSUME NEW out, out # <<>>,
           out \in Answers \union {<<>>, <<"InteractRequest">>, <<"InteractRequest", "SaveYourselfDone">>}
    PROVE  \/ out = <<"SaveYourselfDone">> /\ Head(out) = "SaveYourselfDone" /\ Tail(out) = <<>>
           \/ out = <<"InteractRequest">> /\ Head(out) = "InteractRequest" /\ Tail(out) = <<>>
           \/ /\ out = <<Head(out), "SaveYourselfDone">> /\ Tail(out) = <<"SaveYourselfDone">>
              /\ Head(out) \in {"InteractRequest", "InteractDone", "InteractCancel"}
  <1>1. ASSUME NEW a \in {"InteractRequest", "InteractDone", "InteractCancel"},
               out = <<a, "SaveYourselfDone">>
        PROVE  /\ out = <<Head(out), "SaveYourselfDone">> /\ Tail(out) = <<"SaveYourselfDone">>
               /\ Head(out) = a
    BY <1>1, ShortSequences
  <1>2. \/ \E a \in {"InteractRequest", "InteractDone", "InteractCancel"} : out = <<a, "SaveYourselfDone">>
        \/ out = <<"SaveYourselfDone">>
        \/ out = <<"InteractRequest">>
    BY DEF Answers
  <1>3. CASE \E a \in {"InteractRequest", "InteractDone", "InteractCancel"} : out = <<a, "SaveYourselfDone">>
    BY <1>1, <1>3
  <1>4. CASE out = <<"SaveYourselfDone">> BY <1>4, ShortSequences
  <1>5. CASE out = <<"InteractRequest">> BY <1>5, ShortSequences
  <1> QED BY <1>2, <1>3, <1>4, <1>5

LEMMA AnswerArrives ==
    ASSUME NEW c \in Clients, NEW m \in Managers, NEW in \in Seq(Messages), Exchange(c, m, in),
           m.phase # "gone", c.out # <<>>,
           NEW r, r = [c EXCEPT !.out = Tail(@)]
    PROVE  LET w == Head(c.out)
           IN  /\ w = "InteractRequest" /\ ~m.cancelled =>
                     \A n : n.phase = "interacting" /\ n.cancelled = m.cancelled =>
                               Exchange(r, n, Append(in, Message("Interact")))
               /\ w = "InteractRequest" /\ m.cancelled => Exchange(r, m, in)
               /\ w = "InteractDone" \/ (w = "InteractCancel" /\ m.cancelled) => Exchange(r, m, in)
               /\ w = "InteractCancel" /\ ~m.cancelled =>
                     \A n : n.phase = m.phase /\ n.cancelled = TRUE => Exchange(r, n, Append(in, Cancellation))
               /\ w = "SaveYourselfDone" /\ m.cancelled =>
                     \A n : n.phase = "idle" => Exchange(r, n, in)
               /\ w = "SaveYourselfDone" /\ ~m.cancelled =>
                     /\ \A n : n.phase = "done" /\ n.cancelled = FALSE => Exchange(r, n, in)
                     /\ \A n : n.phase = "idle" => Exchange(r, n, Append(in, Message("SaveComplete")))
               /\ r \in Clients
  <1>1. m.phase \in Open BY DEF Exchange, Idling, Managers, Open
  <1>2. /\ r.state = c.state /\ r.saveMyself = c.saveMyself /\ r.connected = c.connected
        /\ r.astray = c.astray /\ r.expecting = c.expecting /\ r.emitQuit = c.emitQuit /\ r.quit = c.quit
        /\ r.out = Tail(c.out)
    BY DEF Clients
  <1>3. \A n, i : /\ n.phase # "gone"
                  /\ n.phase = "idle" => Idling(r, i)
                  /\ n.phase \in Open /\ ~n.cancelled => InProgress(r, i)
                  /\ n.phase \in Open /\ n.cancelled => CalledOff(r, i) \/ BeingCancelled(r, i)
                  /\ n.phase = "done" => /\ i = <<>> /\ r.out = <<>> /\ ~r.saveMyself
                                         /\ r.state = "SAVE_YOURSELF_DONE" /\ ~n.cancelled
                  => Exchange(r, n, i)
    BY <1>2 DEF Exchange
  <1>4. r \in Clients /\ Head(c.out) \in Words
    <2>1. c.out \in Seq(Words) BY DEF Clients
    <2>2. Tail(c.out) \in Seq(Words) /\ Head(c.out) \in Words BY <2>1, HeadTailProperties
    <2> QED BY <2>2 DEF Clients
  <1>5. PICK w : w = Head(c.out) OBVIOUS
  <1>6. CASE ~m.cancelled
    <2>1. in = <<>> /\ ~c.saveMyself /\ InProgress(c, in) BY <1>1, <1>6 DEF Exchange, InProgress
    <2>2. CASE c.state = "SAVE_YOURSELF_DONE" /\ c.out \in Answers
      <3>1. CASE w = "SaveYourselfDone" /\ r.out = <<>>
        <4>1. Append(in, Message("SaveComplete")) = <<Message("SaveComplete")>> BY <2>1, ShortSequences
        <4>2. Idling(r, Append(in, Message("SaveComplete")))
          BY <1>2, <2>1, <2>2, <3>1, <4>1, MessageIs DEF Idling, IsEnd
        <4>3. \A n : n.phase = "done" /\ n.cancelled = FALSE => Exchange(r, n, in)
          BY <1>2, <1>3, <2>1, <2>2, <3>1 DEF Open
        <4>4. \A n : n.phase = "idle" => Exchange(r, n, Append(in, Message("SaveComplete")))
          BY <1>3, <4>2 DEF Open
        <4> QED BY <1>4, <1>5, <1>6, <3>1, <4>3, <4>4
      <3>2. CASE w \in {"InteractDone", "InteractCancel"} /\ r.out = <<"SaveYourselfDone">>
        <4>1. InProgress(r, in) BY <1>2, <2>1, <2>2, <3>2 DEF InProgress, Answers
        <4>2. Exchange(r, m, in) BY <1>1, <1>3, <1>6, <4>1 DEF Open
        <4>3. BeingCancelled(r, Append(in, Cancellation)) BY <4>1, InProgressIsShort DEF BeingCancelled
        <4>4. \A n : n.phase = m.phase /\ n.cancelled = TRUE => Exchange(r, n, Append(in, Cancellation))
          BY <1>1, <1>3, <4>3 DEF Open
        <4> QED BY <1>4, <1>5, <1>6, <3>2, <4>2, <4>4
      <3> QED BY <1>2, <1>5, <2>2, <3>1, <3>2, OutIsShort DEF Answers
    <2>3. CASE c.state = "INTERACT_REQUEST" /\ c.out = <<"InteractRequest">>
      <3>1. w = "InteractRequest" /\ r.out = <<>> BY <1>2, <1>5, <2>3, ShortSequences
      <3>2. Append(in, Message("Interact")) = <<Message("Interact")>> BY <2>1, ShortSequences
      <3>3. InProgress(r, Append(in, Message("Interact"))) BY <1>2, <2>1, <2>3, <3>1, <3>2 DEF InProgress
      <3>4. \A n : n.phase = "interacting" /\ n.cancelled = m.cancelled =>
                      Exchange(r, n, Append(in, Message("Interact")))
        BY <1>3, <1>6, <3>3 DEF Open
      <3> QED BY <1>4, <1>5, <1>6, <3>1, <3>4
    <2> QED BY <2>1, <2>2, <2>3 DEF InProgress
  <1>7. CASE m.cancelled /\ CalledOff(c, in)
    <2>1. in = <<>> /\ ~r.saveMyself /\ r.state \in Waiting BY <1>2, <1>7 DEF CalledOff
    <2>2. CASE w = "SaveYourselfDone" /\ r.out = <<>>
      <3>1. Idling(r, in) BY <2>1, <2>2 DEF Idling
      <3>2. \A n : n.phase = "idle" => Exchange(r, n, in) BY <1>3, <3>1 DEF Open
      <3> QED BY <1>4, <1>5, <1>7, <2>2, <3>2
    <2>3. CASE w # "SaveYourselfDone" /\ r.out = <<"SaveYourselfDone">>
      <3>1. CalledOff(r, in) BY <2>1, <2>3 DEF CalledOff, Answers
      <3>2. Exchange(r, m, in) BY <1>1, <1>3, <1>7, <3>1 DEF Open
      <3> QED BY <1>4, <1>5, <1>7, <2>3, <3>2
    <2>4. c.out \in Answers \union {<<>>, <<"InteractRequest", "SaveYourselfDone">>} BY <1>7 DEF CalledOff
    <2>5. c.out # <<"InteractRequest">>
      <3>1. Len(<<"InteractRequest">>) = 1 /\ Len(<<"InteractRequest", "SaveYourselfDone">>) = 2
            /\ <<"InteractRequest">>[1] = "InteractRequest" /\ <<"SaveYourselfDone">>[1] = "SaveYourselfDone"
            /\ Len(<<"InteractDone", "SaveYourselfDone">>) = 2 /\ Len(<<"InteractCancel", "SaveYourselfDone">>) = 2
        OBVIOUS
      <3>2. <<>> # <<"InteractRequest">> BY ShortSequences
      <3>3. <<"SaveYourselfDone">> # <<"InteractRequest">> BY <3>1
      <3>4. \A a, b : <<a, b>> # <<"InteractRequest">> OBVIOUS
      <3> QED BY <2>4, <3>2, <3>3, <3>4 DEF Answers
    <2> QED BY <1>2, <1>5, <2>2, <2>3, <2>4, <2>5, OutIsShort
  <1>8. CASE m.cancelled /\ BeingCancelled(c, in)
    <2>1. PICK q \in UpToTwo : in = Append(q, Cancellation) /\ (InProgress(c, q) \/ Refused(c, q))
      BY <1>8 DEF BeingCancelled
    <2>2. q = <<>> /\ ~c.saveMyself /\ InProgress(c, q) BY <2>1 DEF InProgress, Refused
    <2>3. CASE c.state = "SAVE_YOURSELF_DONE" /\ c.out \in Answers
      <3>1. CASE w = "SaveYourselfDone" /\ r.out = <<>>
        <4>1. in = <<Cancellation>> BY <2>1, <2>2, ShortSequences
        <4>2. Idling(r, in) BY <1>2, <2>2, <2>3, <3>1, <4>1, MessageIs DEF Idling
        <4>3. \A n : n.phase = "idle" => Exchange(r, n, in) BY <1>3, <4>2 DEF Open
        <4> QED BY <1>4, <1>5, <1>8, <3>1, <4>3
      <3>2. CASE w \in {"InteractDone", "InteractCancel"} /\ r.out = <<"SaveYourselfDone">>
        <4>1. InProgress(r, q) BY <1>2, <2>2, <2>3, <3>2 DEF InProgress, Answers
        <4>2. BeingCancelled(r, in) BY <2>1, <4>1 DEF BeingCancelled
        <4>3. Exchange(r, m, in) BY <1>1, <1>3, <1>8, <4>2 DEF Open
        <4> QED BY <1>4, <1>5, <1>8, <3>2, <4>3
      <3> QED BY <1>2, <1>5, <2>3, <3>1, <3>2, OutIsShort DEF Answers
    <2>4. CASE c.state = "INTERACT_REQUEST" /\ c.out = <<"InteractRequest">>
      <3>1. w = "InteractRequest" /\ r.out = <<>> BY <1>2, <1>5, <2>4, ShortSequences
      <3>2. Refused(r, q) BY <1>2, <2>2, <2>4, <3>1 DEF Refused
      <3>3. BeingCancelled(r, in) BY <2>1, <3>2 DEF BeingCancelled
      <3>4. Exchange(r, m, in) BY <1>1, <1>3, <1>8, <3>3 DEF Open
      <3> QED BY <1>4, <1>5, <1>8, <3>1, <3>4
    <2> QED BY <2>2, <2>3, <2>4 DEF InProgress
  <1> QED BY <1>1, <1>6, <1>7, <1>8 DEF Exchange

-----------------------------------------------------------------------------
(***************************************************************************)
(* The exchange: what the client does.                                     *)
(***************************************************************************)

\* The client after a message of the manager.
Handled(c, m) ==
    CASE m.kind = "SaveYourself" -> SaveYourself(c, m.shutdown, m.interact)
      [] m.kind = "Interact" -> Interact(c)
      [] m.kind = "ShutdownCancelled" -> ShutdownCancelled(c)
      [] m.kind = "SaveComplete" -> SaveComplete(c)
      [] m.kind = "Die" -> Die(c)

\* A SaveYourself finds the client waiting for it.
LEMMA SaveYourselfArrives ==
    ASSUME NEW c \in Clients, NEW m \in Messages, IsSaveYourself(m), c.state \in Waiting,
           c.out = <<>>, ~c.saveMyself, c.expecting => c.state = "IDLE"
    PROVE  LET r == Handled(c, m)
           IN  /\ r \in Clients /\ InProgress(r, <<>>) /\ Bearing(r) = Bearing(c) /\ ~r.expecting
               /\ c.state = "SHUTDOWN_CANCELLED" => r.state = c.state
  <1>1. PICK r : r = SaveYourself(c, m.shutdown, m.interact) OBVIOUS
  <1>2. m.shutdown \in BOOLEAN /\ m.interact \in BOOLEAN BY DEF Messages
  <1>3. /\ r \in Clients /\ Bearing(r) = Bearing(c) /\ ~r.expecting
        /\ IF c.state = "SHUTDOWN_CANCELLED"
           THEN r.state = c.state /\ r.out = c.out /\ r.saveMyself
           ELSE r.saveMyself = c.saveMyself /\ (Asks(r, c) \/ Saves(r, c))
    BY <1>1, <1>2, SaveYourselfIs
  <1>4. Handled(c, m) = r BY <1>1 DEF Handled, IsSaveYourself
  <1>5. CASE c.state = "SHUTDOWN_CANCELLED" BY <1>3, <1>4, <1>5 DEF InProgress
  <1>6. CASE c.state # "SHUTDOWN_CANCELLED"
    <2>1. CASE Asks(r, c)
      <3>1. r.out = <<"InteractRequest">> BY <2>1, ShortSequences DEF Asks
      <3> QED BY <1>3, <1>4, <1>6, <2>1, <3>1 DEF InProgress, Asks
    <2>2. CASE Saves(r, c)
      <3>1. r.out = <<"SaveYourselfDone">> BY <2>2, ShortSequences DEF Saves
      <3> QED BY <1>3, <1>4, <1>6, <2>2, <3>1 DEF InProgress, Saves, Answers
    <2> QED BY <1>3, <1>6, <2>1, <2>2
  <1> QED BY <1>5, <1>6

LEMMA EndArrives ==
    ASSUME NEW c \in Clients, NEW m \in Messages, IsEnd(m), c.state = "SAVE_YOURSELF_DONE"
    PROVE  LET r == Handled(c, m)
           IN  /\ r \in Clients /\ Bearing(r) = Bearing(c) /\ r.expecting = c.expecting
               /\ r.state = "IDLE" /\ r.out = c.out /\ r.saveMyself = c.saveMyself
  <1>1. CASE m.kind = "SaveComplete"
    <2>1. Handled(c, m) = [c EXCEPT !.state = "IDLE"] BY <1>1 DEF Handled, SaveComplete
    <2> QED BY <2>1 DEF Clients, ClientStates, Bearing
  <1>2. CASE m.kind = "ShutdownCancelled"
    <2>1. Handled(c, m) = ShutdownCancelled(c) BY <1>2 DEF Handled
    <2> QED BY <2>1, ShutdownCancelledIs
  <1> QED BY <1>1, <1>2 DEF IsEnd

LEMMA InteractArrives ==
    ASSUME NEW c \in Clients, c.state = "INTERACT_REQUEST"
    PROVE  LET r == Handled(c, Message("Interact"))
           IN  /\ r \in Clients /\ Bearing(r) = Bearing(c) /\ r.expecting = c.expecting
               /\ r.state = "INTERACT" /\ r.out = c.out /\ r.saveMyself = c.saveMyself
  <1>1. Handled(c, Message("Interact")) = [c EXCEPT !.state = "INTERACT"]
    BY DEF Handled, Message, Interact
  <1> QED BY <1>1 DEF Clients, ClientStates, Bearing

\* What a message of the manager leaves of a SaveYourself in progress.
Proceeds(c, q) ==
    LET r == Handled(c, Head(q))
    IN  /\ r \in Clients /\ InProgress(r, Tail(q)) /\ Bearing(r) = Bearing(c)
        /\ r.expecting => r.state = "IDLE"
        /\ c.state = "SHUTDOWN_CANCELLED" => r.state = c.state
        /\ c.state # "INTERACT"
        /\ Head(q).kind = "Interact" => r.state = "INTERACT"

LEMMA ProgressArrives ==
    ASSUME NEW c \in Clients, NEW q, q # <<>>, InProgress(c, q), c.expecting => c.state = "IDLE"
    PROVE  Proceeds(c, q)
  <1>0. c.out = <<>> /\ ~c.saveMyself BY DEF InProgress
  <1>1. ASSUME NEW m \in Messages, q = <<m>>, IsSaveYourself(m), c.state \in Waiting
        PROVE  Proceeds(c, q)
    <2>1. Head(q) = m /\ Tail(q) = <<>> BY <1>1, ShortSequences
    <2>2. m.kind # "Interact" /\ c.state # "INTERACT" BY <1>1 DEF IsSaveYourself, Waiting
    <2> QED BY <1>0, <1>1, <2>1, <2>2, SaveYourselfArrives DEF Proceeds
  <1>2. ASSUME NEW m \in Messages, NEW end \in Messages, q = <<end, m>>, IsSaveYourself(m), IsEnd(end),
               c.state = "SAVE_YOURSELF_DONE"
        PROVE  Proceeds(c, q)
    <2>1. Head(q) = end /\ Tail(q) = <<m>> BY <1>2, ShortSequences
    <2>2. PICK r : r = Handled(c, end) OBVIOUS
    <2>3. r \in Clients /\ Bearing(r) = Bearing(c) /\ r.expecting = c.expecting
          /\ r.state = "IDLE" /\ r.out = c.out /\ r.saveMyself = c.saveMyself
      BY <1>2, <2>2, EndArrives
    <2>4. InProgress(r, <<m>>) BY <1>0, <1>2, <2>3 DEF InProgress, Waiting
    <2>5. end.kind # "Interact" BY <1>2 DEF IsEnd
    <2> QED BY <1>2, <2>1, <2>2, <2>3, <2>4, <2>5 DEF Proceeds
  <1>3. ASSUME q = <<Message("Interact")>>, c.state = "INTERACT_REQUEST"
        PROVE  Proceeds(c, q)
    <2>1. Head(q) = Message("Interact") /\ Tail(q) = <<>> BY <1>3, ShortSequences
    <2>2. PICK r : r = Handled(c, Message("Interact")) OBVIOUS
    <2>3. r \in Clients /\ Bearing(r) = Bearing(c) /\ r.expecting = c.expecting
          /\ r.state = "INTERACT" /\ r.out = c.out /\ r.saveMyself = c.saveMyself
      BY <1>3, <2>2, InteractArrives
    <2>4. InProgress(r, <<>>) BY <1>0, <2>3 DEF InProgress
    <2> QED BY <1>3, <2>1, <2>2, <2>3, <2>4 DEF Proceeds
  <1> QED BY <1>1, <1>2, <1>3 DEF InProgress

LEMMA CancellationArrives ==
    ASSUME NEW c \in Clients, NEW in, InProgress(c, <<>>) \/ Refused(c, <<>>), in = <<Cancellation>>
    PROVE  LET r == Handled(c, Head(in))
           IN  /\ r \in Clients /\ CalledOff(r, Tail(in)) /\ Bearing(r) = Bearing(c)
               /\ r.expecting = c.expecting
               /\ c.state \in {"INTERACT", "SHUTDOWN_CANCELLED"} => r.state = "SHUTDOWN_CANCELLED"
  <1>1. PICK r : r = ShutdownCancelled(c) OBVIOUS
  <1>2. Tail(in) = <<>> /\ Handled(c, Head(in)) = r
    <2>1. Head(in) = Cancellation /\ Tail(in) = <<>> BY ShortSequences
    <2> QED BY <1>1, <2>1, MessageIs DEF Handled
  <1>3. /\ r \in Clients /\ Bearing(r) = Bearing(c) /\ r.expecting = c.expecting
        /\ CASE c.state = "SAVE_YOURSELF_DONE" ->
                  r.state = "IDLE" /\ r.out = c.out /\ r.saveMyself = c.saveMyself
             [] c.state = "SHUTDOWN_CANCELLED" ->
                  r.state = c.state /\ r.out = c.out /\ ~r.saveMyself
             [] c.state = "INTERACT" ->
                  /\ r.state = "SHUTDOWN_CANCELLED" /\ r.saveMyself = c.saveMyself
                  /\ r.out = c.out \o <<"SaveYourselfDone">>
             [] OTHER ->
                  /\ r.state = "IDLE" /\ r.saveMyself = c.saveMyself
                  /\ r.out = c.out \o <<"SaveYourselfDone">>
    BY <1>1, ShutdownCancelledIs
  <1>4. \A m, end \in Messages : <<m>> # <<>> /\ <<end, m>> # <<>> BY ShortSequences
  <1>5. <<Message("Interact")>> # <<>> BY ShortSequences
  <1>6. \/ c.state = "INTERACT" /\ c.out = <<>> /\ ~c.saveMyself
        \/ c.state = "SHUTDOWN_CANCELLED" /\ c.out = <<>> /\ c.saveMyself
        \/ c.state = "SAVE_YOURSELF_DONE" /\ c.out \in Answers /\ ~c.saveMyself
        \/ c.state = "INTERACT_REQUEST" /\ c.out \in {<<>>, <<"InteractRequest">>} /\ ~c.saveMyself
    BY <1>4, <1>5 DEF InProgress, Refused
  <1>7. <<>> \o <<"SaveYourselfDone">> = <<"SaveYourselfDone">>
        /\ <<"InteractRequest">> \o <<"SaveYourselfDone">> = <<"InteractRequest", "SaveYourselfDone">>
        /\ <<"SaveYourselfDone">> \in Answers
    BY ShortSequences DEF Answers
  <1>8. CalledOff(r, <<>>)
    <2>1. CASE c.state = "INTERACT" /\ c.out = <<>> /\ ~c.saveMyself
      BY <1>3, <1>7, <2>1 DEF CalledOff, Waiting
    <2>2. CASE c.state = "SHUTDOWN_CANCELLED" /\ c.out = <<>> /\ c.saveMyself
      BY <1>3, <2>2 DEF CalledOff, Waiting
    <2>3. CASE c.state = "SAVE_YOURSELF_DONE" /\ c.out \in Answers /\ ~c.saveMyself
      BY <1>3, <2>3 DEF CalledOff, Waiting
    <2>4. CASE c.state = "INTERACT_REQUEST" /\ c.out \in {<<>>, <<"InteractRequest">>} /\ ~c.saveMyself
      BY <1>3, <1>7, <2>4 DEF CalledOff, Waiting
    <2> QED BY <1>6, <2>1, <2>2, <2>3, <2>4
  <1> QED BY <1>2, <1>3, <1>8

LEMMA Receives ==
    ASSUME NEW c \in Clients, NEW m \in Managers, NEW in \in Seq(Messages), Exchange(c, m, in),
           in # <<>>, c.connected
    PROVE  LET r == Handled(c, Head(in))
           IN  /\ r \in Clients /\ Exchange(r, m, Tail(in)) /\ r.emitCancelled = c.emitCancelled
               /\ c.state \in {"INTERACT", "SHUTDOWN_CANCELLED"} =>
                     r.state = "SHUTDOWN_CANCELLED" /\ r.emitQuit = c.emitQuit /\ r.quit = c.quit
               /\ r.quit => c.quit \/ c.state = "SAVE_YOURSELF_DONE"
               /\ c.state # "CONNECTION_CLOSED"
               /\ Head(in).kind = "Interact" => r.state = "INTERACT"
  <1>1. PICK r : r = Handled(c, Head(in)) OBVIOUS
  <1>2. /\ m.phase # "gone" => /\ c.connected /\ ~c.emitQuit /\ ~c.quit /\ c.state # "CONNECTION_CLOSED"
        /\ ~c.astray /\ (m.phase # "gone" /\ c.expecting => c.state = "IDLE")
    BY DEF Exchange
  <1>3. ASSUME m.phase # "gone", r \in Clients, Bearing(r) = Bearing(c), r.expecting => r.state = "IDLE",
               r.state # "CONNECTION_CLOSED",
               m.phase = "idle" => Idling(r, Tail(in)),
               m.phase \in Open /\ ~m.cancelled => InProgress(r, Tail(in)),
               m.phase \in Open /\ m.cancelled => CalledOff(r, Tail(in)) \/ BeingCancelled(r, Tail(in)),
               m.phase # "done"
        PROVE  Exchange(r, m, Tail(in)) /\ r.emitCancelled = c.emitCancelled /\ r.emitQuit = c.emitQuit
               /\ r.quit = c.quit
    BY <1>2, <1>3 DEF Exchange, Bearing
  <1>4. CASE m.phase = "idle"
    <2>1. PICK end \in Messages : in = <<end>> /\ IsEnd(end) /\ c.state = "SAVE_YOURSELF_DONE"
      BY <1>4 DEF Exchange, Idling
    <2>2. Head(in) = end /\ Tail(in) = <<>> BY <2>1, ShortSequences
    <2>3. r \in Clients /\ Bearing(r) = Bearing(c) /\ r.expecting = c.expecting
          /\ r.state = "IDLE" /\ r.out = c.out /\ r.saveMyself = c.saveMyself
      BY <1>1, <2>1, <2>2, EndArrives
    <2>4. Idling(r, Tail(in)) BY <1>4, <2>2, <2>3 DEF Exchange, Idling, Waiting
    <2>5. end.kind # "Interact" BY <2>1 DEF IsEnd
    <2> QED BY <1>1, <1>3, <1>4, <2>1, <2>2, <2>3, <2>4, <2>5 DEF Open
  <1>5. CASE m.phase \in Open /\ ~m.cancelled
    <2>1. InProgress(c, in) BY <1>5 DEF Exchange
    <2>2. Proceeds(c, in) BY <1>2, <1>5, <2>1, ProgressArrives DEF Open
    <2>3. r.state # "CONNECTION_CLOSED" BY <1>1, <2>2 DEF Proceeds, InProgress, Waiting
    <2> QED BY <1>1, <1>2, <1>3, <1>5, <2>2, <2>3 DEF Proceeds, Open
  <1>6. CASE m.phase \in Open /\ m.cancelled
    <2>1. PICK q \in UpToTwo : in = Append(q, Cancellation) /\ (InProgress(c, q) \/ Refused(c, q))
      BY <1>6 DEF Exchange, CalledOff, BeingCancelled
    <2>2. CASE q = <<>>
      <3>1. in = <<Cancellation>> /\ Head(in) = Cancellation BY <2>1, <2>2, ShortSequences
      <3>2. r \in Clients /\ CalledOff(r, Tail(in)) /\ Bearing(r) = Bearing(c) /\ r.expecting = c.expecting
            /\ (c.state \in {"INTERACT", "SHUTDOWN_CANCELLED"} => r.state = "SHUTDOWN_CANCELLED")
        BY <1>1, <2>1, <2>2, <3>1, CancellationArrives
      <3>3. r.expecting => r.state = "IDLE"
        BY <1>2, <1>6, <2>1, <2>2, <3>2, ShortSequences DEF InProgress, Refused, Open
      <3>4. r.state # "CONNECTION_CLOSED" BY <3>2 DEF CalledOff, Waiting
      <3>5. Head(in).kind # "Interact" BY <3>1, MessageIs
      <3> QED BY <1>1, <1>2, <1>3, <1>6, <3>2, <3>3, <3>4, <3>5 DEF Open
    <2>3. CASE q # <<>>
      <3>1. InProgress(c, q) BY <2>1, <2>3 DEF Refused
      <3>2. Proceeds(c, q) BY <1>2, <1>6, <2>3, <3>1, ProgressArrives DEF Open
      <3>3. Head(in) = Head(q) /\ Tail(in) = Append(Tail(q), Cancellation)
        <4>1. ASSUME NEW a \in Messages, q = <<a>>
              PROVE  Head(in) = Head(q) /\ Tail(in) = Append(Tail(q), Cancellation)
          <5>1. in = <<a, Cancellation>> /\ Tail(q) = <<>> BY <2>1, <4>1, ShortSequences
          <5> QED BY <4>1, <5>1, ShortSequences
        <4>2. ASSUME NEW a \in Messages, NEW b \in Messages, q = <<a, b>>
              PROVE  Head(in) = Head(q) /\ Tail(in) = Append(Tail(q), Cancellation)
          <5>1. PICK d : d = Cancellation OBVIOUS
          <5>2. Append(<<a, b>>, d) = <<a, b, d>> BY AppendToTwo
          <5>3. Head(<<a, b, d>>) = a /\ Tail(<<a, b, d>>) = <<b, d>> BY ShortSequences
          <5>4. Head(<<a, b>>) = a /\ Tail(<<a, b>>) = <<b>> BY ShortSequences
          <5>5. Append(<<b>>, d) = <<b, d>> BY ShortSequences
          <5> QED BY <2>1, <4>2, <5>1, <5>2, <5>3, <5>4, <5>5
        <4> QED BY <2>3, <4>1, <4>2 DEF UpToTwo
      <3>4. InProgress(r, Tail(q)) BY <1>1, <3>2, <3>3 DEF Proceeds
      <3>5. BeingCancelled(r, Tail(in)) BY <3>3, <3>4, InProgressIsShort DEF BeingCancelled
      <3>6. r.state # "CONNECTION_CLOSED" BY <3>4 DEF InProgress, Waiting
      <3> QED BY <1>1, <1>2, <1>3, <1>6, <3>2, <3>3, <3>5, <3>6 DEF Proceeds, Open
    <2> QED BY <2>2, <2>3
  <1>7. CASE m.phase = "gone"
    <2>1. in = <<Message("Die")>> /\ c.state = "SAVE_YOURSELF_DONE" BY <1>7 DEF Exchange, Gone
    <2>2. Head(in) = Message("Die") /\ Tail(in) = <<>> BY <2>1, ShortSequences
    <2>3. r = Die(c) /\ Head(in).kind = "Die" BY <1>1, <2>2, MessageIs DEF Handled
    <2>4. /\ r \in Clients /\ ~r.connected /\ r.state = "CONNECTION_CLOSED" /\ r.quit
          /\ ~r.saveMyself /\ r.out = <<>> /\ r.expecting = c.expecting /\ r.astray = c.astray
          /\ r.emitCancelled = c.emitCancelled
      BY <2>3, DieIs
    <2>5. Gone(r, Tail(in)) BY <2>2, <2>4 DEF Gone
    <2>6. Exchange(r, m, Tail(in)) BY <1>2, <1>7, <2>4, <2>5 DEF Exchange, Open
    <2> QED BY <1>1, <2>1, <2>3, <2>4, <2>6
  <1>8. m.phase # "done" BY DEF Exchange
  <1>9. c.state # "CONNECTION_CLOSED" BY DEF Exchange, Gone
  <1> QED BY <1>4, <1>5, <1>6, <1>7, <1>8, <1>9 DEF Managers, Open

\* Only a client that has not yet told the application of a cancellation keeps a
\* SaveYourself for later.
LEMMA KeptForLater ==
    ASSUME NEW c \in Clients, NEW m \in Managers, NEW in, Exchange(c, m, in), c.saveMyself
    PROVE  c.state = "SHUTDOWN_CANCELLED"
  <1>1. ~Idling(c, in) /\ ~Gone(c, in) /\ ~CalledOff(c, in) /\ \A q : ~Refused(c, q)
    BY DEF Idling, Gone, CalledOff, Refused
  <1>2. \A q : InProgress(c, q) => c.state = "SHUTDOWN_CANCELLED" BY DEF InProgress
  <1>3. InProgress(c, in) \/ BeingCancelled(c, in) BY <1>1 DEF Exchange, Managers, Open
  <1> QED BY <1>1, <1>2, <1>3 DEF BeingCancelled

Late == {"SHUTDOWN_CANCELLED", "CONNECTION_CLOSED"}

LEMMA WillQuits ==
    ASSUME NEW c \in Clients, NEW m \in Managers, NEW in, Exchange(c, m, in), NEW yes \in BOOLEAN,
           c.state \in {"INTERACT"} \union Late, c.emitCancelled => c.state \in Late
    PROVE  LET r == WillQuit(c, yes)
           IN  /\ r \in Clients /\ Exchange(r, m, in) /\ r.quit = c.quit
               /\ r.emitCancelled => r.state \in Late
  <1>0. c.state \in {"CONNECTION_CLOSED", "SHUTDOWN_CANCELLED", "INTERACT"} BY DEF Late
  <1>1. PICK r : r = WillQuit(c, yes) OBVIOUS
  <1>2. /\ r \in Clients /\ r.connected = c.connected /\ r.quit = c.quit /\ r.astray = c.astray
        /\ r.expecting = c.expecting /\ r.saveMyself = c.saveMyself
        /\ r.emitQuit = (c.emitQuit \/ c.state = "CONNECTION_CLOSED")
        /\ r.emitCancelled = (c.emitCancelled \/ c.state = "SHUTDOWN_CANCELLED")
        /\ IF c.state = "INTERACT"
           THEN /\ r.state = "SAVE_YOURSELF_DONE"
                /\ \E w \in {"InteractDone", "InteractCancel"} : r.out = c.out \o <<w, "SaveYourselfDone">>
           ELSE r.state = c.state /\ r.out = c.out
    BY <1>0, <1>1, WillQuitIs
  <1>3. CASE c.state = "INTERACT"
    <2>1. ~Idling(c, in) /\ ~CalledOff(c, in) /\ (\A q : ~Refused(c, q)) /\ ~Gone(c, in)
      BY <1>3 DEF Idling, CalledOff, Refused, Gone, Waiting
    <2>2. \A q : InProgress(c, q) => q = <<>> /\ c.out = <<>> /\ ~c.saveMyself BY <1>3 DEF InProgress, Waiting
    <2>3. \A q : InProgress(c, q) => InProgress(r, q)
      <3> SUFFICES ASSUME NEW q, InProgress(c, q) PROVE InProgress(r, q) OBVIOUS
      <3>1. PICK w \in {"InteractDone", "InteractCancel"} : r.out = c.out \o <<w, "SaveYourselfDone">>
        BY <1>2, <1>3
      <3>a. <<>> \o <<w, "SaveYourselfDone">> = <<w, "SaveYourselfDone">> BY ShortSequences
      <3>2. r.out = <<w, "SaveYourselfDone">> BY <2>2, <3>1, <3>a
      <3> QED BY <1>2, <1>3, <2>2, <3>2 DEF InProgress, Answers
    <2>4. m.phase \in Open BY <1>3, <2>1 DEF Exchange, Managers, Open
    <2>5. /\ ~m.cancelled => InProgress(r, in)
          /\ m.cancelled => BeingCancelled(r, in)
      BY <2>1, <2>3, <2>4 DEF Exchange, BeingCancelled
    <2>6. ~r.emitQuit /\ ~r.quit /\ r.connected /\ ~r.astray /\ ~r.expecting /\ ~r.emitCancelled
          /\ r.state = "SAVE_YOURSELF_DONE"
      BY <1>2, <1>3, <2>4 DEF Exchange, Open, Late
    <2> QED BY <1>1, <1>2, <2>4, <2>5, <2>6 DEF Exchange, Open
  <1>4. CASE c.state # "INTERACT"
    <2>1. m.phase # "gone" => r.emitQuit = c.emitQuit /\ r.quit = c.quit
      BY <1>2 DEF Exchange, Clients
    <2>2. Exchange(r, m, in) BY <1>2, <1>4, <2>1, ExchangeIsAlike
    <2> QED BY <1>1, <1>2, <1>4, <2>2
  <1> QED BY <1>3, <1>4

LEMMA Idles ==
    ASSUME NEW c \in Clients, NEW m \in Managers, NEW in, Exchange(c, m, in),
           c.emitCancelled => c.state \in Late
    PROVE  LET r == DoPendingEvents(c)
           IN  /\ r \in Clients /\ Exchange(r, m, in)
               /\ r.emitCancelled => r.state \in Late
               /\ ~c.emitCancelled /\ ~c.emitQuit => Alike(r, c)
  <1>1. PICK r : r = DoPendingEvents(c) OBVIOUS
  <1>2. /\ r \in Clients /\ r.connected = c.connected /\ r.astray = c.astray /\ r.expecting = c.expecting
        /\ \/ Alike(r, c)
           \/ /\ c.emitQuit /\ r.state = c.state /\ r.out = c.out /\ r.saveMyself = c.saveMyself
              /\ r.emitCancelled = c.emitCancelled /\ r.quit
           \/ /\ c.emitCancelled /\ ~r.emitCancelled /\ r.emitQuit = c.emitQuit /\ r.quit = c.quit
              /\ ~r.saveMyself
              /\ IF c.saveMyself THEN Asks(r, c) \/ Saves(r, c) ELSE r.state = "IDLE" /\ r.out = c.out
    BY <1>1, KeptForLater, DoPendingEventsIs
  <1>3. CASE Alike(r, c)
    <2>1. Exchange(r, m, in) BY <1>3, ExchangeIsAlike DEF Alike, Bearing
    <2> QED BY <1>1, <1>2, <1>3, <2>1 DEF Alike, Bearing
  <1>4. CASE c.emitQuit /\ r.state = c.state /\ r.out = c.out /\ r.saveMyself = c.saveMyself
             /\ r.emitCancelled = c.emitCancelled /\ r.quit
    <2>1. m.phase = "gone" BY <1>4 DEF Exchange
    <2>2. Exchange(r, m, in) BY <1>2, <1>4, <2>1, ExchangeIsAlike
    <2> QED BY <1>1, <1>2, <1>4, <2>2
  <1>5. CASE /\ c.emitCancelled /\ ~r.emitCancelled /\ r.emitQuit = c.emitQuit /\ r.quit = c.quit
             /\ ~r.saveMyself
             /\ IF c.saveMyself THEN Asks(r, c) \/ Saves(r, c) ELSE r.state = "IDLE" /\ r.out = c.out
    <2>1. c.state \in Late BY <1>5
    <2>2. m.phase # "done" BY <2>1 DEF Exchange, Late
    <2>3. CASE m.phase = "gone"
      <3>1. Gone(c, in) BY <2>3 DEF Exchange
      <3>2. ~c.saveMyself /\ r.state = "IDLE" /\ r.out = c.out BY <1>5, <3>1 DEF Gone
      <3>3. Gone(r, in) BY <1>2, <1>5, <2>1, <3>1, <3>2 DEF Gone, Late
      <3>4. Exchange(r, m, in) BY <1>2, <2>3, <3>2, <3>3 DEF Exchange, Open
      <3> QED BY <1>1, <1>2, <1>5, <3>4
    <2>4. CASE m.phase # "gone"
      <3>1. c.state = "SHUTDOWN_CANCELLED" /\ ~c.expecting /\ ~c.astray /\ ~c.emitQuit /\ ~c.quit /\ c.connected
        BY <2>1, <2>4 DEF Exchange, Late
      <3>2. r.state \in {"IDLE", "INTERACT_REQUEST", "SAVE_YOURSELF_DONE"} BY <1>5 DEF Asks, Saves
      <3>3. \A q : InProgress(c, q) => InProgress(r, q)
        <4> SUFFICES ASSUME NEW q, InProgress(c, q) PROVE InProgress(r, q) OBVIOUS
        <4>1. CASE c.saveMyself
          <5>1. q = <<>> /\ c.out = <<>> BY <4>1 DEF InProgress
          <5>2. CASE Asks(r, c)
            <6>1. r.out = <<"InteractRequest">> BY <5>1, <5>2, ShortSequences DEF Asks
            <6> QED BY <1>5, <5>1, <5>2, <6>1 DEF InProgress, Asks
          <5>3. CASE Saves(r, c)
            <6>1. r.out = <<"SaveYourselfDone">> BY <5>1, <5>3, ShortSequences DEF Saves
            <6> QED BY <1>5, <5>1, <5>3, <6>1 DEF InProgress, Saves, Answers
          <5> QED BY <1>5, <4>1, <5>2, <5>3
        <4>2. CASE ~c.saveMyself
          BY <1>5, <3>1, <4>2 DEF InProgress, Waiting
        <4> QED BY <4>1, <4>2
      <3>4. \A q : ~Refused(c, q) BY <3>1 DEF Refused
      <3>5. BeingCancelled(c, in) => BeingCancelled(r, in) BY <3>3, <3>4 DEF BeingCancelled
      <3>6. (Idling(c, in) => Idling(r, in)) /\ (CalledOff(c, in) => CalledOff(r, in))
        BY <1>5, <3>1 DEF Idling, CalledOff, Waiting
      <3>7. Exchange(r, m, in) BY <1>2, <1>5, <2>2, <2>4, <3>1, <3>2, <3>3, <3>5, <3>6 DEF Exchange
      <3> QED BY <1>1, <1>2, <1>5, <3>7
    <2> QED BY <2>3, <2>4
  <1> QED BY <1>2, <1>3, <1>4, <1>5

LEMMA Breaks ==
    ASSUME NEW c \in Clients, NEW m \in Managers, NEW in, Exchange(c, m, in), c.connected,
           NEW n, n.phase = "gone"
    PROVE  Exchange(Disconnect(c), n, <<>>)
  <1>1. PICK r : r = Disconnect(c) OBVIOUS
  <1>2. /\ ~r.connected /\ r.state = "CONNECTION_CLOSED" /\ ~r.saveMyself /\ r.out = <<>> /\ r.astray = c.astray
    BY <1>1, DisconnectIs
  <1>3. Gone(r, <<>>) BY <1>2 DEF Gone
  <1> QED BY <1>1, <1>2, <1>3 DEF Exchange, Open

-----------------------------------------------------------------------------
(***************************************************************************)
(* The application.                                                        *)
(***************************************************************************)

\* client_quit_requested_cb lists every window with something to save.
LEMMA DirtyWindowsAre ==
    /\ DirtyWindows \in Seq(AllWindows)
    /\ \A w \in AllWindows : Unsaved(w) # {} => w \in Range(DirtyWindows)
  <1> DEFINE n == Len(Windows)
             S == Seq(AllWindows)
             Step(k, l) == IF Unsaved(Windows[k]) = {} THEN l ELSE <<Windows[k]>> \o l
             list == CHOOSE f : f = [k \in 0..n |-> IF k = 0 THEN <<>> ELSE Step(k, f[k - 1])]
             Dirty(i) == Unsaved(Windows[i]) # {}
             Listed(l, k) == \A i \in 1..k : Dirty(i) => Windows[i] \in Range(l)
  <1>1. n \in Nat /\ DOMAIN Windows = 1..n /\ \A i \in 1..n : Windows[i] \in AllWindows BY LenProperties
  <1>2. DirtyWindows = list[n] BY DEF DirtyWindows
  <1>3. <<>> \in S OBVIOUS
  <1>4. \A k \in 1..n, l \in S :
           /\ Step(k, l) \in S /\ Range(l) \subseteq Range(Step(k, l))
           /\ Dirty(k) => Windows[k] \in Range(Step(k, l))
    <2> SUFFICES ASSUME NEW k \in 1..n, NEW l \in S
                 PROVE  /\ Step(k, l) \in S /\ Range(l) \subseteq Range(Step(k, l))
                        /\ Dirty(k) => Windows[k] \in Range(Step(k, l))
      OBVIOUS
    <2>1. CASE Unsaved(Windows[k]) = {} BY <2>1
    <2>2. CASE Unsaved(Windows[k]) # {}
      <3>1. PICK w \in AllWindows : w = Windows[k] BY <1>1
      <3>2. PICK a : a = <<w>> OBVIOUS
      <3>3. a \in Seq(AllWindows) /\ Len(a) = 1 /\ a[1] = w BY <3>2
      <3>4. PICK b : b = a \o l OBVIOUS
      <3>5. /\ b \in Seq(AllWindows) /\ Len(b) = Len(a) + Len(l)
            /\ \A j \in 1..(Len(a) + Len(l)) : b[j] = IF j <= Len(a) THEN a[j] ELSE l[j - Len(a)]
        BY <3>3, <3>4, ConcatProperties
      <3>6. Len(l) \in Nat /\ DOMAIN b = 1..(1 + Len(l)) /\ DOMAIN l = 1..Len(l)
        BY <3>3, <3>5, LenProperties
      <3>7. b[1] = w /\ 1 \in 1..(1 + Len(l)) BY <3>3, <3>5, <3>6
      <3>8. \A j \in 1..Len(l) : j + 1 \in 1..(1 + Len(l)) /\ b[j + 1] = l[j] BY <3>3, <3>5, <3>6
      <3>9. w \in Range(b) BY <3>6, <3>7 DEF Range
      <3>10. Range(l) \subseteq Range(b) BY <3>6, <3>8 DEF Range
      <3>11. Step(k, l) = b BY <2>2, <3>1, <3>2, <3>4
      <3> QED BY <3>1, <3>5, <3>9, <3>10, <3>11
    <2> QED BY <2>1, <2>2
  <1> HIDE DEF Step, Dirty, S, n
  <1>5. \E f : f = [k \in 0..n |-> IF k = 0 THEN <<>> ELSE Step(k, f[k - 1])]
    <2> DEFINE h == [k \in 1..n |-> [l \in S |-> Step(k, l)]]
    <2>1. h \in Makers(S, n) BY <1>4 DEF Makers
    <2>2. \A k \in 1..n, l \in S : h[k][l] = Step(k, l) OBVIOUS
    <2> HIDE DEF h
    <2>3. PICK f \in [0..n -> S] : IsMade(f, <<>>, h, n) BY <1>1, <1>3, <2>1, RecursionExists
    <2>4. f[0] = <<>> /\ \A k \in 1..n : f[k] = h[k][f[k - 1]] BY <2>3 DEF IsMade
    <2>5. ASSUME NEW k \in 0..n, k # 0 PROVE f[k] = Step(k, f[k - 1])
      <3>1. k \in 1..n /\ k - 1 \in 0..n BY <1>1, <2>5
      <3> QED BY <2>2, <2>4, <3>1
    <2> QED BY <2>4, <2>5
  <1>6. list = [k \in 0..n |-> IF k = 0 THEN <<>> ELSE Step(k, list[k - 1])] BY <1>5
  <1> HIDE DEF list
  <1>7. list[0] = <<>> /\ \A k \in 0..n : k # 0 => list[k] = Step(k, list[k - 1]) BY <1>1, <1>6
  <1> DEFINE T == {k \in Nat : k <= n => list[k] \in S /\ Listed(list[k], k)}
  <1>8. 0 \in T BY <1>3, <1>7
  <1>9. ASSUME NEW k \in Nat, k \in T PROVE k + 1 \in T
    <2> SUFFICES ASSUME k + 1 <= n PROVE list[k + 1] \in S /\ Listed(list[k + 1], k + 1) OBVIOUS
    <2>1. k + 1 \in 1..n /\ k + 1 \in 0..n /\ (k + 1) - 1 = k /\ k <= n BY <1>1
    <2>2. list[k] \in S /\ Listed(list[k], k) BY <1>9, <2>1
    <2> HIDE DEF T
    <2>3. list[k + 1] = Step(k + 1, list[k]) BY <1>7, <2>1
    <2>4. \A i \in 1..(k + 1) : i \in 1..k \/ i = k + 1 OBVIOUS
    <2> QED BY <1>4, <2>1, <2>2, <2>3, <2>4
  <1>10. n \in T
    <2> HIDE DEF T
    <2> QED BY <1>1, <1>8, <1>9, EveryNatural
  <1>11. list[n] \in S /\ Listed(list[n], n) BY <1>1, <1>10
  <1>12. \A w \in AllWindows : \E i \in 1..n : Windows[i] = w BY <1>1 DEF AllWindows, Range
  <1>13. \A w \in AllWindows : Unsaved(w) # {} => w \in Range(list[n]) BY <1>11, <1>12 DEF Dirty
  <1> QED BY <1>2, <1>11, <1>13 DEF S

\* Somebody is asked, and nobody has answered yet.
Pending == /\ client.state \in {"INTERACT"} \union Late
           /\ ~client.emitCancelled /\ ~client.emitQuit /\ ~client.quit

LEMMA MannersAre == Manners => AtRest \/ Pending
  BY DEF Manners, Pending, Late

\* A dialog that is shown is the dialog of a window.
LEMMA DialogIs ==
    ASSUME Typed, dialog # NoDialog
    PROVE  /\ dialog.window \in AllWindows /\ dialog.window # NoWindow /\ dialog.docs \subseteq Docs
           /\ \A d \in dialog.docs : WindowOf[d] = dialog.window
  BY DEF Typed

\* window_handled, when nobody has to decide any more on the window's documents:
\* the next window has its turn, or the answer is sent.
LEMMA NextWindow ==
    ASSUME Typed, Exchange(client, manager, inbox), Pending, Accounted,
           NEW w \in AllWindows, WindowHandled(w),
           watched' = {}, asked' = asked, UNCHANGED <<manager, inbox>>,
           asked => \A d \in modified' \ covered' : d \in modified \ covered /\ WindowOf[d] # w,
           modified' \subseteq Docs
    PROVE  /\ client' \in Clients /\ dirtyList' \in Seq(AllWindows) /\ mishap' \in BOOLEAN
           /\ \/ dialog' = NoDialog
              \/ \E v \in AllWindows, docs \in SUBSET modified' :
                    dialog' = [window |-> v, docs |-> docs] /\ \A d \in docs : WindowOf[d] = v
           /\ Exchange(client', manager', inbox') /\ Manners' /\ Accounted'
  <1>1. PICK list : list = RemoveFirst(dirtyList, w) OBVIOUS
  <1>2. list \in Seq(AllWindows) /\ Range(dirtyList) \ {w} \subseteq Range(list)
    BY <1>1, RemoveFirstProperties DEF Typed
  <1>3. /\ client \in Clients /\ manager \in Managers /\ mishap \in BOOLEAN
        /\ WindowOf \in [Docs -> AllWindows] /\ modified \subseteq Docs
    BY DEF Typed
  <1>4. asked => \A d \in modified' \ covered' : WindowOf[d] \in Range(list)
    BY <1>2 DEF Accounted
  <1>5. CASE list = <<>>
    <2>1. dirtyList' = <<>> /\ dialog' = NoDialog /\ client' = WillQuit(client, TRUE) /\ mishap' = mishap
      BY <1>1, <1>5 DEF WindowHandled
    <2>2. client' \in Clients /\ Exchange(client', manager, inbox) /\ (client'.emitCancelled => client'.state \in Late)
      BY <1>3, <2>1, WillQuits DEF Pending
    <2>3. Manners' BY <2>1, <2>2 DEF Manners, AtRest, Late
    <2>4. Range(list) = {} BY <1>5 DEF Range
    <2>5. Accounted' BY <1>4, <2>4 DEF Accounted
    <2> QED BY <1>2, <1>3, <1>5, <2>1, <2>2, <2>3, <2>5
  <1>6. CASE list # <<>>
    <2>1. AskNextConfirmation(list) /\ client' = client BY <1>1, <1>6 DEF WindowHandled
    <2>2. Head(list) \in AllWindows BY <1>2, <1>6, HeadTailProperties
    <2>3. PICK docs : docs = UnsavedAmong(modified', Head(list)) OBVIOUS
    <2>4. docs \subseteq modified' /\ (\A d \in docs : WindowOf[d] = Head(list))
          /\ \A d \in modified' : WindowOf[d] = Head(list) => d \in docs
      BY <2>3 DEF UnsavedAmong
    <2>5. /\ dirtyList' = list /\ mishap' \in BOOLEAN
          /\ dialog' = NoDialog \/ dialog' = [window |-> Head(list), docs |-> docs]
          /\ docs # {} => dialog' = [window |-> Head(list), docs |-> docs]
      BY <1>3, <2>1, <2>3 DEF AskNextConfirmation
    <2>6. Manners' BY <2>1 DEF Manners, Pending, Late
    <2>7. Accounted'
      <3> SUFFICES ASSUME asked', NEW d \in (modified \ covered)'
                   PROVE  /\ WindowOf[d] \in Range(dirtyList')
                          /\ dialog'.window = WindowOf[d] => d \in dialog'.docs
                          /\ WindowOf[d] \in watched' => d \in toSave'[WindowOf[d]]
        BY DEF Accounted
      <3>1. WindowOf[d] \in Range(list) BY <1>4
      <3>2. d \in Docs /\ WindowOf[d] \in AllWindows /\ WindowOf[d] # NoWindow BY <1>3
      <3>3. dialog'.window = WindowOf[d] => d \in dialog'.docs
        BY <2>4, <2>5, <3>2 DEF NoDialog
      <3> QED BY <2>5, <3>1, <3>3
    <2> QED BY <1>2, <1>3, <2>1, <2>2, <2>4, <2>5, <2>6, <2>7
  <1> QED BY <1>5, <1>6

LEMMA AnswerSaveKeeps ==
    ASSUME IInv, NEW selected \in SUBSET dialog.docs, NEW started \in SUBSET dialog.docs,
           AnswerSave(selected, started)
    PROVE  IInv'
  <1> USE DEF IInv
  <1>1. PICK w : w = dialog.window OBVIOUS
  <1>2. w # NoWindow /\ dialog # NoDialog BY <1>1 DEF AnswerSave, NoDialog
  <1>3. w \in AllWindows /\ dialog.docs \subseteq Docs /\ \A d \in dialog.docs : WindowOf[d] = w
    BY <1>1, <1>2, DialogIs
  <1>4. Pending /\ watched = {} BY <1>2, MannersAre DEF Manners, AtRest
  <1>5. /\ UNCHANGED <<client, manager, inbox, dirtyList, modified, edits, asked>>
        /\ dialog' = NoDialog /\ watched' = {w} /\ toSave' = [toSave EXCEPT ![w] = selected]
        /\ saving' = saving \union started /\ covered' = covered \union (dialog.docs \ selected)
        /\ mishap' \in BOOLEAN
    BY <1>1, <1>4 DEF AnswerSave, Typed
  <1>6. Typed'
    <2>1. saving' \subseteq Docs /\ covered' \subseteq Docs BY <1>3, <1>5 DEF Typed
    <2>2. toSave' \in [AllWindows -> SUBSET Docs]
          /\ \A v \in AllWindows : \A d \in toSave'[v] : WindowOf[d] = v
      BY <1>3, <1>5 DEF Typed
    <2> QED BY <1>3, <1>5, <2>1, <2>2 DEF Typed
  <1>7. Exchange(client, manager, inbox)' BY <1>5
  <1>8. Manners' BY <1>3, <1>4, <1>5 DEF Manners, Pending, Late
  <1>9. Accounted'
    <2> SUFFICES ASSUME asked', NEW d \in (modified \ covered)'
                 PROVE  /\ WindowOf[d] \in Range(dirtyList')
                        /\ dialog'.window = WindowOf[d] => d \in dialog'.docs
                        /\ WindowOf[d] \in watched' => d \in toSave'[WindowOf[d]]
      BY DEF Accounted
    <2>1. asked /\ d \in modified \ covered /\ d \notin dialog.docs \ selected BY <1>5
    <2>2. WindowOf[d] \in Range(dirtyList) /\ (dialog.window = WindowOf[d] => d \in dialog.docs)
      BY <2>1 DEF Accounted
    <2>3. WindowOf[d] # NoWindow BY <2>1 DEF Typed
    <2>4. WindowOf[d] \in watched' => d \in toSave'[WindowOf[d]] BY <1>1, <1>3, <1>5, <2>1, <2>2 DEF Typed
    <2> QED BY <1>5, <2>2, <2>3, <2>4 DEF NoDialog
  <1> QED BY <1>6, <1>7, <1>8, <1>9

LEMMA AnswerDiscardKeeps == ASSUME IInv, AnswerDiscard PROVE IInv'
  <1> USE DEF IInv
  <1>1. PICK w : w = dialog.window OBVIOUS
  <1>2. w \in AllWindows /\ dialog.docs \subseteq Docs /\ \A d \in dialog.docs : WindowOf[d] = w
    BY <1>1, DialogIs DEF AnswerDiscard
  <1>3. Pending /\ watched = {} BY MannersAre DEF AnswerDiscard, Manners, AtRest
  <1>4. /\ UNCHANGED <<manager, inbox, toSave, watched, asked, modified, saving, edits>>
        /\ covered' = covered \union dialog.docs /\ WindowHandled(w)
    BY <1>1 DEF AnswerDiscard, docVars
  <1>5. asked => \A d \in modified' \ covered' : d \in modified \ covered /\ WindowOf[d] # w
    BY <1>1, <1>2, <1>4 DEF Accounted
  <1>6. modified' \subseteq Docs BY <1>4 DEF Typed
  <1>7. /\ client' \in Clients /\ dirtyList' \in Seq(AllWindows) /\ mishap' \in BOOLEAN
        /\ \/ dialog' = NoDialog
           \/ \E v \in AllWindows, docs \in SUBSET modified' :
                 dialog' = [window |-> v, docs |-> docs] /\ \A d \in docs : WindowOf[d] = v
        /\ Exchange(client', manager', inbox') /\ Manners' /\ Accounted'
    BY <1>2, <1>3, <1>4, <1>5, <1>6, NextWindow
  <1>8. covered' \subseteq Docs BY <1>2, <1>4 DEF Typed
  <1>9. Typed' BY <1>4, <1>6, <1>7, <1>8 DEF Typed
  <1> QED BY <1>7, <1>9

LEMMA AnswerCancelKeeps == ASSUME IInv, AnswerCancel PROVE IInv'
  <1> USE DEF IInv
  <1>1. Pending /\ watched = {} BY MannersAre DEF AnswerCancel, Manners, AtRest
  <1>2. /\ UNCHANGED <<manager, inbox, toSave, modified, saving, edits, covered, mishap>>
        /\ watched' = {} /\ dirtyList' = <<>> /\ dialog' = NoDialog /\ asked' = FALSE
    BY <1>1 DEF AnswerCancel, docVars
  <1>a. client' = WillQuit(client, FALSE) BY DEF AnswerCancel
  <1>3. client' \in Clients /\ Exchange(client', manager, inbox) /\ (client'.emitCancelled => client'.state \in Late)
    <2>1. client \in Clients /\ manager \in Managers /\ FALSE \in BOOLEAN BY DEF Typed
    <2> QED BY <1>1, <1>a, <2>1, WillQuits DEF Pending
  <1>4. Typed'
    <2>1. asked' \in BOOLEAN BY <1>2
    <2>2. client' \in Clients /\ manager' \in Managers /\ inbox' \in Seq(Messages) BY <1>2, <1>3 DEF Typed
    <2>3. dirtyList' \in Seq(AllWindows) BY <1>2
    <2> QED BY <1>2, <2>1, <2>2, <2>3 DEF Typed
  <1>5. Manners' BY <1>2, <1>3 DEF Manners, AtRest, Late
  <1>6. Accounted' BY <1>2 DEF Accounted
  <1> QED BY <1>2, <1>3, <1>4, <1>5, <1>6

LEMMA EditKeeps == ASSUME IInv, NEW d \in Docs, Edit(d) PROVE IInv'
  <1> USE DEF IInv
  <1>1. /\ UNCHANGED <<client, manager, inbox, dirtyList, dialog, toSave, watched, saving, asked>>
        /\ modified' = modified \union {d} /\ covered' = covered \union {d} /\ mishap' \in BOOLEAN
    BY DEF Edit, appVars, Typed
  <1>2. Typed' BY <1>1 DEF Typed
  <1>3. Manners' BY <1>1 DEF Manners, AtRest
  <1>4. Accounted' BY <1>1 DEF Accounted
  <1> QED BY <1>1, <1>2, <1>3, <1>4

LEMMA SaveKeeps == ASSUME IInv, NEW d \in Docs, Save(d) PROVE IInv'
  <1> USE DEF IInv
  <1>1. /\ UNCHANGED <<client, manager, inbox, dirtyList, dialog, toSave, watched, modified, asked, covered, mishap>>
        /\ saving' = saving \union {d}
    BY DEF Save, appVars, history
  <1>2. Typed' BY <1>1 DEF Typed
  <1>3. Manners' BY <1>1 DEF Manners, AtRest
  <1>4. Accounted' BY <1>1 DEF Accounted
  <1> QED BY <1>1, <1>2, <1>3, <1>4

\* A save of a window that is waited for has ended.
LEMMA WindowStateChangeKeeps ==
    ASSUME IInv, NEW w \in AllWindows, WindowStateChange(w),
           modified' \subseteq modified, saving' \subseteq Docs,
           UNCHANGED <<manager, inbox, edits, asked, covered>>
    PROVE  IInv'
  <1> USE DEF IInv
  <1>1. CASE w \in watched /\ ~IsSaving(w, saving') /\ IsDone(w, modified')
    <2>1. /\ watched' = watched \ {w} /\ toSave' = [toSave EXCEPT ![w] = {}] /\ WindowHandled(w)
          /\ \A d \in modified' : d \notin toSave[w]
      BY <1>1 DEF WindowStateChange, IsDone
    <2>2. Pending /\ watched' = {} BY <1>1, <2>1, MannersAre DEF Manners, AtRest
    <2>3. asked => \A d \in modified' \ covered' : d \in modified \ covered /\ WindowOf[d] # w
      BY <1>1, <2>1 DEF Accounted
    <2>4. modified' \subseteq Docs BY DEF Typed
    <2>5. /\ client' \in Clients /\ dirtyList' \in Seq(AllWindows) /\ mishap' \in BOOLEAN
          /\ \/ dialog' = NoDialog
             \/ \E v \in AllWindows, docs \in SUBSET modified' :
                   dialog' = [window |-> v, docs |-> docs] /\ \A d \in docs : WindowOf[d] = v
          /\ Exchange(client', manager', inbox') /\ Manners' /\ Accounted'
      BY <2>1, <2>2, <2>3, <2>4, NextWindow
    <2>6. toSave' \in [AllWindows -> SUBSET Docs] /\ \A v \in AllWindows : \A d \in toSave'[v] : WindowOf[d] = v
      BY <2>1 DEF Typed
    <2>7. Typed' BY <2>2, <2>4, <2>5, <2>6 DEF Typed
    <2> QED BY <2>5, <2>7
  <1>2. CASE ~(w \in watched /\ ~IsSaving(w, saving') /\ IsDone(w, modified'))
    <2>1. UNCHANGED <<watched, toSave, dirtyList, dialog, client, mishap>> BY <1>2 DEF WindowStateChange
    <2>2. Typed' BY <2>1 DEF Typed
    <2>3. Manners' BY <2>1 DEF Manners, AtRest
    <2>4. Accounted' BY <2>1 DEF Accounted
    <2> QED BY <2>1, <2>2, <2>3, <2>4
  <1> QED BY <1>1, <1>2

LEMMA SaveEndsKeeps == ASSUME IInv, NEW d \in Docs, SaveEnds(d) PROVE IInv'
  <1>1. WindowOf[d] \in AllWindows OBVIOUS
  <1>2. /\ WindowStateChange(WindowOf[d]) /\ modified' \subseteq modified /\ saving' \subseteq Docs
        /\ UNCHANGED <<manager, inbox, edits, asked, covered>>
    BY DEF SaveEnds, IInv, Typed
  <1> QED BY <1>1, <1>2, WindowStateChangeKeeps

LEMMA SaveFailsKeeps == ASSUME IInv, NEW d \in Docs, SaveFails(d) PROVE IInv'
  <1>1. WindowOf[d] \in AllWindows OBVIOUS
  <1>2. modified' = modified /\ saving' \subseteq Docs /\ UNCHANGED <<manager, inbox, edits, asked, covered>>
    BY DEF SaveFails, IInv, Typed
  <1>3. CASE WindowStateChange(WindowOf[d]) BY <1>1, <1>2, <1>3, WindowStateChangeKeeps
  <1>4. CASE mishap' = TRUE /\ UNCHANGED <<watched, toSave, dirtyList, dialog, client>>
    <2>1. Typed' BY <1>2, <1>4 DEF Typed, IInv
    <2>2. Manners' BY <1>4 DEF Manners, AtRest, IInv
    <2>3. Accounted' BY <1>2, <1>4 DEF Accounted, IInv
    <2> QED BY <1>2, <1>4, <2>1, <2>2, <2>3 DEF IInv
  <1> QED BY <1>3, <1>4 DEF SaveFails

LEMMA ReceiveKeeps == ASSUME IInv, Receive PROVE IInv'
  <1> USE DEF IInv
  <1>1. /\ client \in Clients /\ manager \in Managers /\ inbox \in Seq(Messages) /\ inbox # <<>>
        /\ client.connected /\ inbox' = Tail(inbox) /\ UNCHANGED <<manager, toSave, watched, modified, saving, edits>>
    BY DEF Receive, docVars, Typed
  <1>2. PICK m \in Messages : m = Head(inbox) BY <1>1, HeadTailProperties
  <1>3. PICK r : r = Handled(client, m) OBVIOUS
  <1>4. /\ r \in Clients /\ Exchange(r, manager, Tail(inbox)) /\ r.emitCancelled = client.emitCancelled
        /\ client.state \in {"INTERACT", "SHUTDOWN_CANCELLED"} =>
              r.state = "SHUTDOWN_CANCELLED" /\ r.emitQuit = client.emitQuit /\ r.quit = client.quit
        /\ r.quit => client.quit \/ client.state = "SAVE_YOURSELF_DONE"
        /\ client.state # "CONNECTION_CLOSED"
        /\ m.kind = "Interact" => r.state = "INTERACT"
    BY <1>1, <1>2, <1>3, Receives
  <1>5. Tail(inbox) \in Seq(Messages) BY <1>1, HeadTailProperties
  <1>6. CASE m.kind = "Interact"
    <2>1. r = Interact(client) BY <1>3, <1>6 DEF Handled
    <2>2. QuitRequested(r) BY <1>2, <1>4, <1>6, <2>1 DEF Receive
    <2>3. r.state = "INTERACT" /\ client.state \notin {"INTERACT", "SHUTDOWN_CANCELLED", "CONNECTION_CLOSED"}
      BY <1>4, <1>6
    <2>4. AtRest /\ ~client.emitCancelled BY <2>3 DEF Manners
    <2>5. ~r.emitCancelled BY <1>4, <2>4
    <2>6. ~r.emitQuit /\ ~r.quit BY <1>4, <2>3 DEF Exchange, Gone
    <2>7. watched' = {} BY <1>1, <2>4 DEF AtRest
    <2>8. /\ asked' = TRUE /\ covered' = {} /\ mishap' = FALSE /\ dirtyList' = DirtyWindows
          /\ \/ /\ DirtyWindows = <<>> /\ client' = WillQuit(r, TRUE) /\ dialog' = NoDialog
             \/ /\ DirtyWindows # <<>> /\ client' = r
                /\ dialog' = [window |-> Head(DirtyWindows), docs |-> Unsaved(Head(DirtyWindows))]
      BY <2>2 DEF QuitRequested
    <2>9. \A d \in modified : WindowOf[d] \in Range(DirtyWindows)
      <3>1. \A d \in modified : WindowOf[d] \in AllWindows /\ d \in Unsaved(WindowOf[d])
        BY DEF Typed, Unsaved, UnsavedAmong
      <3> QED BY <3>1, DirtyWindowsAre
    <2>10. CASE DirtyWindows = <<>>
      <3>1. client' = WillQuit(r, TRUE) /\ dialog' = NoDialog /\ dirtyList' = <<>> BY <2>8, <2>10
      <3>2. client' \in Clients /\ Exchange(client', manager, Tail(inbox))
            /\ (client'.emitCancelled => client'.state \in Late)
        BY <1>1, <1>4, <2>3, <2>5, <3>1, WillQuits
      <3>3. Typed' BY <1>1, <1>5, <2>7, <2>8, <3>1, <3>2, DirtyWindowsAre DEF Typed
      <3>4. Manners' BY <2>7, <3>1, <3>2 DEF Manners, AtRest, Late
      <3>5. modified = {} BY <2>9, <2>10 DEF Range
      <3>6. Accounted' BY <1>1, <3>5 DEF Accounted
      <3> QED BY <1>1, <3>2, <3>3, <3>4, <3>6
    <2>11. CASE DirtyWindows # <<>>
      <3>1. PICK w : w = Head(DirtyWindows) OBVIOUS
      <3>2. w \in AllWindows BY <2>11, <3>1, DirtyWindowsAre, HeadTailProperties
      <3>3. client' = r /\ dialog' = [window |-> w, docs |-> Unsaved(w)] BY <2>8, <2>11, <3>1
      <3>4. /\ Unsaved(w) \subseteq Docs /\ \A d \in Unsaved(w) : WindowOf[d] = w
            /\ \A d \in modified : WindowOf[d] = w => d \in Unsaved(w)
        BY DEF Typed, Unsaved, UnsavedAmong
      <3>a. DirtyWindows \in Seq(AllWindows) BY DirtyWindowsAre
      <3>b. PICK docs \in SUBSET Docs : docs = Unsaved(w) BY <3>4
      <3>c. \E v \in AllWindows, ds \in SUBSET Docs :
               dialog' = [window |-> v, docs |-> ds] /\ \A d \in ds : WindowOf[d] = v
        BY <3>2, <3>3, <3>4, <3>b
      <3>5. Typed' BY <1>1, <1>4, <1>5, <2>7, <2>8, <3>3, <3>a, <3>c DEF Typed
      <3>6. Manners' BY <2>3, <2>5, <2>6, <2>7, <3>3 DEF Manners
      <3>7. Accounted' BY <1>1, <2>7, <2>8, <2>9, <3>3, <3>4 DEF Accounted
      <3> QED BY <1>1, <1>4, <3>3, <3>5, <3>6, <3>7
    <2> QED BY <2>10, <2>11
  <1>7. CASE m.kind # "Interact"
    <2>1. /\ client' = r /\ asked' = (asked /\ m.kind # "SaveYourself")
          /\ UNCHANGED <<dirtyList, dialog, covered, mishap>>
      BY <1>2, <1>3, <1>7 DEF Receive, Handled
    <2>2. Typed' BY <1>1, <1>4, <1>5, <2>1 DEF Typed
    <2>3. Manners'
      <3>1. AtRest => AtRest' BY <1>1, <2>1 DEF AtRest
      <3>2. Pending => Pending' BY <1>4, <2>1 DEF Pending, Late
      <3>3. client.emitCancelled => client.state = "SHUTDOWN_CANCELLED" BY <1>4 DEF Manners
      <3>4. client'.emitCancelled => client'.state = "SHUTDOWN_CANCELLED" BY <1>4, <2>1, <3>3
      <3> QED BY <1>1, <2>1, <3>1, <3>2, <3>4, MannersAre DEF Manners, Pending, Late
    <2>4. Accounted' BY <1>1, <2>1 DEF Accounted
    <2> QED BY <1>1, <1>4, <2>1, <2>2, <2>3, <2>4
  <1> QED BY <1>6, <1>7

LEMMA IdleKeeps == ASSUME IInv, Idle PROVE IInv'
  <1> USE DEF IInv
  <1>1. /\ client' = DoPendingEvents(client) /\ client \in Clients /\ manager \in Managers
        /\ UNCHANGED <<manager, inbox, dirtyList, dialog, toSave, watched, modified, saving, edits,
                       asked, covered, mishap>>
    BY DEF Idle, appVars, docVars, history, Typed
  <1>2. /\ client' \in Clients /\ Exchange(client', manager, inbox)
        /\ client'.emitCancelled => client'.state \in Late
        /\ ~client.emitCancelled /\ ~client.emitQuit => Alike(client', client)
    BY <1>1, Idles DEF Manners, Late
  <1>3. Typed' BY <1>1, <1>2 DEF Typed
  <1>4. Manners'
    <2>1. AtRest => AtRest' BY <1>1 DEF AtRest
    <2>2. Pending => Pending' BY <1>2 DEF Pending, Alike, Bearing
    <2> QED BY <1>1, <1>2, <2>1, <2>2, MannersAre DEF Manners, Pending, Late
  <1>5. Accounted' BY <1>1 DEF Accounted
  <1> QED BY <1>1, <1>2, <1>3, <1>4, <1>5

LEMMA ConnectionBreaksKeeps == ASSUME IInv, ConnectionBreaks PROVE IInv'
  <1> USE DEF IInv
  <1>1. /\ client' = Disconnect(client) /\ client \in Clients /\ client.connected /\ manager \in Managers
        /\ manager' \in Managers /\ manager'.phase = "gone" /\ inbox' = <<>>
        /\ UNCHANGED <<dirtyList, dialog, toSave, watched, modified, saving, edits, asked, covered, mishap>>
    BY DEF ConnectionBreaks, appVars, docVars, history, Typed, Managers
  <1>2. Exchange(client', manager', <<>>) BY <1>1, Breaks
  <1>3. /\ client' \in Clients /\ client'.state = "CONNECTION_CLOSED" /\ client'.emitQuit = client.emitQuit
        /\ client'.emitCancelled = client.emitCancelled /\ client'.quit = client.quit
    BY <1>1, DisconnectIs
  <1>4. Typed' BY <1>1, <1>3 DEF Typed
  <1>5. Manners'
    <2>1. AtRest => AtRest' BY <1>1 DEF AtRest
    <2>2. Pending => Pending' BY <1>3 DEF Pending, Late
    <2> QED BY <1>1, <1>3, <2>1, <2>2, MannersAre DEF Manners, Pending, Late
  <1>6. Accounted' BY <1>1 DEF Accounted
  <1> QED BY <1>1, <1>2, <1>4, <1>5, <1>6

\* What the manager sends changes nothing of the application.
LEMMA Outside ==
    ASSUME IInv, ManagerOnly, client' \in Clients, manager' \in Managers, inbox' \in Seq(Messages),
           Exchange(client', manager', inbox'),
           client'.state = client.state, Bearing(client') = Bearing(client)
    PROVE  IInv'
  <1> USE DEF IInv
  <1>1. UNCHANGED <<dirtyList, dialog, toSave, watched, modified, saving, edits, asked, covered, mishap>>
    BY DEF ManagerOnly, appVars, docVars, history
  <1>2. Typed' BY <1>1 DEF Typed
  <1>3. Manners' BY <1>1 DEF Manners, AtRest, Bearing
  <1>4. Accounted' BY <1>1 DEF Accounted
  <1> QED BY <1>2, <1>3, <1>4

LEMMA ManagerSends ==
    ASSUME IInv, ManagerOnly, UNCHANGED client, manager' \in Managers, NEW m \in Messages,
           inbox' = Append(inbox, m), Exchange(client, manager', Append(inbox, m))
    PROVE  IInv'
  <1>1. client \in Clients /\ inbox \in Seq(Messages) BY DEF IInv, Typed
  <1>2. Append(inbox, m) \in Seq(Messages) BY <1>1, AppendProperties
  <1>3. Exchange(client', manager', inbox') BY Zenon
  <1> QED BY <1>1, <1>2, <1>3, Outside

LEMMA ManagerSavesKeeps ==
    ASSUME IInv, NEW shutdown \in BOOLEAN, NEW interact \in BOOLEAN, ManagerSaves(shutdown, interact)
    PROVE  IInv'
  <1>1. PICK m : m = [kind |-> "SaveYourself", shutdown |-> shutdown, interact |-> interact] OBVIOUS
  <1>2. m \in Messages /\ IsSaveYourself(m) BY <1>1 DEF Messages, IsSaveYourself
  <1>3. /\ client \in Clients /\ manager \in Managers /\ inbox \in Seq(Messages) /\ manager.left \in Nat
        /\ Exchange(client, manager, inbox)
    BY DEF IInv, Typed, Managers
  <1>4. /\ manager.phase = "idle" /\ manager.left > 0 /\ ManagerOnly /\ UNCHANGED client
        /\ inbox' = Append(inbox, m)
        /\ manager' = [phase |-> "saving", shutdown |-> shutdown, cancelled |-> FALSE,
                       left |-> manager.left - 1]
    BY <1>1, Zenon DEF ManagerSaves
  <1>5. manager' \in Managers /\ manager'.phase = "saving" /\ manager'.cancelled = FALSE
    BY <1>3, <1>4 DEF Managers
  <1>6. Exchange(client, manager', Append(inbox, m)) BY <1>2, <1>3, <1>4, <1>5, ManagerSavesIs
  <1> QED BY <1>2, <1>4, <1>5, <1>6, ManagerSends

LEMMA ManagerCancelsKeeps == ASSUME IInv, ManagerCancels PROVE IInv'
  <1>1. /\ client \in Clients /\ manager \in Managers /\ inbox \in Seq(Messages)
        /\ Exchange(client, manager, inbox)
    BY DEF IInv, Typed
  <1>2. /\ manager.phase \in {"saving", "interacting", "done"} /\ ~manager.cancelled
        /\ ManagerOnly /\ UNCHANGED client /\ inbox' = Append(inbox, Cancellation)
    BY DEF ManagerCancels, Cancellation
  <1>3. /\ manager' \in Managers /\ manager'.cancelled = TRUE
        /\ manager'.phase = IF manager.phase = "done" THEN "idle" ELSE manager.phase
    BY <1>1 DEF ManagerCancels, Managers
  <1>4. Exchange(client, manager', Append(inbox, Cancellation)) BY <1>1, <1>2, <1>3, ManagerCancelsIs
  <1>5. Cancellation \in Messages BY MessageIs
  <1> QED BY <1>2, <1>3, <1>4, <1>5, ManagerSends

LEMMA ManagerKillsKeeps == ASSUME IInv, ManagerKills PROVE IInv'
  <1>1. /\ client \in Clients /\ manager \in Managers /\ inbox \in Seq(Messages)
        /\ Exchange(client, manager, inbox)
    BY DEF IInv, Typed
  <1>2. PICK m \in Messages : m = Message("Die") BY MessageIs
  <1>3. manager.phase = "done" /\ ManagerOnly /\ UNCHANGED client /\ inbox' = Append(inbox, m)
    BY <1>2 DEF ManagerKills
  <1>4. manager' \in Managers /\ manager'.phase = "gone" BY <1>1 DEF ManagerKills, Phase, Managers
  <1>5. Exchange(client, manager', Append(inbox, m)) BY <1>1, <1>2, <1>3, <1>4, ManagerKillsIs
  <1> QED BY <1>2, <1>3, <1>4, <1>5, ManagerSends

LEMMA ManagerReceivesKeeps == ASSUME IInv, ManagerReceives PROVE IInv'
  <1>1. /\ client \in Clients /\ manager \in Managers /\ inbox \in Seq(Messages)
        /\ Exchange(client, manager, inbox) /\ manager.phase # "gone" /\ client.out # <<>>
        /\ manager.cancelled \in BOOLEAN /\ manager.shutdown \in BOOLEAN /\ manager.left \in Nat
        /\ ManagerOnly
    BY DEF IInv, Typed, ManagerReceives, Managers
  <1>2. PICK out : out = Tail(client.out) OBVIOUS
  <1>3. client' = [client EXCEPT !.out = Tail(@)] /\ client' = [client EXCEPT !.out = out]
    BY <1>2 DEF ManagerReceives
  <1>4. client'.state = client.state /\ Bearing(client') = Bearing(client)
    BY <1>1, <1>3 DEF Clients, Bearing
  <1>5. PICK w : w = Head(client.out) OBVIOUS
  <1>6. /\ w = "InteractRequest" /\ ~manager.cancelled =>
              \A n : n.phase = "interacting" /\ n.cancelled = manager.cancelled =>
                        Exchange(client', n, Append(inbox, Message("Interact")))
        /\ w = "InteractRequest" /\ manager.cancelled => Exchange(client', manager, inbox)
        /\ w = "InteractDone" \/ (w = "InteractCancel" /\ manager.cancelled) => Exchange(client', manager, inbox)
        /\ w = "InteractCancel" /\ ~manager.cancelled =>
              \A n : n.phase = manager.phase /\ n.cancelled = TRUE =>
                        Exchange(client', n, Append(inbox, Cancellation))
        /\ w = "SaveYourselfDone" /\ manager.cancelled =>
              \A n : n.phase = "idle" => Exchange(client', n, inbox)
        /\ w = "SaveYourselfDone" /\ ~manager.cancelled =>
              /\ \A n : n.phase = "done" /\ n.cancelled = FALSE => Exchange(client', n, inbox)
              /\ \A n : n.phase = "idle" => Exchange(client', n, Append(inbox, Message("SaveComplete")))
        /\ client' \in Clients
    BY <1>1, <1>3, <1>5, AnswerArrives
  <1>7. /\ Message("Interact") \in Messages /\ Message("SaveComplete") \in Messages
        /\ Cancellation \in Messages /\ Cancellation = Message("ShutdownCancelled")
    BY MessageIs DEF Cancellation
  <1>8. \A m \in Messages : Append(inbox, m) \in Seq(Messages) BY <1>1, AppendProperties
  <1>9. w \in Words
    <2>1. client.out \in Seq(Words) BY <1>1 DEF Clients
    <2> QED BY <1>1, <1>5, <2>1, HeadTailProperties
  <1>10. manager' \in Managers /\ inbox' \in Seq(Messages) /\ Exchange(client', manager', inbox')
    <2>1. CASE w = "InteractRequest" /\ ~manager.cancelled
      <3>1. inbox' = Append(inbox, Message("Interact")) /\ manager' = [manager EXCEPT !.phase = "interacting"]
        BY <1>5, <2>1 DEF ManagerReceives, Phase
      <3>2. manager' \in Managers /\ manager'.phase = "interacting" /\ manager'.cancelled = manager.cancelled
        BY <1>1, <3>1 DEF Managers
      <3> QED BY <1>6, <1>7, <1>8, <2>1, <3>1, <3>2
    <2>2. CASE w = "InteractRequest" /\ manager.cancelled
      <3>1. UNCHANGED <<inbox, manager>> BY <1>5, <2>2 DEF ManagerReceives
      <3> QED BY <1>1, <1>6, <2>2, <3>1
    <2>3. CASE w = "InteractDone" \/ (w = "InteractCancel" /\ manager.cancelled)
      <3>1. UNCHANGED <<inbox, manager>> BY <1>5, <2>3 DEF ManagerReceives
      <3> QED BY <1>1, <1>6, <2>3, <3>1
    <2>4. CASE w = "InteractCancel" /\ ~manager.cancelled
      <3>1. inbox' = Append(inbox, Cancellation) /\ manager' = [manager EXCEPT !.cancelled = TRUE]
        BY <1>5, <1>7, <2>4 DEF ManagerReceives
      <3>2. manager' \in Managers /\ manager'.phase = manager.phase /\ manager'.cancelled = TRUE
        BY <1>1, <3>1 DEF Managers
      <3> QED BY <1>6, <1>7, <1>8, <2>4, <3>1, <3>2
    <2>5. CASE w = "SaveYourselfDone" /\ manager.cancelled
      <3>1. inbox' = inbox /\ manager' = [manager EXCEPT !.phase = "idle"]
        BY <1>5, <2>5 DEF ManagerReceives, Phase
      <3>2. manager' \in Managers /\ manager'.phase = "idle" BY <1>1, <3>1 DEF Managers
      <3> QED BY <1>1, <1>6, <2>5, <3>1, <3>2
    <2>6. CASE w = "SaveYourselfDone" /\ ~manager.cancelled /\ manager.shutdown
      <3>1. inbox' = inbox /\ manager' = [manager EXCEPT !.phase = "done"]
        BY <1>5, <2>6 DEF ManagerReceives, Phase
      <3>2. manager' \in Managers /\ manager'.phase = "done" /\ manager'.cancelled = FALSE
        BY <1>1, <2>6, <3>1 DEF Managers
      <3> QED BY <1>1, <1>6, <2>6, <3>1, <3>2
    <2>7. CASE w = "SaveYourselfDone" /\ ~manager.cancelled /\ ~manager.shutdown
      <3>1. /\ inbox' = Append(inbox, Message("SaveComplete"))
            /\ manager' = [manager EXCEPT !.phase = "idle"]
        BY <1>5, <2>7 DEF ManagerReceives, Phase
      <3>2. manager' \in Managers /\ manager'.phase = "idle" BY <1>1, <3>1 DEF Managers
      <3> QED BY <1>6, <1>7, <1>8, <2>7, <3>1, <3>2
    <2>8. \/ w = "InteractRequest" \/ w = "InteractDone" \/ w = "InteractCancel" \/ w = "SaveYourselfDone"
      BY <1>9 DEF Words
    <2> QED BY <2>1, <2>2, <2>3, <2>4, <2>5, <2>6, <2>7, <2>8, Zenon
  <1> QED BY <1>1, <1>4, <1>6, <1>10, Outside

-----------------------------------------------------------------------------
(***************************************************************************)
(* The theorems.                                                           *)
(***************************************************************************)

LEMMA Initially == Init => IInv
  <1> SUFFICES ASSUME NEW resumed \in BOOLEAN, InitWith(NewClient(resumed)) PROVE IInv BY DEF Init
  <1>1. PICK c : c = NewClient(resumed) OBVIOUS
  <1>2. /\ c \in Clients /\ c.state = "IDLE" /\ c.connected /\ ~c.emitQuit /\ ~c.emitCancelled /\ ~c.saveMyself
        /\ c.out = <<>> /\ ~c.quit /\ ~c.astray
    <2>1. <<>> \in Seq(Words) OBVIOUS
    <2> QED BY <1>1, <2>1 DEF NewClient, Clients, ClientStates
  <1>3. /\ client = c /\ inbox = <<>> /\ dirtyList = <<>> /\ dialog = NoDialog /\ watched = {}
        /\ toSave = [w \in AllWindows |-> {}] /\ modified = {} /\ saving = {} /\ covered = {}
        /\ asked = FALSE /\ mishap = FALSE
        /\ manager = [phase |-> "idle", shutdown |-> FALSE, cancelled |-> FALSE, left |-> MaxSaves]
    BY <1>1 DEF InitWith
  <1>4. manager \in Managers /\ manager.phase = "idle" BY <1>3 DEF Managers
  <1>5. Typed
    <2>1. inbox \in Seq(Messages) /\ dirtyList \in Seq(AllWindows) BY <1>3
    <2>2. toSave \in [AllWindows -> SUBSET Docs] /\ \A w \in AllWindows : toSave[w] = {} BY <1>3
    <2> QED BY <1>2, <1>3, <1>4, <2>1, <2>2 DEF Typed
  <1>6. Exchange(client, manager, inbox) BY <1>2, <1>3, <1>4 DEF Exchange, Idling, Waiting, Open
  <1>7. Manners BY <1>2, <1>3 DEF Manners, AtRest
  <1>8. Accounted BY <1>3 DEF Accounted
  <1> QED BY <1>5, <1>6, <1>7, <1>8 DEF IInv

LEMMA Inductive == IInv /\ [Next]_vars => IInv'
  <1> SUFFICES ASSUME IInv, [Next]_vars PROVE IInv' OBVIOUS
  <1>1. ASSUME NEW selected \in SUBSET dialog.docs, NEW started \in SUBSET dialog.docs,
               AnswerSave(selected, started)
        PROVE  IInv'
    BY <1>1, AnswerSaveKeeps
  <1>2. CASE AnswerDiscard \/ AnswerCancel BY <1>2, AnswerDiscardKeeps, AnswerCancelKeeps
  <1>3. ASSUME NEW d \in Docs, Edit(d) \/ Save(d) \/ SaveEnds(d) \/ SaveFails(d) PROVE IInv'
    BY <1>3, EditKeeps, SaveKeeps, SaveEndsKeeps, SaveFailsKeeps
  <1>4. CASE Receive \/ Idle \/ ConnectionBreaks BY <1>4, ReceiveKeeps, IdleKeeps, ConnectionBreaksKeeps
  <1>5. ASSUME NEW shutdown \in BOOLEAN, NEW interact \in BOOLEAN, ManagerSaves(shutdown, interact) PROVE IInv'
    BY <1>5, ManagerSavesKeeps
  <1>6. CASE ManagerCancels \/ ManagerKills \/ ManagerReceives
    BY <1>6, ManagerCancelsKeeps, ManagerKillsKeeps, ManagerReceivesKeeps
  <1>7. CASE UNCHANGED vars
    <2>1. UNCHANGED <<client, manager, inbox, dirtyList, dialog, toSave, watched, modified, saving,
                      asked, covered, mishap>>
      BY <1>7 DEF vars, appVars, docVars, history
    <2>2. Typed' BY <2>1 DEF Typed, IInv
    <2>3. Manners' BY <2>1 DEF Manners, AtRest, IInv
    <2>4. Accounted' BY <2>1 DEF Accounted, IInv
    <2> QED BY <2>1, <2>2, <2>3, <2>4 DEF IInv
  <1> QED BY <1>1, <1>2, <1>3, <1>4, <1>5, <1>6, <1>7 DEF Next

\* The invariant holds of every state that a session can reach.
THEOREM Invariant == Spec => []IInv
  BY Initially, Inductive, PTL DEF Spec

\* When lapiz ends because the user logs out, every document that is still
\* modified was given up in a dialog, or edited after the question.
THEOREM LogoutLosesNothing == Spec => []NothingIsLost
  <1>1. IInv => NothingIsLost
    <2> SUFFICES ASSUME IInv, client.quit, asked, NEW d \in modified \ covered PROVE FALSE
      BY DEF NothingIsLost
    <2>1. AtRest BY MannersAre DEF IInv, Pending
    <2>2. WindowOf[d] \in Range(dirtyList) BY DEF IInv, Accounted
    <2> QED BY <2>1, <2>2 DEF AtRest, Range
  <1> QED BY <1>1, Invariant, PTL

\* What Count makes of the messages in each direction.
Asked(in)  == Cardinality({i \in DOMAIN in : in[i].kind = "SaveYourself"})
Told(out)  == Cardinality({i \in DOMAIN out : out[i] = "SaveYourselfDone"})
Held(c)    == IF c.state \in {"INTERACT_REQUEST", "INTERACT"} \/ c.saveMyself THEN 1 ELSE 0
Coming(c, in) == Asked(in) + Held(c) + Told(c.out)

LEMMA NoneOrOne == Cardinality({}) = 0 /\ Cardinality({1}) = 1 /\ Cardinality({2}) = 1
  BY FS_EmptySet, FS_Singleton

LEMMA AskedIs ==
    ASSUME NEW m \in Messages, NEW end \in Messages, NEW last \in Messages,
           ~IsSaveYourself(last), ~IsSaveYourself(end)
    PROVE  /\ Asked(<<>>) = 0 /\ Asked(<<last>>) = 0 /\ Asked(<<end, last>>) = 0
           /\ IsSaveYourself(m) => /\ Asked(<<m>>) = 1 /\ Asked(<<m, last>>) = 1
                                   /\ Asked(<<end, m>>) = 1 /\ Asked(<<end, m, last>>) = 1
  <1> DEFINE P(in) == {i \in DOMAIN in : in[i].kind = "SaveYourself"}
  <1>1. P(<<>>) = {} /\ P(<<last>>) = {} /\ P(<<end, last>>) = {} BY DEF IsSaveYourself
  <1>2. ASSUME IsSaveYourself(m)
        PROVE  P(<<m>>) = {1} /\ P(<<m, last>>) = {1} /\ P(<<end, m>>) = {2} /\ P(<<end, m, last>>) = {2}
    BY <1>2 DEF IsSaveYourself
  <1>3. \A in : Asked(in) = Cardinality(P(in)) BY DEF Asked
  <1> HIDE DEF P
  <1> QED BY <1>1, <1>2, <1>3, NoneOrOne

LEMMA ToldIs ==
    /\ Told(<<>>) = 0 /\ Told(<<"InteractRequest">>) = 0 /\ Told(<<"SaveYourselfDone">>) = 1
    /\ \A w \in {"InteractRequest", "InteractDone", "InteractCancel"} : Told(<<w, "SaveYourselfDone">>) = 1
  <1> DEFINE P(out) == {i \in DOMAIN out : out[i] = "SaveYourselfDone"}
  <1>1. P(<<>>) = {} /\ P(<<"InteractRequest">>) = {} /\ P(<<"SaveYourselfDone">>) = {1} OBVIOUS
  <1>2. \A w \in {"InteractRequest", "InteractDone", "InteractCancel"} : P(<<w, "SaveYourselfDone">>) = {2} OBVIOUS
  <1>3. \A out : Told(out) = Cardinality(P(out)) BY DEF Told
  <1> HIDE DEF P
  <1> QED BY <1>1, <1>2, <1>3, NoneOrOne

\* A SaveYourself in progress is in one place.
LEMMA InOnePlace ==
    ASSUME NEW c, NEW in
    PROVE  /\ InProgress(c, in) => Coming(c, in) = 1
           /\ InProgress(c, in) => Coming(c, Append(in, Cancellation)) = 1
           /\ Refused(c, in) => Coming(c, Append(in, Cancellation)) = 1
           /\ CalledOff(c, in) => Coming(c, in) \in {0, 1}
           /\ Idling(c, in) => Coming(c, in) = 0
  <1>1. \A m \in Messages :
           /\ Append(<<>>, Cancellation) = <<Cancellation>>
           /\ Append(<<m>>, Cancellation) = <<m, Cancellation>>
    BY ShortSequences
  <1>2. \A m, end \in Messages : Append(<<end, m>>, Cancellation) = <<end, m, Cancellation>> BY AppendToTwo
  <1>3. Cancellation \in Messages /\ ~IsSaveYourself(Cancellation) BY MessageIs DEF IsSaveYourself
  <1>4. Message("Interact") \in Messages /\ ~IsSaveYourself(Message("Interact"))
    BY MessageIs DEF IsSaveYourself
  <1>5. Asked(<<>>) = 0 /\ Asked(<<Cancellation>>) = 0 BY <1>3, AskedIs
  <1>6. ASSUME InProgress(c, in)
        PROVE  Coming(c, in) = 1 /\ Coming(c, Append(in, Cancellation)) = 1
    <2>1. ASSUME NEW m \in Messages, in = <<m>>, IsSaveYourself(m), c.state \in Waiting, c.out = <<>>, ~c.saveMyself
          PROVE  Coming(c, in) = 1 /\ Coming(c, Append(in, Cancellation)) = 1
      <3>1. Asked(in) = 1 /\ Asked(Append(in, Cancellation)) = 1 BY <1>1, <1>3, <2>1, AskedIs
      <3> QED BY <2>1, <3>1, ToldIs DEF Coming, Held, Waiting
    <2>2. ASSUME NEW m \in Messages, NEW end \in Messages, in = <<end, m>>, IsSaveYourself(m), IsEnd(end),
                 c.state = "SAVE_YOURSELF_DONE", c.out = <<>>, ~c.saveMyself
          PROVE  Coming(c, in) = 1 /\ Coming(c, Append(in, Cancellation)) = 1
      <3>1. ~IsSaveYourself(end) BY <2>2 DEF IsEnd, IsSaveYourself
      <3>2. Asked(in) = 1 /\ Asked(Append(in, Cancellation)) = 1 BY <1>2, <1>3, <2>2, <3>1, AskedIs
      <3> QED BY <2>2, <3>2, ToldIs DEF Coming, Held
    <2>3. ASSUME in = <<Message("Interact")>>, c.state = "INTERACT_REQUEST", c.out = <<>>
          PROVE  Coming(c, in) = 1 /\ Coming(c, Append(in, Cancellation)) = 1
      <3>1. Asked(in) = 0 /\ Asked(Append(in, Cancellation)) = 0 BY <1>1, <1>3, <1>4, <2>3, AskedIs
      <3> QED BY <2>3, <3>1, ToldIs DEF Coming, Held
    <2>4. ASSUME in = <<>>, c.out = <<>>, Held(c) = 1
          PROVE  Coming(c, in) = 1 /\ Coming(c, Append(in, Cancellation)) = 1
      BY <1>1, <1>5, <2>4, ToldIs DEF Coming
    <2>5. ASSUME in = <<>>, ~c.saveMyself, c.state = "SAVE_YOURSELF_DONE", c.out \in Answers
          PROVE  Coming(c, in) = 1 /\ Coming(c, Append(in, Cancellation)) = 1
      <3>1. Told(c.out) = 1 BY <2>5, ToldIs DEF Answers
      <3> QED BY <1>1, <1>5, <2>5, <3>1 DEF Coming, Held
    <2>6. ASSUME in = <<>>, ~c.saveMyself, c.state = "INTERACT_REQUEST", c.out = <<"InteractRequest">>
          PROVE  Coming(c, in) = 1 /\ Coming(c, Append(in, Cancellation)) = 1
      BY <1>1, <1>5, <2>6, ToldIs DEF Coming, Held
    <2>7. \/ \E m \in Messages : /\ in = <<m>> /\ IsSaveYourself(m) /\ c.state \in Waiting
                                 /\ c.out = <<>> /\ ~c.saveMyself
          \/ \E m, end \in Messages : /\ in = <<end, m>> /\ IsSaveYourself(m) /\ IsEnd(end)
                                      /\ c.state = "SAVE_YOURSELF_DONE" /\ c.out = <<>> /\ ~c.saveMyself
          \/ in = <<Message("Interact")>> /\ c.state = "INTERACT_REQUEST" /\ c.out = <<>>
          \/ in = <<>> /\ c.out = <<>> /\ Held(c) = 1
          \/ in = <<>> /\ ~c.saveMyself /\ c.state = "SAVE_YOURSELF_DONE" /\ c.out \in Answers
          \/ in = <<>> /\ ~c.saveMyself /\ c.state = "INTERACT_REQUEST" /\ c.out = <<"InteractRequest">>
      BY <1>6 DEF InProgress, Held
    <2> QED BY <2>1, <2>2, <2>3, <2>4, <2>5, <2>6, <2>7
  <1>7. Refused(c, in) => Coming(c, Append(in, Cancellation)) = 1
    BY <1>1, <1>5, ToldIs DEF Refused, Coming, Held
  <1>8. CalledOff(c, in) => Coming(c, in) \in {0, 1}
    <2> SUFFICES ASSUME CalledOff(c, in) PROVE Coming(c, in) \in {0, 1} OBVIOUS
    <2>1. c.out \in Answers \union {<<>>, <<"InteractRequest", "SaveYourselfDone">>} BY DEF CalledOff
    <2>2. Told(c.out) \in {0, 1} BY <2>1, ToldIs DEF Answers
    <2> QED BY <1>5, <2>2 DEF CalledOff, Coming, Held, Waiting
  <1>9. Idling(c, in) => Coming(c, in) = 0
    <2> SUFFICES ASSUME Idling(c, in) PROVE Coming(c, in) = 0 OBVIOUS
    <2>1. CASE in = <<>> /\ c.state \in Waiting
      BY <1>5, <2>1, ToldIs DEF Idling, Coming, Held, Waiting
    <2>2. ASSUME NEW end \in Messages, in = <<end>>, IsEnd(end), c.state = "SAVE_YOURSELF_DONE"
          PROVE  Coming(c, in) = 0
      <3>1. Asked(in) = 0 BY <2>2, AskedIs DEF IsEnd, IsSaveYourself
      <3> QED BY <2>2, <3>1, ToldIs DEF Idling, Coming, Held
    <2> QED BY <2>1, <2>2 DEF Idling
  <1> QED BY <1>6, <1>7, <1>8, <1>9

\* The client and the application answer the session manager what they were
\* asked, once, and nothing else, whenever it cancels and the connection breaks.
THEOREM ProtocolHolds == Spec => []ProtocolIsKept
  <1> USE DEF IInv
  <1>1. IInv => TypeOK
    <2> SUFFICES ASSUME IInv PROVE TypeOK OBVIOUS
    <2>1. client.state \in ClientStates /\ manager.phase \in {"idle", "saving", "interacting", "done", "gone"}
      BY DEF Typed, Clients, Managers
    <2>2. Range(dirtyList) \subseteq AllWindows
      <3>1. dirtyList \in Seq(AllWindows) BY DEF Typed
      <3> QED BY <3>1, LenProperties DEF Range
    <2>3. \A w \in AllWindows : toSave[w] \subseteq {d \in Docs : WindowOf[d] = w} BY DEF Typed
    <2>4. \A d \in dialog.docs : WindowOf[d] = dialog.window BY DialogIs DEF NoDialog
    <2> QED BY <2>1, <2>2, <2>3, <2>4 DEF TypeOK, Typed
  <1>2. IInv => AnsweredOnce
    <2> SUFFICES ASSUME IInv, manager.phase # "gone"
                 PROVE  LET awaited == IF manager.phase \in {"saving", "interacting"} THEN 1 ELSE 0
                        IN  /\ Coming(client, inbox) <= awaited
                            /\ ~manager.cancelled => Coming(client, inbox) = awaited
      BY DEF AnsweredOnce, Count, Coming, Asked, Held, Told
    <2>1. CASE manager.phase = "idle" BY <2>1, InOnePlace DEF Exchange
    <2>2. CASE manager.phase \in Open /\ ~manager.cancelled BY <2>2, InOnePlace DEF Exchange, Open
    <2>3. CASE manager.phase \in Open /\ manager.cancelled
      <3>1. CASE CalledOff(client, inbox) BY <2>3, <3>1, InOnePlace DEF Open
      <3>2. CASE BeingCancelled(client, inbox) BY <2>3, <3>2, InOnePlace DEF BeingCancelled, Open
      <3> QED BY <2>3, <3>1, <3>2 DEF Exchange
    <2>4. CASE manager.phase = "done"
      <3>1. Asked(<<>>) = 0 BY NoneOrOne DEF Asked
      <3> QED BY <2>4, <3>1, ToldIs DEF Exchange, Coming, Held
    <2> QED BY <2>1, <2>2, <2>3, <2>4 DEF Typed, Managers, Open
  <1>3. IInv => NeverAstray BY DEF NeverAstray, Exchange
  <1>4. IInv => ProtocolIsKept BY <1>1, <1>2, <1>3 DEF ProtocolIsKept
  <1> QED BY <1>4, Invariant, PTL

-----------------------------------------------------------------------------
(***************************************************************************)
(* Files are opened, and sessions restored: OpenFiles.                     *)
(***************************************************************************)

HIDE WindowsAssumption
USE LocationsAssumption

\* The operators on sequences and sets are those of this module.
LEMMA SameRange == \A s : O!Range(s) = Range(s)
  BY DEF O!Range, Range

LEMMA SameMin == \A S : O!Min(S) = Min(S)
  BY DEF O!Min, Min

LEMMA SameRemoveAt == \A s, i : O!RemoveAt(s, i) = RemoveAt(s, i)
  BY DEF O!RemoveAt, RemoveAt

LEMMA SameReverse == \A s : O!Reverse(s) = Reverse(s)
  BY DEF O!Reverse, Reverse

LEMMA SameCardinality == \A S : O!Cardinality(S) = Cardinality(S)
  BY DEF O!Cardinality, Cardinality

Tabs == [file : Files \union {Untitled}, state : {"NORMAL", "LOADING", "LOADING_ERROR"},
         modified : BOOLEAN, not_editable : BOOLEAN, bar : BOOLEAN, granted : BOOLEAN]

\* A window, which shows one of its tabs if it has any.
IsWindow(x) ==
    /\ x = [pages |-> x.pages, current |-> x.current] /\ x.pages \in Seq(Tabs)
    /\ IF x.pages = <<>> THEN x.current = 0 ELSE x.current \in 1..Len(x.pages)

\* A tab that can be edited though the user has not said so.
Own(d) == d.file \in Files /\ O!IsEditable(d) /\ ~d.granted

\* What y has of those, x had at the same place.
GainsNone(x, y) ==
    \A i \in 1..Len(y.pages) : Own(y.pages[i]) => i \in 1..Len(x.pages) /\ x.pages[i] = y.pages[i]

LEMMA NewTabIs == O!NewTab \in Tabs /\ ~Own(O!NewTab) /\ O!IsUntouched(O!NewTab)
  BY DEF O!NewTab, Tabs, Own, O!IsUntouched

LEMMA LoadIs ==
    ASSUME NEW d \in Tabs, NEW file \in Files, NEW e, e = O!Load(d, file)
    PROVE  e \in Tabs /\ ~Own(e) /\ e.file = file /\ e.state = "LOADING" /\ ~O!IsUntouched(e)
  BY DEF O!Load, Tabs, Own, O!IsEditable, O!IsUntouched

LEMMA NewWindowIs == IsWindow(O!NewWindow) /\ Len(O!NewWindow.pages) = 0
  <1>1. O!NewWindow.pages = <<>> /\ <<>> \in Seq(Tabs) /\ Len(<<>>) = 0 BY DEF O!NewWindow
  <1> QED BY <1>1 DEF O!NewWindow, IsWindow

LEMMA WindowIs ==
    ASSUME NEW x, IsWindow(x)
    PROVE  /\ Len(x.pages) \in Nat /\ DOMAIN x.pages = 1..Len(x.pages)
           /\ \A i \in 1..Len(x.pages) : x.pages[i] \in Tabs
           /\ x.pages = <<>> <=> Len(x.pages) = 0
           /\ x.current \in Nat /\ (x.current # 0 => x.current \in 1..Len(x.pages))
           /\ x.current = 0 <=> x.pages = <<>>
  BY LenProperties, EmptySeq DEF IsWindow

\* A tab at the end.
Adds(x, d, jump_to, y) ==
    /\ IsWindow(y) /\ Len(y.pages) = Len(x.pages) + 1 /\ y.pages[Len(x.pages) + 1] = d
    /\ \A i \in 1..Len(x.pages) : y.pages[i] = x.pages[i]
    /\ y.current = IF jump_to \/ Len(x.pages) = 0 THEN Len(x.pages) + 1 ELSE x.current

LEMMA AddTabIs ==
    ASSUME NEW x, IsWindow(x), NEW d \in Tabs, NEW jump_to \in BOOLEAN, NEW y, y = O!AddTab(x, d, jump_to)
    PROVE  Adds(x, d, jump_to, y)
  <1>1. PICK n : n = Len(x.pages) OBVIOUS
  <1>2. n \in Nat /\ (x.pages = <<>> <=> n = 0) /\ (x.current # 0 => x.current \in 1..n)
    BY <1>1, WindowIs
  <1>3. x.current = 0 <=> n = 0 BY <1>1, WindowIs
  <1>4. PICK s : s = Append(x.pages, d) OBVIOUS
  <1>5. s \in Seq(Tabs) /\ Len(s) = n + 1 /\ s[n + 1] = d /\ \A i \in 1..n : s[i] = x.pages[i]
    BY <1>1, <1>4, AppendProperties DEF IsWindow
  <1>6. y = [pages |-> s, current |-> IF jump_to \/ n = 0 THEN n + 1 ELSE x.current]
    BY <1>1, <1>2, <1>4 DEF O!AddTab
  <1>7. y.current \in 1..Len(y.pages) BY <1>2, <1>3, <1>5, <1>6
  <1>8. s # <<>> BY <1>2, <1>5, EmptySeq
  <1>9. IsWindow(y) BY <1>5, <1>6, <1>7, <1>8 DEF IsWindow
  <1> QED BY <1>1, <1>5, <1>6, <1>9 DEF Adds

LEMMA AddsNone ==
    ASSUME NEW x, IsWindow(x), NEW d, ~Own(d), NEW jump_to, NEW y, Adds(x, d, jump_to, y)
    PROVE  GainsNone(x, y)
  <1>1. Len(x.pages) \in Nat BY WindowIs
  <1>2. \A i \in 1..(Len(x.pages) + 1) : i \in 1..Len(x.pages) \/ i = Len(x.pages) + 1 BY <1>1
  <1> QED BY <1>2 DEF Adds, GainsNone

LEMMA GainsNoneTransitive ==
    ASSUME NEW x, NEW y, NEW z, GainsNone(x, y), GainsNone(y, z)
    PROVE  GainsNone(x, z)
  BY DEF GainsNone

\* k tabs more, for the first files of a list.
Creates(x, list, jumps, k, y) ==
    /\ IsWindow(y) /\ Len(y.pages) = Len(x.pages) + k
    /\ \A i \in 1..Len(x.pages) : y.pages[i] = x.pages[i]
    /\ \A i \in 1..k : y.pages[Len(x.pages) + i] = O!Load(O!NewTab, list[i])
    /\ \/ \E i \in 1..k : /\ list[i] \in jumps \/ (Len(x.pages) = 0 /\ i = 1)
                          /\ y.current = Len(x.pages) + i
                          /\ \A j \in (i + 1)..k : list[j] \notin jumps
       \/ /\ y.current = x.current
          /\ \A j \in 1..k : list[j] \notin jumps
          /\ Len(x.pages) = 0 => k = 0

LEMMA CreatesNothing ==
    ASSUME NEW x, IsWindow(x), NEW list, NEW jumps
    PROVE  Creates(x, list, jumps, 0, x)
  <1>1. Len(x.pages) \in Nat BY WindowIs
  <1> QED BY <1>1 DEF Creates

LEMMA CreatesOneMore ==
    ASSUME NEW x, IsWindow(x), NEW n \in Nat, NEW list, \A i \in 1..n : list[i] \in Files, NEW jumps,
           NEW k \in 1..n, NEW v, Creates(x, list, jumps, k - 1, v),
           NEW y, y = O!CreateTabFromUri(v, list[k], list[k] \in jumps)
    PROVE  Creates(x, list, jumps, k, y)
  <1>1. PICK d : d = O!Load(O!NewTab, list[k]) OBVIOUS
  <1>2. d \in Tabs BY <1>1, NewTabIs, LoadIs
  <1>3. PICK m \in Nat : m = Len(x.pages) BY WindowIs
  <1>4. IsWindow(v) /\ Len(v.pages) = m + (k - 1) BY <1>3 DEF Creates
  <1>5. PICK b \in BOOLEAN : b = (list[k] \in jumps)
    <2>1. (list[k] \in jumps) \in BOOLEAN OBVIOUS
    <2> QED BY <2>1, Zenon
  <1>6. y = O!AddTab(v, d, b) BY <1>1, <1>5 DEF O!CreateTabFromUri
  <1>7. Adds(v, d, b, y) BY <1>2, <1>4, <1>6, AddTabIs
  <1>8. Len(y.pages) = m + k BY <1>4, <1>7 DEF Adds
  <1>9. \A i \in 1..m : y.pages[i] = x.pages[i]
    <2>1. \A i \in 1..m : i \in 1..(m + (k - 1)) OBVIOUS
    <2> QED BY <1>3, <1>4, <1>7, <2>1 DEF Adds, Creates
  <1>10. \A i \in 1..k : y.pages[m + i] = O!Load(O!NewTab, list[i])
    <2>1. ASSUME NEW i \in 1..k, i # k PROVE y.pages[m + i] = O!Load(O!NewTab, list[i])
      <3>1. i \in 1..(k - 1) /\ m + i \in 1..(m + (k - 1)) BY <2>1
      <3>2. v.pages[m + i] = O!Load(O!NewTab, list[i]) BY <1>3, <3>1 DEF Creates
      <3> QED BY <1>4, <1>7, <3>1, <3>2 DEF Adds
    <2>2. y.pages[m + k] = d
      <3>1. (m + (k - 1)) + 1 = m + k OBVIOUS
      <3> QED BY <1>4, <1>7, <3>1 DEF Adds
    <2> QED BY <1>1, <2>1, <2>2
  <1>11. \/ \E i \in 1..k : /\ list[i] \in jumps \/ (m = 0 /\ i = 1)
                            /\ y.current = m + i
                            /\ \A j \in (i + 1)..k : list[j] \notin jumps
         \/ /\ y.current = x.current
            /\ \A j \in 1..k : list[j] \notin jumps
            /\ m = 0 => k = 0
    <2>1. CASE b \/ m + (k - 1) = 0
      <3>1. y.current = (m + (k - 1)) + 1 BY <1>4, <1>7, <2>1 DEF Adds
      <3>2. k \in 1..k /\ y.current = m + k /\ (b \/ (m = 0 /\ k = 1)) BY <2>1, <3>1
      <3>3. \A j \in (k + 1)..k : list[j] \notin jumps OBVIOUS
      <3> QED BY <1>5, <3>2, <3>3
    <2>2. CASE ~b /\ m + (k - 1) # 0
      <3>1. y.current = v.current BY <1>4, <1>7, <2>2 DEF Adds
      <3>2. list[k] \notin jumps BY <1>5, <2>2
      <3>3. CASE \E i \in 1..(k - 1) : /\ list[i] \in jumps \/ (m = 0 /\ i = 1)
                                       /\ v.current = m + i
                                       /\ \A j \in (i + 1)..(k - 1) : list[j] \notin jumps
        <4>1. PICK i \in 1..(k - 1) : /\ list[i] \in jumps \/ (m = 0 /\ i = 1)
                                      /\ v.current = m + i
                                      /\ \A j \in (i + 1)..(k - 1) : list[j] \notin jumps
          BY <3>3
        <4>2. i \in 1..k /\ \A j \in (i + 1)..k : j = k \/ j \in (i + 1)..(k - 1) OBVIOUS
        <4> QED BY <3>1, <3>2, <4>1, <4>2
      <3>4. CASE /\ v.current = x.current
                 /\ \A j \in 1..(k - 1) : list[j] \notin jumps
                 /\ m = 0 => k - 1 = 0
        <4>1. \A j \in 1..k : j = k \/ j \in 1..(k - 1) OBVIOUS
        <4>2. m # 0 BY <2>2, <3>4
        <4> QED BY <3>1, <3>2, <3>4, <4>1, <4>2
      <3> QED BY <1>3, <3>3, <3>4 DEF Creates
    <2> QED BY <2>1, <2>2
  <1>12. IsWindow(y) BY <1>7 DEF Adds
  <1> QED BY <1>3, <1>8, <1>9, <1>10, <1>11, <1>12 DEF Creates

LEMMA CreateTabsIs ==
    ASSUME NEW x, IsWindow(x), NEW list \in Seq(Files), NEW jumps, NEW y, y = O!CreateTabs(x, list, jumps)
    PROVE  Creates(x, list, jumps, Len(list), y)
  <1> DEFINE n == Len(list)
             Step(k, v) == O!CreateTabFromUri(v, list[k], list[k] \in jumps)
             W == {v \in [pages : Seq(Tabs), current : Nat] : IsWindow(v)}
             S == [k \in 0..n |-> {v \in W : Creates(x, list, jumps, k, v)}]
             h == [k \in 1..n |-> [v \in S[k - 1] |-> Step(k, v)]]
             after == CHOOSE f : f = [k \in 0..n |-> IF k = 0 THEN x ELSE Step(k, f[k - 1])]
  <1>1. n \in Nat /\ \A i \in 1..n : list[i] \in Files BY LenProperties
  <1>2. y = after[n]
    <2> DEFINE F == CHOOSE f : f = [k \in 0..Len(list) |-> IF k = 0 THEN x
                                        ELSE O!CreateTabFromUri(f[k - 1], list[k], list[k] \in jumps)]
    <2>1. y = F[Len(list)] BY DEF O!CreateTabs
    <2> QED BY <2>1
  <1>3. \A v : IsWindow(v) => v \in W
    <2> SUFFICES ASSUME NEW v, IsWindow(v) PROVE v \in [pages : Seq(Tabs), current : Nat] OBVIOUS
    <2>1. v.current \in Nat BY WindowIs
    <2> QED BY <2>1 DEF IsWindow
  <1> HIDE DEF W, Step, n
  <1>4. /\ \A k \in 0..n : \A v : v \in S[k] <=> Creates(x, list, jumps, k, v)
        /\ \A k \in 1..n : \A v \in S[k - 1] : h[k][v] = Step(k, v) /\ Step(k, v) \in S[k]
    <2>1. \A k \in 0..n : \A v : v \in S[k] <=> Creates(x, list, jumps, k, v) BY <1>3 DEF Creates
    <2>2. \A k \in 1..n : \A v \in S[k - 1] : h[k][v] = Step(k, v) OBVIOUS
    <2>3. \A k \in 1..n : k \in 0..n /\ k - 1 \in 0..n BY <1>1
    <2> HIDE DEF S
    <2>4. ASSUME NEW k \in 1..n, NEW v \in S[k - 1] PROVE Step(k, v) \in S[k]
      <3>1. Creates(x, list, jumps, k - 1, v) BY <2>1, <2>3
      <3>2. PICK w : w = Step(k, v) OBVIOUS
      <3>3. Creates(x, list, jumps, k, w) BY <1>1, <3>1, <3>2, CreatesOneMore DEF Step
      <3> QED BY <2>1, <2>3, <3>2, <3>3
    <2> QED BY <2>1, <2>2, <2>4
  <1> HIDE DEF S, h
  <1>5. IsChain(S, h, n) BY <1>4 DEF IsChain
  <1>6. x \in S[0] BY <1>1, <1>4, CreatesNothing
  <1>7. after = [k \in 0..n |-> IF k = 0 THEN x ELSE Step(k, after[k - 1])]
    <2>1. PICK f : IsRun(f, x, h, n) /\ \A k \in 0..n : f[k] \in S[k]
      BY <1>1, <1>5, <1>6, ChainExists
    <2>2. \A k \in 0..n : k # 0 => h[k][f[k - 1]] = Step(k, f[k - 1])
      <3>1. \A k \in 0..n : k # 0 => k \in 1..n /\ k - 1 \in 0..n BY <1>1
      <3> QED BY <1>4, <2>1, <3>1
    <2>3. f = [k \in 0..n |-> IF k = 0 THEN x ELSE Step(k, f[k - 1])] BY <2>1, <2>2 DEF IsRun
    <2> QED BY <2>3
  <1> HIDE DEF after
  <1>8. after[0] = x /\ \A k \in 1..n : after[k] = Step(k, after[k - 1])
    <2>1. 0 \in 0..n /\ \A k \in 1..n : k \in 0..n /\ k # 0 BY <1>1
    <2> QED BY <1>7, <2>1
  <1>9. \A k \in 1..n : after[k - 1] \in S[k - 1] => after[k] = h[k][after[k - 1]] BY <1>4, <1>8
  <1>10. \A k \in 0..n : after[k] \in S[k] BY <1>1, <1>5, <1>6, <1>8, <1>9, ChainStays
  <1> QED BY <1>1, <1>2, <1>4, <1>10 DEF n

\* The files of a list that are not open in a window, each once, for its first k.
Wanted(x, files, k, list) ==
    /\ list \in Seq(Files) /\ IsInjective(list)
    /\ \A file : file \in Range(list) <=> ~O!IsOpenIn(x, file) /\ \E i \in 1..k : files[i] = file
    /\ k # 0 /\ ~O!IsOpenIn(x, files[1]) => list # <<>> /\ list[1] = files[1]

LEMMA WantsOneMore ==
    ASSUME NEW x, NEW n \in Nat, NEW files, \A i \in 1..n : files[i] \in Files,
           NEW k \in 1..n, NEW v, Wanted(x, files, k - 1, v), NEW w, w = O!WithFile(v, x, files[k])
    PROVE  Wanted(x, files, k, w)
  <1>1. PICK e \in Files : e = files[k] OBVIOUS
  <1>2. v \in Seq(Files) /\ IsInjective(v) BY DEF Wanted
  <1>3. \A file : (\E i \in 1..k : files[i] = file)
                  <=> (\E i \in 1..(k - 1) : files[i] = file) \/ file = e
    <2>1. \A i \in 1..k : i = k \/ i \in 1..(k - 1) OBVIOUS
    <2>2. k \in 1..k /\ \A i \in 1..(k - 1) : i \in 1..k OBVIOUS
    <2> QED BY <1>1, <2>1, <2>2
  <1>4. k - 1 # 0 /\ ~O!IsOpenIn(x, files[1]) => v # <<>> /\ v[1] = files[1] BY DEF Wanted
  <1>5. CASE e \in Range(v) \/ O!IsOpenIn(x, e)
    <2>1. w = v BY <1>1, <1>5, SameRange DEF O!WithFile
    <2>2. \A file : file \in Range(v) <=> ~O!IsOpenIn(x, file) /\ \E i \in 1..k : files[i] = file
      BY <1>3, <1>5 DEF Wanted
    <2>3. ASSUME ~O!IsOpenIn(x, files[1]) PROVE v # <<>> /\ v[1] = files[1]
      <3>1. CASE k - 1 # 0 BY <1>4, <2>3, <3>1
      <3>2. CASE k - 1 = 0
        <4>1. e \in Range(v) BY <1>1, <1>5, <2>3, <3>2
        <4>2. \E i \in 1..(k - 1) : files[i] = e BY <4>1 DEF Wanted
        <4> QED BY <3>2, <4>2
      <3> QED BY <3>1, <3>2
    <2> QED BY <1>2, <2>1, <2>2, <2>3 DEF Wanted
  <1>6. CASE ~(e \in Range(v) \/ O!IsOpenIn(x, e))
    <2>1. w = Append(v, e) BY <1>1, <1>6, SameRange DEF O!WithFile
    <2>2. w \in Seq(Files) /\ w # <<>> /\ Range(w) = Range(v) \union {e} /\ IsInjective(w)
      BY <1>2, <1>6, <2>1, AppendedIs
    <2>3. \A file : file \in Range(w) <=> ~O!IsOpenIn(x, file) /\ \E i \in 1..k : files[i] = file
      BY <1>3, <1>6, <2>2 DEF Wanted
    <2>4. PICK m \in Nat : m = Len(v) BY <1>2, LenProperties
    <2>5. w[m + 1] = e /\ \A i \in 1..m : w[i] = v[i] BY <1>2, <2>1, <2>4, AppendProperties
    <2>6. ASSUME ~O!IsOpenIn(x, files[1]) PROVE w[1] = files[1]
      <3>1. CASE k - 1 # 0
        <4>1. v # <<>> /\ v[1] = files[1] BY <1>4, <2>6, <3>1
        <4>2. m # 0 BY <1>2, <2>4, <4>1, EmptySeq
        <4>3. 1 \in 1..m BY <4>2
        <4> QED BY <2>5, <4>1, <4>3
      <3>2. CASE k - 1 = 0
        <4>1. v = <<>>
          <5>1. \A file : file \notin Range(v) BY <3>2 DEF Wanted
          <5>2. \A i \in 1..m : v[i] \in Range(v) BY <1>2, <2>4, LenProperties DEF Range
          <5>3. m = 0
            <6>1. 1 \notin 1..m BY <5>1, <5>2
            <6> QED BY <6>1
          <5> QED BY <1>2, <2>4, <5>3, EmptySeq
        <4>2. m = 0 BY <1>2, <2>4, <4>1, EmptySeq
        <4> QED BY <1>1, <2>5, <3>2, <4>2
      <3> QED BY <3>1, <3>2
    <2> QED BY <2>2, <2>3, <2>6 DEF Wanted
  <1> QED BY <1>5, <1>6

LEMMA FilesToLoadAre ==
    ASSUME NEW x, NEW files \in Seq(Files), NEW t, t = O!FilesToLoad(x, files)
    PROVE  Wanted(x, files, Len(files), t)
  <1> DEFINE n == Len(files)
             Step(k, v) == O!WithFile(v, x, files[k])
             W == Seq(Files)
             S == [k \in 0..n |-> {v \in W : Wanted(x, files, k, v)}]
             h == [k \in 1..n |-> [v \in S[k - 1] |-> Step(k, v)]]
             list == CHOOSE f : f = [k \in 0..n |-> IF k = 0 THEN <<>> ELSE Step(k, f[k - 1])]
  <1>1. n \in Nat /\ \A i \in 1..n : files[i] \in Files BY LenProperties
  <1>2. t = list[n]
    <2> DEFINE F == CHOOSE f : f = [k \in 0..Len(files) |-> IF k = 0 THEN <<>>
                                        ELSE O!WithFile(f[k - 1], x, files[k])]
    <2>1. t = F[Len(files)] BY DEF O!FilesToLoad
    <2> QED BY <2>1
  <1>3. Wanted(x, files, 0, <<>>)
    <2>1. <<>> \in Seq(Files) /\ Range(<<>>) = {} /\ IsInjective(<<>>) BY DEF Range, IsInjective
    <2> QED BY <2>1 DEF Wanted
  <1>0. \A k, v : Wanted(x, files, k, v) => v \in W BY DEF Wanted
  <1> HIDE DEF Step, n, W
  <1>4. /\ \A k \in 0..n : \A v : v \in S[k] <=> Wanted(x, files, k, v)
        /\ \A k \in 1..n : \A v \in S[k - 1] : h[k][v] = Step(k, v) /\ Step(k, v) \in S[k]
    <2>1. \A k \in 0..n : \A v : v \in S[k] <=> Wanted(x, files, k, v) BY <1>0
    <2>2. \A k \in 1..n : \A v \in S[k - 1] : h[k][v] = Step(k, v) OBVIOUS
    <2>3. \A k \in 1..n : k \in 0..n /\ k - 1 \in 0..n BY <1>1
    <2> HIDE DEF S
    <2>4. ASSUME NEW k \in 1..n, NEW v \in S[k - 1] PROVE Step(k, v) \in S[k]
      <3>1. Wanted(x, files, k - 1, v) BY <2>1, <2>3
      <3>2. PICK w : w = Step(k, v) OBVIOUS
      <3>3. Wanted(x, files, k, w) BY <1>1, <3>1, <3>2, WantsOneMore DEF Step
      <3> QED BY <2>1, <2>3, <3>2, <3>3
    <2> QED BY <2>1, <2>2, <2>4
  <1> HIDE DEF S, h
  <1>5. IsChain(S, h, n) BY <1>4 DEF IsChain
  <1>6. <<>> \in S[0] BY <1>1, <1>3, <1>4
  <1>7. list = [k \in 0..n |-> IF k = 0 THEN <<>> ELSE Step(k, list[k - 1])]
    <2>1. PICK f : IsRun(f, <<>>, h, n) /\ \A k \in 0..n : f[k] \in S[k]
      BY <1>1, <1>5, <1>6, ChainExists
    <2>2. \A k \in 0..n : k # 0 => h[k][f[k - 1]] = Step(k, f[k - 1])
      <3>1. \A k \in 0..n : k # 0 => k \in 1..n /\ k - 1 \in 0..n BY <1>1
      <3> QED BY <1>4, <2>1, <3>1
    <2>3. f = [k \in 0..n |-> IF k = 0 THEN <<>> ELSE Step(k, f[k - 1])] BY <2>1, <2>2 DEF IsRun
    <2> QED BY <2>3
  <1> HIDE DEF list
  <1>8. list[0] = <<>> /\ \A k \in 1..n : list[k] = Step(k, list[k - 1])
    <2>1. 0 \in 0..n /\ \A k \in 1..n : k \in 0..n /\ k # 0 BY <1>1
    <2> QED BY <1>7, <2>1
  <1>9. \A k \in 1..n : list[k - 1] \in S[k - 1] => list[k] = h[k][list[k - 1]] BY <1>4, <1>8
  <1>10. \A k \in 0..n : list[k] \in S[k] BY <1>1, <1>5, <1>6, <1>8, <1>9, ChainStays
  <1> QED BY <1>1, <1>2, <1>4, <1>10 DEF n

\* What load_file_list makes of a window, but for what it shows.
Keeps(x, y) ==
    \A i \in 1..Len(x.pages) :
        i \in 1..Len(y.pages) /\ (O!IsUntouched(x.pages[i]) \/ y.pages[i] = x.pages[i])
IsAt(y, file, i) == i \in 1..Len(y.pages) /\ y.pages[i].file = file
Places(x, y, file) ==
    IF O!IsOpenIn(x, file) THEN \A i \in Nat : IsAt(y, file, i) <=> IsAt(x, file, i)
    ELSE \E k \in Nat : \A i \in Nat : IsAt(y, file, i) <=> i = k

\* The tabs of y are those of b and, behind them, new ones for a list.
Follow(b, list, y) ==
    /\ Len(y.pages) = Len(b.pages) + Len(list)
    /\ \A i \in 1..Len(b.pages) : y.pages[i] = b.pages[i]
    /\ \A i \in 1..Len(list) : LET d == y.pages[Len(b.pages) + i] IN d.file = list[i] /\ ~Own(d)

LEMMA FollowFrom ==
    ASSUME NEW b, NEW list \in Seq(Files), NEW jumps, NEW y, Creates(b, list, jumps, Len(list), y)
    PROVE  Follow(b, list, y)
  <1>1. \A i \in 1..Len(list) : list[i] \in Files BY LenProperties
  <1>2. \A i \in 1..Len(list) : O!Load(O!NewTab, list[i]).file = list[i] /\ ~Own(O!Load(O!NewTab, list[i]))
    BY <1>1, NewTabIs, LoadIs
  <1> QED BY <1>2 DEF Creates, Follow

\* Nothing replaced: the list has no file of x.
LEMMA FollowKeeps ==
    ASSUME NEW b, IsWindow(b), NEW list \in Seq(Files), NEW y, Follow(b, list, y)
    PROVE  Keeps(b, y) /\ GainsNone(b, y)
  <1>1. PICK m \in Nat : m = Len(b.pages) BY WindowIs
  <1>2. PICK n \in Nat : n = Len(list) BY LenProperties
  <1>3. \A i \in 1..m : i \in 1..(m + n) OBVIOUS
  <1>4. \A i \in 1..(m + n) : i \in 1..m \/ (i - m \in 1..n /\ i = m + (i - m)) OBVIOUS
  <1>5. Keeps(b, y) BY <1>1, <1>2, <1>3 DEF Keeps, Follow
  <1>6. \A i \in 1..(m + n) : i \in 1..m \/ ~Own(y.pages[i])
    <2> SUFFICES ASSUME NEW i \in 1..(m + n), i \notin 1..m PROVE ~Own(y.pages[i]) OBVIOUS
    <2>1. PICK k \in 1..n : i = m + k BY <1>4
    <2> QED BY <1>1, <1>2, <2>1 DEF Follow
  <1> QED BY <1>1, <1>2, <1>5, <1>6 DEF GainsNone, Follow

LEMMA FollowPlaces ==
    ASSUME NEW b, IsWindow(b), NEW list \in Seq(Files), IsInjective(list), NEW y, Follow(b, list, y),
           NEW file, file \in Range(list) <=> ~O!IsOpenIn(b, file), NEW x,
           \A i \in Nat : IsAt(b, file, i) <=> IsAt(x, file, i), IsWindow(x)
    PROVE  Places(x, y, file)
  <1>1. PICK m \in Nat : m = Len(b.pages) BY WindowIs
  <1>2. PICK n \in Nat : n = Len(list) /\ DOMAIN list = 1..n BY LenProperties
  <1>3. Len(y.pages) = m + n BY <1>1, <1>2 DEF Follow
  <1>4. \A i \in 1..m : y.pages[i] = b.pages[i] BY <1>1 DEF Follow
  <1>5. \A i \in 1..n : y.pages[m + i].file = list[i] BY <1>1, <1>2 DEF Follow
  <1>6. O!IsOpenIn(b, file) <=> \E i \in Nat : IsAt(b, file, i) BY WindowIs DEF O!IsOpenIn, IsAt
  <1>7. O!IsOpenIn(x, file) <=> \E i \in Nat : IsAt(x, file, i) BY WindowIs DEF O!IsOpenIn, IsAt
  <1>8. O!IsOpenIn(x, file) <=> O!IsOpenIn(b, file) BY <1>6, <1>7
  <1>9. \A i \in Nat : IsAt(y, file, i) <=> IsAt(b, file, i) \/ \E k \in 1..n : i = m + k /\ list[k] = file
    <2> SUFFICES ASSUME NEW i \in Nat
                 PROVE  IsAt(y, file, i) <=> IsAt(b, file, i) \/ \E k \in 1..n : i = m + k /\ list[k] = file
      OBVIOUS
    <2>1. CASE i \in 1..m
      <3>1. i \in 1..(m + n) /\ ~\E k \in 1..n : i = m + k BY <2>1
      <3> QED BY <1>1, <1>3, <1>4, <2>1, <3>1 DEF IsAt
    <2>2. CASE i \notin 1..m
      <3>1. ~IsAt(b, file, i) BY <1>1, <2>2 DEF IsAt
      <3>2. i \in 1..(m + n) <=> \E k \in 1..n : i = m + k
        <4>1. i \in 1..(m + n) => i - m \in 1..n /\ i = m + (i - m) BY <2>2
        <4>2. \A k \in 1..n : m + k \in 1..(m + n) OBVIOUS
        <4> QED BY <4>1, <4>2
      <3>3. ASSUME NEW k \in 1..n, i = m + k PROVE IsAt(y, file, i) <=> list[k] = file
        BY <1>3, <1>5, <3>2, <3>3 DEF IsAt
      <3>4. i \notin 1..(m + n) => ~IsAt(y, file, i) BY <1>3 DEF IsAt
      <3> QED BY <3>1, <3>2, <3>3, <3>4
    <2> QED BY <2>1, <2>2
  <1>10. CASE O!IsOpenIn(b, file)
    <2>1. \A k \in 1..n : list[k] # file BY <1>2, <1>10 DEF Range
    <2>2. \A i \in Nat : IsAt(y, file, i) <=> IsAt(x, file, i) BY <1>9, <2>1
    <2> QED BY <1>8, <1>10, <2>2 DEF Places
  <1>11. CASE ~O!IsOpenIn(b, file)
    <2>1. PICK k \in 1..n : list[k] = file BY <1>2, <1>11 DEF Range
    <2>2. \A l \in 1..n : list[l] = file => l = k BY <1>2, <2>1 DEF IsInjective
    <2>3. \A i \in Nat : ~IsAt(b, file, i) BY <1>6, <1>11
    <2>4. m + k \in Nat /\ \A i \in Nat : IsAt(y, file, i) <=> i = m + k BY <1>9, <2>1, <2>2, <2>3
    <2> QED BY <1>8, <1>11, <2>4 DEF Places
  <1> QED BY <1>10, <1>11

\* load_file_list has shown the file, and kept the others.
Opens(x, files, y) ==
    /\ IsWindow(y) /\ GainsNone(x, y) /\ Keeps(x, y)
    /\ y.current \in 1..Len(y.pages) /\ y.pages[y.current].file = files[1]
    /\ \A file \in Range(files) : Places(x, y, file)

LEMMA TailAndHead ==
    ASSUME NEW t \in Seq(Files), t # <<>>, IsInjective(t)
    PROVE  /\ Head(t) = t[1] /\ t[1] \in Files /\ t[1] \in Range(t) /\ Tail(t) \in Seq(Files)
           /\ IsInjective(Tail(t)) /\ Range(Tail(t)) = Range(t) \ {t[1]}
  <1>1. PICK n \in Nat : n = Len(t) BY LenProperties
  <1>2. DOMAIN t = 1..n /\ n # 0 /\ \A i \in 1..n : t[i] \in Files BY <1>1, EmptySeq, LenProperties
  <1>3. PICK r : r = Tail(t) OBVIOUS
  <1>4. Head(t) = t[1] /\ r \in Seq(Files) /\ Len(r) = n - 1 /\ \A i \in 1..(n - 1) : r[i] = t[i + 1]
    BY <1>1, <1>3, HeadTailProperties
  <1>5. DOMAIN r = 1..(n - 1) BY <1>2, <1>4, LenProperties
  <1>6. \A i \in 1..(n - 1) : i + 1 \in 1..n BY <1>2
  <1>7. \A i \in 1..n : i = 1 \/ (i - 1 \in 1..(n - 1) /\ (i - 1) + 1 = i) BY <1>2
  <1>8. \A i, j \in 1..n : t[i] = t[j] => i = j BY <1>2 DEF IsInjective
  <1>9. \A i, j \in 1..(n - 1) : r[i] = r[j] => i = j
    <2> SUFFICES ASSUME NEW i \in 1..(n - 1), NEW j \in 1..(n - 1), r[i] = r[j] PROVE i = j OBVIOUS
    <2>1. i + 1 = j + 1 BY <1>4, <1>6, <1>8
    <2> QED BY <2>1
  <1>10. Range(r) = Range(t) \ {t[1]}
    <2>1. ASSUME NEW f \in Range(r) PROVE f \in Range(t) \ {t[1]}
      <3>1. PICK i \in 1..(n - 1) : f = t[i + 1] BY <1>4, <1>5 DEF Range
      <3>2. i + 1 # 1 /\ 1 \in 1..n BY <1>2
      <3>3. f # t[1] BY <1>6, <1>8, <3>1, <3>2
      <3> QED BY <1>2, <1>6, <3>1, <3>3 DEF Range
    <2>2. ASSUME NEW f \in Range(t), f # t[1] PROVE f \in Range(r)
      <3>1. PICK i \in 1..n : f = t[i] BY <1>2 DEF Range
      <3>2. i # 1 BY <2>2, <3>1
      <3>3. i - 1 \in 1..(n - 1) /\ r[i - 1] = t[i] BY <1>4, <1>7, <3>2
      <3> QED BY <1>5, <3>1, <3>3 DEF Range
    <2> QED BY <2>1, <2>2
  <1>11. 1 \in 1..n BY <1>2
  <1>12. t[1] \in Files /\ t[1] \in Range(t) BY <1>2, <1>11 DEF Range
  <1>13. IsInjective(r) BY <1>5, <1>9 DEF IsInjective
  <1> QED BY <1>3, <1>4, <1>10, <1>12, <1>13

\* The window once the first file is shown, if it is open.
ShownFirst(x, files, z) ==
    /\ IsWindow(z) /\ z.pages = x.pages
    /\ O!IsOpenIn(x, files[1]) => z.current \in 1..Len(x.pages) /\ x.pages[z.current].file = files[1]

LEMMA ShowFirst ==
    ASSUME NEW x, IsWindow(x), NEW files \in Seq(Files), files # <<>>,
           NEW z, z = [x EXCEPT !.current = IF O!IsOpenIn(x, Head(files)) THEN O!GetTabFromFile(x, Head(files)) ELSE @]
    PROVE  ShownFirst(x, files, z)
  <1>1. PICK n \in Nat : n = Len(x.pages) BY WindowIs
  <1>2. Head(files) = files[1] BY HeadTailProperties
  <1>3. DOMAIN x.pages = 1..n BY <1>1, WindowIs
  <1>4. x = [pages |-> x.pages, current |-> x.current] BY DEF IsWindow
  <1>5. PICK c : c = IF O!IsOpenIn(x, files[1]) THEN O!GetTabFromFile(x, files[1]) ELSE x.current OBVIOUS
  <1>6. z = [pages |-> x.pages, current |-> c] BY <1>2, <1>4, <1>5
  <1>7. CASE O!IsOpenIn(x, files[1])
    <2> DEFINE T == {i \in 1..n : x.pages[i].file = files[1]}
    <2>1. T \in SUBSET Nat /\ T # {} BY <1>3, <1>7 DEF O!IsOpenIn
    <2>2. O!GetTabFromFile(x, files[1]) = Min(T)
      BY <1>1, <1>3, <2>1, SameMin DEF O!GetTabFromFile, O!SelectInSeq
    <2>3. c = Min(T) BY <1>5, <1>7, <2>2
    <2>4. c \in T
      <3> HIDE DEF T
      <3> QED BY <2>1, <2>3, MinIsLeast
    <2>5. c \in 1..n /\ x.pages[c].file = files[1] BY <2>4
    <2>6. x.pages # <<>> BY <1>1, <2>5, WindowIs
    <2> QED BY <1>1, <1>6, <2>5, <2>6 DEF ShownFirst, IsWindow
  <1>8. CASE ~O!IsOpenIn(x, files[1])
    <2>1. c = x.current BY <1>5, <1>8
    <2> QED BY <1>4, <1>6, <1>8, <2>1 DEF ShownFirst, IsWindow
  <1> QED BY <1>7, <1>8

\* The tab that is shown takes the first of the files.
LEMMA LoadIntoIs ==
    ASSUME NEW z, IsWindow(z), z.current # 0, O!IsUntouched(z.pages[z.current]), NEW file \in Files,
           NEW b, b = O!LoadInto(z, file)
    PROVE  /\ IsWindow(b) /\ Len(b.pages) = Len(z.pages) /\ b.current = z.current
           /\ z.current \in 1..Len(z.pages) /\ b.pages[z.current].file = file
           /\ z.pages[z.current].file = Untitled /\ ~Own(b.pages[z.current])
           /\ \A i \in 1..Len(z.pages) : i # z.current => b.pages[i] = z.pages[i]
  <1>1. PICK n \in Nat : n = Len(z.pages) BY WindowIs
  <1>2. PICK c : c = z.current OBVIOUS
  <1>3. c \in 1..n /\ z.pages \in Seq(Tabs) /\ z.pages[c] \in Tabs /\ DOMAIN z.pages = 1..n
    BY <1>1, <1>2, WindowIs DEF IsWindow
  <1>4. PICK d : d = O!Load(z.pages[c], file) OBVIOUS
  <1>5. d \in Tabs /\ ~Own(d) /\ d.file = file BY <1>3, <1>4, LoadIs
  <1>6. PICK s : s = [z.pages EXCEPT ![c] = d] OBVIOUS
  <1>7. /\ s \in Seq(Tabs) /\ Len(s) = n /\ s[c] = d
        /\ \A i \in 1..n : i # c => s[i] = z.pages[i]
    <2>1. z.pages \in [1..n -> Tabs] BY <1>1, <1>3, LenProperties
    <2>2. s \in [1..n -> Tabs] /\ s[c] = d /\ \A i \in 1..n : i # c => s[i] = z.pages[i]
      BY <1>3, <1>5, <1>6, <2>1
    <2>3. s \in Seq(Tabs) BY <2>2, SeqDef
    <2>4. Len(s) = n BY <2>2, <2>3, LenProperties
    <2> QED BY <2>2, <2>3, <2>4
  <1>8. b = [pages |-> s, current |-> c]
    <2>1. z = [pages |-> z.pages, current |-> c] BY <1>2 DEF IsWindow
    <2>2. b = [z EXCEPT !.pages[c] = d] BY <1>2, <1>4 DEF O!LoadInto
    <2> QED BY <1>6, <2>1, <2>2
  <1>9. s # <<>> BY <1>3, <1>7, EmptySeq
  <1>10. IsWindow(b) BY <1>3, <1>7, <1>8, <1>9 DEF IsWindow
  <1>11. z.pages[c].file = Untitled BY <1>2 DEF O!IsUntouched
  <1> QED BY <1>1, <1>2, <1>3, <1>5, <1>7, <1>8, <1>10, <1>11

\* A list of the files that were wanted.
LEMMA WantedRange ==
    ASSUME NEW x, NEW files \in Seq(Files), NEW t, Wanted(x, files, Len(files), t)
    PROVE  /\ t \in Seq(Files) /\ IsInjective(t)
           /\ \A file \in Range(files) : file \in Files /\ (file \in Range(t) <=> ~O!IsOpenIn(x, file))
           /\ files # <<>> /\ ~O!IsOpenIn(x, files[1]) => t # <<>> /\ t[1] = files[1]
           /\ files # <<>> => files[1] \in Files
  <1>1. PICK n \in Nat : n = Len(files) BY LenProperties
  <1>2. DOMAIN files = 1..n /\ (files = <<>> <=> n = 0) /\ \A i \in 1..n : files[i] \in Files
    BY <1>1, LenProperties, EmptySeq
  <1>3. \A file \in Range(files) : file \in Files /\ \E i \in 1..n : files[i] = file
    BY <1>2 DEF Range
  <1>4. files # <<>> => n # 0 /\ 1 \in 1..n BY <1>2
  <1> QED BY <1>1, <1>2, <1>3, <1>4 DEF Wanted

LEMMA OpensReused ==
    ASSUME NEW x, IsWindow(x), NEW files \in Seq(Files), files # <<>>,
           NEW z, ShownFirst(x, files, z), NEW t, Wanted(x, files, Len(files), t), O!Reuses(z, t),
           NEW b, b = O!LoadInto(z, Head(t)), NEW y, y = O!CreateTabs(b, Tail(t), {})
    PROVE  Opens(x, files, y)
  <1>1. /\ t \in Seq(Files) /\ IsInjective(t)
        /\ \A file \in Range(files) : file \in Files /\ (file \in Range(t) <=> ~O!IsOpenIn(x, file))
        /\ ~O!IsOpenIn(x, files[1]) => t[1] = files[1]
        /\ files[1] \in Files
    BY WantedRange
  <1>2. t # <<>> /\ z.current # 0 /\ O!IsUntouched(z.pages[z.current]) BY DEF O!Reuses
  <1>3. PICK e \in Files : e = t[1] /\ e = Head(t) /\ e \in Range(t) BY <1>1, <1>2, TailAndHead
  <1>4. PICK r \in Seq(Files) : r = Tail(t) /\ IsInjective(r) /\ Range(r) = Range(t) \ {e}
    BY <1>1, <1>2, <1>3, TailAndHead
  <1>5. IsWindow(z) /\ z.pages = x.pages BY DEF ShownFirst
  <1>6. PICK m \in Nat : m = Len(x.pages) BY WindowIs
  <1>7. PICK c \in 1..m : c = z.current BY <1>2, <1>3, <1>5, <1>6, LoadIntoIs
  <1>8. /\ IsWindow(b) /\ Len(b.pages) = m /\ b.current = c /\ b.pages[c].file = e
        /\ x.pages[c].file = Untitled /\ ~Own(b.pages[c]) /\ O!IsUntouched(x.pages[c])
        /\ \A i \in 1..m : i # c => b.pages[i] = x.pages[i]
    BY <1>2, <1>3, <1>5, <1>6, <1>7, LoadIntoIs
  <1>9. Creates(b, r, {}, Len(r), y) BY <1>4, <1>8, CreateTabsIs
  <1>10. Follow(b, r, y) BY <1>9, FollowFrom
  <1>11. Keeps(b, y) /\ GainsNone(b, y) BY <1>4, <1>8, <1>10, FollowKeeps
  <1>12. files[1] = e
    <2>1. O!IsOpenIn(x, files[1]) => x.pages[c].file = files[1] BY <1>7 DEF ShownFirst
    <2>2. files[1] # Untitled BY <1>1
    <2> QED BY <1>1, <1>3, <1>8, <2>1, <2>2
  <1>13. y.current = c
    <2>1. Len(b.pages) # 0 BY <1>7, <1>8
    <2> QED BY <1>8, <1>9, <2>1 DEF Creates
  <1>14. c \in 1..Len(y.pages) /\ y.pages[c].file = files[1]
    <2>1. Len(r) \in Nat BY <1>4, LenProperties
    <2>2. Len(y.pages) = m + Len(r) /\ y.pages[c] = b.pages[c] BY <1>7, <1>8, <1>10 DEF Follow
    <2> QED BY <1>7, <1>8, <1>12, <2>1, <2>2
  <1>15. Keeps(x, y)
    <2>1. \A i \in 1..m : i \in 1..Len(y.pages) BY <1>8, <1>11 DEF Keeps
    <2>2. \A i \in 1..m : y.pages[i] = b.pages[i] BY <1>8, <1>10 DEF Follow
    <2> QED BY <1>6, <1>8, <2>1, <2>2 DEF Keeps
  <1>16. GainsNone(x, y)
    <2>1. GainsNone(x, b) BY <1>6, <1>8 DEF GainsNone
    <2> QED BY <1>11, <2>1, GainsNoneTransitive
  <1>17. ASSUME NEW file \in Range(files) PROVE Places(x, y, file)
    <2>1. file \in Files /\ file # Untitled /\ (file \in Range(t) <=> ~O!IsOpenIn(x, file)) BY <1>1
    <2>2. DOMAIN x.pages = 1..m /\ DOMAIN b.pages = 1..m BY <1>6, <1>8, WindowIs
    <2>3. CASE file = e
      <3>1. ~O!IsOpenIn(x, e) BY <1>3, <2>1, <2>3
      <3>2. \A i \in Nat : IsAt(b, e, i) <=> i = c
        <4>1. \A i \in 1..m : i # c => b.pages[i].file # e BY <1>8, <2>2, <3>1 DEF O!IsOpenIn
        <4> QED BY <1>7, <1>8, <4>1 DEF IsAt
      <3>3. O!IsOpenIn(b, e) BY <1>7, <1>8, <2>2 DEF O!IsOpenIn
      <3>4. \A i \in Nat : IsAt(b, e, i) <=> IsAt(b, e, i) OBVIOUS
      <3>5. e \in Range(r) <=> ~O!IsOpenIn(b, e) BY <1>4, <3>3
      <3>6. Places(b, y, e) BY <1>4, <1>8, <1>10, <3>4, <3>5, FollowPlaces
      <3>7. \A i \in Nat : IsAt(y, e, i) <=> i = c BY <3>2, <3>3, <3>6 DEF Places
      <3>8. c \in Nat BY <1>7
      <3> QED BY <2>3, <3>1, <3>7, <3>8 DEF Places
    <2>4. CASE file # e
      <3>1. \A i \in Nat : IsAt(b, file, i) <=> IsAt(x, file, i)
        <4>1. \A i \in 1..m : b.pages[i].file = file <=> x.pages[i].file = file BY <1>8, <2>1, <2>4
        <4> QED BY <1>6, <1>8, <4>1 DEF IsAt
      <3>2. O!IsOpenIn(b, file) <=> O!IsOpenIn(x, file)
        <4>1. \A i \in 1..m : b.pages[i].file = file <=> x.pages[i].file = file BY <1>8, <2>1, <2>4
        <4> QED BY <2>2, <4>1 DEF O!IsOpenIn
      <3>3. file \in Range(r) <=> ~O!IsOpenIn(b, file) BY <1>4, <2>1, <2>4, <3>2
      <3> QED BY <1>4, <1>8, <1>10, <3>1, <3>3, FollowPlaces
    <2> QED BY <2>3, <2>4
  <1>18. IsWindow(y) BY <1>9 DEF Creates
  <1> QED BY <1>13, <1>14, <1>15, <1>16, <1>17, <1>18 DEF Opens

LEMMA OpensNew ==
    ASSUME NEW x, IsWindow(x), NEW files \in Seq(Files), files # <<>>,
           NEW z, ShownFirst(x, files, z), NEW t, Wanted(x, files, Len(files), t),
           NEW jumps, jumps = IF O!IsOpenIn(x, files[1]) THEN {} ELSE {files[1]},
           NEW y, y = O!CreateTabs(z, t, jumps)
    PROVE  Opens(x, files, y)
  <1>1. /\ t \in Seq(Files) /\ IsInjective(t)
        /\ \A file \in Range(files) : file \in Files /\ (file \in Range(t) <=> ~O!IsOpenIn(x, file))
        /\ ~O!IsOpenIn(x, files[1]) => t # <<>> /\ t[1] = files[1]
    BY WantedRange
  <1>2. IsWindow(z) /\ z.pages = x.pages BY DEF ShownFirst
  <1>3. PICK m \in Nat : m = Len(x.pages) BY WindowIs
  <1>4. PICK n \in Nat : n = Len(t) /\ DOMAIN t = 1..n BY <1>1, LenProperties
  <1>5. Creates(z, t, jumps, n, y) BY <1>1, <1>2, <1>4, CreateTabsIs
  <1>6. Follow(z, t, y) BY <1>1, <1>4, <1>5, FollowFrom
  <1>7. Keeps(z, y) /\ GainsNone(z, y) BY <1>1, <1>2, <1>6, FollowKeeps
  <1>8. Keeps(x, y) /\ GainsNone(x, y) BY <1>2, <1>7 DEF Keeps, GainsNone
  <1>9. Len(y.pages) = m + n BY <1>2, <1>3, <1>4, <1>6 DEF Follow
  <1>10. y.current \in 1..Len(y.pages) /\ y.pages[y.current].file = files[1]
    <2>1. CASE O!IsOpenIn(x, files[1])
      <3>1. z.current \in 1..m /\ x.pages[z.current].file = files[1]
        BY <1>3, <2>1 DEF ShownFirst
      <3>2. jumps = {} /\ m # 0 BY <2>1, <3>1
      <3>3. y.current = z.current BY <1>2, <1>3, <1>5, <3>2 DEF Creates
      <3>4. y.pages[z.current] = x.pages[z.current] BY <1>2, <1>3, <1>6, <3>1 DEF Follow
      <3> QED BY <1>9, <3>1, <3>3, <3>4
    <2>2. CASE ~O!IsOpenIn(x, files[1])
      <3>1. jumps = {t[1]} /\ t # <<>> /\ t[1] = files[1] BY <1>1, <2>2
      <3>2. 1 \in 1..n
        <4>1. n # 0 BY <1>1, <1>4, <3>1, EmptySeq
        <4> QED BY <4>1
      <3>3. y.current = m + 1
        <4>0. \A i, j \in 1..n : t[i] = t[j] => i = j BY <1>1, <1>4 DEF IsInjective
        <4>1. \A i \in 1..n : t[i] = t[1] => i = 1 BY <3>2, <4>0
        <4>2. t[1] \in jumps BY <3>1
        <4>3. \A i \in 1..n : t[i] \in jumps \/ (m = 0 /\ i = 1) => i = 1 BY <3>1, <4>1
        <4>4. ~(\A j \in 1..n : t[j] \notin jumps) BY <3>2, <4>2
        <4>5. PICK i \in 1..n : /\ t[i] \in jumps \/ (m = 0 /\ i = 1)
                                /\ y.current = m + i
          BY <1>2, <1>3, <1>5, <4>4 DEF Creates
        <4> QED BY <4>3, <4>5
      <3>4. y.pages[m + 1].file = t[1] BY <1>2, <1>3, <1>4, <1>6, <3>2 DEF Follow
      <3> QED BY <1>9, <3>1, <3>2, <3>3, <3>4
    <2> QED BY <2>1, <2>2
  <1>11. ASSUME NEW file \in Range(files) PROVE Places(x, y, file)
    <2>1. \A i \in Nat : IsAt(z, file, i) <=> IsAt(x, file, i) BY <1>2 DEF IsAt
    <2>2. O!IsOpenIn(z, file) <=> O!IsOpenIn(x, file) BY <1>2 DEF O!IsOpenIn
    <2>3. file \in Range(t) <=> ~O!IsOpenIn(z, file) BY <1>1, <2>2
    <2> QED BY <1>1, <1>2, <1>6, <2>1, <2>3, FollowPlaces
  <1>12. IsWindow(y) BY <1>5 DEF Creates
  <1> QED BY <1>8, <1>10, <1>11, <1>12 DEF Opens

LEMMA LoadFileListIs ==
    ASSUME NEW x, IsWindow(x), NEW files \in Seq(Files), files # <<>>,
           NEW y, y = O!LoadFileList(x, files)
    PROVE  Opens(x, files, y)
  <1>1. Head(files) = files[1] BY HeadTailProperties
  <1>2. PICK t : t = O!FilesToLoad(x, files) OBVIOUS
  <1>3. Wanted(x, files, Len(files), t) BY <1>2, FilesToLoadAre
  <1>4. PICK z : z = [x EXCEPT !.current = IF O!IsOpenIn(x, Head(files)) THEN O!GetTabFromFile(x, Head(files)) ELSE @]
    OBVIOUS
  <1>5. ShownFirst(x, files, z) BY <1>4, ShowFirst
  <1>6. CASE O!Reuses(z, t)
    <2>1. PICK b : b = O!LoadInto(z, Head(t)) OBVIOUS
    <2>2. y = O!CreateTabs(b, Tail(t), {}) BY <1>2, <1>4, <1>6, <2>1 DEF O!LoadFileList
    <2> QED BY <1>3, <1>5, <1>6, <2>1, <2>2, OpensReused
  <1>7. CASE ~O!Reuses(z, t)
    <2>1. y = O!CreateTabs(z, t, IF ~O!IsOpenIn(x, Head(files)) THEN {Head(t)} ELSE {})
      BY <1>2, <1>4, <1>7 DEF O!LoadFileList
    <2>2. PICK jumps : jumps = IF O!IsOpenIn(x, files[1]) THEN {} ELSE {files[1]} OBVIOUS
    <2>3. ~O!IsOpenIn(x, files[1]) => Head(t) = files[1]
      BY <1>3, WantedRange, HeadTailProperties
    <2>4. y = O!CreateTabs(z, t, jumps) BY <1>1, <2>1, <2>2, <2>3
    <2> QED BY <1>3, <1>5, <2>2, <2>4, OpensNew
  <1> QED BY <1>6, <1>7

Copies(x, file) == Cardinality({i \in DOMAIN x.pages : x.pages[i].file = file})

LEMMA CopiesAre ==
    ASSUME NEW x, IsWindow(x), NEW y, IsWindow(y), NEW file, Places(x, y, file)
    PROVE  Copies(y, file) = IF Copies(x, file) = 0 THEN 1 ELSE Copies(x, file)
  <1> DEFINE At(w) == {i \in DOMAIN w.pages : w.pages[i].file = file}
  <1>1. PICK m \in Nat : m = Len(x.pages) /\ DOMAIN x.pages = 1..m BY WindowIs
  <1>2. PICK n \in Nat : n = Len(y.pages) /\ DOMAIN y.pages = 1..n BY WindowIs
  <1>3. \A i \in Nat : i \in At(x) <=> IsAt(x, file, i) BY <1>1 DEF IsAt
  <1>4. \A i \in Nat : i \in At(y) <=> IsAt(y, file, i) BY <1>2 DEF IsAt
  <1>5. At(x) \subseteq Nat /\ At(y) \subseteq Nat BY <1>1, <1>2
  <1>6. At(x) # {} <=> O!IsOpenIn(x, file) BY DEF O!IsOpenIn
  <1>7. Copies(x, file) = Cardinality(At(x)) /\ Copies(y, file) = Cardinality(At(y)) BY DEF Copies
  <1>8. IsFiniteSet(At(x))
    <2>1. IsFiniteSet(1..m) /\ At(x) \subseteq 1..m BY <1>1, FS_Interval
    <2> QED BY <2>1, FS_Subset
  <1> HIDE DEF At
  <1>9. CASE O!IsOpenIn(x, file)
    <2>1. \A i \in Nat : i \in At(y) <=> i \in At(x) BY <1>3, <1>4, <1>9 DEF Places
    <2>2. At(y) = At(x) BY <1>5, <2>1
    <2>3. Cardinality(At(x)) # 0 BY <1>6, <1>8, <1>9, FS_EmptySet
    <2> QED BY <1>7, <2>2, <2>3
  <1>10. CASE ~O!IsOpenIn(x, file)
    <2>1. PICK k \in Nat : \A i \in Nat : IsAt(y, file, i) <=> i = k BY <1>10 DEF Places
    <2>2. At(y) = {k} BY <1>4, <1>5, <2>1
    <2>3. At(x) = {} BY <1>6, <1>10
    <2>4. Cardinality(At(y)) = 1 BY <2>2, FS_Singleton
    <2>5. Cardinality(At(x)) = 0 BY <2>3, FS_EmptySet
    <2> QED BY <1>7, <2>4, <2>5
  <1> QED BY <1>9, <1>10

LEMMA ServedFrom ==
    ASSUME NEW x, IsWindow(x), NEW y, IsWindow(y), Keeps(x, y), y.current # 0,
           NEW files, \A file \in Range(files) : Places(x, y, file), NEW new_document \in BOOLEAN,
           NEW shown, shown = y.pages[y.current],
           IF new_document \/ files = <<>> THEN O!IsUntouched(shown) ELSE shown.file = Head(files)
    PROVE  O!Served(x, y, files, new_document)
  <1>1. \A file \in Range(files) : Copies(y, file) = IF Copies(x, file) = 0 THEN 1 ELSE Copies(x, file)
    BY CopiesAre
  <1>2. DOMAIN x.pages = 1..Len(x.pages) /\ DOMAIN y.pages = 1..Len(y.pages) BY WindowIs
  <1>3. \A i \in DOMAIN x.pages :
           i \in DOMAIN y.pages /\ (O!IsUntouched(x.pages[i]) \/ y.pages[i] = x.pages[i])
    BY <1>2 DEF Keeps
  <1>4. \A file \in O!Range(files) : Copies(y, file) = IF Copies(x, file) = 0 THEN 1 ELSE Copies(x, file)
    BY <1>1, SameRange
  <1> QED BY <1>3, <1>4, SameCardinality DEF O!Served, Copies

\* A new document leaves the others as they are.
LEMMA CreateTabIs ==
    ASSUME NEW x, IsWindow(x), NEW y, y = O!CreateTab(x, TRUE)
    PROVE  /\ IsWindow(y) /\ GainsNone(x, y) /\ Keeps(x, y) /\ y.current # 0
           /\ O!IsUntouched(y.pages[y.current])
           /\ \A file \in Files : \A i \in Nat : IsAt(y, file, i) <=> IsAt(x, file, i)
  <1>1. Adds(x, O!NewTab, TRUE, y) BY NewTabIs, AddTabIs DEF O!CreateTab
  <1>2. GainsNone(x, y) BY <1>1, NewTabIs, AddsNone
  <1>3. PICK m \in Nat : m = Len(x.pages) BY WindowIs
  <1>4. /\ IsWindow(y) /\ Len(y.pages) = m + 1 /\ y.pages[m + 1] = O!NewTab /\ y.current = m + 1
        /\ \A i \in 1..m : y.pages[i] = x.pages[i]
    BY <1>1, <1>3 DEF Adds
  <1>5. Keeps(x, y)
    <2>1. \A i \in 1..m : i \in 1..(m + 1) OBVIOUS
    <2> QED BY <1>3, <1>4, <2>1 DEF Keeps
  <1>6. ASSUME NEW file \in Files, NEW i \in Nat PROVE IsAt(y, file, i) <=> IsAt(x, file, i)
    <2>1. i \in 1..(m + 1) <=> i \in 1..m \/ i = m + 1 OBVIOUS
    <2>2. O!NewTab.file # file BY DEF O!NewTab
    <2>3. m + 1 \notin 1..m OBVIOUS
    <2> QED BY <1>3, <1>4, <2>1, <2>2, <2>3 DEF IsAt
  <1>7. O!IsUntouched(y.pages[y.current]) BY <1>4, NewTabIs
  <1>8. IsWindow(y) /\ y.current # 0
    <2>1. m + 1 # 0 OBVIOUS
    <2> QED BY <1>4, <2>1
  <1> QED BY <1>2, <1>5, <1>6, <1>7, <1>8, Zenon

LEMMA LoadsAreServed ==
    ASSUME NEW x, IsWindow(x), NEW files \in Seq(Files), files # <<>>, NEW y, y = O!LoadFileList(x, files)
    PROVE  IsWindow(y) /\ GainsNone(x, y) /\ O!Served(x, y, files, FALSE)
  <1>1. Opens(x, files, y) BY LoadFileListIs
  <1>2. Head(files) = files[1] BY HeadTailProperties
  <1>3. y.current # 0 BY <1>1, WindowIs DEF Opens
  <1>4. y.pages[y.current].file = Head(files) BY <1>1, <1>2 DEF Opens
  <1>5. IsWindow(y) /\ GainsNone(x, y) /\ Keeps(x, y) /\ \A file \in Range(files) : Places(x, y, file)
    BY <1>1 DEF Opens
  <1>6. FALSE \in BOOLEAN OBVIOUS
  <1>7. O!Served(x, y, files, FALSE) BY <1>3, <1>4, <1>5, <1>6, ServedFrom
  <1> QED BY <1>5, <1>7

LEMMA RequestsAreServed ==
    ASSUME NEW x, IsWindow(x), NEW files \in Seq(Files), NEW new_document \in BOOLEAN,
           NEW y, y = O!ServeRequest(x, files, new_document)
    PROVE  IsWindow(y) /\ GainsNone(x, y) /\ O!Served(x, y, files, new_document)
  <1>1. PICK done : done = IF files = <<>> THEN x ELSE O!LoadFileList(x, files) OBVIOUS
  <1>2. /\ IsWindow(done) /\ GainsNone(x, done) /\ Keeps(x, done)
        /\ \A file \in Range(files) : Places(x, done, file)
        /\ files # <<>> => done.current # 0 /\ done.pages[done.current].file = Head(files)
    <2>1. CASE files = <<>>
      <3>1. done = x /\ Range(files) = {} BY <1>1, <2>1 DEF Range
      <3>2. GainsNone(x, x) /\ Keeps(x, x) BY DEF GainsNone, Keeps
      <3> QED BY <2>1, <3>1, <3>2
    <2>2. CASE files # <<>>
      <3>1. Opens(x, files, done) BY <1>1, <2>2, LoadFileListIs
      <3>2. Head(files) = files[1] BY <2>2, HeadTailProperties
      <3>3. done.current # 0 BY <3>1, WindowIs DEF Opens
      <3> QED BY <3>1, <3>2, <3>3 DEF Opens
    <2> QED BY <2>1, <2>2
  <1>3. CASE \/ new_document
             \/ files = <<>> /\ (x.current = 0 \/ ~O!IsUntouched(x.pages[x.current]))
    <2>1. y = O!CreateTab(done, TRUE) BY <1>1, <1>3 DEF O!ServeRequest
    <2>2. /\ IsWindow(y) /\ GainsNone(done, y) /\ Keeps(done, y) /\ y.current # 0
          /\ O!IsUntouched(y.pages[y.current])
          /\ \A file \in Files : \A i \in Nat : IsAt(y, file, i) <=> IsAt(done, file, i)
      BY <1>2, <2>1, CreateTabIs
    <2>3. GainsNone(x, y) BY <1>2, <2>2, GainsNoneTransitive
    <2>4. Keeps(x, y)
      <3>1. \A i \in 1..Len(x.pages) : i \in 1..Len(done.pages) /\ i \in 1..Len(y.pages)
        BY <1>2, <2>2 DEF Keeps
      <3>2. ASSUME NEW i \in 1..Len(x.pages), ~O!IsUntouched(x.pages[i]) PROVE y.pages[i] = x.pages[i]
        <4>1. done.pages[i] = x.pages[i] BY <1>2, <3>2 DEF Keeps
        <4> QED BY <2>2, <3>1, <3>2, <4>1 DEF Keeps
      <3> QED BY <3>1, <3>2 DEF Keeps
    <2>5. ASSUME NEW file \in Range(files) PROVE Places(x, y, file)
      <3>1. file \in Files
        <4>1. \A i \in DOMAIN files : files[i] \in Files BY LenProperties
        <4> QED BY <4>1 DEF Range
      <3>2. \A i \in Nat : IsAt(y, file, i) <=> IsAt(done, file, i) BY <2>2, <3>1
      <3>3. Places(x, done, file) BY <1>2
      <3> QED BY <3>2, <3>3 DEF Places
    <2>6. new_document \/ files = <<>> BY <1>3
    <2>7. O!Served(x, y, files, new_document) BY <2>2, <2>4, <2>5, <2>6, ServedFrom
    <2> QED BY <2>2, <2>3, <2>7
  <1>4. CASE ~(\/ new_document
               \/ files = <<>> /\ (x.current = 0 \/ ~O!IsUntouched(x.pages[x.current])))
    <2>1. y = done BY <1>1, <1>4 DEF O!ServeRequest
    <2>2. y.current # 0 BY <1>1, <1>2, <1>4, <2>1
    <2>3. IF new_document \/ files = <<>> THEN O!IsUntouched(y.pages[y.current])
          ELSE y.pages[y.current].file = Head(files)
      BY <1>1, <1>2, <1>4, <2>1
    <2>4. O!Served(x, y, files, new_document) BY <1>2, <2>1, <2>2, <2>3, ServedFrom
    <2> QED BY <1>2, <2>1, <2>4
  <1> QED BY <1>3, <1>4

-----------------------------------------------------------------------------
\* The application.
WindowSet == {x \in [pages : Seq(Tabs), current : Nat] : IsWindow(x)}

IsApp(a) ==
    /\ a = [windows |-> a.windows, active |-> a.active] /\ a.windows \in Seq(WindowSet)
    /\ IF a.windows = <<>> THEN a.active = 0 ELSE a.active \in 1..Len(a.windows)

\* Tab i of window w is one that can be edited though nobody has said so.
IsOwn(a, w, i, file) ==
    /\ w \in 1..Len(a.windows) /\ i \in 1..Len(a.windows[w].pages)
    /\ Own(a.windows[w].pages[i]) /\ a.windows[w].pages[i].file = file
OneCopy(a) ==
    \A file \in Files : \A w, v, i, j \in Nat :
        IsOwn(a, w, i, file) /\ IsOwn(a, v, j, file) => w = v /\ i = j

LEMMA InWindowSet == \A x : x \in WindowSet <=> IsWindow(x)
  <1> SUFFICES ASSUME NEW x, IsWindow(x) PROVE x \in [pages : Seq(Tabs), current : Nat]
    BY DEF WindowSet
  <1>1. x.current \in Nat BY WindowIs
  <1> QED BY <1>1 DEF IsWindow

LEMMA AppIs ==
    ASSUME NEW a, IsApp(a)
    PROVE  /\ Len(a.windows) \in Nat /\ DOMAIN a.windows = 1..Len(a.windows)
           /\ \A w \in 1..Len(a.windows) : IsWindow(a.windows[w])
           /\ a.windows = <<>> <=> Len(a.windows) = 0
           /\ a.active \in Nat
  <1>1. \A w \in 1..Len(a.windows) : a.windows[w] \in WindowSet BY LenProperties DEF IsApp
  <1>2. \A w \in 1..Len(a.windows) : IsWindow(a.windows[w]) BY <1>1, InWindowSet
  <1>3. Len(a.windows) \in Nat /\ DOMAIN a.windows = 1..Len(a.windows) BY LenProperties DEF IsApp
  <1>4. a.windows = <<>> <=> Len(a.windows) = 0 BY EmptySeq DEF IsApp
  <1> QED BY <1>2, <1>3, <1>4 DEF IsApp

LEMMA NoAppIs == IsApp(O!NoApp) /\ OneCopy(O!NoApp)
  <1>1. O!NoApp.windows = <<>> /\ O!NoApp.active = 0 /\ <<>> \in Seq(WindowSet) /\ Len(<<>>) = 0
    BY DEF O!NoApp
  <1>2. IsApp(O!NoApp) BY <1>1 DEF IsApp, O!NoApp
  <1>3. \A file, w, i : ~IsOwn(O!NoApp, w, i, file) BY <1>1 DEF IsOwn
  <1> QED BY <1>2, <1>3 DEF OneCopy

\* One window becomes y.
Changes(a, w, y, b) == b = [a EXCEPT !.windows[w] = y]
Changed(a, w, y, b) ==
    /\ IsApp(b) /\ Len(b.windows) = Len(a.windows) /\ b.windows[w] = y
    /\ b.active = a.active /\ b.windows # <<>>
    /\ \A v \in 1..Len(a.windows) : v # w => b.windows[v] = a.windows[v]

LEMMA ChangeIs ==
    ASSUME NEW a, IsApp(a), NEW w \in 1..Len(a.windows), NEW y, IsWindow(y),
           NEW b, Changes(a, w, y, b)
    PROVE  Changed(a, w, y, b)
  <1>1. PICK n : n = Len(a.windows) OBVIOUS
  <1>2. n \in Nat /\ (a.windows = <<>> <=> n = 0) BY <1>1, AppIs
  <1>3. PICK s : s = [a.windows EXCEPT ![w] = y] OBVIOUS
  <1>4. /\ s \in Seq(WindowSet) /\ Len(s) = n /\ s[w] = y
        /\ \A v \in 1..n : v # w => s[v] = a.windows[v]
    <2>1. a.windows \in [1..n -> WindowSet] /\ y \in WindowSet
      BY <1>1, LenProperties, InWindowSet DEF IsApp
    <2>2. s \in [1..n -> WindowSet] /\ s[w] = y /\ \A v \in 1..n : v # w => s[v] = a.windows[v]
      BY <1>1, <1>3, <2>1
    <2>3. s \in Seq(WindowSet) BY <1>2, <2>2, SeqDef
    <2>4. Len(s) = n BY <1>2, <2>2, <2>3, LenProperties
    <2> QED BY <2>2, <2>3, <2>4
  <1>5. b = [windows |-> s, active |-> a.active] BY <1>3 DEF IsApp, Changes
  <1>6. s # <<>> /\ n # 0 BY <1>1, <1>2, <1>4, EmptySeq
  <1>7. a.active \in 1..n BY <1>1, <1>2, <1>6 DEF IsApp
  <1>8. IsApp(b) BY <1>4, <1>5, <1>6, <1>7 DEF IsApp
  <1> QED BY <1>1, <1>4, <1>5, <1>6, <1>8 DEF Changed

LEMMA GainsKeepsOne ==
    ASSUME NEW a, OneCopy(a), NEW w \in 1..Len(a.windows), NEW b, Len(b.windows) = Len(a.windows),
           GainsNone(a.windows[w], b.windows[w]),
           \A v \in 1..Len(a.windows) : v # w => b.windows[v] = a.windows[v]
    PROVE  OneCopy(b)
  <1>1. ASSUME NEW file, NEW v, NEW i, IsOwn(b, v, i, file) PROVE IsOwn(a, v, i, file)
    <2>1. CASE v = w BY <1>1, <2>1 DEF IsOwn, GainsNone
    <2>2. CASE v # w BY <1>1, <2>2 DEF IsOwn
    <2> QED BY <2>1, <2>2
  <1> QED BY <1>1 DEF OneCopy

\* A window in front of the others.
Created(a, y, b) ==
    /\ IsApp(b) /\ Len(b.windows) = Len(a.windows) + 1 /\ b.windows[1] = y
    /\ b.windows # <<>>
    /\ \A v \in 1..Len(a.windows) : b.windows[v + 1] = a.windows[v]

LEMMA CreateWindowIs ==
    ASSUME NEW a, IsApp(a), NEW y, IsWindow(y), NEW b, b = O!CreateWindow(a, y)
    PROVE  Created(a, y, b)
  <1>1. PICK n \in Nat : n = Len(a.windows) /\ (a.windows = <<>> <=> n = 0) BY AppIs
  <1>2. a.windows \in Seq(WindowSet) /\ y \in WindowSet BY InWindowSet DEF IsApp
  <1>3. PICK s : s = <<y>> \o a.windows OBVIOUS
  <1>4. <<y>> \in Seq(WindowSet) /\ Len(<<y>>) = 1 /\ <<y>>[1] = y BY <1>2
  <1>5. /\ s \in Seq(WindowSet) /\ Len(s) = 1 + n
        /\ \A i \in 1..(1 + n) : s[i] = IF i <= 1 THEN <<y>>[i] ELSE a.windows[i - 1]
    BY <1>1, <1>2, <1>3, <1>4, ConcatProperties
  <1>6. s[1] = y
    <2>1. 1 \in 1..(1 + n) /\ 1 <= 1 OBVIOUS
    <2> QED BY <1>4, <1>5, <2>1
  <1>7. ASSUME NEW v \in 1..n PROVE s[v + 1] = a.windows[v]
    <2>1. v + 1 \in 1..(1 + n) /\ ~(v + 1 <= 1) /\ (v + 1) - 1 = v BY <1>1
    <2> QED BY <1>5, <2>1
  <1>8. b = [windows |-> s, active |-> a.active + 1] BY <1>3 DEF O!CreateWindow
  <1>9. a.active \in 0..n BY <1>1 DEF IsApp
  <1>10. s # <<>> /\ Len(s) = n + 1 BY <1>1, <1>5, EmptySeq
  <1>11. a.active + 1 \in 1..(n + 1) BY <1>9
  <1>12. IsApp(b) BY <1>5, <1>8, <1>10, <1>11 DEF IsApp
  <1> QED BY <1>1, <1>6, <1>7, <1>8, <1>10, <1>12 DEF Created

LEMMA CreateKeepsOne ==
    ASSUME NEW a, IsApp(a), OneCopy(a), NEW b, Len(b.windows) = Len(a.windows) + 1,
           GainsNone(O!NewWindow, b.windows[1]),
           \A v \in 1..Len(a.windows) : b.windows[v + 1] = a.windows[v]
    PROVE  OneCopy(b)
  <1>1. PICK n \in Nat : n = Len(a.windows) BY AppIs
  <1>2. ASSUME NEW file, NEW v \in Nat, NEW i, IsOwn(b, v, i, file)
        PROVE  v - 1 \in Nat /\ IsOwn(a, v - 1, i, file)
    <2>1. v # 1
      <3>1. ASSUME v = 1 PROVE FALSE
        <4>1. i \in 1..Len(O!NewWindow.pages) BY <1>2, <3>1 DEF IsOwn, GainsNone
        <4> QED BY <4>1, NewWindowIs
      <3> QED BY <3>1
    <2>2. v \in 1..(n + 1) BY <1>1, <1>2 DEF IsOwn
    <2>3. v - 1 \in 1..n /\ (v - 1) + 1 = v BY <2>1, <2>2
    <2>4. b.windows[v] = a.windows[v - 1] BY <1>1, <2>3
    <2>5. IsOwn(a, v - 1, i, file) BY <1>1, <1>2, <2>3, <2>4 DEF IsOwn
    <2> QED BY <2>3, <2>5
  <1>3. ASSUME NEW file \in Files, NEW w \in Nat, NEW v \in Nat, NEW i \in Nat, NEW j \in Nat,
               IsOwn(b, w, i, file), IsOwn(b, v, j, file)
        PROVE  w = v /\ i = j
    <2>1. w - 1 \in Nat /\ v - 1 \in Nat /\ IsOwn(a, w - 1, i, file) /\ IsOwn(a, v - 1, j, file)
      BY <1>2, <1>3
    <2>2. w - 1 = v - 1 /\ i = j BY <2>1 DEF OneCopy
    <2> QED BY <2>2
  <1> QED BY <1>3 DEF OneCopy

\* The places of the tabs may change, as moved tells.
Comes(a, w, i, file, moved) ==
    \E v, j \in Nat : IsOwn(a, v, j, file) /\ moved[<<v, j>>] = <<w, i>>
AllCome(a, b, moved) ==
    \A file \in Files : \A w, i \in Nat : IsOwn(b, w, i, file) => Comes(a, w, i, file, moved)

LEMMA MovedKeepOne ==
    ASSUME NEW a, OneCopy(a), NEW b, NEW moved, AllCome(a, b, moved)
    PROVE  OneCopy(b)
  <1> SUFFICES ASSUME NEW file \in Files, NEW w \in Nat, NEW x \in Nat, NEW i \in Nat, NEW j \in Nat,
                      IsOwn(b, w, i, file), IsOwn(b, x, j, file)
               PROVE  w = x /\ i = j
    BY DEF OneCopy
  <1>1. PICK v, k \in Nat : IsOwn(a, v, k, file) /\ moved[<<v, k>>] = <<w, i>>
    BY DEF AllCome, Comes
  <1>2. PICK y, l \in Nat : IsOwn(a, y, l, file) /\ moved[<<y, l>>] = <<x, j>>
    BY DEF AllCome, Comes
  <1>3. v = y /\ k = l BY <1>1, <1>2 DEF OneCopy
  <1>4. <<w, i>> = <<x, j>> BY <1>1, <1>2, <1>3
  <1> QED BY <1>4

\* A tab leaves its window.
Left(x, i, y) ==
    /\ IsWindow(y) /\ Len(y.pages) = Len(x.pages) - 1
    /\ \A j \in 1..(Len(x.pages) - 1) : y.pages[j] = x.pages[IF j < i THEN j ELSE j + 1]

LEMMA LeaveIs ==
    ASSUME NEW x, IsWindow(x), NEW n \in Nat, n = Len(x.pages), NEW i \in 1..n,
           NEW next \in 1..n, n = 1 \/ next < n, NEW y, y = O!Leave(x, i, next)
    PROVE  Left(x, i, y)
  <1>1. PICK s : s = RemoveAt(x.pages, i) OBVIOUS
  <1>2. x.pages \in Seq(Tabs) /\ i \in 1..Len(x.pages) BY DEF IsWindow
  <1>3. /\ s \in Seq(Tabs) /\ Len(s) = Len(x.pages) - 1
        /\ \A k \in 1..(Len(x.pages) - 1) : s[k] = IF k < i THEN x.pages[k] ELSE x.pages[k + 1]
    BY <1>1, <1>2, RemoveAtProperties
  <1>4. PICK c : c = IF x.current # i THEN x.current - (IF i < x.current THEN 1 ELSE 0)
                     ELSE IF n = 1 THEN 0 ELSE next
    OBVIOUS
  <1>5. x.current \in 1..n
    <2>1. x.pages # <<>>
      <3>1. n # 0 OBVIOUS
      <3> QED BY <3>1, WindowIs
    <2> QED BY <2>1 DEF IsWindow
  <1>6. y = [pages |-> s, current |-> c] BY <1>1, <1>4, SameRemoveAt DEF O!Leave
  <1>7. s = <<>> <=> n - 1 = 0 BY <1>3, EmptySeq
  <1>8. IF n - 1 = 0 THEN c = 0 ELSE c \in 1..(n - 1)
    <2>1. PICK k \in 1..n : k = x.current BY <1>5
    <2>2. c = IF k # i THEN k - (IF i < k THEN 1 ELSE 0) ELSE IF n = 1 THEN 0 ELSE next BY <1>4, <2>1
    <2>3. CASE n = 1 BY <2>2, <2>3
    <2>4. CASE n # 1
      <3>1. 1 <= next /\ next < n BY <2>4
      <3>2. next \in 1..(n - 1) BY <3>1
      <3> QED BY <2>2, <2>4, <3>2
    <2> QED BY <2>3, <2>4
  <1>9. IsWindow(y) BY <1>3, <1>6, <1>7, <1>8 DEF IsWindow
  <1>10. \A j \in 1..(n - 1) : y.pages[j] = x.pages[IF j < i THEN j ELSE j + 1]
    BY <1>3, <1>6
  <1> QED BY <1>3, <1>6, <1>9, <1>10 DEF Left

\* A tab is closed.
LEMMA LeaveKeepsOne ==
    ASSUME NEW a, IsApp(a), OneCopy(a), NEW w \in 1..Len(a.windows),
           NEW i \in 1..Len(a.windows[w].pages),
           NEW next \in 1..Len(a.windows[w].pages),
           Len(a.windows[w].pages) = 1 \/ next < Len(a.windows[w].pages),
           NEW b, Changes(a, w, O!Leave(a.windows[w], i, next), b)
    PROVE  IsApp(b) /\ OneCopy(b) /\ b.windows # <<>>
  <1>1. PICK x : x = a.windows[w] OBVIOUS
  <1>2. IsWindow(x) BY <1>1, AppIs
  <1>3. PICK n \in Nat : n = Len(x.pages) BY <1>2, WindowIs
  <1>4. PICK y : y = O!Leave(x, i, next) OBVIOUS
  <1>5. /\ IsWindow(y) /\ Len(y.pages) = n - 1
        /\ \A j \in 1..(n - 1) : y.pages[j] = x.pages[IF j < i THEN j ELSE j + 1]
    <2>1. i \in 1..n /\ next \in 1..n /\ (n = 1 \/ next < n)
      <3>1. n = Len(a.windows[w].pages) BY <1>1, <1>3
      <3> QED BY <3>1
    <2>2. Left(x, i, y) BY <1>2, <1>3, <1>4, <2>1, LeaveIs
    <2> QED BY <1>3, <2>2 DEF Left
  <1>6. Changes(a, w, y, b) BY <1>1, <1>4 DEF Changes
  <1>7. /\ IsApp(b) /\ Len(b.windows) = Len(a.windows) /\ b.windows[w] = y /\ b.windows # <<>>
        /\ \A v \in 1..Len(a.windows) : v # w => b.windows[v] = a.windows[v]
    BY <1>5, <1>6, ChangeIs DEF Changed
  <1>8. PICK moved : moved = [q \in Nat \X Nat |-> IF q[1] = w /\ q[2] > i THEN <<w, q[2] - 1>> ELSE q]
    OBVIOUS
  <1>9. Len(a.windows) \in Nat BY AppIs
  <1>10. \A v, j \in Nat : moved[<<v, j>>] = IF v = w /\ j > i THEN <<w, j - 1>> ELSE <<v, j>> BY <1>8
  <1>11. ASSUME NEW file \in Files, NEW v \in Nat, NEW j \in Nat, IsOwn(b, v, j, file)
         PROVE  Comes(a, v, j, file, moved)
    <2>1. CASE v # w
      <3>1. IsOwn(a, v, j, file) BY <1>7, <1>11, <2>1 DEF IsOwn
      <3> QED BY <1>10, <2>1, <3>1 DEF Comes
    <2>2. CASE v = w /\ j < i
      <3>1. j \in 1..(n - 1) BY <1>5, <1>7, <1>11, <2>2 DEF IsOwn
      <3>2. j \in 1..n /\ y.pages[j] = x.pages[j] BY <1>5, <2>2, <3>1
      <3>3. IsOwn(a, v, j, file) BY <1>1, <1>3, <1>7, <1>11, <2>2, <3>2 DEF IsOwn
      <3>4. ~(j > i) BY <1>1, <1>3, <2>2
      <3>5. moved[<<v, j>>] = <<v, j>> BY <1>10, <3>4
      <3> QED BY <3>3, <3>5 DEF Comes
    <2>3. CASE v = w /\ ~(j < i)
      <3>1. j \in 1..(n - 1) BY <1>5, <1>7, <1>11, <2>3 DEF IsOwn
      <3>2. j + 1 \in 1..n /\ y.pages[j] = x.pages[j + 1] BY <1>5, <2>3, <3>1
      <3>3. IsOwn(a, v, j + 1, file) BY <1>1, <1>3, <1>7, <1>11, <2>3, <3>2 DEF IsOwn
      <3>4. j + 1 > i /\ (j + 1) - 1 = j /\ j + 1 \in Nat BY <1>1, <1>3, <2>3
      <3>5. moved[<<v, j + 1>>] = <<v, j>> BY <1>10, <2>3, <3>4
      <3> QED BY <3>3, <3>4, <3>5 DEF Comes
    <2> QED BY <2>1, <2>2, <2>3
  <1>12. OneCopy(b) BY <1>11, MovedKeepOne DEF AllCome
  <1> QED BY <1>7, <1>12

\* A tab moves to the end of another window.
Moves(a, w, i, next, u, b) ==
    b = [a EXCEPT !.windows[w] = O!Leave(@, i, next),
                  !.windows[u] = O!AddTab(@, a.windows[w].pages[i], TRUE)]

LEMMA MoveKeepsOne ==
    ASSUME NEW a, IsApp(a), OneCopy(a), NEW w \in 1..Len(a.windows),
           NEW i \in 1..Len(a.windows[w].pages),
           NEW next \in 1..Len(a.windows[w].pages),
           Len(a.windows[w].pages) = 1 \/ next < Len(a.windows[w].pages),
           NEW u \in 1..Len(a.windows), u # w,
           NEW b, Moves(a, w, i, next, u, b)
    PROVE  IsApp(b) /\ OneCopy(b) /\ b.windows # <<>>
  <1>1. PICK x : x = a.windows[w] OBVIOUS
  <1>2. PICK z : z = a.windows[u] OBVIOUS
  <1>3. IsWindow(x) /\ IsWindow(z) BY <1>1, <1>2, AppIs
  <1>4. PICK n \in Nat : n = Len(x.pages) BY <1>3, WindowIs
  <1>5. PICK m \in Nat : m = Len(z.pages) BY <1>3, WindowIs
  <1>6. PICK d \in Tabs : d = x.pages[i] BY <1>1, <1>3, WindowIs
  <1>7. PICK y : y = O!Leave(x, i, next) OBVIOUS
  <1>8. /\ IsWindow(y) /\ Len(y.pages) = n - 1
        /\ \A j \in 1..(n - 1) : y.pages[j] = x.pages[IF j < i THEN j ELSE j + 1]
    <2>1. i \in 1..n /\ next \in 1..n /\ (n = 1 \/ next < n)
      <3>1. n = Len(a.windows[w].pages) BY <1>1, <1>4
      <3> QED BY <3>1
    <2>2. Left(x, i, y) BY <1>3, <1>4, <1>7, <2>1, LeaveIs
    <2> QED BY <1>4, <2>2 DEF Left
  <1>9. PICK t : t = O!AddTab(z, d, TRUE) OBVIOUS
  <1>10. Adds(z, d, TRUE, t) BY <1>3, <1>9, AddTabIs
  <1>11. PICK c : Changes(a, w, y, c) BY DEF Changes
  <1>12. /\ IsApp(c) /\ Len(c.windows) = Len(a.windows) /\ c.windows[w] = y
         /\ \A v \in 1..Len(a.windows) : v # w => c.windows[v] = a.windows[v]
    BY <1>8, <1>11, ChangeIs DEF Changed
  <1>13. Changes(c, u, t, b)
    <2>1. c.windows[u] = z BY <1>2, <1>12
    <2> QED BY <1>1, <1>2, <1>6, <1>7, <1>9, <1>11 DEF Changes, Moves
  <1>14. /\ IsWindow(t) /\ Len(t.pages) = m + 1 /\ t.pages[m + 1] = d
         /\ \A j \in 1..m : t.pages[j] = z.pages[j]
    BY <1>5, <1>10 DEF Adds
  <1>15. /\ IsApp(b) /\ Len(b.windows) = Len(a.windows) /\ b.windows[u] = t /\ b.windows[w] = y
         /\ b.windows # <<>>
         /\ \A v \in 1..Len(a.windows) : v # w /\ v # u => b.windows[v] = a.windows[v]
    <2>1. u \in 1..Len(c.windows) BY <1>12
    <2>2. /\ IsApp(b) /\ Len(b.windows) = Len(c.windows) /\ b.windows[u] = t /\ b.windows # <<>>
          /\ \A v \in 1..Len(c.windows) : v # u => b.windows[v] = c.windows[v]
      <3>1. Changed(c, u, t, b) BY <1>12, <1>13, <1>14, <2>1, ChangeIs
      <3> QED BY <3>1 DEF Changed
    <2> QED BY <1>12, <2>2
  <1>16. PICK moved : moved = [q \in Nat \X Nat |->
                                  IF q[1] = w /\ q[2] > i THEN <<w, q[2] - 1>>
                                  ELSE IF q[1] = w /\ q[2] = i THEN <<u, m + 1>> ELSE q]
    OBVIOUS
  <1>17. Len(a.windows) \in Nat BY AppIs
  <1>18. \A v, j \in Nat : moved[<<v, j>>] = IF v = w /\ j > i THEN <<w, j - 1>>
                                             ELSE IF v = w /\ j = i THEN <<u, m + 1>> ELSE <<v, j>>
    BY <1>16
  <1>19. ASSUME NEW file \in Files, NEW v \in Nat, NEW j \in Nat, IsOwn(b, v, j, file)
         PROVE  Comes(a, v, j, file, moved)
    <2>1. CASE v # w /\ v # u
      <3>1. IsOwn(a, v, j, file) BY <1>15, <1>19, <2>1 DEF IsOwn
      <3> QED BY <1>18, <2>1, <3>1 DEF Comes
    <2>2. CASE v = w /\ j < i
      <3>1. j \in 1..(n - 1) BY <1>8, <1>15, <1>19, <2>2 DEF IsOwn
      <3>2. j \in 1..n /\ y.pages[j] = x.pages[j] BY <1>8, <2>2, <3>1
      <3>3. IsOwn(a, v, j, file) BY <1>1, <1>4, <1>15, <1>19, <2>2, <3>2 DEF IsOwn
      <3>4. ~(j > i) /\ j # i BY <1>1, <1>4, <2>2
      <3>5. moved[<<v, j>>] = <<v, j>> BY <1>18, <3>4
      <3> QED BY <3>3, <3>5 DEF Comes
    <2>3. CASE v = w /\ ~(j < i)
      <3>1. j \in 1..(n - 1) BY <1>8, <1>15, <1>19, <2>3 DEF IsOwn
      <3>2. j + 1 \in 1..n /\ y.pages[j] = x.pages[j + 1] BY <1>8, <2>3, <3>1
      <3>3. IsOwn(a, v, j + 1, file) BY <1>1, <1>4, <1>15, <1>19, <2>3, <3>2 DEF IsOwn
      <3>4. j + 1 > i /\ (j + 1) - 1 = j /\ j + 1 \in Nat BY <1>1, <1>4, <2>3
      <3>5. moved[<<v, j + 1>>] = <<v, j>> BY <1>18, <2>3, <3>4
      <3> QED BY <3>3, <3>4, <3>5 DEF Comes
    <2>4. CASE v = u /\ j \in 1..m
      <3>1. IsOwn(a, v, j, file) BY <1>2, <1>5, <1>14, <1>15, <1>19, <2>4 DEF IsOwn
      <3>2. moved[<<v, j>>] = <<v, j>> BY <1>18, <2>4
      <3> QED BY <3>1, <3>2 DEF Comes
    <2>5. CASE v = u /\ j \notin 1..m
      <3>1. j \in 1..(m + 1) BY <1>14, <1>15, <1>19, <2>5 DEF IsOwn
      <3>2. j = m + 1 BY <2>5, <3>1
      <3>3. IsOwn(a, w, i, file) BY <1>1, <1>6, <1>14, <1>15, <1>19, <2>5, <3>2 DEF IsOwn
      <3>4. w \in Nat /\ i \in Nat /\ ~(i > i) BY <1>1, <1>4, <1>17
      <3>5. moved[<<w, i>>] = <<v, j>> BY <1>18, <2>5, <3>2, <3>4
      <3> QED BY <3>3, <3>4, <3>5 DEF Comes
    <2> QED BY <2>1, <2>2, <2>3, <2>4, <2>5
  <1>20. OneCopy(b) BY <1>19, MovedKeepOne DEF AllCome
  <1> QED BY <1>15, <1>20

\* A window goes.
LEMMA DestroyKeepsOne ==
    ASSUME NEW a, IsApp(a), OneCopy(a), NEW w \in 1..Len(a.windows), NEW active,
           active = (IF a.active = w THEN (IF Len(a.windows) = 1 THEN 0 ELSE 1)
                     ELSE IF a.active > w THEN a.active - 1 ELSE a.active),
           NEW b, b = [windows |-> RemoveAt(a.windows, w), active |-> active]
    PROVE  IsApp(b) /\ OneCopy(b)
  <1>1. PICK n \in Nat : n = Len(a.windows) /\ (a.windows = <<>> <=> n = 0) BY AppIs
  <1>2. a.windows \in Seq(WindowSet) BY DEF IsApp
  <1>3. PICK s : s = RemoveAt(a.windows, w) OBVIOUS
  <1>4. /\ s \in Seq(WindowSet) /\ Len(s) = n - 1
        /\ \A v \in 1..(n - 1) : s[v] = IF v < w THEN a.windows[v] ELSE a.windows[v + 1]
    BY <1>1, <1>2, <1>3, RemoveAtProperties
  <1>5. a.active \in 1..n BY <1>1 DEF IsApp
  <1>6. IF n - 1 = 0 THEN active = 0 ELSE active \in 1..(n - 1)
    <2>1. PICK k \in 1..n : k = a.active BY <1>5
    <2>2. active = IF k = w THEN (IF n = 1 THEN 0 ELSE 1) ELSE IF k > w THEN k - 1 ELSE k BY <1>1, <2>1
    <2>3. w \in 1..n BY <1>1
    <2>4. CASE n = 1 BY <2>2, <2>3, <2>4
    <2>5. CASE n # 1 BY <2>2, <2>3, <2>5
    <2> QED BY <2>4, <2>5
  <1>7. s = <<>> <=> n - 1 = 0 BY <1>4, EmptySeq
  <1>8. b = [windows |-> s, active |-> active] BY <1>3
  <1>9. IsApp(b) BY <1>4, <1>6, <1>7, <1>8 DEF IsApp
  <1>10. PICK moved : moved = [q \in Nat \X Nat |-> IF q[1] > w THEN <<q[1] - 1, q[2]>> ELSE q]
    OBVIOUS
  <1>11. \A v, j \in Nat : moved[<<v, j>>] = IF v > w THEN <<v - 1, j>> ELSE <<v, j>> BY <1>10
  <1>12. ASSUME NEW file \in Files, NEW v \in Nat, NEW j \in Nat, IsOwn(b, v, j, file)
         PROVE  Comes(a, v, j, file, moved)
    <2>1. v \in 1..(n - 1) BY <1>4, <1>8, <1>12 DEF IsOwn
    <2>2. CASE v < w
      <3>1. v \in 1..n /\ b.windows[v] = a.windows[v] BY <1>4, <1>8, <2>1, <2>2
      <3>2. IsOwn(a, v, j, file) BY <1>1, <1>12, <3>1 DEF IsOwn
      <3>3. moved[<<v, j>>] = <<v, j>>
        <4>1. ~(v > w) BY <1>1, <2>2
        <4> QED BY <1>11, <4>1
      <3> QED BY <3>2, <3>3 DEF Comes
    <2>3. CASE ~(v < w)
      <3>1. v + 1 \in 1..n /\ b.windows[v] = a.windows[v + 1] BY <1>4, <1>8, <2>1, <2>3
      <3>2. IsOwn(a, v + 1, j, file) BY <1>1, <1>12, <3>1 DEF IsOwn
      <3>3. v + 1 > w /\ (v + 1) - 1 = v /\ v + 1 \in Nat BY <1>1, <2>3
      <3>4. moved[<<v + 1, j>>] = <<v, j>> BY <1>11, <3>3
      <3> QED BY <3>2, <3>3, <3>4 DEF Comes
    <2> QED BY <2>2, <2>3
  <1>13. OneCopy(b) BY <1>12, MovedKeepOne DEF AllCome
  <1> QED BY <1>9, <1>13

\* The tab at a place becomes another one.
LEMMA TabBecomes ==
    ASSUME NEW x, IsWindow(x), NEW i \in 1..Len(x.pages), NEW d \in Tabs,
           NEW y, y = [x EXCEPT !.pages[i] = d]
    PROVE  /\ IsWindow(y) /\ Len(y.pages) = Len(x.pages) /\ y.pages[i] = d
           /\ \A j \in 1..Len(x.pages) : j # i => y.pages[j] = x.pages[j]
  <1>1. PICK n \in Nat : n = Len(x.pages) BY WindowIs
  <1>2. PICK s : s = [x.pages EXCEPT ![i] = d] OBVIOUS
  <1>3. s \in Seq(Tabs) /\ Len(s) = n /\ s[i] = d /\ \A j \in 1..n : j # i => s[j] = x.pages[j]
    <2>1. x.pages \in [1..n -> Tabs] /\ i \in 1..n BY <1>1, LenProperties DEF IsWindow
    <2>2. s \in [1..n -> Tabs] /\ s[i] = d /\ \A j \in 1..n : j # i => s[j] = x.pages[j]
      BY <1>2, <2>1
    <2>3. s \in Seq(Tabs) BY <2>2, SeqDef
    <2>4. Len(s) = n BY <2>2, <2>3, LenProperties
    <2> QED BY <2>2, <2>3, <2>4
  <1>4. y = [pages |-> s, current |-> x.current] BY <1>2 DEF IsWindow
  <1>5. s # <<>> /\ x.pages # <<>>
    <2>1. n # 0 BY <1>1
    <2> QED BY <1>1, <1>3, <2>1, WindowIs, EmptySeq
  <1>6. x.current \in 1..n BY <1>1, <1>5 DEF IsWindow
  <1>7. y.pages = s /\ y.current = x.current BY <1>4
  <1>8. y = [pages |-> y.pages, current |-> y.current] BY <1>4, <1>7
  <1>9. IsWindow(y) BY <1>3, <1>5, <1>6, <1>7, <1>8 DEF IsWindow
  <1> QED BY <1>1, <1>3, <1>7, <1>9

LEMMA BecomesKeepsOne ==
    ASSUME NEW a, IsApp(a), OneCopy(a), NEW w \in 1..Len(a.windows),
           NEW i \in 1..Len(a.windows[w].pages), NEW d \in Tabs,
           Own(d) => \A v, j \in Nat : IsOwn(a, v, j, d.file) => v = w /\ j = i,
           NEW b, Changes(a, w, [a.windows[w] EXCEPT !.pages[i] = d], b)
    PROVE  IsApp(b) /\ OneCopy(b) /\ b.windows # <<>>
  <1>1. PICK x : x = a.windows[w] OBVIOUS
  <1>2. IsWindow(x) BY <1>1, AppIs
  <1>3. PICK y : y = [x EXCEPT !.pages[i] = d] OBVIOUS
  <1>4. /\ IsWindow(y) /\ Len(y.pages) = Len(x.pages) /\ y.pages[i] = d
        /\ \A j \in 1..Len(x.pages) : j # i => y.pages[j] = x.pages[j]
    BY <1>1, <1>2, <1>3, TabBecomes
  <1>5. Changes(a, w, y, b) BY <1>1, <1>3
  <1>6. /\ IsApp(b) /\ Len(b.windows) = Len(a.windows) /\ b.windows[w] = y /\ b.windows # <<>>
        /\ \A v \in 1..Len(a.windows) : v # w => b.windows[v] = a.windows[v]
    BY <1>4, <1>5, ChangeIs DEF Changed
  <1>7. ASSUME NEW file, NEW v \in Nat, NEW j \in Nat, IsOwn(b, v, j, file), ~(v = w /\ j = i)
        PROVE  IsOwn(a, v, j, file)
    <2>1. CASE v # w BY <1>6, <1>7, <2>1 DEF IsOwn
    <2>2. CASE v = w BY <1>1, <1>4, <1>6, <1>7, <2>2 DEF IsOwn
    <2> QED BY <2>1, <2>2
  <1>8. ASSUME NEW file, IsOwn(b, w, i, file) PROVE Own(d) /\ file = d.file
    BY <1>4, <1>6, <1>8 DEF IsOwn
  <1>9. ASSUME NEW file \in Files, NEW v \in Nat, NEW u \in Nat, NEW j \in Nat, NEW k \in Nat,
               IsOwn(b, v, j, file), IsOwn(b, u, k, file)
        PROVE  v = u /\ j = k
    <2>1. CASE ~(v = w /\ j = i) /\ ~(u = w /\ k = i)
      <3>1. IsOwn(a, v, j, file) /\ IsOwn(a, u, k, file) BY <1>7, <1>9, <2>1
      <3> QED BY <3>1 DEF OneCopy
    <2>2. CASE v = w /\ j = i /\ ~(u = w /\ k = i)
      <3>1. IsOwn(a, u, k, file) BY <1>7, <1>9, <2>2
      <3>2. Own(d) /\ file = d.file BY <1>8, <1>9, <2>2
      <3> QED BY <2>2, <3>1, <3>2
    <2>3. CASE u = w /\ k = i /\ ~(v = w /\ j = i)
      <3>1. IsOwn(a, v, j, file) BY <1>7, <1>9, <2>3
      <3>2. Own(d) /\ file = d.file BY <1>8, <1>9, <2>3
      <3> QED BY <2>3, <3>1, <3>2
    <2> QED BY <2>1, <2>2, <2>3
  <1>10. OneCopy(b) BY <1>9 DEF OneCopy
  <1> QED BY <1>6, <1>10

LEMMA PagesAre ==
    ASSUME IsApp(app)
    PROVE  /\ \A p \in O!Pages : /\ p[1] \in 1..Len(app.windows) /\ p[1] \in Nat
                               /\ p[2] \in 1..Len(app.windows[p[1]].pages) /\ p[2] \in Nat
                               /\ p = <<p[1], p[2]>> /\ O!Tab(p) \in Tabs
           /\ \A w \in 1..Len(app.windows) :
                 \A i \in 1..Len(app.windows[w].pages) : <<w, i>> \in O!Pages
  <1>1. Len(app.windows) \in Nat /\ DOMAIN app.windows = 1..Len(app.windows) BY AppIs
  <1>2. \A w \in 1..Len(app.windows) :
           /\ DOMAIN app.windows[w].pages = 1..Len(app.windows[w].pages)
           /\ Len(app.windows[w].pages) \in Nat
           /\ \A i \in 1..Len(app.windows[w].pages) : app.windows[w].pages[i] \in Tabs
    BY AppIs, WindowIs
  <1>3. ASSUME NEW p \in O!Pages
        PROVE  /\ p[1] \in 1..Len(app.windows) /\ p[1] \in Nat
               /\ p[2] \in 1..Len(app.windows[p[1]].pages) /\ p[2] \in Nat
               /\ p = <<p[1], p[2]>> /\ O!Tab(p) \in Tabs
    <2>1. PICK w \in 1..Len(app.windows) : p \in {w} \X DOMAIN app.windows[w].pages
      BY <1>1 DEF O!Pages
    <2>2. p[1] = w /\ p[2] \in 1..Len(app.windows[w].pages) /\ p = <<p[1], p[2]>> BY <1>2, <2>1
    <2>3. O!Tab(p) \in Tabs BY <1>2, <2>2 DEF O!Tab
    <2>4. w \in Nat /\ p[2] \in Nat BY <1>1, <1>2, <2>2
    <2> QED BY <2>2, <2>3, <2>4
  <1>4. ASSUME NEW w \in 1..Len(app.windows), NEW i \in 1..Len(app.windows[w].pages)
        PROVE  <<w, i>> \in O!Pages
    <2>1. <<w, i>> \in {w} \X DOMAIN app.windows[w].pages BY <1>2
    <2> QED BY <1>1, <2>1 DEF O!Pages
  <1> QED BY <1>3, <1>4

\* A step of one tab.
LEMMA TabStep ==
    ASSUME IsApp(app), OneCopy(app), NEW p \in O!Pages, NEW d \in Tabs, O!Becomes(p, d),
           Own(d) => \A v, j \in Nat : IsOwn(app, v, j, d.file) => v = p[1] /\ j = p[2]
    PROVE  (IsApp(app) /\ OneCopy(app))'
  <1>1. p[1] \in 1..Len(app.windows) /\ p[2] \in 1..Len(app.windows[p[1]].pages) BY PagesAre
  <1>2. Changes(app, p[1], [app.windows[p[1]] EXCEPT !.pages[p[2]] = d], app')
    BY DEF O!Becomes, Changes
  <1>3. IsApp(app') /\ OneCopy(app') BY <1>1, <1>2, BecomesKeepsOne
  <1> QED BY <1>3 DEF IsApp, OneCopy, IsOwn

\* A tab that stays editable, or that does not become so.
LEMMA SameOrNotOwn ==
    ASSUME IsApp(app), OneCopy(app), NEW p \in O!Pages, NEW d \in Tabs, O!Becomes(p, d),
           Own(d) => Own(O!Tab(p)) /\ O!Tab(p).file = d.file
    PROVE  (IsApp(app) /\ OneCopy(app))'
  <1>1. /\ p[1] \in 1..Len(app.windows) /\ p[2] \in 1..Len(app.windows[p[1]].pages)
        /\ p[1] \in Nat /\ p[2] \in Nat
    BY PagesAre
  <1>2. ASSUME Own(d) PROVE \A v, j \in Nat : IsOwn(app, v, j, d.file) => v = p[1] /\ j = p[2]
    <2>1. IsOwn(app, p[1], p[2], d.file) BY <1>1, <1>2 DEF IsOwn, O!Tab
    <2>2. d.file \in Files BY <1>2 DEF Own
    <2> QED BY <1>1, <2>1, <2>2 DEF OneCopy
  <1> QED BY <1>2, TabStep

LEMMA LoadedKeepsOne ==
    ASSUME IsApp(app), OneCopy(app), NEW p \in O!Pages, O!DocumentLoaded(p)
    PROVE  (IsApp(app) /\ OneCopy(app))'
  <1>1. O!Tab(p) \in Tabs BY PagesAre
  <1>2. PICK elsewhere \in BOOLEAN : elsewhere = O!OpenElsewhere(p)
    <2>1. O!OpenElsewhere(p) \in BOOLEAN BY DEF O!OpenElsewhere
    <2> QED BY <2>1, Zenon
  <1>3. PICK d : d = [O!Tab(p) EXCEPT !.state = "NORMAL", !.bar = elsewhere,
                                    !.not_editable = @ \/ elsewhere]
    OBVIOUS
  <1>4. O!Becomes(p, d) BY <1>2, <1>3 DEF O!DocumentLoaded
  <1>5. d \in Tabs /\ d.file = O!Tab(p).file /\ (Own(d) => ~elsewhere)
    BY <1>1, <1>3 DEF Tabs, Own, O!IsEditable
  <1>6. ASSUME Own(d), NEW v \in Nat, NEW j \in Nat, IsOwn(app, v, j, d.file)
        PROVE  v = p[1] /\ j = p[2]
    <2>1. <<v, j>> \in O!Pages BY <1>6, PagesAre DEF IsOwn
    <2>2. O!Tab(<<v, j>>).file = O!Tab(p).file BY <1>5, <1>6 DEF IsOwn, O!Tab
    <2>3. ~O!OpenElsewhere(p) BY <1>2, <1>5, <1>6
    <2>4. <<v, j>> = p BY <2>1, <2>2, <2>3 DEF O!OpenElsewhere
    <2> QED BY <2>4
  <1> QED BY <1>4, <1>5, <1>6, TabStep

LEMMA OtherTabStepsKeepOne ==
    ASSUME IsApp(app), OneCopy(app), NEW p \in O!Pages, NEW b \in BOOLEAN, NEW file,
           \/ O!LoadFails(p, b) \/ O!RetryLoad(p) \/ O!AnswerAlreadyOpen(p, b)
           \/ O!Edit(p) \/ (file \in Files /\ O!SaveAs(p, file))
    PROVE  (IsApp(app) /\ OneCopy(app))'
  <1>1. O!Tab(p) \in Tabs BY PagesAre
  <1>2. CASE O!LoadFails(p, b)
    <2>1. PICK d : d = [O!Tab(p) EXCEPT !.state = "LOADING_ERROR", !.bar = ~b] OBVIOUS
    <2>2. d \in Tabs /\ ~Own(d) BY <1>1, <2>1 DEF Tabs, Own, O!IsEditable
    <2>3. O!Becomes(p, d) BY <1>2, <2>1 DEF O!LoadFails
    <2> QED BY <2>2, <2>3, SameOrNotOwn
  <1>3. CASE O!RetryLoad(p)
    <2>1. PICK d : d = O!Load(O!Tab(p), O!Tab(p).file) OBVIOUS
    <2>2. d \in Tabs /\ ~Own(d) BY <1>1, <2>1 DEF Tabs, Own, O!IsEditable, O!Load
    <2>3. O!Becomes(p, d) BY <1>3, <2>1 DEF O!RetryLoad
    <2> QED BY <2>2, <2>3, SameOrNotOwn
  <1>4. CASE O!AnswerAlreadyOpen(p, b)
    <2>1. PICK d : d = [O!Tab(p) EXCEPT !.bar = FALSE, !.not_editable = @ /\ ~b, !.granted = @ \/ b]
      OBVIOUS
    <2>2. d \in Tabs BY <1>1, <2>1 DEF Tabs
    <2>3. Own(d) => Own(O!Tab(p)) /\ O!Tab(p).file = d.file
      <3>1. CASE b = TRUE BY <1>1, <2>1, <3>1 DEF Tabs, Own, O!IsEditable
      <3>2. CASE b = FALSE BY <1>1, <2>1, <3>2 DEF Tabs, Own, O!IsEditable
      <3> QED BY <3>1, <3>2
    <2>4. O!Becomes(p, d) BY <1>4, <2>1 DEF O!AnswerAlreadyOpen
    <2> QED BY <2>2, <2>3, <2>4, SameOrNotOwn
  <1>5. CASE O!Edit(p)
    <2>1. PICK d : d = [O!Tab(p) EXCEPT !.modified = TRUE] OBVIOUS
    <2>2. d \in Tabs /\ ~Own(d) BY <1>1, <1>5, <2>1 DEF Tabs, Own, O!Edit, O!IsUntouched
    <2>3. O!Becomes(p, d) BY <1>5, <2>1 DEF O!Edit
    <2> QED BY <2>2, <2>3, SameOrNotOwn
  <1>6. CASE file \in Files /\ O!SaveAs(p, file)
    <2>1. PICK d : d = [O!Tab(p) EXCEPT !.file = file, !.modified = FALSE, !.bar = FALSE,
                                      !.granted = TRUE]
      OBVIOUS
    <2>2. d \in Tabs /\ ~Own(d) BY <1>1, <1>6, <2>1 DEF Tabs, Own
    <2>3. O!Becomes(p, d) BY <1>6, <2>1 DEF O!SaveAs
    <2> QED BY <2>2, <2>3, SameOrNotOwn
  <1> QED BY <1>2, <1>3, <1>4, <1>5, <1>6

-----------------------------------------------------------------------------
\* The files of a window, after its first k pages.
Collected(x, k, list) ==
    /\ list \in Seq(Files)
    /\ \A i \in 1..k : x.pages[i].file # Untitled => x.pages[i].file \in Range(list)
    /\ (\A i \in 1..k : x.pages[i].file # Untitled)
          => Len(list) = k /\ \A i \in 1..k : list[i] = x.pages[i].file

WithPage(list, x, k) ==
    IF x.pages[k].file = Untitled THEN list ELSE Append(list, x.pages[k].file)

LEMMA CollectsOneMore ==
    ASSUME NEW x, IsWindow(x), NEW k \in 1..Len(x.pages), NEW v, Collected(x, k - 1, v),
           NEW w, w = WithPage(v, x, k)
    PROVE  Collected(x, k, w)
  <1>1. PICK file : file = x.pages[k].file OBVIOUS
  <1>2. x.pages[k] \in Tabs BY WindowIs
  <1>3. file \in Files \union {Untitled} BY <1>1, <1>2 DEF Tabs
  <1>4. k \in Nat /\ k # 0 /\ \A i \in 1..k : i = k \/ i \in 1..(k - 1) BY WindowIs
  <1>5. \A i \in 1..(k - 1) : i \in 1..k /\ i # k BY <1>4
  <1>6. v \in Seq(Files) BY DEF Collected
  <1>7. CASE file = Untitled
    <2>1. w = v BY <1>1, <1>7 DEF WithPage
    <2>2. k \in 1..k BY <1>4
    <2>3. \A i \in 1..k : x.pages[i].file # Untitled => x.pages[i].file \in Range(v)
      BY <1>1, <1>4, <1>7 DEF Collected
    <2> QED BY <1>1, <1>6, <1>7, <2>1, <2>2, <2>3 DEF Collected
  <1>8. CASE file # Untitled
    <2>1. w = Append(v, file) BY <1>1, <1>8 DEF WithPage
    <2>2. file \in Files BY <1>3, <1>8
    <2>3. w \in Seq(Files) /\ Range(w) = Range(v) \union {file} BY <1>6, <2>1, <2>2, AppendedIs
    <2>4. \A i \in 1..k : x.pages[i].file # Untitled => x.pages[i].file \in Range(w)
      BY <1>1, <1>4, <2>3 DEF Collected
    <2>5. ASSUME \A i \in 1..k : x.pages[i].file # Untitled
          PROVE  Len(w) = k /\ \A i \in 1..k : w[i] = x.pages[i].file
      <3>1. Len(v) = k - 1 /\ \A i \in 1..(k - 1) : v[i] = x.pages[i].file
        BY <1>5, <2>5 DEF Collected
      <3>2. Len(w) = (k - 1) + 1 /\ w[(k - 1) + 1] = file /\ \A i \in 1..(k - 1) : w[i] = v[i]
        BY <1>6, <2>1, <2>2, <3>1, AppendProperties
      <3>3. (k - 1) + 1 = k BY <1>4
      <3> QED BY <1>1, <1>4, <3>1, <3>2, <3>3
    <2> QED BY <2>3, <2>4, <2>5 DEF Collected
  <1> QED BY <1>7, <1>8

LEMMA FilesInAre ==
    ASSUME NEW x, IsWindow(x), NEW y, y = O!FilesIn(x)
    PROVE  Collected(x, Len(x.pages), y)
  <1> DEFINE n == Len(x.pages)
             Step(k, v) == WithPage(v, x, k)
             W == Seq(Files)
             S == [k \in 0..n |-> {v \in W : Collected(x, k, v)}]
             h == [k \in 1..n |-> [v \in S[k - 1] |-> Step(k, v)]]
             list == CHOOSE f : f = [k \in 0..n |-> IF k = 0 THEN <<>> ELSE Step(k, f[k - 1])]
  <1>1. n \in Nat BY WindowIs
  <1>2. y = list[n]
    <2> DEFINE F == CHOOSE f : f = [k \in 0..Len(x.pages) |->
                       IF k = 0 THEN <<>>
                       ELSE IF x.pages[k].file = Untitled THEN f[k - 1]
                       ELSE Append(f[k - 1], x.pages[k].file)]
    <2>1. y = F[Len(x.pages)] BY DEF O!FilesIn
    <2> QED BY <2>1 DEF WithPage
  <1>3. Collected(x, 0, <<>>)
    <2>1. <<>> \in Seq(Files) /\ Len(<<>>) = 0 OBVIOUS
    <2> QED BY <2>1 DEF Collected
  <1>0. \A k, v : Collected(x, k, v) => v \in W BY DEF Collected
  <1>11. \A k \in 1..n : k \in 1..Len(x.pages) OBVIOUS
  <1> HIDE DEF n, W
  <1>4. /\ \A k \in 0..n : \A v : v \in S[k] <=> Collected(x, k, v)
        /\ \A k \in 1..n : \A v \in S[k - 1] : h[k][v] = Step(k, v) /\ Step(k, v) \in S[k]
    <2> HIDE DEF Step
    <2>1. \A k \in 0..n : \A v : v \in S[k] <=> Collected(x, k, v) BY <1>0
    <2>2. \A k \in 1..n : \A v \in S[k - 1] : h[k][v] = Step(k, v) OBVIOUS
    <2>3. \A k \in 1..n : k \in 0..n /\ k - 1 \in 0..n BY <1>1
    <2> HIDE DEF S
    <2>4. ASSUME NEW k \in 1..n, NEW v \in S[k - 1] PROVE Step(k, v) \in S[k]
      <3>1. Collected(x, k - 1, v) BY <2>1, <2>3
      <3>2. PICK w : w = Step(k, v) OBVIOUS
      <3>3. Collected(x, k, w) BY <1>11, <3>1, <3>2, CollectsOneMore DEF Step
      <3> QED BY <2>1, <2>3, <3>2, <3>3
    <2> QED BY <2>1, <2>2, <2>4
  <1> HIDE DEF S, h, Step
  <1>5. IsChain(S, h, n) BY <1>4 DEF IsChain
  <1>6. <<>> \in S[0] BY <1>1, <1>3, <1>4
  <1>7. list = [k \in 0..n |-> IF k = 0 THEN <<>> ELSE Step(k, list[k - 1])]
    <2>1. PICK f : IsRun(f, <<>>, h, n) /\ \A k \in 0..n : f[k] \in S[k]
      BY <1>1, <1>5, <1>6, ChainExists
    <2>2. \A k \in 0..n : k # 0 => h[k][f[k - 1]] = Step(k, f[k - 1])
      <3>1. \A k \in 0..n : k # 0 => k \in 1..n /\ k - 1 \in 0..n BY <1>1
      <3> QED BY <1>4, <2>1, <3>1
    <2>3. f = [k \in 0..n |-> IF k = 0 THEN <<>> ELSE Step(k, f[k - 1])] BY <2>1, <2>2 DEF IsRun
    <2> QED BY <2>3
  <1> HIDE DEF list
  <1>8. list[0] = <<>> /\ \A k \in 1..n : list[k] = Step(k, list[k - 1])
    <2>1. 0 \in 0..n /\ \A k \in 1..n : k \in 0..n /\ k # 0 BY <1>1
    <2> QED BY <1>7, <2>1
  <1>9. \A k \in 1..n : list[k - 1] \in S[k - 1] => list[k] = h[k][list[k - 1]] BY <1>4, <1>8
  <1>10. \A k \in 0..n : list[k] \in S[k] BY <1>1, <1>5, <1>6, <1>8, <1>9, ChainStays
  <1>12. n \in 0..n BY <1>1
  <1> QED BY <1>2, <1>4, <1>10, <1>12 DEF n

\* What is shown of a window.
ShownIs(x, list, active, shown) ==
    /\ list \in Seq(Files) /\ active \in Files \union {Untitled}
    /\ active # Untitled => active \in Range(list)
    /\ shown = [files |-> list, shown |-> IF active # Untitled \/ list = <<>> THEN active
                                          ELSE list[1]]

LEMMA WindowShows ==
    ASSUME NEW x, IsWindow(x)
    PROVE  ShownIs(x, O!FilesIn(x), O!ActiveFile(x), O!Shown(x))
  <1>1. PICK list : list = O!FilesIn(x) OBVIOUS
  <1>2. PICK active : active = O!ActiveFile(x) OBVIOUS
  <1>3. Collected(x, Len(x.pages), list) BY <1>1, FilesInAre
  <1>4. list \in Seq(Files) BY <1>3 DEF Collected
  <1>5. active \in Files \union {Untitled} /\ (active # Untitled => active \in Range(list))
    <2>1. CASE x.current = 0 BY <1>2, <2>1 DEF O!ActiveFile
    <2>2. CASE x.current # 0
      <3>1. x.current \in 1..Len(x.pages) /\ x.pages[x.current] \in Tabs BY <2>2, WindowIs
      <3>2. active = x.pages[x.current].file BY <1>2, <2>2 DEF O!ActiveFile
      <3>3. active \in Files \union {Untitled} BY <3>1, <3>2 DEF Tabs
      <3> QED BY <1>3, <3>1, <3>2, <3>3 DEF Collected
    <2> QED BY <2>1, <2>2
  <1>6. list # <<>> => Head(list) = list[1] BY <1>4, HeadTailProperties
  <1>7. O!Shown(x) = [files |-> list, shown |-> IF active # Untitled \/ list = <<>> THEN active
                                              ELSE list[1]]
    BY <1>1, <1>2, <1>6 DEF O!Shown
  <1> QED BY <1>1, <1>2, <1>4, <1>5, <1>7 DEF ShownIs

\* A window that parse_window makes of what save_window_session wrote.
Restored(group) == O!CreateTabs(O!NewWindow, group.documents, {group.active})

LEMMA RestoredIs ==
    ASSUME NEW list \in Seq(Files), NEW active \in Files \union {Untitled},
           active # Untitled => active \in Range(list),
           NEW y, y = O!CreateTabs(O!NewWindow, list, {active})
    PROVE  /\ IsWindow(y) /\ GainsNone(O!NewWindow, y)
           /\ O!FilesIn(y) = list
           /\ O!ActiveFile(y) = IF active # Untitled \/ list = <<>> THEN active ELSE list[1]
  <1>1. Creates(O!NewWindow, list, {active}, Len(list), y) BY NewWindowIs, CreateTabsIs
  <1>2. PICK n \in Nat : n = Len(list) BY LenProperties
  <1>3. IsWindow(y) /\ Len(y.pages) = n /\ \A i \in 1..n : y.pages[i] = O!Load(O!NewTab, list[i])
    <2>1. PICK m : m = Len(O!NewWindow.pages) OBVIOUS
    <2>2. m = 0 BY <2>1, NewWindowIs
    <2>3. IsWindow(y) /\ Len(y.pages) = m + n /\ \A i \in 1..n : y.pages[m + i] = O!Load(O!NewTab, list[i])
      BY <1>1, <1>2, <2>1 DEF Creates
    <2>4. n \in Nat BY <1>2, LenProperties
    <2>5. m + n = n /\ \A i \in 1..n : m + i = i BY <2>2, <2>4
    <2> QED BY <2>3, <2>5
  <1>4. ASSUME NEW i \in 1..n
        PROVE  list[i] \in Files /\ y.pages[i].file = list[i] /\ ~Own(y.pages[i])
    <2>1. list[i] \in Files BY <1>2, LenProperties
    <2>2. PICK d : d = O!Load(O!NewTab, list[i]) OBVIOUS
    <2>3. d.file = list[i] /\ ~Own(d) BY <2>1, <2>2, NewTabIs, LoadIs
    <2> QED BY <1>3, <2>1, <2>2, <2>3
  <1>5. GainsNone(O!NewWindow, y) BY <1>3, <1>4 DEF GainsNone
  <1>6. O!FilesIn(y) = list
    <2>1. PICK l : l = O!FilesIn(y) OBVIOUS
    <2>2. Collected(y, n, l) BY <1>3, <2>1, FilesInAre
    <2>3. l \in Seq(Files) BY <2>2 DEF Collected
    <2>4. \A i \in 1..n : y.pages[i].file # Untitled BY <1>4
    <2>5. Len(l) = n /\ \A i \in 1..n : l[i] = y.pages[i].file BY <2>2, <2>4 DEF Collected
    <2>6. \A i \in 1..n : l[i] = list[i] BY <1>4, <2>5
    <2>7. l = list BY <1>2, <2>3, <2>5, <2>6, SeqEqual
    <2> QED BY <2>1, <2>7
  <1>7. CASE n = 0
    <2>1. list = <<>> BY <1>2, <1>7, EmptySeq
    <2>2. active = Untitled BY <2>1 DEF Range
    <2>3. y.current = 0 BY <1>3, <1>7, WindowIs
    <2>4. O!ActiveFile(y) = active BY <2>2, <2>3 DEF O!ActiveFile
    <2> QED BY <1>3, <1>5, <1>6, <2>1, <2>4
  <1>8. CASE n # 0
    <2>1. list # <<>> BY <1>2, <1>8, EmptySeq
    <2>2. PICK i \in 1..n : /\ list[i] = active \/ i = 1
                            /\ y.current = i
                            /\ \A j \in (i + 1)..n : list[j] # active
      <3>1. PICK m : m = Len(O!NewWindow.pages) OBVIOUS
      <3>2. m = 0 BY <3>1, NewWindowIs
      <3>3. PICK i \in 1..n : /\ list[i] \in {active} \/ (m = 0 /\ i = 1)
                              /\ y.current = m + i
                              /\ \A j \in (i + 1)..n : list[j] \notin {active}
        BY <1>1, <1>2, <1>8, <3>1, <3>2 DEF Creates
      <3>4. m + i = i BY <3>2
      <3> QED BY <3>3, <3>4
    <2>3. i # 0 BY <1>2
    <2>4. O!ActiveFile(y) = list[i] BY <1>4, <2>2, <2>3 DEF O!ActiveFile
    <2>5. CASE active = Untitled
      <3>1. list[i] # active BY <1>4, <2>5
      <3> QED BY <1>3, <1>5, <1>6, <2>1, <2>2, <2>4, <2>5, <3>1
    <2>6. CASE active # Untitled
      <3>1. list[i] = active
        <4>1. PICK j \in 1..n : list[j] = active BY <1>2, <2>6, LenProperties DEF Range
        <4>2. j \notin (i + 1)..n BY <2>2, <4>1
        <4>3. i # 1 \/ j = 1 BY <1>2, <4>2
        <4> QED BY <2>2, <4>1, <4>3
      <3> QED BY <1>3, <1>5, <1>6, <2>4, <2>6, <3>1
    <2> QED BY <2>5, <2>6
  <1> QED BY <1>7, <1>8

\* It shows what the window showed.
LEMMA RestoredShows ==
    ASSUME NEW x, IsWindow(x), NEW y, y = Restored(O!SaveWindowSession(x))
    PROVE  O!Shown(y) = O!Shown(x)
  <1>1. PICK list : list = O!FilesIn(x) OBVIOUS
  <1>2. PICK active : active = O!ActiveFile(x) OBVIOUS
  <1>3. ShownIs(x, list, active, O!Shown(x)) BY <1>1, <1>2, WindowShows
  <1>4. y = O!CreateTabs(O!NewWindow, list, {active})
    <2>1. PICK group : group = O!SaveWindowSession(x) OBVIOUS
    <2>2. group.documents = list /\ group.active = active
      BY <1>1, <1>2, <2>1 DEF O!SaveWindowSession
    <2> QED BY <2>1, <2>2 DEF Restored
  <1>5. /\ list \in Seq(Files) /\ active \in Files \union {Untitled}
        /\ active # Untitled => active \in Range(list)
    BY <1>3 DEF ShownIs
  <1>6. PICK shown : shown = IF active # Untitled \/ list = <<>> THEN active ELSE list[1] OBVIOUS
  <1>7. IsWindow(y) /\ O!FilesIn(y) = list /\ O!ActiveFile(y) = shown
    BY <1>4, <1>5, <1>6, RestoredIs
  <1>8. ShownIs(y, list, shown, O!Shown(y)) BY <1>7, WindowShows
  <1>9. IF shown # Untitled \/ list = <<>> THEN shown = shown ELSE list[1] = shown
    BY <1>6
  <1>10. O!Shown(y) = [files |-> list, shown |-> shown] BY <1>8, <1>9 DEF ShownIs
  <1>11. O!Shown(x) = [files |-> list, shown |-> shown] BY <1>3, <1>6 DEF ShownIs
  <1> QED BY <1>10, <1>11

-----------------------------------------------------------------------------
\* What is kept of a session: each window can be made again as it was seen.
GroupSet == [documents : Seq(Files), active : Files \union {Untitled}]
ShownSet == [files : Seq(Files), shown : Files \union {Untitled}]

Kept(groups, shows) ==
    /\ groups \in Seq(GroupSet) /\ shows \in Seq(ShownSet) /\ Len(shows) = Len(groups)
    /\ \A k \in 1..Len(groups) :
          /\ groups[k].active # Untitled => groups[k].active \in Range(groups[k].documents)
          /\ O!Shown(Restored(groups[k])) = shows[k]

LEMMA KeptIs ==
    ASSUME NEW a, IsApp(a),
           NEW groups, groups = [w \in DOMAIN a.windows |-> O!SaveWindowSession(a.windows[w])],
           NEW shows, shows = [w \in DOMAIN a.windows |-> O!Shown(a.windows[w])]
    PROVE  Kept(groups, shows)
  <1>1. PICK n \in Nat : n = Len(a.windows) /\ DOMAIN a.windows = 1..n BY AppIs
  <1>2. ASSUME NEW w \in 1..n
        PROVE  /\ groups[w] \in GroupSet /\ shows[w] \in ShownSet
               /\ groups[w].active # Untitled => groups[w].active \in Range(groups[w].documents)
               /\ O!Shown(Restored(groups[w])) = shows[w]
    <2>1. PICK x : x = a.windows[w] OBVIOUS
    <2>2. IsWindow(x) BY <1>1, <2>1, AppIs
    <2>3. PICK list : list = O!FilesIn(x) OBVIOUS
    <2>4. PICK active : active = O!ActiveFile(x) OBVIOUS
    <2>5. ShownIs(x, list, active, O!Shown(x)) BY <2>2, <2>3, <2>4, WindowShows
    <2>6. groups[w] = [documents |-> list, active |-> active] /\ groups[w] = O!SaveWindowSession(x)
      BY <1>1, <2>1, <2>3, <2>4 DEF O!SaveWindowSession
    <2>7. shows[w] = O!Shown(x) BY <1>1, <2>1
    <2>8. groups[w].active = active /\ groups[w].documents = list BY <2>6
    <2>9. groups[w] \in GroupSet /\ (active # Untitled => active \in Range(list))
      BY <2>5, <2>6 DEF ShownIs, GroupSet
    <2>10. shows[w] \in ShownSet
      <3>1. list \in Seq(Files) /\ active \in Files \union {Untitled} BY <2>5 DEF ShownIs
      <3>2. PICK shown : shown = IF active # Untitled \/ list = <<>> THEN active ELSE list[1] OBVIOUS
      <3>3. shown \in Files \union {Untitled}
        <4>1. list # <<>> => list[1] \in Files
          <5>1. list # <<>> => Len(list) \in Nat /\ Len(list) # 0 BY <3>1, EmptySeq, LenProperties
          <5>2. list # <<>> => 1 \in 1..Len(list) BY <5>1
          <5> QED BY <3>1, <5>2, LenProperties
        <4> QED BY <3>1, <3>2, <4>1
      <3>4. shows[w] = [files |-> list, shown |-> shown] BY <2>5, <2>7, <3>2 DEF ShownIs
      <3> QED BY <3>1, <3>3, <3>4 DEF ShownSet
    <2>11. O!Shown(Restored(groups[w])) = shows[w] BY <2>2, <2>6, <2>7, RestoredShows
    <2> QED BY <2>8, <2>9, <2>10, <2>11
  <1>3. groups \in Seq(GroupSet) /\ Len(groups) = n
    <2>1. groups \in [1..n -> GroupSet] BY <1>1, <1>2
    <2>2. groups \in Seq(GroupSet) BY <2>1, SeqDef
    <2> QED BY <2>1, <2>2, LenProperties
  <1>4. shows \in Seq(ShownSet) /\ Len(shows) = n
    <2>1. shows \in [1..n -> ShownSet] BY <1>1, <1>2
    <2>2. shows \in Seq(ShownSet) BY <2>1, SeqDef
    <2> QED BY <2>1, <2>2, LenProperties
  <1> QED BY <1>2, <1>3, <1>4 DEF Kept

\* The application after the first k groups.
Restores(groups, k, a) ==
    /\ IsApp(a) /\ OneCopy(a) /\ Len(a.windows) = k
    /\ \A w \in 1..k : O!Shown(a.windows[w]) = O!Shown(Restored(groups[k - w + 1]))

LEMMA RestoresOneMore ==
    ASSUME NEW n \in Nat, NEW groups, NEW k \in 1..n,
           groups[k] \in GroupSet,
           groups[k].active # Untitled => groups[k].active \in Range(groups[k].documents),
           NEW a, Restores(groups, k - 1, a), NEW b, b = O!ParseWindow(a, groups[k])
    PROVE  Restores(groups, k, b)
  <1>1. PICK y : y = Restored(groups[k]) OBVIOUS
  <1>2. groups[k].documents \in Seq(Files) /\ groups[k].active \in Files \union {Untitled}
    BY DEF GroupSet
  <1>3. IsWindow(y) /\ GainsNone(O!NewWindow, y) BY <1>1, <1>2, RestoredIs DEF Restored
  <1>4. b = O!CreateWindow(a, y) BY <1>1 DEF O!ParseWindow, Restored
  <1>5. IsApp(a) /\ OneCopy(a) /\ Len(a.windows) = k - 1 BY DEF Restores
  <1>6. /\ IsApp(b) /\ Len(b.windows) = Len(a.windows) + 1 /\ b.windows[1] = y
        /\ \A v \in 1..Len(a.windows) : b.windows[v + 1] = a.windows[v]
    <2>1. Created(a, y, b) BY <1>3, <1>4, <1>5, CreateWindowIs
    <2> QED BY <2>1 DEF Created
  <1>7. OneCopy(b) BY <1>3, <1>5, <1>6, CreateKeepsOne
  <1>8. Len(b.windows) = k BY <1>5, <1>6
  <1>9. ASSUME NEW w \in 1..k PROVE O!Shown(b.windows[w]) = O!Shown(Restored(groups[k - w + 1]))
    <2>1. CASE w = 1
      <3>1. k - 1 + 1 = k OBVIOUS
      <3> QED BY <1>1, <1>6, <2>1, <3>1
    <2>2. CASE w # 1
      <3>1. w - 1 \in 1..(k - 1) /\ (w - 1) + 1 = w /\ (k - 1) - (w - 1) + 1 = k - w + 1 BY <2>2
      <3>2. b.windows[w] = a.windows[w - 1] BY <1>5, <1>6, <3>1
      <3>3. O!Shown(a.windows[w - 1]) = O!Shown(Restored(groups[(k - 1) - (w - 1) + 1]))
        BY <3>1 DEF Restores
      <3> QED BY <3>1, <3>2, <3>3
    <2> QED BY <2>1, <2>2
  <1> QED BY <1>6, <1>7, <1>8, <1>9 DEF Restores

LEMMA AppOfIs ==
    ASSUME NEW groups, NEW shows, Kept(groups, shows), NEW y, y = O!AppOf(groups)
    PROVE  Restores(groups, Len(groups), y)
  <1> DEFINE n == Len(groups)
             Step(k, v) == O!ParseWindow(v, groups[k])
             W == {a \in [windows : Seq(WindowSet), active : Nat] : IsApp(a)}
             S == [k \in 0..n |-> {v \in W : Restores(groups, k, v)}]
             h == [k \in 1..n |-> [v \in S[k - 1] |-> Step(k, v)]]
             after == CHOOSE f : f = [k \in 0..n |-> IF k = 0 THEN O!NoApp ELSE Step(k, f[k - 1])]
  <1>1. n \in Nat BY LenProperties DEF Kept
  <1>2. y = after[n]
    <2> DEFINE F == CHOOSE f : f = [k \in 0..Len(groups) |->
                       IF k = 0 THEN O!NoApp ELSE O!ParseWindow(f[k - 1], groups[k])]
    <2>1. y = F[Len(groups)] BY DEF O!AppOf
    <2> QED BY <2>1
  <1>3. Restores(groups, 0, O!NoApp)
    <2>1. Len(O!NoApp.windows) = 0 BY DEF O!NoApp
    <2> QED BY <2>1, NoAppIs DEF Restores
  <1>0. \A k, v : Restores(groups, k, v) => v \in W
    <2> SUFFICES ASSUME NEW v, IsApp(v) PROVE v \in [windows : Seq(WindowSet), active : Nat]
      BY DEF Restores
    <2>1. v.active \in Nat BY AppIs
    <2> QED BY <2>1 DEF IsApp
  <1>11. \A k \in 1..n :
            /\ groups[k] \in GroupSet
            /\ groups[k].active # Untitled => groups[k].active \in Range(groups[k].documents)
    BY LenProperties DEF Kept
  <1> HIDE DEF n, W, Step
  <1>4. /\ \A k \in 0..n : \A v : v \in S[k] <=> Restores(groups, k, v)
        /\ \A k \in 1..n : \A v \in S[k - 1] : h[k][v] = Step(k, v) /\ Step(k, v) \in S[k]
    <2>1. \A k \in 0..n : \A v : v \in S[k] <=> Restores(groups, k, v) BY <1>0
    <2>2. \A k \in 1..n : \A v \in S[k - 1] : h[k][v] = Step(k, v) OBVIOUS
    <2>3. \A k \in 1..n : k \in 0..n /\ k - 1 \in 0..n BY <1>1
    <2> HIDE DEF S
    <2>4. ASSUME NEW k \in 1..n, NEW v \in S[k - 1] PROVE Step(k, v) \in S[k]
      <3>1. Restores(groups, k - 1, v) BY <2>1, <2>3
      <3>2. PICK w : w = Step(k, v) OBVIOUS
      <3>3. w = O!ParseWindow(v, groups[k]) BY <3>2 DEF Step
      <3>4. Restores(groups, k, w) BY <1>1, <1>11, <3>1, <3>3, RestoresOneMore
      <3> QED BY <2>1, <2>3, <3>2, <3>4
    <2> QED BY <2>1, <2>2, <2>4
  <1> HIDE DEF S, h
  <1>5. IsChain(S, h, n) BY <1>4 DEF IsChain
  <1>6. O!NoApp \in S[0] BY <1>1, <1>3, <1>4
  <1>7. after = [k \in 0..n |-> IF k = 0 THEN O!NoApp ELSE Step(k, after[k - 1])]
    <2>1. PICK f : IsRun(f, O!NoApp, h, n) /\ \A k \in 0..n : f[k] \in S[k]
      BY <1>1, <1>5, <1>6, ChainExists
    <2>2. \A k \in 0..n : k # 0 => h[k][f[k - 1]] = Step(k, f[k - 1])
      <3>1. \A k \in 0..n : k # 0 => k \in 1..n /\ k - 1 \in 0..n BY <1>1
      <3> QED BY <1>4, <2>1, <3>1
    <2>3. f = [k \in 0..n |-> IF k = 0 THEN O!NoApp ELSE Step(k, f[k - 1])] BY <2>1, <2>2 DEF IsRun
    <2> QED BY <2>3
  <1> HIDE DEF after
  <1>8. after[0] = O!NoApp /\ \A k \in 1..n : after[k] = Step(k, after[k - 1])
    <2>1. 0 \in 0..n /\ \A k \in 1..n : k \in 0..n /\ k # 0 BY <1>1
    <2> QED BY <1>7, <2>1
  <1>9. \A k \in 1..n : after[k - 1] \in S[k - 1] => after[k] = h[k][after[k - 1]] BY <1>4, <1>8
  <1>10. \A k \in 0..n : after[k] \in S[k] BY <1>1, <1>5, <1>6, <1>8, <1>9, ChainStays
  <1>12. n \in 0..n BY <1>1
  <1> QED BY <1>2, <1>4, <1>10, <1>12 DEF n

-----------------------------------------------------------------------------
\* The inductive invariant: what the tabs and windows are, that of the tabs of a
\* file at most one can be edited though nobody has said so, and that what is kept
\* of a session makes the windows again as they were seen.
OpenInv ==
    /\ IsApp(app) /\ OneCopy(app)
    /\ state_file # NoSession => Kept(state_file, seen)

LEMMA InitOpening == O!Init => OpenInv
  <1> SUFFICES ASSUME O!Init PROVE OpenInv OBVIOUS
  <1>1. app = O!NoApp /\ state_file = NoSession BY DEF O!Init
  <1> QED BY <1>1, NoAppIs DEF OpenInv

\* The first window, of one that starts.
LEMMA StartOpening ==
    ASSUME OpenInv, O!Start
    PROVE  OpenInv'
  <1>1. PICK files \in Requests :
            app' = O!CreateWindow(O!NoApp, IF files = <<>> THEN O!CreateTab(O!NewWindow, TRUE)
                                       ELSE O!LoadFileList(O!NewWindow, files))
    BY DEF O!Start
  <1>2. state_file' = state_file /\ seen' = seen BY DEF O!Start
  <1>3. files \in Seq(Files) OBVIOUS
  <1>4. PICK y : y = IF files = <<>> THEN O!CreateTab(O!NewWindow, TRUE) ELSE O!LoadFileList(O!NewWindow, files)
    OBVIOUS
  <1>5. IsWindow(y) /\ GainsNone(O!NewWindow, y)
    <2>1. CASE files = <<>> BY <1>4, <2>1, NewWindowIs, CreateTabIs
    <2>2. CASE files # <<>> BY <1>3, <1>4, <2>2, NewWindowIs, LoadsAreServed
    <2> QED BY <2>1, <2>2
  <1>6. app' = O!CreateWindow(O!NoApp, y) BY <1>1, <1>4
  <1>7. /\ IsApp(app') /\ Len(app'.windows) = Len(O!NoApp.windows) + 1 /\ app'.windows[1] = y
        /\ \A v \in 1..Len(O!NoApp.windows) : app'.windows[v + 1] = O!NoApp.windows[v]
    <2>1. Created(O!NoApp, y, app') BY <1>5, <1>6, NoAppIs, CreateWindowIs
    <2> QED BY <2>1 DEF Created
  <1>8. OneCopy(app') BY <1>5, <1>7, NoAppIs, CreateKeepsOne
  <1> QED BY <1>2, <1>7, <1>8 DEF OpenInv, IsApp, OneCopy, IsOwn

\* A window becomes y, or one that is y is created, and the request is served there.
ServedIn(x, y, files, new_document) == IsWindow(y) /\ GainsNone(x, y) /\ O!Served(x, y, files, new_document)

LEMMA ServedHere ==
    ASSUME OpenInv, NEW w \in DOMAIN app.windows, NEW y, NEW files, NEW new_document,
           ServedIn(app.windows[w], y, files, new_document),
           Changes(app, w, y, app'), UNCHANGED <<state_file, seen>>
    PROVE  OpenInv' /\ O!ServedOne(files, new_document)
  <1>1. IsApp(app) /\ OneCopy(app) BY DEF OpenInv
  <1>2. PICK n \in Nat : n = Len(app.windows) /\ DOMAIN app.windows = 1..n BY <1>1, AppIs
  <1>3. w \in 1..n BY <1>2
  <1>4. IsWindow(y) /\ GainsNone(app.windows[w], y) /\ O!Served(app.windows[w], y, files, new_document)
    BY DEF ServedIn
  <1>5. /\ IsApp(app') /\ Len(app'.windows) = n /\ app'.windows[w] = y
        /\ \A v \in 1..n : v # w => app'.windows[v] = app.windows[v]
    BY <1>1, <1>2, <1>3, <1>4, ChangeIs DEF Changed
  <1>6. OneCopy(app') BY <1>1, <1>2, <1>3, <1>4, <1>5, GainsKeepsOne
  <1>7. DOMAIN app'.windows = 1..n BY <1>5, AppIs
  <1>8. O!WindowsBefore = app.windows BY <1>2, <1>5 DEF O!WindowsBefore
  <1>9. O!ServedOne(files, new_document) BY <1>3, <1>4, <1>5, <1>7, <1>8 DEF O!ServedOne
  <1> QED BY <1>5, <1>6, <1>9 DEF OpenInv, IsApp, OneCopy, IsOwn

LEMMA ServedInNew ==
    ASSUME OpenInv, NEW y, NEW files, NEW new_document,
           ServedIn(O!NewWindow, y, files, new_document),
           app' = O!CreateWindow(app, y), UNCHANGED <<state_file, seen>>
    PROVE  OpenInv' /\ O!ServedOne(files, new_document)
  <1>1. IsApp(app) /\ OneCopy(app) BY DEF OpenInv
  <1>2. PICK n \in Nat : n = Len(app.windows) BY <1>1, AppIs
  <1>3. IsWindow(y) /\ GainsNone(O!NewWindow, y) /\ O!Served(O!NewWindow, y, files, new_document)
    BY DEF ServedIn
  <1>4. /\ IsApp(app') /\ Len(app'.windows) = Len(app.windows) + 1 /\ app'.windows[1] = y
        /\ \A v \in 1..Len(app.windows) : app'.windows[v + 1] = app.windows[v]
    <2>1. Created(app, y, app') BY <1>1, <1>3, CreateWindowIs
    <2> QED BY <2>1 DEF Created
  <1>5. OneCopy(app') BY <1>1, <1>3, <1>4, CreateKeepsOne
  <1>6. DOMAIN app'.windows = 1..(n + 1) BY <1>2, <1>4, AppIs
  <1>7. O!WindowsBefore = <<O!NewWindow>> \o app.windows BY <1>2, <1>4 DEF O!WindowsBefore
  <1>8. O!WindowsBefore[1] = O!NewWindow /\ \A v \in 1..n : O!WindowsBefore[v + 1] = app.windows[v]
    <2>1. PICK b : b = O!CreateWindow(app, O!NewWindow) OBVIOUS
    <2>2. b.windows = O!WindowsBefore BY <1>7, <2>1 DEF O!CreateWindow
    <2>3. b.windows[1] = O!NewWindow /\ \A v \in 1..Len(app.windows) : b.windows[v + 1] = app.windows[v]
      BY <1>1, <2>1, NewWindowIs, CreateWindowIs DEF Created
    <2> QED BY <1>2, <2>2, <2>3
  <1>9. ASSUME NEW v \in DOMAIN app'.windows, v # 1 PROVE app'.windows[v] = O!WindowsBefore[v]
    <2>1. v - 1 \in 1..n /\ (v - 1) + 1 = v BY <1>6, <1>9
    <2> QED BY <1>2, <1>4, <1>8, <2>1
  <1>10. 1 \in DOMAIN app'.windows BY <1>6
  <1>11. O!ServedOne(files, new_document)
    BY <1>3, <1>4, <1>8, <1>9, <1>10 DEF O!ServedOne
  <1> QED BY <1>4, <1>5, <1>11 DEF OpenInv, IsApp, OneCopy, IsOwn

LEMMA LoadUrisServes ==
    ASSUME OpenInv, NEW w, NEW files \in Requests, O!LoadUris(w, files)
    PROVE  OpenInv' /\ O!ServedOne(files, FALSE)
  <1>1. w \in DOMAIN app.windows /\ files # <<>> /\ UNCHANGED <<state_file, seen>> BY DEF O!LoadUris
  <1>2. files \in Seq(Files) OBVIOUS
  <1>3. IsWindow(app.windows[w]) BY <1>1, AppIs DEF OpenInv
  <1>4. PICK y : y = O!LoadFileList(app.windows[w], files) OBVIOUS
  <1>5. ServedIn(app.windows[w], y, files, FALSE)
    BY <1>1, <1>2, <1>3, <1>4, LoadsAreServed DEF ServedIn
  <1>6. Changes(app, w, y, app') BY <1>4 DEF O!LoadUris, Changes
  <1> QED BY <1>1, <1>5, <1>6, ServedHere

LEMMA InViewportIs ==
    ASSUME IsApp(app), NEW here \in O!Viewports
    PROVE  O!InViewport(here) = 0 \/ O!InViewport(here) \in DOMAIN app.windows
  <1>1. PICK n \in Nat : n = Len(app.windows) /\ DOMAIN app.windows = 1..n BY AppIs
  <1>2. CASE app.active \in here BY <1>2 DEF O!InViewport, O!Viewports
  <1>3. CASE app.active \notin here
    <2> DEFINE s == [w \in DOMAIN app.windows |-> w]
               T == {i \in 1..Len(s) : s[i] \in here}
    <2>1. O!InViewport(here) = IF T # {} THEN Min(T) ELSE 0
      BY <1>3, SameMin DEF O!InViewport, O!SelectInSeq
    <2>2. Len(s) = n
      <3>1. s \in Seq(Nat)
        <4>1. s \in [1..n -> Nat] BY <1>1
        <4> QED BY <4>1, SeqDef
      <3> QED BY <1>1, <3>1, LenProperties
    <2>3. T \subseteq 1..n BY <2>2
    <2>4. T \in SUBSET Nat BY <2>3
    <2> HIDE DEF T
    <2>5. T # {} => Min(T) \in T BY <2>4, MinIsLeast
    <2> QED BY <1>1, <2>1, <2>3, <2>5
  <1> QED BY <1>2, <1>3

LEMMA MessageServes ==
    ASSUME OpenInv, NEW files \in Requests, NEW here \in O!Viewports,
           NEW new_window \in BOOLEAN, NEW new_document \in BOOLEAN,
           O!OnMessageReceived(files, here, new_window, new_document)
    PROVE  OpenInv' /\ O!ServedOne(files, new_document)
  <1>1. IsApp(app) BY DEF OpenInv
  <1>2. files \in Seq(Files) OBVIOUS
  <1>3. UNCHANGED <<state_file, seen>> BY DEF O!OnMessageReceived
  <1>4. CASE new_window \/ O!InViewport(here) = 0
    <2>1. PICK y : y = O!ServeRequest(O!NewWindow, files, new_document) OBVIOUS
    <2>2. ServedIn(O!NewWindow, y, files, new_document)
      BY <1>2, <2>1, NewWindowIs, RequestsAreServed DEF ServedIn
    <2>3. app' = O!CreateWindow(app, y) BY <1>4, <2>1 DEF O!OnMessageReceived
    <2> QED BY <1>3, <2>2, <2>3, ServedInNew
  <1>5. CASE ~(new_window \/ O!InViewport(here) = 0)
    <2>1. PICK w : w = O!InViewport(here) OBVIOUS
    <2>2. w \in DOMAIN app.windows BY <1>1, <1>5, <2>1, InViewportIs
    <2>3. IsWindow(app.windows[w]) BY <1>1, <2>2, AppIs
    <2>4. PICK y : y = O!ServeRequest(app.windows[w], files, new_document) OBVIOUS
    <2>5. ServedIn(app.windows[w], y, files, new_document)
      BY <1>2, <2>3, <2>4, RequestsAreServed DEF ServedIn
    <2>6. Changes(app, w, y, app') BY <1>5, <2>1, <2>4 DEF O!OnMessageReceived, Changes
    <2> QED BY <1>3, <2>2, <2>5, <2>6, ServedHere
  <1> QED BY <1>4, <1>5

LEMMA RequestsOpening ==
    ASSUME OpenInv
    PROVE  O!RequestIsServed
  <1>1. \A w \in 1 .. MaxWindows, files \in Requests : O!LoadUris(w, files) => O!ServedOne(files, FALSE)
    BY LoadUrisServes
  <1>2. \A files \in Requests, here \in O!Viewports, new_window, new_document \in BOOLEAN :
           O!OnMessageReceived(files, here, new_window, new_document) => O!ServedOne(files, new_document)
    BY MessageServes
  <1> QED BY <1>1, <1>2 DEF O!RequestIsServed

\* The windows come in the opposite order.
LEMMA SessionLoadRestores ==
    ASSUME OpenInv, O!SessionLoad
    PROVE  OpenInv' /\ [w \in DOMAIN app'.windows |-> O!Shown(app'.windows[w])] = Reverse(seen)
  <1>1. state_file # NoSession /\ app' = O!AppOf(state_file) /\ UNCHANGED <<state_file, seen>>
    BY DEF O!SessionLoad
  <1>2. Kept(state_file, seen) BY <1>1 DEF OpenInv
  <1>3. PICK n : n = Len(state_file) OBVIOUS
  <1>4. n \in Nat /\ seen \in Seq(ShownSet) /\ Len(seen) = n BY <1>2, <1>3, LenProperties DEF Kept
  <1>5. Restores(state_file, n, app') BY <1>1, <1>2, <1>3, AppOfIs
  <1>6. /\ IsApp(app') /\ OneCopy(app') /\ Len(app'.windows) = n
        /\ \A w \in 1..n : O!Shown(app'.windows[w]) = O!Shown(Restored(state_file[n - w + 1]))
    BY <1>5 DEF Restores
  <1>7. DOMAIN app'.windows = 1..n BY <1>6, AppIs
  <1>8. OpenInv' BY <1>1, <1>2, <1>6 DEF OpenInv, IsApp, OneCopy, IsOwn
  <1>9. PICK r : r = Reverse(seen) OBVIOUS
  <1>10. /\ r \in Seq(ShownSet) /\ Len(r) = n
         /\ \A i \in 1..n : n - i + 1 \in 1..n /\ r[i] = seen[n - i + 1]
    BY <1>4, <1>9, ReverseProperties
  <1>11. ASSUME NEW w \in 1..n PROVE O!Shown(app'.windows[w]) = r[w]
    <2>1. O!Shown(Restored(state_file[n - w + 1])) = seen[n - w + 1]
      BY <1>2, <1>3, <1>10 DEF Kept
    <2> QED BY <1>6, <1>10, <2>1
  <1>12. r = [w \in 1..n |-> r[w]] BY <1>10, LenProperties
  <1>13. [w \in DOMAIN app'.windows |-> O!Shown(app'.windows[w])] = [w \in 1..n |-> r[w]]
    BY <1>7, <1>11
  <1> QED BY <1>8, <1>9, <1>12, <1>13

LEMMA TabsLeaveOpening ==
    ASSUME OpenInv, NEW p \in O!Pages, NEW next \in O!NextPages(p), NEW w,
           O!CloseTab(p, next) \/ O!MoveTab(p, w, next)
    PROVE  OpenInv'
  <1>1. IsApp(app) /\ OneCopy(app) BY DEF OpenInv
  <1>2. PICK n \in Nat : n = Len(app.windows[p[1]].pages)
    <2>1. p[1] \in 1..Len(app.windows) BY <1>1, PagesAre
    <2> QED BY <1>1, <2>1, AppIs, WindowIs
  <1>3. p[1] \in 1..Len(app.windows) /\ p[2] \in 1..n BY <1>1, <1>2, PagesAre
  <1>4. next \in 1..n /\ (n = 1 \/ next < n)
    <2>1. next \in 1 .. (n - 1) \union {1} BY <1>2 DEF O!NextPages
    <2>2. 1 <= n BY <1>2, <1>3
    <2>5. 1 \in 1..n /\ (n = 1 \/ 1 < n) BY <2>2
    <2>3. CASE next = 1 BY <2>3, <2>5
    <2>4. CASE next \in 1..(n - 1) BY <2>4
    <2> QED BY <2>1, <2>3, <2>4
  <1>5. UNCHANGED <<state_file, seen>> BY DEF O!CloseTab, O!MoveTab
  <1>6. CASE O!CloseTab(p, next)
    <2>1. Changes(app, p[1], O!Leave(app.windows[p[1]], p[2], next), app')
      BY <1>6 DEF O!CloseTab, Changes
    <2>2. IsApp(app') /\ OneCopy(app') BY <1>1, <1>2, <1>3, <1>4, <2>1, LeaveKeepsOne
    <2> QED BY <1>5, <2>2 DEF OpenInv, IsApp, OneCopy, IsOwn
  <1>7. CASE O!MoveTab(p, w, next)
    <2>1. w \in 1..Len(app.windows) /\ w # p[1] BY <1>1, <1>7, AppIs DEF O!MoveTab
    <2>2. Moves(app, p[1], p[2], next, w, app') BY <1>7 DEF O!MoveTab, Moves, O!Tab
    <2>3. IsApp(app') /\ OneCopy(app') BY <1>1, <1>2, <1>3, <1>4, <2>1, <2>2, MoveKeepsOne
    <2> QED BY <1>5, <2>3 DEF OpenInv, IsApp, OneCopy, IsOwn
  <1> QED BY <1>6, <1>7

LEMMA WindowsOpening ==
    ASSUME OpenInv, NEW w, O!FocusIn(w) \/ O!WindowDestroy(w)
    PROVE  OpenInv'
  <1>1. IsApp(app) /\ OneCopy(app) BY DEF OpenInv
  <1>2. w \in 1..Len(app.windows) /\ UNCHANGED <<state_file, seen>>
    BY <1>1, AppIs DEF O!FocusIn, O!WindowDestroy
  <1>3. CASE O!FocusIn(w)
    <2>1. app' = [windows |-> app.windows, active |-> w] BY <1>1, <1>3 DEF O!FocusIn, IsApp
    <2>2. app.windows # <<>> BY <1>1, <1>2, AppIs
    <2>3. app'.windows = app.windows /\ app'.active = w BY <2>1
    <2>4. IsApp(app') BY <1>1, <1>2, <2>1, <2>2, <2>3 DEF IsApp
    <2>5. OneCopy(app') BY <1>1, <2>3 DEF OneCopy, IsOwn
    <2> QED BY <1>2, <2>4, <2>5 DEF OpenInv, IsApp, OneCopy, IsOwn
  <1>4. CASE O!WindowDestroy(w)
    <2>1. PICK active : active = O!ActiveAfter(w) OBVIOUS
    <2>2. active = (IF app.active = w THEN (IF Len(app.windows) = 1 THEN 0 ELSE 1)
                    ELSE IF app.active > w THEN app.active - 1 ELSE app.active)
      BY <2>1 DEF O!ActiveAfter
    <2>3. app' = [windows |-> RemoveAt(app.windows, w), active |-> active]
      BY <1>4, <2>1, SameRemoveAt DEF O!WindowDestroy
    <2>4. IsApp(app') /\ OneCopy(app') BY <1>1, <1>2, <2>2, <2>3, DestroyKeepsOne
    <2> QED BY <1>2, <2>4 DEF OpenInv, IsApp, OneCopy, IsOwn
  <1> QED BY <1>3, <1>4

LEMMA TabStepsOpening ==
    ASSUME OpenInv, NEW p \in O!Pages, NEW b \in BOOLEAN, NEW file,
           \/ O!DocumentLoaded(p) \/ O!LoadFails(p, b) \/ O!RetryLoad(p) \/ O!AnswerAlreadyOpen(p, b)
           \/ O!Edit(p) \/ (file \in Files /\ O!SaveAs(p, file))
    PROVE  OpenInv'
  <1>1. IsApp(app) /\ OneCopy(app) BY DEF OpenInv
  <1>2. UNCHANGED <<state_file, seen>>
    BY DEF O!DocumentLoaded, O!LoadFails, O!RetryLoad, O!AnswerAlreadyOpen, O!Edit, O!SaveAs, O!Becomes
  <1>3. (IsApp(app) /\ OneCopy(app))'
    <2>1. CASE O!DocumentLoaded(p) BY <1>1, <2>1, LoadedKeepsOne
    <2>2. CASE ~O!DocumentLoaded(p) BY <1>1, <2>2, OtherTabStepsKeepOne
    <2> QED BY <2>1, <2>2
  <1> QED BY <1>2, <1>3 DEF OpenInv

LEMMA SaveStateOpening ==
    ASSUME OpenInv, O!SaveState \/ O!Ends
    PROVE  OpenInv'
  <1>1. IsApp(app) /\ OneCopy(app) BY DEF OpenInv
  <1>2. CASE O!SaveState
    <2>1. /\ state_file' = [w \in DOMAIN app.windows |-> O!SaveWindowSession(app.windows[w])]
          /\ seen' = [w \in DOMAIN app.windows |-> O!Shown(app.windows[w])]
          /\ app' = app
      BY <1>2 DEF O!SaveState
    <2>2. Kept(state_file', seen') BY <1>1, <2>1, KeptIs
    <2>3. IsApp(app') /\ OneCopy(app') BY <1>1, <2>1
    <2> QED BY <2>2, <2>3 DEF OpenInv, IsApp, OneCopy, IsOwn, Kept, Restored, O!Shown
  <1>3. CASE O!Ends
    <2>1. app' = O!NoApp /\ UNCHANGED <<state_file, seen>> BY <1>3 DEF O!Ends
    <2>2. IsApp(app') /\ OneCopy(app') BY <2>1, NoAppIs
    <2> QED BY <2>1, <2>2 DEF OpenInv, IsApp, OneCopy, IsOwn
  <1> QED BY <1>2, <1>3

LEMMA NextOpening == OpenInv /\ [O!Next]_(O!vars) => OpenInv'
  <1> SUFFICES ASSUME OpenInv, [O!Next]_(O!vars) PROVE OpenInv' OBVIOUS
  <1>1. IsApp(app) BY DEF OpenInv
  <1>2. CASE O!NextOfLoads
    <2>1. PICK p \in O!Pages, b \in BOOLEAN :
             O!DocumentLoaded(p) \/ O!RetryLoad(p) \/ O!LoadFails(p, b) \/ O!AnswerAlreadyOpen(p, b)
      <3>1. TRUE \in BOOLEAN OBVIOUS
      <3> QED BY <1>2, <3>1 DEF O!NextOfLoads
    <2> QED BY <2>1, TabStepsOpening
  <1>3. CASE O!NextOfWindows
    <2>1. CASE O!Start BY <2>1, StartOpening
    <2>2. CASE \E files \in Requests, here \in O!Viewports, new_window, new_document \in BOOLEAN :
                  O!OnMessageReceived(files, here, new_window, new_document)
      BY <2>2, MessageServes
    <2>3. CASE \E w \in 1 .. MaxWindows : O!FocusIn(w) \/ O!WindowDestroy(w) BY <2>3, WindowsOpening
    <2>4. CASE \E w \in 1 .. MaxWindows, files \in Requests : O!LoadUris(w, files)
      BY <2>4, LoadUrisServes
    <2>5. CASE \E p \in O!Pages : O!Edit(p) \/ \E file \in Files : O!SaveAs(p, file)
      <3>1. TRUE \in BOOLEAN OBVIOUS
      <3>2. PICK p \in O!Pages : O!Edit(p) \/ \E file \in Files : O!SaveAs(p, file) BY <2>5
      <3>3. CASE O!Edit(p)
        <4>1. PICK b \in BOOLEAN : b = TRUE BY <3>1
        <4>2. PICK file : file = Untitled OBVIOUS
        <4>3. \/ O!DocumentLoaded(p) \/ O!LoadFails(p, b) \/ O!RetryLoad(p) \/ O!AnswerAlreadyOpen(p, b)
              \/ O!Edit(p) \/ (file \in Files /\ O!SaveAs(p, file))
          BY <3>3
        <4> QED BY <4>3, TabStepsOpening
      <3>4. CASE \E file \in Files : O!SaveAs(p, file) BY <3>1, <3>4, TabStepsOpening
      <3> QED BY <3>2, <3>3, <3>4
    <2>6. CASE \E p \in O!Pages : \E next \in O!NextPages(p) :
                  O!CloseTab(p, next) \/ \E w \in 1 .. MaxWindows : O!MoveTab(p, w, next)
      BY <2>6, TabsLeaveOpening
    <2> QED BY <1>3, <2>1, <2>2, <2>3, <2>4, <2>5, <2>6 DEF O!NextOfWindows
  <1>4. CASE O!NextOfSession
    BY <1>4, SaveStateOpening, SessionLoadRestores DEF O!NextOfSession
  <1>5. CASE UNCHANGED O!vars
    <2>1. app' = app /\ state_file' = state_file /\ seen' = seen BY <1>5 DEF O!vars
    <2>2. IsApp(app') /\ OneCopy(app') BY <2>1 DEF OpenInv
    <2>3. state_file' # NoSession => Kept(state_file', seen') BY <2>1 DEF OpenInv
    <2> QED BY <2>2, <2>3 DEF OpenInv, IsApp, OneCopy, IsOwn, Kept, Restored, O!Shown
  <1> QED BY <1>2, <1>3, <1>4, <1>5 DEF O!Next

LEMMA OpenInvImplies == OpenInv => O!FilesAreOpenedOnce
  <1> SUFFICES ASSUME OpenInv PROVE O!FilesAreOpenedOnce OBVIOUS
  <1>1. IsApp(app) /\ OneCopy(app) BY DEF OpenInv
  <1>2. PICK n \in Nat : n = Len(app.windows) /\ DOMAIN app.windows = 1..n BY <1>1, AppIs
  <1>3. O!TypeOK
    <2>1. \A p \in O!Pages : O!Tab(p).state \in {"NORMAL", "LOADING", "LOADING_ERROR"}
      BY <1>1, PagesAre DEF Tabs
    <2>2. ASSUME NEW w \in DOMAIN app.windows, NEW win, win = app.windows[w]
          PROVE  IF win.pages = <<>> THEN win.current = 0 ELSE win.current \in DOMAIN win.pages
      <3>1. IsWindow(win) BY <1>1, <1>2, <2>2, AppIs
      <3>2. DOMAIN win.pages = 1..Len(win.pages) BY <3>1, WindowIs
      <3> QED BY <3>1, <3>2 DEF IsWindow
    <2> QED BY <2>1, <2>2 DEF O!TypeOK
  <1>5. O!OneEditableCopy
    <2> SUFFICES ASSUME NEW file \in Files
                 PROVE  O!Cardinality({p \in O!Pages : /\ O!Tab(p).file = file
                                                      /\ O!IsEditable(O!Tab(p))
                                                      /\ ~O!Tab(p).granted}) <= 1
      BY Zenon DEF O!OneEditableCopy
    <2> DEFINE T == {p \in O!Pages : /\ O!Tab(p).file = file
                                     /\ O!IsEditable(O!Tab(p))
                                     /\ ~O!Tab(p).granted}
    <2>1. ASSUME NEW p \in T, NEW q \in T PROVE p = q
      <3>1. /\ p[1] \in Nat /\ p[2] \in Nat /\ p = <<p[1], p[2]>>
            /\ q[1] \in Nat /\ q[2] \in Nat /\ q = <<q[1], q[2]>>
        BY <1>1, PagesAre
      <3>2. IsOwn(app, p[1], p[2], file) BY <1>1, PagesAre DEF IsOwn, Own, O!Tab
      <3>3. IsOwn(app, q[1], q[2], file) BY <1>1, PagesAre DEF IsOwn, Own, O!Tab
      <3>4. p[1] = q[1] /\ p[2] = q[2] BY <1>1, <3>1, <3>2, <3>3 DEF OneCopy
      <3> QED BY <3>1, <3>4
    <2> HIDE DEF T
    <2>2. ASSUME T = {} PROVE Cardinality(T) <= 1
      <3>1. Cardinality(T) = 0 BY <2>2, FS_EmptySet
      <3> QED BY <3>1
    <2>3. ASSUME T # {} PROVE Cardinality(T) <= 1
      <3>3. PICK p \in T : TRUE BY <2>3
      <3>1. T = {p} BY <2>1
      <3>2. Cardinality(T) = 1 BY <3>1, FS_Singleton
      <3> QED BY <3>2
    <2>4. O!Cardinality(T) <= 1 BY <2>2, <2>3, SameCardinality
    <2> QED BY <2>4 DEF T
  <1>6. O!ActiveWindowExists BY <1>1, <1>2 DEF O!ActiveWindowExists, O!Running, IsApp
  <1> QED BY <1>3, <1>5, <1>6 DEF O!FilesAreOpenedOnce

LEMMA SessionOpening == OpenInv => O!SessionIsRestored
  BY SessionLoadRestores, SameReverse DEF O!SessionIsRestored

\* document_loaded, load_file_list, parse_window and the rest: however the loads of
\* one file into several windows overlap, however its tabs move, and whatever
\* sessions are restored, one of them at most can be edited without the user
\* having said so; and a request finds an active window.
THEOREM FilesOpenedOnce == O!Spec => []FilesAreOpenedOnce
  <1>1. O!Init => OpenInv BY InitOpening
  <1>2. OpenInv /\ [O!Next]_(O!vars) => OpenInv' BY NextOpening
  <1>3. OpenInv => FilesAreOpenedOnce BY OpenInvImplies DEF FilesAreOpenedOnce
  <1> QED BY <1>1, <1>2, <1>3, PTL DEF O!Spec

\* load_file_list, on_message_received, save_window_session and parse_window:
\* every request is served in one window, which shows the first of its files,
\* has each of them once and loses nothing, and a session is restored as seen.
THEOREM WhatIsAskedForIsShown == O!Spec => WhatWasAskedForIsShown
  <1>1. O!Init => OpenInv BY InitOpening
  <1>2. OpenInv /\ [O!Next]_(O!vars) => OpenInv' BY NextOpening
  <1>3. OpenInv => O!RequestIsServed BY RequestsOpening
  <1>4. OpenInv => O!SessionIsRestored BY SessionOpening
  <1> QED BY <1>1, <1>2, <1>3, <1>4, PTL DEF O!Spec, WhatWasAskedForIsShown, O!WhatWasAskedForIsShown
=============================================================================
