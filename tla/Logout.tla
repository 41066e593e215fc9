------------------------------- MODULE Logout -------------------------------
(* Logging out: lapiz-session.c asks about the unsaved documents of one      *)
(* window after the other and answers the session manager through SmClient.  *)
(* Edits, saves of the user's own and messages of the manager come at any    *)
(* moment; a dialog is modal to its own window only.                         *)
(*                                                                           *)
(* The session manager is external: it follows the protocol, cancels a       *)
(* shutdown whenever it likes, and may crash.                                *)
EXTENDS SmClient, Naturals, FiniteSets, SequencesExt

CONSTANTS
    Windows,   \* the windows, in the order of lapiz_app_get_windows
    WindowOf,  \* the window of each document
    NoWindow,
    MaxSaves,  \* bound: how often the manager sends SaveYourself
    MaxEdits,  \* bound: how often the user edits or saves while logging out
    Crashes    \* may the connection to the session manager break

Docs == DOMAIN WindowOf
AllWindows == Range(Windows)

ASSUME WindowsAssumption ==
    /\ Windows \in Seq(AllWindows) /\ NoWindow \notin AllWindows
    /\ WindowOf \in [Docs -> AllWindows] /\ MaxSaves \in Nat

VARIABLES
    client,    \* the EggSMClientXSMP
    manager,   \* external: its phase, its current SaveYourself and how many are left
    inbox,     \* messages of the manager on their way to the client
    dirtyList, \* window_dirty_list
    dialog,    \* the confirmation dialog: its window and documents
    toSave,    \* LAPIZ_SESSION_LIST_OF_DOCS_TO_SAVE of each window
    watched,   \* the windows window_state_change is connected to
    modified,  \* the modified documents
    saving,    \* the documents being saved
    edits,     \* how many edits and saves of the user's are left
    asked,     \* history: quit_requested was emitted in this shutdown, and not called off
    covered,   \* history: documents the user decided on, or edited, since then
    mishap     \* history: the request was dropped half way

appVars == <<dirtyList, dialog, toSave, watched>>
docVars == <<modified, saving, edits>>
history == <<asked, covered, mishap>>
vars == <<client, manager, inbox, appVars, docVars, history>>

NoDialog == [window |-> NoWindow, docs |-> {}]
Running  == ~client.quit

\* lapiz_window_get_unsaved_documents
UnsavedAmong(docs, w) == {d \in docs : WindowOf[d] = w}
Unsaved(w) == UnsavedAmong(modified, w)

IsSaving(w, busy) == \E d \in busy : WindowOf[d] = w

InitWith(c) ==
    /\ client = c
    /\ manager = [phase |-> "idle", shutdown |-> FALSE, cancelled |-> FALSE, left |-> MaxSaves]
    /\ inbox = <<>>
    /\ dirtyList = <<>> /\ dialog = NoDialog
    /\ toSave = [w \in AllWindows |-> {}] /\ watched = {}
    /\ modified = {} /\ saving = {} /\ edits = MaxEdits
    /\ asked = FALSE /\ covered = {} /\ mishap = FALSE
Init == \E resumed \in BOOLEAN : InitWith(NewClient(resumed))

-----------------------------------------------------------------------------
(***************************************************************************)
(* The application.                                                        *)
(***************************************************************************)

\* ask_next_confirmation and show_confirmation_dialog: a window that has nothing
\* to save any more fails an assertion.
AskNextConfirmation(list) ==
    /\ dirtyList' = list
    /\ LET unsaved == UnsavedAmong(modified', Head(list))
       IN IF unsaved = {}
          THEN dialog' = NoDialog /\ mishap' = TRUE
          ELSE dialog' = [window |-> Head(list), docs |-> unsaved] /\ UNCHANGED mishap

\* Mutant: the next window waits for a dialog of its own that nobody opens.
WindowHandled_DoesNotAsk(w) ==
    LET list == RemoveFirst(dirtyList, w)
    IN /\ dirtyList' = list /\ dialog' = NoDialog
       /\ client' = IF list = <<>> THEN WillQuit(client, TRUE) ELSE client
       /\ UNCHANGED mishap

\* window_handled
WindowHandled(w) ==
    LET list == RemoveFirst(dirtyList, w)
    IN IF list = <<>>
       THEN /\ dirtyList' = list /\ dialog' = NoDialog
            /\ client' = WillQuit(client, TRUE)
            /\ UNCHANGED mishap
       ELSE AskNextConfirmation(list) /\ UNCHANGED client

\* Mutant: a save that failed counts as done.
IsDone_WhenNotSaving(w, left) == TRUE

\* Is nothing left of what the user wanted saved?
IsDone(w, left) == toSave[w] \intersect left = {}

\* window_state_change, when a save of the window has ended
WindowStateChange(w) ==
    IF w \in watched /\ ~IsSaving(w, saving') /\ IsDone(w, modified')
    THEN /\ watched' = watched \ {w}
         /\ toSave' = [toSave EXCEPT ![w] = {}]
         /\ WindowHandled(w)
    ELSE UNCHANGED <<watched, toSave, dirtyList, dialog, client, mishap>>

\* The windows with unsaved documents, each one prepended to the list.
DirtyWindows ==
    LET list[k \in 0..Len(Windows)] ==
            IF k = 0 THEN <<>>
            ELSE IF Unsaved(Windows[k]) = {} THEN list[k - 1]
            ELSE <<Windows[k]>> \o list[k - 1]
    IN list[Len(Windows)]

\* client_quit_requested_cb, in the step of Interact that gave client c
QuitRequested(c) ==
    /\ asked' = TRUE /\ covered' = {} /\ mishap' = FALSE
    /\ dirtyList' = DirtyWindows
    /\ IF DirtyWindows = <<>>
       THEN client' = WillQuit(c, TRUE) /\ dialog' = NoDialog
       ELSE /\ client' = c
            /\ dialog' = [window |-> Head(DirtyWindows), docs |-> Unsaved(Head(DirtyWindows))]

\* "Save": starts the saves the tabs accept; a Save As dialog may be cancelled.
\* With no document selected, nothing happens until the window's state changes.
AnswerSave(selected, started) ==
    LET w == dialog.window
    IN /\ Running /\ w # NoWindow
       /\ selected \subseteq dialog.docs /\ started \subseteq selected \ saving
       /\ Cardinality(dialog.docs) = 1 => selected = dialog.docs
       /\ watched' = watched \union {w}
       /\ toSave' = [toSave EXCEPT ![w] = selected]
       /\ saving' = saving \union started
       /\ dialog' = NoDialog
       /\ covered' = covered \union (dialog.docs \ selected)
       /\ mishap' = (mishap \/ selected = {} \/ ~(selected \subseteq saving'))
       /\ UNCHANGED <<client, manager, inbox, dirtyList, modified, edits, asked>>

\* "Close without Saving"
AnswerDiscard ==
    /\ Running /\ dialog # NoDialog
    /\ covered' = covered \union dialog.docs
    /\ UNCHANGED docVars
    /\ WindowHandled(dialog.window)
    /\ UNCHANGED <<manager, inbox, toSave, watched, asked>>

\* "Cancel": disconnects from the dialog's window only, whatever the list holds
AnswerCancel ==
    /\ Running /\ dialog # NoDialog
    /\ watched' = watched \ {dialog.window}
    /\ dirtyList' = <<>> /\ dialog' = NoDialog
    /\ client' = WillQuit(client, FALSE)
    /\ asked' = FALSE
    /\ UNCHANGED <<manager, inbox, toSave, docVars, covered, mishap>>

\* The user edits a document or saves it; the FIXME in the code says that the
\* window should be locked.
Edit(d) ==
    /\ Running /\ edits > 0 /\ dialog.window # WindowOf[d] /\ d \notin saving
    /\ edits' = edits - 1
    /\ modified' = modified \union {d} /\ covered' = covered \union {d}
    /\ mishap' = (mishap \/ d \in toSave[WindowOf[d]])
    /\ UNCHANGED <<client, manager, inbox, appVars, saving, asked>>

Save(d) ==
    /\ Running /\ edits > 0 /\ dialog.window # WindowOf[d]
    /\ d \in modified \ saving
    /\ edits' = edits - 1
    /\ saving' = saving \union {d}
    /\ UNCHANGED <<client, manager, inbox, appVars, modified, history>>

SaveEnds(d) ==
    /\ Running /\ d \in saving
    /\ saving' = saving \ {d} /\ modified' = modified \ {d}
    /\ WindowStateChange(WindowOf[d])
    /\ UNCHANGED <<manager, inbox, edits, asked, covered>>

SaveFails(d) ==
    /\ Running /\ d \in saving
    /\ saving' = saving \ {d} /\ UNCHANGED modified
    /\ IF d \in toSave[WindowOf[d]] /\ ~IsDone(WindowOf[d], modified)
       THEN mishap' = TRUE /\ UNCHANGED <<watched, toSave, dirtyList, dialog, client>>
       ELSE WindowStateChange(WindowOf[d])
    /\ UNCHANGED <<manager, inbox, edits, asked, covered>>

-----------------------------------------------------------------------------
(***************************************************************************)
(* The client: a message of the manager, its idle, a broken connection.    *)
(***************************************************************************)

Receive ==
    /\ Running /\ client.connected /\ inbox # <<>>
    /\ inbox' = Tail(inbox)
    /\ LET m == Head(inbox)
       IN IF m.kind = "Interact" /\ Interact(client).state = "INTERACT"
          THEN QuitRequested(Interact(client))
          ELSE /\ client' = CASE m.kind = "SaveYourself" -> SaveYourself(client, m.shutdown, m.interact)
                              [] m.kind = "Interact" -> Interact(client)
                              [] m.kind = "ShutdownCancelled" -> ShutdownCancelled(client)
                              [] m.kind = "SaveComplete" -> SaveComplete(client)
                              [] m.kind = "Die" -> Die(client)
               /\ asked' = (asked /\ m.kind # "SaveYourself")
               /\ UNCHANGED <<dirtyList, dialog, covered, mishap>>
    /\ UNCHANGED <<manager, toSave, watched, docVars>>

Idle ==
    /\ Running /\ client.idle
    /\ client' = DoPendingEvents(client)
    /\ UNCHANGED <<manager, inbox, appVars, docVars, history>>

\* process_ice_messages, on an error
ConnectionBreaks ==
    /\ Crashes /\ Running /\ client.connected
    /\ client' = Disconnect(client)
    /\ manager' = [manager EXCEPT !.phase = "gone"]
    /\ inbox' = <<>>
    /\ UNCHANGED <<appVars, docVars, history>>

-----------------------------------------------------------------------------
(***************************************************************************)
(* The session manager.                                                    *)
(***************************************************************************)

Message(kind) == [kind |-> kind, shutdown |-> FALSE, interact |-> FALSE]
Phase(phase) == manager' = [manager EXCEPT !.phase = phase]
ManagerOnly == UNCHANGED <<appVars, docVars, history>>

\* The first SaveYourself of a new client is neither a shutdown nor interactive.
ManagerSaves(shutdown, interact) ==
    /\ manager.phase = "idle" /\ manager.left > 0
    /\ client.expecting /\ manager.left = MaxSaves => ~shutdown /\ ~interact
    /\ inbox' = Append(inbox, [kind |-> "SaveYourself", shutdown |-> shutdown,
                               interact |-> interact])
    /\ manager' = [phase |-> "saving", shutdown |-> shutdown, cancelled |-> FALSE,
                   left |-> manager.left - 1]
    /\ UNCHANGED client /\ ManagerOnly

ManagerCancels ==
    /\ manager.phase \in {"saving", "interacting", "done"}
    /\ manager.shutdown /\ ~manager.cancelled
    /\ inbox' = Append(inbox, Message("ShutdownCancelled"))
    /\ manager' = [manager EXCEPT !.cancelled = TRUE,
                                  !.phase = IF @ = "done" THEN "idle" ELSE @]
    /\ UNCHANGED client /\ ManagerOnly

ManagerKills ==
    /\ manager.phase = "done"
    /\ inbox' = Append(inbox, Message("Die"))
    /\ Phase("gone")
    /\ UNCHANGED client /\ ManagerOnly

\* What the manager makes of the client's next message.
ManagerReceives ==
    /\ manager.phase # "gone" /\ client.out # <<>>
    /\ client' = [client EXCEPT !.out = Tail(@)]
    /\ LET m == Head(client.out)
       IN \/ /\ m = "InteractRequest" /\ ~manager.cancelled
             /\ inbox' = Append(inbox, Message("Interact")) /\ Phase("interacting")
          \/ /\ m = "InteractRequest" /\ manager.cancelled
             /\ UNCHANGED <<inbox, manager>>
          \/ m = "InteractDone" /\ UNCHANGED <<inbox, manager>>
          \/ /\ m = "InteractCancel" /\ manager.cancelled
             /\ UNCHANGED <<inbox, manager>>
          \/ /\ m = "InteractCancel" /\ ~manager.cancelled
             /\ inbox' = Append(inbox, Message("ShutdownCancelled"))
             /\ manager' = [manager EXCEPT !.cancelled = TRUE]
          \/ /\ m = "SaveYourselfDone" /\ manager.cancelled
             /\ Phase("idle") /\ UNCHANGED inbox
          \/ /\ m = "SaveYourselfDone" /\ ~manager.cancelled /\ manager.shutdown
             /\ Phase("done") /\ UNCHANGED inbox
          \/ /\ m = "SaveYourselfDone" /\ ~manager.cancelled /\ ~manager.shutdown
             /\ Phase("idle") /\ inbox' = Append(inbox, Message("SaveComplete"))
    /\ ManagerOnly

-----------------------------------------------------------------------------

Next ==
    \/ \E selected, started \in SUBSET dialog.docs : AnswerSave(selected, started)
    \/ AnswerDiscard \/ AnswerCancel
    \/ \E d \in Docs : Edit(d) \/ Save(d) \/ SaveEnds(d) \/ SaveFails(d)
    \/ Receive \/ Idle \/ ConnectionBreaks
    \/ \E shutdown, interact \in BOOLEAN : ManagerSaves(shutdown, interact)
    \/ ManagerCancels \/ ManagerKills \/ ManagerReceives

Spec == Init /\ [][Next]_vars

\* The main loop delivers messages and runs idles, GIO ends the saves, and the
\* user answers a dialog.
Fairness ==
    /\ WF_vars(Receive) /\ WF_vars(Idle) /\ WF_vars(ManagerReceives)
    /\ \A d \in Docs : WF_vars(SaveEnds(d) \/ SaveFails(d))
    /\ WF_vars(AnswerDiscard \/ AnswerCancel
               \/ \E selected, started \in SUBSET dialog.docs : AnswerSave(selected, started))

FairSpec == Spec /\ Fairness

-----------------------------------------------------------------------------

\* The variables have their types, and a dialog is about documents of its window.
TypeOK ==
    /\ client.state \in ClientStates
    /\ manager.phase \in {"idle", "saving", "interacting", "done", "gone"}
    /\ Range(dirtyList) \subseteq AllWindows /\ watched \subseteq AllWindows
    /\ \A w \in AllWindows : toSave[w] \subseteq {d \in Docs : WindowOf[d] = w}
    /\ \A d \in dialog.docs : WindowOf[d] = dialog.window
    /\ modified \union saving \union covered \subseteq Docs

Count(s, Test(_)) == Cardinality({i \in DOMAIN s : Test(s[i])})

\* A SaveYourself is never answered twice, and it is answered once unless it is
\* cancelled: what the manager waits for is on its way to the client, at the
\* client, or on its way back.  (A SaveYourself that comes while the client still
\* has a cancelled one to tell the application about, and is cancelled too, gets
\* no answer at all.)
AnsweredOnce ==
    LET awaited == IF manager.phase \in {"saving", "interacting"} THEN 1 ELSE 0
        coming  == Count(inbox, LAMBDA m : m.kind = "SaveYourself")
                   + (IF client.state \in {"INTERACT_REQUEST", "INTERACT"} \/ client.saveMyself
                      THEN 1 ELSE 0)
                   + Count(client.out, LAMBDA m : m = "SaveYourselfDone")
    IN manager.phase # "gone" =>
           coming <= awaited /\ (~manager.cancelled => coming = awaited)

\* With a manager that keeps to the protocol the client is never surprised, and
\* the application answers only when it has been asked (sm_client_xsmp_will_quit
\* asserts it).
NeverAstray == ~client.astray

\* When lapiz quits after it was asked, what is lost are documents the user gave
\* up, or changed after the question.
NothingIsLost ==
    client.quit /\ asked => modified \subseteq covered

\* A quit request is answered in the end, unless a save fails or is called off,
\* nothing is selected to be saved, a document is edited again after it was
\* saved, or a window turns out to be clean when its turn comes.
QuitRequestEnds == client.state = "INTERACT" ~> (client.state # "INTERACT" \/ mishap)

\* The client and the application answer what they were asked, once, and
\* nothing else.
ProtocolIsKept == TypeOK /\ AnsweredOnce /\ NeverAstray
=============================================================================
