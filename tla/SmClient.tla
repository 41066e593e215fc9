------------------------------ MODULE SmClient ------------------------------
(* EggSMClientXSMP (smclient/eggsmclient-xsmp.c): the client's half of the   *)
(* X session management protocol, as functions of the client's record.  Its  *)
(* field out holds the messages sent to the session manager, quit says that  *)
(* the quit signal was emitted, and astray that a message or a call of the   *)
(* application came in a state that does not expect it.  The application is  *)
(* the caller: it listens to quit_requested.                                 *)
EXTENDS Sequences

ClientStates == {"IDLE", "INTERACT_REQUEST", "INTERACT", "SAVE_YOURSELF_DONE",
                 "SHUTDOWN_CANCELLED", "CONNECTION_CLOSED"}

\* After sm_client_xsmp_startup; a resumed client expects no first SaveYourself.
NewClient(resumed) ==
    [state |-> "IDLE", connected |-> TRUE, expecting |-> ~resumed,
     needQuitRequested |-> FALSE,
     initialProperties |-> TRUE, emitQuit |-> FALSE, emitCancelled |-> FALSE,
     saveMyself |-> FALSE, idle |-> TRUE,
     out |-> <<>>, quit |-> FALSE, astray |-> FALSE]

Send(c, messages) == [c EXCEPT !.out = @ \o messages]

\* update_pending_events
UpdatePendingEvents(c) ==
    [c EXCEPT !.idle = c.emitQuit \/ c.emitCancelled \/ c.saveMyself]

\* sm_client_xsmp_set_initial_properties
SetInitialProperties(c) == UpdatePendingEvents([c EXCEPT !.initialProperties = FALSE])

\* sm_client_xsmp_disconnect
Disconnect(c) ==
    IF ~c.connected THEN c
    ELSE UpdatePendingEvents([c EXCEPT !.connected = FALSE, !.state = "CONNECTION_CLOSED",
                                       !.saveMyself = FALSE, !.out = <<>>])

\* fix_broken_state
FixBrokenState(c, interactDone, saveYourselfDone) ==
    LET forgetful == UpdatePendingEvents([c EXCEPT !.saveMyself = FALSE, !.astray = TRUE])
        sent      == (IF interactDone THEN <<"InteractDone">> ELSE <<>>)
                     \o (IF saveYourselfDone THEN <<"SaveYourselfDone">> ELSE <<>>)
    IN [Send(forgetful, sent) EXCEPT
           !.state = IF saveYourselfDone THEN "SAVE_YOURSELF_DONE" ELSE "IDLE"]

\* do_save_yourself; saving the session's state ends before anything else runs
DoSaveYourself(c) ==
    IF c.state = "SHUTDOWN_CANCELLED"
    THEN UpdatePendingEvents([c EXCEPT !.saveMyself = TRUE])
    ELSE IF c.needQuitRequested
    THEN Send([c EXCEPT !.state = "INTERACT_REQUEST"], <<"InteractRequest">>)
    ELSE Send([c EXCEPT !.state = "SAVE_YOURSELF_DONE"], <<"SaveYourselfDone">>)

\* xsmp_save_yourself: the first one is ignored when it is the expected one.
SaveYourself(c, shutdown, interact) ==
    LET ready   == IF c.initialProperties THEN SetInitialProperties(c) ELSE c
        started == [ready EXCEPT !.expecting = FALSE]
    IN IF c.state \notin {"IDLE", "SHUTDOWN_CANCELLED"}
       THEN FixBrokenState(c, FALSE, TRUE)
       ELSE IF ready.expecting /\ ~shutdown /\ ~interact
       THEN Send([started EXCEPT !.state = "SAVE_YOURSELF_DONE"], <<"SaveYourselfDone">>)
       ELSE DoSaveYourself([started EXCEPT !.needQuitRequested = shutdown /\ interact])

\* xsmp_interact, up to the signal
Interact(c) ==
    IF c.state # "INTERACT_REQUEST"
    THEN FixBrokenState(c, TRUE, TRUE)
    ELSE [c EXCEPT !.state = "INTERACT"]

\* Mutant: a SaveYourself that was answered is answered again when it is cancelled.
ShutdownCancelled_AlwaysAnswers(c) ==
    Send([c EXCEPT !.state = IF c.state = "INTERACT" THEN "SHUTDOWN_CANCELLED" ELSE "IDLE"],
         <<"SaveYourselfDone">>)

\* xsmp_shutdown_cancelled; nobody in lapiz listens to quit_cancelled
ShutdownCancelled(c) ==
    CASE c.state = "SAVE_YOURSELF_DONE" -> [c EXCEPT !.state = "IDLE"]
      [] c.state = "SHUTDOWN_CANCELLED" -> UpdatePendingEvents([c EXCEPT !.saveMyself = FALSE])
      [] OTHER -> Send([c EXCEPT !.state = IF c.state = "INTERACT" THEN "SHUTDOWN_CANCELLED"
                                                                  ELSE "IDLE"],
                       <<"SaveYourselfDone">>)

\* xsmp_save_complete
SaveComplete(c) ==
    IF c.state = "SAVE_YOURSELF_DONE" THEN [c EXCEPT !.state = "IDLE"]
                                      ELSE FixBrokenState(c, FALSE, FALSE)

\* xsmp_die
Die(c) == [Disconnect(c) EXCEPT !.quit = TRUE]

\* sm_client_xsmp_will_quit
WillQuit(c, yes) ==
    CASE c.state = "CONNECTION_CLOSED"  -> UpdatePendingEvents([c EXCEPT !.emitQuit = TRUE])
      [] c.state = "SHUTDOWN_CANCELLED" -> UpdatePendingEvents([c EXCEPT !.emitCancelled = TRUE])
      [] c.state = "INTERACT" ->
            Send([c EXCEPT !.state = "SAVE_YOURSELF_DONE"],
                 <<IF yes THEN "InteractDone" ELSE "InteractCancel", "SaveYourselfDone">>)
      [] OTHER -> [c EXCEPT !.astray = TRUE]

\* idle_do_pending_events, or the idle that sets the initial properties
DoPendingEvents(c) ==
    LET rest == [c EXCEPT !.idle = FALSE]
        told == IF c.emitCancelled
                THEN [rest EXCEPT !.emitCancelled = FALSE, !.state = "IDLE"] ELSE rest
    IN IF c.initialProperties THEN SetInitialProperties(c)
       ELSE IF c.emitQuit THEN [rest EXCEPT !.emitQuit = FALSE, !.quit = TRUE]
       ELSE IF c.saveMyself THEN DoSaveYourself([told EXCEPT !.saveMyself = FALSE])
       ELSE told
=============================================================================
