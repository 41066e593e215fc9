---------------------------- MODULE WindowClosing ----------------------------
(* The tabs of one LapizWindow as lapiz-commands-file.c sees them when it    *)
(* closes and saves several at once: Close, Close All, Quit, Save, Save All, *)
(* the close confirmation dialog, the queue of Save As dialogs, the watchers *)
(* of save-and-close and the idles that close the saved tabs.                *)
(*                                                                           *)
(* A tab is reduced to what those commands read (LapizTab has the rest): a   *)
(* document that is untitled or read-only has to be saved under a new name.  *)
(* A failed g_return_if_fail leaves the rest of its handler out.  Both       *)
(* dialogs are modal, but an autosave and the end of a save are not stopped  *)
(* by them.                                                                  *)
EXTENDS Naturals, Sequences, SequencesExt

CONSTANTS
    Opened,   \* the tabs of the window in page order, opened before the story begins
    Unnamed,  \* those whose documents are untitled or read-only
    Autosave  \* is autosave on

Tabs == Range(Opened)

ASSUME TabAssumption ==
    /\ Opened \in Seq(Range(Opened)) /\ IsInjective(Opened)
    /\ Unnamed \subseteq Range(Opened)
    /\ Autosave \in BOOLEAN

VARIABLES
    open,       \* the notebook's tabs
    state,      \* lapiz_tab_get_state
    modified,   \* ctk_text_buffer_get_modified
    unnamed,    \* the tabs that are untitled or read-only
    watched,    \* the tabs tab_state_changed_while_saving is connected to
    flagged,    \* the tabs with LAPIZ_IS_CLOSING_TAB
    idles,      \* the tabs a really_close_tab idle is pending for
    dialog,     \* the modal dialog and the documents it is about; the kind of a
                \* confirmation is what LAPIZ_IS_CLOSING_ALL says until it is answered
    queue,      \* LAPIZ_LIST_OF_TABS_TO_SAVE_AS
    quitting,   \* LAPIZ_IS_QUITTING
    destroyed,  \* is the window destroyed
    consent,    \* history: the tabs whose changes the user agrees to lose in this step
    mishap      \* history: something went wrong since Quit

tabVars    == <<state, modified, unnamed>>
helperVars == <<watched, flagged, idles>>
vars == <<open, tabVars, helperVars, dialog, queue, quitting, destroyed, consent, mishap>>

\* No question is answered in this step.
Silent == consent' = {}

States == {"NORMAL", "LOADING", "SAVING", "SAVING_ERROR", "CLOSING"}
\* A set of tabs in page order, in which the code goes through them.
InPageOrder(tabs) ==
    LET list[k \in 0..Len(Opened)] ==
            IF k = 0 THEN <<>>
            ELSE IF Opened[k] \in tabs THEN Append(list[k - 1], Opened[k]) ELSE list[k - 1]
    IN list[Len(Opened)]
NoDialog == [kind |-> "none", docs |-> {}]

Init ==
    /\ open = Tabs
    /\ state \in [Tabs -> {"NORMAL", "LOADING"}]
    /\ modified = [t \in Tabs |-> FALSE]
    /\ unnamed = Unnamed
    /\ \A t \in Unnamed : state[t] = "NORMAL"
    /\ watched = {} /\ flagged = {} /\ idles = {}
    /\ dialog = NoDialog /\ queue = <<>>
    /\ quitting = FALSE /\ destroyed = FALSE
    /\ consent = {} /\ mishap = FALSE

UserActs == ~destroyed /\ dialog = NoDialog
WindowIsSaving == \E t \in open : state[t] = "SAVING"

\* document_needs_saving, for a file that is still there
NeedsSaving(t) == modified[t]

\* _lapiz_tab_can_close, with confirmations on
CanClose(t) == state[t] = "LOADING" \/ ~modified[t]

\* lapiz_window_get_unsaved_documents
Unsaved == {t \in open : ~CanClose(t)}

(***************************************************************************)
(* Tabs: edits, the ends of loads and saves, error bars, autosave.         *)
(***************************************************************************)

\* The user types.
Edit(t) ==
    /\ UserActs /\ t \in open /\ state[t] = "NORMAL"
    /\ modified' = [modified EXCEPT ![t] = TRUE]
    /\ Silent
    /\ UNCHANGED <<open, state, unnamed, helperVars, dialog, queue, quitting, destroyed, mishap>>

\* do_revert, after its own dialog: the text goes by the user's wish.
Revert(t) ==
    /\ UserActs /\ t \in open /\ state[t] = "NORMAL" /\ t \notin unnamed
    /\ state' = [state EXCEPT ![t] = "LOADING"]
    /\ modified' = [modified EXCEPT ![t] = FALSE]
    /\ UNCHANGED <<open, unnamed, helperVars, dialog, queue, quitting, destroyed, mishap>>
    /\ Silent

\* _lapiz_tab_save and _lapiz_tab_save_as on a set of tabs: a tab that is
\* neither normal nor showing a notification refuses.
StartSaving(saved) ==
    state' = [t \in Tabs |-> IF t \in saved /\ state[t] = "NORMAL" THEN "SAVING" ELSE state[t]]

\* Mutant: the tab is closed although its save failed.
BecomesNormal_Closes(t, mod) ==
    /\ watched' = watched \ {t}
    /\ IF t \in watched
       THEN state' = [state EXCEPT ![t] = "CLOSING"] /\ idles' = idles \union {t}
       ELSE state' = [state EXCEPT ![t] = "NORMAL"] /\ UNCHANGED idles

\* tab_state_changed_while_saving, when the state becomes NORMAL: the first
\* time, and if nothing is left to save, the tab is marked and closed later.
BecomesNormal(t, mod) ==
    /\ watched' = watched \ {t}
    /\ IF t \in watched /\ ~mod
       THEN state' = [state EXCEPT ![t] = "CLOSING"] /\ idles' = idles \union {t}
       ELSE state' = [state EXCEPT ![t] = "NORMAL"] /\ UNCHANGED idles

\* document_loaded
Loaded(t) ==
    /\ ~destroyed /\ t \in open /\ state[t] = "LOADING"
    /\ BecomesNormal(t, modified[t])
    /\ UNCHANGED <<open, modified, unnamed, flagged, dialog, queue, quitting, destroyed, mishap>>
    /\ Silent

\* document_saved, without an error
Saved(t) ==
    /\ ~destroyed /\ t \in open /\ state[t] = "SAVING"
    /\ modified' = [modified EXCEPT ![t] = FALSE]
    /\ unnamed' = unnamed \ {t}
    /\ BecomesNormal(t, FALSE)
    /\ UNCHANGED <<open, flagged, dialog, queue, quitting, destroyed, mishap>>
    /\ Silent

\* document_saved, with an error: a bar asks what to do
SaveFails(t) ==
    /\ ~destroyed /\ t \in open /\ state[t] = "SAVING"
    /\ state' = [state EXCEPT ![t] = "SAVING_ERROR"]
    /\ mishap' = quitting
    /\ UNCHANGED <<open, modified, unnamed, helperVars, dialog, queue, quitting, destroyed>>
    /\ Silent

\* unrecoverable_saving_error_message_area_response and the like
ErrorAnswered(t) ==
    /\ UserActs /\ t \in open /\ state[t] = "SAVING_ERROR"
    /\ \/ BecomesNormal(t, modified[t])
       \/ state' = [state EXCEPT ![t] = "SAVING"] /\ UNCHANGED <<watched, idles>>
    /\ UNCHANGED <<open, modified, unnamed, flagged, dialog, queue, quitting, destroyed, mishap>>
    /\ Silent

\* lapiz_tab_auto_save: the timeout does not look at dialogs
AutoSave(t) ==
    /\ Autosave /\ ~destroyed
    /\ t \in open /\ t \notin unnamed /\ modified[t] /\ state[t] = "NORMAL"
    /\ StartSaving({t})
    /\ UNCHANGED <<open, modified, unnamed, helperVars, dialog, queue, quitting, destroyed, mishap>>
    /\ Silent

(***************************************************************************)
(* Saving: one document, or all of them.                                   *)
(***************************************************************************)

AskName(t) == dialog' = [kind |-> "save_as", docs |-> {t}]

\* file_save and file_save_as
FileSave(t) ==
    /\ UserActs /\ t \in open /\ state[t] \in {"NORMAL", "SAVING_ERROR"}
    /\ \/ t \notin unnamed /\ state[t] = "NORMAL" /\ StartSaving({t}) /\ UNCHANGED dialog
       \/ AskName(t) /\ UNCHANGED state
    /\ UNCHANGED <<open, modified, unnamed, helperVars, queue, quitting, destroyed, mishap>>
    /\ Silent

\* The tabs before the first one that fails an assertion of the loop.
Before(bad) ==
    {Opened[i] : i \in {j \in DOMAIN Opened : /\ Opened[j] \in open
                                               /\ \A k \in 1..j : Opened[k] \notin bad}}

\* _lapiz_cmd_file_save_documents_list, for all documents.  A tab that is
\* closing ends it, and what it collected for Save As is forgotten.
SaveAll ==
    /\ UserActs
    /\ LET closing == {t \in open : state[t] = "CLOSING"}
           reached == Before(closing)
           toName  == InPageOrder({t \in reached \intersect unnamed :
                                    state[t] = "NORMAL" /\ NeedsSaving(t)})
       IN /\ StartSaving(reached \ unnamed)
          /\ IF closing = {} /\ toName # <<>> /\ queue = <<>>
             THEN queue' = toName /\ AskName(Head(toName))
             ELSE UNCHANGED <<queue, dialog>>
    /\ UNCHANGED <<open, modified, unnamed, helperVars, quitting, destroyed, mishap>>
    /\ Silent

\* Mutant: the queue goes on with the tab it has just asked about.
NextInQueue_NoTail ==
    IF queue = <<>>
    THEN dialog' = NoDialog /\ UNCHANGED <<queue, flagged, watched>>
    ELSE /\ queue' = Tail(queue)
         /\ AskName(Head(queue))
         /\ UNCHANGED <<flagged, watched>>

\* save_next_tab: the rest of save_dialog_response_cb
NextInQueue ==
    IF queue = <<>> \/ dialog.docs # {Head(queue)}
    THEN dialog' = NoDialog /\ UNCHANGED <<queue, flagged, watched>>
    ELSE /\ queue' = Tail(queue)
         /\ IF Tail(queue) = <<>>
            THEN dialog' = NoDialog /\ UNCHANGED <<flagged, watched>>
            ELSE LET next == Head(Tail(queue))
                 IN /\ AskName(next)
                    /\ flagged' = flagged \ {next}
                    /\ watched' = watched \union (flagged \intersect {next})

\* save_dialog_response_cb
SaveAsAnswered ==
    /\ ~destroyed /\ dialog.kind = "save_as"
    /\ \/ StartSaving(dialog.docs) /\ UNCHANGED mishap
       \/ UNCHANGED state /\ mishap' = quitting
    /\ NextInQueue
    /\ UNCHANGED <<open, modified, unnamed, idles, quitting, destroyed>>
    /\ Silent

(***************************************************************************)
(* Closing.                                                                *)
(***************************************************************************)

\* lapiz_notebook_remove_tab
RemovePages(gone) ==
    /\ open' = open \ gone
    /\ watched' = watched \ gone
    /\ flagged' = flagged \ gone

Confirmations == {"confirm", "confirm_all"}
Confirm(kind, docs) == dialog' = [kind |-> kind, docs |-> docs]

\* _lapiz_cmd_file_close_tab, from the menu or the tab's button
CloseTab(t) ==
    /\ UserActs /\ t \in open
    /\ state[t] \notin {"CLOSING", "SAVING", "SAVING_ERROR"}
    /\ quitting' = FALSE /\ mishap' = FALSE
    /\ IF CanClose(t)
       THEN RemovePages({t}) /\ UNCHANGED dialog
       ELSE Confirm("confirm", {t}) /\ UNCHANGED <<open, watched, flagged>>
    /\ UNCHANGED <<tabVars, idles, queue, destroyed>>
    /\ Silent

\* lapiz_window_close_all_tabs, and the end of a window that quits
CloseAllTabs(quit) ==
    /\ IF WindowIsSaving
       THEN UNCHANGED <<open, watched, flagged>>
       ELSE RemovePages(open)
    /\ destroyed' = quit

\* file_close_all
FileCloseAll(quit) ==
    /\ UserActs /\ ~WindowIsSaving
    /\ quitting' = quit
    /\ mishap' = FALSE
    /\ IF Unsaved = {}
       THEN CloseAllTabs(quit) /\ UNCHANGED dialog
       ELSE Confirm("confirm_all", Unsaved) /\ UNCHANGED <<open, watched, flagged, destroyed>>
    /\ UNCHANGED <<tabVars, idles, queue>>
    /\ Silent

\* Mutant: a tab in an error state is closed like the rest.
ToClose_Errors(selected) == {t \in open : t \in selected => state[t] # "NORMAL"}

\* The documents to save are those whose tab can start a save.
Savable(selected) == {t \in selected : state[t] = "NORMAL"}

\* The tabs that go at once.  One with a failed save stays.
ToClose(selected) == {t \in open \ Savable(selected) : state[t] # "SAVING_ERROR"}

\* The tabs whose state fails an assertion of save_and_close_all_documents.
Unfit(selected) ==
    {t \in open : \/ state[t] \in {"SAVING", "CLOSING"}
                  \/ t \in selected /\ state[t] = "NORMAL" /\ ~NeedsSaving(t)}

\* save_and_close_all_documents: when one tab is unfit, all that is left of the
\* attempt are the flags of the tabs before it.
SaveAndCloseAll(selected) ==
    LET fit    == Savable(selected)
        toName == InPageOrder(fit \intersect unnamed)
    IN IF Unfit(selected) # {}
       THEN /\ flagged' = flagged \union
                          (Before(Unfit(selected)) \intersect fit \intersect unnamed)
            /\ mishap' = quitting
            /\ dialog' = NoDialog
            /\ UNCHANGED <<open, state, watched, queue>>
       ELSE /\ open' = open \ ToClose(selected)
            /\ StartSaving(fit \ unnamed)
            /\ mishap' = (quitting /\ \E t \in open : state[t] = "SAVING_ERROR")
            /\ IF toName # <<>> /\ queue = <<>>
               THEN /\ queue' = toName
                    /\ AskName(Head(toName))
                    /\ watched' = (watched \ ToClose(selected)) \union (fit \ unnamed)
                                     \union {Head(toName)}
                    /\ flagged' = (flagged \ ToClose(selected)) \union Range(Tail(toName))
               ELSE /\ dialog' = NoDialog
                    /\ watched' = (watched \ ToClose(selected)) \union (fit \ unnamed)
                    /\ flagged' = (flagged \ ToClose(selected)) \union Range(toName)
                    /\ UNCHANGED queue

\* save_and_close
SaveAndClose(t) ==
    /\ watched' = watched \union {t}
    /\ IF t \in unnamed
       THEN AskName(t) /\ UNCHANGED state
       ELSE dialog' = NoDialog /\ StartSaving({t})
    /\ UNCHANGED <<open, flagged, queue, mishap>>

\* close_confirmation_dialog_response_handler, "Save" with some documents selected
AnswerSave(selected) ==
    /\ ~destroyed /\ dialog.kind \in Confirmations
    /\ selected # {} /\ selected \subseteq dialog.docs
    /\ Cardinality(dialog.docs) = 1 => selected = dialog.docs
    /\ consent' = dialog.docs \ selected
    /\ IF dialog.kind = "confirm_all"
       THEN SaveAndCloseAll(selected)
       ELSE \E t \in selected : SaveAndClose(t)
    /\ UNCHANGED <<modified, unnamed, idles, quitting, destroyed>>

\* "Close without Saving", and "Save" with no document selected
AnswerDiscard ==
    /\ ~destroyed /\ dialog.kind \in Confirmations
    /\ consent' = dialog.docs
    /\ dialog' = NoDialog
    /\ IF dialog.kind = "confirm_all"
       THEN CloseAllTabs(quitting)
       ELSE /\ IF \E t \in dialog.docs : state[t] = "SAVING"
               THEN UNCHANGED <<open, watched, flagged>>
               ELSE RemovePages(dialog.docs)
            /\ UNCHANGED destroyed
    /\ UNCHANGED <<tabVars, idles, queue, quitting, mishap>>

\* "Cancel"
AnswerCancel ==
    /\ ~destroyed /\ dialog.kind \in Confirmations
    /\ dialog' = NoDialog /\ quitting' = FALSE /\ mishap' = FALSE
    /\ UNCHANGED <<open, tabVars, helperVars, queue, destroyed>>
    /\ Silent

\* Mutant: the window is left open.
ReallyCloseTab_Stays(t) ==
    /\ ~destroyed /\ t \in idles
    /\ idles' = idles \ {t}
    /\ IF t \in open THEN RemovePages({t}) ELSE UNCHANGED <<open, watched, flagged>>
    /\ UNCHANGED <<tabVars, dialog, queue, quitting, destroyed, mishap>>
    /\ Silent

\* really_close_tab.  On a tab that is gone already it reads freed memory; no
\* more is assumed of it there than that it ends.
ReallyCloseTab(t) ==
    /\ ~destroyed /\ t \in idles
    /\ idles' = idles \ {t}
    /\ IF t \in open
       THEN RemovePages({t}) /\ destroyed' = (quitting /\ open = {t})
       ELSE UNCHANGED <<open, watched, flagged, destroyed>>
    /\ UNCHANGED <<tabVars, dialog, queue, quitting, mishap>>
    /\ Silent

Next ==
    \/ \E t \in Tabs : \/ Edit(t) \/ Revert(t) \/ Loaded(t) \/ Saved(t) \/ SaveFails(t)
                       \/ ErrorAnswered(t) \/ AutoSave(t) \/ FileSave(t) \/ CloseTab(t)
                       \/ ReallyCloseTab(t)
    \/ SaveAll \/ SaveAsAnswered
    \/ \E quit \in BOOLEAN : FileCloseAll(quit)
    \/ \E selected \in SUBSET Tabs : AnswerSave(selected)
    \/ AnswerDiscard \/ AnswerCancel

Spec == Init /\ [][Next]_vars

\* GIO answers every load and save, and the main loop runs the idles.
Fairness == \A t \in Tabs :
    /\ WF_vars(Loaded(t)) /\ WF_vars(Saved(t) \/ SaveFails(t)) /\ WF_vars(ReallyCloseTab(t))

FairSpec == Spec /\ Fairness

-----------------------------------------------------------------------------

\* The variables have their types; watchers and flags are those of open tabs.
TypeOK ==
    /\ open \subseteq Tabs
    /\ state \in [Tabs -> States] /\ modified \in [Tabs -> BOOLEAN] /\ unnamed \subseteq Tabs
    /\ watched \subseteq open /\ flagged \subseteq open /\ idles \subseteq Tabs
    /\ dialog.kind \in {"none", "save_as"} \union Confirmations /\ dialog.docs \subseteq Tabs
    /\ queue \in Seq(Tabs)
    /\ quitting \in BOOLEAN /\ destroyed \in BOOLEAN
    /\ consent \subseteq Tabs /\ mishap \in BOOLEAN

\* While the queue of Save As is not empty, the dialog on the screen is the one
\* of its first tab, and no tab of the dialog or the queue has left
\* (save_dialog_response_cb asserts the first and dereferences the second): saved
\* tabs leave the notebook, by their idles, while the queue is worked through.
QueueIsAlive ==
    ~destroyed =>
        /\ queue # <<>> => dialog = [kind |-> "save_as", docs |-> {Head(queue)}]
        /\ IsInjective(queue)
        /\ Range(queue) \union dialog.docs \subseteq open

\* A tab leaves by itself only after its last state but CLOSING had nothing to
\* lose, and it cannot be changed on the way out.
MarkedTabsAreSaved ==
    \A t \in open : state[t] = "CLOSING" => ~modified[t] /\ t \in idles

\* A Quit whose questions are all answered closes the window, unless it is called
\* off, a save fails or failed before, or a Save As is cancelled: the callbacks
\* and idles of all the saved tabs lead there, in whatever order they come.
QuitEnds ==
    quitting ~> destroyed \/ ~quitting \/ mishap \/ dialog # NoDialog

\* What a document is to the one who closes it.
Doc == [t \in Tabs |-> IF destroyed \/ t \notin open THEN "left"
                       ELSE IF modified[t] THEN "dirty" ELSE "clean"]

Promise == INSTANCE CloseSession WITH doc <- Doc

\* Every way to close tabs keeps the promise of CloseSession.
ClosesOnlyWithConsent == Promise!Spec

\* The helpers of a closing window work on what is there: types, watchers and
\* the queue of Save As.
HelpersAreSound == TypeOK /\ QueueIsAlive
=============================================================================
