------------------------------ MODULE LapizTab ------------------------------
(* One LapizTab with its LapizDocument: the tab state machine of             *)
(* lapiz-tab.c, its message area, the autosave timeout, loading, saving,     *)
(* reverting, printing, the external modification notification, and the      *)
(* "save and close" watcher of lapiz-commands-file.c.                        *)
(*                                                                           *)
(* A g_return_if_fail that fails leaves the rest of its handler out, so it   *)
(* is a case of the action and never an assumption.  The loader and the      *)
(* saver are pending operations that complete at any later moment.  What a   *)
(* file holds is kept relative to the buffer (`disk').  save_flags are left  *)
(* out: the one flag a tab keeps in them, IGNORE_BACKUP, is read by nobody,  *)
(* see DocumentSaver.  LAPIZ_DOCUMENT_ERROR_CONVERSION_FALLBACK is left out: *)
(* no loader reports it (lapiz-gio-document-loader.c:392).                   *)
EXTENDS Naturals

CONSTANTS
    ShowSaveConfirmation, \* the setting "show-save-confirmation"
    World                 \* which of Happenings may happen

Happenings ==
    {"printing",     \* the user prints and previews
     "print_error",  \* lapiz_print_job_print returns RESULT_ERROR
     "unreadable",   \* a file that was loaded once can fail to load again
     "absent",       \* a file to be created by its name, or deleted by another program
     "permissions",  \* files become read-only and writable again
     "no_backup",    \* saves fail with CANT_CREATE_BACKUP
     "duplicate"}    \* the loaded file may be open in another tab

ASSUME WorldAssumption ==
    World \subseteq Happenings /\ ShowSaveConfirmation \in BOOLEAN

VARIABLES
    state,        \* priv->state
    area,         \* what priv->message_area points to
    orphans,      \* bars still displayed that message_area no longer points to
    editable,     \* ctk_text_view_get_editable of the view
    not_editable, \* priv->not_editable
    ask,          \* priv->ask_if_externally_modified
    autosave,     \* priv->auto_save
    timer,        \* priv->auto_save_timeout: 0, a live source, or a stale id
    tmp_encoding, \* is priv->tmp_encoding non-NULL
    tmp_save_uri, \* priv->tmp_save_uri: NULL, the document's uri or another
    titled,       \* does the document have a uri
    readonly,     \* the document's read-only property
    modified,     \* ctk_text_buffer_get_modified
    loader,       \* the document's loader: none, opening, or filling the buffer
    saver,        \* the document's saver, or NoSaver
    disk,         \* the file at the document's uri, against the buffer
    newer,        \* is its mtime after the document's
    canWrite,     \* may it be written
    print_preview,\* priv->print_preview
    print_job,    \* is priv->print_job non-NULL
    dialog,       \* the modal dialog of the window
    watching,     \* is tab_state_changed_while_saving connected
    closeIdle,    \* is a really_close_tab idle pending
    removeIdle,   \* is a remove_tab_idle pending
    alive         \* is the tab still in its notebook

viewVars   == <<editable, not_editable>>
tmpVars    == <<tmp_encoding, tmp_save_uri>>
docVars    == <<titled, readonly, modified>>
fileVars   == <<disk, newer, canWrite>>
printVars  == <<print_preview, print_job>>
watchVars  == <<watching, closeIdle>>
vars == <<state, area, orphans, viewVars, ask, autosave, timer, tmpVars, docVars,
          loader, saver, fileVars, printVars, dialog, watchVars, removeIdle, alive>>

BusyStates  == {"LOADING", "REVERTING", "SAVING"}
ErrorStates == {"LOADING_ERROR", "REVERTING_ERROR", "SAVING_ERROR"}
PrintStates == {"PRINTING", "PRINT_PREVIEWING", "SHOWING_PRINT_PREVIEW"}
\* GENERIC_NOT_EDITABLE and GENERIC_ERROR are never set.
States == BusyStates \union ErrorStates \union PrintStates \union
          {"NORMAL", "EXTERNALLY_MODIFIED_NOTIFICATION", "CLOSING"}

SavingBars == {"externally_modified", "no_backup", "unrecoverable", "conversion"}
Bars == {"progress_load", "progress_save", "progress_print", "load_error",
         "revert_error", "already_open", "notification"} \union SavingBars

NoSaver == [to |-> "none", ignoreMtime |-> FALSE, exact |-> FALSE]
Savers  == [to: {"own", "other"}, ignoreMtime: BOOLEAN, exact: BOOLEAN] \union {NoSaver}

\* A tab made by _lapiz_tab_new: untitled, with an untouched document.
Init ==
    /\ state = "NORMAL" /\ area = "none" /\ orphans = {}
    /\ editable = TRUE /\ not_editable = FALSE /\ ask = TRUE
    /\ autosave \in BOOLEAN /\ timer = "none"
    /\ tmp_encoding = FALSE /\ tmp_save_uri = "none"
    /\ titled = FALSE /\ readonly = FALSE /\ modified = FALSE
    /\ loader = "none" /\ saver = NoSaver
    /\ disk = "absent" /\ newer = FALSE /\ canWrite = TRUE
    /\ print_preview = "none" /\ print_job = FALSE
    /\ dialog = "none" /\ watching = FALSE
    /\ closeIdle = FALSE /\ removeIdle = FALSE /\ alive = TRUE

(***************************************************************************)
(* The machinery every handler uses.                                       *)
(***************************************************************************)

\* Mutant: the user may go on typing while the document is saved.
EditableIn_WhileSaving(s) ==
    s \in {"NORMAL", "SAVING"} /\ print_preview' = "none" /\ ~not_editable'

\* set_view_properties_according_to_state
EditableIn(s) == s = "NORMAL" /\ print_preview' = "none" /\ ~not_editable'

\* lapiz_tab_set_state to a state the watcher is not waiting for.
SetState(s) ==
    /\ state' = s
    /\ editable' = IF s = state THEN editable ELSE EditableIn(s)

\* Mutant: only a deleted file needs saving.
NeedsSaving_OnlyDeleted(mod, file) == titled' /\ file = "absent"

\* document_needs_saving
NeedsSaving(mod, file) == mod \/ (titled' /\ file = "absent")

\* lapiz_tab_set_state (NORMAL) and, before it returns, its "notify::state":
\* tab_state_changed_while_saving disconnects itself and, unless the document
\* still needs saving, marks the tab for closing.
SetStateNormal ==
    LET notified == state # "NORMAL" /\ watching
        closes   == notified /\ ~NeedsSaving(modified', disk')
    IN /\ state' = IF closes THEN "CLOSING" ELSE "NORMAL"
       /\ editable' = IF state = "NORMAL" THEN editable ELSE EditableIn(state')
       /\ watching' = (watching /\ ~notified)
       /\ closeIdle' = (closeIdle \/ closes)

\* Where a finished save returns to.
SetStateAfterSaving ==
    IF print_preview # "none"
    THEN SetState("SHOWING_PRINT_PREVIEW") /\ UNCHANGED watchVars
    ELSE SetStateNormal

NoTimerStates == BusyStates \union ErrorStates

\* install_auto_save_timeout_if_needed
InstallTimerIfNeeded ==
    timer' = IF /\ timer = "none"
                /\ state' \in {"NORMAL", "SHOWING_PRINT_PREVIEW"}
                /\ autosave /\ titled' /\ ~readonly'
             THEN "live" ELSE timer

\* remove_auto_save_timeout, when there is one
RemoveTimer == timer' = "none"

\* A response handler runs for a bar that is displayed, the current one or not.
Displayed(bar) == area = bar \/ bar \in orphans

\* No modal dialog keeps the user from the window.
UserActs == alive /\ dialog = "none"

\* lapiz_document_load: lapiz_document_load_real asks for no loader in flight.
DocumentLoad == loader' = IF loader = "none" THEN "opening" ELSE loader

\* lapiz_document_save and _save_as: lapiz_document_save_real asks for no saver.
DocumentSave(to, ignoreMtime) ==
    saver' = IF saver = NoSaver
             THEN [to |-> to, ignoreMtime |-> ignoreMtime, exact |-> TRUE]
             ELSE saver

\* lapiz_notebook_remove_tab: the tab goes, and with it the timeout and the loader.
RemoveTab ==
    /\ alive' = FALSE
    /\ timer' = "none" /\ loader' = "none" /\ dialog' = "none"
    /\ UNCHANGED <<state, area, orphans, viewVars, ask, autosave, tmpVars, docVars,
                   saver, fileVars, printVars, watchVars, removeIdle>>

(***************************************************************************)
(* The user's typing and the rest of the machine.  Other programs leave the *)
(* file alone while it is loaded or saved: those races are DocumentSaver's. *)
(***************************************************************************)

Edit ==
    /\ UserActs /\ editable
    /\ modified' = TRUE
    /\ disk' = IF disk = "same" THEN "other" ELSE disk
    /\ saver' = IF saver = NoSaver THEN saver ELSE [saver EXCEPT !.exact = FALSE]
    /\ UNCHANGED <<state, area, orphans, viewVars, ask, autosave, timer, tmpVars,
                   titled, readonly, loader, newer, canWrite, printVars, dialog,
                   watchVars, removeIdle, alive>>

ForeignStep ==
    /\ alive /\ titled /\ loader = "none" /\ saver = NoSaver
    /\ UNCHANGED <<state, area, orphans, viewVars, ask, autosave, timer, tmpVars,
                   docVars, loader, saver, printVars, dialog, watchVars, removeIdle,
                   alive>>

ForeignWrite ==
    ForeignStep /\ disk' = "other" /\ newer' = TRUE /\ UNCHANGED canWrite

ForeignDelete ==
    "absent" \in World /\ ForeignStep /\ disk' = "absent" /\ newer' = FALSE /\ UNCHANGED canWrite

ChangePermissions ==
    /\ "permissions" \in World
    /\ ForeignStep /\ canWrite' = ~canWrite /\ UNCHANGED <<disk, newer>>

(***************************************************************************)
(* Loading and reverting.                                                  *)
(***************************************************************************)

\* _lapiz_tab_load, on an untouched document (load_file_list).  Its encoding
\* may be NULL, for auto-detection.
Load ==
    /\ UserActs
    /\ ~titled /\ ~modified /\ state = "NORMAL"
    /\ titled' = TRUE
    /\ disk' \in {"other"} \union (World \intersect {"absent"}) /\ newer' = FALSE
    /\ canWrite' \in {TRUE, "permissions" \notin World}
    /\ UNCHANGED <<not_editable, printVars>>
    /\ SetState("LOADING")
    /\ tmp_encoding' \in BOOLEAN
    /\ RemoveTimer
    /\ DocumentLoad
    /\ UNCHANGED <<area, orphans, ask, autosave, tmp_save_uri, readonly, modified,
                   saver, dialog, watchVars, removeIdle, alive>>

\* Mutant: the state is not asserted, although it may have changed since the dialog.
TabRevert_InAnyState ==
    /\ area' = IF state = "EXTERNALLY_MODIFIED_NOTIFICATION" THEN "none" ELSE area
    /\ UNCHANGED <<not_editable, printVars>>
    /\ SetState("REVERTING")
    /\ tmp_encoding' = TRUE
    /\ RemoveTimer
    /\ DocumentLoad

\* _lapiz_tab_revert, whatever opened it: it insists on NORMAL or the notification.
TabRevert ==
    IF state \in {"NORMAL", "EXTERNALLY_MODIFIED_NOTIFICATION"}
    THEN /\ area' = IF state = "NORMAL" THEN area ELSE "none"
         /\ UNCHANGED <<not_editable, printVars>>
         /\ SetState("REVERTING")
         /\ tmp_encoding' = TRUE
         /\ RemoveTimer
         /\ DocumentLoad
    ELSE UNCHANGED <<state, area, viewVars, printVars, tmp_encoding, timer, loader>>

\* _lapiz_cmd_file_revert: the notification has already told the user.
Revert ==
    /\ UserActs
    /\ titled /\ state \in {"NORMAL", "EXTERNALLY_MODIFIED_NOTIFICATION"}
    /\ IF state = "NORMAL"
       THEN /\ dialog' = "revert"
            /\ UNCHANGED <<state, area, viewVars, printVars, tmp_encoding, timer, loader>>
       ELSE TabRevert /\ UNCHANGED dialog
    /\ UNCHANGED <<orphans, ask, autosave, tmp_save_uri, docVars, saver, fileVars,
                   watchVars, removeIdle, alive>>

\* revert_dialog_response_cb
RevertDialogResponse ==
    /\ alive /\ dialog = "revert"
    /\ dialog' = "none"
    /\ \/ TabRevert
       \/ UNCHANGED <<state, area, viewVars, printVars, tmp_encoding, timer, loader>>
    /\ UNCHANGED <<orphans, ask, autosave, tmp_save_uri, docVars, saver, fileVars,
                   watchVars, removeIdle, alive>>

\* document_loading after three seconds: show_loading_message_area.
LoadTakesLong ==
    /\ alive /\ loader # "none" /\ state \in {"LOADING", "REVERTING"}
    /\ area = "none"
    /\ area' = "progress_load"
    /\ UNCHANGED <<state, orphans, viewVars, ask, autosave, timer, tmpVars, docVars,
                   loader, saver, fileVars, printVars, dialog, watchVars, removeIdle,
                   alive>>

\* lapiz_document_output_stream_constructed empties the buffer, unmodified; the
\* first chunk written to it makes it modified again.
LoaderFillsBuffer ==
    /\ alive /\ loader = "opening" /\ disk # "absent"
    /\ loader' = "filling"
    /\ modified' \in BOOLEAN
    /\ disk' = "other"
    /\ UNCHANGED <<state, area, orphans, viewVars, ask, autosave, timer, tmpVars,
                   titled, readonly, saver, newer, canWrite, printVars, dialog,
                   watchVars, removeIdle, alive>>

\* The assertions document_loaded starts with.
LoadedIsAwaited == state \in {"LOADING", "REVERTING"} /\ timer = "none"

\* document_loaded without an error, after the document took over what the
\* loader found.  `shared': is the location open in another document.
DocumentLoaded(shared) ==
    IF LoadedIsAwaited
    THEN /\ area' = IF shared THEN "already_open" ELSE "none"
         /\ not_editable' = (not_editable \/ shared)
         /\ SetStateNormal
         /\ InstallTimerIfNeeded
         /\ ask' = TRUE
         /\ tmp_encoding' = FALSE
    ELSE UNCHANGED <<state, area, viewVars, watchVars, timer, ask, tmp_encoding>>

\* document_loader_loaded: success.  set_readonly does not notify.
LoaderSucceeds ==
    /\ alive /\ loader = "filling"
    /\ loader' = "none"
    /\ readonly' = ~canWrite
    /\ modified' = FALSE /\ disk' = "same" /\ newer' = FALSE
    /\ UNCHANGED <<titled, canWrite, printVars>>
    /\ \E shared \in (IF "duplicate" \in World THEN BOOLEAN ELSE {FALSE}) :
          DocumentLoaded(shared)
    /\ UNCHANGED <<orphans, autosave, tmp_save_uri, saver, dialog, removeIdle, alive>>

\* document_loader_loaded: a file to be created, "loaded" without an error.
LoaderCreates ==
    /\ alive /\ loader = "opening" /\ state = "LOADING" /\ disk = "absent"
    /\ loader' = "none"
    /\ UNCHANGED <<docVars, fileVars, printVars>>
    /\ DocumentLoaded(FALSE)
    /\ UNCHANGED <<orphans, autosave, tmp_save_uri, saver, dialog, removeIdle, alive>>

\* document_loaded with an error other than a cancellation.  The early return
\* leaves tmp_encoding as it is, for the retry of a failed load.
LoaderFails ==
    /\ alive /\ loader # "none"
    /\ state = "LOADING" \/ disk = "absent" \/ "unreadable" \in World
    /\ loader' = "none"
    /\ UNCHANGED <<not_editable, printVars>>
    /\ IF LoadedIsAwaited
       THEN IF state = "LOADING"
            THEN SetState("LOADING_ERROR") /\ area' = "load_error"
            ELSE SetState("REVERTING_ERROR") /\ area' = "revert_error"
       ELSE UNCHANGED <<state, editable, area>>
    /\ UNCHANGED <<orphans, ask, autosave, timer, tmpVars, docVars, saver, fileVars,
                   dialog, watchVars, removeIdle, alive>>

\* load_cancelled: the loader completes with CANCELLED before the cancellation
\* returns, and document_loaded leaves the removal of the tab to an idle.
CancelLoad ==
    /\ UserActs /\ area = "progress_load" /\ loader # "none"
    /\ loader' = "none"
    /\ UNCHANGED <<not_editable, printVars>>
    /\ IF LoadedIsAwaited
       THEN /\ area' = "none"
            /\ SetState(IF state = "LOADING" THEN "LOADING_ERROR" ELSE "REVERTING_ERROR")
            /\ removeIdle' = TRUE
            /\ tmp_encoding' = FALSE
       ELSE UNCHANGED <<state, editable, area, removeIdle, tmp_encoding>>
    /\ UNCHANGED <<orphans, ask, autosave, timer, tmp_save_uri, docVars, saver, fileVars,
                   dialog, watchVars, alive>>

\* remove_tab_idle holds no reference: after RemoveTab it works on a freed tab.
RemoveTabIdle ==
    /\ alive /\ removeIdle
    /\ RemoveTab

\* io_loading_error_message_area_response, _Retry: with another encoding when the
\* bar offers one.
RetryLoad ==
    /\ UserActs /\ area = "load_error"
    /\ area' = "none"
    /\ tmp_encoding' \in {tmp_encoding, TRUE}
    /\ UNCHANGED <<not_editable, printVars>>
    /\ SetState("LOADING")
    /\ IF timer = "none" THEN DocumentLoad ELSE UNCHANGED loader
    /\ UNCHANGED <<orphans, ask, autosave, timer, tmp_save_uri, docVars, saver, fileVars,
                   dialog, watchVars, removeIdle, alive>>

\* io_loading_error_message_area_response, _Cancel
GiveUpLoad ==
    /\ UserActs /\ area = "load_error"
    /\ RemoveTab

\* unrecoverable_reverting_error_message_area_response
DismissRevertError ==
    /\ UserActs /\ area = "revert_error"
    /\ UNCHANGED <<not_editable, printVars, docVars, fileVars>>
    /\ SetStateNormal
    /\ area' = "none"
    /\ InstallTimerIfNeeded
    /\ UNCHANGED <<orphans, ask, autosave, tmpVars, loader, saver, dialog, removeIdle,
                   alive>>

\* file_already_open_warning_message_area_response: destroying a bar that
\* message_area no longer points to still clears message_area, whose weak
\* pointer the bar holds too; the bar it pointed to stays displayed.
AnswerAlreadyOpen(editAnyway) ==
    /\ UserActs /\ Displayed("already_open")
    /\ IF editAnyway
       THEN not_editable' = FALSE /\ editable' = TRUE
       ELSE UNCHANGED viewVars
    /\ area' = "none"
    /\ orphans' = (orphans \union {area}) \ {"already_open", "none"}
    /\ UNCHANGED <<state, ask, autosave, timer, tmpVars, docVars, loader, saver,
                   fileVars, printVars, dialog, watchVars, removeIdle, alive>>

(***************************************************************************)
(* The external modification notification.                                 *)
(***************************************************************************)

\* Mutant: also when there was none.
Forgotten_EvenNone == orphans \union {area}

\* The bars displayed once message_area forgets, and does not destroy, the current.
Forgotten == (orphans \union {area}) \ {"none"}

\* view_focused_in, _lapiz_document_check_externally_modified and
\* display_externally_modified_notification, which forgets the current bar; the
\* window makes the document modified (set_sensitivity_according_to_tab).
FocusIn ==
    /\ UserActs
    /\ state = "NORMAL" /\ ask /\ titled /\ disk # "absent"
    /\ readonly' = ~canWrite
    /\ IF newer
       THEN /\ UNCHANGED <<not_editable, printVars>>
            /\ SetState("EXTERNALLY_MODIFIED_NOTIFICATION")
            /\ orphans' = Forgotten
            /\ area' = "notification"
            /\ modified' = TRUE
       ELSE /\ editable' = IF readonly' = readonly THEN editable ELSE ~readonly'
            /\ UNCHANGED <<state, not_editable, printVars, orphans, area, modified>>
    /\ UNCHANGED <<ask, autosave, timer, tmpVars, titled, loader, saver, fileVars,
                   dialog, watchVars, removeIdle, alive>>

\* externally_modified_notification_message_area_response, "Reload"
Reload ==
    /\ UserActs /\ Displayed("notification")
    /\ IF state \in {"NORMAL", "EXTERNALLY_MODIFIED_NOTIFICATION"}
       THEN /\ area' = "none"
            /\ UNCHANGED <<not_editable, printVars>>
            /\ SetState("REVERTING")
            /\ tmp_encoding' = TRUE
            /\ RemoveTimer
            /\ DocumentLoad
       ELSE /\ area' = "none"
            /\ UNCHANGED <<state, viewVars, printVars, tmp_encoding, timer, loader>>
    /\ UNCHANGED <<orphans, ask, autosave, tmp_save_uri, docVars, saver, fileVars, dialog,
                   watchVars, removeIdle, alive>>

\* ... and "Ignore", back to NORMAL from whatever state the tab is in
IgnoreModification ==
    /\ UserActs /\ Displayed("notification")
    /\ area' = "none" /\ ask' = FALSE
    /\ UNCHANGED <<not_editable, printVars, docVars, fileVars>>
    /\ SetStateNormal
    /\ UNCHANGED <<orphans, autosave, timer, tmpVars, loader, saver, dialog, removeIdle,
                   alive>>

(***************************************************************************)
(* Saving.                                                                 *)
(***************************************************************************)

SavableStates == {"NORMAL", "EXTERNALLY_MODIFIED_NOTIFICATION", "SHOWING_PRINT_PREVIEW"}
TmpDataIsNull == tmp_save_uri = "none" /\ ~tmp_encoding

\* Mutant: the notification stays.
StartSaving_KeepsNotification(to, ignoreMtime) ==
    /\ UNCHANGED area
    /\ SetState("SAVING")
    /\ tmp_save_uri' = to
    /\ tmp_encoding' = TRUE
    /\ RemoveTimer
    /\ DocumentSave(to, ignoreMtime)

\* What _lapiz_tab_save and _lapiz_tab_save_as do alike; the notification goes.
StartSaving(to, ignoreMtime) ==
    /\ area' = IF state = "EXTERNALLY_MODIFIED_NOTIFICATION" THEN "none" ELSE area
    /\ SetState("SAVING")
    /\ tmp_save_uri' = to
    /\ tmp_encoding' = TRUE
    /\ RemoveTimer
    /\ DocumentSave(to, ignoreMtime)

SaveRefused == UNCHANGED <<state, area, editable, tmpVars, timer, saver>>

\* _lapiz_tab_save: the notification told the user already, so the mtime is ignored.
TabSave ==
    IF state \in SavableStates /\ TmpDataIsNull /\ titled
    THEN StartSaving("own", state = "EXTERNALLY_MODIFIED_NOTIFICATION")
    ELSE SaveRefused

\* _lapiz_tab_save_as, where "own" is a Save As over the file itself;
\* lapiz_document_save_as always ignores the mtime.
TabSaveAs(to) ==
    IF state \in SavableStates /\ TmpDataIsNull
    THEN StartSaving(to, TRUE) ELSE SaveRefused

\* file_save: a Save As for what cannot be saved in place.
FileSave ==
    IF ~titled \/ readonly
    THEN dialog' = "save_as" /\ SaveRefused
    ELSE dialog' = "none" /\ TabSave

\* The Save command, or Save All (_lapiz_cmd_file_save_documents_list).
Save ==
    /\ UserActs
    /\ state \in {"NORMAL", "SHOWING_PRINT_PREVIEW"}
    /\ UNCHANGED <<not_editable, printVars>>
    /\ FileSave
    /\ UNCHANGED <<orphans, ask, autosave, docVars, loader, fileVars, watchVars,
                   removeIdle, alive>>

\* The states in which set_sensitivity_according_to_tab offers Save As.
SaveAsOffered == state \in SavableStates \union {"SAVING_ERROR"}

SaveAs ==
    /\ UserActs /\ SaveAsOffered
    /\ dialog' = "save_as"
    /\ UNCHANGED <<state, area, orphans, viewVars, ask, autosave, timer, tmpVars,
                   docVars, loader, saver, fileVars, printVars, watchVars, removeIdle,
                   alive>>

\* save_dialog_response_cb
SaveDialogResponse ==
    /\ alive /\ dialog = "save_as"
    /\ dialog' = "none"
    /\ UNCHANGED <<not_editable, printVars>>
    /\ \/ SaveRefused
       \/ \E to \in (IF titled THEN {"own", "other"} ELSE {"other"}) : TabSaveAs(to)
    /\ UNCHANGED <<orphans, ask, autosave, docVars, loader, fileVars, watchVars,
                   removeIdle, alive>>

\* The assertions lapiz_tab_auto_save starts with.
AutoSaveAccepts == TmpDataIsNull /\ titled /\ ~readonly /\ autosave

\* Mutant: while another operation runs it gives up.
AutoSave_DoesNotRetry ==
    /\ alive /\ timer = "live"
    /\ UNCHANGED <<not_editable, printVars>>
    /\ IF ~AutoSaveAccepts
       THEN timer' = "dead" /\ UNCHANGED <<state, editable, tmpVars, saver>>
       ELSE IF ~modified
       THEN UNCHANGED <<timer, state, editable, tmpVars, saver>>
       ELSE IF state \notin {"NORMAL", "SHOWING_PRINT_PREVIEW"}
       THEN timer' = "none" /\ UNCHANGED <<state, editable, tmpVars, saver>>
       ELSE /\ SetState("SAVING")
            /\ tmp_save_uri' = "own" /\ tmp_encoding' = TRUE
            /\ timer' = "none"
            /\ DocumentSave("own", FALSE)
    /\ UNCHANGED <<area, orphans, ask, autosave, docVars, loader, fileVars, dialog,
                   watchVars, removeIdle, alive>>

\* lapiz_tab_auto_save.  A failed assertion returns FALSE: the source is gone and
\* its id stays.  While another operation runs it retries after 30 seconds.
AutoSave ==
    /\ alive /\ timer = "live"
    /\ UNCHANGED <<not_editable, printVars>>
    /\ IF ~AutoSaveAccepts
       THEN timer' = "dead" /\ UNCHANGED <<state, editable, tmpVars, saver>>
       ELSE IF ~modified \/ state \notin {"NORMAL", "SHOWING_PRINT_PREVIEW"}
       THEN UNCHANGED <<timer, state, editable, tmpVars, saver>>
       ELSE /\ SetState("SAVING")
            /\ tmp_save_uri' = "own" /\ tmp_encoding' = TRUE
            /\ timer' = "none"
            /\ DocumentSave("own", FALSE)
    /\ UNCHANGED <<area, orphans, ask, autosave, docVars, loader, fileVars, dialog,
                   watchVars, removeIdle, alive>>

\* document_saving after three seconds: show_saving_message_area.
SaveTakesLong ==
    /\ alive /\ saver # NoSaver /\ state = "SAVING"
    /\ area = "none"
    /\ area' = "progress_save"
    /\ UNCHANGED <<state, orphans, viewVars, ask, autosave, timer, tmpVars, docVars,
                   loader, saver, fileVars, printVars, dialog, watchVars, removeIdle,
                   alive>>

\* The assertions document_saved starts with.
SavedIsAwaited ==
    state = "SAVING" /\ tmp_save_uri # "none" /\ tmp_encoding /\ timer = "none"

\* Mutant: the encoding of the save is kept.
EndSaving_KeepsEncoding ==
    /\ tmp_save_uri' = "none" /\ UNCHANGED tmp_encoding
    /\ InstallTimerIfNeeded

\* end_saving
EndSaving ==
    /\ tmp_save_uri' = "none" /\ tmp_encoding' = FALSE
    /\ InstallTimerIfNeeded

\* document_saver_saving with success: the document is now that of the written
\* file, writable (which notifies the view) and unmodified; then document_saved.
SaverSucceeds ==
    /\ alive /\ saver # NoSaver
    /\ saver.to = "own" => (newer => saver.ignoreMtime)
    /\ saver' = NoSaver
    /\ titled' = TRUE /\ readonly' = FALSE /\ modified' = FALSE
    /\ disk' = IF saver.exact THEN "same" ELSE "other"
    /\ newer' = FALSE
    /\ canWrite' = (canWrite \/ saver.to = "other")
    /\ UNCHANGED <<not_editable, printVars>>
    /\ IF SavedIsAwaited
       THEN /\ area' = "none"
            /\ SetStateAfterSaving
            /\ ask' = TRUE
            /\ EndSaving
       ELSE /\ editable' = (editable \/ readonly)
            /\ UNCHANGED <<area, state, watchVars, ask, tmpVars, timer>>
    /\ UNCHANGED <<orphans, autosave, loader, dialog, removeIdle, alive>>

\* Which bar document_saved shows for which failure of the saver.
FailureOf(bar) ==
    CASE bar = "externally_modified" ->
             saver.to = "own" /\ newer /\ ~saver.ignoreMtime
      [] bar = "no_backup" -> "no_backup" \in World
      [] OTHER -> TRUE

\* document_saved with an error.  Nothing was written, except when the query
\* after the replacement failed (DocumentSaver!GetInfoReady).
SaverFails(bar) ==
    /\ alive /\ saver # NoSaver
    /\ FailureOf(bar)
    /\ saver' = NoSaver
    /\ \/ UNCHANGED <<disk, newer>>
       \/ /\ bar = "unrecoverable" /\ saver.to = "own"
          /\ disk' = IF saver.exact THEN "same" ELSE "other"
          /\ newer' = TRUE
    /\ UNCHANGED <<not_editable, printVars>>
    /\ IF SavedIsAwaited
       THEN SetState("SAVING_ERROR") /\ area' = bar
       ELSE UNCHANGED <<state, editable, area>>
    /\ UNCHANGED <<orphans, ask, autosave, timer, tmpVars, docVars, loader, canWrite,
                   dialog, watchVars, removeIdle, alive>>

\* unrecoverable_saving_error_message_area_response, and the other bars' Cancel
DismissSaveError ==
    /\ UserActs /\ area \in SavingBars
    /\ UNCHANGED <<not_editable, printVars, docVars, fileVars>>
    /\ SetStateAfterSaving
    /\ EndSaving
    /\ area' = "none"
    /\ UNCHANGED <<orphans, ask, autosave, loader, saver, dialog, removeIdle, alive>>

\* What the recoverable bars share: back to SAVING, then the new save.
ResumeSaving(bar) ==
    /\ UserActs /\ area = bar
    /\ area' = "none"
    /\ UNCHANGED <<orphans, not_editable, printVars, ask, autosave, timer, tmp_save_uri,
                   docVars, loader, fileVars, dialog, watchVars, removeIdle, alive>>

\* lapiz_document_save asks for a uri, and takes the document's own.
ResaveInPlace(ignoreMtime) ==
    IF titled THEN DocumentSave("own", ignoreMtime) ELSE UNCHANGED saver

\* no_backup_error_message_area_response
SaveWithoutBackup ==
    /\ ResumeSaving("no_backup")
    /\ IF tmp_save_uri # "none" /\ tmp_encoding
       THEN SetState("SAVING") /\ ResaveInPlace(FALSE)
       ELSE UNCHANGED <<state, editable, saver>>
    /\ UNCHANGED tmp_encoding

\* externally_modified_error_message_area_response
SaveOverModification ==
    /\ ResumeSaving("externally_modified")
    /\ IF tmp_save_uri # "none" /\ tmp_encoding
       THEN SetState("SAVING") /\ ResaveInPlace(TRUE)
       ELSE UNCHANGED <<state, editable, saver>>
    /\ UNCHANGED tmp_encoding

\* Mutant: to the document's own uri.
SaveInOtherEncoding_InPlace ==
    /\ ResumeSaving("conversion")
    /\ IF tmp_save_uri # "none"
       THEN SetState("SAVING") /\ tmp_encoding' = TRUE /\ ResaveInPlace(TRUE)
       ELSE UNCHANGED <<state, editable, saver, tmp_encoding>>

\* recoverable_saving_error_message_area_response
SaveInOtherEncoding ==
    /\ ResumeSaving("conversion")
    /\ IF tmp_save_uri # "none"
       THEN /\ SetState("SAVING")
            /\ tmp_encoding' = TRUE
            /\ DocumentSave(tmp_save_uri, TRUE)
       ELSE UNCHANGED <<state, editable, saver, tmp_encoding>>

(***************************************************************************)
(* Printing.  The print operation is asynchronous; "done" comes from it when *)
(* the job ends, is cancelled, or its preview is closed.                    *)
(***************************************************************************)

\* lapiz_tab_print_or_print_preview in state NORMAL, without a print job
StartPrinting(s) ==
    /\ print_job' = TRUE
    /\ area' = "progress_print"
    /\ SetState(s)

PrintUnchanged == UNCHANGED <<orphans, ask, autosave, timer, tmpVars, docVars, loader,
                              saver, fileVars, dialog, removeIdle, alive>>

PrintPreview ==
    /\ "printing" \in World
    /\ UserActs /\ state = "NORMAL" /\ ~print_job
    /\ UNCHANGED <<not_editable, print_preview>>
    /\ StartPrinting("PRINT_PREVIEWING")
    /\ UNCHANGED watchVars /\ PrintUnchanged

PrintDocument ==
    /\ "printing" \in World
    /\ UserActs /\ state = "NORMAL" /\ ~print_job
    /\ UNCHANGED <<not_editable, print_preview>>
    /\ StartPrinting("PRINTING")
    /\ UNCHANGED watchVars /\ PrintUnchanged

\* _lapiz_tab_print closes a preview first: its "done" makes the state NORMAL, and
\* printing starts unless the watcher closes the tab.
PrintFromPreview ==
    /\ "printing" \in World
    /\ UserActs /\ state = "SHOWING_PRINT_PREVIEW" /\ print_preview = "shown"
    /\ print_preview' = "none"
    /\ UNCHANGED <<not_editable, docVars, fileVars>>
    /\ IF watching /\ ~NeedsSaving(modified, disk)
       THEN SetStateNormal /\ print_job' = FALSE /\ UNCHANGED area
       ELSE StartPrinting("PRINTING") /\ watching' = FALSE /\ UNCHANGED closeIdle
    /\ UNCHANGED <<orphans, ask, autosave, timer, tmpVars, loader, saver, dialog,
                   removeIdle, alive>>

\* lapiz_print_job_print returned RESULT_ERROR: "FIXME: go in error state".
PrintFails ==
    /\ "print_error" \in World
    /\ alive /\ state \in {"PRINTING", "PRINT_PREVIEWING"} /\ print_job
    /\ print_job' = FALSE
    /\ UNCHANGED <<not_editable, print_preview, docVars, fileVars>>
    /\ SetStateNormal
    /\ UNCHANGED <<area, orphans, ask, autosave, timer, tmpVars, loader, saver, dialog,
                   removeIdle, alive>>

\* show_preview_cb
ShowPreview ==
    /\ alive /\ print_job /\ state = "PRINT_PREVIEWING" /\ print_preview = "none"
    /\ area' = "none"
    /\ print_preview' = "shown"
    /\ UNCHANGED <<not_editable, print_job>>
    /\ SetState("SHOWING_PRINT_PREVIEW")
    /\ UNCHANGED watchVars /\ PrintUnchanged

\* done_printing_cb.  Its first assertion fails in any state but the three, and the
\* destroyed preview stays in print_preview; its second wants the progress bar.
PrintJobDone ==
    /\ alive /\ print_job
    /\ state = "SHOWING_PRINT_PREVIEW" => print_preview = "shown"
    /\ state \in {"PRINTING", "PRINT_PREVIEWING"} => area = "progress_print"
    /\ UNCHANGED <<not_editable, docVars, fileVars>>
    /\ IF state \in PrintStates
       THEN /\ print_preview' = IF state = "SHOWING_PRINT_PREVIEW"
                                THEN "none" ELSE print_preview
            /\ area' = IF state = "SHOWING_PRINT_PREVIEW" THEN area ELSE "none"
            /\ print_job' = FALSE
            /\ SetStateNormal
       ELSE /\ print_preview = "shown" /\ print_preview' = "destroyed"
            /\ UNCHANGED <<area, print_job, state, editable, watchVars>>
    /\ UNCHANGED <<orphans, ask, autosave, timer, tmpVars, loader, saver, dialog,
                   removeIdle, alive>>

(***************************************************************************)
(* Closing.                                                                *)
(***************************************************************************)

\* _lapiz_tab_can_close
CanClose ==
    \/ state \in {"LOADING", "LOADING_ERROR", "REVERTING", "REVERTING_ERROR"}
    \/ ~modified
    \/ ~ShowSaveConfirmation

\* The Close command (_lapiz_cmd_file_close_tab), where the window offers it.
Close ==
    /\ UserActs
    /\ state \notin {"CLOSING", "SAVING", "SAVING_ERROR"} \union PrintStates
    /\ IF CanClose
       THEN RemoveTab
       ELSE /\ dialog' = "close"
            /\ UNCHANGED <<state, area, orphans, viewVars, ask, autosave, timer, tmpVars,
                           docVars, loader, saver, fileVars, printVars, watchVars,
                           removeIdle, alive>>

\* close_confirmation_dialog_response_handler, save: save_and_close connects the
\* watcher, whatever becomes of the save.
SaveAndClose ==
    /\ alive /\ dialog = "close"
    /\ watching' = TRUE
    /\ UNCHANGED <<not_editable, printVars>>
    /\ FileSave
    /\ UNCHANGED <<orphans, ask, autosave, docVars, loader, fileVars, closeIdle,
                   removeIdle, alive>>

\* ... close without saving: lapiz_window_close_tab refuses these two states.
CloseWithoutSaving ==
    /\ alive /\ dialog = "close"
    /\ state \notin {"SAVING", "SHOWING_PRINT_PREVIEW"}
    /\ RemoveTab

\* ... do not close, or a refused close: only the dialog goes.
DoNotClose ==
    /\ alive /\ dialog = "close"
    /\ dialog' = "none"
    /\ UNCHANGED <<state, area, orphans, viewVars, ask, autosave, timer, tmpVars, docVars,
                   loader, saver, fileVars, printVars, watchVars, removeIdle, alive>>

\* really_close_tab: asserts the state it was queued in.
ReallyCloseTab ==
    /\ alive /\ closeIdle
    /\ IF state = "CLOSING"
       THEN RemoveTab
       ELSE /\ UNCHANGED <<state, area, orphans, viewVars, ask, autosave, timer, tmpVars,
                           docVars, loader, saver, fileVars, printVars, dialog, watching,
                           removeIdle, alive>>
            /\ closeIdle' = FALSE

(***************************************************************************)
(* The autosave preferences, which may change at any time.                 *)
(***************************************************************************)

TimerUnchanged == UNCHANGED <<state, area, orphans, viewVars, ask, tmpVars, docVars,
                              loader, saver, fileVars, printVars, dialog, watchVars,
                              removeIdle, alive>>

\* Mutant: in any state.
SetAutoSaveEnabled_InAnyState ==
    /\ alive
    /\ autosave' = ~autosave
    /\ timer' = IF autosave THEN "none"
                ELSE IF timer = "none" /\ titled /\ ~readonly THEN "live" ELSE timer
    /\ TimerUnchanged

\* lapiz_tab_set_auto_save_enabled
SetAutoSaveEnabled ==
    /\ alive
    /\ autosave' = ~autosave
    /\ timer' = IF autosave THEN "none"
                ELSE IF timer = "none" /\ titled /\ ~readonly /\ state \notin NoTimerStates
                THEN "live" ELSE timer
    /\ TimerUnchanged

\* lapiz_tab_set_auto_save_interval: a timeout is replaced by a new one.
SetAutoSaveInterval ==
    /\ alive /\ autosave /\ timer # "none" /\ titled /\ ~readonly
    /\ timer' = IF state \in NoTimerStates THEN "none" ELSE "live"
    /\ UNCHANGED autosave /\ TimerUnchanged

(***************************************************************************)

User ==
    \/ Edit \/ Load \/ Revert \/ RevertDialogResponse \/ CancelLoad
    \/ RetryLoad \/ GiveUpLoad \/ DismissRevertError
    \/ \E b \in BOOLEAN : AnswerAlreadyOpen(b)
    \/ FocusIn \/ Reload \/ IgnoreModification
    \/ Save \/ SaveAs \/ SaveDialogResponse \/ DismissSaveError
    \/ SaveWithoutBackup \/ SaveOverModification \/ SaveInOtherEncoding
    \/ PrintPreview \/ PrintDocument \/ PrintFromPreview
    \/ Close \/ SaveAndClose \/ CloseWithoutSaving \/ DoNotClose
    \/ SetAutoSaveEnabled \/ SetAutoSaveInterval

LoaderStep == LoaderFillsBuffer \/ LoaderSucceeds \/ LoaderCreates \/ LoaderFails
SaverStep  == SaverSucceeds \/ \E bar \in SavingBars : SaverFails(bar)
Idles      == RemoveTabIdle \/ ReallyCloseTab

Next ==
    \/ User \/ LoaderStep \/ SaverStep \/ Idles \/ AutoSave
    \/ LoadTakesLong \/ SaveTakesLong
    \/ ShowPreview \/ PrintFails \/ PrintJobDone
    \/ ForeignWrite \/ ForeignDelete \/ ChangePermissions

Spec == Init /\ [][Next]_vars

\* GIO completes what it was asked for, the main loop runs idles and timeouts.
Fairness ==
    /\ WF_vars(LoaderStep) /\ WF_vars(SaverStep)
    /\ WF_vars(Idles) /\ WF_vars(AutoSave)

FairSpec == Spec /\ Fairness


(***************************************************************************)
(* Properties.                                                             *)
(***************************************************************************)

\* Every variable keeps its type.
TypeOK ==
    /\ state \in States /\ area \in Bars \union {"none"} /\ orphans \subseteq Bars
    /\ editable \in BOOLEAN /\ not_editable \in BOOLEAN /\ ask \in BOOLEAN
    /\ autosave \in BOOLEAN /\ timer \in {"none", "live", "dead"}
    /\ tmp_encoding \in BOOLEAN /\ tmp_save_uri \in {"none", "own", "other"}
    /\ titled \in BOOLEAN /\ readonly \in BOOLEAN /\ modified \in BOOLEAN
    /\ loader \in {"none", "opening", "filling"} /\ saver \in Savers
    /\ disk \in {"same", "other", "absent"} /\ newer \in BOOLEAN /\ canWrite \in BOOLEAN
    /\ print_preview \in {"none", "shown", "destroyed"} /\ print_job \in BOOLEAN
    /\ dialog \in {"none", "revert", "save_as", "close"}
    /\ watching \in BOOLEAN /\ closeIdle \in BOOLEAN /\ removeIdle \in BOOLEAN
    /\ alive \in BOOLEAN

\* A loader is in flight exactly while the tab loads or reverts, a saver exactly
\* while it saves: no completion arrives unawaited (document_loaded and
\* document_saved assert it) and no busy tab waits for nothing.
OneOperation ==
    alive => /\ (loader # "none") <=> (state \in {"LOADING", "REVERTING"})
             /\ (saver # NoSaver) <=> (state = "SAVING")

\* In an error state the user is offered the way out that belongs to it, unless
\* the tab is about to go; the questions of one operation are never asked during
\* another.
BarMatchesState ==
    alive =>
       /\ state = "LOADING_ERROR" => area = "load_error" \/ removeIdle
       /\ state = "REVERTING_ERROR" => area = "revert_error" \/ removeIdle
       /\ (state = "SAVING_ERROR") <=> (area \in SavingBars)
       /\ (state = "EXTERNALLY_MODIFIED_NOTIFICATION") <=> (area = "notification")
       /\ (state \in {"PRINTING", "PRINT_PREVIEWING"}) <=> (area = "progress_print")

\* No autosave can fire while the tab loads, reverts, saves or waits for an answer
\* to an error: what document_loaded and document_saved assert of the timeout.
NoTimerWhileBusy ==
    alive /\ state \in NoTimerStates => timer = "none"

\* Autosave protects every document it is enabled for: whenever no operation or
\* error is in the way, a timeout is running.
AutosaveArmed ==
    alive /\ autosave /\ titled /\ ~readonly /\ state \notin NoTimerStates \union {"CLOSING"}
        => timer = "live"

\* What the last save left behind is reset when it is over; _lapiz_tab_save,
\* _lapiz_tab_save_as and lapiz_tab_auto_save assert it and otherwise do nothing.
TmpDataIsReset ==
    alive /\ state \notin BusyStates \union ErrorStates => TmpDataIsNull

\* A document that claims to be unmodified has its text in its file, unless the
\* file is gone or another program wrote it, which its mtime tells.
UnmodifiedIsSaved ==
    alive /\ titled /\ ~modified /\ loader = "none" /\ saver = NoSaver
          /\ state \notin ErrorStates
        => disk \in {"same", "absent"} \/ newer

\* A tab with modifications goes only when the user said so, or while what it
\* holds is being replaced from the file.
ModifiedTabsAreKept ==
    [][alive /\ ~alive' /\ modified /\ ShowSaveConfirmation =>
          \/ dialog = "close"
          \/ state \in {"LOADING", "LOADING_ERROR", "REVERTING", "REVERTING_ERROR"}]_vars

\* Loading, reverting and saving end.
OperationsEnd ==
    /\ state \in {"LOADING", "REVERTING"} ~> (~alive \/ state \notin {"LOADING", "REVERTING"})
    /\ state = "SAVING" ~> (~alive \/ state # "SAVING")

\* A document that stays modified, titled and writable with autosave on does not stay
\* unsaved: a save of it begins, also when other operations delayed the timeout.
AutosaveComes ==
    (alive /\ modified /\ titled /\ ~readonly /\ autosave /\ state = "NORMAL")
        ~> (~alive \/ ~modified \/ readonly \/ ~autosave \/ state # "NORMAL")

\* Nothing stays as it is that must not: operations end, and modifications are saved.
TabComesToRest == OperationsEnd /\ AutosaveComes

\* The answer to a save that failed saves to where the user asked for: Save anyway
\* and another encoding after a Save As write the file of that Save As.
SavesWhereAsked ==
    alive /\ state = "SAVING" /\ saver # NoSaver => saver.to = tmp_save_uri

\* An operation that is over has left the tab ready for the next one and for
\* the next autosave.
ReadyAgain == TmpDataIsReset /\ AutosaveArmed
=============================================================================
