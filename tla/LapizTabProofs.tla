---------------------------- MODULE LapizTabProofs ----------------------------
(* Theorems about a tab: its state machine, LapizTab, and searching in it,   *)
(* Search. Of LapizTab, for every World: the types, and that no autosave     *)
(* timeout is pending while the tab is busy or in an error state. For every  *)
(* World in which bars do not outlive what they ask about (no second tab     *)
(* with the file, no failed backup, no print error): one operation at a      *)
(* time, the bar that belongs to the state, saves that go where they were    *)
(* asked to go, and no tab with modifications goes unasked. Where loads of a *)
(* loaded file do not fail: unmodified means saved, and the tab is ready     *)
(* again after every operation. Of Search, for all texts: the marks stay in  *)
(* the text and the region in order, and Escape puts the search back.        *)
EXTENDS LapizTab, Search, SequenceLemmas

(***************************************************************************)
(* The bars of an error state are shown in it only, so that answering one   *)
(* starts an operation without a timeout.                                  *)
(***************************************************************************)

ErrorBarsFit ==
    alive => /\ area = "load_error" => state = "LOADING_ERROR"
             /\ area \in SavingBars => state = "SAVING_ERROR"

\* TypeOK in two halves: the flags, and everything else.
FlagsOK ==
    /\ editable \in BOOLEAN /\ not_editable \in BOOLEAN /\ ask \in BOOLEAN
    /\ autosave \in BOOLEAN /\ tmp_encoding \in BOOLEAN
    /\ titled \in BOOLEAN /\ readonly \in BOOLEAN /\ modified \in BOOLEAN
    /\ newer \in BOOLEAN /\ canWrite \in BOOLEAN /\ print_job \in BOOLEAN
    /\ watching \in BOOLEAN /\ closeIdle \in BOOLEAN /\ removeIdle \in BOOLEAN
    /\ alive \in BOOLEAN

Timers == {"none", "live", "dead"}

ValuesOK ==
    /\ state \in States /\ area \in Bars \union {"none"} /\ orphans \subseteq Bars
    /\ timer \in Timers
    /\ tmp_save_uri \in {"none", "own", "other"}
    /\ loader \in {"none", "opening", "filling"} /\ saver \in Savers
    /\ disk \in {"same", "other", "absent"}
    /\ print_preview \in {"none", "shown", "destroyed"}
    /\ dialog \in {"none", "revert", "save_as", "close"}

IInv == FlagsOK /\ ValuesOK /\ NoTimerWhileBusy /\ ErrorBarsFit

(***************************************************************************)
(* The worlds without surprises, and what holds of a tab in them.           *)
(***************************************************************************)

Plain == {"duplicate", "no_backup", "print_error"} \intersect World = {}

\* Which bars a state may show.
BarFits ==
    /\ state \in {"NORMAL", "SHOWING_PRINT_PREVIEW", "CLOSING"} => area = "none"
    /\ state \in {"LOADING", "REVERTING"} => area \in {"none", "progress_load"}
    /\ state = "SAVING" => area \in {"none", "progress_save"}
    /\ state \in {"PRINTING", "PRINT_PREVIEWING"} => area = "progress_print"
    /\ state = "EXTERNALLY_MODIFIED_NOTIFICATION" => area = "notification"
    /\ state = "SAVING_ERROR" => area \in SavingBars \ {"no_backup"}
    /\ state = "LOADING_ERROR" /\ ~removeIdle => area = "load_error"
    /\ state = "REVERTING_ERROR" /\ ~removeIdle => area = "revert_error"
    /\ state \in {"LOADING_ERROR", "REVERTING_ERROR"} /\ removeIdle => area = "none"
    /\ orphans = {}

\* What was handed to the saver is there until the save is over, and only a
\* document with a uri is saved in place.
SaveDataFits ==
    /\ state \in {"SAVING", "SAVING_ERROR"} => tmp_save_uri # "none" /\ tmp_encoding
    /\ saver.to = "own" \/ tmp_save_uri = "own" => titled
    /\ area = "externally_modified" => titled

\* A tab waits to be removed only in the error states of a load, and to be closed
\* only without modifications.
EndsFit ==
    /\ removeIdle => state \in {"LOADING_ERROR", "REVERTING_ERROR"}
    /\ state = "CLOSING" => ~modified /\ ~editable

Calm == OneOperation /\ (alive => BarFits /\ SaveDataFits /\ EndsFit)

USE DEF viewVars, tmpVars, docVars, fileVars, printVars, watchVars

(***************************************************************************)
(* What the handlers' machinery does to the flags.                         *)
(***************************************************************************)

LEMMA SetStateFlags ==
  ASSUME editable \in BOOLEAN, NEW s, SetState(s) PROVE editable' \in BOOLEAN
  <1>1. EditableIn(s) \in BOOLEAN BY Zenon DEF EditableIn
  <1>. QED BY <1>1, Zenon DEF SetState

LEMMA SetStateNormalFlags ==
  ASSUME FlagsOK, SetStateNormal
  PROVE  editable' \in BOOLEAN /\ watching' \in BOOLEAN /\ closeIdle' \in BOOLEAN
  <1>1. EditableIn(state') \in BOOLEAN BY Zenon DEF EditableIn
  <1>2. editable' \in BOOLEAN BY <1>1, Zenon DEF SetStateNormal, FlagsOK
  <1>3. watching' \in BOOLEAN BY Zenon DEF SetStateNormal
  <1>4. closeIdle' \in BOOLEAN BY Zenon DEF SetStateNormal
  <1>. QED BY <1>2, <1>3, <1>4, Zenon

LEMMA SetStateAfterSavingFlags ==
  ASSUME FlagsOK, SetStateAfterSaving
  PROVE  editable' \in BOOLEAN /\ watching' \in BOOLEAN /\ closeIdle' \in BOOLEAN
  <1>1. CASE print_preview # "none"
    BY <1>1, SetStateFlags, Zenon DEF SetStateAfterSaving, FlagsOK
  <1>2. CASE print_preview = "none"
    BY <1>2, SetStateNormalFlags, Zenon DEF SetStateAfterSaving
  <1>. QED BY <1>1, <1>2, Zenon

LEMMA RemoveTabFlags == ASSUME FlagsOK, RemoveTab PROVE FlagsOK'
  <1>1. alive' \in BOOLEAN BY Zenon DEF RemoveTab
  <1>. QED BY <1>1, SMT DEF FlagsOK, RemoveTab

LEMMA TabRevertFlags ==
  ASSUME FlagsOK, TabRevert
  PROVE  editable' \in BOOLEAN /\ not_editable' \in BOOLEAN /\ tmp_encoding' \in BOOLEAN
  BY SetStateFlags, Zenon DEF FlagsOK, TabRevert

LEMMA SaveRefusedFlags ==
  ASSUME FlagsOK, SaveRefused PROVE editable' \in BOOLEAN /\ tmp_encoding' \in BOOLEAN
  BY Zenon DEF FlagsOK, SaveRefused

LEMMA StartSavingFlags ==
  ASSUME FlagsOK, NEW to, NEW ignoreMtime, StartSaving(to, ignoreMtime)
  PROVE  editable' \in BOOLEAN /\ tmp_encoding' \in BOOLEAN
  BY SetStateFlags, Zenon DEF FlagsOK, StartSaving

LEMMA FileSaveFlags ==
  ASSUME FlagsOK, FileSave PROVE editable' \in BOOLEAN /\ tmp_encoding' \in BOOLEAN
  BY SaveRefusedFlags, StartSavingFlags, Zenon DEF FileSave, TabSave

LEMMA TabSaveAsFlags ==
  ASSUME FlagsOK, NEW to, TabSaveAs(to)
  PROVE  editable' \in BOOLEAN /\ tmp_encoding' \in BOOLEAN
  BY SaveRefusedFlags, StartSavingFlags, Zenon DEF TabSaveAs

LEMMA DocumentLoadedFlags ==
  ASSUME FlagsOK, NEW shared \in BOOLEAN, DocumentLoaded(shared)
  PROVE  /\ editable' \in BOOLEAN /\ not_editable' \in BOOLEAN
         /\ tmp_encoding' \in BOOLEAN /\ ask' \in BOOLEAN
         /\ watching' \in BOOLEAN /\ closeIdle' \in BOOLEAN
  <1>1. CASE LoadedIsAwaited
    BY <1>1, SetStateNormalFlags, Zenon DEF DocumentLoaded, FlagsOK
  <1>2. CASE ~LoadedIsAwaited BY <1>2, Zenon DEF DocumentLoaded, FlagsOK
  <1>. QED BY <1>1, <1>2

\* Every step keeps the flags Boolean.
LEMMA FlagsKept ==
  ASSUME FlagsOK, Next
  PROVE  FlagsOK'
  <1> USE DEF FlagsOK
  <1>1. ASSUME Load PROVE FlagsOK'
    BY <1>1, SetStateFlags, ZenonT(30) DEF Load
  <1>2. ASSUME Revert PROVE FlagsOK'
    <2>1. editable' \in BOOLEAN /\ not_editable' \in BOOLEAN /\ tmp_encoding' \in BOOLEAN
      BY <1>2, TabRevertFlags, Zenon DEF Revert
    <2>. QED BY <1>2, <2>1, SMT DEF Revert, TabRevert
  <1>3. ASSUME RevertDialogResponse PROVE FlagsOK'
    <2>1. editable' \in BOOLEAN /\ not_editable' \in BOOLEAN /\ tmp_encoding' \in BOOLEAN
      BY <1>3, TabRevertFlags, Zenon DEF RevertDialogResponse
    <2>. QED BY <1>3, <2>1, SMT DEF RevertDialogResponse, TabRevert
  <1>4. ASSUME LoadTakesLong PROVE FlagsOK'
    BY <1>4, SMT DEF LoadTakesLong
  <1>5. ASSUME LoaderFillsBuffer PROVE FlagsOK'
    BY <1>5, ZenonT(30) DEF LoaderFillsBuffer
  <1>6. ASSUME LoaderSucceeds PROVE FlagsOK'
    BY <1>6, DocumentLoadedFlags, ZenonT(30) DEF LoaderSucceeds
  <1>7. ASSUME LoaderCreates PROVE FlagsOK'
    BY <1>7, DocumentLoadedFlags, ZenonT(30) DEF LoaderCreates
  <1>8. ASSUME LoaderFails PROVE FlagsOK'
    BY <1>8, SetStateFlags, ZenonT(30) DEF LoaderFails
  <1>9. ASSUME CancelLoad PROVE FlagsOK'
    BY <1>9, SetStateFlags, ZenonT(30) DEF CancelLoad
  <1>10. ASSUME RemoveTabIdle PROVE FlagsOK'
    BY <1>10, RemoveTabFlags, ZenonT(30) DEF RemoveTabIdle
  <1>11. ASSUME RetryLoad PROVE FlagsOK'
    BY <1>11, SetStateFlags, ZenonT(30) DEF RetryLoad
  <1>12. ASSUME GiveUpLoad PROVE FlagsOK'
    BY <1>12, RemoveTabFlags, ZenonT(30) DEF GiveUpLoad
  <1>13. ASSUME DismissRevertError PROVE FlagsOK'
    BY <1>13, SetStateNormalFlags, ZenonT(30) DEF DismissRevertError
  <1>14. ASSUME NEW b \in BOOLEAN, AnswerAlreadyOpen(b) PROVE FlagsOK'
    <2>1. editable' \in BOOLEAN /\ not_editable' \in BOOLEAN
      BY <1>14, Zenon DEF AnswerAlreadyOpen
    <2>. QED BY <1>14, <2>1, SMT DEF AnswerAlreadyOpen
  <1>15. ASSUME FocusIn PROVE FlagsOK'
    BY <1>15, SetStateFlags, ZenonT(30) DEF FocusIn
  <1>16. ASSUME Reload PROVE FlagsOK'
    BY <1>16, SetStateFlags, ZenonT(30) DEF Reload
  <1>17. ASSUME IgnoreModification PROVE FlagsOK'
    BY <1>17, SetStateNormalFlags, ZenonT(30) DEF IgnoreModification
  <1>18. ASSUME Save PROVE FlagsOK'
    BY <1>18, FileSaveFlags, ZenonT(30) DEF Save
  <1>19. ASSUME SaveAs PROVE FlagsOK'
    BY <1>19, SMT DEF SaveAs
  <1>20. ASSUME SaveDialogResponse PROVE FlagsOK'
    BY <1>20, SaveRefusedFlags, TabSaveAsFlags, ZenonT(30) DEF SaveDialogResponse
  <1>21. ASSUME AutoSave PROVE FlagsOK'
    BY <1>21, SetStateFlags, ZenonT(30) DEF AutoSave
  <1>22. ASSUME SaveTakesLong PROVE FlagsOK'
    BY <1>22, SMT DEF SaveTakesLong
  <1>23. ASSUME SaverSucceeds PROVE FlagsOK'
    BY <1>23, SetStateAfterSavingFlags, ZenonT(30) DEF SaverSucceeds, EndSaving
  <1>24. ASSUME NEW bar \in SavingBars, SaverFails(bar) PROVE FlagsOK'
    BY <1>24, SetStateFlags, ZenonT(30) DEF SaverFails
  <1>25. ASSUME DismissSaveError PROVE FlagsOK'
    BY <1>25, SetStateAfterSavingFlags, ZenonT(30) DEF DismissSaveError, EndSaving
  <1>26. ASSUME SaveWithoutBackup PROVE FlagsOK'
    BY <1>26, SetStateFlags, ZenonT(30) DEF SaveWithoutBackup, ResumeSaving, ResaveInPlace
  <1>27. ASSUME SaveOverModification PROVE FlagsOK'
    BY <1>27, SetStateFlags, ZenonT(30) DEF SaveOverModification, ResumeSaving, ResaveInPlace
  <1>28. ASSUME SaveInOtherEncoding PROVE FlagsOK'
    BY <1>28, SetStateFlags, ZenonT(30) DEF SaveInOtherEncoding, ResumeSaving
  <1>29. ASSUME PrintPreview PROVE FlagsOK'
    BY <1>29, SetStateFlags, ZenonT(30) DEF PrintPreview, StartPrinting, PrintUnchanged
  <1>30. ASSUME PrintDocument PROVE FlagsOK'
    BY <1>30, SetStateFlags, ZenonT(30) DEF PrintDocument, StartPrinting, PrintUnchanged
  <1>31. ASSUME PrintFromPreview PROVE FlagsOK'
    BY <1>31, SetStateNormalFlags, SetStateFlags, ZenonT(30)
       DEF PrintFromPreview, StartPrinting
  <1>32. ASSUME PrintFails PROVE FlagsOK'
    BY <1>32, SetStateNormalFlags, ZenonT(30) DEF PrintFails
  <1>33. ASSUME ShowPreview PROVE FlagsOK'
    BY <1>33, SetStateFlags, ZenonT(30) DEF ShowPreview, PrintUnchanged
  <1>34. ASSUME PrintJobDone PROVE FlagsOK'
    BY <1>34, SetStateNormalFlags, ZenonT(30) DEF PrintJobDone
  <1>35. ASSUME Close PROVE FlagsOK'
    <2>1. CASE CanClose BY <1>35, <2>1, RemoveTabFlags, Zenon DEF Close
    <2>2. CASE ~CanClose BY <1>35, <2>2, SMT DEF Close
    <2>. QED BY <2>1, <2>2
  <1>36. ASSUME SaveAndClose PROVE FlagsOK'
    BY <1>36, FileSaveFlags, ZenonT(30) DEF SaveAndClose
  <1>37. ASSUME CloseWithoutSaving PROVE FlagsOK'
    BY <1>37, RemoveTabFlags, ZenonT(30) DEF CloseWithoutSaving
  <1>38. ASSUME DoNotClose PROVE FlagsOK'
    BY <1>38, SMT DEF DoNotClose
  <1>39. ASSUME ReallyCloseTab PROVE FlagsOK'
    BY <1>39, RemoveTabFlags, ZenonT(30) DEF ReallyCloseTab
  <1>40. ASSUME Edit PROVE FlagsOK'
    BY <1>40, ZenonT(30) DEF Edit
  <1>41. ASSUME ForeignWrite PROVE FlagsOK'
    BY <1>41, ZenonT(30) DEF ForeignWrite, ForeignStep
  <1>42. ASSUME ForeignDelete PROVE FlagsOK'
    BY <1>42, ZenonT(30) DEF ForeignDelete, ForeignStep
  <1>43. ASSUME ChangePermissions PROVE FlagsOK'
    BY <1>43, ZenonT(30) DEF ChangePermissions, ForeignStep
  <1>44. ASSUME SetAutoSaveEnabled PROVE FlagsOK'
    BY <1>44, ZenonT(30) DEF SetAutoSaveEnabled, TimerUnchanged
  <1>45. ASSUME SetAutoSaveInterval PROVE FlagsOK'
    BY <1>45, ZenonT(30) DEF SetAutoSaveInterval, TimerUnchanged
  <1>. QED BY <1>1, <1>2, <1>3, <1>4, <1>5, <1>6, <1>7, <1>8, <1>9, <1>10, <1>11,
              <1>12, <1>13, <1>14, <1>15, <1>16, <1>17, <1>18, <1>19, <1>20, <1>21,
              <1>22, <1>23, <1>24, <1>25, <1>26, <1>27, <1>28, <1>29, <1>30, <1>31,
              <1>32, <1>33, <1>34, <1>35, <1>36, <1>37, <1>38, <1>39, <1>40, <1>41,
              <1>42, <1>43, <1>44, <1>45,
              SMTT(30) DEF Next, User, LoaderStep, SaverStep, Idles

(***************************************************************************)
(* The other types.                                                        *)
(***************************************************************************)

SaveTypes ==
    /\ state \in States /\ area \in Bars \union {"none"} /\ saver \in Savers
    /\ timer \in Timers /\ tmp_save_uri \in {"none", "own", "other"}

LEMMA NoSaverType == NoSaver \in Savers BY Zenon DEF Savers

LEMMA ForgottenTypes == ASSUME ValuesOK PROVE Forgotten \subseteq Bars
  BY SMT DEF ValuesOK, Forgotten

LEMMA RemoveTabValues == ASSUME ValuesOK, RemoveTab PROVE ValuesOK'
  BY SMT DEF ValuesOK, RemoveTab, Timers

LEMMA DocumentSaveType ==
  ASSUME saver \in Savers, NEW to \in {"own", "other"}, NEW ignoreMtime \in BOOLEAN,
         DocumentSave(to, ignoreMtime)
  PROVE  saver' \in Savers
  <1>1. [to |-> to, ignoreMtime |-> ignoreMtime, exact |-> TRUE] \in Savers
    BY Zenon DEF Savers
  <1>. QED BY <1>1, Zenon DEF DocumentSave

LEMMA SaveRefusedTypes == ASSUME ValuesOK, SaveRefused PROVE SaveTypes'
  BY SMT DEF ValuesOK, SaveRefused, SaveTypes

LEMMA StartSavingTypes ==
  ASSUME ValuesOK, NEW to \in {"own", "other"}, NEW ignoreMtime \in BOOLEAN,
         StartSaving(to, ignoreMtime)
  PROVE  SaveTypes'
  <1>1. saver' \in Savers BY DocumentSaveType, Zenon DEF ValuesOK, StartSaving
  <1>. QED
    BY <1>1, SMT
       DEF ValuesOK, StartSaving, SaveTypes, SetState, RemoveTimer, States, BusyStates,
           Timers

LEMMA FileSaveTypes ==
  ASSUME ValuesOK, FileSave
  PROVE  SaveTypes' /\ dialog' \in {"none", "revert", "save_as", "close"}
  <1>1. (state = "EXTERNALLY_MODIFIED_NOTIFICATION") \in BOOLEAN BY Zenon
  <1>2. TabSave => SaveTypes' BY <1>1, SaveRefusedTypes, StartSavingTypes, Zenon DEF TabSave
  <1>. QED BY <1>2, SaveRefusedTypes, Zenon DEF FileSave

LEMMA TabSaveAsTypes ==
  ASSUME ValuesOK, NEW to \in {"own", "other"}, TabSaveAs(to) PROVE SaveTypes'
  BY SaveRefusedTypes, StartSavingTypes, Zenon DEF TabSaveAs

LEMMA ResaveType ==
  ASSUME ValuesOK, NEW ignoreMtime \in BOOLEAN, ResaveInPlace(ignoreMtime)
  PROVE  saver' \in Savers
  BY DocumentSaveType, Zenon DEF ValuesOK, ResaveInPlace

\* Typing during a save only spoils what the saver will leave behind.
LEMMA EditedSaver ==
  ASSUME saver \in Savers, saver # NoSaver
  PROVE  [saver EXCEPT !.exact = FALSE] \in Savers
  <1> DEFINE Real == [to: {"own", "other"}, ignoreMtime: BOOLEAN, exact: BOOLEAN]
  <1>1. saver \in Real BY Zenon DEF Savers
  <1>2. [saver EXCEPT !.exact = FALSE] \in Real BY <1>1, Zenon
  <1>. QED BY <1>2, Zenon DEF Savers

\* Every step keeps the other types.
LEMMA ValuesKept ==
  ASSUME ValuesOK, Next
  PROVE  ValuesOK'
  <1> USE DEF ValuesOK, Timers, States, BusyStates, ErrorStates, PrintStates, Bars,
              SavingBars
  <1>1. ASSUME Load PROVE ValuesOK'
    BY <1>1, SMT DEF Load, SetState, RemoveTimer, DocumentLoad
  <1>2. ASSUME Revert PROVE ValuesOK'
    BY <1>2, SMT DEF Revert, TabRevert, SetState, RemoveTimer, DocumentLoad
  <1>3. ASSUME RevertDialogResponse PROVE ValuesOK'
    BY <1>3, SMT DEF RevertDialogResponse, TabRevert, SetState, RemoveTimer, DocumentLoad
  <1>4. ASSUME LoadTakesLong PROVE ValuesOK'
    BY <1>4, SMT DEF LoadTakesLong
  <1>5. ASSUME LoaderFillsBuffer PROVE ValuesOK'
    BY <1>5, SMT DEF LoaderFillsBuffer
  <1>6. ASSUME LoaderSucceeds PROVE ValuesOK'
    BY <1>6, SMT DEF LoaderSucceeds, DocumentLoaded, SetStateNormal, InstallTimerIfNeeded
  <1>7. ASSUME LoaderCreates PROVE ValuesOK'
    BY <1>7, SMT DEF LoaderCreates, DocumentLoaded, SetStateNormal, InstallTimerIfNeeded
  <1>8. ASSUME LoaderFails PROVE ValuesOK'
    BY <1>8, SMT DEF LoaderFails, SetState
  <1>9. ASSUME CancelLoad PROVE ValuesOK'
    BY <1>9, SMT DEF CancelLoad, SetState
  <1>10. ASSUME RemoveTabIdle PROVE ValuesOK'
    BY <1>10, RemoveTabValues, SMT DEF RemoveTabIdle
  <1>11. ASSUME RetryLoad PROVE ValuesOK'
    BY <1>11, SMT DEF RetryLoad, SetState, DocumentLoad
  <1>12. ASSUME GiveUpLoad PROVE ValuesOK'
    BY <1>12, RemoveTabValues, SMT DEF GiveUpLoad
  <1>13. ASSUME DismissRevertError PROVE ValuesOK'
    BY <1>13, SMT DEF DismissRevertError, SetStateNormal, InstallTimerIfNeeded
  <1>14. ASSUME NEW b \in BOOLEAN, AnswerAlreadyOpen(b) PROVE ValuesOK'
    BY <1>14, SMT DEF AnswerAlreadyOpen
  <1>15. ASSUME FocusIn PROVE ValuesOK'
    <2>1. orphans' \subseteq Bars BY <1>15, ForgottenTypes, Zenon DEF FocusIn
    <2>. QED BY <1>15, <2>1, SMT DEF FocusIn, SetState
  <1>16. ASSUME Reload PROVE ValuesOK'
    BY <1>16, SMT DEF Reload, SetState, RemoveTimer, DocumentLoad
  <1>17. ASSUME IgnoreModification PROVE ValuesOK'
    BY <1>17, SMT DEF IgnoreModification, SetStateNormal
  <1>18. ASSUME Save PROVE ValuesOK'
    BY <1>18, FileSaveTypes, SMT DEF Save, SaveTypes
  <1>19. ASSUME SaveAs PROVE ValuesOK'
    BY <1>19, SMT DEF SaveAs
  <1>20. ASSUME SaveDialogResponse PROVE ValuesOK'
    BY <1>20, SaveRefusedTypes, TabSaveAsTypes, SMT DEF SaveDialogResponse, SaveTypes
  <1>21. ASSUME AutoSave PROVE ValuesOK'
    <2>1. saver' \in Savers BY <1>21, DocumentSaveType, Zenon DEF AutoSave
    <2>. QED BY <1>21, <2>1, SMT DEF AutoSave, DocumentSave, SetState
  <1>22. ASSUME SaveTakesLong PROVE ValuesOK'
    BY <1>22, SMT DEF SaveTakesLong
  <1>23. ASSUME SaverSucceeds PROVE ValuesOK'
    BY <1>23, NoSaverType, SMT
       DEF SaverSucceeds, SetStateAfterSaving, SetState, SetStateNormal, EndSaving,
           InstallTimerIfNeeded
  <1>24. ASSUME NEW bar \in SavingBars, SaverFails(bar) PROVE ValuesOK'
    BY <1>24, NoSaverType, SMT DEF SaverFails, SetState
  <1>25. ASSUME DismissSaveError PROVE ValuesOK'
    BY <1>25, SMT
       DEF DismissSaveError, SetStateAfterSaving, SetState, SetStateNormal,
           EndSaving, InstallTimerIfNeeded
  <1>26. ASSUME SaveWithoutBackup PROVE ValuesOK'
    <2>1. saver' \in Savers BY <1>26, ResaveType, Zenon DEF SaveWithoutBackup
    <2>. QED
      BY <1>26, <2>1, SMT DEF SaveWithoutBackup, ResaveInPlace, DocumentSave, ResumeSaving, SetState
  <1>27. ASSUME SaveOverModification PROVE ValuesOK'
    <2>1. saver' \in Savers BY <1>27, ResaveType, Zenon DEF SaveOverModification
    <2>. QED
      BY <1>27, <2>1, SMT DEF SaveOverModification, ResaveInPlace, DocumentSave, ResumeSaving, SetState
  <1>28. ASSUME SaveInOtherEncoding PROVE ValuesOK'
    <2>1. CASE tmp_save_uri = "none"
      BY <1>28, <2>1, SMT DEF SaveInOtherEncoding, ResumeSaving
    <2>2. CASE tmp_save_uri # "none"
      <3>1. tmp_save_uri \in {"own", "other"} BY <2>2, SMT
      <3>2. saver' \in Savers BY <1>28, <2>2, <3>1, DocumentSaveType, Zenon DEF SaveInOtherEncoding
      <3>. QED
        BY <1>28, <2>2, <3>2, SMT DEF SaveInOtherEncoding, DocumentSave, ResumeSaving, SetState
    <2>. QED BY <2>1, <2>2
  <1>29. ASSUME PrintPreview PROVE ValuesOK'
    BY <1>29, SMT DEF PrintPreview, StartPrinting, SetState, PrintUnchanged
  <1>30. ASSUME PrintDocument PROVE ValuesOK'
    BY <1>30, SMT DEF PrintDocument, StartPrinting, SetState, PrintUnchanged
  <1>31. ASSUME PrintFromPreview PROVE ValuesOK'
    BY <1>31, SMT DEF PrintFromPreview, SetStateNormal, StartPrinting, SetState
  <1>32. ASSUME PrintFails PROVE ValuesOK'
    BY <1>32, SMT DEF PrintFails, SetStateNormal
  <1>33. ASSUME ShowPreview PROVE ValuesOK'
    BY <1>33, SMT DEF ShowPreview, SetState, PrintUnchanged
  <1>34. ASSUME PrintJobDone PROVE ValuesOK'
    <2>1. CASE state \in PrintStates BY <1>34, <2>1, SMT DEF PrintJobDone, SetStateNormal
    <2>2. CASE state \notin PrintStates BY <1>34, <2>2, SMT DEF PrintJobDone
    <2>. QED BY <2>1, <2>2
  <1>35. ASSUME Close PROVE ValuesOK'
    <2>1. CASE CanClose BY <1>35, <2>1, RemoveTabValues, Zenon DEF Close
    <2>2. CASE ~CanClose
      <3>1. /\ dialog' = "close"
            /\ UNCHANGED <<state, area, orphans, timer, tmpVars, loader, saver, fileVars,
                           printVars>>
        BY <1>35, <2>2, Zenon DEF Close
      <3>. QED BY <3>1, SMT
    <2>. QED BY <2>1, <2>2
  <1>36. ASSUME SaveAndClose PROVE ValuesOK'
    BY <1>36, FileSaveTypes, SMT DEF SaveAndClose, SaveTypes
  <1>37. ASSUME CloseWithoutSaving PROVE ValuesOK'
    BY <1>37, RemoveTabValues, SMT DEF CloseWithoutSaving
  <1>38. ASSUME DoNotClose PROVE ValuesOK'
    BY <1>38, SMT DEF DoNotClose
  <1>39. ASSUME ReallyCloseTab PROVE ValuesOK'
    <2>1. CASE state = "CLOSING" BY <1>39, <2>1, RemoveTabValues, Zenon DEF ReallyCloseTab
    <2>2. CASE state # "CLOSING"
      <3>1. UNCHANGED <<state, area, orphans, timer, tmpVars, loader, saver, fileVars,
                        printVars, dialog>>
        BY <1>39, <2>2, Zenon DEF ReallyCloseTab
      <3>. QED BY <3>1, SMT
    <2>. QED BY <2>1, <2>2
  <1>40. ASSUME Edit PROVE ValuesOK'
    <2>1. saver' \in Savers BY <1>40, EditedSaver, Zenon DEF Edit
    <2>. QED BY <1>40, <2>1, SMT DEF Edit
  <1>41. ASSUME ForeignWrite PROVE ValuesOK'
    BY <1>41, SMT DEF ForeignWrite, ForeignStep
  <1>42. ASSUME ForeignDelete PROVE ValuesOK'
    BY <1>42, SMT DEF ForeignDelete, ForeignStep
  <1>43. ASSUME ChangePermissions PROVE ValuesOK'
    BY <1>43, SMT DEF ChangePermissions, ForeignStep
  <1>44. ASSUME SetAutoSaveEnabled PROVE ValuesOK'
    BY <1>44, SMT DEF SetAutoSaveEnabled, TimerUnchanged
  <1>45. ASSUME SetAutoSaveInterval PROVE ValuesOK'
    BY <1>45, SMT DEF SetAutoSaveInterval, TimerUnchanged
  <1>. QED BY <1>1, <1>2, <1>3, <1>4, <1>5, <1>6, <1>7, <1>8, <1>9, <1>10, <1>11,
              <1>12, <1>13, <1>14, <1>15, <1>16, <1>17, <1>18, <1>19, <1>20, <1>21,
              <1>22, <1>23, <1>24, <1>25, <1>26, <1>27, <1>28, <1>29, <1>30, <1>31,
              <1>32, <1>33, <1>34, <1>35, <1>36, <1>37, <1>38, <1>39, <1>40, <1>41,
              <1>42, <1>43, <1>44, <1>45,
              SMTT(30) DEF Next, User, LoaderStep, SaverStep, Idles

(***************************************************************************)
(* No timeout while the tab is busy, in every World.                       *)
(***************************************************************************)

LEMMA RemovedTabHasNoTimer ==
  ASSUME RemoveTab PROVE NoTimerWhileBusy' /\ ErrorBarsFit'
  <1>1. ~alive' BY Zenon DEF RemoveTab
  <1>. QED BY <1>1, Zenon DEF NoTimerWhileBusy, ErrorBarsFit

\* A save in place removes the timeout, or is refused.
LEMMA FileSaveTimer ==
  ASSUME FileSave
  PROVE  \/ UNCHANGED <<state, area, timer>>
         \/ /\ state \in SavableStates /\ state' = "SAVING"
            /\ timer' = "none" /\ area' \in {area, "none"}
  <1>1. TabSave \/ SaveRefused BY Zenon DEF FileSave
  <1>2. CASE SaveRefused BY <1>2, Zenon DEF SaveRefused
  <1>3. CASE TabSave /\ ~SaveRefused
    <2>1. state \in SavableStates /\ \E i \in {state = "EXTERNALLY_MODIFIED_NOTIFICATION"} :
              StartSaving("own", i)
      BY <1>3, Zenon DEF TabSave
    <2>. QED BY <2>1, Zenon DEF StartSaving, SetState, RemoveTimer
  <1>. QED BY <1>1, <1>2, <1>3

LEMMA TabSaveAsTimer ==
  ASSUME NEW to, TabSaveAs(to)
  PROVE  \/ UNCHANGED <<state, area, timer>>
         \/ /\ state \in SavableStates /\ state' = "SAVING"
            /\ timer' = "none" /\ area' \in {area, "none"}
  <1>1. CASE SaveRefused BY <1>1, Zenon DEF SaveRefused
  <1>2. CASE ~SaveRefused
    <2>1. state \in SavableStates /\ \E i \in {TRUE} : StartSaving(to, i)
      BY <1>2, Zenon DEF TabSaveAs
    <2>. QED BY <2>1, Zenon DEF StartSaving, SetState, RemoveTimer
  <1>. QED BY <1>1, <1>2

\* A step that starts an operation or ends in an error removes the timeout or finds
\* none; the handlers that install one do so outside these states only.
LEMMA NoTimerKept ==
  ASSUME NoTimerWhileBusy, ErrorBarsFit, Next
  PROVE  NoTimerWhileBusy' /\ ErrorBarsFit'
  <1> USE DEF NoTimerWhileBusy, ErrorBarsFit, NoTimerStates, BusyStates,
              ErrorStates, SavingBars
  <1>1. ASSUME Load PROVE NoTimerWhileBusy' /\ ErrorBarsFit'
    BY <1>1, SMT DEF Load, UserActs, SetState, RemoveTimer
  <1>2. ASSUME Revert PROVE NoTimerWhileBusy' /\ ErrorBarsFit'
    BY <1>2, SMT DEF Revert, UserActs, TabRevert, SetState, RemoveTimer
  <1>3. ASSUME RevertDialogResponse PROVE NoTimerWhileBusy' /\ ErrorBarsFit'
    BY <1>3, SMT DEF RevertDialogResponse, TabRevert, SetState, RemoveTimer
  <1>4. ASSUME LoadTakesLong PROVE NoTimerWhileBusy' /\ ErrorBarsFit'
    BY <1>4, SMT DEF LoadTakesLong
  <1>5. ASSUME LoaderFillsBuffer PROVE NoTimerWhileBusy' /\ ErrorBarsFit'
    BY <1>5, SMT DEF LoaderFillsBuffer
  <1>6. ASSUME LoaderSucceeds PROVE NoTimerWhileBusy' /\ ErrorBarsFit'
    BY <1>6, SMT
       DEF LoaderSucceeds, DocumentLoaded, LoadedIsAwaited, SetStateNormal,
           InstallTimerIfNeeded
  <1>7. ASSUME LoaderCreates PROVE NoTimerWhileBusy' /\ ErrorBarsFit'
    BY <1>7, SMT
       DEF LoaderCreates, DocumentLoaded, LoadedIsAwaited, SetStateNormal,
           InstallTimerIfNeeded
  <1>8. ASSUME LoaderFails PROVE NoTimerWhileBusy' /\ ErrorBarsFit'
    BY <1>8, SMT DEF LoaderFails, LoadedIsAwaited, SetState
  <1>9. ASSUME CancelLoad PROVE NoTimerWhileBusy' /\ ErrorBarsFit'
    BY <1>9, SMT DEF CancelLoad, UserActs, LoadedIsAwaited, SetState
  <1>10. ASSUME RemoveTabIdle PROVE NoTimerWhileBusy' /\ ErrorBarsFit'
    BY <1>10, RemovedTabHasNoTimer, SMT DEF RemoveTabIdle
  <1>11. ASSUME RetryLoad PROVE NoTimerWhileBusy' /\ ErrorBarsFit'
    BY <1>11, SMT DEF RetryLoad, UserActs, SetState
  <1>12. ASSUME GiveUpLoad PROVE NoTimerWhileBusy' /\ ErrorBarsFit'
    BY <1>12, RemovedTabHasNoTimer, SMT DEF GiveUpLoad, UserActs
  <1>13. ASSUME DismissRevertError PROVE NoTimerWhileBusy' /\ ErrorBarsFit'
    BY <1>13, SMT DEF DismissRevertError, UserActs, SetStateNormal, InstallTimerIfNeeded
  <1>14. ASSUME NEW b \in BOOLEAN, AnswerAlreadyOpen(b) PROVE NoTimerWhileBusy' /\ ErrorBarsFit'
    BY <1>14, SMT DEF AnswerAlreadyOpen, UserActs
  <1>15. ASSUME FocusIn PROVE NoTimerWhileBusy' /\ ErrorBarsFit'
    BY <1>15, SMT DEF FocusIn, UserActs, SetState, Forgotten
  <1>16. ASSUME Reload PROVE NoTimerWhileBusy' /\ ErrorBarsFit'
    BY <1>16, SMT DEF Reload, UserActs, SetState, RemoveTimer
  <1>17. ASSUME IgnoreModification PROVE NoTimerWhileBusy' /\ ErrorBarsFit'
    BY <1>17, SMT DEF IgnoreModification, UserActs, SetStateNormal
  <1>18. ASSUME Save PROVE NoTimerWhileBusy' /\ ErrorBarsFit'
    <2>1. alive' = alive BY <1>18, Zenon DEF Save
    <2>. QED BY <1>18, <2>1, FileSaveTimer, SMT DEF Save, SavableStates
  <1>19. ASSUME SaveAs PROVE NoTimerWhileBusy' /\ ErrorBarsFit'
    BY <1>19, SMT DEF SaveAs, UserActs
  <1>20. ASSUME SaveDialogResponse PROVE NoTimerWhileBusy' /\ ErrorBarsFit'
    <2>1. alive' = alive BY <1>20, Zenon DEF SaveDialogResponse
    <2>2. CASE SaveRefused BY <1>20, <2>1, <2>2, SMT DEF SaveDialogResponse, SaveRefused
    <2>3. CASE ~SaveRefused
      <3>1. \E to \in {"own", "other"} : TabSaveAs(to) BY <1>20, <2>3, Zenon DEF SaveDialogResponse
      <3>. QED BY <2>1, <3>1, TabSaveAsTimer, SMT DEF SavableStates
    <2>. QED BY <2>2, <2>3
  <1>21. ASSUME AutoSave PROVE NoTimerWhileBusy' /\ ErrorBarsFit'
    BY <1>21, SMT DEF AutoSave, SetState, DocumentSave
  <1>22. ASSUME SaveTakesLong PROVE NoTimerWhileBusy' /\ ErrorBarsFit'
    BY <1>22, SMT DEF SaveTakesLong
  <1>23. ASSUME SaverSucceeds PROVE NoTimerWhileBusy' /\ ErrorBarsFit'
    BY <1>23, SMT
       DEF SaverSucceeds, SavedIsAwaited, SetStateAfterSaving, SetState,
           SetStateNormal, EndSaving, InstallTimerIfNeeded
  <1>24. ASSUME NEW bar \in SavingBars, SaverFails(bar) PROVE NoTimerWhileBusy' /\ ErrorBarsFit'
    BY <1>24, SMT DEF SaverFails, SavedIsAwaited, SetState
  <1>25. ASSUME DismissSaveError PROVE NoTimerWhileBusy' /\ ErrorBarsFit'
    BY <1>25, SMT
       DEF DismissSaveError, UserActs, SetStateAfterSaving, SetState,
           SetStateNormal, EndSaving, InstallTimerIfNeeded
  <1>26. ASSUME SaveWithoutBackup PROVE NoTimerWhileBusy' /\ ErrorBarsFit'
    BY <1>26, SMT
       DEF SaveWithoutBackup, ResumeSaving, UserActs, SetState, ResaveInPlace,
           DocumentSave
  <1>27. ASSUME SaveOverModification PROVE NoTimerWhileBusy' /\ ErrorBarsFit'
    BY <1>27, SMT
       DEF SaveOverModification, ResumeSaving, UserActs, SetState, ResaveInPlace,
           DocumentSave
  <1>28. ASSUME SaveInOtherEncoding PROVE NoTimerWhileBusy' /\ ErrorBarsFit'
    BY <1>28, SMT DEF SaveInOtherEncoding, ResumeSaving, UserActs, SetState, DocumentSave
  <1>29. ASSUME PrintPreview PROVE NoTimerWhileBusy' /\ ErrorBarsFit'
    BY <1>29, SMT DEF PrintPreview, UserActs, StartPrinting, SetState, PrintUnchanged
  <1>30. ASSUME PrintDocument PROVE NoTimerWhileBusy' /\ ErrorBarsFit'
    BY <1>30, SMT DEF PrintDocument, UserActs, StartPrinting, SetState, PrintUnchanged
  <1>31. ASSUME PrintFromPreview PROVE NoTimerWhileBusy' /\ ErrorBarsFit'
    BY <1>31, SMT DEF PrintFromPreview, UserActs, SetStateNormal, StartPrinting, SetState
  <1>32. ASSUME PrintFails PROVE NoTimerWhileBusy' /\ ErrorBarsFit'
    BY <1>32, SMT DEF PrintFails, SetStateNormal
  <1>33. ASSUME ShowPreview PROVE NoTimerWhileBusy' /\ ErrorBarsFit'
    BY <1>33, SMT DEF ShowPreview, SetState, PrintUnchanged
  <1>34. ASSUME PrintJobDone PROVE NoTimerWhileBusy' /\ ErrorBarsFit'
    <2>1. CASE state \in PrintStates
      BY <1>34, <2>1, SMT DEF PrintJobDone, SetStateNormal, PrintStates
    <2>2. CASE state \notin PrintStates BY <1>34, <2>2, SMT DEF PrintJobDone
    <2>. QED BY <2>1, <2>2
  <1>35. ASSUME Close PROVE NoTimerWhileBusy' /\ ErrorBarsFit'
    <2>1. CASE CanClose BY <1>35, <2>1, RemovedTabHasNoTimer, Zenon DEF Close
    <2>2. CASE ~CanClose BY <1>35, <2>2, SMT DEF Close
    <2>. QED BY <2>1, <2>2
  <1>36. ASSUME SaveAndClose PROVE NoTimerWhileBusy' /\ ErrorBarsFit'
    <2>1. alive' = alive BY <1>36, Zenon DEF SaveAndClose
    <2>. QED BY <1>36, <2>1, FileSaveTimer, SMT DEF SaveAndClose, SavableStates
  <1>37. ASSUME CloseWithoutSaving PROVE NoTimerWhileBusy' /\ ErrorBarsFit'
    BY <1>37, RemovedTabHasNoTimer, SMT DEF CloseWithoutSaving
  <1>38. ASSUME DoNotClose PROVE NoTimerWhileBusy' /\ ErrorBarsFit'
    BY <1>38, SMT DEF DoNotClose
  <1>39. ASSUME ReallyCloseTab PROVE NoTimerWhileBusy' /\ ErrorBarsFit'
    <2>1. CASE state = "CLOSING" BY <1>39, <2>1, RemovedTabHasNoTimer, Zenon DEF ReallyCloseTab
    <2>2. CASE state # "CLOSING" BY <1>39, <2>2, SMT DEF ReallyCloseTab
    <2>. QED BY <2>1, <2>2
  <1>40. ASSUME Edit PROVE NoTimerWhileBusy' /\ ErrorBarsFit'
    BY <1>40, SMT DEF Edit, UserActs
  <1>41. ASSUME ForeignWrite PROVE NoTimerWhileBusy' /\ ErrorBarsFit'
    BY <1>41, SMT DEF ForeignWrite, ForeignStep
  <1>42. ASSUME ForeignDelete PROVE NoTimerWhileBusy' /\ ErrorBarsFit'
    BY <1>42, SMT DEF ForeignDelete, ForeignStep
  <1>43. ASSUME ChangePermissions PROVE NoTimerWhileBusy' /\ ErrorBarsFit'
    BY <1>43, SMT DEF ChangePermissions, ForeignStep
  <1>44. ASSUME SetAutoSaveEnabled PROVE NoTimerWhileBusy' /\ ErrorBarsFit'
    BY <1>44, SMT DEF SetAutoSaveEnabled, TimerUnchanged
  <1>45. ASSUME SetAutoSaveInterval PROVE NoTimerWhileBusy' /\ ErrorBarsFit'
    BY <1>45, SMT DEF SetAutoSaveInterval, TimerUnchanged
  <1>. QED BY <1>1, <1>2, <1>3, <1>4, <1>5, <1>6, <1>7, <1>8, <1>9, <1>10, <1>11,
              <1>12, <1>13, <1>14, <1>15, <1>16, <1>17, <1>18, <1>19, <1>20, <1>21,
              <1>22, <1>23, <1>24, <1>25, <1>26, <1>27, <1>28, <1>29, <1>30, <1>31,
              <1>32, <1>33, <1>34, <1>35, <1>36, <1>37, <1>38, <1>39, <1>40, <1>41,
              <1>42, <1>43, <1>44, <1>45,
              SMTT(30) DEF Next, User, LoaderStep, SaverStep, Idles

(***************************************************************************)
(* The plain worlds.                                                       *)
(***************************************************************************)

LEMMA RemovedTabIsCalm == ASSUME RemoveTab PROVE Calm'
  <1>1. ~alive' BY Zenon DEF RemoveTab
  <1>. QED BY <1>1, Zenon DEF Calm, OneOperation

\* A tab that a return to NORMAL marks for closing has nothing to lose.
LEMMA SetStateNormalEnds ==
  ASSUME SetStateNormal
  PROVE  /\ state' \in {"NORMAL", "CLOSING"}
         /\ state' = "CLOSING" => state # "NORMAL" /\ ~modified' /\ ~editable'
  <1>1. ~EditableIn("CLOSING") BY Zenon DEF EditableIn
  <1>2. state' = "CLOSING" => state # "NORMAL" /\ ~NeedsSaving(modified', disk')
    BY Zenon DEF SetStateNormal
  <1>3. state' = "CLOSING" => editable' = EditableIn("CLOSING")
    BY <1>2, Zenon DEF SetStateNormal
  <1>4. state' = "CLOSING" => ~modified' BY <1>2, Zenon DEF NeedsSaving
  <1>5. state' = "NORMAL" \/ state' = "CLOSING" BY Zenon DEF SetStateNormal
  <1>. QED BY <1>1, <1>2, <1>3, <1>4, <1>5, Zenon

\* In a plain world every step keeps a tab calm.
LEMMA CalmKept ==
  ASSUME Plain, ValuesOK, NoTimerWhileBusy, Calm, Next
  PROVE  Calm'
  <1> USE DEF Plain, ValuesOK, Calm, OneOperation, BarFits, SaveDataFits, EndsFit,
              NoTimerWhileBusy, NoTimerStates, States, BusyStates, ErrorStates,
              PrintStates, SavingBars, NoSaver
  <1>1. ASSUME Load PROVE Calm'
    BY <1>1, SMTT(20) DEF Load, UserActs, SetState, EditableIn, RemoveTimer, DocumentLoad
  <1>2. ASSUME Revert PROVE Calm'
    BY <1>2, SMTT(20)
       DEF Revert, UserActs, TabRevert, SetState, EditableIn, RemoveTimer,
           DocumentLoad
  <1>3. ASSUME RevertDialogResponse PROVE Calm'
    BY <1>3, SMTT(20)
       DEF RevertDialogResponse, TabRevert, SetState, EditableIn, RemoveTimer,
           DocumentLoad
  <1>4. ASSUME LoadTakesLong PROVE Calm'
    BY <1>4, SMTT(20) DEF LoadTakesLong
  <1>5. ASSUME LoaderFillsBuffer PROVE Calm'
    BY <1>5, SMTT(20) DEF LoaderFillsBuffer
  <1>6. ASSUME LoaderSucceeds PROVE Calm'
    <2>1. LoadedIsAwaited BY <1>6, SMT DEF LoadedIsAwaited, LoaderSucceeds
    <2>2. "duplicate" \notin World BY Zenon DEF Plain
    <2>3. \E shared \in {FALSE} : DocumentLoaded(shared) BY <1>6, <2>2, Zenon DEF LoaderSucceeds
    <2>4. DocumentLoaded(FALSE) BY <2>3, Zenon
    <2>5. area' = "none" /\ SetStateNormal BY <2>1, <2>4, Zenon DEF DocumentLoaded
    <2>. QED
      BY <1>6, <2>1, <2>5, SetStateNormalEnds, SMT DEF LoaderSucceeds, LoadedIsAwaited
  <1>7. ASSUME LoaderCreates PROVE Calm'
    BY <1>7, SetStateNormalEnds, SMTT(20)
       DEF LoaderCreates, DocumentLoaded, LoadedIsAwaited, InstallTimerIfNeeded
  <1>8. ASSUME LoaderFails PROVE Calm'
    BY <1>8, SMTT(20) DEF LoaderFails, LoadedIsAwaited, SetState, EditableIn
  <1>9. ASSUME CancelLoad PROVE Calm'
    BY <1>9, SMTT(20) DEF CancelLoad, UserActs, LoadedIsAwaited, SetState, EditableIn
  <1>10. ASSUME RemoveTabIdle PROVE Calm'
    BY <1>10, RemovedTabIsCalm, SMTT(20) DEF RemoveTabIdle
  <1>11. ASSUME RetryLoad PROVE Calm'
    BY <1>11, SMTT(20) DEF RetryLoad, UserActs, SetState, EditableIn, DocumentLoad
  <1>12. ASSUME GiveUpLoad PROVE Calm'
    BY <1>12, RemovedTabIsCalm, SMTT(20) DEF GiveUpLoad, UserActs
  <1>13. ASSUME DismissRevertError PROVE Calm'
    BY <1>13, SetStateNormalEnds, SMTT(20)
       DEF DismissRevertError, UserActs, InstallTimerIfNeeded
  <1>14. ASSUME NEW b \in BOOLEAN, AnswerAlreadyOpen(b) PROVE Calm'
    BY <1>14, SMTT(20) DEF AnswerAlreadyOpen, UserActs, Displayed
  <1>15. ASSUME FocusIn PROVE Calm'
    <2>1. Forgotten = {} BY <1>15, SMT DEF FocusIn, UserActs, Forgotten
    <2>. QED BY <1>15, <2>1, SMT DEF FocusIn, UserActs, SetState, EditableIn
  <1>16. ASSUME Reload PROVE Calm'
    BY <1>16, SMTT(20)
       DEF Reload, UserActs, Displayed, SetState, EditableIn, RemoveTimer,
           DocumentLoad
  <1>17. ASSUME IgnoreModification PROVE Calm'
    BY <1>17, SetStateNormalEnds, SMTT(20) DEF IgnoreModification, UserActs, Displayed
  <1>18. ASSUME Save PROVE Calm'
    BY <1>18, SMTT(20)
       DEF Save, UserActs, FileSave, SaveRefused, TabSave, SavableStates,
           TmpDataIsNull, StartSaving, SetState, EditableIn, RemoveTimer,
           DocumentSave
  <1>19. ASSUME SaveAs PROVE Calm'
    BY <1>19, SMTT(20) DEF SaveAs, UserActs
  <1>20. ASSUME SaveDialogResponse PROVE Calm'
    BY <1>20, SMTT(20)
       DEF SaveDialogResponse, SaveRefused, TabSaveAs, SavableStates,
           TmpDataIsNull, StartSaving, SetState, EditableIn, RemoveTimer,
           DocumentSave
  <1>21. ASSUME AutoSave PROVE Calm'
    BY <1>21, SMTT(20)
       DEF AutoSave, AutoSaveAccepts, TmpDataIsNull, SetState, EditableIn,
           DocumentSave
  <1>22. ASSUME SaveTakesLong PROVE Calm'
    BY <1>22, SMTT(20) DEF SaveTakesLong
  <1>23. ASSUME SaverSucceeds PROVE Calm'
    BY <1>23, SetStateNormalEnds, SMTT(20)
       DEF SaverSucceeds, SavedIsAwaited, SetStateAfterSaving, SetState,
           EditableIn, EndSaving, InstallTimerIfNeeded
  <1>24. ASSUME NEW bar \in SavingBars, SaverFails(bar) PROVE Calm'
    BY <1>24, SMTT(20) DEF SaverFails, FailureOf, SavedIsAwaited, SetState, EditableIn
  <1>25. ASSUME DismissSaveError PROVE Calm'
    BY <1>25, SetStateNormalEnds, SMTT(20)
       DEF DismissSaveError, UserActs, SetStateAfterSaving, SetState, EditableIn,
           EndSaving, InstallTimerIfNeeded
  <1>26. ASSUME SaveWithoutBackup PROVE Calm'
    BY <1>26, SMTT(20)
       DEF SaveWithoutBackup, ResumeSaving, UserActs, SetState, EditableIn,
           ResaveInPlace, DocumentSave
  <1>27. ASSUME SaveOverModification PROVE Calm'
    BY <1>27, SMTT(20)
       DEF SaveOverModification, ResumeSaving, UserActs, SetState, EditableIn,
           ResaveInPlace, DocumentSave
  <1>28. ASSUME SaveInOtherEncoding PROVE Calm'
    <2>1. alive /\ area = "conversion" /\ area' = "none"
      BY <1>28, Zenon DEF SaveInOtherEncoding, ResumeSaving, UserActs
    <2>2. state = "SAVING_ERROR" /\ tmp_save_uri # "none" /\ saver = NoSaver
      BY <2>1, SMT
    <2>3. saver' = [to |-> tmp_save_uri, ignoreMtime |-> TRUE, exact |-> TRUE]
      BY <1>28, <2>2, Zenon DEF DocumentSave, SaveInOtherEncoding
    <2>4. saver' # NoSaver /\ saver'.to = tmp_save_uri BY <2>2, <2>3, SMT
    <2>5. SetState("SAVING") /\ tmp_encoding' = TRUE BY <1>28, <2>2, Zenon DEF SaveInOtherEncoding
    <2>6. state' = "SAVING" BY <2>5, Zenon DEF SetState
    <2>7. UNCHANGED <<orphans, tmp_save_uri, docVars, loader, removeIdle, alive>>
      BY <1>28, Zenon DEF SaveInOtherEncoding, ResumeSaving
    <2>8. OneOperation' BY <2>2, <2>4, <2>6, <2>7, SMT
    <2>9. BarFits' BY <2>1, <2>2, <2>6, <2>7, SMT
    <2>10. SaveDataFits' BY <2>1, <2>2, <2>4, <2>5, <2>6, <2>7, SMT
    <2>11. EndsFit' BY <2>1, <2>2, <2>6, <2>7, SMT
    <2>. QED BY <2>8, <2>9, <2>10, <2>11, Zenon
  <1>29. ASSUME PrintPreview PROVE Calm'
    BY <1>29, SMTT(20)
       DEF PrintPreview, UserActs, StartPrinting, SetState, EditableIn,
           PrintUnchanged
  <1>30. ASSUME PrintDocument PROVE Calm'
    BY <1>30, SMTT(20)
       DEF PrintDocument, UserActs, StartPrinting, SetState, EditableIn,
           PrintUnchanged
  <1>31. ASSUME PrintFromPreview PROVE Calm'
    BY <1>31, SetStateNormalEnds, SMTT(20)
       DEF PrintFromPreview, UserActs, StartPrinting, SetState, EditableIn
  <1>32. ASSUME PrintFails PROVE Calm'
    BY <1>32, SetStateNormalEnds, SMTT(20) DEF PrintFails
  <1>33. ASSUME ShowPreview PROVE Calm'
    BY <1>33, SMTT(20) DEF ShowPreview, SetState, EditableIn, PrintUnchanged
  <1>34. ASSUME PrintJobDone PROVE Calm'
    <2>1. CASE state \in PrintStates
      <3>1. SetStateNormal BY <1>34, <2>1, Zenon DEF PrintJobDone
      <3>2. alive /\ area' = "none" BY <1>34, <2>1, SMT DEF PrintJobDone
      <3>. QED BY <1>34, <2>1, <3>1, <3>2, SetStateNormalEnds, SMT DEF PrintJobDone
    <2>2. CASE state \notin PrintStates BY <1>34, <2>2, SMT DEF PrintJobDone
    <2>. QED BY <2>1, <2>2
  <1>35. ASSUME Close PROVE Calm'
    <2>1. CASE CanClose BY <1>35, <2>1, RemovedTabIsCalm, Zenon DEF Close
    <2>2. CASE ~CanClose BY <1>35, <2>2, SMT DEF Close, UserActs
    <2>. QED BY <2>1, <2>2
  <1>36. ASSUME SaveAndClose PROVE Calm'
    BY <1>36, SMTT(20)
       DEF SaveAndClose, FileSave, SaveRefused, TabSave, SavableStates,
           TmpDataIsNull, StartSaving, SetState, EditableIn, RemoveTimer,
           DocumentSave
  <1>37. ASSUME CloseWithoutSaving PROVE Calm'
    BY <1>37, RemovedTabIsCalm, SMTT(20) DEF CloseWithoutSaving
  <1>38. ASSUME DoNotClose PROVE Calm'
    BY <1>38, SMTT(20) DEF DoNotClose
  <1>39. ASSUME ReallyCloseTab PROVE Calm'
    <2>1. CASE state = "CLOSING" BY <1>39, <2>1, RemovedTabIsCalm, Zenon DEF ReallyCloseTab
    <2>2. CASE state # "CLOSING" BY <1>39, <2>2, SMT DEF ReallyCloseTab
    <2>. QED BY <2>1, <2>2
  <1>40. ASSUME Edit PROVE Calm'
    <2>1. saver' = NoSaver <=> saver = NoSaver
      <3>1. CASE saver = NoSaver BY <1>40, <3>1, Zenon DEF Edit
      <3>2. CASE saver # NoSaver BY <1>40, <3>2, SMT DEF Edit, Savers
      <3>. QED BY <3>1, <3>2
    <2>2. saver'.to = saver.to BY <1>40, SMT DEF Edit, Savers
    <2>. QED BY <1>40, <2>1, <2>2, SMT DEF Edit, UserActs
  <1>41. ASSUME ForeignWrite PROVE Calm'
    BY <1>41, SMTT(20) DEF ForeignWrite, ForeignStep
  <1>42. ASSUME ForeignDelete PROVE Calm'
    BY <1>42, SMTT(20) DEF ForeignDelete, ForeignStep
  <1>43. ASSUME ChangePermissions PROVE Calm'
    BY <1>43, SMTT(20) DEF ChangePermissions, ForeignStep
  <1>44. ASSUME SetAutoSaveEnabled PROVE Calm'
    BY <1>44, SMTT(20) DEF SetAutoSaveEnabled, TimerUnchanged
  <1>45. ASSUME SetAutoSaveInterval PROVE Calm'
    BY <1>45, SMTT(20) DEF SetAutoSaveInterval, TimerUnchanged
  <1>. QED BY <1>1, <1>2, <1>3, <1>4, <1>5, <1>6, <1>7, <1>8, <1>9, <1>10, <1>11,
              <1>12, <1>13, <1>14, <1>15, <1>16, <1>17, <1>18, <1>19, <1>20, <1>21,
              <1>22, <1>23, <1>24, <1>25, <1>26, <1>27, <1>28, <1>29, <1>30, <1>31,
              <1>32, <1>33, <1>34, <1>35, <1>36, <1>37, <1>38, <1>39, <1>40, <1>41,
              <1>42, <1>43, <1>44, <1>45,
              SMTT(30) DEF Next, User, LoaderStep, SaverStep, Idles

(***************************************************************************)
(* Where a save goes, and what it writes.                                  *)
(***************************************************************************)

\* A save goes where it was asked to go, and so does the one that answers its
\* failure: only a save in place can find its file modified by others.
Destined ==
    alive => /\ saver # NoSaver => saver.to = tmp_save_uri
             /\ area = "externally_modified" => tmp_save_uri = "own"

\* The steps that leave the saver and its destination alone, and raise no question.
LEMMA DestinedUntouched ==
  ASSUME Destined, UNCHANGED <<saver, tmp_save_uri>>, alive' => alive,
         area' \in {area, "none"} \/ area' # "externally_modified"
  PROVE  Destined'
  BY SMT DEF Destined

\* DocumentSave of an idle document.
LEMMA DocumentSaveTo ==
  ASSUME NEW to, NEW ignoreMtime, saver = NoSaver, DocumentSave(to, ignoreMtime)
  PROVE  saver'.to = to
  BY Zenon DEF DocumentSave

LEMMA StartSavingTo ==
  ASSUME Calm, alive, alive', state \in SavableStates, ValuesOK,
         NEW to, NEW ignoreMtime, StartSaving(to, ignoreMtime)
  PROVE  Destined'
  <1>1. saver = NoSaver BY SMT DEF Calm, OneOperation, SavableStates
  <1>2. saver'.to = to /\ tmp_save_uri' = to BY <1>1, DocumentSaveTo, Zenon DEF StartSaving
  <1>3. area' # "externally_modified"
    BY SMT DEF StartSaving, Calm, BarFits, SavableStates
  <1>. QED BY <1>2, <1>3, Zenon DEF Destined

LEMMA TabSaveTo ==
  ASSUME Calm, ValuesOK, Destined, alive, alive', TabSave PROVE Destined'
  <1>1. CASE SaveRefused BY <1>1, DestinedUntouched, Zenon DEF SaveRefused
  <1>2. CASE ~SaveRefused BY <1>2, StartSavingTo, Zenon DEF TabSave
  <1>. QED BY <1>1, <1>2

LEMMA FileSaveTo ==
  ASSUME Calm, ValuesOK, Destined, alive, alive', FileSave PROVE Destined'
  <1>1. CASE SaveRefused BY <1>1, DestinedUntouched, Zenon DEF SaveRefused
  <1>. QED BY <1>1, TabSaveTo, Zenon DEF FileSave

LEMMA TabSaveAsTo ==
  ASSUME Calm, ValuesOK, Destined, alive, alive', NEW to, TabSaveAs(to) PROVE Destined'
  <1>1. CASE SaveRefused BY <1>1, DestinedUntouched, Zenon DEF SaveRefused
  <1>2. CASE ~SaveRefused BY <1>2, StartSavingTo, Zenon DEF TabSaveAs
  <1>. QED BY <1>1, <1>2

\* A save that resumes finds no saver, and its bar tells where it was going.
LEMMA ResumedSave ==
  ASSUME Calm, ValuesOK, NEW bar \in SavingBars, ResumeSaving(bar)
  PROVE  /\ alive /\ alive' /\ area' = "none" /\ bar # "no_backup" /\ saver = NoSaver
         /\ tmp_save_uri # "none" /\ tmp_encoding /\ tmp_save_uri' = tmp_save_uri
         /\ state = "SAVING_ERROR"
         /\ bar = "externally_modified" => titled
         /\ UNCHANGED <<docVars, loader, removeIdle, disk, newer>>
  BY SMT
     DEF Calm, OneOperation, BarFits, SaveDataFits, ValuesOK, States, BusyStates,
         ErrorStates,
             PrintStates, SavingBars, ResumeSaving, UserActs

\* Every step leaves the tab so.
LEMMA DestinedKept ==
  ASSUME Plain, ValuesOK, Calm, Destined, Next
  PROVE  Destined'
  <1>1. CASE Save BY <1>1, FileSaveTo, Zenon DEF Save, UserActs
  <1>2. CASE SaveDialogResponse
    <2>1. alive /\ alive' BY <1>2, Zenon DEF SaveDialogResponse
    <2>2. CASE SaveRefused BY <2>2, <2>1, DestinedUntouched, Zenon DEF SaveRefused
    <2>3. CASE ~SaveRefused BY <1>2, <2>1, <2>3, TabSaveAsTo, Zenon DEF SaveDialogResponse
    <2>. QED BY <2>2, <2>3
  <1>3. CASE SaveAndClose
    <2>1. alive /\ alive' BY <1>3, Zenon DEF SaveAndClose
    <2>. QED BY <1>3, <2>1, FileSaveTo, Zenon DEF SaveAndClose
  <1>4. CASE AutoSave
    <2>1. alive /\ alive' /\ area' = area BY <1>4, Zenon DEF AutoSave
    <2>2. CASE UNCHANGED <<saver, tmp_save_uri>> BY <2>1, <2>2, DestinedUntouched, Zenon
    <2>3. CASE ~UNCHANGED <<saver, tmp_save_uri>>
      <3>1. state \in {"NORMAL", "SHOWING_PRINT_PREVIEW"} /\ tmp_save_uri' = "own"
            /\ DocumentSave("own", FALSE)
        BY <1>4, <2>3, Zenon DEF AutoSave, tmpVars
      <3>2. saver = NoSaver BY <2>1, <3>1, SMT DEF Calm, OneOperation
      <3>3. saver'.to = "own" BY <3>1, <3>2, DocumentSaveTo, Zenon
      <3>. QED BY <2>1, <3>1, <3>3, Zenon DEF Destined
    <2>. QED BY <2>2, <2>3
  <1>5. CASE SaverSucceeds
    <2>1. saver' = NoSaver BY <1>5, Zenon DEF SaverSucceeds
    <2>2. area' # "externally_modified"
      BY <1>5, SMT DEF SaverSucceeds, Calm, OneOperation, BarFits
    <2>. QED BY <2>1, <2>2, Zenon DEF Destined
  <1>6. ASSUME NEW bar \in SavingBars, SaverFails(bar) PROVE Destined'
    <2>1. alive /\ saver # NoSaver /\ saver' = NoSaver /\ tmp_save_uri' = tmp_save_uri
      BY <1>6, Zenon DEF SaverFails
    <2>2. area' = "externally_modified" => saver.to = "own"
      <3>1. area # "externally_modified" BY <2>1, SMT DEF Calm, OneOperation, BarFits
      <3>2. area' \in {area, bar} BY <1>6, Zenon DEF SaverFails
      <3>3. bar = "externally_modified" => saver.to = "own"
        BY <1>6, SMT DEF SaverFails, FailureOf
      <3>. QED BY <3>1, <3>2, <3>3, Zenon
    <2>. QED BY <2>1, <2>2, Zenon DEF Destined
  <1>7. CASE SaveWithoutBackup
    BY <1>7, ResumedSave, Zenon DEF SaveWithoutBackup, SavingBars
  <1>8. CASE SaveOverModification
    <2>1. ResumeSaving("externally_modified") BY <1>8, Zenon DEF SaveOverModification
    <2>2. /\ alive /\ area = "externally_modified" /\ area' = "none" /\ saver = NoSaver
          /\ tmp_save_uri # "none" /\ tmp_encoding /\ tmp_save_uri' = tmp_save_uri /\ titled
      BY <2>1, ResumedSave, Zenon DEF SavingBars, ResumeSaving
    <2>3. DocumentSave("own", TRUE)
      BY <1>8, <2>2, Zenon DEF SaveOverModification, ResaveInPlace
    <2>4. saver'.to = "own" BY <2>2, <2>3, DocumentSaveTo, Zenon
    <2>. QED BY <2>2, <2>4, Zenon DEF Destined
  <1>9. CASE SaveInOtherEncoding
    <2>1. /\ area' = "none" /\ saver = NoSaver
          /\ tmp_save_uri # "none" /\ tmp_save_uri' = tmp_save_uri
      BY <1>9, ResumedSave, Zenon DEF SavingBars, SaveInOtherEncoding
    <2>2. DocumentSave(tmp_save_uri, TRUE) BY <1>9, <2>1, Zenon DEF SaveInOtherEncoding
    <2>3. saver'.to = tmp_save_uri' BY <2>1, <2>2, DocumentSaveTo, Zenon
    <2>. QED BY <2>1, <2>3, Zenon DEF Destined
  <1>10. CASE DismissSaveError
    <2>1. saver' = saver /\ alive /\ area' = "none" /\ area \in SavingBars
      BY <1>10, Zenon DEF DismissSaveError, UserActs
    <2>2. saver = NoSaver
      BY <2>1, SMT
         DEF Calm, OneOperation, BarFits, ValuesOK, States, BusyStates, ErrorStates,
                       PrintStates, SavingBars
    <2>. QED BY <2>1, <2>2, Zenon DEF Destined
  <1>11. CASE Edit
    <2>1. saver' = NoSaver <=> saver = NoSaver
      <3>1. CASE saver = NoSaver BY <1>11, <3>1, Zenon DEF Edit
      <3>2. CASE saver # NoSaver BY <1>11, <3>2, SMT DEF Edit, Savers, NoSaver, ValuesOK
      <3>. QED BY <3>1, <3>2
    <2>2. saver'.to = saver.to BY <1>11, SMT DEF Edit, Savers, NoSaver, ValuesOK
    <2>. QED BY <1>11, <2>1, <2>2, Zenon DEF Edit, Destined
  <1> DEFINE Untouched ==
        /\ UNCHANGED <<saver, tmp_save_uri>> /\ (alive' => alive)
        /\ area' \in {area, "none"} \/ area' # "externally_modified"
  <1>12. ASSUME Untouched PROVE Destined' BY <1>12, DestinedUntouched, Zenon
  <1>13. ASSUME Load PROVE Untouched BY <1>13, Zenon DEF Load, UserActs
  <1>14. ASSUME Revert PROVE Untouched BY <1>14, Zenon DEF Revert, TabRevert, UserActs
  <1>15. ASSUME RevertDialogResponse PROVE Untouched
    BY <1>15, Zenon DEF RevertDialogResponse, TabRevert
  <1>16. ASSUME LoadTakesLong PROVE Untouched BY <1>16, Zenon DEF LoadTakesLong
  <1>17. ASSUME LoaderFillsBuffer PROVE Untouched BY <1>17, Zenon DEF LoaderFillsBuffer
  <1>18. ASSUME LoaderSucceeds PROVE Untouched
    BY <1>18, Zenon DEF LoaderSucceeds, DocumentLoaded
  <1>19. ASSUME LoaderCreates PROVE Untouched
    BY <1>19, Zenon DEF LoaderCreates, DocumentLoaded
  <1>20. ASSUME LoaderFails PROVE Untouched BY <1>20, Zenon DEF LoaderFails
  <1>21. ASSUME CancelLoad PROVE Untouched BY <1>21, Zenon DEF CancelLoad, UserActs
  <1>22. ASSUME RemoveTabIdle PROVE Untouched BY <1>22, Zenon DEF RemoveTabIdle, RemoveTab
  <1>23. ASSUME RetryLoad PROVE Untouched BY <1>23, Zenon DEF RetryLoad, UserActs
  <1>24. ASSUME GiveUpLoad PROVE Untouched
    BY <1>24, Zenon DEF GiveUpLoad, RemoveTab, UserActs
  <1>25. ASSUME DismissRevertError PROVE Untouched
    BY <1>25, Zenon DEF DismissRevertError, UserActs
  <1>26. ASSUME NEW b \in BOOLEAN, AnswerAlreadyOpen(b) PROVE Untouched
    BY <1>26, Zenon DEF AnswerAlreadyOpen, UserActs
  <1>27. ASSUME FocusIn PROVE Untouched BY <1>27, Zenon DEF FocusIn, UserActs
  <1>28. ASSUME Reload PROVE Untouched BY <1>28, Zenon DEF Reload, UserActs
  <1>29. ASSUME IgnoreModification PROVE Untouched
    BY <1>29, Zenon DEF IgnoreModification, UserActs
  <1>30. ASSUME SaveAs PROVE Untouched BY <1>30, Zenon DEF SaveAs, UserActs
  <1>31. ASSUME SaveTakesLong PROVE Untouched BY <1>31, Zenon DEF SaveTakesLong
  <1>32. ASSUME PrintPreview PROVE Untouched
    BY <1>32, Zenon DEF PrintPreview, StartPrinting, PrintUnchanged, UserActs
  <1>33. ASSUME PrintDocument PROVE Untouched
    BY <1>33, Zenon DEF PrintDocument, StartPrinting, PrintUnchanged, UserActs
  <1>34. ASSUME PrintFromPreview PROVE Untouched
    BY <1>34, Zenon DEF PrintFromPreview, StartPrinting, UserActs
  <1>35. ASSUME PrintFails PROVE Untouched BY <1>35, Zenon DEF PrintFails
  <1>36. ASSUME ShowPreview PROVE Untouched BY <1>36, Zenon DEF ShowPreview, PrintUnchanged
  <1>37. ASSUME PrintJobDone PROVE Untouched BY <1>37, Zenon DEF PrintJobDone
  <1>38. ASSUME Close PROVE Untouched BY <1>38, Zenon DEF Close, RemoveTab, UserActs
  <1>39. ASSUME CloseWithoutSaving PROVE Untouched
    BY <1>39, Zenon DEF CloseWithoutSaving, RemoveTab
  <1>40. ASSUME DoNotClose PROVE Untouched BY <1>40, Zenon DEF DoNotClose
  <1>41. ASSUME ReallyCloseTab PROVE Untouched BY <1>41, Zenon DEF ReallyCloseTab, RemoveTab
  <1>42. ASSUME ForeignWrite PROVE Untouched BY <1>42, Zenon DEF ForeignWrite, ForeignStep
  <1>43. ASSUME ForeignDelete PROVE Untouched BY <1>43, Zenon DEF ForeignDelete, ForeignStep
  <1>44. ASSUME ChangePermissions PROVE Untouched
    BY <1>44, Zenon DEF ChangePermissions, ForeignStep
  <1>45. ASSUME SetAutoSaveEnabled PROVE Untouched
    BY <1>45, Zenon DEF SetAutoSaveEnabled, TimerUnchanged
  <1>46. ASSUME SetAutoSaveInterval PROVE Untouched
    BY <1>46, Zenon DEF SetAutoSaveInterval, TimerUnchanged
  <1>. QED
    BY <1>1, <1>2, <1>3, <1>4, <1>5, <1>6, <1>7, <1>8, <1>9, <1>10, <1>11, <1>12, <1>13,
         <1>14, <1>15, <1>16, <1>17, <1>18, <1>19, <1>20, <1>21, <1>22, <1>23, <1>24, <1>25,
         <1>26, <1>27, <1>28, <1>29, <1>30, <1>31, <1>32, <1>33, <1>34, <1>35, <1>36, <1>37,
         <1>38, <1>39, <1>40, <1>41, <1>42, <1>43, <1>44, <1>45, <1>46,
       SMTT(30) DEF Next, User, LoaderStep, SaverStep, Idles

\* The plain worlds in which, besides, what was loaded once can be loaded again.
Faithful == Plain /\ "unreadable" \notin World

InFile == disk \in {"same", "absent"} \/ newer

\* While a save runs nobody types, so what it writes is what the buffer holds; and an
\* unmodified text is in its file unless a load is under way or has just failed.
Written ==
    alive => /\ state = "SAVING" => ~editable
             /\ saver # NoSaver => saver.exact
             /\ titled /\ ~modified /\ loader = "none" /\ state # "LOADING_ERROR"
                  /\ ~(state = "REVERTING_ERROR" /\ removeIdle)
                => InFile

LEMMA RemovedTabIsWritten == ASSUME RemoveTab PROVE Written'
  <1>1. ~alive' BY Zenon DEF RemoveTab
  <1>. QED BY <1>1, Zenon DEF Written

\* A save that begins, whatever began it.
LEMMA StartedSave ==
  ASSUME Calm, Written, alive, state \in SavableStates \union {"SAVING_ERROR"}, saver = NoSaver,
         SetState("SAVING"), NEW to, NEW ignoreMtime, DocumentSave(to, ignoreMtime),
         UNCHANGED <<docVars, loader, removeIdle, disk, newer>>
  PROVE  Written'
  <1>1. state' = "SAVING" /\ ~editable'
    <2>1. ~EditableIn("SAVING") BY Zenon DEF EditableIn
    <2>2. state # "SAVING" BY SMT DEF SavableStates
    <2>. QED BY <2>1, <2>2, Zenon DEF SetState
  <1>2. saver'.exact BY Zenon DEF DocumentSave
  <1>3. titled' /\ ~modified' /\ loader' = "none" => InFile'
    BY SMT DEF Written, InFile, SavableStates, Calm, EndsFit
  <1>. QED BY <1>1, <1>2, <1>3, Zenon DEF Written

LEMMA WrittenUntouched ==
  ASSUME Written, alive,
         UNCHANGED <<state, editable, saver, docVars, loader, removeIdle, disk, newer>>
  PROVE  Written'
  BY SMT DEF Written, InFile

LEMMA TabSaveWritten ==
  ASSUME Calm, Written, alive, TabSave, UNCHANGED <<docVars, loader, removeIdle, disk, newer>>
  PROVE  Written'
  <1>1. CASE SaveRefused BY <1>1, WrittenUntouched, Zenon DEF SaveRefused
  <1>2. CASE ~SaveRefused
    <2>1. state \in SavableStates /\ SetState("SAVING")
          /\ \E ignoreMtime \in BOOLEAN : DocumentSave("own", ignoreMtime)
      BY <1>2, Zenon DEF TabSave, StartSaving
    <2>2. saver = NoSaver BY <2>1, SMT DEF Calm, OneOperation, SavableStates
    <2>. QED BY <2>1, <2>2, StartedSave, Zenon
  <1>. QED BY <1>1, <1>2

LEMMA FileSaveWritten ==
  ASSUME Calm, Written, alive, FileSave, UNCHANGED <<docVars, loader, removeIdle, disk, newer>>
  PROVE  Written'
  <1>1. CASE SaveRefused BY <1>1, WrittenUntouched, Zenon DEF SaveRefused
  <1>. QED BY <1>1, TabSaveWritten, Zenon DEF FileSave

LEMMA TabSaveAsWritten ==
  ASSUME Calm, Written, alive, NEW dest, TabSaveAs(dest),
         UNCHANGED <<docVars, loader, removeIdle, disk, newer>>
  PROVE  Written'
  <1>1. CASE SaveRefused BY <1>1, WrittenUntouched, Zenon DEF SaveRefused
  <1>2. CASE ~SaveRefused
    <2>1. state \in SavableStates /\ SetState("SAVING") /\ DocumentSave(dest, TRUE)
      BY <1>2, Zenon DEF TabSaveAs, StartSaving
    <2>2. saver = NoSaver BY <2>1, SMT DEF Calm, OneOperation, SavableStates
    <2>. QED BY <2>1, <2>2, StartedSave, Zenon
  <1>. QED BY <1>1, <1>2

\* Every step leaves the tab so.
LEMMA WrittenKept ==
  ASSUME Faithful, ValuesOK, NoTimerWhileBusy, Calm, Written, Next
  PROVE  Written'
  <1> USE DEF Plain, Faithful, InFile, Written, ValuesOK, Calm, OneOperation, BarFits,
              SaveDataFits, EndsFit, NoTimerWhileBusy, NoTimerStates, States, BusyStates, ErrorStates,
              PrintStates, SavingBars, NoSaver
  <1>1. ASSUME Load PROVE Written'
    BY <1>1, SMTT(20) DEF Load, UserActs, SetState, EditableIn, RemoveTimer, DocumentLoad
  <1>2. ASSUME Revert PROVE Written'
    BY <1>2, SMTT(20)
       DEF Revert, UserActs, TabRevert, SetState, EditableIn, RemoveTimer, DocumentLoad
  <1>3. ASSUME RevertDialogResponse PROVE Written'
    BY <1>3, SMTT(20)
       DEF RevertDialogResponse, TabRevert, SetState, EditableIn, RemoveTimer, DocumentLoad
  <1>4. ASSUME LoadTakesLong PROVE Written'
    BY <1>4, SMTT(20) DEF LoadTakesLong
  <1>5. ASSUME LoaderFillsBuffer PROVE Written'
    BY <1>5, SMTT(20) DEF LoaderFillsBuffer
  <1>6. ASSUME LoaderSucceeds PROVE Written'
    BY <1>6, SetStateNormalEnds, SMTT(20)
       DEF LoadedIsAwaited, LoaderSucceeds, DocumentLoaded
  <1>7. ASSUME LoaderCreates PROVE Written'
    BY <1>7, SetStateNormalEnds, SMTT(20)
       DEF LoaderCreates, DocumentLoaded, LoadedIsAwaited, InstallTimerIfNeeded
  <1>8. ASSUME LoaderFails PROVE Written'
    BY <1>8, SMTT(20) DEF LoaderFails, LoadedIsAwaited, SetState, EditableIn
  <1>9. ASSUME CancelLoad PROVE Written'
    BY <1>9, SMTT(20) DEF CancelLoad, UserActs, LoadedIsAwaited, SetState, EditableIn
  <1>10. ASSUME RemoveTabIdle PROVE Written'
    BY <1>10, RemovedTabIsWritten, Zenon DEF RemoveTabIdle
  <1>11. ASSUME RetryLoad PROVE Written'
    BY <1>11, SMTT(20) DEF RetryLoad, UserActs, SetState, EditableIn, DocumentLoad
  <1>12. ASSUME GiveUpLoad PROVE Written'
    BY <1>12, RemovedTabIsWritten, Zenon DEF GiveUpLoad
  <1>13. ASSUME DismissRevertError PROVE Written'
    BY <1>13, SetStateNormalEnds, SMTT(20)
       DEF DismissRevertError, UserActs, InstallTimerIfNeeded
  <1>14. ASSUME NEW b \in BOOLEAN, AnswerAlreadyOpen(b) PROVE Written'
    BY <1>14, SMTT(20) DEF AnswerAlreadyOpen, UserActs, Displayed
  <1>15. ASSUME FocusIn PROVE Written'
    BY <1>15, SMTT(20) DEF FocusIn, UserActs, Forgotten, SetState, EditableIn
  <1>16. ASSUME Reload PROVE Written'
    BY <1>16, SMTT(20)
       DEF Reload, UserActs, Displayed, SetState, EditableIn, RemoveTimer, DocumentLoad
  <1>17. ASSUME IgnoreModification PROVE Written'
    BY <1>17, SetStateNormalEnds, SMTT(20) DEF IgnoreModification, UserActs, Displayed
  <1>18. ASSUME Save PROVE Written'
    BY <1>18, FileSaveWritten, Zenon DEF Save, UserActs
  <1>19. ASSUME SaveAs PROVE Written'
    BY <1>19, SMTT(20) DEF SaveAs, UserActs
  <1>20. ASSUME SaveDialogResponse PROVE Written'
    <2>1. alive /\ UNCHANGED <<docVars, loader, removeIdle, disk, newer>>
      BY <1>20, Zenon DEF SaveDialogResponse
    <2>2. CASE SaveRefused BY <2>1, <2>2, WrittenUntouched, Zenon DEF SaveRefused
    <2>3. CASE ~SaveRefused
      BY <1>20, <2>1, <2>3, TabSaveAsWritten, Zenon DEF SaveDialogResponse
    <2>. QED BY <2>2, <2>3
  <1>21. ASSUME AutoSave PROVE Written'
    <2>1. alive /\ UNCHANGED <<docVars, loader, removeIdle, disk, newer>>
      BY <1>21, Zenon DEF AutoSave
    <2>2. CASE UNCHANGED <<state, editable, saver>> BY <2>1, <2>2, WrittenUntouched, Zenon
    <2>3. CASE ~UNCHANGED <<state, editable, saver>>
      <3>1. state \in {"NORMAL", "SHOWING_PRINT_PREVIEW"} /\ SetState("SAVING")
            /\ DocumentSave("own", FALSE)
        BY <1>21, <2>3, Zenon DEF AutoSave
      <3>2. saver = NoSaver BY <2>1, <3>1, SMT
      <3>. QED BY <2>1, <3>1, <3>2, StartedSave, Zenon DEF SavableStates
    <2>. QED BY <2>2, <2>3
  <1>22. ASSUME SaveTakesLong PROVE Written'
    BY <1>22, SMTT(20) DEF SaveTakesLong
  <1>23. ASSUME SaverSucceeds PROVE Written'
    BY <1>23, SetStateNormalEnds, SMTT(20)
       DEF SaverSucceeds, SavedIsAwaited, SetStateAfterSaving, SetState, EditableIn,
           EndSaving, InstallTimerIfNeeded
  <1>24. ASSUME NEW bar \in SavingBars, SaverFails(bar) PROVE Written'
    BY <1>24, SMTT(20) DEF SaverFails, FailureOf, SavedIsAwaited, SetState, EditableIn
  <1>25. ASSUME DismissSaveError PROVE Written'
    BY <1>25, SetStateNormalEnds, SMTT(20)
       DEF DismissSaveError, UserActs, SetStateAfterSaving, SetState, EditableIn, EndSaving,
           InstallTimerIfNeeded
  <1>26. ASSUME SaveWithoutBackup PROVE Written'
    BY <1>26, SMTT(20)
       DEF SaveWithoutBackup, ResumeSaving, UserActs, SetState, EditableIn, ResaveInPlace,
           DocumentSave
  <1>27. ASSUME SaveOverModification PROVE Written'
    <2>1. ResumeSaving("externally_modified") BY <1>27, Zenon DEF SaveOverModification
    <2>2. SetState("SAVING") /\ DocumentSave("own", TRUE)
      BY <1>27, <2>1, ResumedSave, Zenon DEF SaveOverModification, ResaveInPlace
    <2>. QED BY <2>1, <2>2, ResumedSave, StartedSave, Zenon DEF SavableStates
  <1>28. ASSUME SaveInOtherEncoding PROVE Written'
    <2>1. ResumeSaving("conversion") BY <1>28, Zenon DEF SaveInOtherEncoding
    <2>2. SetState("SAVING") /\ DocumentSave(tmp_save_uri, TRUE)
      BY <1>28, <2>1, ResumedSave, Zenon DEF SaveInOtherEncoding
    <2>. QED BY <2>1, <2>2, ResumedSave, StartedSave, Zenon DEF SavableStates
  <1>29. ASSUME PrintPreview PROVE Written'
    BY <1>29, SMTT(20)
       DEF PrintPreview, UserActs, StartPrinting, SetState, EditableIn, PrintUnchanged
  <1>30. ASSUME PrintDocument PROVE Written'
    BY <1>30, SMTT(20)
       DEF PrintDocument, UserActs, StartPrinting, SetState, EditableIn, PrintUnchanged
  <1>31. ASSUME PrintFromPreview PROVE Written'
    BY <1>31, SetStateNormalEnds, SMTT(20)
       DEF PrintFromPreview, UserActs, StartPrinting, SetState, EditableIn
  <1>32. ASSUME PrintFails PROVE Written'
    BY <1>32, SetStateNormalEnds, SMTT(20) DEF PrintFails
  <1>33. ASSUME ShowPreview PROVE Written'
    BY <1>33, SMTT(20) DEF ShowPreview, SetState, EditableIn, PrintUnchanged
  <1>34. ASSUME PrintJobDone PROVE Written'
    <2>1. CASE state \in PrintStates
      <3>1. SetStateNormal BY <1>34, <2>1, Zenon DEF PrintJobDone
      <3>. QED BY <1>34, <2>1, <3>1, SetStateNormalEnds, SMT DEF PrintJobDone
    <2>2. CASE state \notin PrintStates BY <1>34, <2>2, SMT DEF PrintJobDone
    <2>. QED BY <2>1, <2>2
  <1>35. ASSUME Close PROVE Written'
    <2>1. CASE CanClose BY <1>35, <2>1, RemovedTabIsWritten, Zenon DEF Close
    <2>2. CASE ~(CanClose) BY <1>35, <2>2, SMT DEF Close, UserActs
    <2>. QED BY <2>1, <2>2
  <1>36. ASSUME SaveAndClose PROVE Written'
    <2>1. alive /\ UNCHANGED <<docVars, loader, removeIdle, disk, newer>>
      BY <1>36, Zenon DEF SaveAndClose
    <2>. QED BY <1>36, <2>1, FileSaveWritten, Zenon DEF SaveAndClose
  <1>37. ASSUME CloseWithoutSaving PROVE Written'
    BY <1>37, RemovedTabIsWritten, Zenon DEF CloseWithoutSaving
  <1>38. ASSUME DoNotClose PROVE Written'
    BY <1>38, SMTT(20) DEF DoNotClose
  <1>39. ASSUME ReallyCloseTab PROVE Written'
    <2>1. CASE state = "CLOSING"
      BY <1>39, <2>1, RemovedTabIsWritten, Zenon DEF ReallyCloseTab
    <2>2. CASE ~(state = "CLOSING") BY <1>39, <2>2, SMT DEF ReallyCloseTab, UserActs
    <2>. QED BY <2>1, <2>2
  <1>40. ASSUME Edit PROVE Written'
    BY <1>40, SMTT(20) DEF Edit, Savers, UserActs
  <1>41. ASSUME ForeignWrite PROVE Written'
    BY <1>41, SMTT(20) DEF ForeignWrite, ForeignStep
  <1>42. ASSUME ForeignDelete PROVE Written'
    BY <1>42, SMTT(20) DEF ForeignDelete, ForeignStep
  <1>43. ASSUME ChangePermissions PROVE Written'
    BY <1>43, SMTT(20) DEF ChangePermissions, ForeignStep
  <1>44. ASSUME SetAutoSaveEnabled PROVE Written'
    BY <1>44, SMTT(20) DEF SetAutoSaveEnabled, TimerUnchanged
  <1>45. ASSUME SetAutoSaveInterval PROVE Written'
    BY <1>45, SMTT(20) DEF SetAutoSaveInterval, TimerUnchanged
  <1>. QED
    BY <1>1, <1>2, <1>3, <1>4, <1>5, <1>6, <1>7, <1>8, <1>9, <1>10, <1>11, <1>12, <1>13,
         <1>14, <1>15, <1>16, <1>17, <1>18, <1>19, <1>20, <1>21, <1>22, <1>23, <1>24, <1>25,
         <1>26, <1>27, <1>28, <1>29, <1>30, <1>31, <1>32, <1>33, <1>34, <1>35, <1>36, <1>37,
         <1>38, <1>39, <1>40, <1>41, <1>42, <1>43, <1>44, <1>45,
              SMTT(30) DEF Next, User, LoaderStep, SaverStep, Idles

(***************************************************************************)
(* The worlds without a second tab, failing loads and changing permissions: *)
(* a tab that is at rest is ready for everything, the next autosave included.*)
(***************************************************************************)

Steady == {"duplicate", "unreadable", "absent", "permissions"} \intersect World = {}

\* Nothing of an operation that is over is left behind.  A revert cannot fail but by
\* being called off, and so is never dismissed with its encoding still set.
Rested ==
    alive =>
    /\ state \notin BusyStates \union ErrorStates => TmpDataIsNull
    /\ state \in {"SAVING", "SAVING_ERROR"} => tmp_save_uri # "none" /\ tmp_encoding
    /\ state \notin {"SAVING", "SAVING_ERROR"} => tmp_save_uri = "none"
    /\ saver # NoSaver => state = "SAVING"
    /\ loader # "none" => state \in {"LOADING", "REVERTING"}
    /\ titled => disk # "absent"
    /\ dialog = "revert" => titled
    /\ state \in {"EXTERNALLY_MODIFIED_NOTIFICATION", "LOADING", "LOADING_ERROR", "REVERTING"}
          => titled
    /\ (area = "notification") <=> (state = "EXTERNALLY_MODIFIED_NOTIFICATION")
    /\ area \notin {"revert_error", "already_open"}
    /\ orphans \intersect {"notification", "already_open"} = {}
    /\ area \in {"progress_load", "load_error"}
          => state \in {"LOADING", "LOADING_ERROR", "REVERTING", "REVERTING_ERROR"}

\* A timeout runs exactly when it should, and a failed assertion never ends one.
Armed ==
    alive =>
    /\ canWrite /\ ~readonly
    /\ timer # "none" => timer = "live" /\ titled /\ autosave
    /\ autosave /\ titled /\ state \notin NoTimerStates \union {"CLOSING"} => timer = "live"

LEMMA RemovedTabIsRested == ASSUME RemoveTab PROVE Rested'
  <1>1. ~alive' BY Zenon DEF RemoveTab
  <1>. QED BY <1>1, Zenon DEF Rested

\* Every step of a steady world leaves a tab rested.
LEMMA RestedKept ==
  ASSUME Steady, ValuesOK, NoTimerWhileBusy, ErrorBarsFit, Rested, Next
  PROVE  Rested'
  <1> USE DEF Steady, Rested, ValuesOK, ErrorBarsFit, TmpDataIsNull,
              NoTimerWhileBusy, NoTimerStates, States, BusyStates, ErrorStates,
              PrintStates, SavingBars, NoSaver
  <1>1. ASSUME Load PROVE Rested'
    BY <1>1, SMTT(10) DEF Load, UserActs, SetState, EditableIn, RemoveTimer, DocumentLoad
  <1>2. ASSUME Revert PROVE Rested'
    BY <1>2, SMTT(10)
       DEF Revert, UserActs, TabRevert, SetState, EditableIn, RemoveTimer, DocumentLoad
  <1>3. ASSUME RevertDialogResponse PROVE Rested'
    BY <1>3, SMTT(10)
       DEF RevertDialogResponse, TabRevert, SetState, EditableIn, RemoveTimer, DocumentLoad
  <1>4. ASSUME LoadTakesLong PROVE Rested'
    BY <1>4, SMTT(10) DEF LoadTakesLong
  <1>5. ASSUME LoaderFillsBuffer PROVE Rested'
    BY <1>5, SMTT(10) DEF LoaderFillsBuffer
  <1>6. ASSUME LoaderSucceeds PROVE Rested'
    <2>1. LoadedIsAwaited BY <1>6, SMT DEF LoadedIsAwaited, LoaderSucceeds
    <2>2. "duplicate" \notin World BY Zenon DEF Steady
    <2>3. \E shared \in {FALSE} : DocumentLoaded(shared)
      BY <1>6, <2>2, Zenon DEF LoaderSucceeds
    <2>4. DocumentLoaded(FALSE) BY <2>3, Zenon
    <2>5. area' = "none" /\ SetStateNormal /\ tmp_encoding' = FALSE
      BY <2>1, <2>4, Zenon DEF DocumentLoaded
    <2>. QED
      BY <1>6, <2>1, <2>5, SetStateNormalEnds, SMT DEF LoaderSucceeds, LoadedIsAwaited
  <1>7. ASSUME LoaderCreates PROVE Rested'
    BY <1>7, SetStateNormalEnds, SMTT(10)
       DEF LoaderCreates, DocumentLoaded, LoadedIsAwaited, InstallTimerIfNeeded
  <1>8. ASSUME LoaderFails PROVE Rested'
    BY <1>8, SMTT(10) DEF LoaderFails, LoadedIsAwaited, SetState, EditableIn
  <1>9. ASSUME CancelLoad PROVE Rested'
    BY <1>9, SMTT(10) DEF CancelLoad, UserActs, LoadedIsAwaited, SetState, EditableIn
  <1>10. ASSUME RemoveTabIdle PROVE Rested'
    BY <1>10, RemovedTabIsRested, Zenon DEF RemoveTabIdle
  <1>11. ASSUME RetryLoad PROVE Rested'
    BY <1>11, SMTT(10) DEF RetryLoad, UserActs, SetState, EditableIn, DocumentLoad
  <1>12. ASSUME GiveUpLoad PROVE Rested'
    BY <1>12, RemovedTabIsRested, Zenon DEF GiveUpLoad
  <1>13. ASSUME DismissRevertError PROVE Rested'
    BY <1>13, SetStateNormalEnds, SMTT(10)
       DEF DismissRevertError, UserActs, InstallTimerIfNeeded
  <1>14. ASSUME NEW b \in BOOLEAN, AnswerAlreadyOpen(b) PROVE Rested'
    BY <1>14, SMTT(10) DEF AnswerAlreadyOpen, UserActs, Displayed
  <1>15. ASSUME FocusIn PROVE Rested'
    BY <1>15, SMTT(10) DEF FocusIn, UserActs, Forgotten, SetState, EditableIn
  <1>16. ASSUME Reload PROVE Rested'
    BY <1>16, SMTT(10)
       DEF Reload, UserActs, Displayed, SetState, EditableIn, RemoveTimer, DocumentLoad
  <1>17. ASSUME IgnoreModification PROVE Rested'
    BY <1>17, SetStateNormalEnds, SMTT(10) DEF IgnoreModification, UserActs, Displayed
  <1>18. ASSUME Save PROVE Rested'
    BY <1>18, SMTT(10)
       DEF Save, UserActs, FileSave, SaveRefused, TabSave, SavableStates, TmpDataIsNull,
           StartSaving, SetState, EditableIn, RemoveTimer, DocumentSave
  <1>19. ASSUME SaveAs PROVE Rested'
    BY <1>19, SMTT(10) DEF SaveAs, UserActs
  <1>20. ASSUME SaveDialogResponse PROVE Rested'
    BY <1>20, SMTT(10)
       DEF SaveDialogResponse, SaveRefused, TabSaveAs, SavableStates, TmpDataIsNull,
           StartSaving, SetState, EditableIn, RemoveTimer, DocumentSave
  <1>21. ASSUME AutoSave PROVE Rested'
    BY <1>21, SMTT(10)
       DEF AutoSave, AutoSaveAccepts, TmpDataIsNull, SetState, EditableIn, DocumentSave
  <1>22. ASSUME SaveTakesLong PROVE Rested'
    BY <1>22, SMTT(10) DEF SaveTakesLong
  <1>23. ASSUME SaverSucceeds PROVE Rested'
    BY <1>23, SetStateNormalEnds, SMTT(10)
       DEF SaverSucceeds, SavedIsAwaited, SetStateAfterSaving, SetState, EditableIn,
           EndSaving, InstallTimerIfNeeded
  <1>24. ASSUME NEW bar \in SavingBars, SaverFails(bar) PROVE Rested'
    BY <1>24, SMTT(10) DEF SaverFails, FailureOf, SavedIsAwaited, SetState, EditableIn
  <1>25. ASSUME DismissSaveError PROVE Rested'
    BY <1>25, SetStateNormalEnds, SMTT(10)
       DEF DismissSaveError, UserActs, SetStateAfterSaving, SetState, EditableIn, EndSaving,
           InstallTimerIfNeeded
  <1>26. ASSUME SaveWithoutBackup PROVE Rested'
    BY <1>26, SMTT(10)
       DEF SaveWithoutBackup, ResumeSaving, UserActs, SetState, EditableIn, ResaveInPlace,
           DocumentSave
  <1>27. ASSUME SaveOverModification PROVE Rested'
    BY <1>27, SMTT(10)
       DEF SaveOverModification, ResumeSaving, UserActs, SetState, EditableIn,
           ResaveInPlace, DocumentSave
  <1>28. ASSUME SaveInOtherEncoding PROVE Rested'
    BY <1>28, SMTT(10)
       DEF SaveInOtherEncoding, ResumeSaving, UserActs, DocumentSave, SetState
  <1>29. ASSUME PrintPreview PROVE Rested'
    BY <1>29, SMTT(10)
       DEF PrintPreview, UserActs, StartPrinting, SetState, EditableIn, PrintUnchanged
  <1>30. ASSUME PrintDocument PROVE Rested'
    BY <1>30, SMTT(10)
       DEF PrintDocument, UserActs, StartPrinting, SetState, EditableIn, PrintUnchanged
  <1>31. ASSUME PrintFromPreview PROVE Rested'
    BY <1>31, SetStateNormalEnds, SMTT(10)
       DEF PrintFromPreview, UserActs, StartPrinting, SetState, EditableIn
  <1>32. ASSUME PrintFails PROVE Rested'
    BY <1>32, SetStateNormalEnds, SMTT(10) DEF PrintFails
  <1>33. ASSUME ShowPreview PROVE Rested'
    BY <1>33, SMTT(10) DEF ShowPreview, SetState, EditableIn, PrintUnchanged
  <1>34. ASSUME PrintJobDone PROVE Rested'
    <2>1. CASE state \in PrintStates
      <3>1. SetStateNormal BY <1>34, <2>1, Zenon DEF PrintJobDone
      <3>. QED BY <1>34, <2>1, <3>1, SetStateNormalEnds, SMT DEF PrintJobDone
    <2>2. CASE state \notin PrintStates BY <1>34, <2>2, SMT DEF PrintJobDone
    <2>. QED BY <2>1, <2>2
  <1>35. ASSUME Close PROVE Rested'
    <2>1. CASE CanClose BY <1>35, <2>1, RemovedTabIsRested, Zenon DEF Close
    <2>2. CASE ~(CanClose) BY <1>35, <2>2, SMT DEF Close, UserActs
    <2>. QED BY <2>1, <2>2
  <1>36. ASSUME SaveAndClose PROVE Rested'
    BY <1>36, SMTT(10)
       DEF SaveAndClose, FileSave, SaveRefused, TabSave, SavableStates, TmpDataIsNull,
           StartSaving, SetState, EditableIn, RemoveTimer, DocumentSave
  <1>37. ASSUME CloseWithoutSaving PROVE Rested'
    BY <1>37, RemovedTabIsRested, Zenon DEF CloseWithoutSaving
  <1>38. ASSUME DoNotClose PROVE Rested'
    BY <1>38, SMTT(10) DEF DoNotClose
  <1>39. ASSUME ReallyCloseTab PROVE Rested'
    <2>1. CASE state = "CLOSING"
      BY <1>39, <2>1, RemovedTabIsRested, Zenon DEF ReallyCloseTab
    <2>2. CASE ~(state = "CLOSING") BY <1>39, <2>2, SMT DEF ReallyCloseTab, UserActs
    <2>. QED BY <2>1, <2>2
  <1>40. ASSUME Edit PROVE Rested'
    <2>1. saver' = NoSaver <=> saver = NoSaver
      <3>1. CASE saver = NoSaver BY <1>40, <3>1, Zenon DEF Edit
      <3>2. CASE saver # NoSaver BY <1>40, <3>2, SMT DEF Edit, Savers
      <3>. QED BY <3>1, <3>2
    <2>. QED BY <1>40, <2>1, SMT DEF Edit, UserActs
  <1>41. ASSUME ForeignWrite PROVE Rested'
    BY <1>41, SMTT(10) DEF ForeignWrite, ForeignStep
  <1>42. ASSUME ForeignDelete PROVE Rested'
    BY <1>42, SMTT(10) DEF ForeignDelete, ForeignStep
  <1>43. ASSUME ChangePermissions PROVE Rested'
    BY <1>43, SMTT(10) DEF ChangePermissions, ForeignStep
  <1>44. ASSUME SetAutoSaveEnabled PROVE Rested'
    BY <1>44, SMTT(10) DEF SetAutoSaveEnabled, TimerUnchanged
  <1>45. ASSUME SetAutoSaveInterval PROVE Rested'
    BY <1>45, SMTT(10) DEF SetAutoSaveInterval, TimerUnchanged
  <1>. QED
    BY <1>1, <1>2, <1>3, <1>4, <1>5, <1>6, <1>7, <1>8, <1>9, <1>10, <1>11, <1>12, <1>13,
         <1>14, <1>15, <1>16, <1>17, <1>18, <1>19, <1>20, <1>21, <1>22, <1>23, <1>24, <1>25,
         <1>26, <1>27, <1>28, <1>29, <1>30, <1>31, <1>32, <1>33, <1>34, <1>35, <1>36, <1>37,
         <1>38, <1>39, <1>40, <1>41, <1>42, <1>43, <1>44, <1>45,
              SMTT(30) DEF Next, User, LoaderStep, SaverStep, Idles

LEMMA RemovedTabIsArmed == ASSUME RemoveTab PROVE Armed'
  <1>1. ~alive' BY Zenon DEF RemoveTab
  <1>. QED BY <1>1, Zenon DEF Armed

\* Every step of a steady world leaves a tab armed.
LEMMA ArmedKept ==
  ASSUME Steady, FlagsOK, ValuesOK, NoTimerWhileBusy, ErrorBarsFit, Rested, Armed, Next
  PROVE  Armed'
  <1> USE DEF Steady, Rested, Armed, FlagsOK, ValuesOK, ErrorBarsFit, TmpDataIsNull,
              NoTimerWhileBusy, NoTimerStates, States, BusyStates, ErrorStates,
              PrintStates, SavingBars, NoSaver, InstallTimerIfNeeded, RemoveTimer,
              EndSaving, Timers
  <1>1. ASSUME Load PROVE Armed'
    <2>1. "permissions" \notin World BY Zenon DEF Steady
    <2>2. canWrite' = TRUE BY <1>1, <2>1, Zenon DEF Load
    <2>3. /\ alive /\ readonly' = readonly /\ timer' = "none" /\ state' = "LOADING"
      BY <1>1, Zenon DEF Load, UserActs, SetState, RemoveTimer
    <2>. QED BY <2>2, <2>3, SMT
  <1>2. ASSUME Revert PROVE Armed'
    BY <1>2, SMTT(10)
       DEF Revert, UserActs, TabRevert, SetState, EditableIn, RemoveTimer, DocumentLoad
  <1>3. ASSUME RevertDialogResponse PROVE Armed'
    BY <1>3, SMTT(10)
       DEF RevertDialogResponse, TabRevert, SetState, EditableIn, RemoveTimer, DocumentLoad
  <1>4. ASSUME LoadTakesLong PROVE Armed'
    BY <1>4, SMTT(10) DEF LoadTakesLong
  <1>5. ASSUME LoaderFillsBuffer PROVE Armed'
    BY <1>5, SMTT(10) DEF LoaderFillsBuffer
  <1>6. ASSUME LoaderSucceeds PROVE Armed'
    BY <1>6, SetStateNormalEnds, SMTT(10)
       DEF LoadedIsAwaited, LoaderSucceeds, DocumentLoaded
  <1>7. ASSUME LoaderCreates PROVE Armed'
    BY <1>7, SetStateNormalEnds, SMTT(10)
       DEF LoaderCreates, DocumentLoaded, LoadedIsAwaited, InstallTimerIfNeeded
  <1>8. ASSUME LoaderFails PROVE Armed'
    BY <1>8, SMTT(10) DEF LoaderFails, LoadedIsAwaited, SetState, EditableIn
  <1>9. ASSUME CancelLoad PROVE Armed'
    BY <1>9, SMTT(10) DEF CancelLoad, UserActs, LoadedIsAwaited, SetState, EditableIn
  <1>10. ASSUME RemoveTabIdle PROVE Armed'
    BY <1>10, RemovedTabIsArmed, Zenon DEF RemoveTabIdle
  <1>11. ASSUME RetryLoad PROVE Armed'
    BY <1>11, SMTT(10) DEF RetryLoad, UserActs, SetState, EditableIn, DocumentLoad
  <1>12. ASSUME GiveUpLoad PROVE Armed'
    BY <1>12, RemovedTabIsArmed, Zenon DEF GiveUpLoad
  <1>13. ASSUME DismissRevertError PROVE Armed'
    BY <1>13, SetStateNormalEnds, SMTT(10)
       DEF DismissRevertError, UserActs, InstallTimerIfNeeded
  <1>14. ASSUME NEW b \in BOOLEAN, AnswerAlreadyOpen(b) PROVE Armed'
    BY <1>14, SMTT(10) DEF AnswerAlreadyOpen, UserActs, Displayed
  <1>15. ASSUME FocusIn PROVE Armed'
    BY <1>15, SMTT(10) DEF FocusIn, UserActs, Forgotten, SetState, EditableIn
  <1>16. ASSUME Reload PROVE Armed'
    BY <1>16, SMTT(10)
       DEF Reload, UserActs, Displayed, SetState, EditableIn, RemoveTimer, DocumentLoad
  <1>17. ASSUME IgnoreModification PROVE Armed'
    BY <1>17, SetStateNormalEnds, SMTT(10) DEF IgnoreModification, UserActs, Displayed
  <1>18. ASSUME Save PROVE Armed'
    BY <1>18, SMTT(10)
       DEF Save, UserActs, FileSave, SaveRefused, TabSave, SavableStates, TmpDataIsNull,
           StartSaving, SetState, EditableIn, RemoveTimer, DocumentSave
  <1>19. ASSUME SaveAs PROVE Armed'
    BY <1>19, SMTT(10) DEF SaveAs, UserActs
  <1>20. ASSUME SaveDialogResponse PROVE Armed'
    BY <1>20, SMTT(10)
       DEF SaveDialogResponse, SaveRefused, TabSaveAs, SavableStates, TmpDataIsNull,
           StartSaving, SetState, EditableIn, RemoveTimer, DocumentSave
  <1>21. ASSUME AutoSave PROVE Armed'
    BY <1>21, SMTT(10)
       DEF AutoSave, AutoSaveAccepts, TmpDataIsNull, SetState, EditableIn, DocumentSave
  <1>22. ASSUME SaveTakesLong PROVE Armed'
    BY <1>22, SMTT(10) DEF SaveTakesLong
  <1>23. ASSUME SaverSucceeds PROVE Armed'
    <2>1. alive /\ saver # NoSaver BY <1>23, Zenon DEF SaverSucceeds
    <2>2. SavedIsAwaited BY <2>1, SMT DEF SavedIsAwaited
    <2>3. /\ SetStateAfterSaving /\ InstallTimerIfNeeded /\ titled' = TRUE /\ readonly' = FALSE
          /\ autosave' = autosave /\ canWrite' = (canWrite \/ saver.to = "other")
      BY <1>23, <2>2, Zenon DEF SaverSucceeds, EndSaving
    <2>4. canWrite' /\ ~readonly' BY <2>1, <2>3, Zenon DEF Armed
    <2>5. state' \in {"NORMAL", "SHOWING_PRINT_PREVIEW", "CLOSING"}
      BY <2>3, SetStateNormalEnds, Zenon DEF SetStateAfterSaving, SetState
    <2>6. timer = "none" BY <2>2, Zenon DEF SavedIsAwaited
    <2>7. timer' = IF state' \in {"NORMAL", "SHOWING_PRINT_PREVIEW"} /\ autosave
                   THEN "live" ELSE "none"
      BY <2>3, <2>6, Zenon DEF InstallTimerIfNeeded
    <2>. QED BY <2>3, <2>4, <2>5, <2>7, SMT
  <1>24. ASSUME NEW bar \in SavingBars, SaverFails(bar) PROVE Armed'
    BY <1>24, SMTT(10) DEF SaverFails, FailureOf, SavedIsAwaited, SetState, EditableIn
  <1>25. ASSUME DismissSaveError PROVE Armed'
    BY <1>25, SetStateNormalEnds, SMTT(10)
       DEF DismissSaveError, UserActs, SetStateAfterSaving, SetState, EditableIn, EndSaving,
           InstallTimerIfNeeded
  <1>26. ASSUME SaveWithoutBackup PROVE Armed'
    BY <1>26, SMTT(10)
       DEF SaveWithoutBackup, ResumeSaving, UserActs, SetState, EditableIn, ResaveInPlace,
           DocumentSave
  <1>27. ASSUME SaveOverModification PROVE Armed'
    BY <1>27, SMTT(10)
       DEF SaveOverModification, ResumeSaving, UserActs, SetState, EditableIn,
           ResaveInPlace, DocumentSave
  <1>28. ASSUME SaveInOtherEncoding PROVE Armed'
    BY <1>28, SMTT(10)
       DEF SaveInOtherEncoding, ResumeSaving, UserActs, DocumentSave, SetState
  <1>29. ASSUME PrintPreview PROVE Armed'
    BY <1>29, SMTT(10)
       DEF PrintPreview, UserActs, StartPrinting, SetState, EditableIn, PrintUnchanged
  <1>30. ASSUME PrintDocument PROVE Armed'
    BY <1>30, SMTT(10)
       DEF PrintDocument, UserActs, StartPrinting, SetState, EditableIn, PrintUnchanged
  <1>31. ASSUME PrintFromPreview PROVE Armed'
    BY <1>31, SetStateNormalEnds, SMTT(10)
       DEF PrintFromPreview, UserActs, StartPrinting, SetState, EditableIn
  <1>32. ASSUME PrintFails PROVE Armed'
    BY <1>32, SetStateNormalEnds, SMTT(10) DEF PrintFails
  <1>33. ASSUME ShowPreview PROVE Armed'
    BY <1>33, SMTT(10) DEF ShowPreview, SetState, EditableIn, PrintUnchanged
  <1>34. ASSUME PrintJobDone PROVE Armed'
    <2>1. CASE state \in PrintStates
      <3>1. SetStateNormal BY <1>34, <2>1, Zenon DEF PrintJobDone
      <3>. QED BY <1>34, <2>1, <3>1, SetStateNormalEnds, SMT DEF PrintJobDone
    <2>2. CASE state \notin PrintStates BY <1>34, <2>2, SMT DEF PrintJobDone
    <2>. QED BY <2>1, <2>2
  <1>35. ASSUME Close PROVE Armed'
    <2>1. CASE CanClose BY <1>35, <2>1, RemovedTabIsArmed, Zenon DEF Close
    <2>2. CASE ~(CanClose) BY <1>35, <2>2, SMT DEF Close, UserActs
    <2>. QED BY <2>1, <2>2
  <1>36. ASSUME SaveAndClose PROVE Armed'
    BY <1>36, SMTT(10)
       DEF SaveAndClose, FileSave, SaveRefused, TabSave, SavableStates, TmpDataIsNull,
           StartSaving, SetState, EditableIn, RemoveTimer, DocumentSave
  <1>37. ASSUME CloseWithoutSaving PROVE Armed'
    BY <1>37, RemovedTabIsArmed, Zenon DEF CloseWithoutSaving
  <1>38. ASSUME DoNotClose PROVE Armed'
    BY <1>38, SMTT(10) DEF DoNotClose
  <1>39. ASSUME ReallyCloseTab PROVE Armed'
    <2>1. CASE state = "CLOSING" BY <1>39, <2>1, RemovedTabIsArmed, Zenon DEF ReallyCloseTab
    <2>2. CASE ~(state = "CLOSING") BY <1>39, <2>2, SMT DEF ReallyCloseTab, UserActs
    <2>. QED BY <2>1, <2>2
  <1>40. ASSUME Edit PROVE Armed'
    BY <1>40, SMTT(10) DEF Edit, Savers, UserActs
  <1>41. ASSUME ForeignWrite PROVE Armed'
    BY <1>41, SMTT(10) DEF ForeignWrite, ForeignStep
  <1>42. ASSUME ForeignDelete PROVE Armed'
    BY <1>42, SMTT(10) DEF ForeignDelete, ForeignStep
  <1>43. ASSUME ChangePermissions PROVE Armed'
    BY <1>43, SMTT(10) DEF ChangePermissions, ForeignStep
  <1>44. ASSUME SetAutoSaveEnabled PROVE Armed'
    BY <1>44, SMTT(10) DEF SetAutoSaveEnabled, TimerUnchanged
  <1>45. ASSUME SetAutoSaveInterval PROVE Armed'
    BY <1>45, SMTT(10) DEF SetAutoSaveInterval, TimerUnchanged
  <1>. QED
    BY <1>1, <1>2, <1>3, <1>4, <1>5, <1>6, <1>7, <1>8, <1>9, <1>10, <1>11, <1>12, <1>13,
         <1>14, <1>15, <1>16, <1>17, <1>18, <1>19, <1>20, <1>21, <1>22, <1>23, <1>24, <1>25,
         <1>26, <1>27, <1>28, <1>29, <1>30, <1>31, <1>32, <1>33, <1>34, <1>35, <1>36, <1>37,
         <1>38, <1>39, <1>40, <1>41, <1>42, <1>43, <1>44, <1>45,
              SMTT(30) DEF Next, User, LoaderStep, SaverStep, Idles

(***************************************************************************)
(* The theorems.                                                           *)
(***************************************************************************)

LEMMA InitIInv == Init => IInv
  <1> SUFFICES ASSUME Init PROVE IInv
    OBVIOUS
  <1>1. FlagsOK BY Zenon DEF Init, FlagsOK
  <1>2. ValuesOK BY SMT DEF Init, ValuesOK, Timers, States, Savers
  <1>3. NoTimerWhileBusy /\ ErrorBarsFit
    BY SMT DEF Init, NoTimerWhileBusy, ErrorBarsFit, SavingBars
  <1>. QED BY <1>1, <1>2, <1>3 DEF IInv

LEMMA NextIInv == IInv /\ [Next]_vars => IInv'
  <1> SUFFICES ASSUME IInv, [Next]_vars PROVE IInv'
    OBVIOUS
  <1>1. CASE Next
    BY <1>1, FlagsKept, ValuesKept, NoTimerKept, Zenon DEF IInv
  <1>2. CASE UNCHANGED vars
    <2>1. FlagsOK' BY <1>2, SMT DEF IInv, FlagsOK, vars
    <2>2. ValuesOK' BY <1>2, SMT DEF IInv, ValuesOK, vars
    <2>3. NoTimerWhileBusy' /\ ErrorBarsFit'
      BY <1>2, SMT DEF IInv, NoTimerWhileBusy, ErrorBarsFit, vars
    <2>. QED BY <2>1, <2>2, <2>3 DEF IInv
  <1>. QED BY <1>1, <1>2

\* The inductive invariant of every world.
THEOREM Invariance == Spec => []IInv
  BY InitIInv, NextIInv, PTL DEF Spec

\* Every variable keeps its type, whatever happens.
THEOREM TypeCorrect == Spec => []TypeOK
  <1>1. IInv => TypeOK BY Zenon DEF IInv, FlagsOK, ValuesOK, Timers, TypeOK
  <1>. QED BY <1>1, Invariance, PTL

\* Whatever happens, no autosave timeout is pending while the tab loads, reverts,
\* saves or shows an error: the assertions of document_loaded, document_saved and the
\* error bars' handlers about auto_save_timeout hold.
THEOREM NoAutosaveWhileBusy == Spec => []NoTimerWhileBusy
  <1>1. IInv => NoTimerWhileBusy BY DEF IInv
  <1>. QED BY <1>1, Invariance, PTL

\* In a plain world a tab stays calm.
THEOREM Calmness == ASSUME Plain PROVE Spec => []Calm
  <1>1. Init => Calm
    BY SMT DEF Init, Calm, OneOperation, BarFits, SaveDataFits, EndsFit, NoSaver
  <1>2. IInv /\ Calm /\ [Next]_vars => Calm'
    <2> SUFFICES ASSUME IInv, Calm, [Next]_vars PROVE Calm'
      OBVIOUS
    <2>1. CASE Next BY <2>1, CalmKept, Zenon DEF IInv
    <2>2. CASE UNCHANGED vars
      BY <2>2, SMT DEF Calm, OneOperation, BarFits, SaveDataFits, EndsFit, vars
    <2>. QED BY <2>1, <2>2
  <1>. QED BY <1>1, <1>2, Invariance, PTL DEF Spec

\* In a plain world a loader is in flight exactly while the tab loads or reverts and a
\* saver exactly while it saves: no completion is unexpected, no tab waits for nothing.
THEOREM OneOperationAtATime == ASSUME Plain PROVE Spec => []OneOperation
  <1>1. Calm => OneOperation BY DEF Calm
  <1>. QED BY <1>1, Calmness, PTL

\* In a plain world an error state and the notification show their own question and no
\* other state does.
THEOREM QuestionsFit == ASSUME Plain PROVE Spec => []BarMatchesState
  <1>1. ValuesOK /\ Calm => BarMatchesState
    BY SMT DEF ValuesOK, States, BusyStates, ErrorStates, PrintStates, SavingBars, Calm,
               BarFits, BarMatchesState
  <1>2. IInv => ValuesOK BY DEF IInv
  <1>. QED BY <1>1, <1>2, Calmness, Invariance, PTL

\* In a plain world a tab with modifications goes only when the user said so in the
\* dialog, or while its text is being replaced from the file.
THEOREM ModifiedTabsStay == ASSUME Plain PROVE Spec => ModifiedTabsAreKept
  <1> DEFINE Asked ==
        dialog = "close"
          \/ state \in {"LOADING", "LOADING_ERROR", "REVERTING", "REVERTING_ERROR"}
      Kept == alive /\ ~alive' /\ modified /\ ShowSaveConfirmation => Asked
  <1>1. IInv /\ Calm /\ [Next]_vars => [Kept]_vars
    <2> SUFFICES ASSUME ValuesOK, Calm, Next, alive, ~alive', modified, ShowSaveConfirmation
                 PROVE  Asked
      BY Zenon DEF IInv
    <2>1. RemoveTabIdle \/ GiveUpLoad \/ Close \/ CloseWithoutSaving \/ ReallyCloseTab
      BY ZenonT(60)
         DEF Next, User, LoaderStep, SaverStep, Idles, Load, Revert,
             RevertDialogResponse, LoadTakesLong, LoaderFillsBuffer,
             LoaderSucceeds, LoaderCreates, LoaderFails, CancelLoad, RetryLoad,
             DismissRevertError, AnswerAlreadyOpen, FocusIn, Reload,
             IgnoreModification, Save, SaveAs, SaveDialogResponse, AutoSave,
             SaveTakesLong, SaverSucceeds, SaverFails, DismissSaveError,
             SaveWithoutBackup, SaveOverModification, SaveInOtherEncoding,
             PrintPreview, PrintDocument, PrintFromPreview, PrintFails,
             ShowPreview, PrintJobDone, SaveAndClose, DoNotClose, Edit,
             ForeignWrite, ForeignDelete, ChangePermissions, SetAutoSaveEnabled,
             SetAutoSaveInterval, PrintUnchanged, TimerUnchanged, ForeignStep,
             ResumeSaving
    <2>2. CASE RemoveTabIdle BY <2>2, SMT DEF RemoveTabIdle, Calm, EndsFit
    <2>3. CASE GiveUpLoad
      BY <2>3, SMT DEF GiveUpLoad, ValuesOK, States, BusyStates, ErrorStates, PrintStates,
                       SavingBars, Calm, BarFits
    <2>4. CASE Close BY <2>4, Zenon DEF Close, CanClose
    <2>5. CASE CloseWithoutSaving BY <2>5, Zenon DEF CloseWithoutSaving
    <2>6. CASE ReallyCloseTab BY <2>6, Zenon DEF ReallyCloseTab, Calm, EndsFit
    <2>. QED BY <2>1, <2>2, <2>3, <2>4, <2>5, <2>6
  <1>. QED BY <1>1, Calmness, Invariance, PTL DEF Spec, ModifiedTabsAreKept

\* In a plain world a save goes to where it was asked for, from the first attempt to the
\* last answer to a failure of it.
THEOREM SavesGoWhereAsked == ASSUME Plain PROVE Spec => []SavesWhereAsked
  <1>1. Init => Destined BY Zenon DEF Init, Destined
  <1>2. IInv /\ Calm /\ Destined /\ [Next]_vars => Destined'
    <2> SUFFICES ASSUME IInv, Calm, Destined, [Next]_vars PROVE Destined'
      OBVIOUS
    <2>1. CASE Next BY <2>1, DestinedKept, Zenon DEF IInv
    <2>2. CASE UNCHANGED vars BY <2>2, SMT DEF Destined, vars
    <2>. QED BY <2>1, <2>2
  <1>3. Destined => SavesWhereAsked BY Zenon DEF Destined, SavesWhereAsked
  <1>. QED BY <1>1, <1>2, <1>3, Calmness, Invariance, PTL DEF Spec

\* In a faithful world a document that claims to be unmodified is what its file holds,
\* unless the file is gone or its mtime tells of another program.
THEOREM UnmodifiedAreSaved == ASSUME Faithful PROVE Spec => []UnmodifiedIsSaved
  <1>1. Init => Written BY SMT DEF Init, Written, NoSaver
  <1>2. IInv /\ Calm /\ Written /\ [Next]_vars => Written'
    <2> SUFFICES ASSUME IInv, Calm, Written, [Next]_vars PROVE Written'
      OBVIOUS
    <2>1. CASE Next BY <2>1, WrittenKept, Zenon DEF IInv
    <2>2. CASE UNCHANGED vars BY <2>2, SMT DEF Written, InFile, vars
    <2>. QED BY <2>1, <2>2
  <1>3. Written => UnmodifiedIsSaved
    BY Zenon DEF Written, InFile, UnmodifiedIsSaved, ErrorStates
  <1>4. Plain BY Zenon DEF Faithful
  <1>. QED BY <1>1, <1>2, <1>3, <1>4, Calmness, Invariance, PTL DEF Spec

\* In a steady world an operation that is over leaves nothing behind that makes the next
\* one fail its assertions, and every document autosave is enabled for has its timeout.
THEOREM AlwaysReady == ASSUME Steady PROVE Spec => []ReadyAgain
  <1> DEFINE Ready == Rested /\ Armed
  <1>1. Init => Ready
    BY SMT DEF Init, Rested, Armed, TmpDataIsNull, BusyStates, ErrorStates, NoSaver
  <1>2. IInv /\ Ready /\ [Next]_vars => Ready'
    <2> SUFFICES ASSUME IInv, Rested, Armed, [Next]_vars PROVE Rested' /\ Armed'
      OBVIOUS
    <2>1. CASE Next BY <2>1, RestedKept, ArmedKept, Zenon DEF IInv
    <2>2. CASE UNCHANGED vars BY <2>2, SMT DEF Rested, Armed, TmpDataIsNull, vars
    <2>. QED BY <2>1, <2>2
  <1>3. Ready => ReadyAgain
    BY Zenon DEF Rested, Armed, ReadyAgain, TmpDataIsReset, AutosaveArmed
  <1>. QED BY <1>1, <1>2, <1>3, Invariance, PTL DEF Spec

(***************************************************************************)
(* Searching in a tab.  The inductive invariant is SearchIInv: the document *)
(* is Sound, which puts its marks and tags in its text and its region in    *)
(* order, and the search window's own state fits it.  The lemmas follow the *)
(* operators: the region, lines and matches, the document, escaping, and    *)
(* the actions.                                                             *)
(***************************************************************************)

LEMMA MaxIsGreatest ==
    ASSUME NEW n \in Nat, NEW T \in SUBSET (0..n), T # {}
    PROVE  Max(T) \in T /\ \A y \in T : Max(T) >= y
  <1> DEFINE U == {n - x : x \in T}
  <1>0. \A x \in T : x \in 0..n /\ n - x \in Nat OBVIOUS
  <1>1. U \in SUBSET Nat /\ U # {} BY <1>0
  <1>2. PICK u \in U : \A y \in U : u <= y
    <2> HIDE DEF U
    <2> QED BY <1>1, LeastNatural
  <1>3. PICK x \in T : u = n - x OBVIOUS
  <1>4. ASSUME NEW y \in T PROVE x >= y
    <2>1. x \in 0..n /\ y \in 0..n /\ n - y \in U OBVIOUS
    <2>2. n - x <= n - y BY <1>2, <1>3, <2>1
    <2> QED BY <2>1, <2>2
  <1> QED BY <1>4 DEF Max

(***************************************************************************)
(* The region.                                                              *)
(***************************************************************************)
Subregions == Nat \X Nat
Regions    == Seq(Subregions)

\* In order and apart, in a text of n characters.
InOrder(r, n) ==
    /\ \A k \in 1..Len(r) : Start(r[k]) <= End(r[k]) /\ End(r[k]) <= n
    /\ \A j, k \in 1..Len(r) : j < k => Apart(r[j], r[k])

\* The same but for what meets the range s..e, which may overlap.
InOrderBut(r, n, s, e) ==
    /\ \A k \in 1..Len(r) : Start(r[k]) <= End(r[k]) /\ End(r[k]) <= n
    /\ \A j, k \in 1..Len(r) : j < k =>
           /\ Start(r[j]) <= Start(r[k]) /\ End(r[j]) <= End(r[k])
           /\ Apart(r[j], r[k]) \/ (s <= End(r[j]) /\ Start(r[k]) <= e)

LEMMA SubregionIs ==
    ASSUME NEW r \in Regions
    PROVE  /\ Len(r) \in Nat /\ DOMAIN r = 1..Len(r)
           /\ \A k \in 1..Len(r) : r[k] \in Subregions /\ Start(r[k]) \in Nat /\ End(r[k]) \in Nat
                                   /\ r[k] = <<Start(r[k]), End(r[k])>>
  <1>1. Len(r) \in Nat /\ \A k \in 1..Len(r) : r[k] \in Subregions BY LenProperties DEF Regions
  <1>2. \A sr \in Subregions : Start(sr) \in Nat /\ End(sr) \in Nat /\ sr = <<Start(sr), End(sr)>>
    BY DEF Subregions, Start, End
  <1>3. DOMAIN r = 1..Len(r) BY LenProperties DEF Regions
  <1> QED BY <1>1, <1>2, <1>3

LEMMA PairIs ==
    ASSUME NEW a, NEW b
    PROVE  /\ Start(<<a, b>>) = a /\ End(<<a, b>>) = b
           /\ a \in Nat /\ b \in Nat => <<a, b>> \in Subregions
  BY DEF Start, End, Subregions

\* Which subregions the two searches of a range stop at.
Past(sr, pos, edges)   == pos < End(sr) \/ (edges /\ pos = End(sr))
Before(sr, pos, edges) == pos > Start(sr) \/ (edges /\ pos = Start(sr))

LEMMA EndingAfterIs ==
    ASSUME NEW r \in Regions, NEW pos \in Nat, NEW edges \in BOOLEAN
    PROVE  LET k == EndingAfter(r, pos, 0, edges)
           IN  /\ k \in 0..Len(r) /\ (k # 0 => Past(r[k], pos, edges))
               /\ \A j \in 1..Len(r) : j < k \/ k = 0 => ~Past(r[j], pos, edges)
  <1> DEFINE T == {k \in 1..Len(r) : Past(r[k], pos, edges)}
  <1>1. EndingAfter(r, pos, 0, edges) = IF T = {} THEN 0 ELSE Min(T)
    BY DEF EndingAfter, First, Past
  <1>2. Len(r) \in Nat BY SubregionIs
  <1>3. CASE T = {} BY <1>1, <1>2, <1>3
  <1>4. CASE T # {}
    <2>1. PICK k : k = Min(T) OBVIOUS
    <2>2. T \in SUBSET Nat BY <1>2
    <2>3. k \in T /\ \A y \in T : k <= y
      <3> HIDE DEF T
      <3> QED BY <1>4, <2>1, <2>2, MinIsLeast
    <2>4. k \in 1..Len(r) /\ k \in 0..Len(r) /\ k # 0 /\ Past(r[k], pos, edges) BY <1>2, <2>3
    <2>5. ASSUME NEW j \in 1..Len(r), j < k PROVE ~Past(r[j], pos, edges)
      <3>1. j \notin T BY <2>3, <2>4, <2>5
      <3> QED BY <3>1
    <2> HIDE DEF T
    <2> QED BY <1>1, <1>4, <2>1, <2>4, <2>5
  <1> QED BY <1>3, <1>4

LEMMA StartingBeforeIs ==
    ASSUME NEW r \in Regions, NEW pos \in Nat, NEW edges \in BOOLEAN, NEW f \in 1..Len(r)
    PROVE  LET k == StartingBefore(r, pos, f, edges)
           IN  /\ k \in (f - 1)..Len(r) /\ \A j \in f..k : Before(r[j], pos, edges)
               /\ k < Len(r) => ~Before(r[k + 1], pos, edges)
  <1>0. PICK n \in Nat : n = Len(r) BY SubregionIs
  <1>1. f \in 1..n /\ f \in Nat /\ f # 0 BY <1>0
  <1> DEFINE T == {k \in f..n : \A j \in f..k : Before(r[j], pos, edges)}
             U == {f - 1} \union T
  <1>2. StartingBefore(r, pos, f, edges) = Max(U)
    BY <1>0, <1>1 DEF StartingBefore, First, Before
  <1>3. U \in SUBSET (0..n) /\ U # {} BY <1>1
  <1>4. PICK k : k = Max(U) OBVIOUS
  <1>5. k \in U /\ \A y \in U : k >= y
    <2> HIDE DEF U
    <2> QED BY <1>3, <1>4, MaxIsGreatest
  <1>6. k \in (f - 1)..n BY <1>1, <1>5
  <1>7. \A j \in f..k : Before(r[j], pos, edges)
    <2>1. CASE k = f - 1 BY <1>1, <2>1
    <2>2. CASE k \in T BY <2>2
    <2> QED BY <1>5, <2>1, <2>2
  <1>8. ASSUME k < n, Before(r[k + 1], pos, edges) PROVE FALSE
    <2>1. k + 1 \in f..n /\ k \in Int BY <1>1, <1>6, <1>8
    <2>2. \A j \in f..(k + 1) : Before(r[j], pos, edges)
      <3>1. ASSUME NEW j \in f..(k + 1) PROVE Before(r[j], pos, edges)
        <4>1. j = k + 1 \/ j \in f..k BY <1>1, <1>6
        <4> QED BY <1>7, <1>8, <4>1
      <3> QED BY <3>1
    <2>3. k + 1 \in U BY <2>1, <2>2
    <2>4. k >= k + 1 BY <1>5, <2>3
    <2> QED BY <2>1, <2>4
  <1> HIDE DEF U, T
  <1> QED BY <1>0, <1>2, <1>4, <1>6, <1>7, <1>8

\* What is around a part of a region, with others in its place.
Around(r, a, m, b) == SubSeq(r, 1, a) \o m \o SubSeq(r, b + 1, Len(r))

IsAround(q, r, a, m, b) ==
    /\ q \in Regions /\ Len(q) = a + Len(m) + (Len(r) - b)
    /\ \A i \in 1..Len(q) : q[i] = IF i <= a THEN r[i]
                                   ELSE IF i <= a + Len(m) THEN m[i - a] ELSE r[i - (a + Len(m)) + b]

LEMMA AroundIs ==
    ASSUME NEW r \in Regions, NEW m \in Regions, NEW a \in 0..Len(r), NEW b \in a..Len(r)
    PROVE  IsAround(Around(r, a, m, b), r, a, m, b)
  <1>1. PICK n \in Nat, l \in Nat : n = Len(r) /\ l = Len(m) BY SubregionIs
  <1>2. a \in Nat /\ b \in Nat /\ a <= b /\ b <= n BY <1>1
  <1>3. PICK p, q, o : p = SubSeq(r, 1, a) /\ q = SubSeq(r, b + 1, Len(r)) /\ o = p \o m OBVIOUS
  <1>4. p \in Regions /\ Len(p) = a /\ \A i \in 1..a : p[i] = r[i]
    <2>1. /\ SubSeq(r, 0 + 1, a) \in Seq(Subregions) /\ Len(SubSeq(r, 0 + 1, a)) = a - 0
          /\ \A i \in 1..(a - 0) : SubSeq(r, 0 + 1, a)[i] = r[0 + i]
      BY <1>1, <1>2, SliceIs DEF Regions
    <2>2. 0 + 1 = 1 /\ a - 0 = a /\ \A i \in 1..a : 0 + i = i BY <1>2
    <2> QED BY <1>3, <2>1, <2>2 DEF Regions
  <1>5. q \in Regions /\ Len(q) = n - b /\ \A i \in 1..(n - b) : q[i] = r[b + i]
    BY <1>1, <1>2, <1>3, SliceIs DEF Regions
  <1>6. /\ o \in Regions /\ Len(o) = a + l
        /\ \A i \in 1..(a + l) : o[i] = IF i <= a THEN p[i] ELSE m[i - a]
    <2>1. /\ p \o m \in Seq(Subregions) /\ Len(p \o m) = Len(p) + Len(m)
          /\ \A i \in 1..(Len(p) + Len(m)) : (p \o m)[i] = IF i <= Len(p) THEN p[i] ELSE m[i - Len(p)]
      BY <1>4, ConcatProperties DEF Regions
    <2>2. Len(p) = a /\ Len(m) = l /\ o = p \o m BY <1>1, <1>3, <1>4
    <2> QED BY <2>1, <2>2 DEF Regions
  <1>7. /\ o \o q \in Regions /\ Len(o \o q) = (a + l) + (n - b)
        /\ \A i \in 1..((a + l) + (n - b)) : (o \o q)[i] = IF i <= a + l THEN o[i] ELSE q[i - (a + l)]
    <2>1. /\ o \o q \in Seq(Subregions) /\ Len(o \o q) = Len(o) + Len(q)
          /\ \A i \in 1..(Len(o) + Len(q)) : (o \o q)[i] = IF i <= Len(o) THEN o[i] ELSE q[i - Len(o)]
      BY <1>5, <1>6, ConcatProperties DEF Regions
    <2>2. Len(o) = a + l /\ Len(q) = n - b BY <1>5, <1>6
    <2> QED BY <2>1, <2>2 DEF Regions
  <1>8. Around(r, a, m, b) = o \o q BY <1>3 DEF Around
  <1>9. ASSUME NEW i \in 1..((a + l) + (n - b))
        PROVE  (o \o q)[i] = IF i <= a THEN r[i]
                             ELSE IF i <= a + l THEN m[i - a] ELSE r[i - (a + l) + b]
    <2>1. CASE i <= a
      <3>1. i \in 1..a /\ i \in 1..(a + l) /\ i <= a + l BY <1>1, <1>2, <2>1
      <3> QED BY <1>4, <1>6, <1>7, <2>1, <3>1
    <2>2. CASE ~(i <= a) /\ i <= a + l
      <3>1. i \in 1..(a + l) BY <1>1, <1>2, <2>2
      <3> QED BY <1>6, <1>7, <2>2, <3>1
    <2>3. CASE ~(i <= a) /\ ~(i <= a + l)
      <3>1. i - (a + l) \in 1..(n - b) /\ b + (i - (a + l)) = i - (a + l) + b BY <1>1, <1>2, <2>3
      <3> QED BY <1>5, <1>7, <2>3, <3>1
    <2> QED BY <2>1, <2>2, <2>3
  <1>10. PICK g : g = o \o q OBVIOUS
  <1>11. Len(g) = a + l + (n - b) /\ Len(g) = (a + l) + (n - b) BY <1>1, <1>2, <1>7, <1>10
  <1> QED BY <1>1, <1>7, <1>8, <1>9, <1>10, <1>11 DEF IsAround

LEMMA AroundInOrder ==
    ASSUME NEW n \in Nat, NEW r \in Regions, NEW m \in Regions, NEW a \in 0..Len(r), NEW b \in a..Len(r),
           InOrder(m, n),
           \A k \in 1..Len(r) : Start(r[k]) <= End(r[k]) /\ End(r[k]) <= n,
           \A j, k \in 1..Len(r) : j < k /\ (j <= a \/ k > b) /\ (j > b \/ j <= a) /\ (k > b \/ k <= a)
                => Apart(r[j], r[k]),
           \A j \in 1..a, i \in 1..Len(m) : Apart(r[j], m[i]),
           \A k \in (b + 1)..Len(r), i \in 1..Len(m) : Apart(m[i], r[k])
    PROVE  Around(r, a, m, b) \in Regions /\ InOrder(Around(r, a, m, b), n)
  <1>1. PICK h \in Nat, l \in Nat : h = Len(r) /\ l = Len(m) BY SubregionIs
  <1>2. a \in Nat /\ b \in Nat /\ a <= b /\ b <= h BY <1>1
  <1>3. PICK q : q = Around(r, a, m, b) OBVIOUS
  <1>4. /\ q \in Regions /\ Len(q) = a + l + (h - b)
        /\ \A i \in 1..Len(q) : q[i] = IF i <= a THEN r[i]
                                       ELSE IF i <= a + l THEN m[i - a] ELSE r[i - (a + l) + b]
    <2>1. IsAround(q, r, a, m, b) BY <1>3, AroundIs
    <2> QED BY <1>1, <2>1 DEF IsAround
  <1>5. PICK g \in Nat : g = Len(q) /\ g = a + l + (h - b)
    <2>1. h - b \in Nat /\ a + l + (h - b) \in Nat BY <1>2
    <2>2. Len(q) = a + l + (h - b) BY <1>4
    <2> QED BY <2>1, <2>2
  <1>6. ASSUME NEW i \in 1..g
        PROVE  \/ i <= a /\ i \in 1..a /\ i \in 1..h /\ q[i] = r[i]
               \/ a < i /\ i <= a + l /\ i - a \in 1..l /\ q[i] = m[i - a]
               \/ /\ i > a + l /\ i - (a + l) + b \in 1..h /\ i - (a + l) + b > b
                  /\ i - (a + l) + b \in (b + 1)..h /\ q[i] = r[i - (a + l) + b]
    BY <1>1, <1>2, <1>4, <1>5
  <1>7. ASSUME NEW i \in 1..g PROVE Start(q[i]) <= End(q[i]) /\ End(q[i]) <= n
    BY <1>1, <1>6 DEF InOrder
  <1>8. ASSUME NEW i \in 1..g, NEW j \in 1..g, i < j PROVE Apart(q[i], q[j])
    <2>1. CASE j <= a
      <3>1. i \in 1..h /\ j \in 1..h /\ i <= a /\ q[i] = r[i] /\ q[j] = r[j] BY <1>2, <1>6, <1>8, <2>1
      <3> QED BY <1>1, <1>8, <2>1, <3>1
    <2>2. CASE a < j /\ j <= a + l
      <3>1. j - a \in 1..l /\ q[j] = m[j - a] BY <1>1, <1>2, <1>6, <2>2
      <3>2. CASE i <= a
        <4>1. i \in 1..a /\ q[i] = r[i] BY <1>2, <1>6, <3>2
        <4> QED BY <1>1, <3>1, <4>1
      <3>3. CASE a < i
        <4>1. i - a \in 1..l /\ q[i] = m[i - a] /\ i - a < j - a BY <1>1, <1>2, <1>6, <1>8, <2>2, <3>3
        <4> QED BY <1>1, <3>1, <4>1 DEF InOrder
      <3> QED BY <1>2, <3>2, <3>3
    <2>3. CASE j > a + l
      <3> DEFINE v == j - (a + l) + b
      <3>1. v \in 1..h /\ v > b /\ v \in (b + 1)..h /\ q[j] = r[v] BY <1>1, <1>2, <1>6, <2>3
      <3>2. CASE i <= a
        <4>1. i \in 1..h /\ q[i] = r[i] /\ i < v BY <1>2, <1>6, <3>1, <3>2
        <4> HIDE DEF v
        <4> QED BY <1>1, <3>1, <3>2, <4>1
      <3>3. CASE a < i /\ i <= a + l
        <4>1. i - a \in 1..l /\ q[i] = m[i - a] BY <1>1, <1>2, <1>6, <3>3
        <4> HIDE DEF v
        <4> QED BY <1>1, <3>1, <4>1
      <3>4. CASE i > a + l
        <4> DEFINE u == i - (a + l) + b
        <4>1. u \in 1..h /\ u > b /\ q[i] = r[u] BY <1>1, <1>2, <1>6, <3>4
        <4>2. u < v BY <1>1, <1>2, <1>8
        <4> HIDE DEF u, v
        <4> QED BY <1>1, <3>1, <4>1, <4>2
      <3> QED BY <1>1, <1>2, <3>2, <3>3, <3>4
    <2> QED BY <1>1, <1>2, <2>1, <2>2, <2>3
  <1> QED BY <1>3, <1>4, <1>5, <1>7, <1>8 DEF InOrder

LEMMA LeastOfTwo ==
    ASSUME NEW a \in Nat, NEW b \in Nat
    PROVE  Min({a, b}) \in Nat /\ Min({a, b}) <= a /\ Min({a, b}) <= b /\ (Min({a, b}) = a \/ Min({a, b}) = b)
  <1>1. {a, b} \in SUBSET Nat /\ {a, b} # {} OBVIOUS
  <1> QED BY <1>1, MinIsLeast

LEMMA GreatestOfTwo ==
    ASSUME NEW a \in Nat, NEW b \in Nat
    PROVE  Max({a, b}) \in Nat /\ Max({a, b}) >= a /\ Max({a, b}) >= b /\ (Max({a, b}) = a \/ Max({a, b}) = b)
  <1>1. a + b \in Nat /\ {a, b} \in SUBSET (0..(a + b)) /\ {a, b} # {} OBVIOUS
  <1> QED BY <1>1, MaxIsGreatest

LEMMA OneInOrder ==
    ASSUME NEW n \in Nat, NEW s \in Nat, NEW e \in Nat, s <= e, e <= n
    PROVE  /\ <<<<s, e>>>> \in Regions /\ Len(<<<<s, e>>>>) = 1 /\ <<<<s, e>>>>[1] = <<s, e>>
           /\ InOrder(<<<<s, e>>>>, n)
  <1>1. PICK x : x = <<s, e>> OBVIOUS
  <1>2. x \in Subregions /\ Start(x) = s /\ End(x) = e BY <1>1, PairIs
  <1>3. <<x>> \in Seq(Subregions) /\ Len(<<x>>) = 1 /\ <<x>>[1] = x BY <1>2
  <1>4. \A k \in 1..1 : k = 1 OBVIOUS
  <1> QED BY <1>1, <1>2, <1>3, <1>4 DEF InOrder, Regions

\* lapiz_text_region_add.
LEMMA AddInOrder ==
    ASSUME NEW n \in Nat, NEW r \in Regions, NEW s \in Nat, NEW e \in Nat, s <= e, e <= n,
           InOrderBut(r, n, s, e), s = e => InOrder(r, n)
    PROVE  Add(r, s, e) \in Regions /\ InOrder(Add(r, s, e), n)
  <1>1. CASE s = e BY <1>1 DEF Add
  <1>2. CASE s < e
    <2>0. PICK h \in Nat : h = Len(r) /\ \A k \in 1..h : Start(r[k]) \in Nat /\ End(r[k]) \in Nat BY SubregionIs
    <2> DEFINE x == <<s, e>>
    <2>x. x \in Subregions /\ Start(x) = s /\ End(x) = e BY PairIs
    <2>y. <<x>> \in Regions /\ Len(<<x>>) = 1 /\ <<x>>[1] = x /\ InOrder(<<x>>, n) BY OneInOrder
    <2>1. PICK f : f = EndingAfter(r, s, 0, TRUE) OBVIOUS
    <2>2. f \in 0..h /\ (f # 0 => s <= End(r[f])) /\ \A j \in 1..h : j < f \/ f = 0 => End(r[j]) < s
      <3>1. /\ f \in 0..h /\ (f # 0 => Past(r[f], s, TRUE))
            /\ \A j \in 1..h : j < f \/ f = 0 => ~Past(r[j], s, TRUE)
        BY <2>0, <2>1, EndingAfterIs
      <3> QED BY <2>0, <3>1 DEF Past
    <2>3. PICK l : l = StartingBefore(r, e, f, TRUE) OBVIOUS
    <2>4. PICK b : b = Bounds(r, s, e, TRUE) OBVIOUS
    <2>b. b = [first |-> f, last |-> l] BY <2>1, <2>3, <2>4 DEF Bounds
    <2>c. b.first = f /\ b.last = l BY <2>b
    <2>d. Misses(b) <=> f = 0 \/ l = 0 \/ l = f - 1 BY <2>c DEF Misses
    <2>5. s # e /\ e \in Nat BY <1>2
    <2>6. Add(r, s, e) = IF f = 0 \/ l = 0 \/ l = f - 1
                         THEN IF f = 0 THEN Append(r, x) ELSE IF l = 0 THEN <<x>> \o r ELSE InsertAt(r, f, x)
                         ELSE Around(r, f - 1, << <<Min({s, Start(r[f])}), Max({e, End(r[l])})>> >>, l)
      <3> HIDE DEF x
      <3>1. Add(r, s, e) = IF Misses(b)
                           THEN IF f = 0 THEN Append(r, <<s, e>>)
                                ELSE IF l = 0 THEN <<<<s, e>>>> \o r ELSE InsertAt(r, f, <<s, e>>)
                           ELSE Around(r, f - 1, << <<Min({s, Start(r[f])}), Max({e, End(r[l])})>> >>, l)
        BY <2>4, <2>5, <2>c, Zenon DEF Add, Around
      <3> USE DEF x
      <3> QED BY <2>d, <3>1, Zenon
    <2>7. \A k \in 1..h : Start(r[k]) <= End(r[k]) /\ End(r[k]) <= n BY <2>0 DEF InOrderBut
    <2>8. CASE f = 0
      <3>1. \A j \in 1..h : End(r[j]) < s BY <2>2, <2>8
      <3>2. PICK q : q = Append(r, x) OBVIOUS
      <3>3. q \in Regions /\ Len(q) = h + 1 /\ q[h + 1] = x /\ \A j \in 1..h : q[j] = r[j]
        BY <2>0, <2>x, <3>2, AppendProperties DEF Regions
      <3>4. ASSUME NEW k \in 1..(h + 1) PROVE Start(q[k]) <= End(q[k]) /\ End(q[k]) <= n
        <4>1. k = h + 1 \/ k \in 1..h OBVIOUS
        <4> HIDE DEF x
        <4> QED BY <2>7, <2>x, <3>3, <4>1
      <3>5. ASSUME NEW j \in 1..(h + 1), NEW k \in 1..(h + 1), j < k PROVE Apart(q[j], q[k])
        <4>1. j \in 1..h /\ q[j] = r[j] BY <3>3, <3>5
        <4>2. CASE k = h + 1
          <5> HIDE DEF x
          <5> QED BY <2>x, <3>1, <3>3, <4>1, <4>2 DEF Apart
        <4>3. CASE k \in 1..h
          <5>1. q[k] = r[k] BY <3>3, <4>3
          <5>2. End(r[k]) < s /\ Start(r[k]) <= End(r[k]) BY <2>7, <3>1, <4>3
          <5>3. Apart(r[j], r[k]) \/ s <= End(r[j]) BY <2>0, <3>5, <4>1, <4>3 DEF InOrderBut
          <5>4. End(r[j]) < s /\ End(r[j]) \in Nat BY <2>0, <3>1, <4>1
          <5>5. ~(s <= End(r[j])) BY <5>4
          <5> QED BY <4>1, <5>1, <5>3, <5>5
        <4> QED BY <4>2, <4>3
      <3>6. InOrder(q, n) BY <3>3, <3>4, <3>5 DEF InOrder
      <3> QED BY <2>6, <2>8, <3>2, <3>3, <3>6
    <2>9. CASE f # 0
      <3>1. f \in 1..h /\ f \in Nat BY <2>2, <2>9
      <3>2. l \in (f - 1)..h /\ (\A j \in f..l : Start(r[j]) <= e) /\ (l < h => e < Start(r[l + 1]))
        <4>1. /\ l \in (f - 1)..h /\ \A j \in f..l : Before(r[j], e, TRUE)
              /\ l < h => ~Before(r[l + 1], e, TRUE)
          BY <2>0, <2>3, <3>1, StartingBeforeIs
        <4>2. \A j \in f..l : j \in 1..h BY <3>1, <4>1
        <4>3. l < h => l + 1 \in 1..h BY <3>1, <4>1
        <4>4. \A j \in f..l : Start(r[j]) <= e
          <5>1. ASSUME NEW j \in f..l PROVE Start(r[j]) <= e
            <6>1. Before(r[j], e, TRUE) /\ Start(r[j]) \in Nat BY <2>0, <4>1, <4>2
            <6> QED BY <6>1 DEF Before
          <5> QED BY <5>1
        <4>5. l < h => e < Start(r[l + 1])
          <5>1. ASSUME l < h PROVE e < Start(r[l + 1])
            <6>1. ~Before(r[l + 1], e, TRUE) /\ Start(r[l + 1]) \in Nat BY <2>0, <4>1, <4>3, <5>1
            <6> QED BY <6>1 DEF Before
          <5> QED BY <5>1
        <4> QED BY <4>1, <4>4, <4>5
      <3>3. l \in Nat /\ f - 1 \in Nat /\ f - 1 <= l /\ l <= h BY <3>1, <3>2
      \* Before the range, and after it.
      <3>4. \A j \in 1..h : j < f => End(r[j]) < s BY <2>2
      <3>5. \A k \in 1..h : k > l => e < Start(r[k])
        <4>1. ASSUME NEW k \in 1..h, k > l PROVE e < Start(r[k])
          <5>1. l < h /\ l + 1 \in 1..h /\ (l + 1 = k \/ l + 1 < k) BY <3>3, <4>1
          <5>2. e < Start(r[l + 1]) BY <3>2, <5>1
          <5>3. l + 1 < k => Start(r[l + 1]) <= Start(r[k]) BY <2>0, <5>1 DEF InOrderBut
          <5> QED BY <2>0, <5>1, <5>2, <5>3
        <4> QED BY <4>1
      <3>6. ASSUME NEW j \in 1..h, NEW k \in 1..h, j < k, j < f \/ k > l PROVE Apart(r[j], r[k])
        <4>1. Apart(r[j], r[k]) \/ (s <= End(r[j]) /\ Start(r[k]) <= e) BY <2>0, <3>6 DEF InOrderBut
        <4>2. j < f => ~(s <= End(r[j])) BY <2>0, <3>4
        <4>3. k > l => ~(Start(r[k]) <= e) BY <2>0, <3>5
        <4> QED BY <3>6, <4>1, <4>2, <4>3
      <3>7. CASE l = f - 1
        <4>1. /\ \A j \in 1..(f - 1), i \in 1..Len(<<x>>) : Apart(r[j], <<x>>[i])
              /\ \A k \in ((f - 1) + 1)..Len(r), i \in 1..Len(<<x>>) : Apart(<<x>>[i], r[k])
          <5>1. \A i \in 1..Len(<<x>>) : <<x>>[i] = x BY <2>y
          <5>2. \A j \in 1..(f - 1) : j \in 1..h /\ j < f BY <3>1
          <5>3. \A k \in ((f - 1) + 1)..Len(r) : k \in 1..h /\ k > l BY <2>0, <3>1, <3>7
          <5> HIDE DEF x
          <5> QED BY <2>0, <2>x, <3>4, <3>5, <5>1, <5>2, <5>3 DEF Apart
        <4>2. Around(r, f - 1, <<x>>, f - 1) \in Regions /\ InOrder(Around(r, f - 1, <<x>>, f - 1), n)
          <5>1. \A j, k \in 1..Len(r) : j < k /\ (j <= f - 1 \/ k > f - 1) /\ (j > f - 1 \/ j <= f - 1)
                                        /\ (k > f - 1 \/ k <= f - 1) => Apart(r[j], r[k])
            BY <2>0, <3>1, <3>6, <3>7
          <5>2. f - 1 \in 0..Len(r) /\ f - 1 \in (f - 1)..Len(r) BY <2>0, <3>1
          <5> HIDE DEF x
          <5> QED BY <2>0, <2>7, <2>y, <4>1, <5>1, <5>2, AroundInOrder
        <4>3. Add(r, s, e) = Around(r, f - 1, <<x>>, f - 1)
          <5>1. CASE l = 0
            <6>1. f = 1 BY <3>1, <3>7, <5>1
            <6>2. SubSeq(r, 1, 0) = <<>> /\ SubSeq(r, 1, Len(r)) = r BY SubSeqEmpty, SubSeqFull DEF Regions
            <6>3. <<>> \o <<x>> = <<x>> BY <2>y, ConcatEmptySeq DEF Regions
            <6>4. f - 1 = 0 /\ (f - 1) + 1 = 1 BY <6>1
            <6> HIDE DEF x
            <6> QED BY <2>6, <2>9, <5>1, <6>2, <6>3, <6>4 DEF Around
          <5>2. CASE l # 0
            <6>1. (f - 1) + 1 = f BY <3>1
            <6> HIDE DEF x
            <6> QED BY <2>6, <2>9, <3>7, <5>2, <6>1 DEF Around, InsertAt
          <5> QED BY <5>1, <5>2
        <4> QED BY <4>2, <4>3
      <3>8. CASE l # f - 1
        <4>1. f <= l /\ l \in 1..h /\ l # 0 BY <3>1, <3>3, <3>8
        <4>2. PICK u, v : u = Min({s, Start(r[f])}) /\ v = Max({e, End(r[l])}) OBVIOUS
        <4>3. /\ u \in Nat /\ u <= s /\ u <= Start(r[f]) /\ (u = s \/ u = Start(r[f]))
              /\ v \in Nat /\ v >= e /\ v >= End(r[l]) /\ (v = e \/ v = End(r[l]))
          BY <2>0, <3>1, <4>1, <4>2, LeastOfTwo, GreatestOfTwo
        <4>4. v <= n /\ u <= v BY <1>2, <2>0, <2>7, <4>1, <4>3
        <4> DEFINE y == <<u, v>>
        <4>5. Start(y) = u /\ End(y) = v BY PairIs
        <4>6. <<y>> \in Regions /\ Len(<<y>>) = 1 /\ <<y>>[1] = y /\ InOrder(<<y>>, n) BY <4>3, <4>4, OneInOrder
        <4>7. ASSUME NEW j \in 1..h, j < f PROVE Apart(r[j], y)
          <5>1. End(r[j]) < s /\ Apart(r[j], r[f]) BY <3>1, <3>4, <3>6, <4>7
          <5>2. s <= End(r[f]) /\ Start(r[f]) <= End(r[f]) BY <2>0, <2>2, <2>7, <3>1, <2>9
          <5> HIDE DEF y
          <5> QED BY <2>0, <3>1, <4>3, <4>5, <5>1, <5>2 DEF Apart
        <4>8. ASSUME NEW k \in 1..h, k > l PROVE Apart(y, r[k])
          <5>1. e < Start(r[k]) /\ Apart(r[l], r[k]) BY <3>5, <3>6, <4>1, <4>8
          <5>2. Start(r[l]) <= e /\ Start(r[l]) <= End(r[l])
            <6>1. l \in f..l BY <3>1, <4>1
            <6> QED BY <2>7, <3>2, <4>1, <6>1
          <5> HIDE DEF y
          <5> QED BY <2>0, <4>1, <4>3, <4>5, <5>1, <5>2 DEF Apart
        <4>9. Around(r, f - 1, <<y>>, l) \in Regions /\ InOrder(Around(r, f - 1, <<y>>, l), n)
          <5>1. \A j, k \in 1..Len(r) : j < k /\ (j <= f - 1 \/ k > l) /\ (j > l \/ j <= f - 1)
                                        /\ (k > l \/ k <= f - 1) => Apart(r[j], r[k])
            BY <2>0, <3>1, <3>6
          <5>2. f - 1 \in 0..Len(r) /\ l \in (f - 1)..Len(r) BY <2>0, <3>1, <3>2
          <5>3. \A i \in 1..Len(<<y>>) : <<y>>[i] = y BY <4>6
          <5>4. \A j \in 1..(f - 1), i \in 1..Len(<<y>>) : Apart(r[j], <<y>>[i]) BY <3>1, <4>7, <5>3
          <5>5. \A k \in (l + 1)..Len(r), i \in 1..Len(<<y>>) : Apart(<<y>>[i], r[k])
            <6>1. \A k \in (l + 1)..Len(r) : k \in 1..h /\ k > l BY <2>0, <3>3
            <6> QED BY <4>8, <5>3, <6>1
          <5> HIDE DEF y
          <5> QED BY <2>0, <2>7, <4>6, <5>1, <5>2, <5>4, <5>5, AroundInOrder
        <4> QED BY <2>6, <2>9, <3>8, <4>1, <4>2, <4>9
      <3> QED BY <3>7, <3>8
    <2> QED BY <2>8, <2>9
  <1> QED BY <1>1, <1>2

\* What the first k of a region are without the empty ones.
KeptOf(v, r, n, k) ==
    /\ v \in Regions /\ InOrder(v, n)
    /\ \A i \in 1..Len(v) : \E j \in 1..k : v[i] = r[j]

LEMMA KeptOnIs ==
    ASSUME NEW n \in Nat, NEW r \in Regions, InOrder(r, n), NEW k \in 1..Len(r), NEW v, KeptOf(v, r, n, k - 1)
    PROVE  KeptOf(v, r, n, k) /\ KeptOf(Append(v, r[k]), r, n, k)
  <1>0. PICK h \in Nat : h = Len(r) /\ \A j \in 1..h : r[j] \in Subregions BY SubregionIs
  <1>1. v \in Regions /\ InOrder(v, n) /\ \A i \in 1..Len(v) : \E j \in 1..(k - 1) : v[i] = r[j]
    BY DEF KeptOf
  <1>2. \A j \in 1..(k - 1) : j \in 1..k /\ j \in 1..h /\ j < k BY <1>0
  <1>3. \A i \in 1..Len(v) : \E j \in 1..k : v[i] = r[j] /\ Apart(v[i], r[k])
    BY <1>0, <1>1, <1>2 DEF InOrder
  <1>4. KeptOf(v, r, n, k) BY <1>1, <1>3 DEF KeptOf
  <1>5. PICK q : q = Append(v, r[k]) OBVIOUS
  <1>6. PICK l \in Nat : l = Len(v) BY <1>1, SubregionIs
  <1>7. q \in Regions /\ Len(q) = l + 1 /\ q[l + 1] = r[k] /\ \A i \in 1..l : q[i] = v[i]
    BY <1>0, <1>1, <1>5, <1>6, AppendProperties DEF Regions
  <1>8. \A i \in 1..(l + 1) : (i \in 1..l /\ q[i] = v[i]) \/ (i = l + 1 /\ q[i] = r[k]) BY <1>7
  <1>9. InOrder(q, n)
    <2>1. ASSUME NEW i \in 1..(l + 1) PROVE Start(q[i]) <= End(q[i]) /\ End(q[i]) <= n
      BY <1>0, <1>1, <1>6, <1>8 DEF InOrder
    <2>2. ASSUME NEW i \in 1..(l + 1), NEW j \in 1..(l + 1), i < j PROVE Apart(q[i], q[j])
      <3>1. i \in 1..l /\ q[i] = v[i] BY <1>8, <2>2
      <3>2. CASE j \in 1..l /\ q[j] = v[j] BY <1>1, <1>6, <2>2, <3>1, <3>2 DEF InOrder
      <3>3. CASE q[j] = r[k] BY <1>3, <1>6, <3>1, <3>3
      <3> QED BY <1>8, <3>2, <3>3
    <2> QED BY <1>7, <2>1, <2>2 DEF InOrder
  <1>10. \A i \in 1..(l + 1) : \E j \in 1..k : q[i] = r[j]
    <2>1. k \in 1..k OBVIOUS
    <2> QED BY <1>3, <1>6, <1>8, <2>1
  <1>11. KeptOf(q, r, n, k) BY <1>7, <1>9, <1>10 DEF KeptOf
  <1> QED BY <1>4, <1>5, <1>11

LEMMA WithoutEmptyInOrder ==
    ASSUME NEW n \in Nat, NEW r \in Regions, InOrder(r, n)
    PROVE  WithoutEmpty(r) \in Regions /\ InOrder(WithoutEmpty(r), n)
  <1> DEFINE m == Len(r)
             Step(v, k) == IF Start(r[k]) = End(r[k]) THEN v ELSE Append(v, r[k])
             kept == CHOOSE f : f = [k \in 0..m |-> IF k = 0 THEN <<>>
                                                    ELSE IF Start(r[k]) = End(r[k]) THEN f[k - 1]
                                                    ELSE Append(f[k - 1], r[k])]
             S == [k \in 0..m |-> {v \in Regions : KeptOf(v, r, n, k)}]
             h == [k \in 1..m |-> [v \in Regions |-> Step(v, k)]]
  <1>0. m \in Nat BY SubregionIs
  <1>1. WithoutEmpty(r) = kept[m] BY Zenon DEF WithoutEmpty
  <1> HIDE DEF m
  <1>m. m = Len(r) BY DEF m
  <1>2. \A v : \A k \in 0..m : v \in S[k] <=> KeptOf(v, r, n, k) BY DEF KeptOf
  <1>3. \A k \in 1..m : k \in 0..m /\ k - 1 \in 0..m /\ k # 0 BY <1>0
  <1>4. \A k \in 1..m : \A v \in Regions : h[k][v] = Step(v, k) OBVIOUS
  <1> HIDE DEF S, h
  <1>5. \A k \in 1..m : \A v \in S[k - 1] : h[k][v] = Step(v, k) /\ Step(v, k) \in S[k]
    <2>1. ASSUME NEW k \in 1..m, NEW v \in S[k - 1] PROVE h[k][v] = Step(v, k) /\ Step(v, k) \in S[k]
      <3>1. KeptOf(v, r, n, k - 1) BY <1>2, <1>3
      <3>2. KeptOf(v, r, n, k) /\ KeptOf(Append(v, r[k]), r, n, k) BY <1>m, <3>1, KeptOnIs
      <3>3. KeptOf(Step(v, k), r, n, k) BY <3>2
      <3>4. v \in Regions BY <3>1 DEF KeptOf
      <3> HIDE DEF Step
      <3> QED BY <1>2, <1>3, <1>4, <3>3, <3>4
    <2> HIDE DEF Step
    <2> QED BY <2>1
  <1>6. IsChain(S, h, m)
    <2> HIDE DEF Step
    <2> QED BY <1>5 DEF IsChain
  <1>7. <<>> \in S[0]
    <2>1. KeptOf(<<>>, r, n, 0) BY EmptySeq DEF KeptOf, InOrder, Regions
    <2> QED BY <1>0, <1>2, <2>1
  <1>8. kept = [k \in 0..m |-> IF k = 0 THEN <<>>
                               ELSE IF Start(r[k]) = End(r[k]) THEN kept[k - 1] ELSE Append(kept[k - 1], r[k])]
    <2>1. PICK g : IsRun(g, <<>>, h, m) /\ \A k \in 0..m : g[k] \in S[k] BY <1>0, <1>6, <1>7, ChainExists
    <2>2. \A k \in 0..m : k # 0 => h[k][g[k - 1]] = Step(g[k - 1], k)
      <3>1. \A k \in 0..m : k # 0 => k \in 1..m /\ k - 1 \in 0..m BY <1>0
      <3> HIDE DEF Step
      <3> QED BY <1>5, <2>1, <3>1
    <2>3. g = [k \in 0..m |-> IF k = 0 THEN <<>>
                              ELSE IF Start(r[k]) = End(r[k]) THEN g[k - 1] ELSE Append(g[k - 1], r[k])]
      BY <2>1, <2>2 DEF IsRun
    <2> QED BY <2>3, Zenon
  <1>9. kept[0] = <<>> /\ \A k \in 1..m : kept[k] = Step(kept[k - 1], k)
    <2> HIDE DEF kept
    <2>1. 0 \in 0..m /\ \A k \in 1..m : k \in 0..m /\ k # 0 BY <1>0
    <2> QED BY <1>8, <2>1
  <1> HIDE DEF kept
  <1>10. \A k \in 1..m : kept[k - 1] \in S[k - 1] => kept[k] = h[k][kept[k - 1]]
    <2> HIDE DEF Step
    <2> QED BY <1>5, <1>9
  <1>11. \A k \in 0..m : kept[k] \in S[k] BY <1>0, <1>6, <1>7, <1>9, <1>10, ChainStays
  <1>12. KeptOf(kept[m], r, n, m) BY <1>0, <1>2, <1>11
  <1> QED BY <1>1, <1>12 DEF KeptOf

\* The two pieces a range leaves of the subregions at its ends.
Pieces(P, x, Q, y) == (IF P THEN <<x>> ELSE <<>>) \o (IF Q THEN <<y>> ELSE <<>>)

LEMMA PiecesInOrder ==
    ASSUME NEW n \in Nat, NEW P \in BOOLEAN, NEW Q \in BOOLEAN, NEW x \in Subregions, NEW y \in Subregions,
           P => Start(x) <= End(x) /\ End(x) <= n, Q => Start(y) <= End(y) /\ End(y) <= n,
           P /\ Q => Apart(x, y)
    PROVE  /\ Pieces(P, x, Q, y) \in Regions /\ InOrder(Pieces(P, x, Q, y), n)
           /\ \A i \in 1..Len(Pieces(P, x, Q, y)) : (P /\ Pieces(P, x, Q, y)[i] = x) \/ (Q /\ Pieces(P, x, Q, y)[i] = y)
  <1>1. PICK m : m = Pieces(P, x, Q, y) OBVIOUS
  <1>2. CASE P /\ Q
    <2>0. \A c : <<x>> \o <<y>> = <<x, y>> BY ShortSequences, Zenon
    <2>1. m = <<x, y>> BY <1>1, <1>2, <2>0 DEF Pieces
    <2>2. <<x, y>> \in Seq(Subregions) /\ Len(<<x, y>>) = 2 /\ <<x, y>>[1] = x /\ <<x, y>>[2] = y OBVIOUS
    <2>3. \A i \in 1..2 : i = 1 \/ i = 2 OBVIOUS
    <2>4. \A i, j \in 1..2 : i < j => i = 1 /\ j = 2 OBVIOUS
    <2>5. InOrder(<<x, y>>, n) BY <1>2, <2>2, <2>3, <2>4 DEF InOrder
    <2> QED BY <1>1, <1>2, <2>1, <2>2, <2>3, <2>5 DEF Regions
  <1>3. CASE P /\ ~Q
    <2>1. m = <<x>> BY <1>1, <1>3, ConcatEmptySeq DEF Pieces
    <2>2. <<x>> \in Seq(Subregions) /\ Len(<<x>>) = 1 /\ <<x>>[1] = x OBVIOUS
    <2>3. \A i \in 1..1 : i = 1 OBVIOUS
    <2>5. InOrder(<<x>>, n) BY <1>3, <2>2, <2>3 DEF InOrder
    <2> QED BY <1>1, <1>3, <2>1, <2>2, <2>3, <2>5 DEF Regions
  <1>4. CASE ~P /\ Q
    <2>1. m = <<y>> BY <1>1, <1>4, ConcatEmptySeq DEF Pieces
    <2>2. <<y>> \in Seq(Subregions) /\ Len(<<y>>) = 1 /\ <<y>>[1] = y OBVIOUS
    <2>3. \A i \in 1..1 : i = 1 OBVIOUS
    <2>5. InOrder(<<y>>, n) BY <1>4, <2>2, <2>3 DEF InOrder
    <2> QED BY <1>1, <1>4, <2>1, <2>2, <2>3, <2>5 DEF Regions
  <1>5. CASE ~P /\ ~Q
    <2>1. m = <<>> BY <1>1, <1>5, ConcatEmptySeq DEF Pieces
    <2>2. <<>> \in Seq(Subregions) /\ Len(<<>>) = 0 /\ InOrder(<<>>, n) BY DEF InOrder
    <2> QED BY <1>1, <1>5, <2>1, <2>2 DEF Regions
  <1> QED BY <1>2, <1>3, <1>4, <1>5

\* lapiz_text_region_subtract.
LEMMA SubtractInOrder ==
    ASSUME NEW n \in Nat, NEW r \in Regions, InOrder(r, n), NEW s \in Nat, NEW e \in Nat,
           s < e \/ \A k \in 1..Len(r) : End(r[k]) <= s
    PROVE  Subtract(r, s, e) \in Regions /\ InOrder(Subtract(r, s, e), n)
  <1>0. PICK h \in Nat : h = Len(r) /\ \A k \in 1..h : Start(r[k]) \in Nat /\ End(r[k]) \in Nat BY SubregionIs
  <1>1. PICK f : f = EndingAfter(r, s, 0, FALSE) OBVIOUS
  <1>2. f \in 0..h /\ (f # 0 => s < End(r[f])) /\ \A j \in 1..h : j < f \/ f = 0 => End(r[j]) <= s
    <2>1. /\ f \in 0..h /\ (f # 0 => Past(r[f], s, FALSE))
          /\ \A j \in 1..h : j < f \/ f = 0 => ~Past(r[j], s, FALSE)
      BY <1>0, <1>1, EndingAfterIs
    <2> QED BY <1>0, <2>1 DEF Past
  <1>3. PICK l : l = StartingBefore(r, e, f, FALSE) OBVIOUS
  <1>4. PICK b : b = Bounds(r, s, e, FALSE) OBVIOUS
  <1>5. b = [first |-> f, last |-> l] BY <1>1, <1>3, <1>4 DEF Bounds
  <1>6. b.first = f /\ b.last = l BY <1>5
  <1>7. CASE Misses(b)
    <2>1. Subtract(r, s, e) = r BY <1>4, <1>7, Zenon DEF Subtract
    <2> QED BY <2>1
  <1>8. CASE ~Misses(b)
    <2>1. f # 0 /\ l # 0 /\ l # f - 1 BY <1>6, <1>8 DEF Misses
    <2>2. f \in 1..h /\ f \in Nat BY <1>2, <2>1
    <2>3. l \in (f - 1)..h /\ (\A j \in f..l : Start(r[j]) < e) /\ (l < h => e <= Start(r[l + 1]))
      <3>1. /\ l \in (f - 1)..h /\ \A j \in f..l : Before(r[j], e, FALSE)
            /\ l < h => ~Before(r[l + 1], e, FALSE)
        BY <1>0, <1>3, <2>2, StartingBeforeIs
      <3>2. \A j \in f..l : j \in 1..h BY <2>2, <3>1
      <3>3. l < h => l + 1 \in 1..h BY <2>2, <3>1
      <3>4. \A j \in f..l : Start(r[j]) < e
        <4>1. ASSUME NEW j \in f..l PROVE Start(r[j]) < e
          <5>1. Before(r[j], e, FALSE) /\ Start(r[j]) \in Nat BY <1>0, <3>1, <3>2
          <5> QED BY <5>1 DEF Before
        <4> QED BY <4>1
      <3>5. l < h => e <= Start(r[l + 1])
        <4>1. ASSUME l < h PROVE e <= Start(r[l + 1])
          <5>1. ~Before(r[l + 1], e, FALSE) /\ Start(r[l + 1]) \in Nat BY <1>0, <3>1, <3>3, <4>1
          <5> QED BY <5>1 DEF Before
        <4> QED BY <4>1
      <3> QED BY <3>1, <3>4, <3>5
    <2>4. l \in Nat /\ f <= l /\ l <= h /\ l \in 1..h /\ l \in f..l /\ f \in f..l BY <2>1, <2>2, <2>3
    <2>5. s < e /\ s < End(r[f]) /\ Start(r[l]) < e BY <1>0, <1>2, <2>1, <2>2, <2>3, <2>4
    <2>6. \A j \in 1..h : j < f => End(r[j]) <= s BY <1>2
    <2>7. \A k \in 1..h : k > l => e <= Start(r[k])
      <3>1. ASSUME NEW k \in 1..h, k > l PROVE e <= Start(r[k])
        <4>1. l < h /\ l + 1 \in 1..h /\ (l + 1 = k \/ l + 1 < k) BY <2>4, <3>1
        <4>2. e <= Start(r[l + 1]) BY <2>3, <4>1
        <4>3. l + 1 < k => Apart(r[l + 1], r[k]) /\ Start(r[l + 1]) <= End(r[l + 1]) BY <1>0, <4>1 DEF InOrder
        <4> QED BY <1>0, <4>1, <4>2, <4>3 DEF Apart
      <3> QED BY <3>1
    <2> DEFINE P == Start(r[f]) < s /\ s < End(r[f])
               Q == Start(r[l]) <= e /\ e < End(r[l])
               x == <<Start(r[f]), s>>
               y == <<e, End(r[l])>>
               m == Pieces(P, x, Q, y)
    <2>8. /\ x \in Subregions /\ Start(x) = Start(r[f]) /\ End(x) = s
          /\ y \in Subregions /\ Start(y) = e /\ End(y) = End(r[l])
      BY <1>0, <2>2, <2>4, PairIs
    <2>9. \A k \in 1..h : Start(r[k]) <= End(r[k]) /\ End(r[k]) <= n BY <1>0 DEF InOrder
    <2>10. P \in BOOLEAN /\ Q \in BOOLEAN OBVIOUS
    <2>11. P => Start(r[f]) <= s /\ s <= n BY <1>0, <2>2, <2>9
    <2>12. Q => e <= End(r[l]) /\ End(r[l]) <= n BY <1>0, <2>4, <2>9
    <2>13. Apart(x, y) BY <2>5, <2>8 DEF Apart
    <2>14. /\ m \in Regions /\ InOrder(m, n)
           /\ \A i \in 1..Len(m) : (P /\ m[i] = x) \/ (Q /\ m[i] = y)
      <3> HIDE DEF P, Q, x, y
      <3> QED BY <2>8, <2>10, <2>11, <2>12, <2>13, PiecesInOrder
    <2>15. ASSUME NEW j \in 1..h, j < f PROVE (P => Apart(r[j], x)) /\ Apart(r[j], y)
      <3>1. Apart(r[j], r[f]) /\ End(r[j]) <= s BY <1>0, <2>2, <2>6, <2>15 DEF InOrder
      <3>2. End(r[j]) < e BY <1>0, <2>5, <3>1
      <3>3. P => Start(r[f]) # End(r[f]) BY <1>0, <2>2
      <3>4. \/ End(r[j]) < Start(r[f])
            \/ End(r[j]) = Start(r[f]) /\ (Start(r[j]) = End(r[j]) \/ Start(r[f]) = End(r[f]))
        BY <3>1 DEF Apart
      <3> HIDE DEF x, y, P
      <3> QED BY <2>8, <3>2, <3>3, <3>4 DEF Apart
    <2>16. ASSUME NEW k \in 1..h, k > l PROVE Apart(x, r[k]) /\ (Q => Apart(y, r[k]))
      <3>1. Apart(r[l], r[k]) /\ e <= Start(r[k]) BY <1>0, <2>4, <2>7, <2>16 DEF InOrder
      <3>2. s < Start(r[k]) BY <1>0, <2>5, <3>1
      <3>3. Q => Start(r[l]) # End(r[l]) BY <1>0, <2>4, <2>5
      <3>4. \/ End(r[l]) < Start(r[k])
            \/ End(r[l]) = Start(r[k]) /\ (Start(r[l]) = End(r[l]) \/ Start(r[k]) = End(r[k]))
        BY <3>1 DEF Apart
      <3> HIDE DEF x, y, Q
      <3> QED BY <2>8, <3>2, <3>3, <3>4 DEF Apart
    <2>17. Around(r, f - 1, m, l) \in Regions /\ InOrder(Around(r, f - 1, m, l), n)
      <3>1. \A j, k \in 1..Len(r) : j < k /\ (j <= f - 1 \/ k > l) /\ (j > l \/ j <= f - 1)
                                    /\ (k > l \/ k <= f - 1) => Apart(r[j], r[k])
        BY <1>0 DEF InOrder
      <3>2. f - 1 \in 0..Len(r) /\ l \in (f - 1)..Len(r) BY <1>0, <2>2, <2>3
      <3>3. \A j \in 1..(f - 1) : j \in 1..h /\ j < f BY <2>2
      <3>4. \A k \in (l + 1)..Len(r) : k \in 1..h /\ k > l BY <1>0, <2>4
      <3> HIDE DEF x, y, m, P, Q
      <3>5. \A j \in 1..(f - 1), i \in 1..Len(m) : Apart(r[j], m[i]) BY <2>14, <2>15, <3>3
      <3>6. \A k \in (l + 1)..Len(r), i \in 1..Len(m) : Apart(m[i], r[k]) BY <2>14, <2>16, <3>4
      <3> QED BY <1>0, <2>9, <2>14, <3>1, <3>2, <3>5, <3>6, AroundInOrder
    <2>18. PICK rest : rest = SubSeq(r, 1, f - 1) \o (IF P THEN <<x>> ELSE <<>>)
                              \o (IF Q THEN <<y>> ELSE <<>>) \o SubSeq(r, l + 1, Len(r))
      OBVIOUS
    <2>19. rest = Around(r, f - 1, m, l)
      <3>1. SubSeq(r, 1, f - 1) \in Seq(Subregions)
        <4>0. \A i \in 1..(f - 1) : i \in 1..Len(r) BY <1>0, <2>2
        <4>1. \A i \in 1..(f - 1) : r[i] \in Subregions BY <4>0, SubregionIs
        <4> QED BY <2>2, <4>1, SubSeqProperties
      <3>2. (IF P THEN <<x>> ELSE <<>>) \in Seq(Subregions) /\ (IF Q THEN <<y>> ELSE <<>>) \in Seq(Subregions)
        <4> HIDE DEF P, Q, x, y
        <4> QED BY <2>8
      <3> HIDE DEF P, Q, x, y
      <3>3. PICK a, c, d, g : /\ a = SubSeq(r, 1, f - 1) /\ c = (IF P THEN <<x>> ELSE <<>>)
                              /\ d = (IF Q THEN <<y>> ELSE <<>>) /\ g = SubSeq(r, l + 1, Len(r))
        OBVIOUS
      <3>a. a \in Seq(Subregions) /\ c \in Seq(Subregions) /\ d \in Seq(Subregions)
        BY <3>1, <3>2, <3>3, Zenon
      <3>4. (a \o c) \o d = a \o (c \o d) BY ONLY <3>a, ConcatAssociative
      <3>5. rest = ((a \o c) \o d) \o g BY <2>18, <3>3, Zenon
      <3>6. Around(r, f - 1, Pieces(P, x, Q, y), l) = (a \o (c \o d)) \o g BY <3>3, Zenon DEF Around, Pieces
      <3> QED BY <3>4, <3>5, <3>6, Zenon DEF m
    <2>20. Subtract(r, s, e) = rest \/ Subtract(r, s, e) = WithoutEmpty(rest)
      BY <1>4, <1>6, <1>8, <2>18, Zenon DEF Subtract
    <2> QED BY <2>17, <2>19, <2>20, WithoutEmptyInOrder
  <1> QED BY <1>7, <1>8

\* A region with the marks of another moved.
Offsets(r, a, z)   == \A k \in 1..Len(r) : a[k] \in Nat /\ z[k] \in Nat
MovedTo(q, r, a, z) == /\ q \in Regions /\ Len(q) = Len(r)
                       /\ \A k \in 1..Len(r) : Start(q[k]) = a[k] /\ End(q[k]) = z[k]

LEMMA MappedIs ==
    ASSUME NEW r \in Regions, NEW a, NEW z, Offsets(r, a, z)
    PROVE  MovedTo([k \in DOMAIN r |-> <<a[k], z[k]>>], r, a, z)
  <1>0. PICK q : q = [k \in DOMAIN r |-> <<a[k], z[k]>>] OBVIOUS
  <1>1. PICK h \in Nat : h = Len(r) /\ DOMAIN r = 1..h BY SubregionIs
  <1>2. q = [k \in 1..h |-> <<a[k], z[k]>>] BY <1>0, <1>1
  <1>3. \A k \in 1..h : q[k] = <<a[k], z[k]>> /\ q[k] \in Subregions
    BY <1>1, <1>2, PairIs DEF Offsets
  <1>4. q \in [1..h -> Subregions] BY <1>2, <1>3
  <1>5. q \in Seq(Subregions) /\ Len(q) = h BY <1>4
  <1>6. \A k \in 1..h : Start(q[k]) = a[k] /\ End(q[k]) = z[k] BY <1>3, PairIs
  <1> QED BY <1>0, <1>1, <1>5, <1>6 DEF Regions, MovedTo

\* The marks after an edit are in order but for the place that was edited.
LEMMA AfterInsertInOrder ==
    ASSUME NEW n \in Nat, NEW r \in Regions, InOrder(r, n), NEW pos \in 0..n, NEW c \in Nat,
           NEW s \in Nat, NEW e \in Nat, s <= pos, pos + c <= e
    PROVE  AfterInsert(r, pos, c) \in Regions /\ InOrderBut(AfterInsert(r, pos, c), n + c, s, e)
  <1>0. PICK h \in Nat : h = Len(r) /\ DOMAIN r = 1..h /\ \A k \in 1..h : Start(r[k]) \in Nat /\ End(r[k]) \in Nat
    BY SubregionIs
  <1>1. PICK a : a = [k \in 1..h |-> IF Start(r[k]) > pos THEN Start(r[k]) + c ELSE Start(r[k])] OBVIOUS
  <1>2. PICK z : z = [k \in 1..h |-> IF End(r[k]) >= pos THEN End(r[k]) + c ELSE End(r[k])] OBVIOUS
  <1>3. PICK q : q = AfterInsert(r, pos, c) OBVIOUS
  <1>4. q = [k \in DOMAIN r |-> <<a[k], z[k]>>] BY <1>0, <1>1, <1>2, <1>3 DEF AfterInsert
  <1>5. \A k \in 1..h : a[k] \in Nat /\ z[k] \in Nat BY <1>0, <1>1, <1>2
  <1>6. q \in Regions /\ Len(q) = h /\ \A k \in 1..h : Start(q[k]) = a[k] /\ End(q[k]) = z[k]
    <2>1. Offsets(r, a, z) BY <1>0, <1>5 DEF Offsets
    <2>2. MovedTo(q, r, a, z) BY <1>4, <2>1, MappedIs, Zenon
    <2> QED BY <1>0, <2>2 DEF MovedTo
  <1>7. ASSUME NEW k \in 1..h PROVE a[k] <= z[k] /\ z[k] <= n + c
    <2>1. Start(r[k]) <= End(r[k]) /\ End(r[k]) <= n BY <1>0 DEF InOrder
    <2> QED BY <1>0, <1>1, <1>2, <2>1
  <1>8. ASSUME NEW j \in 1..h, NEW k \in 1..h, j < k
        PROVE  /\ a[j] <= a[k] /\ z[j] <= z[k]
               /\ \/ z[j] < a[k]
                  \/ z[j] = a[k] /\ (a[j] = z[j] \/ a[k] = z[k])
                  \/ s <= z[j] /\ a[k] <= e
    <2>1. /\ Start(r[j]) <= End(r[j]) /\ Start(r[k]) <= End(r[k])
          /\ \/ End(r[j]) < Start(r[k])
             \/ End(r[j]) = Start(r[k]) /\ (Start(r[j]) = End(r[j]) \/ Start(r[k]) = End(r[k]))
      BY <1>0, <1>8 DEF InOrder, Apart
    <2>2. PICK p1 \in Nat, p2 \in Nat, p3 \in Nat, p4 \in Nat :
            p1 = Start(r[j]) /\ p2 = End(r[j]) /\ p3 = Start(r[k]) /\ p4 = End(r[k])
      BY <1>0
    <2>3. /\ a[j] = IF p1 > pos THEN p1 + c ELSE p1
          /\ z[j] = IF p2 >= pos THEN p2 + c ELSE p2
          /\ a[k] = IF p3 > pos THEN p3 + c ELSE p3
          /\ z[k] = IF p4 >= pos THEN p4 + c ELSE p4
      BY <1>1, <1>2, <2>2
    <2> QED BY <2>1, <2>2, <2>3
  <1>9. InOrderBut(q, n + c, s, e)
    BY <1>6, <1>7, <1>8 DEF InOrderBut, Apart
  <1> QED BY <1>3, <1>6, <1>9

LEMMA DeletedIs ==
    ASSUME NEW p \in Nat, NEW s \in Nat, NEW e \in Nat, s < e
    PROVE  /\ Deleted(p, s, e) \in Nat
           /\ Deleted(p, s, e) = IF p >= e THEN p - (e - s) ELSE IF p < s THEN p ELSE s
  <1>1. p < e => Min({p, s}) = IF p < s THEN p ELSE s BY LeastOfTwo
  <1> QED BY <1>1 DEF Deleted

LEMMA AfterDeleteInOrder ==
    ASSUME NEW n \in Nat, NEW r \in Regions, InOrder(r, n), NEW from \in Nat, NEW to \in Nat, from < to, to <= n,
           NEW s \in Nat, NEW e \in Nat, s <= from, from <= e
    PROVE  /\ AfterDelete(r, from, to) \in Regions
           /\ InOrderBut(AfterDelete(r, from, to), n - (to - from), s, e)
           /\ from = n - (to - from) => InOrder(AfterDelete(r, from, to), n - (to - from))
  <1>0. PICK h \in Nat : h = Len(r) /\ DOMAIN r = 1..h /\ \A k \in 1..h : Start(r[k]) \in Nat /\ End(r[k]) \in Nat
    BY SubregionIs
  <1>1. PICK a : a = [k \in 1..h |-> Deleted(Start(r[k]), from, to)] OBVIOUS
  <1>2. PICK z : z = [k \in 1..h |-> Deleted(End(r[k]), from, to)] OBVIOUS
  <1>3. PICK q : q = AfterDelete(r, from, to) OBVIOUS
  <1>4. q = [k \in DOMAIN r |-> <<a[k], z[k]>>] BY <1>0, <1>1, <1>2, <1>3 DEF AfterDelete
  <1>a. ASSUME NEW k \in 1..h
        PROVE  /\ a[k] \in Nat /\ z[k] \in Nat
               /\ a[k] = IF Start(r[k]) >= to THEN Start(r[k]) - (to - from)
                         ELSE IF Start(r[k]) < from THEN Start(r[k]) ELSE from
               /\ z[k] = IF End(r[k]) >= to THEN End(r[k]) - (to - from)
                         ELSE IF End(r[k]) < from THEN End(r[k]) ELSE from
    BY <1>0, <1>1, <1>2, DeletedIs
  <1>5. \A k \in 1..h : a[k] \in Nat /\ z[k] \in Nat BY <1>a
  <1>6. q \in Regions /\ Len(q) = h /\ \A k \in 1..h : Start(q[k]) = a[k] /\ End(q[k]) = z[k]
    <2>1. Offsets(r, a, z) BY <1>0, <1>5 DEF Offsets
    <2>2. MovedTo(q, r, a, z) BY <1>4, <2>1, MappedIs, Zenon
    <2> QED BY <1>0, <2>2 DEF MovedTo
  <1>7. ASSUME NEW k \in 1..h PROVE a[k] <= z[k] /\ z[k] <= n - (to - from)
    <2>1. PICK p \in Nat, o \in Nat : p = Start(r[k]) /\ o = End(r[k]) /\ p <= o /\ o <= n BY <1>0 DEF InOrder
    <2>2. /\ a[k] = IF p >= to THEN p - (to - from) ELSE IF p < from THEN p ELSE from
          /\ z[k] = IF o >= to THEN o - (to - from) ELSE IF o < from THEN o ELSE from
      BY <1>a, <2>1
    <2> QED BY <2>1, <2>2
  <1>8. ASSUME NEW j \in 1..h, NEW k \in 1..h, j < k
        PROVE  /\ a[j] <= a[k] /\ z[j] <= z[k]
               /\ \/ z[j] < a[k]
                  \/ z[j] = a[k] /\ (a[j] = z[j] \/ a[k] = z[k])
                  \/ z[j] = from /\ a[k] = from
    <2>1. /\ Start(r[j]) <= End(r[j]) /\ Start(r[k]) <= End(r[k])
          /\ \/ End(r[j]) < Start(r[k])
             \/ End(r[j]) = Start(r[k]) /\ (Start(r[j]) = End(r[j]) \/ Start(r[k]) = End(r[k]))
      BY <1>0, <1>8 DEF InOrder, Apart
    <2>2. PICK p1 \in Nat, p2 \in Nat, p3 \in Nat, p4 \in Nat :
            p1 = Start(r[j]) /\ p2 = End(r[j]) /\ p3 = Start(r[k]) /\ p4 = End(r[k])
      BY <1>0
    <2>3. /\ a[j] = IF p1 >= to THEN p1 - (to - from) ELSE IF p1 < from THEN p1 ELSE from
          /\ z[j] = IF p2 >= to THEN p2 - (to - from) ELSE IF p2 < from THEN p2 ELSE from
          /\ a[k] = IF p3 >= to THEN p3 - (to - from) ELSE IF p3 < from THEN p3 ELSE from
          /\ z[k] = IF p4 >= to THEN p4 - (to - from) ELSE IF p4 < from THEN p4 ELSE from
      BY <1>a, <2>2
    <2> QED BY <2>1, <2>2, <2>3
  <1>9. InOrderBut(q, n - (to - from), s, e)
    BY <1>6, <1>7, <1>8 DEF InOrderBut, Apart
  <1>10. ASSUME from = n - (to - from) PROVE InOrder(q, n - (to - from))
    <2>1. ASSUME NEW j \in 1..h, NEW k \in 1..h, j < k
          PROVE  z[j] < a[k] \/ (z[j] = a[k] /\ (a[j] = z[j] \/ a[k] = z[k]))
      <3>1. PICK x \in Nat, y \in Nat, w \in Nat : x = z[j] /\ y = a[k] /\ w = z[k] BY <1>5
      <3>2. y <= w /\ w <= from BY <1>7, <1>10, <3>1
      <3>a. z[j] < a[k] \/ (z[j] = a[k] /\ (a[j] = z[j] \/ a[k] = z[k])) \/ (z[j] = from /\ a[k] = from)
        BY <1>8, <2>1
      <3>3. x < y \/ (x = y /\ (a[j] = x \/ y = w)) \/ (x = from /\ y = from) BY <3>1, <3>a
      <3>4. y = from => w = y BY <3>2
      <3> QED BY <3>1, <3>3, <3>4
    <2> QED BY <1>6, <1>7, <2>1 DEF InOrder, Apart
  <1> QED BY <1>3, <1>6, <1>9, <1>10

(***************************************************************************)
(* Lines.                                                                   *)
(***************************************************************************)
Text == Seq(Characters)

LEMMA LineStartsAre ==
    ASSUME NEW t \in Text
    PROVE  Len(t) \in Nat /\ 0 \in LineStarts(t) /\ LineStarts(t) \subseteq 0..Len(t)
  <1>1. Len(t) \in Nat BY LenProperties DEF Text
  <1> QED BY <1>1 DEF LineStarts

LEMMA LineStartIs ==
    ASSUME NEW t \in Text, NEW p \in 0..Len(t)
    PROVE  /\ LineStart(t, p) \in LineStarts(t) /\ LineStart(t, p) \in 0..p
           /\ \A s \in LineStarts(t) : s <= p => s <= LineStart(t, p)
  <1> DEFINE T == {s \in LineStarts(t) : s <= p}
  <1>1. T \in SUBSET (0..Len(t)) /\ T # {} /\ Len(t) \in Nat BY LineStartsAre
  <1>2. PICK m : m = LineStart(t, p) /\ m = Max(T) BY DEF LineStart
  <1>3. m \in T /\ \A y \in T : m >= y
    <2> HIDE DEF T
    <2> QED BY <1>1, <1>2, MaxIsGreatest
  <1>4. m \in LineStarts(t) /\ m \in 0..p BY <1>1, <1>3
  <1>5. ASSUME NEW s \in LineStarts(t), s <= p PROVE s <= m
    <2>1. s \in T /\ s \in 0..Len(t) /\ m \in 0..Len(t) BY <1>1, <1>3, <1>5
    <2>2. m >= s BY <1>3, <2>1
    <2> QED BY <2>1, <2>2
  <1> QED BY <1>2, <1>4, <1>5

LEMMA LineEndIs ==
    ASSUME NEW t \in Text, NEW p \in 0..Len(t)
    PROVE  /\ LineEnd(t, p) \in p..Len(t)
           /\ ForwardToLineEnd(t, p) \in p..Len(t) /\ (p < Len(t) => p < ForwardToLineEnd(t, p))
  <1>0. PICK n \in Nat : n = Len(t) BY LineStartsAre
  <1>1. ASSUME NEW q \in 0..n PROVE LineEnd(t, q) \in q..n
    <2> DEFINE T == {e \in q..n : e = n \/ t[e + 1] = Newline}
    <2>1. T \in SUBSET Nat /\ n \in T BY <1>1
    <2>2. Min(T) \in T
      <3> HIDE DEF T
      <3> QED BY <2>1, MinIsLeast
    <2>3. LineEnd(t, q) = Min(T) BY <1>0 DEF LineEnd
    <2> QED BY <2>2, <2>3
  <1>2. LineEnd(t, p) \in p..n BY <1>0, <1>1
  <1>3. p < n => p + 1 \in 0..n BY <1>0
  <1>4. p < n => LineEnd(t, p + 1) \in (p + 1)..n BY <1>1, <1>3
  <1> QED BY <1>0, <1>2, <1>4 DEF ForwardToLineEnd

LEMMA ForwardLinesIs ==
    ASSUME NEW t \in Text, NEW p \in 0..Len(t), NEW n
    PROVE  ForwardLines(t, p, n) \in p..Len(t) /\ (n # 0 /\ p < Len(t) => p < ForwardLines(t, p, n))
  <1> DEFINE further == {s \in LineStarts(t) : s > p}
             T == {Len(t)} \union {s \in further : Cardinality({r \in further : r <= s}) = n}
  <1>1. T \in SUBSET Nat /\ T # {} /\ \A s \in T : s \in 0..Len(t) /\ (s > p \/ s = Len(t)) BY LineStartsAre
  <1>2. Min(T) \in T
    <2> HIDE DEF T
    <2> QED BY <1>1, MinIsLeast
  <1>3. ForwardLines(t, p, n) = IF n = 0 THEN p ELSE Min(T) BY DEF ForwardLines
  <1>4. Len(t) \in Nat BY LineStartsAre
  <1> HIDE DEF T
  <1>5. Min(T) \in 0..Len(t) /\ (Min(T) > p \/ Min(T) = Len(t)) BY <1>1, <1>2
  <1> QED BY <1>3, <1>4, <1>5

LEMMA BackwardLinesIs ==
    ASSUME NEW t \in Text, NEW p \in 0..Len(t), NEW n
    PROVE  BackwardLines(t, p, n) \in 0..p
  <1> DEFINE Between(s) == {r \in LineStarts(t) : s < r /\ r <= p}
             T == {0} \union {s \in LineStarts(t) : Cardinality(Between(s)) = n}
  <1>1. T \in SUBSET (0..Len(t)) /\ T # {} /\ Len(t) \in Nat BY LineStartsAre
  <1>2. Max(T) \in T
    <2> HIDE DEF T
    <2> QED BY <1>1, MaxIsGreatest
  <1>3. BackwardLines(t, p, n) = IF n = 0 THEN p ELSE Max(T) BY DEF BackwardLines
  <1>4. ASSUME n # 0, NEW s \in T PROVE s <= p
    <2>1. CASE s = 0 BY <2>1
    <2>2. CASE s # 0
      <3>1. Cardinality(Between(s)) = n BY <2>2
      <3>2. Between(s) # {} BY <1>4, <3>1, FS_EmptySet
      <3>3. PICK r \in LineStarts(t) : s < r /\ r <= p BY <3>2
      <3>4. r \in Nat /\ s \in Nat BY <1>1, <3>3, LineStartsAre
      <3> QED BY <3>3, <3>4
    <2> QED BY <2>1, <2>2
  <1> HIDE DEF T
  <1>5. Max(T) \in 0..Len(t) /\ (n # 0 => Max(T) <= p) BY <1>1, <1>2, <1>4
  <1> QED BY <1>1, <1>3, <1>5

(***************************************************************************)
(* Matches.                                                                 *)
(***************************************************************************)
Found(t, k) == {m \in [from : Nat, to : Nat] : m.to = m.from + Len(k) /\ m.to <= Len(t)}

LEMMA MatchesAre ==
    ASSUME NEW t \in Text, NEW k \in Text, k # <<>>, NEW from \in Nat, NEW limit \in 0..Len(t)
    PROVE  /\ MatchesIn(t, k, from, limit) \in SUBSET (from..limit) /\ Len(k) \in Nat /\ Len(k) > 0
           /\ \A i \in MatchesIn(t, k, from, limit) :
                /\ i \in Nat /\ from <= i /\ i + Len(k) <= limit /\ i < i + Len(k)
                /\ Match(k, i) \in Found(t, k)
  <1>1. Len(k) \in Nat /\ Len(k) > 0 /\ Len(t) \in Nat
    BY EmptySeq, LenProperties DEF Text
  <1>2. MatchesIn(t, k, from, limit) \in SUBSET (from..limit) BY DEF MatchesIn
  <1>3. \A i \in MatchesIn(t, k, from, limit) : i \in from..limit /\ i + Len(k) <= limit BY DEF MatchesIn
  <1>4. ASSUME NEW i \in MatchesIn(t, k, from, limit) PROVE Match(k, i) \in Found(t, k)
    <2>1. PICK l \in Nat : l = Len(k) BY <1>1
    <2>2. i \in Nat /\ i + l \in Nat /\ i + l <= Len(t) BY <1>1, <1>3, <2>1
    <2> QED BY <2>1, <2>2 DEF Match, Found
  <1> QED BY <1>1, <1>2, <1>3, <1>4

LEMMA ForwardMatchesAre ==
    ASSUME NEW t \in Text, NEW k \in Text, k # <<>>, NEW limit \in 0..Len(t), NEW from \in 0..(limit + 1)
    PROVE  ForwardMatches(t, k, from, limit) \in SUBSET Found(t, k)
  <1> DEFINE D == 0..(limit + 1)
             In(p) == MatchesIn(t, k, p, limit)
             E == {p \in D : In(p) = {}}
             S == SUBSET Found(t, k)
             base == [p \in D |-> {}]
             next == [p \in D |-> Min(In(p)) + Len(k)]
             make == [p \in D |-> [v \in S |-> IF p \in E THEN {} ELSE {Match(k, Min(In(p)))} \union v]]
             after == CHOOSE f : f = [p \in D |-> IF In(p) = {} THEN {}
                                                  ELSE {Match(k, Min(In(p)))} \union f[Min(In(p)) + Len(k)]]
  <1>0. limit + 1 \in Nat /\ D \in SUBSET (0..(limit + 1)) /\ from \in D
    <2>1. limit \in Nat BY LineStartsAre
    <2> QED BY <2>1
  <1>1. ForwardMatches(t, k, from, limit) = after[from] BY Zenon DEF ForwardMatches
  <1>2. ASSUME NEW p \in D, p \notin E
        PROVE  /\ next[p] \in D /\ next[p] > p /\ Match(k, Min(In(p))) \in Found(t, k)
    <2>1. PICK i : i = Min(In(p)) OBVIOUS
    <2>2. In(p) # {} /\ p \in Nat BY <1>0, <1>2
    <2>3. In(p) \in SUBSET Nat
      <3>1. In(p) \in SUBSET (p..limit) /\ limit \in Nat BY <2>2, MatchesAre, LineStartsAre
      <3> QED BY <2>2, <3>1
    <2>4. i \in In(p)
      <3> HIDE DEF In
      <3> QED BY <2>1, <2>2, <2>3, MinIsLeast
    <2>5. /\ i \in Nat /\ p <= i /\ i + Len(k) <= limit /\ i < i + Len(k) /\ Len(k) \in Nat
          /\ Match(k, i) \in Found(t, k)
      BY <2>2, <2>4, MatchesAre
    <2>6. next[p] = i + Len(k) BY <2>1
    <2> HIDE DEF In, next
    <2> QED BY <1>0, <2>1, <2>2, <2>5, <2>6
  <1>3. Jumps(S, D, E, base, next, make)
    <2>1. base \in [D -> S] OBVIOUS
    <2>2. \A p \in D : \A v \in S : (IF p \in E THEN {} ELSE {Match(k, Min(In(p)))} \union v) \in S BY <1>2
    <2> HIDE DEF In, S, E, next
    <2>3. make \in [D -> [S -> S]] BY <2>2
    <2> HIDE DEF make, base
    <2> QED BY <1>2, <2>1, <2>3 DEF Jumps
  <1>4. PICK f \in [D -> S] : IsJump(f, D, E, base, next, make)
    <2> HIDE DEF D, E, S, base, next, make
    <2> QED BY <1>0, <1>2, <1>3, JumpsUpExist
  <1>5. \A p \in D : f[p] = IF p \in E THEN base[p] ELSE make[p][f[next[p]]]
    <2> HIDE DEF D, E, S, base, next, make
    <2> QED BY <1>4, JumpValue
  <1>6. \A p \in D : f[p] = IF In(p) = {} THEN {} ELSE {Match(k, Min(In(p)))} \union f[Min(In(p)) + Len(k)]
    <2>1. ASSUME NEW p \in D, p \in E PROVE f[p] = {} BY <1>5, <2>1
    <2>2. ASSUME NEW p \in D, p \notin E PROVE f[p] = {Match(k, Min(In(p)))} \union f[Min(In(p)) + Len(k)]
      <3>1. f[p] = make[p][f[next[p]]] /\ f[next[p]] \in S
        <4> HIDE DEF D, E, S, next, make
        <4> QED BY <1>2, <1>4, <1>5, <2>2
      <3>2. next[p] = Min(In(p)) + Len(k) OBVIOUS
      <3>3. \A v \in S : make[p][v] = {Match(k, Min(In(p)))} \union v
        <4> HIDE DEF In, S
        <4> QED BY <2>2
      <3> HIDE DEF In, S, make, next
      <3> QED BY <3>1, <3>2, <3>3
    <2>3. \A p \in D : p \in E <=> In(p) = {} OBVIOUS
    <2> HIDE DEF In, E, D
    <2> QED BY <2>1, <2>2, <2>3
  <1>7. f = [p \in D |-> IF In(p) = {} THEN {} ELSE {Match(k, Min(In(p)))} \union f[Min(In(p)) + Len(k)]]
    <2>1. PICK g : g = [p \in D |-> IF In(p) = {} THEN {} ELSE {Match(k, Min(In(p)))} \union f[Min(In(p)) + Len(k)]]
      OBVIOUS
    <2> HIDE DEF In, D
    <2>2. f = g BY <1>4, <1>6, <2>1
    <2> QED BY <2>1, <2>2, Zenon
  <1>8. after = [p \in D |-> IF In(p) = {} THEN {} ELSE {Match(k, Min(In(p)))} \union after[Min(In(p)) + Len(k)]]
    BY <1>7, Zenon
  <1> HIDE DEF after
  <1>9. \A p \in D : after[p] = IF In(p) = {} THEN {} ELSE {Match(k, Min(In(p)))} \union after[Min(In(p)) + Len(k)]
    <2>1. PICK g : g = [p \in D |-> IF In(p) = {} THEN {} ELSE {Match(k, Min(In(p)))} \union after[Min(In(p)) + Len(k)]]
      OBVIOUS
    <2> HIDE DEF In, D
    <2>2. after = g BY <1>8, <2>1, Zenon
    <2>3. \A p \in D : g[p] = IF In(p) = {} THEN {} ELSE {Match(k, Min(In(p)))} \union after[Min(In(p)) + Len(k)]
      BY <2>1
    <2> QED BY <2>2, <2>3, Zenon
  <1> DEFINE G == [p \in D |-> S]
  <1>10. \A p \in D : p \in E => after[p] \in G[p] BY <1>9
  <1>11. \A p \in D : p \notin E => next[p] \in D /\ next[p] > p /\ (after[next[p]] \in G[next[p]] => after[p] \in G[p])
    <2>1. ASSUME NEW p \in D, p \notin E, after[next[p]] \in S PROVE after[p] \in S
      <3>1. after[p] = {Match(k, Min(In(p)))} \union after[next[p]] BY <1>9, <2>1
      <3> HIDE DEF In, next
      <3> QED BY <1>2, <2>1, <3>1
    <2>2. \A p \in D : G[p] = S OBVIOUS
    <2> HIDE DEF D, E, In, next, S, G
    <2> QED BY <1>2, <2>1, <2>2
  <1>12. \A p \in D : after[p] \in G[p]
    <2> HIDE DEF D, E, In, next, S, G
    <2>1. Carries(after, G, D, E, next) /\ \A p \in D : p \notin E => next[p] > p BY <1>10, <1>11 DEF Carries
    <2> QED BY <1>0, <2>1, JumpsUpStay
  <1> QED BY <1>0, <1>1, <1>12

LEMMA BackwardMatchesAre ==
    ASSUME NEW t \in Text, NEW k \in Text, k # <<>>, NEW from \in 0..Len(t)
    PROVE  BackwardMatches(t, k, from) \in SUBSET Found(t, k)
  <1> DEFINE D == 0..Len(t)
             In(p) == MatchesIn(t, k, 0, p)
             E == {p \in D : In(p) = {}}
             S == SUBSET Found(t, k)
             base == [p \in D |-> {}]
             next == [p \in D |-> Max(In(p))]
             make == [p \in D |-> [v \in S |-> IF p \in E THEN {} ELSE {Match(k, Max(In(p)))} \union v]]
             back == CHOOSE f : f = [p \in D |-> IF In(p) = {} THEN {}
                                                 ELSE {Match(k, Max(In(p)))} \union f[Max(In(p))]]
  <1>0. Len(t) \in Nat /\ D \in SUBSET (0..Len(t)) /\ from \in D /\ \A p \in D : p \in Nat
    <2>1. Len(t) \in Nat BY LineStartsAre
    <2> QED BY <2>1
  <1>1. BackwardMatches(t, k, from) = back[from] BY Zenon DEF BackwardMatches
  <1>2. ASSUME NEW p \in D, p \notin E
        PROVE  /\ next[p] \in D /\ next[p] < p /\ Match(k, Max(In(p))) \in Found(t, k)
    <2>1. PICK i : i = Max(In(p)) OBVIOUS
    <2>2. In(p) # {} /\ p \in Nat /\ p \in 0..Len(t) /\ 0 \in Nat BY <1>0, <1>2
    <2>3. In(p) \in SUBSET (0..p) BY <2>2, MatchesAre
    <2>4. i \in In(p)
      <3> HIDE DEF In
      <3> QED BY <2>1, <2>2, <2>3, MaxIsGreatest
    <2>5. /\ i \in Nat /\ 0 <= i /\ i + Len(k) <= p /\ i < i + Len(k) /\ Len(k) \in Nat
          /\ Match(k, i) \in Found(t, k)
      BY <2>2, <2>4, MatchesAre
    <2>6. next[p] = i BY <2>1
    <2>7. i < p BY <2>2, <2>5
    <2>8. i \in 0..Len(t) BY <1>0, <2>2, <2>5, <2>7
    <2> HIDE DEF In, next
    <2> QED BY <2>1, <2>5, <2>6, <2>7, <2>8
  <1>3. Jumps(S, D, E, base, next, make)
    <2>1. base \in [D -> S] OBVIOUS
    <2>2. \A p \in D : \A v \in S : (IF p \in E THEN {} ELSE {Match(k, Max(In(p)))} \union v) \in S BY <1>2
    <2> HIDE DEF In, S, E, next
    <2>3. make \in [D -> [S -> S]] BY <2>2
    <2> HIDE DEF make, base
    <2> QED BY <1>2, <2>1, <2>3 DEF Jumps
  <1>4. PICK f \in [D -> S] : IsJump(f, D, E, base, next, make)
    <2> HIDE DEF D, E, S, base, next, make
    <2> QED BY <1>0, <1>2, <1>3, JumpsDownExist
  <1>5. \A p \in D : f[p] = IF p \in E THEN base[p] ELSE make[p][f[next[p]]]
    <2> HIDE DEF D, E, S, base, next, make
    <2> QED BY <1>4, JumpValue
  <1>6. \A p \in D : f[p] = IF In(p) = {} THEN {} ELSE {Match(k, Max(In(p)))} \union f[Max(In(p))]
    <2>1. ASSUME NEW p \in D, p \in E PROVE f[p] = {} BY <1>5, <2>1
    <2>2. ASSUME NEW p \in D, p \notin E PROVE f[p] = {Match(k, Max(In(p)))} \union f[Max(In(p))]
      <3>1. f[p] = make[p][f[next[p]]] /\ f[next[p]] \in S
        <4> HIDE DEF D, E, S, next, make
        <4> QED BY <1>2, <1>4, <1>5, <2>2
      <3>2. next[p] = Max(In(p)) OBVIOUS
      <3>3. \A v \in S : make[p][v] = {Match(k, Max(In(p)))} \union v
        <4> HIDE DEF In, S
        <4> QED BY <2>2
      <3> HIDE DEF In, S, make, next
      <3> QED BY <3>1, <3>2, <3>3
    <2>3. \A p \in D : p \in E <=> In(p) = {} OBVIOUS
    <2> HIDE DEF In, E, D
    <2> QED BY <2>1, <2>2, <2>3
  <1>7. f = [p \in D |-> IF In(p) = {} THEN {} ELSE {Match(k, Max(In(p)))} \union f[Max(In(p))]]
    <2>1. PICK g : g = [p \in D |-> IF In(p) = {} THEN {} ELSE {Match(k, Max(In(p)))} \union f[Max(In(p))]]
      OBVIOUS
    <2> HIDE DEF In, D
    <2>2. f = g BY <1>4, <1>6, <2>1
    <2> QED BY <2>1, <2>2, Zenon
  <1>8. back = [p \in D |-> IF In(p) = {} THEN {} ELSE {Match(k, Max(In(p)))} \union back[Max(In(p))]]
    BY <1>7, Zenon
  <1> HIDE DEF back
  <1>9. \A p \in D : back[p] = IF In(p) = {} THEN {} ELSE {Match(k, Max(In(p)))} \union back[Max(In(p))]
    <2>1. PICK g : g = [p \in D |-> IF In(p) = {} THEN {} ELSE {Match(k, Max(In(p)))} \union back[Max(In(p))]]
      OBVIOUS
    <2> HIDE DEF In, D
    <2>2. back = g BY <1>8, <2>1, Zenon
    <2>3. \A p \in D : g[p] = IF In(p) = {} THEN {} ELSE {Match(k, Max(In(p)))} \union back[Max(In(p))]
      BY <2>1
    <2> QED BY <2>2, <2>3, Zenon
  <1> DEFINE G == [p \in D |-> S]
  <1>10. \A p \in D : p \in E => back[p] \in G[p] BY <1>9
  <1>11. \A p \in D : p \notin E => next[p] \in D /\ next[p] < p /\ (back[next[p]] \in G[next[p]] => back[p] \in G[p])
    <2>1. ASSUME NEW p \in D, p \notin E, back[next[p]] \in S PROVE back[p] \in S
      <3>1. back[p] = {Match(k, Max(In(p)))} \union back[next[p]] BY <1>9, <2>1
      <3> HIDE DEF In, next
      <3> QED BY <1>2, <2>1, <3>1
    <2>2. \A p \in D : G[p] = S OBVIOUS
    <2> HIDE DEF D, E, In, next, S, G
    <2> QED BY <1>2, <2>1, <2>2
  <1>12. \A p \in D : back[p] \in G[p]
    <2> HIDE DEF D, E, In, next, S, G
    <2>1. Carries(back, G, D, E, next) /\ \A p \in D : p \notin E => next[p] < p BY <1>10, <1>11 DEF Carries
    <2> QED BY <1>0, <2>1, JumpsDownStay
  <1> QED BY <1>0, <1>1, <1>12

(***************************************************************************)
(* The document.                                                            *)
(***************************************************************************)
Documents == [text : Text, ins : Nat, bound : Nat, first : Nat, search : Text \union {NoText}, word : BOOLEAN,
              region : Regions \union {NoRegion}, found : SUBSET Nat, redraw : BOOLEAN]

\* The marks and the tags of a document are in its text.
InItsText(d) ==
    /\ d.ins <= Len(d.text) /\ d.bound <= Len(d.text) /\ d.first <= Len(d.text)
    /\ d.found \subseteq 1..Len(d.text)

Sound(d) == /\ d \in Documents /\ InItsText(d)
            /\ d.region # NoRegion => InOrder(d.region, Len(d.text))

\* The same before the lines of s..e are merged into what waits to be searched.
SoundBut(d, s, e) ==
    /\ d \in Documents /\ InItsText(d)
    /\ d.region # NoRegion => /\ InOrderBut(d.region, Len(d.text), s, e)
                              /\ s = e => InOrder(d.region, Len(d.text))

LEMMA RunIs ==
    ASSUME NEW d, Sound(d), NEW p \in 0..Len(d.text)
    PROVE  RunStart(d, p) \in 0..p /\ RunEnd(d, p) \in p..Len(d.text)
  <1>0. PICK n \in Nat : n = Len(d.text) BY LineStartsAre DEF Sound, Documents
  <1>1. d.found \subseteq 1..n /\ p \in 0..n /\ p \in Nat BY <1>0 DEF Sound, InItsText
  <1>2. RunStart(d, p) \in 0..p
    <2>1. CASE {p, p + 1} \subseteq d.found
      <3> DEFINE T == {q \in 0..(p - 1) : q \notin d.found}
      <3>1. p \in 1..n /\ p - 1 \in Nat BY <1>1, <2>1
      <3>2. 0 \notin d.found /\ 0 \in 0..(p - 1) BY <1>1, <3>1
      <3>3. T \in SUBSET (0..(p - 1)) /\ T # {} BY <3>2
      <3>4. Max(T) \in T
        <4> HIDE DEF T
        <4> QED BY <3>1, <3>3, MaxIsGreatest
      <3>5. RunStart(d, p) = Max(T) BY <2>1 DEF RunStart
      <3> QED BY <1>1, <3>1, <3>3, <3>4, <3>5
    <2>2. CASE ~({p, p + 1} \subseteq d.found)
      <3>1. RunStart(d, p) = p BY <2>2 DEF RunStart
      <3> QED BY <1>1, <3>1
    <2> QED BY <2>1, <2>2
  <1>3. RunEnd(d, p) \in p..n
    <2>1. CASE p + 1 \in d.found
      <3> DEFINE T == {q \in (p + 1)..n : (q + 1) \notin d.found}
      <3>1. p + 1 \in 1..n BY <1>1, <2>1
      <3>2. n \in (p + 1)..n /\ n + 1 \notin 1..n BY <1>1, <3>1
      <3>3. T \in SUBSET Nat /\ n \in T BY <1>1, <3>2
      <3>4. Min(T) \in T
        <4> HIDE DEF T
        <4> QED BY <3>3, MinIsLeast
      <3>5. RunEnd(d, p) = Min(T) BY <1>0, <2>1 DEF RunEnd
      <3> QED BY <1>1, <3>4, <3>5
    <2>2. CASE p + 1 \notin d.found
      <3>1. RunEnd(d, p) = p BY <2>2 DEF RunEnd
      <3> QED BY <1>1, <3>1
    <2> QED BY <2>1, <2>2
  <1> QED BY <1>0, <1>2, <1>3

\* lapiz_text_region_intersect.
LEMMA IntersectIs ==
    ASSUME NEW n \in Nat, NEW r \in Regions, InOrder(r, n), NEW s \in Nat, NEW e \in Nat, s <= e, e <= n,
           Intersect(r, s, e) # <<>>
    PROVE  /\ Start(Head(Intersect(r, s, e))) \in 0..n /\ End(Last(Intersect(r, s, e))) \in 0..n
           /\ Start(Head(Intersect(r, s, e))) <= End(Last(Intersect(r, s, e)))
  <1>0. PICK h \in Nat : h = Len(r) /\ \A k \in 1..h : Start(r[k]) \in Nat /\ End(r[k]) \in Nat BY SubregionIs
  <1>1. PICK f, l : f = EndingAfter(r, s, 0, FALSE) /\ l = StartingBefore(r, e, f, FALSE) OBVIOUS
  <1>2. PICK b : b = Bounds(r, s, e, FALSE) OBVIOUS
  <1>3. b = [first |-> f, last |-> l] BY <1>1, <1>2 DEF Bounds
  <1>4. b.first = f /\ b.last = l BY <1>3
  <1>5. ~Misses(b) BY <1>2 DEF Intersect
  <1>6. f # 0 /\ l # 0 /\ l # f - 1 BY <1>4, <1>5 DEF Misses
  <1>7. f \in 1..h /\ s < End(r[f])
    <2>1. f \in 0..h /\ (f # 0 => Past(r[f], s, FALSE)) BY <1>0, <1>1, EndingAfterIs
    <2> QED BY <1>0, <1>6, <2>1 DEF Past
  <1>8. l \in f..h /\ \A j \in f..l : e > Start(r[j])
    <2>1. l \in (f - 1)..h /\ \A j \in f..l : Before(r[j], e, FALSE) BY <1>0, <1>1, <1>7, StartingBeforeIs
    <2>2. l \in f..h BY <1>6, <1>7, <2>1
    <2> QED BY <2>1, <2>2 DEF Before
  <1>9. PICK c \in Nat : c = l - f + 1 /\ c >= 1 BY <1>7, <1>8
  <1> DEFINE part(k) == <<Max({s, Start(r[f + k - 1])}), Min({e, End(r[f + k - 1])})>>
             q == [k \in 1..c |-> part(k)]
  <1>10. Intersect(r, s, e) = q BY <1>2, <1>4, <1>5, <1>9 DEF Intersect
  <1>11. \A k \in 1..c : f + k - 1 \in 1..h BY <1>0, <1>7, <1>8, <1>9
  <1>12. ASSUME NEW k \in 1..c PROVE part(k) \in Subregions
    <2>1. Start(r[f + k - 1]) \in Nat /\ End(r[f + k - 1]) \in Nat BY <1>0, <1>11
    <2> QED BY <2>1, LeastOfTwo, GreatestOfTwo, PairIs
  <1>13. q \in Seq(Subregions) /\ Len(q) = c
    <2> HIDE DEF part
    <2> QED BY <1>12
  <1>14. Head(q) = part(1) /\ Last(q) = part(c)
    <2>1. 1 \in 1..c /\ c \in 1..c BY <1>9
    <2>2. q[1] = part(1) /\ q[c] = part(c)
      <3> HIDE DEF part
      <3> QED BY <2>1
    <2> HIDE DEF q, part
    <2> QED BY <1>13, <2>2 DEF Last
  <1>15. f + 1 - 1 = f /\ f + c - 1 = l BY <1>7, <1>8, <1>9
  <1>16. PICK p1 \in Nat, p2 \in Nat, p3 \in Nat, p4 \in Nat :
           p1 = Start(r[f]) /\ p2 = End(r[f]) /\ p3 = Start(r[l]) /\ p4 = End(r[l])
    BY <1>0, <1>7, <1>8
  <1>17. p1 <= p2 /\ p3 <= p4 /\ p2 <= n /\ p4 <= n
    <2>1. f \in 1..Len(r) /\ l \in 1..Len(r) BY <1>0, <1>7, <1>8
    <2>2. Start(r[f]) <= End(r[f]) /\ End(r[f]) <= n /\ Start(r[l]) <= End(r[l]) /\ End(r[l]) <= n
      BY <2>1 DEF InOrder
    <2> QED BY <1>16, <2>2
  <1>18. p2 <= p4
    <2>1. CASE f = l BY <1>16, <2>1
    <2>2. CASE f < l
      <3>1. f \in 1..Len(r) /\ l \in 1..Len(r) BY <1>0, <1>7, <1>8
      <3>2. Apart(r[f], r[l]) BY <2>2, <3>1 DEF InOrder
      <3>3. p2 <= p3 BY <1>16, <3>2 DEF Apart
      <3> QED BY <1>17, <3>3
    <2> QED BY <1>7, <1>8, <2>1, <2>2
  <1>19. p1 < e /\ s < p2 BY <1>7, <1>8, <1>16
  <1>20. Start(Head(q)) = Max({s, p1}) /\ End(Last(q)) = Min({e, p4})
    <2>1. part(1) = <<Max({s, p1}), Min({e, p2})>> /\ part(c) = <<Max({s, p3}), Min({e, p4})>>
      BY <1>15, <1>16
    <2> QED BY <1>14, <2>1, PairIs
  <1>21. PICK x \in Nat, y \in Nat : /\ x = Max({s, p1}) /\ (x = s \/ x = p1)
                                     /\ y = Min({e, p4}) /\ (y = e \/ y = p4)
    BY LeastOfTwo, GreatestOfTwo
  <1>22. x \in 0..n /\ y \in 0..n /\ x <= y BY <1>17, <1>18, <1>19, <1>21
  <1> QED BY <1>10, <1>20, <1>21, <1>22

LEMMA TaggedIs ==
    ASSUME NEW t \in Text, NEW k, NEW ms \in SUBSET Found(t, k), NEW word
    PROVE  /\ OfWords(t, word, ms) \in SUBSET Found(t, k)
           /\ Tagged(OfWords(t, word, ms)) \subseteq 1..Len(t)
  <1>1. OfWords(t, word, ms) \in SUBSET Found(t, k) BY DEF OfWords
  <1>2. Len(t) \in Nat BY LineStartsAre
  <1>3. ASSUME NEW m \in Found(t, k), NEW c \in (m.from + 1)..m.to PROVE c \in 1..Len(t)
    <2>1. m.from \in Nat /\ m.to \in Nat /\ m.to <= Len(t) BY DEF Found
    <2> QED BY <1>2, <2>1
  <1>4. PICK ns \in SUBSET Found(t, k) : ns = OfWords(t, word, ms) BY <1>1
  <1>5. Tagged(ns) \subseteq 1..Len(t) BY <1>3 DEF Tagged
  <1> QED BY <1>1, <1>4, <1>5

SameText(e, d) == e.text = d.text /\ e.search = d.search

LEMMA SoundIs ==
    ASSUME NEW d, Sound(d)
    PROVE  /\ d.text \in Text /\ Len(d.text) \in Nat /\ d.ins \in 0..Len(d.text) /\ d.bound \in 0..Len(d.text)
           /\ d.first \in 0..Len(d.text) /\ d.search \in Text \union {NoText} /\ d.word \in BOOLEAN
           /\ d.found \subseteq 1..Len(d.text) /\ d.redraw \in BOOLEAN
           /\ d.region # NoRegion => d.region \in Regions /\ InOrder(d.region, Len(d.text))
  <1>1. d.text \in Text /\ d.ins \in Nat /\ d.bound \in Nat /\ d.first \in Nat
        /\ d.search \in Text \union {NoText} /\ d.word \in BOOLEAN /\ d.redraw \in BOOLEAN
        /\ d.region \in Regions \union {NoRegion}
    BY DEF Sound, Documents
  <1>2. Len(d.text) \in Nat BY <1>1, LineStartsAre
  <1> QED BY <1>1, <1>2 DEF Sound, InItsText

LEMMA FoundSet ==
    ASSUME NEW d, Sound(d), NEW f \in SUBSET (1..Len(d.text))
    PROVE  Sound([d EXCEPT !.found = f]) /\ SameText([d EXCEPT !.found = f], d)
           /\ [d EXCEPT !.found = f].region = d.region
  <1>1. PICK e : e = [d EXCEPT !.found = f] OBVIOUS
  <1>2. d \in Documents BY DEF Sound
  <1>3. f \in SUBSET Nat BY SoundIs
  <1>4. e \in Documents BY <1>1, <1>2, <1>3 DEF Documents
  <1>5. /\ e.found = f /\ e.text = d.text /\ e.search = d.search /\ e.ins = d.ins /\ e.bound = d.bound
        /\ e.first = d.first /\ e.region = d.region
    BY <1>1, <1>2 DEF Documents
  <1> QED BY <1>1, <1>4, <1>5 DEF Sound, InItsText, SameText

\* search_region.
LEMMA SearchRegionSound ==
    ASSUME NEW d, Sound(d), NEW from \in 0..Len(d.text), NEW to \in 0..Len(d.text), from <= to
    PROVE  Sound(SearchRegion(d, from, to)) /\ SameText(SearchRegion(d, from, to), d)
           /\ SearchRegion(d, from, to).region = d.region
  <1>0. PICK n \in Nat : n = Len(d.text) BY SoundIs
  <1>1. d.text \in Text /\ d.search \in Text \union {NoText} /\ d.found \subseteq 1..n BY <1>0, SoundIs
  <1>2. PICK a : a = BackwardLines(d.text, from, NumOfLines(d.search)) OBVIOUS
  <1>3. PICK z : z = ForwardLines(d.text, to, NumOfLines(d.search)) OBVIOUS
  <1>4. a \in 0..from /\ z \in to..n BY <1>0, <1>1, <1>2, <1>3, BackwardLinesIs, ForwardLinesIs
  <1>5. a \in 0..n /\ z \in 0..n BY <1>0, <1>4
  <1>6. PICK s, e : s = RunStart(d, a) /\ e = RunEnd(d, z) OBVIOUS
  <1>7. s \in 0..a /\ e \in z..n BY <1>0, <1>5, <1>6, RunIs
  <1>8. e \in 0..n /\ s \in 0..(e + 1) BY <1>0, <1>4, <1>5, <1>7
  <1>9. PICK rest : rest = d.found \ ((s + 1)..e) OBVIOUS
  <1>10. rest \in SUBSET (1..n) BY <1>1, <1>9
  <1>11. PICK all : all = rest \union Tagged(OfWords(d.text, d.word, ForwardMatches(d.text, d.search, s, e))) OBVIOUS
  <1>12. d.search # NoText /\ d.search # <<>> => all \in SUBSET (1..n)
    <2> SUFFICES ASSUME d.search # NoText, d.search # <<>> PROVE all \in SUBSET (1..n) OBVIOUS
    <2>1. d.search \in Text BY <1>1
    <2>2. PICK ms : ms = ForwardMatches(d.text, d.search, s, e) OBVIOUS
    <2>3. ms \in SUBSET Found(d.text, d.search) BY <1>0, <1>1, <1>8, <2>1, <2>2, ForwardMatchesAre
    <2>4. Tagged(OfWords(d.text, d.word, ms)) \subseteq 1..n BY <1>0, <1>1, <2>3, TaggedIs
    <2> QED BY <1>10, <1>11, <2>2, <2>4
  <1>13. SearchRegion(d, from, to) = IF d.search = NoText THEN d
                                     ELSE IF d.search = <<>> THEN [d EXCEPT !.found = rest]
                                     ELSE [d EXCEPT !.found = all]
    BY <1>2, <1>3, <1>6, <1>9, <1>11, Zenon DEF SearchRegion
  <1>14. CASE d.search = NoText BY <1>13, <1>14 DEF SameText
  <1>15. CASE d.search # NoText /\ d.search = <<>>
    <2>1. SearchRegion(d, from, to) = [d EXCEPT !.found = rest] BY <1>13, <1>15, Zenon
    <2> QED BY <1>0, <1>10, <2>1, FoundSet
  <1>16. CASE d.search # NoText /\ d.search # <<>>
    <2>1. SearchRegion(d, from, to) = [d EXCEPT !.found = all] BY <1>13, <1>16, Zenon
    <2> QED BY <1>0, <1>12, <1>16, <2>1, FoundSet
  <1> QED BY <1>14, <1>15, <1>16

LEMMA RegionSet ==
    ASSUME NEW d \in Documents, InItsText(d), NEW r \in Regions \union {NoRegion}, r # NoRegion => InOrder(r, Len(d.text))
    PROVE  Sound([d EXCEPT !.region = r]) /\ SameText([d EXCEPT !.region = r], d)
           /\ [d EXCEPT !.region = r].region = r
  <1>1. PICK e : e = [d EXCEPT !.region = r] OBVIOUS
  <1>2. e \in Documents BY <1>1 DEF Documents
  <1>3. /\ e.found = d.found /\ e.text = d.text /\ e.search = d.search /\ e.ins = d.ins /\ e.bound = d.bound
        /\ e.first = d.first /\ e.region = r
    BY <1>1 DEF Documents
  <1> QED BY <1>1, <1>2, <1>3 DEF Sound, InItsText, SameText

LEMMA RedrawSet ==
    ASSUME NEW d, Sound(d), NEW b \in BOOLEAN
    PROVE  Sound([d EXCEPT !.redraw = b]) /\ SameText([d EXCEPT !.redraw = b], d)
  <1>1. PICK e : e = [d EXCEPT !.redraw = b] OBVIOUS
  <1>2. d \in Documents BY DEF Sound
  <1>3. e \in Documents BY <1>1, <1>2 DEF Documents
  <1>4. /\ e.found = d.found /\ e.text = d.text /\ e.search = d.search /\ e.ins = d.ins /\ e.bound = d.bound
        /\ e.first = d.first /\ e.region = d.region
    BY <1>1, <1>2 DEF Documents
  <1> QED BY <1>1, <1>3, <1>4 DEF Sound, InItsText, SameText

\* _lapiz_document_search_region, for what a draw covers.
LEMMA SearchPendingSound ==
    ASSUME NEW d, Sound(d)
    PROVE  /\ Sound(SearchPending(d, LineShown(d), NextShown(d)))
           /\ SameText(SearchPending(d, LineShown(d), NextShown(d)), d)
  <1>0. PICK n \in Nat : n = Len(d.text) BY SoundIs
  <1>1. d.text \in Text /\ d.first \in 0..n BY <1>0, SoundIs
  <1>2. PICK s, e : s = LineShown(d) /\ e = NextShown(d) OBVIOUS
  <1>3. s \in 0..d.first BY <1>0, <1>1, <1>2, LineStartIs DEF LineShown
  <1>4. s \in 0..n /\ s \in Nat BY <1>1, <1>3
  <1>5. e \in s..n /\ (s < n => s < e)
    <2>1. ForwardLines(d.text, s, 1) \in s..Len(d.text)
          /\ (1 # 0 /\ s < Len(d.text) => s < ForwardLines(d.text, s, 1))
      BY <1>0, <1>1, <1>4, ForwardLinesIs
    <2>2. e = ForwardLines(d.text, s, 1) BY <1>2 DEF NextShown
    <2> QED BY <1>0, <2>1, <2>2
  <1>6. e \in Nat /\ s <= e /\ e <= n BY <1>4, <1>5
  <1>7. PICK pending : pending = IF d.region = NoRegion THEN <<>> ELSE Intersect(d.region, s, e) OBVIOUS
  <1>8. PICK g : g = SearchRegion(d, Start(Head(pending)), End(Last(pending))) OBVIOUS
  <1>9. SearchPending(d, s, e) = IF pending = <<>> THEN d ELSE [g EXCEPT !.region = Subtract(@, s, e)]
    BY <1>7, <1>8, Zenon DEF SearchPending
  <1>10. CASE pending = <<>> BY <1>2, <1>9, <1>10 DEF SameText
  <1>11. CASE pending # <<>>
    <2>1. d.region # NoRegion /\ pending = Intersect(d.region, s, e) BY <1>7, <1>11
    <2>2. d.region \in Regions /\ InOrder(d.region, n) BY <1>0, <2>1, SoundIs
    <2>3. PICK x, y : x = Start(Head(pending)) /\ y = End(Last(pending)) OBVIOUS
    <2>4. x \in 0..n /\ y \in 0..n /\ x <= y BY <1>4, <1>6, <1>11, <2>1, <2>2, <2>3, IntersectIs
    <2>5. Sound(g) /\ SameText(g, d) /\ g.region = d.region BY <1>0, <1>8, <2>3, <2>4, SearchRegionSound
    <2>6. s < e \/ \A k \in 1..Len(d.region) : End(d.region[k]) <= s
      <3>1. s < n \/ s = n BY <1>4
      <3>2. s < n => s < e BY <1>5
      <3>3. \A k \in 1..Len(d.region) : End(d.region[k]) <= n BY <2>2 DEF InOrder
      <3> QED BY <3>1, <3>2, <3>3
    <2>7. PICK q : q = Subtract(d.region, s, e) OBVIOUS
    <2>8. q \in Regions /\ InOrder(q, n) BY <1>4, <1>6, <2>2, <2>6, <2>7, SubtractInOrder
    <2>9. [g EXCEPT !.region = Subtract(@, s, e)] = [g EXCEPT !.region = q] BY <2>5, <2>7
    <2>10. g \in Documents /\ InItsText(g) /\ Len(g.text) = n BY <1>0, <2>5 DEF Sound, SameText
    <2>11. Sound([g EXCEPT !.region = q]) /\ SameText([g EXCEPT !.region = q], g) BY <2>8, <2>10, RegionSet
    <2>12. SearchPending(d, s, e) = [g EXCEPT !.region = q] BY <1>9, <1>11, <2>9, Zenon
    <2> QED BY <1>2, <2>5, <2>11, <2>12 DEF SameText
  <1> QED BY <1>10, <1>11

\* to_search_region_range.
LEMMA ToSearchRegionRangeSound ==
    ASSUME NEW d, NEW start \in 0..Len(d.text), NEW end \in start..Len(d.text),
           SoundBut(d, LineStart(d.text, start), ForwardToLineEnd(d.text, end))
    PROVE  /\ Sound(ToSearchRegionRange(d, start, end))
           /\ SameText(ToSearchRegionRange(d, start, end), d)
  <1>0. PICK n \in Nat : n = Len(d.text) BY LineStartsAre DEF SoundBut, Documents
  <1>1. d.text \in Text /\ d \in Documents /\ InItsText(d) BY DEF SoundBut, Documents
  <1>2. PICK s, e : s = LineStart(d.text, start) /\ e = ForwardToLineEnd(d.text, end) OBVIOUS
  <1>3. start \in 0..n /\ end \in start..n /\ end \in 0..n BY <1>0
  <1>4. s \in 0..start /\ e \in end..n BY <1>0, <1>1, <1>2, <1>3, LineStartIs, LineEndIs
  <1>5. s \in Nat /\ e \in Nat /\ s <= e /\ e <= n BY <1>3, <1>4
  <1>6. PICK r : r = Add(d.region, s, e) OBVIOUS
  <1>7. PICK g : g = [d EXCEPT !.region = Add(@, s, e)] OBVIOUS
  <1>8. g = [d EXCEPT !.region = r] BY <1>6, <1>7
  <1>9. PICK a, z : /\ a = BackwardLines(d.text, s, NumOfLines(d.search))
                    /\ z = ForwardLines(d.text, e, NumOfLines(d.search)) OBVIOUS
  <1>10. ToSearchRegionRange(d, start, end) = IF d.region = NoRegion THEN d ELSE SearchHighlightUpdated(g, a, z)
    BY <1>2, <1>7, <1>9, Zenon DEF ToSearchRegionRange
  <1>11. CASE d.region = NoRegion
    <2>1. Sound(d) BY <1>1, <1>11 DEF Sound
    <2> QED BY <1>10, <1>11, <2>1 DEF SameText
  <1>12. CASE d.region # NoRegion
    <2>1. d.region \in Regions BY <1>1, <1>12 DEF Documents
    <2>2. InOrderBut(d.region, n, s, e) /\ (s = e => InOrder(d.region, n)) BY <1>0, <1>2, <1>12 DEF SoundBut
    <2>3. r \in Regions /\ InOrder(r, n) BY <1>5, <1>6, <2>1, <2>2, AddInOrder
    <2>4. Sound(g) /\ SameText(g, d) BY <1>0, <1>1, <1>8, <2>3, RegionSet
    <2>5. ToSearchRegionRange(d, start, end) = SearchHighlightUpdated(g, a, z) BY <1>10, <1>12, Zenon
    <2>6. \/ SearchHighlightUpdated(g, a, z) = g
          \/ SearchHighlightUpdated(g, a, z) = [g EXCEPT !.redraw = TRUE]
      BY Zenon DEF SearchHighlightUpdated
    <2>7. Sound([g EXCEPT !.redraw = TRUE]) /\ SameText([g EXCEPT !.redraw = TRUE], g) BY <2>4, RedrawSet
    <2> QED BY <2>4, <2>5, <2>6, <2>7 DEF SameText
  <1> QED BY <1>11, <1>12

LEMMA EverythingSound ==
    ASSUME NEW d, Sound(d)
    PROVE  Sound(Everything(d)) /\ SameText(Everything(d), d)
  <1>1. d.text \in Text /\ Len(d.text) \in Nat BY SoundIs
  <1>2. 0 \in 0..Len(d.text) /\ Len(d.text) \in 0..Len(d.text) BY <1>1
  <1>3. PICK s, e : s = LineStart(d.text, 0) /\ e = ForwardToLineEnd(d.text, Len(d.text)) OBVIOUS
  <1>4. InOrder(d.region, Len(d.text)) /\ d.region \in Regions => InOrderBut(d.region, Len(d.text), s, e)
    <2>1. ASSUME InOrder(d.region, Len(d.text)), NEW j \in 1..Len(d.region), NEW k \in 1..Len(d.region), j < k,
                 d.region \in Regions
          PROVE  Start(d.region[j]) <= Start(d.region[k]) /\ End(d.region[j]) <= End(d.region[k])
                 /\ Apart(d.region[j], d.region[k])
      <3>1. Apart(d.region[j], d.region[k]) /\ Start(d.region[j]) <= End(d.region[j])
            /\ Start(d.region[k]) <= End(d.region[k])
        BY <2>1 DEF InOrder
      <3>2. Start(d.region[j]) \in Nat /\ End(d.region[j]) \in Nat /\ Start(d.region[k]) \in Nat
            /\ End(d.region[k]) \in Nat
        BY <2>1, SubregionIs
      <3>3. End(d.region[j]) <= Start(d.region[k]) BY <3>1, <3>2 DEF Apart
      <3> QED BY <3>1, <3>2, <3>3
    <2> QED BY <2>1 DEF InOrder, InOrderBut
  <1>5. SoundBut(d, s, e) BY <1>4, SoundIs DEF SoundBut, Sound
  <1> QED BY <1>2, <1>3, <1>5, ToSearchRegionRangeSound DEF Everything

\* A text with another in the place of a part of it.
LEMMA SplicedIs ==
    ASSUME NEW t \in Text, NEW s \in Text, NEW a \in 0..Len(t), NEW b \in a..Len(t)
    PROVE  LET q == SubSeq(t, 1, a) \o s \o SubSeq(t, b + 1, Len(t))
           IN  q \in Text /\ Len(q) = a + Len(s) + (Len(t) - b)
  <1>0. PICK n \in Nat, c \in Nat : n = Len(t) /\ c = Len(s) BY LineStartsAre
  <1>1. a \in Nat /\ b \in Nat /\ a <= n /\ b <= n BY <1>0
  <1>2. PICK p, q, o : p = SubSeq(t, 1, a) /\ q = SubSeq(t, b + 1, n) /\ o = p \o s OBVIOUS
  <1>3. p \in Text /\ Len(p) = a
    <2>1. SubSeq(t, 0 + 1, a) \in Seq(Characters) /\ Len(SubSeq(t, 0 + 1, a)) = a - 0
      BY <1>0, <1>1, SliceIs DEF Text
    <2> QED BY <1>1, <1>2, <2>1 DEF Text
  <1>4. q \in Text /\ Len(q) = n - b BY <1>0, <1>1, <1>2, SliceIs DEF Text
  <1>5. o \in Text /\ Len(o) = a + c BY <1>0, <1>2, <1>3, ConcatProperties DEF Text
  <1>6. o \o q \in Text /\ Len(o \o q) = (a + c) + (n - b) BY <1>4, <1>5, ConcatProperties DEF Text
  <1> QED BY <1>0, <1>2, <1>6

\* insert-text and its callback.
LEMMA InsertTextSound ==
    ASSUME NEW d, Sound(d), NEW pos \in 0..Len(d.text), NEW s \in Text
    PROVE  /\ Sound(InsertText(d, pos, s)) /\ InsertText(d, pos, s).search = d.search
           /\ Len(InsertText(d, pos, s).text) = Len(d.text) + Len(s)
  <1>0. PICK n \in Nat, c \in Nat : n = Len(d.text) /\ c = Len(s) BY SoundIs, LineStartsAre
  <1>1. /\ d \in Documents /\ d.text \in Text /\ d.ins \in 0..n /\ d.bound \in 0..n /\ d.first \in 0..n
        /\ d.found \subseteq 1..n /\ pos \in 0..n
    BY <1>0, SoundIs DEF Sound
  <1>2. CASE s = <<>>
    <2>1. InsertText(d, pos, s) = d BY <1>2 DEF InsertText
    <2>2. c = 0 BY <1>0, <1>2
    <2> QED BY <1>0, <2>1, <2>2
  <1>3. CASE s # <<>>
    <2>0. c >= 1 BY <1>0, <1>3, EmptySeq DEF Text
    <2> DEFINE moved(p) == IF p >= pos THEN p + c ELSE p
    <2>1. PICK tagged : tagged = {x \in d.found : x <= pos} \union {x + c : x \in {f \in d.found : f > pos}}
                                 \union IF {pos, pos + 1} \subseteq d.found THEN (pos + 1)..(pos + c) ELSE {}
      OBVIOUS
    <2>2. PICK t : t = SubSeq(d.text, 1, pos) \o s \o SubSeq(d.text, pos + 1, Len(d.text)) OBVIOUS
    <2>3. PICK first : first = IF d.first > pos THEN d.first + c ELSE d.first OBVIOUS
    <2>4. PICK r : r = IF d.region = NoRegion THEN d.region ELSE AfterInsert(d.region, pos, c) OBVIOUS
    <2>a. PICK i, b : i = moved(d.ins) /\ b = moved(d.bound) OBVIOUS
    <2>5. PICK e : e = [d EXCEPT !.text = t, !.ins = i, !.bound = b, !.first = first,
                                 !.found = tagged, !.region = r] OBVIOUS
    <2>6. InsertText(d, pos, s) = ToSearchRegionRange(e, pos, pos + c)
      BY <1>0, <1>3, <2>1, <2>2, <2>3, <2>4, <2>5, <2>a DEF InsertText
    <2>7. t \in Text /\ Len(t) = n + c
      <3>1. pos \in 0..n BY <1>1
      <3>2. pos \in pos..n /\ pos + c + (n - pos) = n + c BY <3>1
      <3>3. LET q == SubSeq(d.text, 1, pos) \o s \o SubSeq(d.text, pos + 1, Len(d.text))
            IN  q \in Text /\ Len(q) = pos + Len(s) + (Len(d.text) - pos)
        BY <1>0, <1>1, <3>2, SplicedIs
      <3>4. t \in Text /\ Len(t) = pos + Len(s) + (Len(d.text) - pos) BY <2>2, <3>3, Zenon
      <3> QED BY <1>0, <3>2, <3>4
    <2>8. i \in 0..(n + c) /\ b \in 0..(n + c) /\ first \in 0..(n + c) BY <1>1, <2>3, <2>a
    <2>9. tagged \subseteq 1..(n + c) BY <1>1, <2>1
    <2>10. PICK x, z : x = LineStart(t, pos) /\ z = ForwardToLineEnd(t, pos + c) OBVIOUS
    <2>11. pos \in 0..(n + c) /\ pos + c \in 0..(n + c) /\ pos + c \in pos..(n + c) BY <1>1
    <2>12. x \in 0..pos /\ z \in (pos + c)..(n + c) BY <2>7, <2>10, <2>11, LineStartIs, LineEndIs
    <2>13. x \in Nat /\ z \in Nat /\ x <= pos /\ pos + c <= z /\ x # z BY <1>1, <2>0, <2>12
    <2>14. d.region # NoRegion => r \in Regions /\ InOrderBut(r, n + c, x, z)
      <3>1. d.region # NoRegion => d.region \in Regions /\ InOrder(d.region, n) BY <1>0, SoundIs
      <3> QED BY <1>1, <2>4, <2>13, <3>1, AfterInsertInOrder
    <2>15. d.region = NoRegion => r = NoRegion BY <2>4
    <2>16. e \in Documents
      <3>1. tagged \in SUBSET Nat /\ i \in Nat /\ b \in Nat /\ first \in Nat /\ r \in Regions \union {NoRegion}
        BY <2>8, <2>9, <2>14, <2>15
      <3> HIDE DEF moved
      <3> QED BY <1>1, <2>5, <2>7, <3>1 DEF Documents
    <2>17. /\ e.text = t /\ e.ins = i /\ e.bound = b /\ e.first = first /\ e.found = tagged /\ e.region = r
           /\ e.search = d.search
      BY <1>1, <2>5 DEF Documents
    <2>18. SoundBut(e, x, z)
      <3>1. InItsText(e) BY <2>7, <2>8, <2>9, <2>17 DEF InItsText
      <3>2. e.region # NoRegion => InOrderBut(e.region, n + c, x, z) BY <2>14, <2>15, <2>17
      <3>3. Len(e.text) = n + c BY <2>7, <2>17
      <3> QED BY <2>13, <2>16, <3>1, <3>2, <3>3 DEF SoundBut
    <2>19. pos \in 0..Len(e.text) /\ pos + c \in pos..Len(e.text) BY <2>7, <2>11, <2>17
    <2>20. PICK g : g = ToSearchRegionRange(e, pos, pos + c) OBVIOUS
    <2>21. Sound(g) /\ SameText(g, e) BY <2>10, <2>17, <2>18, <2>19, <2>20, ToSearchRegionRangeSound
    <2>22. Len(g.text) = n + c /\ g.search = d.search BY <2>7, <2>17, <2>21 DEF SameText
    <2> QED BY <1>0, <2>6, <2>20, <2>21, <2>22
  <1> QED BY <1>2, <1>3

\* delete-range and its callback.
LEMMA DeleteRangeSound ==
    ASSUME NEW d, Sound(d), NEW from \in 0..Len(d.text), NEW to \in from..Len(d.text), from < to
    PROVE  /\ Sound(DeleteRange(d, from, to)) /\ DeleteRange(d, from, to).search = d.search
           /\ Len(DeleteRange(d, from, to).text) = Len(d.text) - (to - from)
  <1>0. PICK n \in Nat : n = Len(d.text) BY SoundIs
  <1>1. /\ d \in Documents /\ d.text \in Text /\ d.ins \in 0..n /\ d.bound \in 0..n /\ d.first \in 0..n
        /\ d.found \subseteq 1..n
    BY <1>0, SoundIs DEF Sound
  <1>2. from \in Nat /\ to \in Nat /\ from < to /\ to <= n BY <1>0
  <1>3. PICK c \in Nat : c = n - (to - from) /\ from <= c BY <1>2
  <1>4. PICK found : found = {x \in d.found : x <= from} \union {x - (to - from) : x \in {f \in d.found : f > to}}
    OBVIOUS
  <1>5. PICK t : t = SubSeq(d.text, 1, from) \o SubSeq(d.text, to + 1, Len(d.text)) OBVIOUS
  <1>6. PICK i, b, first : /\ i = Deleted(d.ins, from, to) /\ b = Deleted(d.bound, from, to)
                           /\ first = Deleted(d.first, from, to)
    OBVIOUS
  <1>7. PICK r : r = IF d.region = NoRegion THEN d.region ELSE AfterDelete(d.region, from, to) OBVIOUS
  <1>8. PICK e : e = [d EXCEPT !.text = t, !.ins = i, !.bound = b, !.first = first,
                               !.found = found, !.region = r] OBVIOUS
  <1>9. DeleteRange(d, from, to) = ToSearchRegionRange(e, from, from)
    BY <1>4, <1>5, <1>6, <1>7, <1>8 DEF DeleteRange
  <1>10. t \in Text /\ Len(t) = c
    <2>1. PICK p, q : p = SubSeq(d.text, 1, from) /\ q = SubSeq(d.text, to + 1, n) OBVIOUS
    <2>2. p \in Text /\ Len(p) = from
      <3>1. SubSeq(d.text, 0 + 1, from) \in Seq(Characters) /\ Len(SubSeq(d.text, 0 + 1, from)) = from - 0
        BY <1>0, <1>1, <1>2, SliceIs DEF Text
      <3> QED BY <1>2, <2>1, <3>1 DEF Text
    <2>3. q \in Text /\ Len(q) = n - to BY <1>0, <1>1, <1>2, <2>1, SliceIs DEF Text
    <2>4. p \o q \in Text /\ Len(p \o q) = from + (n - to) BY <2>2, <2>3, ConcatProperties DEF Text
    <2>5. from + (n - to) = c BY <1>2, <1>3
    <2> QED BY <1>0, <1>5, <2>1, <2>4, <2>5
  <1>11. i \in 0..c /\ b \in 0..c /\ first \in 0..c
    <2>1. ASSUME NEW p \in 0..n PROVE Deleted(p, from, to) \in 0..c
      <3>1. p \in Nat /\ p <= n BY <2>1
      <3>2. Deleted(p, from, to) = IF p >= to THEN p - (to - from) ELSE IF p < from THEN p ELSE from
        BY <1>2, <3>1, DeletedIs
      <3> QED BY <1>2, <1>3, <3>1, <3>2
    <2> QED BY <1>1, <1>6, <2>1
  <1>12. found \subseteq 1..c
    <2>1. d.found \subseteq 1..n BY <1>1
    <2> QED BY <1>2, <1>3, <1>4, <2>1
  <1>13. PICK x, z : x = LineStart(t, from) /\ z = ForwardToLineEnd(t, from) OBVIOUS
  <1>14. from \in 0..c BY <1>2, <1>3
  <1>15. x \in 0..from /\ z \in from..c /\ (from < c => from < z) BY <1>10, <1>13, <1>14, LineStartIs, LineEndIs
  <1>16. x \in Nat /\ z \in Nat /\ x <= from /\ from <= z /\ (x = z => from = c)
    BY <1>2, <1>3, <1>15
  <1>17. d.region # NoRegion => r \in Regions /\ InOrderBut(r, c, x, z) /\ (from = c => InOrder(r, c))
    <2>1. d.region # NoRegion => d.region \in Regions /\ InOrder(d.region, n) BY <1>0, SoundIs
    <2> QED BY <1>2, <1>3, <1>7, <1>16, <2>1, AfterDeleteInOrder
  <1>18. d.region = NoRegion => r = NoRegion BY <1>7
  <1>19. e \in Documents
    <2>1. found \in SUBSET Nat /\ i \in Nat /\ b \in Nat /\ first \in Nat /\ r \in Regions \union {NoRegion}
      BY <1>11, <1>12, <1>17, <1>18
    <2> QED BY <1>1, <1>8, <1>10, <2>1 DEF Documents
  <1>20. /\ e.text = t /\ e.ins = i /\ e.bound = b /\ e.first = first /\ e.found = found /\ e.region = r
         /\ e.search = d.search
    BY <1>1, <1>8 DEF Documents
  <1>21. SoundBut(e, x, z)
    <2>1. InItsText(e) BY <1>10, <1>11, <1>12, <1>20 DEF InItsText
    <2>2. e.region # NoRegion => InOrderBut(e.region, c, x, z) /\ (x = z => InOrder(e.region, c))
      BY <1>16, <1>17, <1>18, <1>20
    <2>3. Len(e.text) = c BY <1>10, <1>20
    <2> QED BY <1>19, <2>1, <2>2, <2>3 DEF SoundBut
  <1>22. from \in 0..Len(e.text) /\ from \in from..Len(e.text) BY <1>10, <1>14, <1>20
  <1>23. PICK g : g = ToSearchRegionRange(e, from, from) OBVIOUS
  <1>24. Sound(g) /\ SameText(g, e) BY <1>13, <1>20, <1>21, <1>22, <1>23, ToSearchRegionRangeSound
  <1>25. Len(g.text) = c /\ g.search = d.search BY <1>10, <1>20, <1>24 DEF SameText
  <1> QED BY <1>0, <1>3, <1>9, <1>23, <1>24, <1>25

\* lapiz_document_set_enable_search_highlighting.
LEMMA SetEnableSearchHighlightingSound ==
    ASSUME NEW d, Sound(d), NEW enable \in BOOLEAN
    PROVE  /\ Sound(SetEnableSearchHighlighting(d, enable))
           /\ SameText(SetEnableSearchHighlighting(d, enable), d)
  <1>0. d \in Documents /\ InItsText(d) BY DEF Sound
  <1>1. PICK new : new = [d EXCEPT !.region = <<>>] OBVIOUS
  <1>2. PICK off : off = [d EXCEPT !.region = NoRegion, !.found = {}] OBVIOUS
  <1>3. SetEnableSearchHighlighting(d, enable) = IF (d.region # NoRegion) = enable THEN d
                                                 ELSE IF enable
                                                 THEN IF CanSearchAgain(d) THEN Everything(new) ELSE new
                                                 ELSE off
    BY <1>1, <1>2, Zenon DEF SetEnableSearchHighlighting
  <1>4. Sound(new) /\ SameText(new, d)
    <2>1. <<>> \in Regions BY DEF Regions
    <2>2. InOrder(<<>>, Len(d.text)) BY DEF InOrder
    <2> QED BY <1>0, <1>1, <2>1, <2>2, RegionSet
  <1>5. Sound(Everything(new)) /\ SameText(Everything(new), d) BY <1>4, EverythingSound DEF SameText
  <1>6. Sound(off) /\ SameText(off, d)
    <2>1. PICK e : e = [d EXCEPT !.region = NoRegion] OBVIOUS
    <2>2. Sound(e) /\ SameText(e, d) BY <1>0, <2>1, RegionSet
    <2>3. {} \in SUBSET (1..Len(e.text)) OBVIOUS
    <2>4. Sound([e EXCEPT !.found = {}]) /\ SameText([e EXCEPT !.found = {}], e) BY <2>2, <2>3, FoundSet
    <2>5. off = [e EXCEPT !.found = {}] BY <1>0, <1>2, <2>1 DEF Documents
    <2> QED BY <2>2, <2>4, <2>5 DEF SameText
  <1>7. SameText(d, d) BY DEF SameText
  <1> QED BY <1>3, <1>4, <1>5, <1>6, <1>7

\* One step of lapiz_document_replace_all, from a document and an iter to the next.
ReplacesOnce(d, find, replace, word, iter, e, i) ==
    LET ahead == IF iter > Len(d.text) THEN {} ELSE MatchesIn(d.text, find, iter, Len(d.text))
        m     == Match(find, Min(ahead))
    IN  \/ ahead = {} /\ e = d /\ i = iter
        \/ ahead # {} /\ word /\ ~IsWord(d.text, m) /\ e = d /\ i = m.to
        \/ /\ ahead # {} /\ e = InsertText(DeleteRange(d, m.from, m.to), m.from, replace)
           /\ i = m.from + Len(replace)

LEMMA ReplaceOnceSound ==
    ASSUME NEW d, Sound(d), NEW find \in Text, find # <<>>, NEW replace \in Text, NEW word, NEW iter \in Nat,
           NEW e, NEW i, ReplacesOnce(d, find, replace, word, iter, e, i)
    PROVE  Sound(e) /\ i \in Nat /\ e.search = d.search
  <1>0. PICK n \in Nat : n = Len(d.text) BY SoundIs
  <1>1. d.text \in Text /\ n \in 0..n /\ Len(replace) \in Nat BY <1>0, SoundIs, LineStartsAre
  <1>2. PICK ahead : ahead = IF iter > n THEN {} ELSE MatchesIn(d.text, find, iter, n) OBVIOUS
  <1>3. PICK m : m = Match(find, Min(ahead)) OBVIOUS
  <1>4. \/ ahead = {} /\ e = d /\ i = iter
        \/ ahead # {} /\ word /\ ~IsWord(d.text, m) /\ e = d /\ i = m.to
        \/ /\ ahead # {} /\ e = InsertText(DeleteRange(d, m.from, m.to), m.from, replace)
           /\ i = m.from + Len(replace)
    BY <1>0, <1>2, <1>3, Zenon DEF ReplacesOnce
  <1>5. CASE ahead = {} /\ e = d /\ i = iter BY <1>5
  <1>6. ASSUME ahead # {} PROVE m.from \in Nat /\ m.to \in Nat /\ m.from < m.to /\ m.to <= n
    <2>1. ahead = MatchesIn(d.text, find, iter, n) BY <1>2, <1>6
    <2>2. /\ ahead \in SUBSET (iter..n)
          /\ \A p \in ahead : p \in Nat /\ p < p + Len(find) /\ Match(find, p) \in Found(d.text, find)
      BY <1>0, <1>1, <2>1, MatchesAre
    <2>3. Min(ahead) \in ahead
      <3>1. ahead \in SUBSET Nat BY <2>2
      <3> QED BY <1>6, <3>1, MinIsLeast
    <2>4. PICK p \in ahead : p = Min(ahead) BY <2>3
    <2>5. m = Match(find, p) /\ m \in Found(d.text, find) BY <1>3, <2>2, <2>4
    <2>6. m.from = p /\ m.to = p + Len(find) BY <2>5 DEF Match
    <2>7. m.from \in Nat /\ m.to \in Nat /\ m.to <= n BY <1>0, <2>5 DEF Found
    <2> QED BY <2>2, <2>6, <2>7
  <1>7. CASE ahead # {} /\ e = d /\ i = m.to BY <1>6, <1>7
  <1>8. CASE /\ ahead # {} /\ e = InsertText(DeleteRange(d, m.from, m.to), m.from, replace)
             /\ i = m.from + Len(replace)
    <2>1. PICK f, t : f = m.from /\ t = m.to OBVIOUS
    <2>2. f \in Nat /\ t \in Nat /\ f < t /\ t <= n BY <1>6, <1>8, <2>1
    <2>3. f \in 0..n /\ t \in f..n BY <2>2
    <2>4. PICK g : g = DeleteRange(d, f, t) OBVIOUS
    <2>5. Sound(g) /\ g.search = d.search /\ Len(g.text) = n - (t - f) BY <1>0, <2>2, <2>3, <2>4, DeleteRangeSound
    <2>6. f \in 0..Len(g.text) BY <2>2, <2>5
    <2>7. e = InsertText(g, f, replace) BY <1>8, <2>1, <2>4
    <2>8. Sound(e) /\ e.search = g.search BY <2>5, <2>6, <2>7, InsertTextSound
    <2>9. i \in Nat BY <1>1, <1>8, <2>1, <2>2
    <2> QED BY <2>5, <2>8, <2>9
  <1> QED BY <1>4, <1>5, <1>7, <1>8

ReplaceFromStates(d) == {s \in [d : Documents, iter : Nat] : Sound(s.d) /\ s.d.search = d.search}

LEMMA ReplaceFromSound ==
    ASSUME NEW d, Sound(d), NEW find \in Text, find # <<>>, NEW replace \in Text, NEW word
    PROVE  /\ Sound(ReplaceFrom(d, find, replace, word))
           /\ ReplaceFrom(d, find, replace, word).search = d.search
  <1> DEFINE Ahead1(s) == IF s.iter > Len(s.d.text) THEN {} ELSE MatchesIn(s.d.text, find, s.iter, Len(s.d.text))
             Next1(s) == Match(find, Min(Ahead1(s)))
             Step(s) == IF Ahead1(s) = {} THEN s
                        ELSE IF word /\ ~IsWord(s.d.text, Next1(s)) THEN [s EXCEPT !.iter = Next1(s).to]
                        ELSE [d    |-> InsertText(DeleteRange(s.d, Next1(s).from, Next1(s).to), Next1(s).from, replace),
                              iter |-> Next1(s).from + Len(replace)]
             m == Len(d.text) + 1
             a == [d |-> d, iter |-> 0]
             after == CHOOSE f : f = [n \in 0..m |-> IF n = 0 THEN a ELSE Step(f[n - 1])]
             St == ReplaceFromStates(d)
             S == [k \in 0..m |-> St]
             h == [k \in 1..m |-> [s \in St |-> Step(s)]]
  <1>0. m \in Nat BY SoundIs
  <1>1. ReplaceFrom(d, find, replace, word) = after[m].d BY Zenon DEF ReplaceFrom
  <1>2. ASSUME NEW s \in St PROVE Step(s) \in St
    <2>1. Sound(s.d) /\ s.d.search = d.search /\ s.iter \in Nat /\ s.d \in Documents
          /\ s = [d |-> s.d, iter |-> s.iter]
      BY DEF ReplaceFromStates
    <2>2. PICK e, i : /\ Step(s) = [d |-> e, iter |-> i]
                      /\ \/ Ahead1(s) = {} /\ e = s.d /\ i = s.iter
                         \/ Ahead1(s) # {} /\ word /\ ~IsWord(s.d.text, Next1(s)) /\ e = s.d /\ i = Next1(s).to
                         \/ /\ Ahead1(s) # {}
                            /\ e = InsertText(DeleteRange(s.d, Next1(s).from, Next1(s).to), Next1(s).from, replace)
                            /\ i = Next1(s).from + Len(replace)
      <3>1. PICK q, x : q = Ahead1(s) /\ x = Next1(s) OBVIOUS
      <3>2. PICK ee, ii : /\ ee = InsertText(DeleteRange(s.d, x.from, x.to), x.from, replace)
                          /\ ii = x.from + Len(replace)
        OBVIOUS
      <3>3. Step(s) = IF q = {} THEN s
                      ELSE IF word /\ ~IsWord(s.d.text, x) THEN [s EXCEPT !.iter = x.to]
                      ELSE [d |-> ee, iter |-> ii]
        BY <3>1, <3>2, Zenon
      <3>4. [s EXCEPT !.iter = x.to] = [d |-> s.d, iter |-> x.to]
        <4>1. PICK g, j : s = [d |-> g, iter |-> j] BY <2>1
        <4>2. s.d = g BY <4>1
        <4> HIDE DEF St
        <4> QED BY <4>1, <4>2
      <3> HIDE DEF Step, Ahead1, Next1
      <3>5. CASE q = {}
        <4>1. Step(s) = [d |-> s.d, iter |-> s.iter] BY <2>1, <3>3, <3>5, Zenon
        <4> QED BY <3>1, <3>5, <4>1, Zenon
      <3>6. CASE q # {} /\ word /\ ~IsWord(s.d.text, x)
        <4>1. Step(s) = [d |-> s.d, iter |-> x.to] BY <3>3, <3>4, <3>6, Zenon
        <4> QED BY <3>1, <3>6, <4>1, Zenon
      <3>7. CASE q # {} /\ ~(word /\ ~IsWord(s.d.text, x))
        <4>1. Step(s) = [d |-> ee, iter |-> ii] BY <3>3, <3>7, Zenon
        <4> QED BY <3>1, <3>2, <3>7, <4>1, Zenon
      <3> QED BY <3>5, <3>6, <3>7, Zenon
    <2>3. Sound(e) /\ i \in Nat /\ e.search = s.d.search
      <3>1. PICK g, j : g = s.d /\ j = s.iter OBVIOUS
      <3>2. ReplacesOnce(g, find, replace, word, j, e, i) BY <2>2, <3>1, Zenon DEF ReplacesOnce
      <3>3. Sound(g) /\ j \in Nat BY <2>1, <3>1
      <3>4. Sound(e) /\ i \in Nat /\ e.search = g.search BY <3>2, <3>3, ReplaceOnceSound
      <3> QED BY <3>1, <3>4
    <2>4. [d |-> e, iter |-> i] \in St
      <3>1. e \in Documents BY <2>3 DEF Sound
      <3> QED BY <2>1, <2>3, <3>1 DEF ReplaceFromStates
    <2> HIDE DEF Step, St
    <2> QED BY <2>2, <2>4, Zenon
  <1>3. a \in St
    <2>1. d \in Documents BY DEF Sound
    <2> QED BY <2>1 DEF ReplaceFromStates
  <1> HIDE DEF m, St
  <1>4. \A k \in 1..m : k \in 0..m /\ k - 1 \in 0..m /\ k # 0 BY <1>0
  <1>5. \A k \in 0..m : S[k] = St OBVIOUS
  <1>6. \A k \in 1..m : \A s \in St : h[k][s] = Step(s)
    <2> HIDE DEF Step
    <2> QED OBVIOUS
  <1> HIDE DEF Step, S, h, a
  <1>7. IsChain(S, h, m)
    <2>1. \A k \in 1..m : S[k - 1] = St /\ S[k] = St BY <1>4, <1>5
    <2>2. \A k \in 1..m : \A s \in S[k - 1] : h[k][s] \in S[k] BY <1>2, <1>6, <2>1, Zenon
    <2> QED BY <2>2, Zenon DEF IsChain
  <1>8. a \in S[0] BY <1>0, <1>3, <1>5
  <1>9. after = [n \in 0..m |-> IF n = 0 THEN a ELSE Step(after[n - 1])]
    <2>1. PICK g : IsRun(g, a, h, m) /\ \A k \in 0..m : g[k] \in S[k] BY <1>0, <1>7, <1>8, ChainExists
    <2>2. \A k \in 0..m : k # 0 => h[k][g[k - 1]] = Step(g[k - 1])
      <3>1. \A k \in 0..m : k # 0 => k \in 1..m /\ k - 1 \in 0..m BY <1>0
      <3> QED BY <1>5, <1>6, <2>1, <3>1
    <2>3. g = [k \in 0..m |-> IF k = 0 THEN a ELSE Step(g[k - 1])] BY <2>1, <2>2 DEF IsRun
    <2> QED BY <2>3, Zenon
  <1> HIDE DEF after
  <1>10. after[0] = a /\ \A k \in 1..m : after[k] = Step(after[k - 1])
    <2>1. 0 \in 0..m BY <1>0
    <2>2. PICK g : g = [n \in 0..m |-> IF n = 0 THEN a ELSE Step(after[n - 1])] OBVIOUS
    <2>3. after = g BY <1>9, <2>2, Zenon
    <2>4. g[0] = a /\ \A k \in 1..m : g[k] = Step(after[k - 1]) BY <1>4, <2>1, <2>2
    <2> QED BY <2>3, <2>4, Zenon
  <1>11. \A k \in 1..m : after[k - 1] \in S[k - 1] => after[k] = h[k][after[k - 1]]
    BY <1>4, <1>5, <1>6, <1>10
  <1>12. \A k \in 0..m : after[k] \in S[k] BY <1>0, <1>7, <1>8, <1>10, <1>11, ChainStays
  <1>13. after[m] \in St BY <1>0, <1>5, <1>12
  <1> QED BY <1>1, <1>13 DEF St, ReplaceFromStates

LEMMA DocumentReplaceAllSound ==
    ASSUME NEW d, Sound(d), NEW find \in Text, find # <<>>, NEW replace \in Text, NEW word
    PROVE  /\ Sound(DocumentReplaceAll(d, find, replace, word))
           /\ DocumentReplaceAll(d, find, replace, word).search = d.search
  <1>1. PICK off : off = SetEnableSearchHighlighting(d, FALSE) OBVIOUS
  <1>2. Sound(off) /\ off.search = d.search BY <1>1, SetEnableSearchHighlightingSound DEF SameText
  <1>3. PICK e : e = ReplaceFrom(off, find, replace, word) OBVIOUS
  <1>4. Sound(e) /\ e.search = d.search BY <1>2, <1>3, ReplaceFromSound
  <1>5. PICK b \in BOOLEAN : b = (d.region # NoRegion) OBVIOUS
  <1>6. DocumentReplaceAll(d, find, replace, word) = SetEnableSearchHighlighting(e, b)
    BY <1>1, <1>3, <1>5, Zenon DEF DocumentReplaceAll
  <1> QED BY <1>4, <1>6, SetEnableSearchHighlightingSound DEF SameText

(***************************************************************************)
(* Escaping.                                                                *)
(***************************************************************************)
OfEscaped(c) == CASE c = "n"  -> <<Newline>>
                  [] c = "\\" -> <<"\\">>
                  [] OTHER    -> <<"\\", c>>

\* What lapiz_utils_unescape_search_text makes of e from each place on.
UnescapedFrom(f, e) ==
    /\ UnescapeSearchText(e) = f[1]
    /\ \A p \in 1..(Len(e) + 2) : f[p] \in Text /\ (p > Len(e) => f[p] = <<>>)
    /\ \A p \in 1..Len(e) : /\ e[p] # "\\" => f[p] = <<e[p]>> \o f[p + 1]
                            /\ e[p] = "\\" /\ p = Len(e) => f[p] = <<"\\">>
                            /\ e[p] = "\\" /\ p # Len(e) => f[p] = OfEscaped(e[p + 1]) \o f[p + 2]

LEMMA CharactersAre ==
    /\ "\\" \in Characters /\ "n" \in Characters /\ Newline \in Characters
    /\ Newline # "\\" /\ Newline # "n" /\ NoText \notin Text
    /\ <<>> \in Text /\ \A c \in Characters : <<c>> \in Text /\ <<"\\", c>> \in Text /\ OfEscaped(c) \in Text
  <1>1. /\ "\\" \in Characters /\ "n" \in Characters /\ Newline \in Characters
        /\ Newline # "\\" /\ Newline # "n" /\ NoText \notin Text
    BY SearchAssumption DEF Text
  <1>2. <<>> \in Text BY DEF Text
  <1>3. ASSUME NEW c \in Characters PROVE <<c>> \in Text /\ <<"\\", c>> \in Text
    BY <1>1 DEF Text
  <1>4. ASSUME NEW c \in Characters PROVE OfEscaped(c) \in Text
    BY <1>1, <1>3 DEF OfEscaped
  <1> QED BY <1>1, <1>2, <1>3, <1>4

LEMMA UnescapedFromIs ==
    ASSUME NEW e \in Text
    PROVE  \E f : UnescapedFrom(f, e)
  <1> DEFINE L == Len(e)
             D == 1..(L + 2)
             Escape(p) == e[p] = "\\"
             E == {p \in D : p > L \/ (Escape(p) /\ p = L)}
             base == [p \in D |-> IF p > L THEN <<>> ELSE <<"\\">>]
             next == [p \in D |-> IF Escape(p) THEN p + 2 ELSE p + 1]
             piece == [p \in D |-> IF p \in E THEN <<>> ELSE IF Escape(p) THEN OfEscaped(e[p + 1]) ELSE <<e[p]>>]
             make == [p \in D |-> [v \in Text |-> piece[p] \o v]]
             from == CHOOSE f : f = [p \in 1..(Len(e) + 2) |->
                        IF p > Len(e) THEN <<>>
                        ELSE IF e[p] # "\\" THEN <<e[p]>> \o f[p + 1]
                        ELSE IF p = Len(e) THEN <<"\\">>
                        ELSE (CASE e[p + 1] = "n"  -> <<Newline>>
                                [] e[p + 1] = "\\" -> <<"\\">>
                                [] OTHER           -> <<"\\", e[p + 1]>>) \o f[p + 2]]
  <1>0. L \in Nat /\ \A p \in 1..L : e[p] \in Characters BY LenProperties DEF Text
  <1>1. UnescapeSearchText(e) = from[1] BY Zenon DEF UnescapeSearchText
  <1>2. D \in SUBSET (0..(L + 2)) /\ L + 2 \in Nat /\ 1 \in D /\ \A p \in D : p \in Nat BY <1>0
  <1>3. \A p \in D : p \notin E => next[p] \in D /\ next[p] > p /\ p \in 1..L /\ (Escape(p) => p + 1 \in 1..L)
    <2>1. ASSUME NEW p \in D, p \notin E
          PROVE  next[p] \in D /\ next[p] > p /\ p \in 1..L /\ (Escape(p) => p + 1 \in 1..L)
      <3>1. p \in Nat /\ p <= L /\ p >= 1 BY <1>0, <2>1
      <3>2. Escape(p) => p < L BY <1>0, <2>1, <3>1
      <3>3. next[p] = IF Escape(p) THEN p + 2 ELSE p + 1 OBVIOUS
      <3> HIDE DEF Escape, next, E
      <3> QED BY <1>0, <3>1, <3>2, <3>3
    <2> HIDE DEF Escape, next, E, D
    <2> QED BY <2>1
  <1>4. \A p \in D : base[p] \in Text /\ piece[p] \in Text
    <2>1. ASSUME NEW p \in D PROVE base[p] \in Text /\ piece[p] \in Text
      <3>1. base[p] = IF p > L THEN <<>> ELSE <<"\\">> OBVIOUS
      <3>2. base[p] \in Text
        <4> HIDE DEF base
        <4> QED BY <3>1, CharactersAre
      <3>3. piece[p] = IF p \in E THEN <<>> ELSE IF Escape(p) THEN OfEscaped(e[p + 1]) ELSE <<e[p]>> OBVIOUS
      <3>4. p \notin E => e[p] \in Characters /\ (Escape(p) => e[p + 1] \in Characters)
        <4> HIDE DEF D, E, Escape, next
        <4> QED BY <1>0, <1>3
      <3>5. piece[p] \in Text
        <4> HIDE DEF piece, E, Escape
        <4> QED BY <3>3, <3>4, CharactersAre
      <3> QED BY <3>2, <3>5
    <2> QED BY <2>1
  <1>5. Jumps(Text, D, E, base, next, make)
    <2>1. \A p \in D : \A v \in Text : piece[p] \o v \in Text
      <3> HIDE DEF piece, D
      <3> QED BY <1>4, ConcatProperties DEF Text
    <2>2. base = [p \in D |-> base[p]] OBVIOUS
    <2> HIDE DEF D, E, next, base, piece
    <2>3. base \in [D -> Text] BY <1>4, <2>2
    <2>4. make \in [D -> [Text -> Text]] BY <2>1
    <2> HIDE DEF make
    <2> QED BY <1>3, <2>3, <2>4 DEF Jumps
  <1>6. PICK f \in [D -> Text] : IsJump(f, D, E, base, next, make)
    <2> HIDE DEF D, E, base, next, make
    <2> QED BY <1>2, <1>3, <1>5, JumpsUpExist
  <1>7. \A p \in D : f[p] = IF p \in E THEN base[p] ELSE make[p][f[next[p]]]
    <2> HIDE DEF D, E, base, next, make
    <2> QED BY <1>6, JumpValue
  <1> DEFINE Body(g, p) == IF p > L THEN <<>>
                           ELSE IF e[p] # "\\" THEN <<e[p]>> \o g[p + 1]
                           ELSE IF p = L THEN <<"\\">>
                           ELSE (CASE e[p + 1] = "n"  -> <<Newline>>
                                   [] e[p + 1] = "\\" -> <<"\\">>
                                   [] OTHER           -> <<"\\", e[p + 1]>>) \o g[p + 2]
  <1>8. \A g : \A p \in D : Body(g, p) = IF p \in E THEN base[p] ELSE piece[p] \o g[next[p]]
    <2>1. ASSUME NEW g, NEW p \in D PROVE Body(g, p) = IF p \in E THEN base[p] ELSE piece[p] \o g[next[p]]
      <3>1. CASE p > L
        <4>1. p \in E /\ base[p] = <<>> BY <3>1
        <4> HIDE DEF E, base
        <4> QED BY <3>1, <4>1
      <3>2. CASE ~(p > L) /\ e[p] # "\\"
        <4>1. p \notin E /\ next[p] = p + 1 /\ piece[p] = <<e[p]>> BY <3>2
        <4> HIDE DEF E, next, piece
        <4> QED BY <3>2, <4>1
      <3>3. CASE ~(p > L) /\ e[p] = "\\" /\ p = L
        <4>1. p \in E /\ base[p] = <<"\\">> BY <3>3
        <4> HIDE DEF E, base
        <4> QED BY <3>3, <4>1
      <3>4. CASE ~(p > L) /\ e[p] = "\\" /\ p # L
        <4>1. p \notin E /\ next[p] = p + 2 /\ piece[p] = OfEscaped(e[p + 1]) BY <3>4
        <4>2. Body(g, p) = OfEscaped(e[p + 1]) \o g[p + 2]
          <5> HIDE DEF E, next, piece, D, L
          <5> QED BY <3>4, Zenon DEF OfEscaped
        <4> HIDE DEF E, next, piece, Body
        <4> QED BY <4>1, <4>2
      <3> QED BY <3>1, <3>2, <3>3, <3>4
    <2> HIDE DEF Body, D, E, base, next, piece
    <2> QED BY <2>1
  <1>9. \A p \in D : f[p] = Body(f, p)
    <2>1. \A p \in D : \A v \in Text : make[p][v] = piece[p] \o v OBVIOUS
    <2> HIDE DEF Body, D, E, base, next, piece, make
    <2>2. ASSUME NEW p \in D PROVE f[p] = IF p \in E THEN base[p] ELSE piece[p] \o f[next[p]]
      <3>1. CASE p \in E BY <1>7, <3>1, Zenon
      <3>2. CASE p \notin E
        <4>1. next[p] \in D BY <1>3, <3>2, Zenon
        <4>2. f[next[p]] \in Text BY <1>6, <4>1
        <4>3. make[p][f[next[p]]] = piece[p] \o f[next[p]] BY <2>1, <4>2, Zenon
        <4>4. f[p] = make[p][f[next[p]]] BY <1>7, <3>2, Zenon
        <4> QED BY <3>2, <4>3, <4>4, Zenon
      <3> QED BY <3>1, <3>2
    <2> QED BY <1>8, <2>2, Zenon
  <1>10. f = [p \in D |-> Body(f, p)]
    <2> HIDE DEF Body, D
    <2> QED BY <1>6, <1>9
  <1>11. from = [p \in D |-> Body(from, p)]
    BY <1>10, Zenon
  <1> HIDE DEF from
  <1>12. \A p \in D : from[p] = Body(from, p)
    <2> HIDE DEF Body, D
    <2>1. PICK g : g = [p \in D |-> Body(from, p)] OBVIOUS
    <2>2. from = g BY <1>11, <2>1, Zenon
    <2>3. \A p \in D : g[p] = Body(from, p) BY <2>1
    <2> QED BY <2>2, <2>3, Zenon
  <1> DEFINE G == [p \in D |-> Text]
  <1>13. \A p \in D : from[p] = IF p \in E THEN base[p] ELSE piece[p] \o from[next[p]]
    <2> HIDE DEF Body, D, E, base, next, piece
    <2> QED BY <1>8, <1>12
  <1>14. \A p \in D : from[p] \in G[p]
    <2>1. \A p \in D : G[p] = Text OBVIOUS
    <2> HIDE DEF Body, D, E, base, next, piece, G
    <2>2. \A p \in D : p \in E => from[p] \in G[p] BY <1>4, <1>13, <2>1
    <2>3. ASSUME NEW p \in D, p \notin E, from[next[p]] \in G[next[p]] PROVE from[p] \in G[p]
      <3>1. next[p] \in D BY <1>3, <2>3
      <3>2. from[next[p]] \in Text /\ piece[p] \in Text BY <1>4, <2>1, <2>3, <3>1
      <3>3. piece[p] \o from[next[p]] \in Text BY <3>2, ConcatProperties DEF Text
      <3> QED BY <1>13, <2>1, <2>3, <3>3
    <2>4. Carries(from, G, D, E, next) BY <1>3, <2>2, <2>3 DEF Carries
    <2>5. \A p \in D : p \notin E => next[p] > p BY <1>3
    <2> QED BY <1>2, <2>4, <2>5, JumpsUpStay
  <1>15. ASSUME NEW p \in D PROVE from[p] \in Text /\ (p > L => from[p] = <<>>)
    <2>1. p > L => p \in E /\ base[p] = <<>> OBVIOUS
    <2>2. from[p] \in Text BY <1>14
    <2> HIDE DEF D, E, base, next, piece, L
    <2> QED BY <1>13, <2>1, <2>2
  <1>16. ASSUME NEW p \in 1..L
         PROVE  /\ e[p] # "\\" => from[p] = <<e[p]>> \o from[p + 1]
                /\ e[p] = "\\" /\ p = L => from[p] = <<"\\">>
                /\ e[p] = "\\" /\ p # L => from[p] = OfEscaped(e[p + 1]) \o from[p + 2]
    <2>1. p \in D /\ ~(p > L) BY <1>0
    <2>2. from[p] = Body(from, p)
      <3> HIDE DEF D, Body
      <3> QED BY <1>12, <2>1
    <2> HIDE DEF D, L
    <2> QED BY <2>1, <2>2, Zenon DEF OfEscaped
  <1>17. UnescapedFrom(from, e)
    <2> HIDE DEF Body, E, base, next, piece, G
    <2> QED BY <1>1, <1>15, <1>16 DEF UnescapedFrom
  <1> QED BY <1>17

EscapedPiece(c) == CASE c = Newline -> <<"\\", "n">>
                     [] c = "\\"    -> <<"\\", "\\">>
                     [] OTHER       -> <<c>>

LEMMA EscapedPieceIs ==
    ASSUME NEW c \in Characters
    PROVE  /\ EscapedPiece(c) \in Text /\ Len(EscapedPiece(c)) \in {1, 2}
           /\ Len(EscapedPiece(c)) = 1 => EscapedPiece(c)[1] = c /\ c # "\\"
           /\ Len(EscapedPiece(c)) = 2 => EscapedPiece(c)[1] = "\\" /\ OfEscaped(EscapedPiece(c)[2]) = <<c>>
  <1>1. PICK b : b = "\\" OBVIOUS
  <1>2. PICK l : l = "n" OBVIOUS
  <1>3. b \in Characters /\ l \in Characters /\ Newline # b /\ Newline # l /\ b # l
    <2>1. "n" # "\\" OBVIOUS
    <2> QED BY <1>1, <1>2, <2>1, CharactersAre
  <1>4. EscapedPiece(c) = IF c = Newline THEN <<b, l>> ELSE IF c = b THEN <<b, b>> ELSE <<c>>
    <2>1. CASE c = Newline
      <3>1. c # "\\" BY <1>1, <1>3, <2>1
      <3> QED BY <1>1, <1>2, <2>1, <3>1 DEF EscapedPiece
    <2>2. CASE c # Newline /\ c = b BY <1>1, <2>2 DEF EscapedPiece
    <2>3. CASE c # Newline /\ c # b BY <1>1, <2>3 DEF EscapedPiece
    <2> QED BY <2>1, <2>2, <2>3
  <1>5. OfEscaped(l) = <<Newline>> /\ OfEscaped(b) = <<b>>
    <2>1. OfEscaped(l) = <<Newline>> BY <1>1, <1>2, <1>3 DEF OfEscaped
    <2>2. OfEscaped(b) = <<b>> BY <1>1, <1>2, <1>3 DEF OfEscaped
    <2> QED BY <2>1, <2>2
  <1>6. CASE c = Newline
    <2>1. EscapedPiece(c) = <<b, l>> BY <1>4, <1>6
    <2>2. <<b, l>> \in Seq(Characters) /\ Len(<<b, l>>) = 2 /\ <<b, l>>[1] = b /\ <<b, l>>[2] = l BY <1>3
    <2> QED BY <1>1, <1>5, <1>6, <2>1, <2>2 DEF Text
  <1>7. CASE c # Newline /\ c = b
    <2>1. EscapedPiece(c) = <<b, b>> BY <1>4, <1>7
    <2>2. <<b, b>> \in Seq(Characters) /\ Len(<<b, b>>) = 2 /\ <<b, b>>[1] = b /\ <<b, b>>[2] = b BY <1>3
    <2>3. PICK q : q = EscapedPiece(c) OBVIOUS
    <2>4. q \in Text /\ Len(q) = 2 /\ q[1] = b /\ q[2] = b BY <2>1, <2>2, <2>3 DEF Text
    <2>5. OfEscaped(q[2]) = <<c>> BY <1>5, <1>7, <2>4
    <2> QED BY <1>1, <2>3, <2>4, <2>5
  <1>8. CASE c # Newline /\ c # b
    <2>1. EscapedPiece(c) = <<c>> BY <1>4, <1>8
    <2>2. <<c>> \in Seq(Characters) /\ Len(<<c>>) = 1 /\ <<c>>[1] = c OBVIOUS
    <2> QED BY <1>1, <1>8, <2>1, <2>2 DEF Text
  <1> QED BY <1>6, <1>7, <1>8

\* The pieces that escaping makes of a text, and that they are put together.
EscapedIn(P, s) ==
    /\ P \in Seq(Text) /\ Len(P) = Len(s) /\ \A i \in 1..Len(s) : P[i] = EscapedPiece(s[i])
    /\ EscapeSearchText(s) = FlattenSeq(P)

LEMMA EscapedInIs ==
    ASSUME NEW s \in Text, Len(s) # 1
    PROVE  \E P : EscapedIn(P, s)
  <1>0. PICK n \in Nat : n = Len(s) /\ \A i \in 1..n : s[i] \in Characters BY LenProperties DEF Text
  <1>1. DOMAIN s = 1..n BY <1>0, LenProperties DEF Text
  <1>2. PICK P : P = [i \in 1..n |-> EscapedPiece(s[i])] OBVIOUS
  <1>3. \A i \in 1..n : EscapedPiece(s[i]) \in Text BY <1>0, EscapedPieceIs
  <1>4. P \in Seq(Text) /\ Len(P) = n /\ \A i \in 1..n : P[i] = EscapedPiece(s[i]) BY <1>2, <1>3
  <1>5. EscapeSearchText(s) = FlattenSeq(P)
    <2>1. P = [i \in DOMAIN s |-> EscapedPiece(s[i])] BY <1>1, <1>2
    <2> QED BY <2>1, Zenon DEF EscapeSearchText, EscapedPiece
  <1> QED BY <1>0, <1>4, <1>5 DEF EscapedIn

LEMMA EscapedIsText ==
    ASSUME NEW s \in Text
    PROVE  EscapeSearchText(s) \in Text
  <1>1. CASE Len(s) = 1 BY <1>1 DEF EscapeSearchText
  <1>2. CASE Len(s) # 1
    <2>1. PICK P : EscapedIn(P, s) BY <1>2, EscapedInIs
    <2>2. PICK n : n = Len(P) /\ P \in Seq(Seq(Characters)) BY <2>1 DEF EscapedIn, Text
    <2>3. PICK G : Joined(G, P, n, Characters) /\ FlattenSeq(P) = G[n] BY <2>2, FlattenIs
    <2>4. n \in 0..n BY <2>2, LenProperties
    <2>5. G[n] \in Seq(Characters) BY <2>3, <2>4 DEF Joined
    <2> QED BY <2>1, <2>3, <2>5 DEF EscapedIn, Text
  <1> QED BY <1>1, <1>2

LEMMA UnescapedIsText ==
    ASSUME NEW e \in Text
    PROVE  UnescapeSearchText(e) \in Text
  <1>1. PICK f : UnescapedFrom(f, e) BY UnescapedFromIs
  <1>2. Len(e) \in Nat BY LineStartsAre
  <1>3. 1 \in 1..(Len(e) + 2) BY <1>2
  <1> QED BY <1>1, <1>3 DEF UnescapedFrom

\* What is searched for is the same again after it is escaped and unescaped.
LEMMA EscapedComesBack ==
    ASSUME NEW s \in Text
    PROVE  UnescapeSearchText(EscapeSearchText(s)) = s
  <1>0. PICK n \in Nat : n = Len(s) /\ \A i \in 1..n : s[i] \in Characters BY LenProperties DEF Text
  <1>1. PICK e : e = EscapeSearchText(s) OBVIOUS
  <1>2. e \in Text BY <1>1, EscapedIsText
  <1>3. PICK f : UnescapedFrom(f, e) BY <1>2, UnescapedFromIs
  <1>4. PICK L \in Nat : L = Len(e) BY <1>2, LineStartsAre
  <1>5. /\ UnescapeSearchText(e) = f[1]
        /\ \A p \in 1..(L + 2) : f[p] \in Text /\ (p > L => f[p] = <<>>)
        /\ \A p \in 1..L : /\ e[p] # "\\" => f[p] = <<e[p]>> \o f[p + 1]
                           /\ e[p] = "\\" /\ p = L => f[p] = <<"\\">>
                           /\ e[p] = "\\" /\ p # L => f[p] = OfEscaped(e[p + 1]) \o f[p + 2]
    BY <1>3, <1>4 DEF UnescapedFrom
  <1>6. CASE n = 1
    <2>1. e = s /\ L = 1 BY <1>0, <1>1, <1>4, <1>6 DEF EscapeSearchText
    <2>2. PICK c : c = s[1] /\ c \in Characters BY <1>0, <1>6
    <2>3. s = <<c>>
      <3>1. s \in Seq(Characters) /\ <<c>> \in Seq(Characters) /\ Len(<<c>>) = 1 /\ Len(s) = 1
        BY <1>0, <1>6, <2>2 DEF Text
      <3>2. \A i \in 1..1 : s[i] = <<c>>[i] BY <2>2
      <3> QED BY <3>1, <3>2, SeqEqual
    <2>4. f[2] = <<>> /\ 1 \in 1..L BY <1>5, <2>1
    <2>5. f[1] = <<c>>
      <3>1. CASE c = "\\" BY <1>5, <2>1, <2>2, <2>4, <3>1
      <3>2. CASE c # "\\"
        <4>1. f[1] = <<c>> \o f[1 + 1] BY <1>5, <2>1, <2>2, <2>4, <3>2
        <4>2. f[1 + 1] = <<>> BY <2>4
        <4> QED BY <4>1, <4>2
      <3> QED BY <3>1, <3>2
    <2> QED BY <1>1, <1>5, <2>3, <2>5
  <1>7. CASE n # 1
    <2>1. PICK P : EscapedIn(P, s) BY <1>0, <1>7, EscapedInIs
    <2>2. /\ n = Len(P) /\ P \in Seq(Seq(Characters)) /\ e = FlattenSeq(P)
          /\ \A i \in 1..n : P[i] = EscapedPiece(s[i])
      BY <1>0, <1>1, <2>1 DEF EscapedIn, Text
    <2>3. PICK G : Joined(G, P, n, Characters) /\ FlattenSeq(P) = G[n] BY <2>2, FlattenIs
    <2>4. e = G[n] BY <2>2, <2>3
    <2>5. PICK at : at = [i \in 0..n |-> Len(G[i])] OBVIOUS
    <2>6. at[0] = 0 /\ at[n] = L
      <3>1. G[0] = <<>> BY <2>3 DEF Joined
      <3> QED BY <1>0, <1>4, <2>4, <2>5, <3>1
    <2>7a. \A i \in 1..n : /\ Len(G[i]) = Len(G[i - 1]) + Len(P[i]) /\ Len(G[i]) <= Len(G[n])
                           /\ Len(G[i - 1]) \in Nat /\ Len(G[i]) \in Nat
                           /\ \A k \in 1..Len(P[i]) : G[n][Len(G[i - 1]) + k] = P[i][k]
      <3>1. LiesIn(G, P, n) BY <2>2, <2>3, JoinedKeeps
      <3> QED BY <3>1, Zenon DEF LiesIn
    <2>7. \A i \in 1..n : /\ at[i] = at[i - 1] + Len(P[i]) /\ at[i] <= L /\ at[i - 1] \in Nat /\ at[i] \in Nat
                          /\ \A k \in 1..Len(P[i]) : e[at[i - 1] + k] = P[i][k]
      <3>1. ASSUME NEW i \in 1..n
            PROVE  /\ at[i] = at[i - 1] + Len(P[i]) /\ at[i] <= L /\ at[i - 1] \in Nat /\ at[i] \in Nat
                   /\ \A k \in 1..Len(P[i]) : e[at[i - 1] + k] = P[i][k]
        <4>1. i \in 0..n /\ i - 1 \in 0..n BY <1>0
        <4>2. at[i] = Len(G[i]) /\ at[i - 1] = Len(G[i - 1]) BY <2>5, <4>1
        <4>3. /\ Len(G[i]) = Len(G[i - 1]) + Len(P[i]) /\ Len(G[i]) <= Len(G[n])
              /\ Len(G[i - 1]) \in Nat /\ Len(G[i]) \in Nat
              /\ \A k \in 1..Len(P[i]) : G[n][Len(G[i - 1]) + k] = P[i][k]
          BY <2>7a, Zenon
        <4> QED BY <1>4, <2>4, <4>2, <4>3, Zenon
      <3> QED BY <3>1
    <2>8. ASSUME NEW i \in 1..n PROVE f[at[i - 1] + 1] = <<s[i]>> \o f[at[i] + 1]
      <3>1. PICK c, piece : c = s[i] /\ piece = P[i] OBVIOUS
      <3>2. c \in Characters /\ piece = EscapedPiece(c) BY <1>0, <2>2, <3>1
      <3>3. PICK a \in Nat, z \in Nat : /\ a = at[i - 1] /\ z = at[i] /\ z = a + Len(piece) /\ z <= L
                                        /\ \A k \in 1..Len(piece) : e[a + k] = piece[k]
        BY <2>7, <3>1
      <3>4. /\ Len(piece) \in {1, 2} /\ (Len(piece) = 1 => piece[1] = c /\ c # "\\")
            /\ (Len(piece) = 2 => piece[1] = "\\" /\ OfEscaped(piece[2]) = <<c>>)
        BY <3>2, EscapedPieceIs
      <3>5. CASE Len(piece) = 1
        <4>1. z = a + 1 /\ a + 1 \in 1..L /\ 1 \in 1..Len(piece) BY <3>3, <3>5
        <4>2. e[a + 1] = c /\ c # "\\" BY <3>3, <3>4, <3>5, <4>1
        <4>3. f[a + 1] = <<c>> \o f[(a + 1) + 1] BY <1>5, <4>1, <4>2
        <4> QED BY <3>1, <3>3, <4>1, <4>3
      <3>6. CASE Len(piece) = 2
        <4>1. z = a + 2 /\ a + 1 \in 1..L /\ a + 1 # L /\ 1 \in 1..Len(piece) /\ 2 \in 1..Len(piece)
              /\ (a + 1) + 1 = a + 2 /\ (a + 1) + 2 = z + 1
          BY <3>3, <3>6
        <4>2. e[a + 1] = "\\" /\ e[a + 2] = piece[2] /\ OfEscaped(piece[2]) = <<c>> BY <3>3, <3>4, <3>6, <4>1
        <4>3. f[a + 1] = OfEscaped(e[(a + 1) + 1]) \o f[(a + 1) + 2] BY <1>5, <4>1, <4>2
        <4>4. f[a + 1] = <<c>> \o f[z + 1] BY <4>1, <4>2, <4>3
        <4> QED BY <3>1, <3>3, <4>4
      <3> QED BY <3>4, <3>5, <3>6
    <2> DEFINE T == {j \in Nat : j <= n => f[at[n - j] + 1] = SubSeq(s, n - j + 1, n)}
    <2>9. 0 \in T
      <3>1. L + 1 \in 1..(L + 2) /\ L + 1 > L BY <1>4
      <3>2. f[L + 1] = <<>> BY <1>5, <3>1
      <3>3. n - 0 = n BY <1>0
      <3>4. SubSeq(s, n + 1, n) = <<>>
        <4>1. SubSeq(s, n + 1, n) \in Seq(Characters) /\ Len(SubSeq(s, n + 1, n)) = n - n
          BY <1>0, SliceIs DEF Text
        <4>2. n - n = 0 BY <1>0
        <4> QED BY <4>1, <4>2, EmptySeq
      <3> QED BY <2>6, <3>2, <3>3, <3>4
    <2>10. ASSUME NEW j \in Nat, j \in T PROVE j + 1 \in T
      <3> SUFFICES ASSUME j + 1 <= n PROVE f[at[n - (j + 1)] + 1] = SubSeq(s, n - (j + 1) + 1, n) OBVIOUS
      <3>1. PICK i : i = n - j OBVIOUS
      <3>2. i \in 1..n /\ j <= n /\ n - (j + 1) = i - 1 /\ (i - 1) + 1 = i /\ n - (j + 1) + 1 = i BY <1>0, <3>1
      <3>3. f[at[i] + 1] = SubSeq(s, i + 1, n) BY <2>10, <3>1, <3>2
      <3> HIDE DEF T
      <3>4. f[at[i - 1] + 1] = <<s[i]>> \o f[at[i] + 1] BY <2>8, <3>2
      <3>5. SubSeq(s, i, n) = <<s[i]>> \o SubSeq(s, i + 1, n)
        <4>1. n \in i..n BY <1>0, <3>2
        <4> QED BY <1>0, <3>2, <4>1, SubSeqRecursiveFirst DEF Text
      <3> QED BY <3>2, <3>3, <3>4, <3>5
    <2>11. n \in T
      <3> HIDE DEF T
      <3> QED BY <1>0, <2>9, <2>10, EveryNatural
    <2>12. n - n = 0 /\ n <= n /\ 0 + 1 = 1 BY <1>0
    <2>13. f[at[0] + 1] = SubSeq(s, 1, n) BY <2>11, <2>12
    <2>14. SubSeq(s, 1, n) = s BY <1>0, SubSeqFull DEF Text
    <2> QED BY <1>1, <1>5, <2>6, <2>12, <2>13, <2>14
  <1> QED BY <1>6, <1>7

\* lapiz_document_set_search_text.
LEMMA SetSearchTextSound ==
    ASSUME NEW d, Sound(d), NEW text \in Text \union {NoText}, NEW word \in BOOLEAN
    PROVE  /\ Sound(SetSearchText(d, text, word)) /\ SetSearchText(d, text, word).text = d.text
           /\ text # NoText => SetSearchText(d, text, word).search = UnescapeSearchText(text)
  <1>1. PICK s : s = IF text = NoText THEN d.search ELSE UnescapeSearchText(text) OBVIOUS
  <1>2. s \in Text \union {NoText}
    <2>1. text # NoText => UnescapeSearchText(text) \in Text BY UnescapedIsText
    <2> QED BY <1>1, <2>1, SoundIs
  <1>3. PICK set : set = [d EXCEPT !.search = s, !.word = word] OBVIOUS
  <1>4. SetSearchText(d, text, word) = IF text # NoText \/ d.word # word THEN Everything(set) ELSE set
    BY <1>1, <1>3, Zenon DEF SetSearchText
  <1>5. d \in Documents BY DEF Sound
  <1>6. set \in Documents BY <1>2, <1>3, <1>5 DEF Documents
  <1>7. /\ set.text = d.text /\ set.ins = d.ins /\ set.bound = d.bound /\ set.first = d.first
        /\ set.found = d.found /\ set.region = d.region /\ set.search = s
    BY <1>3, <1>5 DEF Documents
  <1>8. Sound(set) BY <1>6, <1>7 DEF Sound, InItsText
  <1>9. Sound(Everything(set)) /\ SameText(Everything(set), set) BY <1>8, EverythingSound
  <1> QED BY <1>1, <1>4, <1>7, <1>8, <1>9 DEF SameText

Select(d, p, q) == [d EXCEPT !.ins = p, !.bound = q]

LEMMA SelectSound ==
    ASSUME NEW d, Sound(d), NEW p \in 0..Len(d.text), NEW q \in 0..Len(d.text)
    PROVE  Sound(Select(d, p, q)) /\ SameText(Select(d, p, q), d)
  <1>0. PICK e : e = Select(d, p, q) OBVIOUS
  <1>1. e = [d EXCEPT !.ins = p, !.bound = q] BY <1>0 DEF Select
  <1>2. d \in Documents /\ p \in Nat /\ q \in Nat /\ p <= Len(d.text) /\ q <= Len(d.text)
    <2>1. Len(d.text) \in Nat BY SoundIs
    <2> QED BY <2>1 DEF Sound
  <1>3. e \in Documents BY <1>1, <1>2 DEF Documents
  <1>4. /\ e.found = d.found /\ e.text = d.text /\ e.search = d.search /\ e.ins = p /\ e.bound = q
        /\ e.first = d.first /\ e.region = d.region
    BY <1>1, <1>2 DEF Documents
  <1> QED BY <1>0, <1>2, <1>3, <1>4 DEF Sound, InItsText, SameText

LEMMA PlaceCursorSound ==
    ASSUME NEW d, Sound(d), NEW p \in 0..Len(d.text)
    PROVE  Sound(PlaceCursor(d, p)) /\ SameText(PlaceCursor(d, p), d)
  <1>1. PlaceCursor(d, p) = Select(d, p, p) BY Zenon DEF PlaceCursor, Select
  <1> QED BY <1>1, SelectSound

LEMMA ScrollToSound ==
    ASSUME NEW d, Sound(d), NEW p \in 0..Len(d.text)
    PROVE  Sound(ScrollTo(d, p)) /\ SameText(ScrollTo(d, p), d)
  <1>1. PICK f : f = LineStart(d.text, p) OBVIOUS
  <1>2. PICK b : b = (d.redraw \/ f # LineShown(d)) OBVIOUS
  <1>3. PICK e : e = ScrollTo(d, p) OBVIOUS
  <1>4. d \in Documents /\ d.text \in Text /\ Len(d.text) \in Nat /\ d.redraw \in BOOLEAN BY SoundIs DEF Sound
  <1>5. f \in Nat /\ f <= Len(d.text)
    <2>1. f \in 0..p BY <1>1, <1>4, LineStartIs
    <2> QED BY <1>4, <2>1
  <1>6. b \in BOOLEAN BY <1>2
  <1>7. e = [d EXCEPT !.first = f, !.redraw = b] BY <1>1, <1>2, <1>3, Zenon DEF ScrollTo
  <1>8. e \in Documents BY <1>4, <1>5, <1>6, <1>7 DEF Documents
  <1>9. /\ e.found = d.found /\ e.text = d.text /\ e.search = d.search /\ e.ins = d.ins /\ e.bound = d.bound
        /\ e.first = f /\ e.region = d.region
    BY <1>4, <1>7 DEF Documents
  <1> QED BY <1>3, <1>5, <1>8, <1>9 DEF Sound, InItsText, SameText

LEMMA SelectionIs ==
    ASSUME NEW d, Sound(d)
    PROVE  /\ SelStart(d) \in 0..Len(d.text) /\ SelEnd(d) \in SelStart(d)..Len(d.text)
           /\ SelEnd(d) \in 0..Len(d.text)
           /\ Selected(d) \in Text /\ (Selected(d) # <<>> => SelStart(d) < SelEnd(d))
  <1>1. PICK n \in Nat, i \in Nat, b \in Nat : n = Len(d.text) /\ i = d.ins /\ b = d.bound /\ i <= n /\ b <= n
    BY SoundIs
  <1>2. PICK s \in Nat, e \in Nat : /\ s = SelStart(d) /\ s <= i /\ s <= b /\ (s = i \/ s = b)
                                    /\ e = SelEnd(d) /\ e >= i /\ e >= b /\ (e = i \/ e = b)
    BY <1>1, LeastOfTwo, GreatestOfTwo DEF SelStart, SelEnd
  <1>3. s <= e /\ s <= n /\ e <= n BY <1>1, <1>2
  <1>4. PICK t : t = SubSeq(d.text, s + 1, e) OBVIOUS
  <1>5. t \in Text /\ Len(t) = e - s BY <1>1, <1>3, <1>4, SoundIs, SliceIs DEF Text
  <1>6. t # <<>> => s < e
    <2>1. ASSUME s = e PROVE t = <<>>
      <3>1. Len(t) = 0 BY <1>2, <1>5, <2>1
      <3> QED BY <1>5, <3>1, EmptySeq DEF Text
    <2> QED BY <1>3, <2>1
  <1>7. Selected(d) = t BY <1>2, <1>4 DEF Selected
  <1> QED BY <1>1, <1>2, <1>3, <1>5, <1>6, <1>7

\* The set of what a search finds, in the text of d.
Places(d) == {m \in [from : Nat, to : Nat] : m.from <= Len(d.text) /\ m.to <= Len(d.text)}

LEMMA FoundArePlaces ==
    ASSUME NEW d, Sound(d), d.search # NoText
    PROVE  Found(d.text, d.search) \subseteq Places(d)
  <1>1. PICK n \in Nat, l \in Nat : n = Len(d.text) /\ l = Len(d.search)
    <2>1. Len(d.text) \in Nat BY SoundIs
    <2>2. d.search \in Text BY SoundIs
    <2>3. Len(d.search) \in Nat BY <2>2, LineStartsAre
    <2> QED BY <2>1, <2>3
  <1>2. ASSUME NEW m \in Found(d.text, d.search) PROVE m \in Places(d)
    <2>1. /\ m \in [from : Nat, to : Nat] /\ m.to = m.from + l /\ m.to <= n /\ m.from \in Nat /\ m.to \in Nat
      BY <1>1 DEF Found
    <2>2. m.from <= n BY <2>1
    <2> QED BY <1>1, <2>1, <2>2 DEF Places
  <1> QED BY <1>2

LEMMA SearchesAre ==
    ASSUME NEW d, Sound(d), NEW from \in 0..Len(d.text)
    PROVE  SearchForward(d, from) \in SUBSET Places(d) /\ SearchBackward(d, from) \in SUBSET Places(d)
  <1>1. d.text \in Text /\ Len(d.text) \in Nat /\ d.search \in Text \union {NoText} BY SoundIs
  <1>2. CASE d.search \in {NoText, <<>>} BY <1>2 DEF SearchForward, SearchBackward
  <1>3. CASE d.search \notin {NoText, <<>>}
    <2>1. d.search \in Text /\ d.search # <<>> /\ d.search # NoText BY <1>1, <1>3
    <2>2. Len(d.text) \in 0..Len(d.text) /\ from \in 0..(Len(d.text) + 1) BY <1>1
    <2>3. PICK f, b : /\ f = ForwardMatches(d.text, d.search, from, Len(d.text))
                      /\ b = BackwardMatches(d.text, d.search, from)
      OBVIOUS
    <2>4. f \in SUBSET Found(d.text, d.search) /\ b \in SUBSET Found(d.text, d.search)
      BY <1>1, <2>1, <2>2, <2>3, ForwardMatchesAre, BackwardMatchesAre
    <2>5. f \subseteq Places(d) /\ b \subseteq Places(d) BY <2>1, <2>4, FoundArePlaces
    <2>6. SearchForward(d, from) \subseteq f BY <1>3, <2>3 DEF SearchForward, OfWords
    <2>7. SearchBackward(d, from) \subseteq b BY <1>3, <2>3 DEF SearchBackward, OfWords
    <2> QED BY <2>5, <2>6, <2>7
  <1> QED BY <1>2, <1>3

LEMMA SelectMatchSound ==
    ASSUME NEW d, Sound(d), NEW m \in Places(d)
    PROVE  Sound(SelectMatch(d, m)) /\ SameText(SelectMatch(d, m), d)
  <1>1. Len(d.text) \in Nat BY SoundIs
  <1>2. m.from \in 0..Len(d.text) /\ m.to \in 0..Len(d.text) BY <1>1 DEF Places
  <1>3. PICK e : e = Select(d, m.from, m.to) OBVIOUS
  <1>4. Sound(e) /\ SameText(e, d) BY <1>2, <1>3, SelectSound
  <1>5. m.from \in 0..Len(e.text) BY <1>2, <1>4 DEF SameText
  <1>6. Sound(ScrollTo(e, m.from)) /\ SameText(ScrollTo(e, m.from), e) BY <1>4, <1>5, ScrollToSound
  <1>7. SelectMatch(d, m) = ScrollTo(e, m.from) BY <1>3, Zenon DEF SelectMatch, Select
  <1> QED BY <1>4, <1>6, <1>7 DEF SameText

LEMMA SearchFromSelectionAre ==
    ASSUME NEW d, Sound(d), NEW wrap, NEW backwards
    PROVE  SearchFromSelection(d, wrap, backwards) \in SUBSET Places(d)
  <1>1. SelStart(d) \in 0..Len(d.text) /\ SelEnd(d) \in 0..Len(d.text) BY SelectionIs
  <1>2. 0 \in 0..Len(d.text) /\ Len(d.text) \in 0..Len(d.text)
    <2>1. Len(d.text) \in Nat BY SoundIs
    <2> QED BY <2>1
  <1>3. /\ SearchForward(d, SelEnd(d)) \in SUBSET Places(d) /\ SearchBackward(d, SelStart(d)) \in SUBSET Places(d)
        /\ SearchForward(d, 0) \in SUBSET Places(d) /\ SearchBackward(d, Len(d.text)) \in SUBSET Places(d)
    BY <1>1, <1>2, SearchesAre
  <1> QED BY <1>3, Zenon DEF SearchFromSelection

\* The matches that are gone to are in the text.
LEMMA OneFound ==
    ASSUME NEW d, NEW found \in SUBSET Places(d), found # {}
    PROVE  (CHOOSE m \in found : TRUE) \in Places(d)
  OBVIOUS

LEMMA RunSearchSound ==
    ASSUME NEW d, Sound(d), NEW wrap, NEW backwards
    PROVE  Sound(RunSearch(d, wrap, backwards)) /\ SameText(RunSearch(d, wrap, backwards), d)
  <1> DEFINE found == SearchFromSelection(d, wrap, backwards)
  <1>2. found \in SUBSET Places(d) BY SearchFromSelectionAre
  <1>3. PICK p : p = IF backwards THEN SelStart(d) ELSE SelEnd(d) OBVIOUS
  <1>4. p \in 0..Len(d.text) BY <1>3, SelectionIs
  <1>5. RunSearch(d, wrap, backwards) = IF found = {} THEN PlaceCursor(d, p)
                                        ELSE SelectMatch(d, CHOOSE m \in found : TRUE)
    <2>1. RunSearch(d, wrap, backwards) = IF found = {} THEN PlaceCursor(d, IF backwards THEN SelStart(d) ELSE SelEnd(d))
                                          ELSE SelectMatch(d, CHOOSE m \in found : TRUE)
      BY DEF RunSearch
    <2> HIDE DEF found
    <2> QED BY <1>3, <2>1
  <1> HIDE DEF found
  <1>6. CASE found = {} BY <1>4, <1>5, <1>6, PlaceCursorSound
  <1>7. CASE found # {}
    <2>1. PICK m : m = CHOOSE x \in found : TRUE OBVIOUS
    <2>2. m \in Places(d) BY <1>2, <1>7, <2>1, OneFound
    <2>3. RunSearch(d, wrap, backwards) = SelectMatch(d, m) BY <1>5, <1>7, <2>1, Zenon
    <2> QED BY <2>2, <2>3, SelectMatchSound
  <1> QED BY <1>6, <1>7

LEMMA DoFindSound ==
    ASSUME NEW d, Sound(d), NEW find \in Text, NEW o, o.word \in BOOLEAN
    PROVE  Sound(DoFind(d, find, o)) /\ DoFind(d, find, o).text = d.text
  <1>1. PICK asked : asked = EscapeSearchText(find) OBVIOUS
  <1>2. asked \in Text \union {NoText} BY <1>1, EscapedIsText
  <1>3. PICK e : /\ DoFind(d, find, o) = RunSearch(e, o.wrap, o.backwards)
                 /\ e = d \/ e = SetSearchText(d, asked, o.word)
    BY <1>1, Zenon DEF DoFind
  <1>4. Sound(e) /\ e.text = d.text BY <1>2, <1>3, SetSearchTextSound
  <1> QED BY <1>3, <1>4, RunSearchSound DEF SameText

LEMMA ReplacedSound ==
    ASSUME NEW d, Sound(d), NEW find \in Text, NEW replace \in Text, NEW o, o.word \in BOOLEAN
    PROVE  Sound(Replaced(d, find, replace, o))
  <1>1. PICK e : /\ Replaced(d, find, replace, o) = DoFind(e, find, o)
                 /\ \/ e = d
                    \/ TakenForMatch(d, find, o.matchCase) /\ e = ReplaceSelectedText(d, replace)
    BY Zenon DEF Replaced
  <1>2. CASE TakenForMatch(d, find, o.matchCase) /\ e = ReplaceSelectedText(d, replace)
    <2>1. PICK s, t : s = SelStart(d) /\ t = SelEnd(d) OBVIOUS
    <2>2. s \in 0..Len(d.text) /\ t \in s..Len(d.text) /\ s < t
      <3>1. Selected(d) # <<>> BY <1>2 DEF TakenForMatch
      <3> QED BY <2>1, <3>1, SelectionIs
    <2>3. PICK n \in Nat : n = Len(d.text) BY SoundIs
    <2>4. PICK g : g = DeleteRange(d, s, t) OBVIOUS
    <2>5. Sound(g) /\ Len(g.text) = n - (t - s) BY <2>2, <2>3, <2>4, DeleteRangeSound
    <2>6. s \in 0..Len(g.text) BY <2>2, <2>3, <2>5
    <2>7. e = InsertText(g, s, replace) BY <1>2, <2>1, <2>4 DEF ReplaceSelectedText
    <2>8. Sound(e) BY <2>5, <2>6, <2>7, InsertTextSound
    <2> QED BY <1>1, <2>8, DoFindSound
  <1>3. CASE e = d BY <1>1, <1>3, DoFindSound
  <1> QED BY <1>1, <1>2, <1>3

\* run_search of the view.
LEMMA RunSearchTypingSound ==
    ASSUME NEW d, Sound(d), NEW text, startIter' \in 0..Len(d.text)
    PROVE  Sound(RunSearchTyping(d, text)) /\ SameText(RunSearchTyping(d, text), d)
  <1> DEFINE here  == SearchForward(d, startIter')
             found == IF text = <<>> THEN {} ELSE IF here = {} THEN SearchForward(d, 0) ELSE here
  <1>3. found \in SUBSET Places(d)
    <2>1. 0 \in 0..Len(d.text)
      <3>1. Len(d.text) \in Nat BY SoundIs
      <3> QED BY <3>1
    <2>2. here \in SUBSET Places(d) /\ SearchForward(d, 0) \in SUBSET Places(d) BY <2>1, SearchesAre
    <2> HIDE DEF here
    <2> QED BY <2>2
  <1>4. PICK shown : shown = IF found = {} THEN PlaceCursor(d, startIter') ELSE d OBVIOUS
  <1>5. Sound(shown) /\ SameText(shown, d)
    <2> HIDE DEF found
    <2> QED BY <1>4, PlaceCursorSound DEF SameText
  <1>6. RunSearchTyping(d, text) = IF found # {} THEN SelectMatch(d, CHOOSE m \in found : TRUE)
                                   ELSE IF text = <<>> THEN ScrollTo(shown, shown.ins) ELSE shown
    <2> DEFINE sh == IF found = {} THEN PlaceCursor(d, startIter') ELSE d
    <2>1. RunSearchTyping(d, text) = IF found # {} THEN SelectMatch(d, CHOOSE m \in found : TRUE)
                                     ELSE IF text = <<>> THEN ScrollTo(sh, sh.ins) ELSE sh
      BY DEF RunSearchTyping
    <2> HIDE DEF found
    <2> QED BY <1>4, <2>1
  <1> HIDE DEF found
  <1>7. CASE found # {}
    <2>1. PICK m : m = CHOOSE x \in found : TRUE OBVIOUS
    <2>2. m \in Places(d) BY <1>3, <1>7, <2>1, OneFound
    <2>3. RunSearchTyping(d, text) = SelectMatch(d, m) BY <1>6, <1>7, <2>1, Zenon
    <2> QED BY <2>2, <2>3, SelectMatchSound
  <1>8. CASE found = {}
    <2>1. shown.ins \in 0..Len(shown.text) BY <1>5, SoundIs
    <2>2. Sound(ScrollTo(shown, shown.ins)) /\ SameText(ScrollTo(shown, shown.ins), shown)
      BY <1>5, <2>1, ScrollToSound
    <2> QED BY <1>5, <1>6, <1>8, <2>2 DEF SameText
  <1> QED BY <1>7, <1>8

\* The document is sound, and what the search window keeps fits it.
SearchIInv ==
    /\ Sound(doc)
    /\ searching \in BOOLEAN /\ oldWord \in BOOLEAN /\ viewWord \in BOOLEAN
    /\ entry \in Text /\ startIter \in Nat
    /\ oldText \in Text \union {NoText} /\ before \in Text \union {NoText}
    /\ searching => startIter <= Len(doc.text)
    /\ searching /\ before # NoText => oldText = EscapeSearchText(before)

LEMMA InputsAre ==
    /\ \A s \in Typed \union Needles \union Entered \union Replacements : s \in Text
    /\ \A k \in Needles \union Entered : k # <<>>
    /\ \A o \in Options : o.word \in BOOLEAN
  <1>1. \A s \in Typed \union Needles \union Entered \union Replacements : s \in Text
    BY SearchAssumption DEF Text
  <1>2. \A k \in Needles \union Entered : k # <<>>
    <2>1. <<>> \notin Typed \union Needles \union Entered BY SearchAssumption, Zenon
    <2> QED BY <2>1
  <1>3. \A o \in Options : o.word \in BOOLEAN
    <2>1. Options \subseteq [word : BOOLEAN, matchCase : BOOLEAN, wrap : BOOLEAN, backwards : BOOLEAN]
      BY SearchAssumption, Zenon
    <2> QED BY <2>1
  <1> QED BY <1>1, <1>2, <1>3

\* The text of a view that is not edited, with the window's own state as it was.
LEMMA OnlyTheDocument ==
    ASSUME SearchIInv, UNCHANGED interactive, Sound(doc'), doc'.text = doc.text \/ ~searching
    PROVE  SearchIInv'
  <1>1. /\ searching' = searching /\ oldWord' = oldWord /\ viewWord' = viewWord /\ entry' = entry
        /\ startIter' = startIter /\ oldText' = oldText /\ before' = before
    BY DEF interactive
  <1>2. (Sound(doc))' <=> Sound(doc') BY DEF Sound, InItsText
  <1>3. searching' => startIter' <= Len(doc'.text) BY <1>1 DEF SearchIInv
  <1>4. searching' /\ before' # NoText => oldText' = EscapeSearchText(before')
    BY <1>1, Zenon DEF SearchIInv
  <1>5. /\ searching' \in BOOLEAN /\ oldWord' \in BOOLEAN /\ viewWord' \in BOOLEAN /\ entry' \in Text
        /\ startIter' \in Nat /\ oldText' \in Text \union {NoText} /\ before' \in Text \union {NoText}
    BY <1>1 DEF SearchIInv
  <1> QED BY <1>3, <1>4, <1>5 DEF SearchIInv

LEMMA NewDocumentSound ==
    Sound(NewDocument(<<>>)) /\ Len(NewDocument(<<>>).text) = 0
  <1>1. PICK d : d = [text |-> <<>>, ins |-> 0, bound |-> 0, first |-> 0, search |-> NoText, word |-> FALSE,
                      region |-> <<>>, found |-> {}, redraw |-> TRUE]
    OBVIOUS
  <1>2. NewDocument(<<>>) = d BY <1>1 DEF NewDocument, InsertText
  <1>3. <<>> \in Text /\ <<>> \in Regions /\ Len(<<>>) = 0 BY DEF Text, Regions
  <1>4. d \in Documents BY <1>1, <1>3 DEF Documents
  <1>5. /\ d.text = <<>> /\ d.ins = 0 /\ d.bound = 0 /\ d.first = 0 /\ d.found = {} /\ d.region = <<>>
    BY <1>1
  <1>6. InItsText(d) BY <1>3, <1>5 DEF InItsText
  <1>7. InOrder(<<>>, 0) BY DEF InOrder
  <1> QED BY <1>2, <1>3, <1>4, <1>5, <1>6, <1>7 DEF Sound

LEMMA SearchInitial ==
    ASSUME InitSearch
    PROVE  SearchIInv
  <1>1. /\ doc = NewDocument(<<>>) /\ searching = FALSE /\ entry = <<>> /\ startIter = 0
        /\ oldText = NoText /\ oldWord = FALSE /\ viewWord = FALSE /\ before = NoText
    BY DEF InitSearch
  <1>2. <<>> \in Text BY CharactersAre
  <1> QED BY <1>1, <1>2, NewDocumentSound DEF SearchIInv

\* search_init, in a window whose search began in the text.
LEMMA SearchInitKeeps ==
    ASSUME SearchIInv, NEW text, text \in Text, SearchInit(text), viewWord' \in BOOLEAN,
           startIter' \in 0..Len(doc.text)
    PROVE  Sound(doc') /\ doc'.text = doc.text /\ entry' = text
  <1>1. PICK e : /\ doc' = RunSearchTyping(e, text) /\ (e = doc \/ e = SetSearchText(doc, text, viewWord'))
    BY Zenon DEF SearchInit
  <1>2. Sound(doc) BY DEF SearchIInv
  <1>3. Sound(e) /\ e.text = doc.text BY <1>1, <1>2, SetSearchTextSound
  <1>4. startIter' \in 0..Len(e.text) BY <1>3
  <1>5. PICK g : g = RunSearchTyping(e, text) OBVIOUS
  <1>6. Sound(g) /\ SameText(g, e) BY <1>3, <1>4, <1>5, RunSearchTypingSound
  <1>7. entry' = text BY DEF SearchInit
  <1> QED BY <1>1, <1>3, <1>5, <1>6, <1>7 DEF SameText

LEMMA SearchSteps ==
    ASSUME SearchIInv, [NextSearch]_searchVars
    PROVE  SearchIInv'
  <1>0. /\ Sound(doc) /\ searching \in BOOLEAN /\ oldWord \in BOOLEAN /\ viewWord \in BOOLEAN
        /\ entry \in Text /\ startIter \in Nat
        /\ oldText \in Text \union {NoText} /\ before \in Text \union {NoText}
        /\ (searching => startIter <= Len(doc.text))
        /\ (searching /\ before # NoText => oldText = EscapeSearchText(before))
    BY DEF SearchIInv
  <1>n. Len(doc.text) \in Nat /\ doc.text \in Text BY <1>0, SoundIs
  <1>a. CASE UNCHANGED searchVars
    <2>1. UNCHANGED interactive /\ doc' = doc BY <1>a DEF searchVars
    <2> QED BY <1>0, <2>1, OnlyTheDocument
  <1>1. CASE Insert
    <2>1. PICK p \in 0..Len(doc.text), s \in Typed :
            ~searching /\ doc' = InsertText(doc, p, s) /\ UNCHANGED interactive
      BY <1>1 DEF Insert
    <2>2. s \in Text BY InputsAre
    <2>3. Sound(doc') BY <1>0, <2>1, <2>2, InsertTextSound
    <2> QED BY <2>1, <2>3, OnlyTheDocument
  <1>2. CASE Delete
    <2>1. PICK p \in 0..Len(doc.text), q \in 0..Len(doc.text) :
            ~searching /\ p < q /\ doc' = DeleteRange(doc, p, q) /\ UNCHANGED interactive
      BY <1>2, Zenon DEF Delete
    <2>2. q \in p..Len(doc.text) BY <1>n, <2>1
    <2>3. Sound(doc') BY <1>0, <2>1, <2>2, DeleteRangeSound
    <2> QED BY <2>1, <2>3, OnlyTheDocument
  <1>3. CASE MoveCursor
    <2>1. PICK p \in 0..Len(doc.text) : ~searching /\ doc' = PlaceCursor(doc, p) /\ UNCHANGED interactive
      BY <1>3 DEF MoveCursor
    <2>2. Sound(doc') BY <1>0, <2>1, PlaceCursorSound
    <2> QED BY <2>1, <2>2, OnlyTheDocument
  <1>4. CASE Scroll
    <2>1. PICK s \in LineStarts(doc.text) : doc' = ScrollTo(doc, s) /\ UNCHANGED interactive
      BY <1>4 DEF Scroll
    <2>2. s \in 0..Len(doc.text) BY <1>n, LineStartsAre
    <2>3. Sound(doc') /\ doc'.text = doc.text BY <1>0, <2>1, <2>2, ScrollToSound DEF SameText
    <2> QED BY <2>1, <2>3, OnlyTheDocument
  <1>5. CASE Draw
    <2>1. PICK d : d = SearchPending(doc, LineShown(doc), NextShown(doc)) OBVIOUS
    <2>2. doc' = [d EXCEPT !.redraw = FALSE] /\ UNCHANGED interactive BY <1>5, <2>1 DEF Draw
    <2>3. Sound(d) /\ SameText(d, doc) BY <1>0, <2>1, SearchPendingSound
    <2>4. PICK g : g = [d EXCEPT !.redraw = FALSE] OBVIOUS
    <2>5. Sound(g) /\ SameText(g, d) BY <2>3, <2>4, RedrawSet
    <2>6. Sound(doc') /\ doc'.text = doc.text BY <2>2, <2>3, <2>4, <2>5 DEF SameText
    <2> QED BY <2>2, <2>6, OnlyTheDocument
  <1>6. CASE SearchHighlightingToggled
    <2>1. PICK b \in BOOLEAN : b = (doc.region = NoRegion) OBVIOUS
    <2>2. doc' = SetEnableSearchHighlighting(doc, b) /\ UNCHANGED interactive
      BY <1>6, <2>1, Zenon DEF SearchHighlightingToggled
    <2>3. Sound(doc') /\ doc'.text = doc.text BY <1>0, <2>2, SetEnableSearchHighlightingSound DEF SameText
    <2> QED BY <2>2, <2>3, OnlyTheDocument
  <1>7. CASE ResetSearchedText
    <2>1. doc' = SetSearchText(doc, <<>>, doc.word) /\ UNCHANGED interactive BY <1>7 DEF ResetSearchedText
    <2>2. <<>> \in Text \union {NoText} /\ doc.word \in BOOLEAN BY <1>0, CharactersAre, SoundIs
    <2>3. Sound(doc') /\ doc'.text = doc.text BY <1>0, <2>1, <2>2, SetSearchTextSound
    <2> QED BY <2>1, <2>3, OnlyTheDocument
  <1>8. CASE Find
    <2>1. PICK find \in Needles, o \in Options : doc' = DoFind(doc, find, o) /\ UNCHANGED interactive
      BY <1>8 DEF Find
    <2>2. find \in Text /\ o.word \in BOOLEAN BY InputsAre
    <2>3. Sound(doc') /\ doc'.text = doc.text BY <1>0, <2>1, <2>2, DoFindSound
    <2> QED BY <2>1, <2>3, OnlyTheDocument
  <1>9. CASE FindAgain
    <2>1. PICK wrap \in BOOLEAN, backwards \in BOOLEAN :
            doc' = RunSearch(doc, wrap, backwards) /\ UNCHANGED interactive
      BY <1>9 DEF FindAgain
    <2>2. Sound(doc') /\ doc'.text = doc.text BY <1>0, <2>1, RunSearchSound DEF SameText
    <2> QED BY <2>1, <2>2, OnlyTheDocument
  <1>10. CASE Replace
    <2>1. PICK find \in Needles, replace \in Replacements, o \in Options :
            ~searching /\ doc' = Replaced(doc, find, replace, o) /\ UNCHANGED interactive
      BY <1>10, Zenon DEF Replace
    <2>2. find \in Text /\ replace \in Text /\ o.word \in BOOLEAN BY InputsAre
    <2>3. Sound(doc') BY <1>0, <2>1, <2>2, ReplacedSound
    <2> QED BY <2>1, <2>3, OnlyTheDocument
  <1>11. CASE ReplaceAllOf
    <2>1. PICK find \in Needles, replace \in Replacements, word \in {o.word : o \in Options} :
            ~searching /\ doc' = DocumentReplaceAll(doc, find, replace, word) /\ UNCHANGED interactive
      BY <1>11, Zenon DEF ReplaceAllOf
    <2>2. find \in Text /\ find # <<>> /\ replace \in Text BY InputsAre
    <2>3. Sound(doc') BY <1>0, <2>1, <2>2, DocumentReplaceAllSound
    <2> QED BY <2>1, <2>3, OnlyTheDocument
  <1>12. CASE StartInteractiveSearch
    <2>1. /\ ~searching /\ searching' = TRUE /\ startIter' = SelStart(doc)
          /\ oldText' = (IF doc.search # NoText THEN EscapeSearchText(doc.search) ELSE oldText)
          /\ oldWord' = (IF doc.word THEN doc.word ELSE oldWord)
          /\ before' = doc.search /\ viewWord' = viewWord
          /\ LET text == EscapeSearchText(Selected(doc))
             IN  IF text = entry THEN UNCHANGED <<doc, entry>> ELSE SearchInit(text)
      BY <1>12 DEF StartInteractiveSearch
    <2>2. startIter' \in 0..Len(doc.text) /\ Selected(doc) \in Text BY <1>0, <2>1, SelectionIs
    <2>3. startIter' \in Nat /\ startIter' <= Len(doc.text) BY <1>n, <2>2
    <2>4. PICK text : text = EscapeSearchText(Selected(doc)) OBVIOUS
    <2>5. text \in Text BY <2>2, <2>4, EscapedIsText
    <2>6. Sound(doc') /\ doc'.text = doc.text /\ entry' \in Text
      <3>1. CASE UNCHANGED <<doc, entry>> BY <1>0, <3>1
      <3>2. CASE SearchInit(text) BY <1>0, <2>1, <2>2, <2>5, <3>2, SearchInitKeeps
      <3> QED BY <2>1, <2>4, <3>1, <3>2
    <2>7. doc.search \in Text \union {NoText} /\ doc.word \in BOOLEAN BY <1>0, SoundIs
    <2>8. oldText' \in Text \union {NoText} /\ (before' # NoText => oldText' = EscapeSearchText(before'))
      <3>1. CASE doc.search # NoText
        <4>1. oldText' = EscapeSearchText(doc.search) /\ before' = doc.search BY <2>1, <3>1
        <4> QED BY <2>7, <3>1, <4>1, EscapedIsText
      <3>2. CASE doc.search = NoText BY <1>0, <2>1, <3>2
      <3> QED BY <3>1, <3>2
    <2>9. oldWord' \in BOOLEAN /\ viewWord' \in BOOLEAN /\ searching' \in BOOLEAN BY <1>0, <2>1, <2>7
    <2>10. before' \in Text \union {NoText} BY <2>1, <2>7
    <2>11. searching' => startIter' <= Len(doc'.text) BY <2>3, <2>6
    <2> QED BY <2>3, <2>6, <2>8, <2>9, <2>10, <2>11 DEF SearchIInv
  <1>13. CASE TypeInEntry
    <2>1. PICK text \in {EscapeSearchText(k) : k \in Entered} \union {<<>>} :
            /\ searching /\ UNCHANGED <<searching, startIter, oldText, oldWord, viewWord, before>>
            /\ SearchInit(text)
      BY <1>13 DEF TypeInEntry
    <2>2. text \in Text
      <3>1. \A k \in Entered : EscapeSearchText(k) \in Text BY InputsAre, EscapedIsText
      <3> QED BY <3>1, CharactersAre
    <2>3. /\ searching' = searching /\ startIter' = startIter /\ oldText' = oldText /\ oldWord' = oldWord
          /\ viewWord' = viewWord /\ before' = before
      BY <2>1
    <2>4. startIter' \in 0..Len(doc.text) /\ viewWord' \in BOOLEAN BY <1>0, <1>n, <2>1, <2>3
    <2>5. Sound(doc') /\ doc'.text = doc.text /\ entry' = text BY <2>1, <2>2, <2>4, SearchInitKeeps
    <2>6. searching' => startIter' <= Len(doc'.text) BY <1>0, <2>3, <2>5
    <2>7. searching' /\ before' # NoText => oldText' = EscapeSearchText(before') BY <1>0, <2>3, Zenon
    <2>8. /\ searching' \in BOOLEAN /\ oldWord' \in BOOLEAN /\ viewWord' \in BOOLEAN /\ entry' \in Text
          /\ startIter' \in Nat /\ oldText' \in Text \union {NoText} /\ before' \in Text \union {NoText}
      BY <1>0, <2>2, <2>3, <2>5
    <2> QED BY <2>5, <2>6, <2>7, <2>8 DEF SearchIInv
  <1>14. CASE SearchAgain
    <2>1. PICK backwards \in BOOLEAN :
            /\ UNCHANGED interactive
            /\ LET found == IF entry = <<>> THEN {} ELSE SearchFromSelection(doc, TRUE, backwards)
               IN  doc' = IF found # {} THEN SelectMatch(doc, CHOOSE m \in found : TRUE)
                          ELSE IF entry = <<>> THEN ScrollTo(doc, doc.ins) ELSE doc
      BY <1>14 DEF SearchAgain
    <2> DEFINE found == IF entry = <<>> THEN {} ELSE SearchFromSelection(doc, TRUE, backwards)
    <2>2. doc' = IF found # {} THEN SelectMatch(doc, CHOOSE m \in found : TRUE)
                 ELSE IF entry = <<>> THEN ScrollTo(doc, doc.ins) ELSE doc
      BY <2>1
    <2>3. found \in SUBSET Places(doc) BY <1>0, SearchFromSelectionAre
    <2> HIDE DEF found
    <2>4. found # {} => (CHOOSE m \in found : TRUE) \in Places(doc) BY <2>3, OneFound
    <2>5. CASE found # {}
      <3>1. PICK m : m = CHOOSE x \in found : TRUE OBVIOUS
      <3>2. m \in Places(doc) /\ doc' = SelectMatch(doc, m) BY <2>2, <2>4, <2>5, <3>1
      <3>3. Sound(doc') /\ doc'.text = doc.text BY <1>0, <3>2, SelectMatchSound DEF SameText
      <3> QED BY <2>1, <3>3, OnlyTheDocument
    <2>6. CASE found = {}
      <3>1. doc.ins \in 0..Len(doc.text) BY <1>0, SoundIs
      <3>2. Sound(ScrollTo(doc, doc.ins)) /\ ScrollTo(doc, doc.ins).text = doc.text
        BY <1>0, <3>1, ScrollToSound DEF SameText
      <3>3. Sound(doc') /\ doc'.text = doc.text BY <1>0, <2>2, <2>6, <3>2
      <3> QED BY <2>1, <3>3, OnlyTheDocument
    <2> QED BY <2>5, <2>6
  <1>15. CASE EntireWordToggled
    <2>1. /\ viewWord' = ~viewWord /\ doc' = doc /\ searching' = searching /\ entry' = entry
          /\ startIter' = startIter /\ oldText' = oldText /\ oldWord' = oldWord /\ before' = before
      BY <1>15 DEF EntireWordToggled
    <2>2. searching' /\ before' # NoText => oldText' = EscapeSearchText(before') BY <1>0, <2>1, Zenon
    <2>3. searching' => startIter' <= Len(doc'.text) BY <1>0, <2>1
    <2>4. Sound(doc') BY <1>0, <2>1
    <2>5. /\ searching' \in BOOLEAN /\ oldWord' \in BOOLEAN /\ viewWord' \in BOOLEAN /\ entry' \in Text
          /\ startIter' \in Nat /\ oldText' \in Text \union {NoText} /\ before' \in Text \union {NoText}
      BY <1>0, <2>1
    <2> QED BY <2>2, <2>3, <2>4, <2>5 DEF SearchIInv
  <1>16. ASSUME Hidden, Sound(doc'), UNCHANGED <<entry, oldWord, viewWord>> PROVE SearchIInv'
    <2>1. /\ searching' = FALSE /\ startIter' = 0 /\ oldText' = NoText /\ before' = NoText
          /\ entry' = entry /\ oldWord' = oldWord /\ viewWord' = viewWord
      BY <1>16 DEF Hidden
    <2> QED BY <1>0, <1>16, <2>1 DEF SearchIInv
  <1>17. CASE HideSearchWindow
    <2>1. Hidden /\ UNCHANGED <<doc, entry, oldWord, viewWord>> BY <1>17 DEF HideSearchWindow
    <2> QED BY <1>0, <1>16, <2>1
  <1>18. CASE CancelSearch
    <2>1. PICK set : set = SetSearchText(doc, oldText, oldWord) OBVIOUS
    <2>2. /\ searching /\ Hidden /\ UNCHANGED <<entry, oldWord, viewWord>>
          /\ doc' = ScrollTo(PlaceCursor(set, startIter), startIter)
      BY <1>18, <2>1 DEF CancelSearch
    <2>3. Sound(set) /\ set.text = doc.text BY <1>0, <2>1, SetSearchTextSound
    <2>4. startIter \in 0..Len(set.text) BY <1>0, <1>n, <2>2, <2>3
    <2>5. PICK e : e = PlaceCursor(set, startIter) OBVIOUS
    <2>6. Sound(e) /\ SameText(e, set) BY <2>3, <2>4, <2>5, PlaceCursorSound
    <2>7. startIter \in 0..Len(e.text) BY <2>4, <2>6 DEF SameText
    <2>8. Sound(doc') BY <2>2, <2>5, <2>6, <2>7, ScrollToSound
    <2> QED BY <1>16, <2>2, <2>8
  <1> QED BY <1>a, <1>1, <1>2, <1>3, <1>4, <1>5, <1>6, <1>7, <1>8, <1>9, <1>10, <1>11, <1>12, <1>13, <1>14,
             <1>15, <1>17, <1>18 DEF NextSearch

LEMMA SearchInvariant ==
    SearchSpec => []SearchIInv
  <1>1. InitSearch => SearchIInv BY SearchInitial
  <1>2. SearchIInv /\ [NextSearch]_searchVars => SearchIInv' BY SearchSteps
  <1> QED BY <1>1, <1>2, PTL DEF SearchSpec

LEMMA SoundIsInPlace ==
    ASSUME SearchIInv
    PROVE  MarksAreInPlace
  <1>1. /\ Sound(doc) /\ searching \in BOOLEAN /\ oldWord \in BOOLEAN /\ viewWord \in BOOLEAN /\ startIter \in Nat
        /\ (searching => startIter <= Len(doc.text))
    BY DEF SearchIInv
  <1>2. PICK n \in Nat : n = Len(doc.text) BY <1>1, SoundIs
  <1>3. /\ doc.ins \in 0..n /\ doc.bound \in 0..n /\ doc.first \in 0..n /\ doc.found \subseteq 1..n
        /\ doc.word \in BOOLEAN /\ doc.redraw \in BOOLEAN
        /\ (doc.region # NoRegion => doc.region \in Regions /\ InOrder(doc.region, n))
    BY <1>1, <1>2, SoundIs
  <1>4. ASSUME doc.region # NoRegion
        PROVE  /\ \A k \in DOMAIN doc.region : /\ Start(doc.region[k]) \in 0..n /\ End(doc.region[k]) \in 0..n
                                               /\ Start(doc.region[k]) <= End(doc.region[k])
               /\ \A j, k \in DOMAIN doc.region : j < k => Apart(doc.region[j], doc.region[k])
    <2>1. PICK r \in Regions : r = doc.region /\ InOrder(r, n) BY <1>3, <1>4
    <2>2. DOMAIN r = 1..Len(r) BY SubregionIs
    <2>3. ASSUME NEW k \in 1..Len(r) PROVE Start(r[k]) \in 0..n /\ End(r[k]) \in 0..n /\ Start(r[k]) <= End(r[k])
      <3>1. Start(r[k]) \in Nat /\ End(r[k]) \in Nat BY SubregionIs
      <3>2. Start(r[k]) <= End(r[k]) /\ End(r[k]) <= n BY <2>1 DEF InOrder
      <3> QED BY <3>1, <3>2
    <2>4. \A j, k \in 1..Len(r) : j < k => Apart(r[j], r[k]) BY <2>1 DEF InOrder
    <2> QED BY <2>1, <2>2, <2>3, <2>4
  <1>5. RegionIsOrdered BY <1>4 DEF RegionIsOrdered
  <1>6. searching => startIter \in 0..n BY <1>1, <1>2
  <1>7. Positions = 0..n BY <1>2 DEF Positions
  <1>8. SearchTypeOK BY <1>1, <1>2, <1>3, <1>4, <1>6, <1>7 DEF SearchTypeOK
  <1> QED BY <1>5, <1>8 DEF MarksAreInPlace

\* The marks and the tags of the document stay in its text, and the subregions
\* that wait to be searched in order and apart, whatever edits, draws,
\* searches and replacements come in whatever order.
THEOREM MarksStayInPlace ==
    SearchSpec => []MarksAreInPlace
  <1>1. SearchIInv => MarksAreInPlace BY SoundIsInPlace
  <1> QED BY <1>1, SearchInvariant, PTL

\* Escape puts back the text that was searched for when the search window was
\* opened: it comes back through being escaped and unescaped, whatever it is.
THEOREM CancelPutsTheSearchBack ==
    SearchSpec => CancelPutsBack
  <1>1. ASSUME SearchIInv, CancelSearch, before # NoText PROVE doc'.search = before
    <2>1. /\ Sound(doc) /\ oldWord \in BOOLEAN /\ before \in Text \union {NoText} /\ startIter \in Nat
          /\ (searching => startIter <= Len(doc.text))
          /\ (searching /\ before # NoText => oldText = EscapeSearchText(before))
      BY <1>1 DEF SearchIInv
    <2>2. PICK set : set = SetSearchText(doc, oldText, oldWord) OBVIOUS
    <2>3. searching /\ doc' = ScrollTo(PlaceCursor(set, startIter), startIter)
      BY <1>1, <2>2 DEF CancelSearch
    <2>4. before \in Text /\ oldText = EscapeSearchText(before) BY <1>1, <2>1, <2>3
    <2>5. oldText \in Text /\ oldText # NoText
      <3>1. oldText \in Text BY <2>4, EscapedIsText
      <3> QED BY <3>1, CharactersAre
    <2>6. Sound(set) /\ set.text = doc.text /\ set.search = UnescapeSearchText(oldText)
      BY <2>1, <2>2, <2>5, SetSearchTextSound
    <2>7. UnescapeSearchText(oldText) = before BY <2>4, EscapedComesBack
    <2>8. startIter \in 0..Len(set.text)
      <3>1. Len(doc.text) \in Nat BY <2>1, SoundIs
      <3> QED BY <2>1, <2>3, <2>6, <3>1
    <2>9. PICK e : e = PlaceCursor(set, startIter) OBVIOUS
    <2>10. Sound(e) /\ SameText(e, set) BY <2>6, <2>8, <2>9, PlaceCursorSound
    <2>11. startIter \in 0..Len(e.text) BY <2>8, <2>10 DEF SameText
    <2>12. SameText(ScrollTo(e, startIter), e) BY <2>10, <2>11, ScrollToSound
    <2> QED BY <2>3, <2>6, <2>7, <2>9, <2>10, <2>12 DEF SameText
  <1>2. SearchIInv /\ [NextSearch]_searchVars => [CancelSearch /\ before # NoText => doc'.search = before]_searchVars
    BY <1>1
  <1> QED BY <1>2, SearchInvariant, PTL DEF SearchSpec, CancelPutsBack
=============================================================================
