------------------------ MODULE WindowClosingProofs ------------------------
(* Theorems about WindowClosing, for any number of tabs: a tab that closes   *)
(* by itself has nothing to lose, and the window keeps the promise of        *)
(* CloseSession.                                                             *)
EXTENDS WindowClosing, SequenceLemmas

Types ==
    /\ open \subseteq Tabs /\ idles \subseteq Tabs
    /\ state \in [Tabs -> States] /\ modified \in [Tabs -> BOOLEAN]
    /\ dialog.kind \in Confirmations => dialog.docs \subseteq Tabs
    /\ consent \subseteq Tabs

\* The documents a Close All asks about are all that can be lost by it: while
\* the dialog is up, nothing is edited.
AllAsked == dialog.kind = "confirm_all" => \A t \in open : modified[t] => t \in
            dialog.docs

LoadingIsClean == \A t \in open : state[t] = "LOADING" => ~modified[t]
IdlesAreMarked == \A t \in open : t \in idles => state[t] = "CLOSING"

\* The inductive invariant.
IInv == Types /\ AllAsked /\ LoadingIsClean /\ IdlesAreMarked /\ MarkedTabsAreSaved

Left(t) == destroyed \/ t \notin open

-----------------------------------------------------------------------------
(***************************************************************************)
(* What a step is to CloseSession.                                         *)
(***************************************************************************)

\* A step in which no tab leaves is a change.
LEMMA StaysIsChange ==
    ASSUME open' = open, destroyed' = destroyed, consent' = {},
           modified \in [Tabs -> BOOLEAN]
    PROVE  Promise!Next
<1>1. Doc' \in [Tabs -> {"clean", "dirty", "left"}]
  BY DEF Doc
<1>2. \A t \in Tabs : (Doc[t] = "left") = (Doc'[t] = "left")
  BY DEF Doc
<1> QED BY <1>1, <1>2 DEF Promise!Next, Promise!Change

\* A step in which tabs leave that are clean or agreed on is a Leave.
LEMMA LeavesIsLeave ==
    ASSUME open' \subseteq open, destroyed => destroyed', modified' = modified,
           consent' \subseteq Tabs,
           \A t \in Tabs : Left(t)' /\ ~Left(t) /\ modified[t] => t \in consent'
    PROVE  Promise!Next
<1> DEFINE leaving == {t \in Tabs : Left(t)'}
<1>1. \A t \in leaving : Doc[t] = "dirty" => t \in consent'
  BY DEF Doc, Left
<1>2. Doc' = [t \in Tabs |-> IF t \in leaving THEN "left" ELSE Doc[t]]
  <2>1. \A t \in Tabs : Doc'[t] = IF t \in leaving THEN "left" ELSE Doc[t]
    BY DEF Doc, Left
  <2> QED BY <2>1 DEF Doc
<1>3. Promise!Leave(consent', leaving)
  BY <1>1, <1>2 DEF Promise!Leave
<1>4. leaving \in SUBSET Tabs
  OBVIOUS
<1> QED BY <1>3, <1>4 DEF Promise!Next

-----------------------------------------------------------------------------
(***************************************************************************)
(* The invariant.                                                          *)
(***************************************************************************)

LEMMA IInvInit == Init => IInv
BY TabAssumption DEF Init, IInv, Types, AllAsked, LoadingIsClean, IdlesAreMarked,
   MarkedTabsAreSaved, NoDialog, States, Tabs, Confirmations

LEMMA InvEdit ==
    ASSUME IInv, NEW t \in Tabs, Edit(t)
    PROVE  IInv'
<1>1. Types'
  BY DEF IInv, Types, AllAsked, LoadingIsClean, IdlesAreMarked, MarkedTabsAreSaved,
     Edit, UserActs, NoDialog, Silent, tabVars, helperVars, States, Confirmations
<1>2. AllAsked'
  BY DEF IInv, Types, AllAsked, LoadingIsClean, IdlesAreMarked, MarkedTabsAreSaved,
     Edit, UserActs, NoDialog, Silent, tabVars, helperVars, States, Confirmations
<1>3. LoadingIsClean'
  BY DEF IInv, Types, AllAsked, LoadingIsClean, IdlesAreMarked, MarkedTabsAreSaved,
     Edit, UserActs, NoDialog, Silent, tabVars, helperVars, States, Confirmations
<1>4. IdlesAreMarked'
  BY DEF IInv, Types, AllAsked, LoadingIsClean, IdlesAreMarked, MarkedTabsAreSaved,
     Edit, UserActs, NoDialog, Silent, tabVars, helperVars, States, Confirmations
<1>5. MarkedTabsAreSaved'
  BY DEF IInv, Types, AllAsked, LoadingIsClean, IdlesAreMarked, MarkedTabsAreSaved,
     Edit, UserActs, NoDialog, Silent, tabVars, helperVars, States, Confirmations
<1> QED BY <1>1, <1>2, <1>3, <1>4, <1>5 DEF IInv

LEMMA InvRevert ==
    ASSUME IInv, NEW t \in Tabs, Revert(t)
    PROVE  IInv'
<1>1. Types'
  BY DEF IInv, Types, AllAsked, LoadingIsClean, IdlesAreMarked, MarkedTabsAreSaved,
     Revert, UserActs, NoDialog, Silent, tabVars, helperVars, States, Confirmations
<1>2. AllAsked'
  BY DEF IInv, Types, AllAsked, LoadingIsClean, IdlesAreMarked, MarkedTabsAreSaved,
     Revert, UserActs, NoDialog, Silent, tabVars, helperVars, States, Confirmations
<1>3. LoadingIsClean'
  BY DEF IInv, Types, AllAsked, LoadingIsClean, IdlesAreMarked, MarkedTabsAreSaved,
     Revert, UserActs, NoDialog, Silent, tabVars, helperVars, States, Confirmations
<1>4. IdlesAreMarked'
  BY DEF IInv, Types, AllAsked, LoadingIsClean, IdlesAreMarked, MarkedTabsAreSaved,
     Revert, UserActs, NoDialog, Silent, tabVars, helperVars, States, Confirmations
<1>5. MarkedTabsAreSaved'
  BY DEF IInv, Types, AllAsked, LoadingIsClean, IdlesAreMarked, MarkedTabsAreSaved,
     Revert, UserActs, NoDialog, Silent, tabVars, helperVars, States, Confirmations
<1> QED BY <1>1, <1>2, <1>3, <1>4, <1>5 DEF IInv

LEMMA InvLoaded ==
    ASSUME IInv, NEW t \in Tabs, Loaded(t)
    PROVE  IInv'
<1>1. Types'
  BY DEF IInv, Types, AllAsked, LoadingIsClean, IdlesAreMarked, MarkedTabsAreSaved,
     Loaded, BecomesNormal, Silent, helperVars, States, Confirmations
<1>2. AllAsked'
  BY DEF IInv, Types, AllAsked, LoadingIsClean, IdlesAreMarked, MarkedTabsAreSaved,
     Loaded, BecomesNormal, Silent, helperVars, States, Confirmations
<1>3. LoadingIsClean'
  BY DEF IInv, Types, AllAsked, LoadingIsClean, IdlesAreMarked, MarkedTabsAreSaved,
     Loaded, BecomesNormal, Silent, helperVars, States, Confirmations
<1>4. IdlesAreMarked'
  BY DEF IInv, Types, AllAsked, LoadingIsClean, IdlesAreMarked, MarkedTabsAreSaved,
     Loaded, BecomesNormal, Silent, helperVars, States, Confirmations
<1>5. MarkedTabsAreSaved'
  BY DEF IInv, Types, AllAsked, LoadingIsClean, IdlesAreMarked, MarkedTabsAreSaved,
     Loaded, BecomesNormal, Silent, helperVars, States, Confirmations
<1> QED BY <1>1, <1>2, <1>3, <1>4, <1>5 DEF IInv

LEMMA InvSaved ==
    ASSUME IInv, NEW t \in Tabs, Saved(t)
    PROVE  IInv'
<1>1. Types'
  BY DEF IInv, Types, AllAsked, LoadingIsClean, IdlesAreMarked, MarkedTabsAreSaved,
     Saved, BecomesNormal, Silent, helperVars, States, Confirmations
<1>2. AllAsked'
  BY DEF IInv, Types, AllAsked, LoadingIsClean, IdlesAreMarked, MarkedTabsAreSaved,
     Saved, BecomesNormal, Silent, helperVars, States, Confirmations
<1>3. LoadingIsClean'
  BY DEF IInv, Types, AllAsked, LoadingIsClean, IdlesAreMarked, MarkedTabsAreSaved,
     Saved, BecomesNormal, Silent, helperVars, States, Confirmations
<1>4. IdlesAreMarked'
  BY DEF IInv, Types, AllAsked, LoadingIsClean, IdlesAreMarked, MarkedTabsAreSaved,
     Saved, BecomesNormal, Silent, helperVars, States, Confirmations
<1>5. MarkedTabsAreSaved'
  BY DEF IInv, Types, AllAsked, LoadingIsClean, IdlesAreMarked, MarkedTabsAreSaved,
     Saved, BecomesNormal, Silent, helperVars, States, Confirmations
<1> QED BY <1>1, <1>2, <1>3, <1>4, <1>5 DEF IInv

LEMMA InvSaveFails ==
    ASSUME IInv, NEW t \in Tabs, SaveFails(t)
    PROVE  IInv'
<1>1. Types'
  BY DEF IInv, Types, AllAsked, LoadingIsClean, IdlesAreMarked, MarkedTabsAreSaved,
     SaveFails, Silent, helperVars, States, Confirmations
<1>2. AllAsked'
  BY DEF IInv, Types, AllAsked, LoadingIsClean, IdlesAreMarked, MarkedTabsAreSaved,
     SaveFails, Silent, helperVars, States, Confirmations
<1>3. LoadingIsClean'
  BY DEF IInv, Types, AllAsked, LoadingIsClean, IdlesAreMarked, MarkedTabsAreSaved,
     SaveFails, Silent, helperVars, States, Confirmations
<1>4. IdlesAreMarked'
  BY DEF IInv, Types, AllAsked, LoadingIsClean, IdlesAreMarked, MarkedTabsAreSaved,
     SaveFails, Silent, helperVars, States, Confirmations
<1>5. MarkedTabsAreSaved'
  BY DEF IInv, Types, AllAsked, LoadingIsClean, IdlesAreMarked, MarkedTabsAreSaved,
     SaveFails, Silent, helperVars, States, Confirmations
<1> QED BY <1>1, <1>2, <1>3, <1>4, <1>5 DEF IInv

LEMMA InvErrorAnswered ==
    ASSUME IInv, NEW t \in Tabs, ErrorAnswered(t)
    PROVE  IInv'
<1>1. Types'
  BY DEF IInv, Types, AllAsked, LoadingIsClean, IdlesAreMarked, MarkedTabsAreSaved,
     ErrorAnswered, BecomesNormal, Silent, helperVars, States, Confirmations
<1>2. AllAsked'
  BY DEF IInv, Types, AllAsked, LoadingIsClean, IdlesAreMarked, MarkedTabsAreSaved,
     ErrorAnswered, BecomesNormal, Silent, helperVars, States, Confirmations
<1>3. LoadingIsClean'
  BY DEF IInv, Types, AllAsked, LoadingIsClean, IdlesAreMarked, MarkedTabsAreSaved,
     ErrorAnswered, BecomesNormal, Silent, helperVars, States, Confirmations
<1>4. IdlesAreMarked'
  BY DEF IInv, Types, AllAsked, LoadingIsClean, IdlesAreMarked, MarkedTabsAreSaved,
     ErrorAnswered, BecomesNormal, Silent, helperVars, States, Confirmations
<1>5. MarkedTabsAreSaved'
  BY DEF IInv, Types, AllAsked, LoadingIsClean, IdlesAreMarked, MarkedTabsAreSaved,
     ErrorAnswered, BecomesNormal, Silent, helperVars, States, Confirmations
<1> QED BY <1>1, <1>2, <1>3, <1>4, <1>5 DEF IInv

LEMMA InvAutoSave ==
    ASSUME IInv, NEW t \in Tabs, AutoSave(t)
    PROVE  IInv'
<1>1. Types'
  BY DEF IInv, Types, AllAsked, LoadingIsClean, IdlesAreMarked, MarkedTabsAreSaved,
     AutoSave, StartSaving, Silent, helperVars, States, Confirmations
<1>2. AllAsked'
  BY DEF IInv, Types, AllAsked, LoadingIsClean, IdlesAreMarked, MarkedTabsAreSaved,
     AutoSave, StartSaving, Silent, helperVars, States, Confirmations
<1>3. LoadingIsClean'
  BY DEF IInv, Types, AllAsked, LoadingIsClean, IdlesAreMarked, MarkedTabsAreSaved,
     AutoSave, StartSaving, Silent, helperVars, States, Confirmations
<1>4. IdlesAreMarked'
  BY DEF IInv, Types, AllAsked, LoadingIsClean, IdlesAreMarked, MarkedTabsAreSaved,
     AutoSave, StartSaving, Silent, helperVars, States, Confirmations
<1>5. MarkedTabsAreSaved'
  BY DEF IInv, Types, AllAsked, LoadingIsClean, IdlesAreMarked, MarkedTabsAreSaved,
     AutoSave, StartSaving, Silent, helperVars, States, Confirmations
<1> QED BY <1>1, <1>2, <1>3, <1>4, <1>5 DEF IInv

LEMMA InvFileSave ==
    ASSUME IInv, NEW t \in Tabs, FileSave(t)
    PROVE  IInv'
<1>1. Types'
  BY DEF IInv, Types, AllAsked, LoadingIsClean, IdlesAreMarked, MarkedTabsAreSaved,
     FileSave, StartSaving, AskName, Silent, helperVars, States, Confirmations
<1>2. AllAsked'
  BY DEF IInv, Types, AllAsked, LoadingIsClean, IdlesAreMarked, MarkedTabsAreSaved,
     FileSave, StartSaving, AskName, Silent, helperVars, States, Confirmations
<1>3. LoadingIsClean'
  BY DEF IInv, Types, AllAsked, LoadingIsClean, IdlesAreMarked, MarkedTabsAreSaved,
     FileSave, StartSaving, AskName, Silent, helperVars, States, Confirmations
<1>4. IdlesAreMarked'
  BY DEF IInv, Types, AllAsked, LoadingIsClean, IdlesAreMarked, MarkedTabsAreSaved,
     FileSave, StartSaving, AskName, Silent, helperVars, States, Confirmations
<1>5. MarkedTabsAreSaved'
  BY DEF IInv, Types, AllAsked, LoadingIsClean, IdlesAreMarked, MarkedTabsAreSaved,
     FileSave, StartSaving, AskName, Silent, helperVars, States, Confirmations
<1> QED BY <1>1, <1>2, <1>3, <1>4, <1>5 DEF IInv

LEMMA InvCloseTab ==
    ASSUME IInv, NEW t \in Tabs, CloseTab(t)
    PROVE  IInv'
<1>1. Types'
  BY DEF IInv, Types, AllAsked, LoadingIsClean, IdlesAreMarked, MarkedTabsAreSaved,
     CloseTab, RemovePages, Confirm, Silent, tabVars, States, Confirmations
<1>2. AllAsked'
  BY DEF IInv, Types, AllAsked, LoadingIsClean, IdlesAreMarked, MarkedTabsAreSaved,
     CloseTab, RemovePages, Confirm, Silent, tabVars, States, Confirmations
<1>3. LoadingIsClean'
  BY DEF IInv, Types, AllAsked, LoadingIsClean, IdlesAreMarked, MarkedTabsAreSaved,
     CloseTab, RemovePages, Confirm, Silent, tabVars, States, Confirmations
<1>4. IdlesAreMarked'
  BY DEF IInv, Types, AllAsked, LoadingIsClean, IdlesAreMarked, MarkedTabsAreSaved,
     CloseTab, RemovePages, Confirm, Silent, tabVars, States, Confirmations
<1>5. MarkedTabsAreSaved'
  BY DEF IInv, Types, AllAsked, LoadingIsClean, IdlesAreMarked, MarkedTabsAreSaved,
     CloseTab, RemovePages, Confirm, Silent, tabVars, States, Confirmations
<1> QED BY <1>1, <1>2, <1>3, <1>4, <1>5 DEF IInv

LEMMA InvReallyCloseTab ==
    ASSUME IInv, NEW t \in Tabs, ReallyCloseTab(t)
    PROVE  IInv'
<1>1. Types'
  BY DEF IInv, Types, AllAsked, LoadingIsClean, IdlesAreMarked, MarkedTabsAreSaved,
     ReallyCloseTab, RemovePages, Silent, tabVars, States, Confirmations
<1>2. AllAsked'
  BY DEF IInv, Types, AllAsked, LoadingIsClean, IdlesAreMarked, MarkedTabsAreSaved,
     ReallyCloseTab, RemovePages, Silent, tabVars, States, Confirmations
<1>3. LoadingIsClean'
  BY DEF IInv, Types, AllAsked, LoadingIsClean, IdlesAreMarked, MarkedTabsAreSaved,
     ReallyCloseTab, RemovePages, Silent, tabVars, States, Confirmations
<1>4. IdlesAreMarked'
  BY DEF IInv, Types, AllAsked, LoadingIsClean, IdlesAreMarked, MarkedTabsAreSaved,
     ReallyCloseTab, RemovePages, Silent, tabVars, States, Confirmations
<1>5. MarkedTabsAreSaved'
  BY DEF IInv, Types, AllAsked, LoadingIsClean, IdlesAreMarked, MarkedTabsAreSaved,
     ReallyCloseTab, RemovePages, Silent, tabVars, States, Confirmations
<1> QED BY <1>1, <1>2, <1>3, <1>4, <1>5 DEF IInv

LEMMA InvSaveAll ==
    ASSUME IInv, SaveAll
    PROVE  IInv'
<1>1. Types'
  BY DEF IInv, Types, AllAsked, LoadingIsClean, IdlesAreMarked, MarkedTabsAreSaved,
     SaveAll, StartSaving, AskName, Silent, helperVars, States, Confirmations
<1>2. AllAsked'
  BY DEF IInv, Types, AllAsked, LoadingIsClean, IdlesAreMarked, MarkedTabsAreSaved,
     SaveAll, StartSaving, AskName, Silent, helperVars, States, Confirmations
<1>3. LoadingIsClean'
  BY DEF IInv, Types, AllAsked, LoadingIsClean, IdlesAreMarked, MarkedTabsAreSaved,
     SaveAll, StartSaving, AskName, Silent, helperVars, States, Confirmations
<1>4. IdlesAreMarked'
  BY DEF IInv, Types, AllAsked, LoadingIsClean, IdlesAreMarked, MarkedTabsAreSaved,
     SaveAll, StartSaving, AskName, Silent, helperVars, States, Confirmations
<1>5. MarkedTabsAreSaved'
  BY DEF IInv, Types, AllAsked, LoadingIsClean, IdlesAreMarked, MarkedTabsAreSaved,
     SaveAll, StartSaving, AskName, Silent, helperVars, States, Confirmations
<1> QED BY <1>1, <1>2, <1>3, <1>4, <1>5 DEF IInv

LEMMA InvSaveAsAnswered ==
    ASSUME IInv, SaveAsAnswered
    PROVE  IInv'
<1>1. Types'
  BY DEF IInv, Types, AllAsked, LoadingIsClean, IdlesAreMarked, MarkedTabsAreSaved,
     SaveAsAnswered, NextInQueue, NoDialog, StartSaving, AskName, Silent, States,
     Confirmations
<1>2. AllAsked'
  BY DEF IInv, Types, AllAsked, LoadingIsClean, IdlesAreMarked, MarkedTabsAreSaved,
     SaveAsAnswered, NextInQueue, NoDialog, StartSaving, AskName, Silent, States,
     Confirmations
<1>3. LoadingIsClean'
  BY DEF IInv, Types, AllAsked, LoadingIsClean, IdlesAreMarked, MarkedTabsAreSaved,
     SaveAsAnswered, NextInQueue, NoDialog, StartSaving, AskName, Silent, States,
     Confirmations
<1>4. IdlesAreMarked'
  BY DEF IInv, Types, AllAsked, LoadingIsClean, IdlesAreMarked, MarkedTabsAreSaved,
     SaveAsAnswered, NextInQueue, NoDialog, StartSaving, AskName, Silent, States,
     Confirmations
<1>5. MarkedTabsAreSaved'
  BY DEF IInv, Types, AllAsked, LoadingIsClean, IdlesAreMarked, MarkedTabsAreSaved,
     SaveAsAnswered, NextInQueue, NoDialog, StartSaving, AskName, Silent, States,
     Confirmations
<1> QED BY <1>1, <1>2, <1>3, <1>4, <1>5 DEF IInv

LEMMA InvFileCloseAll ==
    ASSUME IInv, NEW quit \in BOOLEAN, FileCloseAll(quit)
    PROVE  IInv'
<1>1. Types'
  BY DEF IInv, Types, AllAsked, LoadingIsClean, IdlesAreMarked, MarkedTabsAreSaved,
     FileCloseAll, CloseAllTabs, RemovePages, Confirm, Unsaved, CanClose, Silent,
     tabVars, States, Confirmations
<1>2. AllAsked'
  BY DEF IInv, Types, AllAsked, LoadingIsClean, IdlesAreMarked, MarkedTabsAreSaved,
     FileCloseAll, CloseAllTabs, RemovePages, Confirm, Unsaved, CanClose, Silent,
     tabVars, States, Confirmations
<1>3. LoadingIsClean'
  BY DEF IInv, Types, AllAsked, LoadingIsClean, IdlesAreMarked, MarkedTabsAreSaved,
     FileCloseAll, CloseAllTabs, RemovePages, Confirm, Unsaved, CanClose, Silent,
     tabVars, States, Confirmations
<1>4. IdlesAreMarked'
  BY DEF IInv, Types, AllAsked, LoadingIsClean, IdlesAreMarked, MarkedTabsAreSaved,
     FileCloseAll, CloseAllTabs, RemovePages, Confirm, Unsaved, CanClose, Silent,
     tabVars, States, Confirmations
<1>5. MarkedTabsAreSaved'
  BY DEF IInv, Types, AllAsked, LoadingIsClean, IdlesAreMarked, MarkedTabsAreSaved,
     FileCloseAll, CloseAllTabs, RemovePages, Confirm, Unsaved, CanClose, Silent,
     tabVars, States, Confirmations
<1> QED BY <1>1, <1>2, <1>3, <1>4, <1>5 DEF IInv

LEMMA InvAnswerSave ==
    ASSUME IInv, NEW selected \in SUBSET Tabs, AnswerSave(selected)
    PROVE  IInv'
<1>1. Types'
  BY DEF IInv, Types, AllAsked, LoadingIsClean, IdlesAreMarked, MarkedTabsAreSaved,
     AnswerSave, SaveAndCloseAll, SaveAndClose, ToClose, Savable, StartSaving, AskName,
     NoDialog, States, Confirmations
<1>2. AllAsked'
  BY DEF IInv, Types, AllAsked, LoadingIsClean, IdlesAreMarked, MarkedTabsAreSaved,
     AnswerSave, SaveAndCloseAll, SaveAndClose, ToClose, Savable, StartSaving, AskName,
     NoDialog, States, Confirmations
<1>3. LoadingIsClean'
  BY DEF IInv, Types, AllAsked, LoadingIsClean, IdlesAreMarked, MarkedTabsAreSaved,
     AnswerSave, SaveAndCloseAll, SaveAndClose, ToClose, Savable, StartSaving, AskName,
     NoDialog, States, Confirmations
<1>4. IdlesAreMarked'
  BY DEF IInv, Types, AllAsked, LoadingIsClean, IdlesAreMarked, MarkedTabsAreSaved,
     AnswerSave, SaveAndCloseAll, SaveAndClose, ToClose, Savable, StartSaving, AskName,
     NoDialog, States, Confirmations
<1>5. MarkedTabsAreSaved'
  BY DEF IInv, Types, AllAsked, LoadingIsClean, IdlesAreMarked, MarkedTabsAreSaved,
     AnswerSave, SaveAndCloseAll, SaveAndClose, ToClose, Savable, StartSaving, AskName,
     NoDialog, States, Confirmations
<1> QED BY <1>1, <1>2, <1>3, <1>4, <1>5 DEF IInv

LEMMA InvAnswerDiscard ==
    ASSUME IInv, AnswerDiscard
    PROVE  IInv'
<1>1. Types'
  BY DEF IInv, Types, AllAsked, LoadingIsClean, IdlesAreMarked, MarkedTabsAreSaved,
     AnswerDiscard, CloseAllTabs, RemovePages, NoDialog, tabVars, States, Confirmations
<1>2. AllAsked'
  BY DEF IInv, Types, AllAsked, LoadingIsClean, IdlesAreMarked, MarkedTabsAreSaved,
     AnswerDiscard, CloseAllTabs, RemovePages, NoDialog, tabVars, States, Confirmations
<1>3. LoadingIsClean'
  BY DEF IInv, Types, AllAsked, LoadingIsClean, IdlesAreMarked, MarkedTabsAreSaved,
     AnswerDiscard, CloseAllTabs, RemovePages, NoDialog, tabVars, States, Confirmations
<1>4. IdlesAreMarked'
  BY DEF IInv, Types, AllAsked, LoadingIsClean, IdlesAreMarked, MarkedTabsAreSaved,
     AnswerDiscard, CloseAllTabs, RemovePages, NoDialog, tabVars, States, Confirmations
<1>5. MarkedTabsAreSaved'
  BY DEF IInv, Types, AllAsked, LoadingIsClean, IdlesAreMarked, MarkedTabsAreSaved,
     AnswerDiscard, CloseAllTabs, RemovePages, NoDialog, tabVars, States, Confirmations
<1> QED BY <1>1, <1>2, <1>3, <1>4, <1>5 DEF IInv

LEMMA InvAnswerCancel ==
    ASSUME IInv, AnswerCancel
    PROVE  IInv'
<1>1. Types'
  BY DEF IInv, Types, AllAsked, LoadingIsClean, IdlesAreMarked, MarkedTabsAreSaved,
     AnswerCancel, NoDialog, Silent, tabVars, helperVars, States, Confirmations
<1>2. AllAsked'
  BY DEF IInv, Types, AllAsked, LoadingIsClean, IdlesAreMarked, MarkedTabsAreSaved,
     AnswerCancel, NoDialog, Silent, tabVars, helperVars, States, Confirmations
<1>3. LoadingIsClean'
  BY DEF IInv, Types, AllAsked, LoadingIsClean, IdlesAreMarked, MarkedTabsAreSaved,
     AnswerCancel, NoDialog, Silent, tabVars, helperVars, States, Confirmations
<1>4. IdlesAreMarked'
  BY DEF IInv, Types, AllAsked, LoadingIsClean, IdlesAreMarked, MarkedTabsAreSaved,
     AnswerCancel, NoDialog, Silent, tabVars, helperVars, States, Confirmations
<1>5. MarkedTabsAreSaved'
  BY DEF IInv, Types, AllAsked, LoadingIsClean, IdlesAreMarked, MarkedTabsAreSaved,
     AnswerCancel, NoDialog, Silent, tabVars, helperVars, States, Confirmations
<1> QED BY <1>1, <1>2, <1>3, <1>4, <1>5 DEF IInv

LEMMA IInvStep == IInv /\ [Next]_vars => IInv'
<1> SUFFICES ASSUME IInv, [Next]_vars PROVE IInv'
  OBVIOUS
<1>0. CASE UNCHANGED vars
  BY <1>0 DEF vars, tabVars, helperVars, IInv, Types, AllAsked, LoadingIsClean,
     IdlesAreMarked,
     MarkedTabsAreSaved
<1> QED BY <1>0, InvEdit, InvRevert, InvLoaded, InvSaved, InvSaveFails,
   InvErrorAnswered, InvAutoSave, InvFileSave, InvCloseTab, InvReallyCloseTab,
   InvSaveAll, InvSaveAsAnswered, InvFileCloseAll, InvAnswerSave, InvAnswerDiscard,
   InvAnswerCancel DEF Next

-----------------------------------------------------------------------------
(***************************************************************************)
(* Every step is one of CloseSession.                                      *)
(***************************************************************************)

LEMMA StepIsPromised ==
    ASSUME IInv, Next
    PROVE  Promise!Next
<1>1. ASSUME NEW t \in Tabs, (Edit(t) \/ Revert(t) \/ Loaded(t) \/ Saved(t) \/
            SaveFails(t) \/ ErrorAnswered(t) \/ AutoSave(t) \/ FileSave(t))
      PROVE  Promise!Next
  BY <1>1, StaysIsChange DEF IInv, Types, Edit, Revert, Loaded, Saved, SaveFails,
     ErrorAnswered,
     AutoSave, FileSave, Silent
<1>2. CASE SaveAll \/ SaveAsAnswered
  BY <1>2, StaysIsChange DEF IInv, Types, SaveAll, SaveAsAnswered, Silent
<1>3. CASE AnswerCancel
  BY <1>3, StaysIsChange DEF IInv, Types, AnswerCancel, Silent
<1>4. ASSUME NEW t \in Tabs, CloseTab(t) PROVE Promise!Next
  BY <1>4, LeavesIsLeave DEF IInv, Types, LoadingIsClean, Left, CloseTab, CanClose,
     RemovePages, Silent, tabVars
<1>5. ASSUME NEW t \in Tabs, ReallyCloseTab(t) PROVE Promise!Next
  BY <1>5, LeavesIsLeave DEF IInv, Types, LoadingIsClean, Left, ReallyCloseTab,
     RemovePages, IdlesAreMarked, MarkedTabsAreSaved, Silent, tabVars
<1>6. ASSUME NEW quit \in BOOLEAN, FileCloseAll(quit) PROVE Promise!Next
  BY <1>6, LeavesIsLeave DEF IInv, Types, LoadingIsClean, Left, FileCloseAll, UserActs,
     CloseAllTabs, RemovePages, Unsaved, CanClose, Silent, tabVars
<1>7. CASE AnswerDiscard
  BY <1>7, LeavesIsLeave DEF IInv, Types, LoadingIsClean, Left, AnswerDiscard, AllAsked,
     Confirmations, CloseAllTabs, RemovePages, tabVars
<1>8. ASSUME NEW selected \in SUBSET Tabs, AnswerSave(selected) PROVE Promise!Next
  BY <1>8, LeavesIsLeave DEF IInv, Types, LoadingIsClean, Left, AnswerSave, AllAsked,
     Confirmations, SaveAndCloseAll, SaveAndClose,
     ToClose, Savable, Unfit, States
<1> QED BY <1>1, <1>2, <1>3, <1>4, <1>5, <1>6, <1>7, <1>8 DEF Next

-----------------------------------------------------------------------------
\* A tab marked for closing has nothing to lose and its idle pending, for any
\* window (tab_state_changed_while_saving and really_close_tab).
THEOREM MarkedAreSaved == Spec => []MarkedTabsAreSaved
<1>1. IInv => MarkedTabsAreSaved
  BY DEF IInv
<1> QED BY IInvInit, IInvStep, <1>1, PTL DEF Spec

\* However a window is closed, tab by tab, all at once or after saving, with any
\* number of tabs, every tab that leaves is clean or agreed on in that step.
THEOREM KeepsThePromise == Spec => ClosesOnlyWithConsent
<1>1. Init => Promise!Init
  BY DEF Init, Promise!Init, Doc
<1>2. IInv /\ [Next]_vars => [Promise!Next]_<<Doc, consent>>
  <2> SUFFICES ASSUME IInv, [Next]_vars PROVE [Promise!Next]_<<Doc, consent>>
    OBVIOUS
  <2>1. CASE Next
    BY <2>1, StepIsPromised
  <2>2. CASE UNCHANGED vars
    BY <2>2 DEF vars, tabVars, Doc
  <2> QED BY <2>1, <2>2
<1> QED BY IInvInit, IInvStep, <1>1, <1>2, PTL DEF Spec, ClosesOnlyWithConsent,
   Promise!Spec

-----------------------------------------------------------------------------
(***************************************************************************)
(* The queue of Save As.                                                   *)
(***************************************************************************)

\* While a dialog is up nothing closes a tab it is about: such a tab is not
\* being saved, or by an autosave, that no watcher waits for.  Those that wait
\* for their dialog cannot be saved without it.
AsksAreSteady ==
    ~destroyed =>
        /\ \A t \in dialog.docs :
              \/ state[t] \in {"NORMAL", "SAVING_ERROR"}
              \/ state[t] = "SAVING" /\ t \notin watched /\ t \notin unnamed
        /\ \A t \in Range(queue) : t \in unnamed /\ state[t] = "NORMAL"

\* A watcher on a tab at rest waits for the Save As of an untitled document, so
\* that no autosave ends under it.
WatchersWait == \A t \in watched : state[t] = "NORMAL" => t \in unnamed

\* The second inductive invariant, which rests on the first.
Helpers == TypeOK /\ QueueIsAlive /\ AsksAreSteady /\ WatchersWait

\* Tabs in page order are all different, and are those that were asked for.
LEMMA InPageOrderIs ==
    ASSUME NEW tabs
    PROVE  /\ InPageOrder(tabs) \in Seq(Tabs) /\ IsInjective(InPageOrder(tabs))
           /\ Range(InPageOrder(tabs)) \subseteq tabs
  <1> DEFINE n == Len(Opened)
             S == Seq(Tabs)
             Step(k, l) == IF Opened[k] \in tabs THEN Append(l, Opened[k]) ELSE l
             list == CHOOSE f : f = [k \in 0..n |-> IF k = 0 THEN <<>> ELSE Step(k, f[k - 1])]
             Fine(l, k) == /\ IsInjective(l) /\ Range(l) \subseteq tabs
                           /\ Range(l) \subseteq {Opened[i] : i \in 1..k}
  <1>1. /\ n \in Nat /\ DOMAIN Opened = 1..n /\ \A i \in 1..n : Opened[i] \in Tabs
        /\ \A i, j \in 1..n : Opened[i] = Opened[j] => i = j
    BY TabAssumption, LenProperties DEF Tabs, IsInjective
  <1>2. InPageOrder(tabs) = list[n] BY DEF InPageOrder
  <1>3. <<>> \in S OBVIOUS
  <1>4. \A k \in 1..n, l \in S :
           /\ Step(k, l) \in S
           /\ Fine(l, k - 1) => Fine(Step(k, l), k)
    <2> SUFFICES ASSUME NEW k \in 1..n, NEW l \in S
                 PROVE  Step(k, l) \in S /\ (Fine(l, k - 1) => Fine(Step(k, l), k))
      OBVIOUS
    <2>1. 1..(k - 1) \subseteq 1..k /\ k \in Nat BY <1>1
    <2>2. CASE Opened[k] \notin tabs BY <2>1, <2>2
    <2>3. CASE Opened[k] \in tabs
      <3>1. PICK t \in Tabs : t = Opened[k] BY <1>1
      <3>2. PICK b : b = Append(l, t) OBVIOUS
      <3>3. /\ b \in Seq(Tabs) /\ Len(b) = Len(l) + 1 /\ b[Len(l) + 1] = t
            /\ \A j \in 1..Len(l) : b[j] = l[j]
        BY <3>2, AppendProperties
      <3>4. Len(l) \in Nat /\ DOMAIN b = 1..(Len(l) + 1) /\ DOMAIN l = 1..Len(l)
        BY <3>3, LenProperties
      <3>5. \A j \in DOMAIN b : j \in DOMAIN l \/ j = Len(l) + 1 BY <3>4
      <3>6. Range(b) \subseteq Range(l) \union {t} BY <3>3, <3>4, <3>5 DEF Range
      <3>7. ASSUME Fine(l, k - 1) PROVE t \notin Range(l)
        <4>1. \A i \in 1..(k - 1) : i \in 1..n /\ i # k BY <1>1
        <4>2. \A i \in 1..(k - 1) : Opened[i] # t BY <1>1, <3>1, <4>1
        <4> QED BY <3>7, <4>2
      <3>8. ASSUME Fine(l, k - 1) PROVE IsInjective(b)
        <4>1. \A j \in DOMAIN l : l[j] # t BY <3>7, <3>8 DEF Range
        <4>2. \A i, j \in DOMAIN l : l[i] = l[j] => i = j BY <3>8 DEF IsInjective
        <4> QED BY <3>3, <3>4, <3>5, <4>1, <4>2 DEF IsInjective
      <3>9. t \in {Opened[i] : i \in 1..k} BY <2>1, <3>1
      <3>10. Step(k, l) = b BY <2>3, <3>1, <3>2
      <3> QED BY <2>1, <2>3, <3>1, <3>3, <3>6, <3>8, <3>9, <3>10
    <2> QED BY <2>2, <2>3
  <1>5. Fine(<<>>, 0) BY DEF IsInjective, Range
  <1> HIDE DEF Step, Fine, S, n
  <1>6. \E f : f = [k \in 0..n |-> IF k = 0 THEN <<>> ELSE Step(k, f[k - 1])]
    <2> DEFINE h == [k \in 1..n |-> [l \in S |-> Step(k, l)]]
    <2>1. h \in Makers(S, n) BY <1>4 DEF Makers
    <2>2. \A k \in 1..n, l \in S : h[k][l] = Step(k, l) OBVIOUS
    <2> HIDE DEF h
    <2>3. PICK f \in [0..n -> S] : IsMade(f, <<>>, h, n) BY <1>1, <1>3, <2>1, RecursionExists
    <2>4. f[0] = <<>> /\ \A k \in 1..n : f[k] = h[k][f[k - 1]] BY <2>3 DEF IsMade
    <2>5. ASSUME NEW k \in 0..n, k # 0 PROVE f[k] = Step(k, f[k - 1])
      <3>1. k \in 1..n /\ k - 1 \in 0..n BY <1>1, <2>5
      <3> QED BY <2>2, <2>4, <3>1
    <2> QED BY <2>4, <2>5
  <1>7. list = [k \in 0..n |-> IF k = 0 THEN <<>> ELSE Step(k, list[k - 1])] BY <1>6
  <1> HIDE DEF list
  <1>8. list[0] = <<>> /\ \A k \in 0..n : k # 0 => list[k] = Step(k, list[k - 1]) BY <1>1, <1>7
  <1> DEFINE T == {k \in Nat : k <= n => list[k] \in S /\ Fine(list[k], k)}
  <1>9. 0 \in T BY <1>3, <1>5, <1>8
  <1>10. ASSUME NEW k \in Nat, k \in T PROVE k + 1 \in T
    <2> SUFFICES ASSUME k + 1 <= n PROVE list[k + 1] \in S /\ Fine(list[k + 1], k + 1) OBVIOUS
    <2>1. k + 1 \in 1..n /\ k + 1 \in 0..n /\ (k + 1) - 1 = k /\ k <= n BY <1>1
    <2>2. list[k] \in S /\ Fine(list[k], k) BY <1>10, <2>1
    <2> HIDE DEF T
    <2>3. list[k + 1] = Step(k + 1, list[k]) BY <1>8, <2>1
    <2> QED BY <1>4, <2>1, <2>2, <2>3
  <1>11. n \in T
    <2> HIDE DEF T
    <2> QED BY <1>1, <1>9, <1>10, EveryNatural
  <1>12. list[n] \in S /\ Fine(list[n], n) BY <1>1, <1>11
  <1> QED BY <1>2, <1>12 DEF Fine, S

\* The queue without its first tab.
LEMMA TailIs ==
    ASSUME NEW s \in Seq(Tabs), s # <<>>, IsInjective(s)
    PROVE  /\ Head(s) \in Range(s) /\ Head(s) \in Tabs /\ Tail(s) \in Seq(Tabs)
           /\ IsInjective(Tail(s))
           /\ Range(s) \subseteq Tabs
           /\ Range(Tail(s)) \subseteq Range(s) /\ Head(s) \notin Range(Tail(s))
  <1>1. /\ Len(s) \in Nat \ {0} /\ DOMAIN s = 1..Len(s) /\ \A i \in 1..Len(s) : s[i] \in Tabs
        /\ Head(s) = s[1] /\ 1 \in 1..Len(s)
    BY EmptySeq, LenProperties
  <1>2. PICK r : r = Tail(s) OBVIOUS
  <1>3. r \in Seq(Tabs) /\ Len(r) = Len(s) - 1 /\ \A i \in 1..(Len(s) - 1) : r[i] = s[i + 1]
    BY <1>2, HeadTailProperties
  <1>4. DOMAIN r = 1..(Len(s) - 1) BY <1>3, LenProperties
  <1>5. \A i \in DOMAIN r : i + 1 \in DOMAIN s /\ i + 1 # 1 /\ r[i] = s[i + 1] /\ i \in Nat
    BY <1>1, <1>3, <1>4
  <1>6. \A i, j \in DOMAIN s : s[i] = s[j] => i = j BY DEF IsInjective
  <1>7. IsInjective(r)
    <2> SUFFICES ASSUME NEW i \in DOMAIN r, NEW j \in DOMAIN r, r[i] = r[j] PROVE i = j
      BY DEF IsInjective
    <2>1. i + 1 = j + 1 BY <1>5, <1>6
    <2> QED BY <1>5, <2>1
  <1>8. Range(r) \subseteq Range(s) BY <1>5 DEF Range
  <1>9. s[1] \notin Range(r) BY <1>1, <1>5, <1>6 DEF Range
  <1>10. s[1] \in Range(s) /\ Range(s) \subseteq Tabs BY <1>1 DEF Range
  <1> QED BY <1>1, <1>2, <1>3, <1>7, <1>8, <1>9, <1>10

\* What the queue and the dialog are while the window is there.
LEMMA QueueIs ==
    ASSUME Helpers, ~destroyed
    PROVE  /\ queue \in Seq(Tabs) /\ IsInjective(queue)
           /\ queue # <<>> => dialog = [kind |-> "save_as", docs |-> {Head(queue)}]
           /\ dialog = NoDialog \/ dialog.kind \in Confirmations => queue = <<>>
           /\ Range(queue) \subseteq open /\ dialog.docs \subseteq open
           /\ \A t \in Range(queue) : t \in unnamed /\ state[t] = "NORMAL"
           /\ \A t \in dialog.docs :
                 \/ state[t] \in {"NORMAL", "SAVING_ERROR"}
                 \/ state[t] = "SAVING" /\ t \notin watched /\ t \notin unnamed
  BY DEF Helpers, TypeOK, QueueIsAlive, AsksAreSteady, NoDialog, Confirmations

LEMMA NothingQueued == Range(<<>>) = {} /\ <<>> \in Seq(Tabs) /\ IsInjective(<<>>)
  BY DEF Range, IsInjective

\* A step of a tab, whose new state is s, that leaves the queue and the dialog
\* alone.
LEMMA TabSteps ==
    ASSUME Helpers, ~destroyed, NEW t \in Tabs, NEW s \in States, NEW m \in BOOLEAN,
           state' = [state EXCEPT ![t] = s], modified' = [modified EXCEPT ![t] = m],
           unnamed' \subseteq unnamed, unnamed \ unnamed' \subseteq {t},
           watched' \subseteq watched, idles' \subseteq Tabs, mishap' \in BOOLEAN, consent' = {},
           s = "NORMAL" => t \notin watched' \/ t \in unnamed',
           t \in Range(queue) => s = "NORMAL" /\ unnamed' = unnamed,
           t \in dialog.docs => \/ s \in {"NORMAL", "SAVING_ERROR"}
                                \/ s = "SAVING" /\ t \notin watched' /\ t \notin unnamed',
           UNCHANGED <<open, flagged, dialog, queue, quitting, destroyed>>
    PROVE  Helpers'
  <1>1. TypeOK' BY DEF Helpers, TypeOK
  <1>2. QueueIsAlive' BY DEF Helpers, QueueIsAlive
  <1>3. AsksAreSteady' BY DEF Helpers, TypeOK, AsksAreSteady, QueueIsAlive
  <1>4. WatchersWait' BY DEF Helpers, TypeOK, WatchersWait
  <1> QED BY <1>1, <1>2, <1>3, <1>4 DEF Helpers

\* No tab that is asked about, or waits to be, becomes NORMAL by a callback but
\* after an autosave; no idle is pending for it.
LEMMA TabsAre ==
    ASSUME IInv, Helpers, ~destroyed, NEW t \in open
    PROVE  /\ t \in Tabs /\ state[t] \in States /\ modified[t] \in BOOLEAN
           /\ state \in [Tabs -> States] /\ modified \in [Tabs -> BOOLEAN]
           /\ watched \subseteq Tabs /\ idles \subseteq Tabs /\ unnamed \subseteq Tabs
           /\ mishap \in BOOLEAN /\ quitting \in BOOLEAN
           /\ t \in idles => state[t] = "CLOSING"
           /\ t \in watched /\ state[t] = "NORMAL" => t \in unnamed
           /\ state = [state EXCEPT ![t] = state[t]]
           /\ modified = [modified EXCEPT ![t] = modified[t]]
  BY DEF IInv, IdlesAreMarked, Helpers, TypeOK, WatchersWait

LEMMA CallbackHelps ==
    ASSUME IInv, Helpers, NEW t \in Tabs,
           Loaded(t) \/ Saved(t) \/ SaveFails(t) \/ AutoSave(t)
    PROVE  Helpers'
  <1>0. ~destroyed /\ t \in open BY DEF Loaded, Saved, SaveFails, AutoSave
  <1> USE <1>0, QueueIs, TabsAre DEF States
  <1>1. CASE Loaded(t)
    <2>1. state' = [state EXCEPT ![t] = "CLOSING"] \/ state' = [state EXCEPT ![t] = "NORMAL"]
      BY <1>1 DEF Loaded, BecomesNormal
    <2>2. modified' = [modified EXCEPT ![t] = modified[t]] BY <1>1 DEF Loaded
    <2>3. t \notin dialog.docs /\ t \notin Range(queue) BY <1>1 DEF Loaded
    <2>4. /\ watched' \subseteq watched /\ t \notin watched' /\ idles' \subseteq Tabs
          /\ unnamed' = unnamed /\ mishap' = mishap /\ consent' = {}
          /\ UNCHANGED <<open, flagged, dialog, queue, quitting, destroyed>>
      BY <1>1 DEF Loaded, BecomesNormal, Silent
    <2> QED BY <2>1, <2>2, <2>3, <2>4, TabSteps
  <1>2. CASE Saved(t)
    <2>1. \/ state' = [state EXCEPT ![t] = "CLOSING"] /\ t \in watched
          \/ state' = [state EXCEPT ![t] = "NORMAL"]
      BY <1>2 DEF Saved, BecomesNormal
    <2>2. modified' = [modified EXCEPT ![t] = FALSE] BY <1>2 DEF Saved
    <2>3. (t \in dialog.docs => t \notin watched) /\ t \notin Range(queue) BY <1>2 DEF Saved
    <2>4. /\ watched' \subseteq watched /\ t \notin watched' /\ idles' \subseteq Tabs
          /\ unnamed' = unnamed \ {t} /\ mishap' = mishap /\ consent' = {}
          /\ UNCHANGED <<open, flagged, dialog, queue, quitting, destroyed>>
      BY <1>2 DEF Saved, BecomesNormal, Silent
    <2> QED BY <2>1, <2>2, <2>3, <2>4, TabSteps
  <1>3. CASE SaveFails(t)
    <2>1. state' = [state EXCEPT ![t] = "SAVING_ERROR"] BY <1>3 DEF SaveFails
    <2>2. modified' = [modified EXCEPT ![t] = modified[t]] BY <1>3 DEF SaveFails
    <2>3. t \notin Range(queue) BY <1>3 DEF SaveFails
    <2>4. /\ watched' = watched /\ idles' = idles
          /\ unnamed' = unnamed /\ mishap' = quitting /\ consent' = {}
          /\ UNCHANGED <<open, flagged, dialog, queue, quitting, destroyed>>
      BY <1>3 DEF SaveFails, Silent, helperVars
    <2> QED BY <2>1, <2>2, <2>3, <2>4, TabSteps
  <1>4. CASE AutoSave(t)
    <2>1. state' = [state EXCEPT ![t] = "SAVING"] BY <1>4 DEF AutoSave, StartSaving
    <2>2. modified' = [modified EXCEPT ![t] = modified[t]] BY <1>4 DEF AutoSave
    <2>3. t \notin Range(queue) /\ t \notin watched /\ t \notin unnamed BY <1>4 DEF AutoSave
    <2>4. /\ watched' = watched /\ idles' = idles
          /\ unnamed' = unnamed /\ mishap' = mishap /\ consent' = {}
          /\ UNCHANGED <<open, flagged, dialog, queue, quitting, destroyed>>
      BY <1>4 DEF AutoSave, Silent, helperVars
    <2> QED BY <2>1, <2>2, <2>3, <2>4, TabSteps
  <1> QED BY <1>1, <1>2, <1>3, <1>4

\* What the user does to a tab, he does while no dialog is up.
LEMMA UserHelps ==
    ASSUME IInv, Helpers, NEW t \in Tabs, Edit(t) \/ Revert(t) \/ ErrorAnswered(t)
    PROVE  Helpers'
  <1>0. ~destroyed /\ t \in open /\ dialog = NoDialog
    BY DEF Edit, Revert, ErrorAnswered, UserActs
  <1>1. queue = <<>> /\ dialog.docs = {} BY <1>0, QueueIs DEF NoDialog
  <1>2. Range(queue) = {} BY <1>1, NothingQueued
  <1> USE <1>0, <1>1, <1>2, TabsAre DEF States
  <1>3. CASE Edit(t)
    <2>1. state' = [state EXCEPT ![t] = "NORMAL"] /\ (t \in watched => t \in unnamed)
      BY <1>3 DEF Edit
    <2>2. modified' = [modified EXCEPT ![t] = TRUE] BY <1>3 DEF Edit
    <2>3. /\ watched' = watched /\ idles' = idles
          /\ unnamed' = unnamed /\ mishap' = mishap /\ consent' = {}
          /\ UNCHANGED <<open, flagged, dialog, queue, quitting, destroyed>>
      BY <1>3 DEF Edit, Silent, helperVars
    <2> QED BY <2>1, <2>2, <2>3, TabSteps
  <1>4. CASE Revert(t)
    <2>1. state' = [state EXCEPT ![t] = "LOADING"] BY <1>4 DEF Revert
    <2>2. modified' = [modified EXCEPT ![t] = FALSE] BY <1>4 DEF Revert
    <2>3. /\ watched' = watched /\ idles' = idles
          /\ unnamed' = unnamed /\ mishap' = mishap /\ consent' = {}
          /\ UNCHANGED <<open, flagged, dialog, queue, quitting, destroyed>>
      BY <1>4 DEF Revert, Silent, helperVars
    <2> QED BY <2>1, <2>2, <2>3, TabSteps
  <1>5. CASE ErrorAnswered(t)
    <2>1. \/ state' = [state EXCEPT ![t] = "CLOSING"]
          \/ state' = [state EXCEPT ![t] = "NORMAL"] /\ t \notin watched'
          \/ state' = [state EXCEPT ![t] = "SAVING"]
      BY <1>5 DEF ErrorAnswered, BecomesNormal
    <2>2. modified' = [modified EXCEPT ![t] = modified[t]] BY <1>5 DEF ErrorAnswered
    <2>3. /\ watched' \subseteq watched /\ idles' \subseteq Tabs
          /\ unnamed' = unnamed /\ mishap' = mishap /\ consent' = {}
          /\ UNCHANGED <<open, flagged, dialog, queue, quitting, destroyed>>
      BY <1>5 DEF ErrorAnswered, BecomesNormal, Silent
    <2> QED BY <2>1, <2>2, <2>3, TabSteps
  <1> QED BY <1>3, <1>4, <1>5

\* A step in which tabs leave that nobody is asked about any more.
LEMMA TabsLeave ==
    ASSUME Helpers, ~destroyed, NEW gone,
           open' = open \ gone, watched' = watched \ gone, flagged' = flagged \ gone,
           UNCHANGED <<tabVars, queue>>, idles' \subseteq idles,
           quitting' \in BOOLEAN, destroyed' \in BOOLEAN, mishap' \in BOOLEAN,
           consent' \subseteq Tabs,
           \/ dialog' = NoDialog /\ queue = <<>>
           \/ dialog' = dialog /\ gone \intersect (Range(queue) \union dialog.docs) = {}
    PROVE  Helpers'
  <1>1. TypeOK' BY DEF Helpers, TypeOK, tabVars, NoDialog
  <1>2. QueueIsAlive' BY QueueIs, NothingQueued DEF QueueIsAlive, NoDialog
  <1>3. AsksAreSteady'
    BY QueueIs, NothingQueued DEF AsksAreSteady, NoDialog, tabVars
  <1>4. WatchersWait' BY DEF Helpers, WatchersWait, tabVars
  <1> QED BY <1>1, <1>2, <1>3, <1>4 DEF Helpers

\* A step in which a dialog comes up that asks about open tabs, which are at rest.
LEMMA DialogComes ==
    ASSUME Helpers, ~destroyed, queue = <<>>, NEW docs \in SUBSET open, dialog'.docs = docs,
           dialog'.kind \in {"save_as"} \union Confirmations,
           \A t \in docs : state[t] \in {"NORMAL", "SAVING_ERROR"},
           UNCHANGED <<open, tabVars, helperVars, queue, destroyed>>,
           quitting' \in BOOLEAN, mishap' \in BOOLEAN, consent' = {}
    PROVE  Helpers'
  <1>1. TypeOK' BY DEF Helpers, TypeOK, tabVars, helperVars
  <1>2. QueueIsAlive' BY QueueIs, NothingQueued DEF QueueIsAlive
  <1>3. AsksAreSteady' BY QueueIs, NothingQueued DEF AsksAreSteady, tabVars
  <1>4. WatchersWait' BY DEF Helpers, WatchersWait, tabVars, helperVars
  <1> QED BY <1>1, <1>2, <1>3, <1>4 DEF Helpers

LEMMA FileSaveHelps ==
    ASSUME IInv, Helpers, NEW t \in Tabs, FileSave(t)
    PROVE  Helpers'
  <1>0. /\ ~destroyed /\ t \in open /\ dialog = NoDialog /\ state[t] \in {"NORMAL", "SAVING_ERROR"}
        /\ UNCHANGED <<open, modified, unnamed, watched, flagged, idles, queue, quitting, destroyed, mishap>>
        /\ consent' = {}
    BY DEF FileSave, UserActs, Silent, helperVars
  <1>1. queue = <<>> /\ dialog.docs = {} /\ Range(queue) = {}
    BY <1>0, QueueIs, NothingQueued DEF NoDialog
  <1>2. CASE t \notin unnamed /\ state[t] = "NORMAL" /\ StartSaving({t}) /\ UNCHANGED dialog
    <2>1. state' = [state EXCEPT ![t] = "SAVING"] BY <1>0, <1>2, TabsAre DEF StartSaving
    <2>2. modified' = [modified EXCEPT ![t] = modified[t]] BY <1>0, TabsAre
    <2>3. mishap \in BOOLEAN /\ idles \subseteq Tabs /\ modified[t] \in BOOLEAN BY <1>0, TabsAre
    <2> QED BY <1>0, <1>1, <1>2, <2>1, <2>2, <2>3, TabSteps DEF States
  <1>3. CASE AskName(t) /\ UNCHANGED state
    <2>1. quitting' \in BOOLEAN /\ mishap' \in BOOLEAN BY <1>0, TabsAre
    <2>2. dialog'.docs = {t} /\ dialog'.kind = "save_as" BY <1>3 DEF AskName
    <2> QED BY <1>0, <1>1, <1>3, <2>1, <2>2, DialogComes DEF tabVars, helperVars
  <1> QED BY <1>2, <1>3 DEF FileSave

LEMMA CloseTabHelps ==
    ASSUME IInv, Helpers, NEW t \in Tabs, CloseTab(t)
    PROVE  Helpers'
  <1>0. /\ ~destroyed /\ t \in open /\ dialog = NoDialog
        /\ state[t] \notin {"CLOSING", "SAVING", "SAVING_ERROR"}
        /\ UNCHANGED <<tabVars, idles, queue, destroyed>>
        /\ quitting' = FALSE /\ mishap' = FALSE /\ consent' = {}
    BY DEF CloseTab, UserActs, Silent
  <1>1. queue = <<>> BY <1>0, QueueIs
  <1>2. CASE RemovePages({t}) /\ UNCHANGED dialog
    <2>1. destroyed' \in BOOLEAN BY <1>0 DEF Helpers, TypeOK
    <2> QED BY <1>0, <1>1, <1>2, <2>1, TabsLeave DEF RemovePages
  <1>3. CASE ~CanClose(t) /\ Confirm("confirm", {t}) /\ UNCHANGED <<open, watched, flagged>>
    <2>1. state[t] \in {"NORMAL", "SAVING_ERROR"} BY <1>0, <1>3, TabsAre DEF CanClose, States
    <2>2. dialog'.docs = {t} /\ dialog'.kind \in Confirmations BY <1>3 DEF Confirm, Confirmations
    <2> QED BY <1>0, <1>1, <1>3, <2>1, <2>2, DialogComes DEF helperVars
  <1> QED BY <1>2, <1>3 DEF CloseTab

LEMMA ReallyCloseTabHelps ==
    ASSUME IInv, Helpers, NEW t \in Tabs, ReallyCloseTab(t)
    PROVE  Helpers'
  <1>0. /\ ~destroyed /\ t \in idles /\ idles' \subseteq idles
        /\ UNCHANGED <<tabVars, dialog, queue, quitting, mishap>> /\ consent' = {}
    BY DEF ReallyCloseTab, Silent
  <1>1. mishap' \in BOOLEAN /\ quitting' \in BOOLEAN /\ destroyed' \in BOOLEAN
    BY <1>0 DEF ReallyCloseTab, Helpers, TypeOK
  <1>2. CASE t \in open /\ RemovePages({t})
    <2>1. t \notin Range(queue) \union dialog.docs BY <1>0, <1>2, QueueIs, TabsAre
    <2> QED BY <1>0, <1>1, <1>2, <2>1, TabsLeave DEF RemovePages
  <1>3. CASE t \notin open /\ UNCHANGED <<open, watched, flagged, destroyed>>
    <2>1. open' = open \ {} /\ watched' = watched \ {} /\ flagged' = flagged \ {} BY <1>3
    <2> QED BY <1>0, <1>1, <2>1, TabsLeave
  <1> QED BY <1>2, <1>3 DEF ReallyCloseTab

LEMMA FileCloseAllHelps ==
    ASSUME IInv, Helpers, NEW quit \in BOOLEAN, FileCloseAll(quit)
    PROVE  Helpers'
  <1>0. /\ ~destroyed /\ dialog = NoDialog /\ ~WindowIsSaving
        /\ UNCHANGED <<tabVars, idles, queue>>
        /\ quitting' = quit /\ mishap' = FALSE /\ consent' = {}
    BY DEF FileCloseAll, UserActs, Silent
  <1>1. queue = <<>> BY <1>0, QueueIs
  <1>2. CASE CloseAllTabs(quit) /\ UNCHANGED dialog
    <2>1. open' = open \ open /\ watched' = watched \ open /\ flagged' = flagged \ open /\ destroyed' = quit
      BY <1>0, <1>2 DEF CloseAllTabs, RemovePages
    <2> QED BY <1>0, <1>1, <1>2, <2>1, TabsLeave
  <1>3. CASE Confirm("confirm_all", Unsaved) /\ UNCHANGED <<open, watched, flagged, destroyed>>
    <2>1. \A t \in Unsaved : t \in open /\ state[t] \in {"NORMAL", "SAVING_ERROR"}
      BY <1>0, TabsAre DEF Unsaved, CanClose, States, WindowIsSaving, IInv, MarkedTabsAreSaved
    <2>2. dialog'.docs = Unsaved /\ dialog'.kind \in Confirmations BY <1>3 DEF Confirm, Confirmations
    <2> QED BY <1>0, <1>1, <1>3, <2>1, <2>2, DialogComes DEF helperVars
  <1> QED BY <1>2, <1>3 DEF FileCloseAll

LEMMA AnswerDiscardHelps ==
    ASSUME IInv, Helpers, AnswerDiscard
    PROVE  Helpers'
  <1>0. /\ ~destroyed /\ dialog.kind \in Confirmations /\ dialog' = NoDialog
        /\ UNCHANGED <<tabVars, idles, queue, quitting, mishap>> /\ consent' = dialog.docs
    BY DEF AnswerDiscard
  <1>1. queue = <<>> BY <1>0, QueueIs
  <1>2. /\ mishap' \in BOOLEAN /\ quitting' \in BOOLEAN /\ destroyed' \in BOOLEAN
        /\ consent' \subseteq Tabs
    BY <1>0 DEF AnswerDiscard, CloseAllTabs, Helpers, TypeOK
  <1>3. \E gone : open' = open \ gone /\ watched' = watched \ gone /\ flagged' = flagged \ gone
    <2>1. CASE RemovePages(open) BY <2>1 DEF RemovePages
    <2>2. CASE RemovePages(dialog.docs) BY <2>2 DEF RemovePages
    <2>3. CASE UNCHANGED <<open, watched, flagged>>
      <3>1. open' = open \ {} /\ watched' = watched \ {} /\ flagged' = flagged \ {} BY <2>3
      <3> QED BY <3>1
    <2> QED BY <2>1, <2>2, <2>3 DEF AnswerDiscard, CloseAllTabs
  <1> QED BY <1>0, <1>1, <1>2, <1>3, TabsLeave

LEMMA AnswerCancelHelps ==
    ASSUME IInv, Helpers, AnswerCancel
    PROVE  Helpers'
  <1>0. /\ ~destroyed /\ dialog.kind \in Confirmations /\ dialog' = NoDialog
        /\ UNCHANGED <<open, tabVars, helperVars, queue, destroyed>>
        /\ quitting' = FALSE /\ mishap' = FALSE /\ consent' = {}
    BY DEF AnswerCancel, Silent
  <1>1. queue = <<>> BY <1>0, QueueIs
  <1>2. open' = open \ {} /\ watched' = watched \ {} /\ flagged' = flagged \ {} BY <1>0 DEF helperVars
  <1>3. destroyed' \in BOOLEAN BY <1>0 DEF Helpers, TypeOK
  <1> QED BY <1>0, <1>1, <1>2, <1>3, TabsLeave DEF helperVars

\* A save that was started, of tabs no dialog asks about, or whose dialog closes.
LEMMA Saving ==
    ASSUME IInv, NEW tabs \in SUBSET Tabs, StartSaving(tabs)
    PROVE  /\ state' \in [Tabs -> States]
           /\ \A t \in Tabs : \/ state'[t] = state[t]
                              \/ t \in tabs /\ state[t] = "NORMAL" /\ state'[t] = "SAVING"
           /\ \A t \in Tabs : state'[t] = "NORMAL" => state[t] = "NORMAL" /\ t \notin tabs
  BY DEF IInv, Types, StartSaving, States

\* Save All starts a queue of untitled tabs, and saves those it can by themselves.
LEMMA SaveAllHelps ==
    ASSUME IInv, Helpers, SaveAll
    PROVE  Helpers'
  <1>0. /\ ~destroyed /\ dialog = NoDialog
        /\ UNCHANGED <<open, modified, unnamed, watched, flagged, idles, quitting, destroyed, mishap>>
        /\ consent' = {}
    BY DEF SaveAll, UserActs, Silent, helperVars
  <1>1. queue = <<>> BY <1>0, QueueIs
  <1>2. PICK closing, reached, list :
           /\ closing = {t \in open : state[t] = "CLOSING"}
           /\ reached = Before(closing)
           /\ list = InPageOrder({t \in reached \intersect unnamed : state[t] = "NORMAL" /\ NeedsSaving(t)})
    OBVIOUS
  <1>3. /\ StartSaving(reached \ unnamed)
        /\ \/ list # <<>> /\ queue' = list /\ AskName(Head(list))
           \/ UNCHANGED <<queue, dialog>>
    BY <1>2 DEF SaveAll
  <1>4. reached \subseteq open
    BY <1>2 DEF Before
  <1>5. /\ list \in Seq(Tabs) /\ IsInjective(list)
        /\ \A t \in Range(list) : t \in open /\ t \in unnamed /\ state[t] = "NORMAL"
    <2>1. PICK T : T = {t \in reached \intersect unnamed : state[t] = "NORMAL" /\ NeedsSaving(t)} OBVIOUS
    <2>2. list \in Seq(Tabs) /\ IsInjective(list) /\ Range(list) \subseteq T
      BY <1>2, <2>1, InPageOrderIs
    <2> QED BY <1>4, <2>1, <2>2
  <1>6. open \subseteq Tabs BY DEF Helpers, TypeOK
  <1>7. /\ state' \in [Tabs -> States]
        /\ \A t \in Tabs : t \in unnamed => state'[t] = state[t]
        /\ \A t \in Tabs : state'[t] = "NORMAL" => state[t] = "NORMAL"
    <2>1. reached \ unnamed \in SUBSET Tabs BY <1>4, <1>6
    <2> QED BY <1>3, <2>1, Saving
  <1>8. WatchersWait' BY <1>0, <1>6, <1>7 DEF Helpers, TypeOK, WatchersWait
  <1>9. CASE list # <<>> /\ queue' = list /\ AskName(Head(list))
    <2>1. PICK h : h = Head(list) OBVIOUS
    <2>2. h \in Range(list) /\ dialog' = [kind |-> "save_as", docs |-> {h}]
      BY <1>5, <1>9, <2>1, TailIs DEF AskName
    <2>3. h \in open /\ h \in unnamed /\ h \in Tabs /\ state'[h] = "NORMAL"
      BY <1>5, <1>6, <1>7, <2>2
    <2>4. TypeOK' BY <1>0, <1>5, <1>7, <1>9, <2>2, <2>3 DEF Helpers, TypeOK
    <2>5. QueueIsAlive' BY <1>0, <1>5, <1>9, <2>1, <2>2, <2>3 DEF QueueIsAlive
    <2>6. AsksAreSteady' BY <1>0, <1>5, <1>6, <1>7, <1>9, <2>2, <2>3 DEF AsksAreSteady
    <2> QED BY <1>8, <2>4, <2>5, <2>6 DEF Helpers
  <1>10. CASE UNCHANGED <<queue, dialog>>
    <2>1. dialog.docs = {} /\ Range(queue) = {} BY <1>0, <1>1, NothingQueued DEF NoDialog
    <2>2. TypeOK' BY <1>0, <1>7, <1>10 DEF Helpers, TypeOK
    <2>3. QueueIsAlive' BY <1>0, <1>10 DEF Helpers, QueueIsAlive
    <2>4. AsksAreSteady' BY <1>0, <1>10, <2>1 DEF AsksAreSteady
    <2> QED BY <1>8, <2>2, <2>3, <2>4 DEF Helpers
  <1> QED BY <1>3, <1>9, <1>10

\* The answer to a Save As closes its dialog, and the next tab of the queue has
\* its turn: it is untitled and at rest, since nothing else could save it.
LEMMA SaveAsAnsweredHelps ==
    ASSUME IInv, Helpers, SaveAsAnswered
    PROVE  Helpers'
  <1>0. /\ ~destroyed /\ dialog.kind = "save_as"
        /\ UNCHANGED <<open, modified, unnamed, idles, quitting, destroyed>> /\ consent' = {}
        /\ StartSaving(dialog.docs) \/ UNCHANGED state
        /\ mishap' = mishap \/ mishap' = quitting
        /\ NextInQueue
    BY DEF SaveAsAnswered, Silent
  <1>1. open \subseteq Tabs /\ dialog.docs \subseteq Tabs BY DEF Helpers, TypeOK
  <1>2. /\ state' \in [Tabs -> States]
        /\ \A t \in Tabs : t \notin dialog.docs => state'[t] = state[t]
        /\ \A t \in Tabs : state'[t] = "NORMAL" => state[t] = "NORMAL"
    <2>1. CASE StartSaving(dialog.docs) BY <1>1, <2>1, Saving
    <2>2. CASE UNCHANGED state BY <2>2 DEF Helpers, TypeOK
    <2> QED BY <1>0, <2>1, <2>2
  <1>3. mishap' \in BOOLEAN BY <1>0 DEF Helpers, TypeOK
  <1>4. CASE queue = <<>> \/ dialog.docs # {Head(queue)}
    <2>1. queue = <<>> BY <1>0, <1>4, QueueIs
    <2>2. /\ queue' = <<>> /\ dialog' = NoDialog /\ UNCHANGED <<flagged, watched>>
      BY <1>0, <1>4, <2>1 DEF NextInQueue
    <2>3. TypeOK' BY <1>0, <1>2, <1>3, <2>2, NothingQueued DEF Helpers, TypeOK, NoDialog
    <2>4. QueueIsAlive' BY <1>0, <2>2, NothingQueued DEF QueueIsAlive, NoDialog
    <2>5. AsksAreSteady' BY <1>0, <2>2, NothingQueued DEF AsksAreSteady, NoDialog
    <2>6. WatchersWait' BY <1>0, <1>1, <1>2, <2>2 DEF Helpers, TypeOK, WatchersWait
    <2> QED BY <2>3, <2>4, <2>5, <2>6 DEF Helpers
  <1>5. CASE ~(queue = <<>> \/ dialog.docs # {Head(queue)})
    <2>1. PICK h, r : h = Head(queue) /\ r = Tail(queue) OBVIOUS
    <2>2. /\ r \in Seq(Tabs) /\ IsInjective(r) /\ Range(r) \subseteq Range(queue) /\ h \notin Range(r)
      BY <1>0, <1>5, <2>1, QueueIs, TailIs
    <2>3. dialog.docs = {h} BY <1>5, <2>1
    <2>4. \A t \in Range(r) : t \in open /\ t \in unnamed /\ t \in Tabs /\ state'[t] = "NORMAL"
      BY <1>0, <1>1, <1>2, <2>2, <2>3, QueueIs
    <2>5. queue' = r BY <1>0, <1>5, <2>1 DEF NextInQueue
    <2>6. CASE r = <<>>
      <3>1. dialog' = NoDialog /\ UNCHANGED <<flagged, watched>>
        BY <1>0, <1>5, <2>1, <2>6 DEF NextInQueue
      <3>2. TypeOK' BY <1>0, <1>2, <1>3, <2>2, <2>5, <3>1 DEF Helpers, TypeOK, NoDialog
      <3>3. QueueIsAlive' BY <1>0, <2>2, <2>4, <2>5, <2>6, <3>1 DEF QueueIsAlive, NoDialog
      <3>4. AsksAreSteady' BY <1>0, <2>4, <2>5, <3>1 DEF AsksAreSteady, NoDialog
      <3>5. WatchersWait' BY <1>0, <1>1, <1>2, <3>1 DEF Helpers, TypeOK, WatchersWait
      <3> QED BY <3>2, <3>3, <3>4, <3>5 DEF Helpers
    <2>7. CASE r # <<>>
      <3>1. PICK next : next = Head(r) OBVIOUS
      <3>2. /\ AskName(next) /\ flagged' = flagged \ {next}
            /\ watched' = watched \union (flagged \intersect {next})
        BY <1>0, <1>5, <2>1, <2>7, <3>1 DEF NextInQueue
      <3>3. next \in Range(r) BY <2>2, <2>7, <3>1, TailIs
      <3>4. next \in open /\ next \in unnamed /\ next \in Tabs /\ state'[next] = "NORMAL"
        BY <2>4, <3>3
      <3>5. dialog' = [kind |-> "save_as", docs |-> {next}] BY <3>2 DEF AskName
      <3>6. watched' \subseteq open /\ flagged' \subseteq open
        BY <3>2, <3>4 DEF Helpers, TypeOK
      <3>7. TypeOK' BY <1>0, <1>2, <1>3, <2>2, <2>5, <3>4, <3>5, <3>6 DEF Helpers, TypeOK
      <3>8. QueueIsAlive' BY <1>0, <2>2, <2>4, <2>5, <3>1, <3>4, <3>5 DEF QueueIsAlive
      <3>9. AsksAreSteady' BY <1>0, <2>4, <2>5, <3>4, <3>5 DEF AsksAreSteady
      <3>10. WatchersWait'
        BY <1>0, <1>1, <1>2, <3>2, <3>4 DEF Helpers, TypeOK, WatchersWait
      <3> QED BY <3>7, <3>8, <3>9, <3>10 DEF Helpers
    <2> QED BY <2>6, <2>7
  <1> QED BY <1>4, <1>5

\* save_and_close: the tab of the dialog is saved, or asked about again.
LEMMA SaveAndCloseHelps ==
    ASSUME IInv, Helpers, ~destroyed, dialog.kind \in Confirmations, NEW t \in dialog.docs,
           SaveAndClose(t), consent' \subseteq Tabs,
           UNCHANGED <<modified, unnamed, idles, quitting, destroyed>>
    PROVE  Helpers'
  <1>0. queue = <<>> /\ t \in open /\ t \in Tabs BY QueueIs DEF Helpers, TypeOK
  <1>1. /\ watched' = watched \union {t}
        /\ UNCHANGED <<open, flagged, queue, mishap>>
    BY DEF SaveAndClose
  <1>2. CASE t \in unnamed
    <2>1. dialog' = [kind |-> "save_as", docs |-> {t}] /\ state' = state
      BY <1>2 DEF SaveAndClose, AskName
    <2>2. state[t] \in {"NORMAL", "SAVING_ERROR"} BY <1>2, QueueIs
    <2>3. TypeOK' BY <1>0, <1>1, <2>1 DEF Helpers, TypeOK
    <2>4. QueueIsAlive' BY <1>0, <1>1, <2>1, NothingQueued DEF QueueIsAlive
    <2>5. AsksAreSteady' BY <1>0, <1>1, <2>1, <2>2, NothingQueued DEF AsksAreSteady
    <2>6. WatchersWait' BY <1>1, <1>2, <2>1 DEF Helpers, WatchersWait
    <2> QED BY <2>3, <2>4, <2>5, <2>6 DEF Helpers
  <1>3. CASE t \notin unnamed
    <2>1. dialog' = NoDialog /\ StartSaving({t}) BY <1>3 DEF SaveAndClose
    <2>2. /\ state' \in [Tabs -> States]
          /\ \A s \in Tabs : state'[s] = "NORMAL" => state[s] = "NORMAL" /\ s # t
      <3>1. {t} \in SUBSET Tabs BY <1>0
      <3> QED BY <2>1, <3>1, Saving
    <2>3. TypeOK' BY <1>0, <1>1, <2>1, <2>2 DEF Helpers, TypeOK, NoDialog
    <2>4. QueueIsAlive' BY <1>0, <1>1, <2>1, NothingQueued DEF QueueIsAlive, NoDialog
    <2>5. AsksAreSteady' BY <1>0, <1>1, <2>1, NothingQueued DEF AsksAreSteady, NoDialog
    <2>6. WatchersWait' BY <1>0, <1>1, <2>2 DEF Helpers, TypeOK, WatchersWait
    <2> QED BY <2>3, <2>4, <2>5, <2>6 DEF Helpers
  <1> QED BY <1>2, <1>3

\* save_and_close_all_documents: of the selected tabs that can be saved, those
\* that have a name are saved, and the others make the queue.
LEMMA SaveAndCloseAllHelps ==
    ASSUME IInv, Helpers, ~destroyed, dialog.kind \in Confirmations,
           NEW selected \in SUBSET dialog.docs, SaveAndCloseAll(selected), consent' \subseteq Tabs,
           UNCHANGED <<modified, unnamed, idles, quitting, destroyed>>
    PROVE  Helpers'
  <1>0. queue = <<>> /\ selected \subseteq open /\ open \subseteq Tabs
    BY QueueIs DEF Helpers, TypeOK
  <1>1. CASE Unfit(selected) # {}
    <2>1. /\ flagged' \subseteq flagged \union Savable(selected)
          /\ mishap' = quitting /\ dialog' = NoDialog
          /\ UNCHANGED <<open, state, watched, queue>>
      BY <1>1 DEF SaveAndCloseAll
    <2>2. Savable(selected) \subseteq open BY <1>0 DEF Savable
    <2>3. TypeOK' BY <2>1, <2>2 DEF Helpers, TypeOK, NoDialog
    <2>4. QueueIsAlive' BY <1>0, <2>1, NothingQueued DEF QueueIsAlive, NoDialog
    <2>5. AsksAreSteady' BY <1>0, <2>1, NothingQueued DEF AsksAreSteady, NoDialog
    <2>6. WatchersWait' BY <2>1 DEF Helpers, WatchersWait
    <2> QED BY <2>3, <2>4, <2>5, <2>6 DEF Helpers
  <1>2. CASE Unfit(selected) = {}
    <2>1. PICK fit, gone, list :
             /\ fit = Savable(selected) /\ gone = ToClose(selected)
             /\ list = InPageOrder(fit \intersect unnamed)
      OBVIOUS
    <2>2. /\ fit \subseteq open \ gone /\ gone \subseteq open
          /\ \A t \in fit : state[t] = "NORMAL"
      BY <1>0, <2>1 DEF Savable, ToClose
    <2>3. /\ open' = open \ gone
          /\ StartSaving(fit \ unnamed)
          /\ mishap' \in BOOLEAN
          /\ \/ /\ list # <<>> /\ queue' = list /\ AskName(Head(list))
                /\ watched' = (watched \ gone) \union (fit \ unnamed) \union {Head(list)}
                /\ flagged' = (flagged \ gone) \union Range(Tail(list))
             \/ /\ dialog' = NoDialog /\ queue' = queue
                /\ watched' = (watched \ gone) \union (fit \ unnamed)
                /\ flagged' = (flagged \ gone) \union Range(list)
      BY <1>2, <2>1 DEF SaveAndCloseAll, Helpers, TypeOK
    <2>4. /\ list \in Seq(Tabs) /\ IsInjective(list) /\ Range(list) \subseteq fit \intersect unnamed
      BY <2>1, InPageOrderIs
    <2>5. /\ state' \in [Tabs -> States]
          /\ \A t \in Tabs : t \in unnamed => state'[t] = state[t]
          /\ \A t \in Tabs : state'[t] = "NORMAL" => state[t] = "NORMAL" /\ t \notin fit \ unnamed
      <3>1. fit \ unnamed \in SUBSET Tabs BY <1>0, <2>2
      <3> QED BY <2>3, <3>1, Saving
    <2>6. \A t \in Range(list) :
             t \in open' /\ t \in unnamed /\ t \in Tabs /\ state'[t] = "NORMAL"
      BY <1>0, <2>2, <2>3, <2>4, <2>5
    <2>7. CASE /\ list # <<>> /\ queue' = list /\ AskName(Head(list))
               /\ watched' = (watched \ gone) \union (fit \ unnamed) \union {Head(list)}
               /\ flagged' = (flagged \ gone) \union Range(Tail(list))
      <3>1. PICK h : h = Head(list) OBVIOUS
      <3>2. h \in Range(list) /\ Range(Tail(list)) \subseteq Range(list) BY <2>4, <2>7, <3>1, TailIs
      <3>3. h \in open' /\ h \in unnamed /\ h \in Tabs /\ state'[h] = "NORMAL" BY <2>6, <3>2
      <3>4. dialog' = [kind |-> "save_as", docs |-> {h}] BY <2>7, <3>1 DEF AskName
      <3>5. watched' \subseteq open' /\ flagged' \subseteq open' /\ open' \subseteq Tabs
        BY <1>0, <2>2, <2>3, <2>6, <2>7, <3>1, <3>2, <3>3 DEF Helpers, TypeOK
      <3>6. TypeOK' BY <2>3, <2>4, <2>5, <2>7, <3>3, <3>4, <3>5 DEF Helpers, TypeOK
      <3>7. QueueIsAlive' BY <2>4, <2>6, <2>7, <3>1, <3>3, <3>4 DEF QueueIsAlive
      <3>8. AsksAreSteady' BY <2>6, <2>7, <3>3, <3>4 DEF AsksAreSteady
      <3>9. WatchersWait'
        BY <1>0, <2>2, <2>5, <2>7, <3>1, <3>3 DEF Helpers, TypeOK, WatchersWait
      <3> QED BY <3>6, <3>7, <3>8, <3>9 DEF Helpers
    <2>8. CASE /\ dialog' = NoDialog /\ queue' = queue
               /\ watched' = (watched \ gone) \union (fit \ unnamed)
               /\ flagged' = (flagged \ gone) \union Range(list)
      <3>1. watched' \subseteq open' /\ flagged' \subseteq open' /\ open' \subseteq Tabs
        BY <1>0, <2>2, <2>3, <2>6, <2>8 DEF Helpers, TypeOK
      <3>2. TypeOK' BY <1>0, <2>3, <2>5, <2>8, <3>1 DEF Helpers, TypeOK, NoDialog
      <3>3. QueueIsAlive' BY <1>0, <2>8, NothingQueued DEF QueueIsAlive, NoDialog
      <3>4. AsksAreSteady' BY <1>0, <2>8, NothingQueued DEF AsksAreSteady, NoDialog
      <3>5. WatchersWait' BY <1>0, <2>2, <2>5, <2>8 DEF Helpers, TypeOK, WatchersWait
      <3> QED BY <3>2, <3>3, <3>4, <3>5 DEF Helpers
    <2> QED BY <2>3, <2>7, <2>8
  <1> QED BY <1>1, <1>2

LEMMA AnswerSaveHelps ==
    ASSUME IInv, Helpers, NEW selected \in SUBSET Tabs, AnswerSave(selected)
    PROVE  Helpers'
  <1>0. /\ ~destroyed /\ dialog.kind \in Confirmations /\ selected \in SUBSET dialog.docs
        /\ UNCHANGED <<modified, unnamed, idles, quitting, destroyed>>
    BY DEF AnswerSave
  <1>1. consent' \subseteq Tabs BY DEF AnswerSave, Helpers, TypeOK
  <1>2. SaveAndCloseAll(selected) \/ \E t \in dialog.docs : SaveAndClose(t)
    BY <1>0 DEF AnswerSave
  <1> QED BY <1>0, <1>1, <1>2, SaveAndCloseHelps, SaveAndCloseAllHelps

LEMMA HelpersInit == Init => Helpers
  <1> SUFFICES ASSUME Init PROVE Helpers OBVIOUS
  <1> USE NothingQueued, TabAssumption
  <1>1. TypeOK BY DEF Init, TypeOK, NoDialog, States, Tabs
  <1>2. QueueIsAlive BY DEF Init, QueueIsAlive, NoDialog
  <1>3. AsksAreSteady BY DEF Init, AsksAreSteady, NoDialog
  <1>4. WatchersWait BY DEF Init, WatchersWait
  <1> QED BY <1>1, <1>2, <1>3, <1>4 DEF Helpers

LEMMA HelpersStep == IInv /\ Helpers /\ [Next]_vars => Helpers'
  <1> SUFFICES ASSUME IInv, Helpers, [Next]_vars PROVE Helpers' OBVIOUS
  <1>1. CASE UNCHANGED vars
    BY <1>1 DEF vars, tabVars, helperVars, Helpers, TypeOK, QueueIsAlive, AsksAreSteady, WatchersWait
  <1> QED BY <1>1, CallbackHelps, UserHelps, FileSaveHelps, CloseTabHelps, ReallyCloseTabHelps,
             SaveAllHelps, SaveAsAnsweredHelps, FileCloseAllHelps, AnswerSaveHelps,
             AnswerDiscardHelps, AnswerCancelHelps DEF Next

\* For any number of tabs, whatever ends while dialogs are up: the queue of Save
\* As works on tabs that are there, one after the other, and so do watchers and
\* flags (save_dialog_response_cb, save_and_close_all_documents).
THEOREM HelpersStaySound == Spec => []HelpersAreSound
  <1>1. Helpers => HelpersAreSound BY DEF Helpers, HelpersAreSound
  <1> QED BY IInvInit, IInvStep, HelpersInit, HelpersStep, <1>1, PTL DEF Spec
=============================================================================
