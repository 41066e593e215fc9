SPECIFICATION Spec
CONSTANTS
    ShowSaveConfirmation = TRUE
    World = {"duplicate", "unreadable", "no_backup"}
INVARIANT NoTimerWhileBusy
CHECK_DEADLOCK FALSE
