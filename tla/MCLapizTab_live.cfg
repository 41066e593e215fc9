SPECIFICATION FairSpec
CONSTANTS
    ShowSaveConfirmation = TRUE
    World = {"printing", "print_error"}
CHECK_DEADLOCK FALSE
INVARIANTS
    ReadyAgain
PROPERTIES
    TabComesToRest
