SPECIFICATION Spec
CONSTANTS
    ShowSaveConfirmation = TRUE
    World = {"printing", "absent", "permissions"}
INVARIANT TypeOK
INVARIANT OneOperation
INVARIANT BarMatchesState
 
INVARIANT UnmodifiedIsSaved
PROPERTY ModifiedTabsAreKept
CHECK_DEADLOCK FALSE
