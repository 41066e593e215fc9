SPECIFICATION Spec
CONSTANTS
    Windows = {w1, w2}
    Tabs = {t1, t2, t3}
    MaxBusy = 2
    Together = {"SAVING", "SAVING_ERROR"}
SYMMETRY Symmetry
CHECK_DEADLOCK FALSE

    
PROPERTIES
    ClosingReturns
