SPECIFICATION FairSpec
CONSTANTS
  a = a
  b = b
  c = c
  Opened <- MCOpened
  Unnamed <- MCUnnamed
  Autosave = TRUE
CHECK_DEADLOCK FALSE
INVARIANTS
    HelpersAreSound
    MarkedTabsAreSaved
PROPERTIES
    ClosesOnlyWithConsent
    QuitEnds
