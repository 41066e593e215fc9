SPECIFICATION MCSpec
CONSTANTS
  w1 = w1
  w2 = w2
  d1 = d1
  d2 = d2
  d3 = d3
  f = f
  g = g
  NoWindow = NoWindow
  Windows <- MCWindows
  WindowOf <- MCWindowOf
  MaxSaves = 3
  MaxEdits = 3
  Crashes = TRUE
  MaxTabs = 3
  MaxWindows = 2
  Untitled = Untitled
  Files <- MCFiles
  Requests <- MCRequests
  NoSession = NoSession
CHECK_DEADLOCK FALSE
INVARIANTS
    ProtocolIsKept
    NothingIsLost
    FilesAreOpenedOnce
PROPERTIES
    QuitRequestEnds
    WhatWasAskedForIsShown
