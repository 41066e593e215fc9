SPECIFICATION FairSpec
CONSTANTS
  Procs = {p, q}
  Uris = {"u", "v"}
  Keys = {"k"}
  Values = {1}
  NoValue = 0
  NoFile = NoFile
  Nobody = Nobody
  Stale = Stale
  MaxItems = 1
  MaxStarts = 3
  MaxCrashes = 1
  MaxSets = 2
  MaxTime = 1
CHECK_DEADLOCK FALSE
INVARIANTS
    InstancesAgree
PROPERTIES
    
    OldestGoFirst
