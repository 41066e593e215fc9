SPECIFICATION FairSpec
CONSTANTS
  Identifiers = {"a", "b"}
  Funcs = {"f"}
  MaxListeners = 2
  MaxSends = 3
  MaxDepth = 4
CHECK_DEADLOCK FALSE
INVARIANTS
    BusIsSound
    InTheOrderSent
PROPERTIES
    MessagesAreDispatched
