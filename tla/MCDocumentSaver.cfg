CONSTANTS
    Locations = {a, b}
    LocalLocations = {a}
    FlagSets <- MCFlagSets
    MaxLen = 3
    ChunkSize = 2
    MaxVersion = 2
    MaxClock = 3
SPECIFICATION HSpec
INVARIANTS
    NothingLostOnTheWay
    KnowsItsFile
PROPERTIES
    NeverTorn
    
    SaveEnds
