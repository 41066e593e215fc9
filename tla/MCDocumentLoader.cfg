SPECIFICATION LoadSpec
CONSTANTS
    UnicharLen  = 3
    CharLen     = 3
    ReadChunkSize = 4
    MaxReplaced = 1
    ReadCount   = 3
    Texts        <- MCTexts
    Loads        <- MCLoads
    Contents     <- MCContents
    Replacements <- MCReplacements
    Encodings    <- MCEncodings
    AutoDetected <- MCAutoDetected
CHECK_DEADLOCK FALSE
INVARIANTS
    
    RoundTrip
    LoadEndsOnce
PROPERTIES
    NearerTheEnd
