SPECIFICATION MCSpec
CONSTANTS
    Newline = Newline
    NoText = NoText
    NoRegion = NoRegion
    Characters <- MCCharacters
    Typed <- MCTyped
    Entered <- MCEntered
    Needles <- MCNeedles
    Replacements <- MCReplacements
    Options <- MCOptions
    MaxSubregions = 3
    MaxLength = 3
INVARIANTS
    MarksAreInPlace
    SearchIsExact
PROPERTIES
    CancelPutsBack
