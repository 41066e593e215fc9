------------------------------- MODULE Charsets -----------------------------
(* What DocumentLoader is about: the charsets a file may be read in, the     *)
(* files, and how many loads of them there are.                              *)
EXTENDS TextBytes, FiniteSets

UTF8  == "UTF-8"
ASCII == "ASCII"    \* a charset that has no character for some bytes
LATIN == "LATIN"    \* a charset that has one for every byte

NoEncoding == "none"

CONSTANTS
    UnicharLen,     \* MAX_UNICHAR_LEN
    CharLen,        \* the 6 of guess_encoding: a rest shorter than that is let pass
    Loads,          \* the loads of a behaviour: 1..n, in their order
    Contents,       \* what a file may contain
    Replacements,   \* what another program may put in its place
    Encodings,      \* those a user may ask for
    AutoDetected,   \* lapiz_prefs_manager_get_auto_detected_encodings
    ReadChunkSize,  \* READ_CHUNK_SIZE, the bytes of the file in one piece
    MaxReplaced     \* bound: times the file is replaced by another program

ASSUME LoadsAssumption == Cardinality(Loads) \in Nat /\ Loads = 1..Cardinality(Loads)
ASSUME ContentAssumption ==
    Replacements \subseteq Contents /\ Contents \subseteq Seq(Bytes) /\ IsFiniteSet(Contents)
ASSUME LengthAssumption ==
    {UnicharLen, CharLen} \subseteq Nat \ {0, 1} /\ ReadChunkSize \in Nat \ {0} /\ MaxReplaced \in Nat
ASSUME EncodingAssumption ==
    NoEncoding \notin Encodings /\ UTF8 \in Encodings /\ AutoDetected \in Seq(Encodings)
=============================================================================
