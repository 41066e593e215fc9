------------------------- MODULE DocumentRoundTrip -------------------------
(* What a save makes of a text, given to DocumentLoader: the text as it is   *)
(* when the document is saved and loaded again.                              *)
EXTENDS DocumentLoader, DocumentInputStream

CONSTANTS
    Texts,          \* the texts that are saved
    ReadCount       \* WRITE_CHUNK_SIZE, the count the saver reads with

\* Text in a buffer is UTF-8, and the longest line end or character is read at once.
ASSUME TextsAssumption ==
    /\ Texts \subseteq Seq(Bytes) /\ \A text \in Texts : Valid(text)
    /\ ReadCount \in Nat \ {0, 1}

\* What a save of a text leaves on the disk.
SavedAs == [text \in Texts |-> [type \in NewlineTypes |-> Saved(text, type, ReadCount)]]

\* A text with each of its line ends made one of the type.
NormalPart(text, type, k) ==
    IF text[k] \notin {CR, LF} THEN <<text[k]>>
    ELSE IF text[k] = LF /\ k > 1 /\ text[k - 1] = CR THEN <<>> ELSE Newline(type)
Normal(text, type) ==
    LET made[k \in 0..Len(text)] == IF k = 0 THEN <<>> ELSE made[k - 1] \o NormalPart(text, type, k)
    IN  made[Len(text)]

\* What a save wrote is loaded as the text that was saved, with its line ends
\* made those of the document, and the document finds their type again; for
\* every way the save and the load cut it (read_line, write).
RoundTrip ==
    \A l \in Loads : LastLoad(l) /\ Done(l, {"none"}) /\ doc.encoding = UTF8 =>
        \A text \in Texts, type \in NewlineTypes : SavedAs[text][type] = loaders[l].content =>
            /\ os.text = Normal(text, type)
            /\ text # <<>> => doc.newline_type = type
=============================================================================
