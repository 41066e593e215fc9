------------------------ MODULE DocumentOutputStream -----------------------
(* What a load writes to (lapiz-document-output-stream.c): the pieces of a   *)
(* file go to the end of the document's buffer; a character or a CR LF that  *)
(* is cut in two waits for the next piece.                                   *)
EXTENDS Charsets

NewOutputStream == [text |-> <<>>, buffer |-> <<>>, is_initialized |-> FALSE,
                    is_closed |-> FALSE, not_undoable |-> 0]

(***************************************************************************)
(* lapiz_document_output_stream_write, -1 when `valid' is FALSE.  The stream *)
(* keeps what it took out of its buffer also then.                          *)
(***************************************************************************)
Write(os, piece) ==
    LET text   == os.buffer \o piece
        len    == Len(text)
        end    == ValidLength(text)
        nvalid == IF end = len /\ len > 1 /\ text[len] = CR THEN end - 1 ELSE end
        kept   == /\ len - nvalid < UnicharLen
                  /\ nvalid < len => PartialChar(text, nvalid + 1) \/ text[nvalid + 1] = CR
        begun  == [os EXCEPT !.is_initialized = TRUE, !.buffer = <<>>,
                             !.not_undoable = IF os.is_initialized THEN @ ELSE @ + 1]
    IN  [valid |-> kept,
         os    |-> IF kept
                   THEN [begun EXCEPT !.buffer = SubSeq(text, nvalid + 1, len),
                                      !.text = @ \o SubSeq(text, 1, nvalid)]
                   ELSE begun]

\* Mutant: what is kept is not written at the end of the file.
Flush_Nothing(os) == [valid |-> TRUE, os |-> os]

Flush(os) ==
    IF ~os.is_closed /\ os.is_initialized /\ os.buffer # <<>>
    THEN Write(os, <<>>)
    ELSE [valid |-> TRUE, os |-> os]

\* remove_ending_newline: an empty last line goes, with what ended the one before.
WithoutEndingNewline(text) ==
    LET n == Len(text)
    IN  IF n = 0 \/ text[n] \notin {CR, LF} THEN text
        ELSE IF n > 1 /\ text[n] = LF /\ text[n - 1] = CR THEN SubSeq(text, 1, n - 2)
        ELSE SubSeq(text, 1, n - 1)

\* lapiz_document_output_stream_close; it reports an error when something is kept.
Close(os) ==
    IF ~os.is_closed /\ os.is_initialized
    THEN [os EXCEPT !.text = WithoutEndingNewline(@), !.not_undoable = @ - 1, !.is_closed = TRUE]
    ELSE os
CloseFails(os) == os.buffer # <<>>

\* lapiz_document_output_stream_detect_newline_type, by the first line.
NewlineType(text) ==
    LET e    == LineEnd(text, 0)
        next == NextLine(text, e)
    IN  IF e = Len(text) THEN "LF"
        ELSE CHOOSE type \in NewlineTypes : Newline(type) = SubSeq(text, e + 1, next)
=============================================================================
