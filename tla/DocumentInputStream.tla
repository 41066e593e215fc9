------------------------ MODULE DocumentInputStream ------------------------
(* What a save reads (lapiz-document-input-stream.c): the buffer, line by    *)
(* line, in pieces of at most `count' bytes, with line ends of one type and  *)
(* one after the last line.  The view is not editable meanwhile.             *)
EXTENDS TextBytes

\* pos: the mark, bytes_partial: what was read of its line.
NewInputStream == [pos |-> 0, bytes_partial |-> 0, newline_added |-> FALSE]

EndOfChar(text, i) == i = Len(text) \/ text[i + 1] \notin Trail

(***************************************************************************)
(* read_line: the rest of a line with its line end; or, when both do not    *)
(* fit, the characters of the line that do.                                 *)
(***************************************************************************)
ReadLine(text, type, stream, space) ==
    LET e       == LineEnd(text, stream.pos)
        bytes   == e - stream.pos
        newline == IF e = Len(text) THEN <<>> ELSE Newline(type)
        fits    == bytes + Len(newline) <= space
        written == IF fits THEN bytes
                   ELSE Max({n \in 0..Min({space, bytes}) : EndOfChar(text, stream.pos + n)})
        line    == SubSeq(text, stream.pos + 1, stream.pos + written)
    IN  [out    |-> IF fits THEN line \o newline ELSE line,
         stream |-> IF fits
                    THEN [stream EXCEPT !.pos = NextLine(text, e), !.bytes_partial = 0]
                    ELSE [stream EXCEPT !.pos = @ + written, !.bytes_partial = @ + written]]

(***************************************************************************)
(* The loop of lapiz_document_input_stream_read: until there is no space,   *)
(* nothing more to write, or only a part of a line was.                     *)
(***************************************************************************)
ReadLines(text, type, stream, space) ==
    LET Add(r, line) ==
            LET out == r.out \o line.out
            IN  [out |-> out, stream |-> line.stream,
                 ends |-> \/ line.out = <<>> \/ Len(out) = space
                          \/ line.stream.bytes_partial # 0]
        Step(r) == IF r.ends THEN r
                   ELSE Add(r, ReadLine(text, type, r.stream, space - Len(r.out)))
        \* Every line but the last takes some of the space.
        after[n \in 0..space] ==
            IF n = 0 THEN [out |-> <<>>, stream |-> stream, ends |-> FALSE] ELSE Step(after[n - 1])
        Result(r) == [out |-> r.out, stream |-> r.stream]
    IN  Result(after[space])

\* Mutant: the last newline counts as added also when it did not fit.
Read_MarksAdded(text, type, stream, count) ==
    LET r     == ReadLines(text, type, stream, count)
        added == r.stream.pos = Len(text) /\ r.stream.pos # 0
        fits  == count - Len(r.out) >= Len(Newline(type))
    IN  [out    |-> IF added /\ fits /\ ~r.stream.newline_added
                    THEN r.out \o Newline(type) ELSE r.out,
         stream |-> [r.stream EXCEPT !.newline_added = @ \/ added]]

Read(text, type, stream, count) ==
    LET r     == ReadLines(text, type, stream, count)
        space == count - Len(r.out)
    IN  IF /\ r.stream.pos = Len(text) /\ r.stream.pos # 0
           /\ space >= Len(Newline(type))
           /\ ~r.stream.newline_added
        THEN [out |-> r.out \o Newline(type), stream |-> [r.stream EXCEPT !.newline_added = TRUE]]
        ELSE r

\* Everything a saver writes: it reads until there is nothing left.
Saved(text, type, count) ==
    LET Step(w) ==
            LET r == Read(text, type, w.stream, count)
            IN  IF r.out = <<>> THEN w ELSE [out |-> w.out \o r.out, stream |-> r.stream]
        \* Every read but the last goes on in the text, or adds the newline.
        after[n \in 0..(Len(text) + 1)] ==
            IF n = 0 THEN [out |-> <<>>, stream |-> NewInputStream] ELSE Step(after[n - 1])
    IN  after[Len(text) + 1].out
=============================================================================
