----------------------------- MODULE TextBytes -----------------------------
(* Text as the streams of a document see it: a sequence of bytes, of which   *)
(* only what the code tells apart is kept: an ordinary one, the two that end *)
(* lines, and the bytes of characters that take two in UTF-8.  One of those, *)
(* read alone, is a character of its own in an eight-bit charset.            *)
EXTENDS Naturals, Sequences, FiniteSetsExt

CR == "CR"
LF == "LF"
Lead  == {"C2", "C3"}      \* the first byte of a character of two
Trail == {"83", "A9"}      \* its second byte
Bytes == {"a", CR, LF} \union Lead \union Trail

\* The first n bytes of s end at the end of a character.
Utf8Prefix(s, n) ==
    \A i \in 1..n : /\ s[i] \in Lead  => i < n /\ s[i + 1] \in Trail
                    /\ s[i] \in Trail => i > 1 /\ s[i - 1] \in Lead

\* g_utf8_validate, and the end it reports.
ValidLength(s) == Max({n \in 0..Len(s) : Utf8Prefix(s, n)})
Valid(s)       == ValidLength(s) = Len(s)

\* g_utf8_get_char_validated returns -2 for the rest of s from i on.
PartialChar(s, i) == i = Len(s) /\ s[i] \in Lead

(***************************************************************************)
(* The lines of a CtkTextBuffer (the text is UTF-8, an offset is the number *)
(* of bytes before it).                                                     *)
(***************************************************************************)
EndsLine(text, i) == i = Len(text) \/ text[i + 1] \in {CR, LF}

\* ctk_text_iter_forward_to_line_end, and ctk_text_iter_forward_line from there.
LineEnd(text, i)  == Min({j \in i..Len(text) : EndsLine(text, j)})
NextLine(text, e) ==
    IF e = Len(text) THEN e
    ELSE IF text[e + 1] = CR /\ e + 1 < Len(text) /\ text[e + 2] = LF THEN e + 2
    ELSE e + 1

NewlineTypes == {"LF", "CR", "CR_LF"}
Newline(type) == CASE type = "LF"    -> <<LF>>
                   [] type = "CR"    -> <<CR>>
                   [] type = "CR_LF" -> <<CR, LF>>
=============================================================================
