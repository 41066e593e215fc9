-------------------------- MODULE MCDocumentLoader -------------------------
(* DocumentLoader over every file a save leaves of some short texts, and a   *)
(* few others: cut characters, foreign charsets, other line ends.            *)
EXTENDS DocumentRoundTrip

Eacute == <<"C3", "A9">>    \* a character of two bytes
MCTexts == { <<>>, <<LF>>, <<"a", CR, "a", LF>>, <<CR, LF, "a", "a">> \o Eacute, Eacute \o <<"a", "a", LF>> }

Foreign == { <<"C3">>, <<"a", "A9", "a">>, <<"a", "C3", "a", "a", "a">>, <<CR, CR, LF>>, <<"a", CR>> }
MCReplacements == {<<"a", LF>>, <<"C3", "a">>}
MCContents     == {SavedAs[text][type] : text \in MCTexts, type \in NewlineTypes} \union Foreign \union MCReplacements
MCAutoDetected == <<UTF8, ASCII, LATIN>>
MCEncodings    == {UTF8, ASCII, LATIN}
MCLoads        == 1..2
=============================================================================
