------------------------------ MODULE MCSearch ------------------------------
(* Search over texts of words and line ends, with a text that overlaps       *)
(* itself, one that ends a line and one that has to be escaped.  It is       *)
(* explored in two parts: the text is edited and the dialog is used, or the  *)
(* search window of the view is used on a text that stays as it is.          *)
EXTENDS Search

VARIABLE part

MCCharacters   == { "a", "n", "\\", Newline }
MCTyped        == { <<"a">>, <<Newline>> }
MCNeedles      == { <<"a">>, <<"a", "a">>, <<"a", Newline>> }
MCEntered      == MCNeedles \union { <<"\\", "n">> }
MCReplacements == { <<>>, <<"a", "a">> }
Option(word, matchCase, wrap, backwards) ==
    [word |-> word, matchCase |-> matchCase, wrap |-> wrap, backwards |-> backwards]
MCOptions == { Option(TRUE, FALSE, FALSE, FALSE), Option(FALSE, TRUE, TRUE, TRUE) }

\* The texts the window is used on.
Loaded == { <<"a", Newline, "a">> }

MCInit ==
    /\ searching = FALSE /\ entry = <<>> /\ startIter = 0 /\ oldText = NoText
    /\ oldWord = FALSE /\ viewWord = FALSE /\ before = NoText
    /\ \/ part = "edit"   /\ doc = NewDocument(<<>>)
       \/ part = "window" /\ \E t \in Loaded : doc = NewDocument(t)
MCNext ==
    /\ UNCHANGED part
    /\ \/ part = "edit" /\ (Insert \/ Delete \/ Replace \/ ReplaceAllOf)
       \/ MoveCursor \/ Scroll \/ Draw \/ SearchHighlightingToggled \/ ResetSearchedText \/ Find \/ FindAgain
       \/ part = "window" /\ ( StartInteractiveSearch \/ TypeInEntry \/ SearchAgain \/ EntireWordToggled
                               \/ HideSearchWindow \/ CancelSearch )
MCSpec == MCInit /\ [][MCNext]_<<searchVars, part>>
=============================================================================
