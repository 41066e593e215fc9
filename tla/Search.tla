-------------------------------- MODULE Search --------------------------------
(* Searching in a tab: the Find and Replace dialog (lapiz-commands-search.c), *)
(* the interactive search window of the view (lapiz-view.c), the view that    *)
(* draws the document, and whatever else edits its text.                      *)
EXTENDS DocumentSearch

CONSTANTS
    Characters,     \* what a text is a sequence of
    Typed,          \* texts an edit inserts
    Needles,        \* texts that are searched for with the dialog
    Entered,        \* texts that are searched for in the search window
    Replacements,   \* texts that replace them
    Options,        \* ways the options of the dialog are set
    MaxLength,      \* bound on the length of the document
    MaxSubregions   \* bound on the subregions a deletion leaves to be searched

ASSUME SearchAssumption ==
    /\ {Newline, "\\", "n"} \subseteq Characters /\ Newline \notin {"\\", "n"}
    /\ NoText \notin Seq(Characters)
    /\ Typed \union Needles \union Entered \union Replacements \subseteq Seq(Characters)
    /\ <<>> \notin Typed \union Needles \union Entered
    /\ Options \subseteq [word : BOOLEAN, matchCase : BOOLEAN, wrap : BOOLEAN, backwards : BOOLEAN]

VARIABLES
    doc,            \* the LapizDocument and its view's drawing, see DocumentSearch
    searching,      \* search_window is shown
    entry,          \* the text in search_entry
    startIter,      \* start_search_iter
    oldText,        \* old_search_text, escaped
    oldWord,        \* old_search_flags
    viewWord,       \* search_flags of the view
    before          \* the search when the window was opened (history)

interactive == <<searching, entry, startIter, oldText, oldWord, viewWord, before>>
searchVars  == <<doc, interactive>>

\* A document with some text in it, put there while highlighting was on.
NewDocument(t) ==
    InsertText([text |-> <<>>, ins |-> 0, bound |-> 0, first |-> 0, search |-> NoText, word |-> FALSE,
                region |-> <<>>, found |-> {}, redraw |-> TRUE], 0, t)

InitSearch ==
    /\ doc = NewDocument(<<>>)
    /\ searching = FALSE /\ entry = <<>> /\ startIter = 0
    /\ oldText = NoText /\ oldWord = FALSE /\ viewWord = FALSE
    /\ before = NoText

SelStart(d) == Min({d.ins, d.bound})
SelEnd(d)   == Max({d.ins, d.bound})
Selected(d) == SubSeq(d.text, SelStart(d) + 1, SelEnd(d))

PlaceCursor(d, p) == [d EXCEPT !.ins = p, !.bound = p]

\* A match found becomes the selection, and is scrolled to.
ScrollTo(d, p)   == [d EXCEPT !.first = LineStart(d.text, p),
                              !.redraw = @ \/ LineStart(d.text, p) # LineShown(d)]
SelectMatch(d, m) == ScrollTo([d EXCEPT !.ins = m.from, !.bound = m.to], m.from)

(***************************************************************************)
(* The rest of the program: edits, the cursor, drawing.                     *)
(***************************************************************************)
\* The user, a plugin or an undo edits the text.  No more than MaxLength.
Insert == \E p \in 0..Len(doc.text), s \in Typed :
    /\ ~searching
    /\ Len(doc.text) + Len(s) <= MaxLength
    /\ doc' = InsertText(doc, p, s)
    /\ UNCHANGED interactive

\* An empty subregion at the end of the text touches no line that is added, so
\* deletions there pile them up until that place is drawn: MaxSubregions.
Delete == \E p, q \in 0..Len(doc.text) :
    /\ ~searching
    /\ p < q
    /\ LET left == DeleteRange(doc, p, q)
       IN  (left.region # NoRegion => Len(left.region) <= MaxSubregions) /\ doc' = left
    /\ UNCHANGED interactive

\* The user puts the cursor somewhere.  Selections come from the searches.
MoveCursor == \E p \in 0..Len(doc.text) :
    /\ ~searching
    /\ doc' = PlaceCursor(doc, p)
    /\ UNCHANGED interactive

Scroll == \E s \in LineStarts(doc.text) :
    /\ s # LineShown(doc)
    /\ doc' = ScrollTo(doc, s)
    /\ UNCHANGED interactive

\* lapiz_view_draw.
Draw ==
    /\ doc.redraw
    /\ doc' = [SearchPending(doc, LineShown(doc), NextShown(doc)) EXCEPT !.redraw = FALSE]
    /\ UNCHANGED interactive

\* The preference changes.
SearchHighlightingToggled ==
    /\ doc' = SetEnableSearchHighlighting(doc, doc.region = NoRegion)
    /\ UNCHANGED interactive

\* reset_searched_text (Shift-Ctrl-K in the view).
ResetSearchedText ==
    /\ ~searching
    /\ doc' = SetSearchText(doc, <<>>, doc.word)
    /\ UNCHANGED interactive

(***************************************************************************)
(* The dialog.                                                              *)
(***************************************************************************)
\* run_search: from the end of the selection, or back from its start, and
\* around the text.
SearchFromSelection(d, wrap, backwards) ==
    LET here == IF backwards THEN SearchBackward(d, SelStart(d)) ELSE SearchForward(d, SelEnd(d))
        around == IF backwards THEN SearchBackward(d, Len(d.text)) ELSE SearchForward(d, 0)
    IN  IF here = {} /\ wrap THEN around ELSE here

RunSearch(d, wrap, backwards) ==
    LET found == SearchFromSelection(d, wrap, backwards)
    IN  IF found = {} THEN PlaceCursor(d, IF backwards THEN SelStart(d) ELSE SelEnd(d))
        ELSE SelectMatch(d, CHOOSE m \in found : TRUE)

\* do_find, with escape sequences not parsed: the text is escaped on its way.
DoFind(d, find, o) ==
    LET asked == EscapeSearchText(find)
        same  == d.search # NoText /\ EscapeSearchText(d.search) = asked /\ d.word = o.word
    IN  RunSearch(IF same THEN d ELSE SetSearchText(d, asked, o.word), o.wrap, o.backwards)

Find == \E find \in Needles, o \in Options :
    /\ ~searching
    /\ doc' = DoFind(doc, find, o)
    /\ UNCHANGED interactive

\* do_find_again, the Find Next and Find Previous commands.
FindAgain == \E wrap, backwards \in BOOLEAN :
    /\ ~searching
    /\ doc' = RunSearch(doc, wrap, backwards)
    /\ UNCHANGED interactive

\* do_replace: the selection is taken for a match if it equals the text, or,
\* when the case does not matter, begins with it (g_utf8_caselessnmatch).
TakenForMatch(d, find, matchCase) ==
    /\ Selected(d) # <<>>
    /\ IF matchCase THEN Selected(d) = find
       ELSE Len(Selected(d)) >= Len(find) /\ SubSeq(Selected(d), 1, Len(find)) = find

ReplaceSelectedText(d, replace) == InsertText(DeleteRange(d, SelStart(d), SelEnd(d)), SelStart(d), replace)

Replaced(d, find, replace, o) ==
    DoFind(IF TakenForMatch(d, find, o.matchCase) THEN ReplaceSelectedText(d, replace) ELSE d, find, o)

Replace == \E find \in Needles, replace \in Replacements, o \in Options :
    /\ ~searching
    /\ LET replaced == Replaced(doc, find, replace, o)
       IN  Len(replaced.text) <= MaxLength /\ doc' = replaced
    /\ UNCHANGED interactive

\* do_replace_all.
ReplaceAllOf == \E find \in Needles, replace \in Replacements, word \in {o.word : o \in Options} :
    /\ ~searching
    /\ LET replaced == DocumentReplaceAll(doc, find, replace, word)
       IN  Len(replaced.text) <= MaxLength /\ doc' = replaced
    /\ UNCHANGED interactive

(***************************************************************************)
(* The interactive search of the view.                                      *)
(***************************************************************************)
\* run_search of lapiz-view.c, while the entry is typed in: from where the
\* search began, around the text, or back to where it began.
RunSearchTyping(d, text) ==
    LET here  == SearchForward(d, startIter')
        found == IF text = <<>> THEN {} ELSE IF here = {} THEN SearchForward(d, 0) ELSE here
        shown == IF found = {} THEN PlaceCursor(d, startIter') ELSE d
    IN  IF found # {} THEN SelectMatch(d, CHOOSE m \in found : TRUE)
        ELSE IF text = <<>> THEN ScrollTo(shown, shown.ins) ELSE shown

\* search_init, the handler of "changed" of the entry.
SearchInit(text) ==
    LET same == doc.search # NoText /\ EscapeSearchText(doc.search) = text /\ doc.word = viewWord'
    IN  /\ entry' = text
        /\ doc'   = RunSearchTyping(IF same THEN doc ELSE SetSearchText(doc, text, viewWord'), text)

\* start_interactive_search_real and init_search_entry: the selection is what
\* is searched for first.  The entry still holds what it held the last time.
StartInteractiveSearch ==
    /\ ~searching
    /\ searching' = TRUE
    /\ startIter' = SelStart(doc)
    /\ oldText'   = IF doc.search # NoText THEN EscapeSearchText(doc.search) ELSE oldText
    /\ oldWord'   = IF doc.word THEN doc.word ELSE oldWord
    /\ before'    = doc.search
    /\ UNCHANGED viewWord
    /\ LET text == EscapeSearchText(Selected(doc))
       IN  IF text = entry THEN UNCHANGED <<doc, entry>> ELSE SearchInit(text)

TypeInEntry == \E text \in {EscapeSearchText(k) : k \in Entered} \union {<<>>} :
    /\ searching
    /\ text # entry
    /\ UNCHANGED <<searching, startIter, oldText, oldWord, viewWord, before>>
    /\ SearchInit(text)

\* search_again, with the arrows or the wheel (wrap_around is TRUE).
SearchAgain == \E backwards \in BOOLEAN :
    /\ searching
    /\ LET found == IF entry = <<>> THEN {} ELSE SearchFromSelection(doc, TRUE, backwards)
       IN  doc' = IF found # {} THEN SelectMatch(doc, CHOOSE m \in found : TRUE)
                  ELSE IF entry = <<>> THEN ScrollTo(doc, doc.ins) ELSE doc
    /\ UNCHANGED interactive

\* match_entire_word_menu_item_toggled.
EntireWordToggled ==
    /\ searching
    /\ viewWord' = ~viewWord
    /\ UNCHANGED <<doc, searching, entry, startIter, oldText, oldWord, before>>

\* What the window leaves and the next start_interactive_search sets again is
\* forgotten when it is hidden.
Hidden == searching' = FALSE /\ startIter' = 0 /\ oldText' = NoText /\ before' = NoText

\* hide_search_window without cancel: Enter, Tab, a click, the timeout, the
\* focus going elsewhere.
HideSearchWindow ==
    /\ searching
    /\ Hidden
    /\ UNCHANGED <<doc, entry, oldWord, viewWord>>

\* Escape: the search of before is put back, and the cursor.
CancelSearch ==
    /\ searching
    /\ Hidden
    /\ LET set == SetSearchText(doc, oldText, oldWord)
       IN  doc' = ScrollTo(PlaceCursor(set, startIter), startIter)
    /\ UNCHANGED <<entry, oldWord, viewWord>>

NextSearch ==
    \/ Insert \/ Delete \/ MoveCursor \/ Scroll \/ Draw
    \/ SearchHighlightingToggled \/ ResetSearchedText
    \/ Find \/ FindAgain \/ Replace \/ ReplaceAllOf
    \/ StartInteractiveSearch \/ TypeInEntry \/ SearchAgain \/ EntireWordToggled
    \/ HideSearchWindow \/ CancelSearch

SearchSpec == InitSearch /\ [][NextSearch]_searchVars

(***************************************************************************)
(* Properties.                                                              *)
(***************************************************************************)
Positions == 0..Len(doc.text)

SearchTypeOK ==
    /\ {doc.ins, doc.bound, doc.first} \subseteq Positions
    /\ doc.found \subseteq 1..Len(doc.text)
    /\ {doc.word, doc.redraw, searching, oldWord, viewWord} \subseteq BOOLEAN
    /\ doc.region = NoRegion \/ \A k \in DOMAIN doc.region : Start(doc.region[k]) \in Positions
                                                             /\ End(doc.region[k]) \in Positions
    /\ searching => startIter \in Positions

\* One subregion ends before the other starts, or is empty where they meet.
Apart(one, other) ==
    \/ End(one) < Start(other)
    \/ End(one) = Start(other) /\ \E sr \in {one, other} : Start(sr) = End(sr)

\* The subregions that wait to be searched stay in order and apart, whatever
\* edits move their marks: lapiztextregion.c looks them up in that order, and
\* would lose or repeat a part of the text otherwise.  One whose text is gone
\* may stay, empty, beside another.
RegionIsOrdered ==
    doc.region # NoRegion =>
        /\ \A k \in DOMAIN doc.region : Start(doc.region[k]) <= End(doc.region[k])
        /\ \A j, k \in DOMAIN doc.region : j < k => Apart(doc.region[j], doc.region[k])

\* The occurrences in the text, and the lines, as the offsets they start at.
Occurrences == IF ~CanSearchAgain(doc) THEN {}
               ELSE OfWords(doc.text, doc.word, ForwardMatches(doc.text, doc.search, 0, Len(doc.text)))
Pending(s)  == \E k \in DOMAIN doc.region :
                   LET sr == doc.region[k]
                   IN  Start(sr) < End(sr) /\ s < End(sr) /\ Start(sr) < ForwardLines(doc.text, s, 1)
CharsOf(s)  == (s + 1)..ForwardLines(doc.text, s, 1)
Near(s, r)  == Cardinality({l \in LineStarts(doc.text) : Min({s, r}) < l /\ l <= Max({s, r})})
               <= NumOfLines(doc.search) - 1

\* On a line as far from every pending one as the search text has line ends,
\* what is highlighted is what the search text is found at, after any edits,
\* draws of other lines, and changes of the search.
HighlightIsTrue ==
    doc.region # NoRegion /\ CanSearchAgain(doc) =>
        \A s \in LineStarts(doc.text) :
            (\A r \in LineStarts(doc.text) : Near(s, r) => ~Pending(r))
                => doc.found \intersect CharsOf(s) = Tagged(Occurrences) \intersect CharsOf(s)

\* When no redraw is queued, the line on the screen waits for no search: an
\* edit or a new search text that reaches it has asked for a redraw.
NothingPendingOnScreen == ~doc.redraw /\ doc.region # NoRegion => ~Pending(LineShown(doc))

\* Replace All is one pass over the text as it was: what it puts in is not
\* searched, and nothing it should replace is skipped.
Spliced(t, ms, replace) ==
    FlattenSeq([i \in 1..(Len(t) + 1) |->
        (IF \E m \in ms : m.from = i - 1 THEN replace ELSE <<>>)
        \o (IF i > Len(t) \/ \E m \in ms : m.from < i /\ i <= m.to THEN <<>> ELSE <<t[i]>>)])
ReplaceAllIsOnePass ==
    \A find \in Needles, replace \in Replacements, word \in BOOLEAN :
        DocumentReplaceAll(doc, find, replace, word).text =
            Spliced(doc.text, OfWords(doc.text, word, ForwardMatches(doc.text, find, 0, Len(doc.text))), replace)

\* Replacing forward, without going around, never comes back to what was put
\* in: each replacement leaves fewer occurrences ahead of the cursor.
Ahead(d, find) == Cardinality(ForwardMatches(d.text, find, SelStart(d), Len(d.text)))
ReplaceMovesOn ==
    \A find \in Needles, replace \in Replacements, o \in Options :
        ~o.wrap /\ ~o.backwards /\ TakenForMatch(doc, find, o.matchCase)
            => Ahead(Replaced(doc, find, replace, o), find) < Ahead(doc, find)

\* Escape puts back the text that was searched for when the window was opened,
\* if there was one, through the escaping it is kept in.
CancelPutsBack == [][CancelSearch /\ before # NoText => doc'.search = before]_searchVars

\* What the user sees marked in the text is what the search finds, after any
\* edits, draws and changes of the search.
HighlightingWorks == HighlightIsTrue /\ NothingPendingOnScreen

\* The marks of the document are in the text, and what waits to be searched is
\* in order, after edits, draws and replacements that move them.
MarksAreInPlace == SearchTypeOK /\ RegionIsOrdered

\* Replacing, at once or step by step, replaces what was there.
ReplacingEnds == ReplaceAllIsOnePass /\ ReplaceMovesOn

\* The small searches of one line or one step, put together, are the search of
\* the whole text, for what is highlighted and for what is replaced.
SearchIsExact == HighlightingWorks /\ ReplacingEnds
=============================================================================
