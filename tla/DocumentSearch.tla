---------------------------- MODULE DocumentSearch ----------------------------
(* The search of a LapizDocument: its text and the occurrences in it that    *)
(* are highlighted.  Highlighting is lazy: an edit, or a new search text,    *)
(* adds lines to to_search_region, and a view that is about to draw some     *)
(* lines has the pending ones among them searched first.                     *)
(* A document is a record, and each function of lapiz-document.c an operator *)
(* from a document to a document:                                            *)
(*   text     the sequence of its characters (a position is an offset in it) *)
(*   ins, bound   the insert and selection_bound marks                       *)
(*   first    the mark of the first line the view shows                      *)
(*   search, word   search_text (NoText: none yet), its ENTIRE_WORD flag     *)
(*   region   to_search_region (NoRegion: highlighting is off)               *)
(*   found    the characters (numbered from 1) with the "found" tag          *)
(*   redraw   the view has a redraw queued                                   *)
EXTENDS TextRegion, FiniteSets

CONSTANTS Newline, NoText, NoRegion

\* A character of a word; a line end, the escape and the rest are not.
Letter(c) == c \notin {Newline, "\\"}

(***************************************************************************)
(* Lines: where they start, as the ctk_text_iter_ functions move there.     *)
(***************************************************************************)
LineStarts(t)   == {p \in 0..Len(t) : p = 0 \/ t[p] = Newline}
LineStart(t, p) == Max({s \in LineStarts(t) : s <= p})
LineEnd(t, p)   == Min({e \in p..Len(t) : e = Len(t) \/ t[e + 1] = Newline})
ForwardToLineEnd(t, p) == LET e == LineEnd(t, p)
                          IN  IF e = p /\ p < Len(t) THEN LineEnd(t, p + 1) ELSE e

ForwardLines(t, p, n) ==
    LET further == {s \in LineStarts(t) : s > p}
    IN  IF n = 0 THEN p
        ELSE Min({Len(t)} \union {s \in further : Cardinality({r \in further : r <= s}) = n})
BackwardLines(t, p, n) ==
    IF n = 0 THEN p
    ELSE Max({0} \union {s \in LineStarts(t) : Cardinality({r \in LineStarts(t) : s < r /\ r <= p}) = n})

(***************************************************************************)
(* ctk_text_iter_forward_search and backward_search, for a text k.          *)
(***************************************************************************)
Match(k, i)    == [from |-> i, to |-> i + Len(k)]
MatchAt(t, k, i) == i + Len(k) <= Len(t) /\ SubSeq(t, i + 1, i + Len(k)) = k
MatchesIn(t, k, from, limit) == {i \in from..limit : i + Len(k) <= limit /\ MatchAt(t, k, i)}

\* ctk_text_iter_starts_word at the one end, ctk_text_iter_ends_word at the other.
IsWord(t, m) == /\ m.from < Len(t) /\ Letter(t[m.from + 1])
                /\ m.from > 0 => ~Letter(t[m.from])
                /\ Letter(t[m.to])
                /\ m.to < Len(t) => ~Letter(t[m.to + 1])

\* The matches met when each search goes on where the last match ended.
ForwardMatches(t, k, from, limit) ==
    LET after[p \in 0..(limit + 1)] ==
            LET next == MatchesIn(t, k, p, limit)
            IN  IF next = {} THEN {} ELSE {Match(k, Min(next))} \union after[Min(next) + Len(k)]
    IN  after[from]
BackwardMatches(t, k, from) ==
    LET before[p \in 0..Len(t)] ==
            LET next == MatchesIn(t, k, 0, p)
            IN  IF next = {} THEN {} ELSE {Match(k, Max(next))} \union before[Max(next)]
    IN  before[from]
OfWords(t, word, ms) == {m \in ms : word => IsWord(t, m)}

\* lapiz_document_search_forward and search_backward: the set of the one match
\* they find, if any.
SearchForward(d, from) ==
    LET ms == IF d.search \in {NoText, <<>>} THEN {}
              ELSE OfWords(d.text, d.word, ForwardMatches(d.text, d.search, from, Len(d.text)))
    IN  {m \in ms : \A n \in ms : m.from <= n.from}
SearchBackward(d, from) ==
    LET ms == IF d.search \in {NoText, <<>>} THEN {}
              ELSE OfWords(d.text, d.word, BackwardMatches(d.text, d.search, from))
    IN  {m \in ms : \A n \in ms : m.from >= n.from}

(***************************************************************************)
(* lapiz_utils_escape_search_text and unescape_search_text, as far as the    *)
(* line end and the backslash go.                                           *)
(***************************************************************************)
EscapeSearchText(s) ==
    IF Len(s) = 1 THEN s
    ELSE FlattenSeq([i \in DOMAIN s |-> CASE s[i] = Newline -> <<"\\", "n">>
                                          [] s[i] = "\\"    -> <<"\\", "\\">>
                                          [] OTHER          -> <<s[i]>>])
\* Mutant: a backslash that was escaped escapes what
\* follows it (drop_prev is not set).
UnescapeSearchText_KeepPrev(s) ==
    LET from[i \in 1..(Len(s) + 2)] ==
            IF i > Len(s) THEN <<>>
            ELSE IF s[i] # "\\" THEN <<s[i]>> \o from[i + 1]
            ELSE IF i = Len(s) THEN <<"\\">>
            ELSE CASE s[i + 1] = "n"  -> <<Newline>> \o from[i + 2]
                   [] s[i + 1] = "\\" -> <<"\\">> \o from[i + 1]
                   [] OTHER           -> <<"\\", s[i + 1]>> \o from[i + 2]
    IN  from[1]

UnescapeSearchText(s) ==
    LET from[i \in 1..(Len(s) + 2)] ==
            IF i > Len(s) THEN <<>>
            ELSE IF s[i] # "\\" THEN <<s[i]>> \o from[i + 1]
            ELSE IF i = Len(s) THEN <<"\\">>
            ELSE (CASE s[i + 1] = "n"  -> <<Newline>>
                    [] s[i + 1] = "\\" -> <<"\\">>
                    [] OTHER           -> <<"\\", s[i + 1]>>) \o from[i + 2]
    IN  from[1]

(***************************************************************************)
(* What is to be searched.                                                  *)
(***************************************************************************)
\* compute_num_of_lines, 0 before there is a text.
NumOfLines(search) ==
    IF search = NoText THEN 0 ELSE 1 + Len(SelectSeq(search, LAMBDA c : c = Newline))

CanSearchAgain(d) == d.search \notin {NoText, <<>>}

\* The line shown, and what a draw covers: it, to the start of the next one.
LineShown(d) == LineStart(d.text, d.first)
NextShown(d) == ForwardLines(d.text, LineShown(d), 1)

SearchHighlightUpdated(d, start, end) ==
    IF LineStart(d.text, start) <= LineShown(d) /\ LineShown(d) <= LineStart(d.text, end)
    THEN [d EXCEPT !.redraw = TRUE] ELSE d

\* to_search_region_range, on whole lines.
ToSearchRegionRange(d, start, end) ==
    LET s == LineStart(d.text, start)
        e == ForwardToLineEnd(d.text, end)
        n == NumOfLines(d.search)
    IN  IF d.region = NoRegion THEN d
        ELSE SearchHighlightUpdated([d EXCEPT !.region = Add(@, s, e)],
                                    BackwardLines(d.text, s, n), ForwardLines(d.text, e, n))

Everything(d) == ToSearchRegionRange(d, 0, Len(d.text))

\* insert-text, and insert_text_cb after it.  Text put between two tagged
\* characters of one run is tagged with them.  No text, no signal.
InsertText(d, pos, s) ==
    LET n == Len(s)
        moved(p) == IF p >= pos THEN p + n ELSE p
        tagged   == {c \in d.found : c <= pos} \union {c + n : c \in {f \in d.found : f > pos}}
                    \union IF {pos, pos + 1} \subseteq d.found THEN (pos + 1)..(pos + n) ELSE {}
    IN  IF s = <<>> THEN d ELSE ToSearchRegionRange(
          [d EXCEPT !.text  = SubSeq(@, 1, pos) \o s \o SubSeq(@, pos + 1, Len(@)),
                    !.ins   = moved(@), !.bound = moved(@),
                    !.first = IF @ > pos THEN @ + n ELSE @,
                    !.found = tagged,
                    !.region = IF @ = NoRegion THEN @ ELSE AfterInsert(@, pos, n)],
          pos, pos + n)

\* delete-range, and delete_range_cb after it, when both iters are the place
\* the text was.
DeleteRange(d, start, end) ==
    ToSearchRegionRange(
      [d EXCEPT !.text  = SubSeq(@, 1, start) \o SubSeq(@, end + 1, Len(@)),
                !.ins   = Deleted(@, start, end), !.bound = Deleted(@, start, end),
                !.first = Deleted(@, start, end),
                !.found = {c \in @ : c <= start} \union {c - (end - start) : c \in {f \in @ : f > end}},
                !.region = IF @ = NoRegion THEN @ ELSE AfterDelete(@, start, end)],
      start, start)

\* lapiz_document_set_search_text, given flags.
SetSearchText(d, text, word) ==
    LET set == [d EXCEPT !.search = IF text = NoText THEN @ ELSE UnescapeSearchText(text),
                         !.word   = word]
    IN  IF text # NoText \/ d.word # word THEN Everything(set) ELSE set

\* lapiz_document_set_enable_search_highlighting.
SetEnableSearchHighlighting(d, enable) ==
    IF (d.region # NoRegion) = enable THEN d
    ELSE IF enable THEN LET new == [d EXCEPT !.region = <<>>]
                        IN  IF CanSearchAgain(d) THEN Everything(new) ELSE new
    ELSE [d EXCEPT !.region = NoRegion, !.found = {}]

(***************************************************************************)
(* search_region, on the lines around a range.                              *)
(***************************************************************************)
\* A start inside a tagged run moves back to where the run starts; an end
\* inside one, or before one, to where it ends.
RunStart(d, p) == IF {p, p + 1} \subseteq d.found
                  THEN Max({q \in 0..(p - 1) : q \notin d.found}) ELSE p
RunEnd(d, p)   == IF p + 1 \in d.found
                  THEN Min({q \in (p + 1)..Len(d.text) : (q + 1) \notin d.found}) ELSE p

Tagged(ms) == UNION {(m.from + 1)..m.to : m \in ms}

\* Mutant: the lines around the range are not searched.
SearchRegion_Alone(d, from, to) ==
    LET rest == d.found \ ((from + 1)..to)
    IN  IF d.search \in {NoText, <<>>} THEN [d EXCEPT !.found = rest]
        ELSE [d EXCEPT !.found = rest \union
                Tagged(OfWords(d.text, d.word, ForwardMatches(d.text, d.search, from, to)))]

SearchRegion(d, from, to) ==
    LET n     == NumOfLines(d.search)
        start == RunStart(d, BackwardLines(d.text, from, n))
        end   == RunEnd(d, ForwardLines(d.text, to, n))
        rest  == d.found \ ((start + 1)..end)
    IN  IF d.search = NoText THEN d
        ELSE IF d.search = <<>> THEN [d EXCEPT !.found = rest]
        ELSE [d EXCEPT !.found = rest \union
                Tagged(OfWords(d.text, d.word, ForwardMatches(d.text, d.search, start, end)))]

\* _lapiz_document_search_region, which lapiz_view_draw calls for what it draws.
SearchPending(d, start, end) ==
    LET pending == IF d.region = NoRegion THEN <<>> ELSE Intersect(d.region, start, end)
        found   == SearchRegion(d, Start(Head(pending)), End(Last(pending)))
    IN  IF pending = <<>> THEN d ELSE [found EXCEPT !.region = Subtract(@, start, end)]

(***************************************************************************)
(* lapiz_document_replace_all: each match is deleted and the replacement put *)
(* in its place, and the search goes on behind it.  The lines are left out   *)
(* of the highlighting until the end.                                       *)
(***************************************************************************)
\* Mutant: the search goes on where the match was.
ReplaceFrom_InPlace(d, find, replace, word) ==
    LET Step(s) ==
            LET ahead == MatchesIn(s.d.text, find, s.iter, Len(s.d.text))
                m     == Match(find, Min(ahead))
            IN  IF ahead = {} THEN s
                ELSE IF word /\ ~IsWord(s.d.text, m) THEN [s EXCEPT !.iter = m.to]
                ELSE [d |-> InsertText(DeleteRange(s.d, m.from, m.to), m.from, replace), iter |-> m.from]
        after[n \in 0..(Len(d.text) + 1)] == IF n = 0 THEN [d |-> d, iter |-> 0] ELSE Step(after[n - 1])
    IN  after[Len(d.text) + 1].d

ReplaceFrom(d, find, replace, word) ==
    LET Step(s) ==
            LET ahead == IF s.iter > Len(s.d.text) THEN {} ELSE MatchesIn(s.d.text, find, s.iter, Len(s.d.text))
                m     == Match(find, Min(ahead))
            IN  IF ahead = {} THEN s
                ELSE IF word /\ ~IsWord(s.d.text, m) THEN [s EXCEPT !.iter = m.to]
                ELSE [d    |-> InsertText(DeleteRange(s.d, m.from, m.to), m.from, replace),
                      iter |-> m.from + Len(replace)]
        \* More steps than there can be matches.
        after[n \in 0..(Len(d.text) + 1)] == IF n = 0 THEN [d |-> d, iter |-> 0] ELSE Step(after[n - 1])
    IN  after[Len(d.text) + 1].d

DocumentReplaceAll(d, find, replace, word) ==
    SetEnableSearchHighlighting(ReplaceFrom(SetEnableSearchHighlighting(d, FALSE), find, replace, word),
                                d.region # NoRegion)
=============================================================================
