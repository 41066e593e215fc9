----------------------------- MODULE TextRegion -----------------------------
(* LapizTextRegion: a list of subregions of a text buffer, each held between *)
(* two marks.  A region is the sequence of its subregions, a subregion the   *)
(* pair of its marks' offsets.  The operators below are the functions of     *)
(* lapiztextregion.c; a start after its end is never passed, so the ordering *)
(* they begin with is left out, and so are the time stamps of the iterators, *)
(* which nothing in lapiz uses.                                              *)
EXTENDS Naturals, Sequences, SequencesExt

Start(sr) == sr[1]
End(sr)   == sr[2]

\* The first subregion, from begin on, that reaches past pos (or begin - 1).
\* A begin of 0 is the NULL the functions below pass for the whole list.
First(begin) == IF begin = 0 THEN 1 ELSE begin

EndingAfter(r, pos, begin, edges) ==
    LET after == {k \in First(begin)..Len(r) : pos < End(r[k]) \/ (edges /\ pos = End(r[k]))}
    IN  IF after = {} THEN First(begin) - 1 ELSE Min(after)

\* The last subregion, from begin on, that starts before pos (or begin - 1).
StartingBefore(r, pos, begin, edges) ==
    LET past(k) == pos > Start(r[k]) \/ (edges /\ pos = Start(r[k]))
    IN  Max({First(begin) - 1} \union
            {k \in First(begin)..Len(r) : \A j \in First(begin)..k : past(j)})

\* Mutant: what a range only touches is never counted.
Bounds_NoEdges(r, start, end, edges) ==
    LET sn == EndingAfter(r, start, 0, FALSE)
    IN  [first |-> sn, last |-> StartingBefore(r, end, sn, FALSE)]

\* The two subregions that bound a range, and whether it meets none.
Bounds(r, start, end, edges) ==
    LET sn == EndingAfter(r, start, 0, edges)
    IN  [first |-> sn, last |-> StartingBefore(r, end, sn, edges)]
Misses(b) == b.first = 0 \/ b.last = 0 \/ b.last = b.first - 1

\* lapiz_text_region_add: insert, or merge what the range touches.
Add(r, start, end) ==
    LET b == Bounds(r, start, end, TRUE)
    IN  IF start = end THEN r
        ELSE IF Misses(b)
        THEN IF b.first = 0 THEN Append(r, <<start, end>>)
             ELSE IF b.last = 0 THEN <<<<start, end>>>> \o r
             ELSE InsertAt(r, b.first, <<start, end>>)
        ELSE SubSeq(r, 1, b.first - 1)
             \o << <<Min({start, Start(r[b.first])}), Max({end, End(r[b.last])})>> >>
             \o SubSeq(r, b.last + 1, Len(r))

WithoutEmpty(r) ==
    LET kept[n \in 0..Len(r)] == IF n = 0 THEN <<>>
                                ELSE IF Start(r[n]) = End(r[n]) THEN kept[n - 1]
                                ELSE Append(kept[n - 1], r[n])
    IN  kept[Len(r)]

\* lapiz_text_region_subtract: what is left of a subregion on each side of
\* the range.  A subregion that is split ends the function there, before the
\* empty ones are dropped.
Subtract(r, start, end) ==
    LET b     == Bounds(r, start, end, FALSE)
        left(sr)  == IF Start(sr) < start /\ start < End(sr) THEN <<<<Start(sr), start>>>> ELSE <<>>
        right(sr) == IF Start(sr) <= end /\ end < End(sr) THEN <<<<end, End(sr)>>>> ELSE <<>>
        rest  == SubSeq(r, 1, b.first - 1)
                 \o left(r[b.first]) \o right(r[b.last])
                 \o SubSeq(r, b.last + 1, Len(r))
        split == b.first = b.last /\ left(r[b.first]) # <<>> /\ right(r[b.last]) # <<>>
    IN  IF Misses(b) THEN r ELSE IF split THEN rest ELSE WithoutEmpty(rest)

\* lapiz_text_region_intersect: the part of the subregions in the range, or
\* nothing (the NULL it returns).
Intersect(r, start, end) ==
    LET b == Bounds(r, start, end, FALSE)
    IN  IF Misses(b) THEN <<>>
        ELSE [k \in 1..(b.last - b.first + 1) |->
                LET sr == r[b.first + k - 1]
                IN  <<Max({start, Start(sr)}), Min({end, End(sr)})>>]

(***************************************************************************)
(* The marks: the start of a subregion has left gravity, its end right.     *)
(***************************************************************************)
AfterInsert(r, pos, n) ==
    [k \in DOMAIN r |-> <<IF Start(r[k]) > pos  THEN Start(r[k]) + n ELSE Start(r[k]),
                          IF End(r[k])   >= pos THEN End(r[k]) + n   ELSE End(r[k])>>]

\* Where an offset is after the text in start..end is gone.
Deleted(pos, start, end) == IF pos >= end THEN pos - (end - start) ELSE Min({pos, start})
AfterDelete(r, start, end) ==
    [k \in DOMAIN r |-> <<Deleted(Start(r[k]), start, end), Deleted(End(r[k]), start, end)>>]
=============================================================================
