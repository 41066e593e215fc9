------------------------------ MODULE Notebook ------------------------------
(* The tabs of one window: LapizNotebook (lapiz-notebook.c) over the pages  *)
(* of CtkNotebook.  Pages are a sequence of tabs; a position is an index    *)
(* into it, and 0 stands for the -1 of the code ("after all tabs").         *)
EXTENDS Naturals, Sequences, SequencesExt

NoTab == "no tab"

\* ctk_notebook_page_num: 0 for a widget that is not a page.
PageNum(pages, t) == SelectInSeq(pages, LAMBDA p : p = t)

\* ctk_notebook_insert_page and ctk_notebook_reorder_child.
Insert(pages, t, position) ==
    IF position = 0 \/ position > Len(pages) THEN Append(pages, t)
                                             ELSE InsertAt(pages, position, t)
Reorder(pages, t, position) == Insert(RemoveFirst(pages, t), t, position)

\* Some of the tabs, from the last page to the first: a list that is prepended to
\* page by page.
FromTheLast(pages, tabs) ==
    LET list[k \in 0..Len(pages)] ==
            IF k = 0 THEN <<>>
            ELSE IF pages[k] \in tabs THEN <<pages[k]>> \o list[k - 1] ELSE list[k - 1]
    IN list[Len(pages)]

\* ctk_notebook_next_page, which does not wrap around.
NextPage(pages, t) ==
    LET n == PageNum(pages, t) IN IF n = Len(pages) THEN t ELSE pages[n + 1]

\* The page CtkNotebook shows when the current one is removed.
Neighbour(pages, t) ==
    LET n == PageNum(pages, t)
    IN IF n < Len(pages) THEN pages[n + 1] ELSE IF n > 1 THEN pages[n - 1] ELSE NoTab

\* Mutant: the page is appended whether or not it was in the list.
Focus_Grows(focused, t) == Append(focused, t)

\* lapiz_notebook_switch_page_cb: focused_pages ends with the page just shown.
Focus(focused, t) == Append(RemoveFirst(focused, t), t)

\* smart_tab_switching_on_closure: the page to show before `t', the current one,
\* is removed; `focused' has lost it already.  A page that is not in the notebook
\* any more has no number, and CtkNotebook takes that for the last page.
PageAfterClosing(pages, focused, t, jumpTo) ==
    IF ~jumpTo \/ focused = <<>> THEN NextPage(pages, t)
    ELSE IF Contains(pages, Last(focused)) THEN Last(focused)
    ELSE Last(pages)
=============================================================================
