---------------------------- MODULE LapizWindow ----------------------------
(* The windows and the tabs in them: how lapiz-window.c follows its notebook *)
(* and the states of its tabs, while tabs are opened, closed, reordered,     *)
(* dragged to another window and detached, and while loads, saves and prints *)
(* end whenever they like.                                                   *)
(*                                                                           *)
(* What a window shows and offers is computed from signals: switch-page,     *)
(* tab-added, tab-removed, tabs-reordered of the notebook, notify::state of  *)
(* the tabs.  A window is a record of its notebook and of what these         *)
(* handlers wrote last.  Of the actions whose sensitivity is computed the    *)
(* model keeps one of each kind.  LAPIZ_WINDOW_STATE_SAVING_SESSION is left  *)
(* out: nothing calls _lapiz_window_set_saving_session_state.                *)
EXTENDS Naturals, FiniteSets, Sequences, SequencesExt, Notebook

CONSTANTS
    Windows,  \* LapizWindow objects
    Tabs,     \* LapizTab objects
    MaxBusy,  \* bound: at most so many tabs are not in the state NORMAL,
    Together  \* and two of them only in these states

ASSUME TabAssumption == NoTab \notin Tabs /\ Windows # {} /\ IsFiniteSet(Tabs)
ASSUME BusyAssumption == MaxBusy \in Nat

VARIABLES
    opened,   \* the windows on the screen
    win,      \* what each of them holds
    tabState, \* lapiz_tab_get_state
    jumpTo,   \* the tabs with the object data "jump_to"
    synced,   \* the windows whose sync_state is connected to a tab
    drag,     \* the windows whose notebook has drag_in_progress
    wiped,    \* history: the windows whose tabs were closed by Close All
    used      \* history: the tabs of a window the user has seen, latest last

vars == <<opened, win, tabState, jumpTo, synced, drag, wiped, used>>

\* Reverting counts as loading, the other errors as SAVING_ERROR, the states of
\* a preview as PRINTING.
States == {"NORMAL", "LOADING", "SAVING", "PRINTING", "SAVING_ERROR"}

\* A window just created, with an empty notebook.
EmptyWindow ==
    [pages |-> <<>>, current |-> NoTab, focused |-> <<>>,  \* the notebook
     active |-> NoTab, listens |-> NoTab, num_tabs |-> 0,  \* active_tab, tab_width_id
     state |-> {}, errors |-> 0, bar |-> <<{}, 0>>,        \* the statusbar shows `bar'
     menu |-> <<>>, shown |-> 0,                           \* the documents menu
     close |-> TRUE, save |-> TRUE, closeAll |-> TRUE, prev |-> TRUE,
     paste |-> TRUE]

Init ==
    /\ \E w \in Windows : opened = {w}
    /\ win = [w \in Windows |-> EmptyWindow]
    /\ tabState = [t \in Tabs |-> "NORMAL"]
    /\ jumpTo = {} /\ synced = [t \in Tabs |-> {}]
    /\ drag = {} /\ wiped = {} /\ used = [w \in Windows |-> <<>>]

(***************************************************************************)
(* What the window computes.  `ts' is the state of every tab.              *)
(***************************************************************************)

\* update_next_prev_doc_sensitivity, of which Previous is kept
UpdatePrevious(x, t) == [x EXCEPT !.prev = PageNum(x.pages, t) # 1]

\* set_sensitivity_according_to_tab.  Paste waits for the clipboard's answer, see
\* ClipboardReceived.
SetSensitivity(x, t, ts) ==
    [UpdatePrevious(x, t) EXCEPT
        !.close = ts[t] \notin {"SAVING", "PRINTING", "SAVING_ERROR"},
        !.save  = ts[t] = "NORMAL",
        !.paste = @ /\ ts[t] = "NORMAL"]

\* update_documents_list_menu: items stand for positions.
UpdateMenu(x) == [x EXCEPT !.menu = x.pages, !.shown = PageNum(x.pages, x.active)]

\* analyze_tab_state
FlagsOf(pages, ts) ==
    LET seen == {ts[t] : t \in Range(pages)}
    IN (seen \intersect {"LOADING", "SAVING", "PRINTING"})
           \union (IF "SAVING_ERROR" \in seen THEN {"ERROR"} ELSE {})
ErrorsIn(pages, ts) == Cardinality({i \in DOMAIN pages : ts[pages[i]] = "SAVING_ERROR"})

\* set_sensitivity_according_to_window_state, of which Close All is kept
SetWindowSensitivity(x) == [x EXCEPT !.closeAll = x.state \intersect {"SAVING", "PRINTING"} = {}]

\* update_window_state
UpdateState(x, ts) ==
    LET new  == [x EXCEPT !.state = FlagsOf(x.pages, ts), !.errors = ErrorsIn(x.pages, ts)]
        told == [new EXCEPT !.bar = <<new.state, new.errors>>]
    IN IF new.state # x.state THEN SetWindowSensitivity(told)
       ELSE IF new.errors # x.errors THEN told ELSE new

\* notebook_switch_page.  The menu may be older than the pages: then the item
\* does not exist yet, or is that of the position.
SwitchActive(x, t, ts) ==
    IF t = x.active THEN x
    ELSE LET n == PageNum(x.pages, t)
         IN SetSensitivity([x EXCEPT !.active = t, !.listens = t,
                              !.shown = IF n \in DOMAIN x.menu THEN n ELSE @], t, ts)

\* ctk_notebook_set_current_page: the window's handler of switch-page, then the
\* notebook's.
Show(x, t, ts) ==
    IF t \in {x.current, NoTab} THEN x
    ELSE LET y == SwitchActive(x, t, ts)
         IN [y EXCEPT !.current = t, !.focused = Focus(y.focused, t)]

(***************************************************************************)
(* Tabs come and go.                                                       *)
(***************************************************************************)

\* notebook_tab_added
TabAdded(x, ts) == UpdateState(UpdateMenu([x EXCEPT !.num_tabs = @ + 1]), ts)

\* lapiz_notebook_add_tab
AddTab(x, t, position, jump, ts) ==
    LET inserted == [x EXCEPT !.pages = Insert(@, t, position)]
        first    == IF x.current = NoTab THEN Show(inserted, t, ts) ELSE inserted
        added    == TabAdded(first, ts)
    IN IF jump THEN Show(added, t, ts) ELSE added

\* notebook_tab_removed
TabRemoved(x, t, removing, ts) ==
    LET left == [x EXCEPT !.num_tabs = @ - 1, !.listens = IF x.active = t THEN NoTab ELSE @]
        gone == IF left.num_tabs = 0 THEN [left EXCEPT !.active = NoTab] ELSE left
        menu == IF removing /\ gone.num_tabs # 0 THEN gone
                ELSE IF gone.active = NoTab THEN [UpdateMenu(gone) EXCEPT !.prev = FALSE]
                ELSE UpdatePrevious(UpdateMenu(gone), gone.active)
    IN UpdateState(menu, ts)

\* remove_tab: CtkNotebook shows a neighbour when it loses the current page.
RemovePage(x, t, removing, ts) ==
    LET removed == [x EXCEPT !.pages = RemoveFirst(@, t)]
        next    == Neighbour(x.pages, t)
        shown   == IF t # x.current THEN removed
                   ELSE Show([removed EXCEPT !.current = NoTab], next, ts)
    IN TabRemoved(shown, t, removing, ts)

\* lapiz_notebook_remove_tab, with or without removing_tabs set on the window
RemoveTab(x, t, removing, ts) ==
    LET y == [x EXCEPT !.focused = RemoveFirst(@, t)]
        z == IF t # y.current THEN y
             ELSE Show(y, PageAfterClosing(y.pages, y.focused, t, t \in jumpTo), ts)
    IN RemovePage(z, t, removing, ts)

\* lapiz_notebook_remove_all_tabs: the pages shown on the way out enter the list
\* that was just emptied.
RemoveAllTabs(x, ts) ==
    LET n == Len(x.pages)
        left[k \in 0..n] == IF k = 0 THEN [x EXCEPT !.focused = <<>>]
                            ELSE RemovePage(left[k - 1], x.pages[k], TRUE, ts)
    IN left[n]

\* lapiz_window_close_tabs
RemoveTabs(x, tabs, ts) ==
    LET n == Len(tabs)
        left[k \in 0..n] == IF k = 0 THEN x ELSE RemoveTab(left[k - 1], tabs[k], k # n, ts)
    IN left[n]

\* sync_state of the windows that listen, after the tab's state changed
SyncState(w, t, ts) ==
    IF w \notin synced[t] THEN win[w]
    ELSE LET x == UpdateState(win[w], ts)
         IN IF t = x.active THEN SetSensitivity(x, t, ts) ELSE x

TabsOf(w) == Range(win[w].pages)

\* Tabs are destroyed with what they know.
Destroy(tabs) ==
    /\ tabState' = [t \in Tabs |-> IF t \in tabs THEN "NORMAL" ELSE tabState[t]]
    /\ jumpTo' = jumpTo \ tabs

FewAreBusy(ts) ==
    LET busy == {t \in Tabs : ts[t] # "NORMAL"}
    IN  /\ Cardinality(busy) <= MaxBusy
        /\ Cardinality(busy) > 1 => \A t \in busy : ts[t] \in Together

Idle == drag = {}   \* the pointer is grabbed while a tab is dragged

\* Of a list of tabs, those among some, in its order.
Among(list, tabs) ==
    LET kept[k \in 0..Len(list)] ==
            IF k = 0 THEN <<>>
            ELSE IF list[k] \in tabs THEN Append(kept[k - 1], list[k]) ELSE kept[k - 1]
    IN kept[Len(list)]

\* What the user has seen of a window, now that it is x: what it shows is the latest.
SeenOf(seen, x) ==
    LET others == Among(seen, Range(x.pages) \ {x.current})
    IN IF x.current = NoTab THEN others ELSE Append(others, x.current)

Look == used' = [w \in Windows |-> SeenOf(used[w], win'[w])]

(***************************************************************************)
(* Handlers.                                                               *)
(***************************************************************************)

\* lapiz_window_create_tab, lapiz_window_create_tab_from_uri; another instance
\* may ask for it at any moment.  An address still in a list is not given again.
CreateTab(w, t, jump) ==
    /\ w \in opened
    /\ \A v \in Windows : t \notin TabsOf(v) \union Range(win[v].focused)
    /\ \E s \in {"NORMAL", "LOADING"} :
         /\ tabState' = [tabState EXCEPT ![t] = s] /\ FewAreBusy(tabState')
         /\ win' = [win EXCEPT ![w] = AddTab(@, t, 0, jump, tabState')]
    /\ jumpTo' = IF jump THEN jumpTo \union {t} ELSE jumpTo \ {t}
    /\ synced' = [synced EXCEPT ![t] = {w}]
    /\ UNCHANGED <<opened, drag, wiped>> /\ Look

\* lapiz_window_close_tab, from the button of the tab or by the idle of a save
CloseTab(w, t) ==
    /\ w \in opened /\ t \in TabsOf(w) /\ tabState[t] # "SAVING"
    /\ win' = [win EXCEPT ![w] = RemoveTab(@, t, FALSE, tabState)]
    /\ synced' = [synced EXCEPT ![t] = @ \ {w}]
    /\ Destroy({t}) /\ UNCHANGED <<opened, drag, wiped>> /\ Look

\* lapiz_window_close_tabs, with some tabs from the last to the first
CloseTabs(w, tabs) ==
    /\ w \in opened /\ Idle
    /\ tabs # {} /\ tabs \subseteq TabsOf(w)
    /\ win[w].state \intersect {"SAVING", "PRINTING"} = {}
    /\ \A t \in tabs : tabState[t] # "SAVING_ERROR"
    /\ win' = [win EXCEPT ![w] =
                 RemoveTabs(@, FromTheLast(@.pages, tabs), tabState)]
    /\ synced' = [t \in Tabs |-> IF t \in tabs THEN synced[t] \ {w} ELSE synced[t]]
    /\ Destroy(tabs) /\ UNCHANGED <<opened, drag, wiped>> /\ Look

\* lapiz_window_close_all_tabs, by file_close_all
CloseAllTabs(w) ==
    /\ w \in opened /\ Idle
    /\ win[w].state \intersect {"SAVING", "PRINTING"} = {}
    /\ win' = [win EXCEPT ![w] = RemoveAllTabs(@, tabState)]
    /\ synced' = [t \in Tabs |-> IF t \in TabsOf(w) THEN synced[t] \ {w} ELSE synced[t]]
    /\ wiped' = wiped \union {w}
    /\ Destroy(TabsOf(w)) /\ UNCHANGED <<opened, drag>> /\ Look

\* An empty window is closed.
CloseWindow(w) ==
    /\ w \in opened /\ Idle /\ TabsOf(w) = {}
    /\ opened' = opened \ {w}
    /\ win' = [win EXCEPT ![w] = EmptyWindow]
    /\ wiped' = wiped \ {w}
    /\ UNCHANGED <<tabState, jumpTo, synced, drag>> /\ Look

\* A tab label, a key, or an item of the documents menu, which shows the page of
\* its position (documents_list_menu_activate).
SelectPage(w, n) ==
    /\ w \in opened /\ Idle /\ n \in DOMAIN win[w].menu
    /\ win' = [win EXCEPT ![w] = Show(@, @.pages[n], tabState)]
    /\ UNCHANGED <<opened, tabState, jumpTo, synced, drag, wiped>> /\ Look

\* The states of a tab follow one another as in LapizTab.
NextState(s) ==
    CASE s = "NORMAL" -> {"SAVING", "PRINTING", "LOADING"}
      [] s = "SAVING" -> {"NORMAL", "SAVING_ERROR"}
      [] s = "SAVING_ERROR" -> {"NORMAL", "SAVING"}
      [] OTHER -> {"NORMAL"}

\* lapiz_tab_set_state and the windows' sync_state
SetState(t) ==
    /\ \E w \in Windows : t \in TabsOf(w)
    /\ \E s \in NextState(tabState[t]) :
         /\ tabState' = [tabState EXCEPT ![t] = s] /\ FewAreBusy(tabState')
         /\ win' = [w \in Windows |-> SyncState(w, t, tabState')]
    /\ UNCHANGED <<opened, jumpTo, synced, drag, wiped>> /\ Look

\* Mutant: the request was made for a tab that could be pasted into.
PasteAfter_Remembered(x, text, ts) == text

\* received_clipboard_contents: what the tab is now, not when it was asked for.
PasteAfter(x, text, ts) == x.active # NoTab /\ ts[x.active] = "NORMAL" /\ text

\* An answer may come at any moment: another program can take the clipboard at
\* any moment, and clipboard_owner_change asks whatever the tab.
ClipboardReceived(w, text) ==
    /\ w \in opened
    /\ win' = [win EXCEPT ![w].paste = PasteAfter(win[w], text, tabState)]
    /\ UNCHANGED <<opened, tabState, jumpTo, synced, drag, wiped, used>>

\* notebook_tabs_reordered
TabsReordered(x) ==
    IF x.active = NoTab THEN [UpdateMenu(x) EXCEPT !.prev = FALSE]
                        ELSE UpdatePrevious(UpdateMenu(x), x.active)

\* lapiz_notebook_reorder_tab of the active tab, by the documents panel
ReorderTab(w, position) ==
    /\ w \in opened /\ Idle /\ win[w].active # NoTab
    /\ position # PageNum(win[w].pages, win[w].active)
    /\ win' = [win EXCEPT ![w] =
                 TabsReordered([@ EXCEPT !.pages = Reorder(win[w].pages, win[w].active, position)])]
    /\ UNCHANGED <<opened, tabState, jumpTo, synced, drag, wiped>> /\ Look

\* motion_notify_cb, past the threshold: drag_start
DragStart(w) ==
    /\ w \in opened /\ Idle /\ win[w].current # NoTab
    /\ drag' = {w}
    /\ UNCHANGED <<opened, win, tabState, jumpTo, synced, wiped, used>>

\* motion_notify_cb over its own notebook: move_current_tab, without a signal
DragOver(w, position) ==
    /\ w \in drag /\ win[w].current # NoTab
    /\ position # PageNum(win[w].pages, win[w].current)
    /\ win' = [win EXCEPT ![w].pages = Reorder(@, win[w].current, position)]
    /\ UNCHANGED <<opened, tabState, jumpTo, synced, drag, wiped>> /\ Look

\* drag_stop of one notebook, drag_start of the other
DragLeaves(src, dest) == (drag \ {src}) \union {dest}

\* lapiz_notebook_move_tab
MoveTab(v, src, dest, t, position) ==
    [v EXCEPT ![src] = RemoveTab(@, t, FALSE, tabState),
              ![dest] = AddTab(@, t, position, TRUE, tabState)]

\* The handlers of the tab go with it.
Moved(src, dest, t) == [synced EXCEPT ![t] = (@ \ {src}) \union {dest}]

\* motion_notify_cb over another one: move_current_tab_to_another_notebook
DragTo(src, dest, position) ==
    LET t == win[src].current IN
    /\ src \in drag /\ dest \in opened /\ src # dest
    /\ drag' = DragLeaves(src, dest)
    /\ IF t = NoTab
       THEN /\ win' = [win EXCEPT ![src] = TabsReordered(@)]
            /\ UNCHANGED <<synced, jumpTo>>
       ELSE /\ win' = MoveTab([win EXCEPT ![src] = TabsReordered(@)], src, dest, t, position)
            /\ synced' = Moved(src, dest, t)
            /\ jumpTo' = jumpTo \union {t}
    /\ UNCHANGED <<opened, tabState, wiped>> /\ Look

\* button_release_cb over the window, or with its only tab
DragStop(w) ==
    /\ w \in drag
    /\ drag' = {}
    /\ win' = [win EXCEPT ![w] = TabsReordered(@)]
    /\ UNCHANGED <<opened, tabState, jumpTo, synced, wiped>> /\ Look

\* A tab goes to a window of its own: notebook_tab_detached, after a drag, or
\* _lapiz_window_move_tab_to_new_window.
Detach(w, new, dragged) ==
    LET t == win[w].current IN
    /\ w \in opened /\ new \notin opened
    /\ IF dragged THEN w \in drag ELSE Idle
    /\ Len(win[w].pages) > 1
    /\ opened' = opened \union {new}
    /\ win' = LET moved == MoveTab(win, w, new, t, 0)
              IN IF dragged THEN [moved EXCEPT ![w] = TabsReordered(@)] ELSE moved
    /\ synced' = Moved(w, new, t)
    /\ jumpTo' = jumpTo \union {t}
    /\ drag' = {}
    /\ UNCHANGED <<tabState, wiped>> /\ Look

Next ==
    \/ \E w \in Windows :
         \/ \E t \in Tabs : CloseTab(w, t) \/ \E jump \in BOOLEAN : CreateTab(w, t, jump)
         \/ \E tabs \in SUBSET Tabs : CloseTabs(w, tabs)
         \/ CloseAllTabs(w) \/ CloseWindow(w)
         \/ \E n \in 1..Cardinality(Tabs) : SelectPage(w, n) \/ ReorderTab(w, n) \/ DragOver(w, n)
         \/ \E text \in BOOLEAN : ClipboardReceived(w, text)
         \/ DragStart(w) \/ DragStop(w)
         \/ \E v \in Windows : \/ \E n \in 0..Cardinality(Tabs) : DragTo(w, v, n)
                               \/ \E dragged \in BOOLEAN : Detach(w, v, dragged)
    \/ \E t \in Tabs : SetState(t)

Spec == Init /\ [][Next]_vars

-----------------------------------------------------------------------------

\* The variables have their types, and one notebook at most is being dragged in.
TypeOK ==
    /\ opened \subseteq Windows /\ drag \subseteq opened /\ wiped \subseteq opened
    /\ tabState \in [Tabs -> States] /\ jumpTo \subseteq Tabs
    /\ synced \in [Tabs -> SUBSET Windows]
    /\ \A w \in Windows :
         /\ TabsOf(w) \subseteq Tabs /\ IsInjective(win[w].pages)
         /\ {win[w].current, win[w].active, win[w].listens} \subseteq Tabs \union {NoTab}
         /\ win[w].state \subseteq {"LOADING", "SAVING", "PRINTING", "ERROR"}
    /\ Cardinality(drag) <= 1

\* However tabs are moved between windows and in whatever order their operations
\* end, each is in one window at most and followed by that window only; and what
\* a window says of its tabs, in its state and in its statusbar, is so.
StateIsItsTabs ==
    /\ \A t \in Tabs : synced[t] = {w \in Windows : t \in TabsOf(w)} /\ Cardinality(synced[t]) <= 1
    /\ \A w \in opened :
         /\ win[w].state = FlagsOf(win[w].pages, tabState)
         /\ win[w].errors = Cardinality({t \in TabsOf(w) : tabState[t] = "SAVING_ERROR"})
         /\ win[w].bar = <<win[w].state, win[w].errors>>

\* The window's active tab is the page its notebook shows, the only one whose
\* view it listens to, and there is none exactly when there are no tabs.
ActiveIsCurrent ==
    \A w \in opened :
        /\ win[w].active = win[w].current /\ win[w].listens = win[w].current
        /\ win[w].num_tabs = Len(win[w].pages)
        /\ IF TabsOf(w) = {} THEN win[w].current = NoTab ELSE win[w].current \in TabsOf(w)

\* The documents menu lists the pages in their order and marks the active one,
\* except while a tab is being dragged over them: its items are positions, and a
\* stale one would show another document.
MenuIsThePages ==
    \A w \in opened \ drag : /\ win[w].menu = win[w].pages
                             /\ win[w].shown = PageNum(win[w].pages, win[w].active)

\* What can be clicked fits the active tab as it is now and its place, and Close
\* All the whole window.
ActionsFitTheTab ==
    \A w \in opened : TabsOf(w) # {} =>
        LET t == win[w].active IN
        /\ win[w].save = (tabState[t] = "NORMAL")
        /\ win[w].close = (tabState[t] \notin {"SAVING", "PRINTING", "SAVING_ERROR"})
        /\ w \notin drag => (win[w].prev <=> win[w].pages[1] # t)
        /\ win[w].closeAll = (\A p \in TabsOf(w) : tabState[p] \notin {"SAVING", "PRINTING"})

\* Answers of the clipboard come late, to another tab or to the same tab in
\* another state: Paste is never offered where the text is not the user's.
PasteFitsTheTab ==
    \A w \in opened :
        TabsOf(w) # {} /\ win[w].paste => tabState[win[w].active] = "NORMAL"

\* Closing a tab that was opened to be looked at leads back to the tab the user
\* looked at before it, wherever that one has been moved to in the notebook.
ClosingReturns ==
    [][\A w \in opened \ wiped : \A t \in jumpTo :
         LET before == Among(used[w], Tabs \ {t}) IN
         (CloseTab(w, t) /\ t = win[w].current /\ before # <<>>)
             => win'[w].current = Last(before)]_vars

\* What a window says, shows and offers is what its tabs are.
WindowShowsItsTabs ==
    TypeOK /\ StateIsItsTabs /\ ActiveIsCurrent /\ MenuIsThePages /\ ActionsFitTheTab /\ PasteFitsTheTab
=============================================================================
