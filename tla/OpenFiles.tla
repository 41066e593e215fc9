------------------------------ MODULE OpenFiles ------------------------------
(* Opening files: from the command line, as a request of another process,    *)
(* with a dialog, by a drop or from the recent files, and when a session is  *)
(* restored.  Each function of lapiz-app.c, lapiz-window.c and               *)
(* lapiz-commands-file.c is an operator on the application, a record:        *)
(*   windows  the windows, the last one created first, as records of their   *)
(*            pages (the tabs) and the number of the one they show           *)
(*   active   the number of the window that had the focus last               *)
(* Loading is asynchronous, so a file may be asked for again, in the same    *)
(* window or another one, before or after it is there.                       *)
EXTENDS Locations, Naturals, FiniteSets, SequencesExt

CONSTANTS
    MaxTabs,    \* bound: the tabs there may be at once
    MaxWindows, \* bound: the windows
    NoSession

VARIABLES
    app,        \* the application; it runs while it has windows
    state_file, \* what the session manager keeps of the session
    seen        \* history: what the windows showed when the session was saved

vars == <<app, state_file, seen>>

\* The windows a request may find in its viewport.
Viewports == SUBSET (DOMAIN app.windows)

NoApp   == [windows |-> <<>>, active |-> 0]
Running == app.windows # <<>>

\* What is known of a tab.  bar: it has a message area that asks something;
\* granted: the user made it editable, or saved it, himself (history).
NewTab == [file |-> Untitled, state |-> "NORMAL", modified |-> FALSE,
           not_editable |-> FALSE, bar |-> FALSE, granted |-> FALSE]
NewWindow == [pages |-> <<>>, current |-> 0]

Pages    == UNION {{w} \X DOMAIN app.windows[w].pages : w \in DOMAIN app.windows}
Tab(p)   == app.windows[p[1]].pages[p[2]]
HasRoom(n) == Cardinality(Pages) + n <= MaxTabs

(***************************************************************************)
(* Tabs and windows.                                                       *)
(***************************************************************************)
IsUntouched(d) == d.file = Untitled /\ ~d.modified
IsEditable(d)  == d.state = "NORMAL" /\ ~d.not_editable

\* _lapiz_tab_load and lapiz_document_load_real: the document has the location
\* at once.
Load(d, file) == [d EXCEPT !.file = file, !.state = "LOADING", !.bar = FALSE]

\* lapiz_notebook_add_tab at the end.  The first page of a notebook is shown in
\* any case.
AddTab(win, d, jump_to) ==
    [pages   |-> Append(win.pages, d),
     current |-> IF jump_to \/ win.pages = <<>> THEN Len(win.pages) + 1 ELSE win.current]

CreateTab(win, jump_to) == AddTab(win, NewTab, jump_to)
CreateTabFromUri(win, file, jump_to) == AddTab(win, Load(NewTab, file), jump_to)

\* A tab for each file of a list, in turn; those of jumps are jumped to.
CreateTabs(win, list, jumps) ==
    LET after[k \in 0..Len(list)] ==
            IF k = 0 THEN win ELSE CreateTabFromUri(after[k - 1], list[k], list[k] \in jumps)
    IN  after[Len(list)]

\* lapiz_app_create_window_real: active_window is set for the first one only, the
\* others wait for the focus.
CreateWindow(a, win) == [windows |-> <<win>> \o a.windows, active |-> a.active + 1]

(***************************************************************************)
(* load_file_list.                                                         *)
(***************************************************************************)
IsOpenIn(win, file) == \E i \in DOMAIN win.pages : win.pages[i].file = file

\* get_tab_from_file, for a file that is open in the window
GetTabFromFile(win, file) == SelectInSeq(win.pages, LAMBDA d : d.file = file)

\* The list of those to load, once it has come to a file.
WithFile(list, win, file) ==
    IF file \in Range(list) \/ IsOpenIn(win, file) THEN list ELSE Append(list, file)

FilesToLoad(win, files) ==
    LET list[k \in 0..Len(files)] ==
            IF k = 0 THEN <<>> ELSE WithFile(list[k - 1], win, files[k])
    IN  list[Len(files)]

\* Is the tab that is shown taken for the first file?
Reuses(win, toLoad) ==
    /\ toLoad # <<>> /\ win.current # 0
    /\ LET d == win.pages[win.current] IN IsUntouched(d) /\ d.state = "NORMAL"

LoadInto(win, file) == [win EXCEPT !.pages[win.current] = Load(@, file)]

\* Mutant: a file that is open does not keep the others from being jumped to.
LoadFileList_JumpsOn(win, files) ==
    LET isOpen == IsOpenIn(win, Head(files))
        shown  == [win EXCEPT !.current = IF isOpen THEN GetTabFromFile(win, Head(files)) ELSE @]
        toLoad == FilesToLoad(win, files)
        reused == Reuses(shown, toLoad)
        jumpTo == ~reused
    IN  CreateTabs(IF reused THEN LoadInto(shown, Head(toLoad)) ELSE shown,
                   IF reused THEN Tail(toLoad) ELSE toLoad,
                   IF jumpTo THEN {Head(toLoad)} ELSE {})

\* The first file is shown: in the tab it has, in the untouched tab that was
\* shown, or in the first new one.
LoadFileList(win, files) ==
    LET isOpen == IsOpenIn(win, Head(files))
        shown  == [win EXCEPT !.current = IF isOpen THEN GetTabFromFile(win, Head(files)) ELSE @]
        toLoad == FilesToLoad(win, files)
        reused == Reuses(shown, toLoad)
        jumpTo == ~isOpen /\ ~reused
    IN  CreateTabs(IF reused THEN LoadInto(shown, Head(toLoad)) ELSE shown,
                   IF reused THEN Tail(toLoad) ELSE toLoad,
                   IF jumpTo THEN {Head(toLoad)} ELSE {})

(***************************************************************************)
(* Starting, and requests of other processes.                              *)
(***************************************************************************)
\* main, when no session is restored.
Start == \E files \in Requests :
    /\ ~Running
    /\ app' = CreateWindow(NoApp, IF files = <<>> THEN CreateTab(NewWindow, TRUE)
                                  ELSE LoadFileList(NewWindow, files))
    /\ UNCHANGED <<state_file, seen>>

\* _lapiz_app_get_window_in_viewport: the active window if it is there, or else
\* the first that is; 0 if none is.
InViewport(here) ==
    IF app.active \in here THEN app.active
    ELSE SelectInSeq([w \in DOMAIN app.windows |-> w], LAMBDA w : w \in here)

\* on_message_received, once the window is found or created.
ServeRequest(win, files, new_document) ==
    LET done == IF files = <<>> THEN win ELSE LoadFileList(win, files)
    IN  IF \/ new_document
           \/ files = <<>> /\ (win.current = 0 \/ ~IsUntouched(win.pages[win.current]))
        THEN CreateTab(done, TRUE) ELSE done

OnMessageReceived(files, here, new_window, new_document) ==
    /\ Running /\ HasRoom(Len(files) + (IF new_document \/ files = <<>> THEN 1 ELSE 0))
    /\ IF new_window \/ InViewport(here) = 0
       THEN /\ Len(app.windows) < MaxWindows
            /\ app' = CreateWindow(app, ServeRequest(NewWindow, files, new_document))
       ELSE app' = [app EXCEPT !.windows[InViewport(here)] = ServeRequest(@, files, new_document)]
    /\ UNCHANGED <<state_file, seen>>

\* window_focus_in_event
FocusIn(w) ==
    /\ w \in DOMAIN app.windows
    /\ app' = [app EXCEPT !.active = w]
    /\ UNCHANGED <<state_file, seen>>

\* The user opens files: open_dialog_response_cb, drops, recent files, plugins.
LoadUris(w, files) ==
    /\ w \in DOMAIN app.windows /\ files # <<>> /\ HasRoom(Len(files))
    /\ app' = [app EXCEPT !.windows[w] = LoadFileList(@, files)]
    /\ UNCHANGED <<state_file, seen>>

(***************************************************************************)
(* Loads end, in any order.                                                *)
(***************************************************************************)
\* Mutant: only the documents of the same window are looked at.
OpenElsewhere_InWindow(p) == \E q \in Pages \ {p} : q[1] = p[1] /\ Tab(q).file = Tab(p).file

\* document_loaded looks through the documents of all windows, loaded or not.
OpenElsewhere(p) == \E q \in Pages \ {p} : Tab(q).file = Tab(p).file

Becomes(p, d) ==
    /\ app' = [app EXCEPT !.windows[p[1]].pages[p[2]] = d]
    /\ UNCHANGED <<state_file, seen>>

\* document_loaded without an error
DocumentLoaded(p) ==
    /\ Tab(p).state = "LOADING"
    /\ Becomes(p, [Tab(p) EXCEPT !.state = "NORMAL", !.bar = OpenElsewhere(p),
                                 !.not_editable = @ \/ OpenElsewhere(p)])

\* document_loaded with an error; after a cancelled load the tab has no message
\* area, and goes in an idle.
LoadFails(p, cancelled) ==
    /\ Tab(p).state = "LOADING"
    /\ Becomes(p, [Tab(p) EXCEPT !.state = "LOADING_ERROR", !.bar = ~cancelled])

\* io_loading_error_message_area_response, _Retry
RetryLoad(p) ==
    /\ Tab(p).bar /\ Tab(p).state = "LOADING_ERROR"
    /\ Becomes(p, Load(Tab(p), Tab(p).file))

\* file_already_open_warning_message_area_response
AnswerAlreadyOpen(p, editAnyway) ==
    /\ Tab(p).bar /\ Tab(p).state = "NORMAL"
    /\ Becomes(p, [Tab(p) EXCEPT !.bar = FALSE, !.not_editable = @ /\ ~editAnyway,
                                 !.granted = @ \/ editAnyway])

(***************************************************************************)
(* What else the tabs go through (LapizTab, LapizWindow and WindowClosing  *)
(* have the details).                                                      *)
(***************************************************************************)
\* It matters for untitled documents only.
Edit(p) ==
    /\ IsUntouched(Tab(p))
    /\ Becomes(p, [Tab(p) EXCEPT !.modified = TRUE])

\* A save under any name that succeeds.
SaveAs(p, file) ==
    /\ Tab(p).state = "NORMAL"
    /\ Becomes(p, [Tab(p) EXCEPT !.file = file, !.modified = FALSE, !.bar = FALSE,
                                 !.granted = TRUE])

\* Which page is shown instead is the matter of Notebook.
Leave(win, i, next) ==
    [pages   |-> RemoveAt(win.pages, i),
     current |-> IF win.current # i THEN win.current - (IF i < win.current THEN 1 ELSE 0)
                 ELSE IF Len(win.pages) = 1 THEN 0 ELSE next]
NextPages(p) == 1 .. (Len(app.windows[p[1]].pages) - 1) \union {1}

CloseTab(p, next) ==
    /\ app' = [app EXCEPT !.windows[p[1]] = Leave(@, p[2], next)]
    /\ UNCHANGED <<state_file, seen>>

\* lapiz_notebook_move_tab
MoveTab(p, w, next) ==
    /\ w \in DOMAIN app.windows /\ w # p[1]
    /\ app' = [app EXCEPT !.windows[p[1]] = Leave(@, p[2], next),
                          !.windows[w] = AddTab(@, Tab(p), TRUE)]
    /\ UNCHANGED <<state_file, seen>>

\* The active window once w is gone: another one if w was it.
ActiveAfter(w) ==
    IF app.active = w THEN (IF Len(app.windows) = 1 THEN 0 ELSE 1)
    ELSE IF app.active > w THEN app.active - 1 ELSE app.active

\* window_destroy of lapiz-app.c; after the last one lapiz quits.
WindowDestroy(w) ==
    /\ w \in DOMAIN app.windows
    /\ app' = [windows |-> RemoveAt(app.windows, w), active |-> ActiveAfter(w)]
    /\ UNCHANGED <<state_file, seen>>

(***************************************************************************)
(* The session.                                                            *)
(***************************************************************************)
FilesIn(win) ==
    LET list[k \in 0..Len(win.pages)] ==
            IF k = 0 THEN <<>>
            ELSE IF win.pages[k].file = Untitled THEN list[k - 1]
            ELSE Append(list[k - 1], win.pages[k].file)
    IN  list[Len(win.pages)]
ActiveFile(win) == IF win.current = 0 THEN Untitled ELSE win.pages[win.current].file

\* save_window_session; without a uri no active document is written.
SaveWindowSession(win) == [documents |-> FilesIn(win), active |-> ActiveFile(win)]

\* The files a window has, and the one it shows; if it shows an untitled document,
\* the first of them.
Shown(win) ==
    [files |-> FilesIn(win),
     shown |-> IF ActiveFile(win) # Untitled \/ FilesIn(win) = <<>> THEN ActiveFile(win)
               ELSE Head(FilesIn(win))]

\* client_save_state_cb
SaveState ==
    /\ Running
    /\ state_file' = [w \in DOMAIN app.windows |-> SaveWindowSession(app.windows[w])]
    /\ seen' = [w \in DOMAIN app.windows |-> Shown(app.windows[w])]
    /\ UNCHANGED app

\* parse_window: jump_to is for the active document; the notebook shows the first
\* page otherwise.
ParseWindow(a, group) ==
    CreateWindow(a, CreateTabs(NewWindow, group.documents, {group.active}))

\* lapiz_session_load, when the session manager starts lapiz again.
AppOf(groups) ==
    LET after[k \in 0..Len(groups)] ==
            IF k = 0 THEN NoApp ELSE ParseWindow(after[k - 1], groups[k])
    IN  after[Len(groups)]

SessionLoad ==
    /\ ~Running /\ state_file # NoSession
    /\ app' = AppOf(state_file)
    /\ UNCHANGED <<state_file, seen>>

\* The session ends, or lapiz crashes.
Ends ==
    /\ Running /\ app' = NoApp
    /\ UNCHANGED <<state_file, seen>>

-----------------------------------------------------------------------------
Init == app = NoApp /\ state_file = NoSession /\ seen = <<>>

NextOfLoads ==
    \/ \E p \in Pages : DocumentLoaded(p) \/ RetryLoad(p)
    \/ \E p \in Pages, b \in BOOLEAN : LoadFails(p, b) \/ AnswerAlreadyOpen(p, b)

NextOfWindows ==
    \/ Start
    \/ \E files \in Requests, here \in Viewports, new_window, new_document \in BOOLEAN :
          OnMessageReceived(files, here, new_window, new_document)
    \/ \E w \in 1 .. MaxWindows : FocusIn(w) \/ WindowDestroy(w)
    \/ \E w \in 1 .. MaxWindows, files \in Requests : LoadUris(w, files)
    \/ \E p \in Pages : Edit(p) \/ \E file \in Files : SaveAs(p, file)
    \/ \E p \in Pages : \E next \in NextPages(p) :
          CloseTab(p, next) \/ \E w \in 1 .. MaxWindows : MoveTab(p, w, next)

NextOfSession == SaveState \/ SessionLoad \/ Ends

Next == NextOfLoads \/ NextOfWindows \/ NextOfSession
Spec == Init /\ [][Next]_vars

-----------------------------------------------------------------------------
\* Every window shows one of its tabs, and the tabs are in one of their states.
TypeOK ==
    /\ \A p \in Pages : Tab(p).state \in {"NORMAL", "LOADING", "LOADING_ERROR"}
    /\ \A w \in DOMAIN app.windows :
          LET win == app.windows[w]
          IN  IF win.pages = <<>> THEN win.current = 0 ELSE win.current \in DOMAIN win.pages

\* However the loads of one file into several windows overlap, at most one of its
\* tabs can be edited without the user having said so there (the answer to the
\* warning, or a save of his): two copies would overwrite each other.
OneEditableCopy ==
    \A file \in Files :
        Cardinality({p \in Pages : /\ Tab(p).file = file
                                   /\ IsEditable(Tab(p)) /\ ~Tab(p).granted}) <= 1

\* A request that comes from another process finds an active window whenever
\* there is a window at all (the race that lapiz_app_create_window_real warns of).
ActiveWindowExists == Running => app.active \in DOMAIN app.windows

FilesAreOpenedOnce == TypeOK /\ OneEditableCopy /\ ActiveWindowExists

\* What was asked for is there, once unless it was there more often already, the
\* first file is shown (or the new document), and nothing the user had in the
\* window is replaced or moved.
Served(old, new, files, new_document) ==
    LET copies(win, file) == Cardinality({i \in DOMAIN win.pages : win.pages[i].file = file})
        shown == new.pages[new.current]
    IN  /\ new.current # 0
        /\ \A file \in Range(files) :
               copies(new, file) = IF copies(old, file) = 0 THEN 1 ELSE copies(old, file)
        /\ IF new_document \/ files = <<>> THEN IsUntouched(shown) ELSE shown.file = Head(files)
        /\ \A i \in DOMAIN old.pages :
               i \in DOMAIN new.pages /\ (IsUntouched(old.pages[i]) \/ new.pages[i] = old.pages[i])

\* The windows as they were, with a new one in front if one has been created.
WindowsBefore == IF Len(app'.windows) > Len(app.windows) THEN <<NewWindow>> \o app.windows
                 ELSE app.windows

ServedOne(files, new_document) ==
    \E w \in DOMAIN app'.windows :
        /\ Served(WindowsBefore[w], app'.windows[w], files, new_document)
        /\ \A v \in DOMAIN app'.windows \ {w} : app'.windows[v] = WindowsBefore[v]

\* A request, of the user or of another process, is served in one window, and
\* the other windows stay as they are.
RequestIsServed ==
    /\ \A w \in 1 .. MaxWindows, files \in Requests : LoadUris(w, files) => ServedOne(files, FALSE)
    /\ \A files \in Requests, here \in Viewports, new_window, new_document \in BOOLEAN :
          OnMessageReceived(files, here, new_window, new_document) => ServedOne(files, new_document)

\* A restored session shows what was shown when it was saved: the files of each
\* window in their order, with the same one on top; the windows themselves come
\* in the opposite order.
SessionIsRestored ==
    SessionLoad => [w \in DOMAIN app'.windows |-> Shown(app'.windows[w])] = Reverse(seen)

\* Whoever asks for files, the user, another process or the saved session, gets
\* them shown, and loses nothing of what was there.
WhatWasAskedForIsShown == [][RequestIsServed /\ SessionIsRestored]_vars
=============================================================================
