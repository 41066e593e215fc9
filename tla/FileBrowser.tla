----------------------------- MODULE FileBrowser -----------------------------
(***************************************************************************)
(* The file browser pane: the store of FileBrowserStore, the widget's      *)
(* history of locations (lapiz-file-browser-widget.c), the jobs that       *)
(* delete files, and the disk under them. The user browses while           *)
(* directories load, volumes mount, other programs add and remove files    *)
(* and the results of all that come back as callbacks of the main loop.    *)
(***************************************************************************)
EXTENDS FileBrowserStore, Sequences

CONSTANTS
    Home,           \* the local root
    Share,          \* a root on a volume that has to be mounted first
    Trashable,      \* the files whose volume has a trash
    Restored,       \* the virtual roots the last session may have left
    MaxCommands,    \* commands of the user: a bound
    MaxChanges      \* files other programs make or remove: a bound

ASSUME {Home, Share} \subseteq Dirs /\ Folder[Home] = "" /\ Folder[Share] = ""

VARIABLES
    model,          \* the store: root, virtual_root, hiding, nodes, loads
    mount,          \* mount_info: "no", or the virtual root to show when mounted
    mounted,        \* the share is mounted
    job,            \* the delete job under way: its files, the next of them, trash
    disk,           \* the files there are
    events,         \* what the monitors have to report: <<node, event, file>>
    locations,      \* the widget's history, the newest first
    current,        \* current_location: an index of locations, 0 for NULL
    bookmarks,      \* the tree view shows the bookmarks
    sensitive,      \* the sensitive ones of Up, Previous and Next
    running, commands, changes

storeVars == <<model, mount, mounted, job, disk, events>>
widgetVars == <<locations, current, bookmarks, sensitive>>
vars == <<storeVars, widgetVars, running, commands, changes>>

NoJob == [files |-> <<>>, next |-> 1, trash |-> FALSE]
Idle == job = NoJob
In(dir) == {f \in disk : Folder[f] = dir}
Shown == {n \in DOMAIN model.nodes : n # model.virtual_root /\ InView(model, n) /\ Inserted(model, n)}

Command == running /\ commands < MaxCommands /\ commands' = commands + 1 /\ UNCHANGED changes
Callback == running /\ UNCHANGED <<commands, changes>>

\* Memory that was freed, or a NULL virtual root, is used.
Crash == running' = FALSE /\ UNCHANGED <<storeVars, widgetVars>>

----------------------------------------------------------------------------
(* The widget's history.                                                   *)

Place(m) == <<m.root[1], m.virtual_root[1]>>
Ahead == SubSeq(locations, IF current = 0 THEN 1 ELSE current, Len(locations))

Sensitivity(m, list, at) ==
    (IF m.virtual_root = m.root THEN {} ELSE {"up"})
        \union (IF at # 0 /\ at < Len(list) THEN {"previous"} ELSE {})
        \union (IF at > 1 THEN {"next"} ELSE {})

\* Mutant: the location left is dropped with those ahead of it.
RecordLocation_DropsCurrent(m) ==
    /\ locations' = <<Place(m)>> \o (IF Ahead = <<>> THEN <<>> ELSE Tail(Ahead))
    /\ current' = 1 /\ bookmarks' = FALSE /\ sensitive' = Sensitivity(m, locations', 1)

\* on_virtual_root_changed, when the widget is not changing location itself.
RecordLocation(m) ==
    /\ locations' = <<Place(m)>> \o Ahead
    /\ current' = 1
    /\ bookmarks' = FALSE
    /\ sensitive' = Sensitivity(m, locations', 1)

\* The same while jump_to_location sets the root.
ShowLocation(m, at) ==
    /\ bookmarks' = FALSE
    /\ sensitive' = Sensitivity(m, locations, at)
    /\ UNCHANGED locations

\* on_model_set: the bookmarks replace the files.
ShowBookmarks ==
    /\ Command /\ ~bookmarks
    /\ locations' = Ahead /\ current' = 0 /\ bookmarks' = TRUE
    /\ sensitive' = (sensitive \ {"next"}) \union (IF current = 0 THEN {} ELSE {"previous"})
    /\ UNCHANGED <<storeVars, running>>

----------------------------------------------------------------------------
(* The root of the store.                                                  *)

NewRoot(m, root) ==
    LET gone == CancelLoads(m, DOMAIN m.nodes)
    IN  [gone EXCEPT !.root = <<root, 1>>, !.virtual_root = None,
                     !.nodes = [n \in {<<root, 1>>} |-> Bare(None)]]

\* lapiz_file_browser_store_set_virtual_root_from_string
FromFile(m, f) ==
    IF f = m.root[1] THEN SetVirtualRoot(Clear(m), m.root)
    ELSE LET with == WithPath(Clear(m), f) IN SetVirtualRoot(with, Path(with, f))

RootMounted(m, virtual) == FromFile(CheckDummy(m, m.root), virtual)

Empty == [root |-> None, virtual_root |-> None, hiding |-> TRUE,
          nodes |-> [n \in {} |-> {}], loads |-> [l \in {} |-> {}]]

\* The pane opens on the bookmarks, or where the last session was.
Init ==
    /\ mount = "no" /\ mounted = FALSE /\ job = NoJob /\ disk = Files /\ events = <<>>
    /\ running = TRUE /\ commands = 0 /\ changes = 0
    /\ \/ /\ model = Empty /\ bookmarks = TRUE
          /\ locations = <<>> /\ current = 0 /\ sensitive = {}
       \/ /\ \E f \in Restored : model = RootMounted(NewRoot(Empty, Home), f)
          /\ bookmarks = FALSE
          /\ locations = <<Place(model)>> /\ current = 1
          /\ sensitive = Sensitivity(model, locations, current)

\* handle_root_error
RootError(m) ==
    CheckDummy([m EXCEPT !.virtual_root = m.root, !.nodes[m.root].loaded = TRUE], m.root)

NoChange(root, virtual) ==
    /\ model.root # None /\ model.root[1] = root
    /\ model.virtual_root # None /\ model.virtual_root[1] = virtual

\* What the notification of virtual-root does in the widget: it is recorded as a
\* fresh place unless the history is moving to one that it has.
Fresh == 0
Notify(m, to) == IF to = Fresh THEN RecordLocation(m) ELSE ShowLocation(m, to)

\* lapiz_file_browser_store_set_root_and_virtual_root; a mount notifies later and
\* leaves the widget with what `waits` says.
SetRoot(root, virtual, to, waits) ==
    IF NoChange(root, virtual)
    THEN Notify(model, to) /\ UNCHANGED <<model, mount, running>>
    ELSE IF model.root # None /\ model.root[1] = root /\ model.virtual_root = None
    THEN running' = FALSE /\ UNCHANGED <<model, mount>> /\ waits
    ELSE LET new == NewRoot(model, root)
         IN  /\ UNCHANGED running
             /\ \/ /\ root = Share /\ ~mounted
                   /\ model' = new /\ mount' = virtual /\ waits
                \/ /\ root = Share /\ ~mounted
                   /\ model' = RootError(new) /\ mount' = "no" /\ Notify(model', to)
                \/ /\ root # Share \/ mounted
                   /\ model' = RootMounted(new, virtual) /\ mount' = "no" /\ Notify(model', to)

\* bookmark_open and the combo box: a place under the root it belongs to.
OpenBookmark(root, virtual) ==
    /\ Command /\ CanLoad(model)
    /\ virtual \in disk \intersect Dirs /\ IsBelow(virtual, root)
    /\ SetRoot(root, virtual, Fresh, UNCHANGED widgetVars)
    /\ UNCHANGED <<mounted, job, disk, events>>

\* bookmark_open of a drive or a volume cancels the mount of the store.
CancelMount ==
    /\ Command /\ bookmarks /\ mount # "no"
    /\ mount' = "no"
    /\ UNCHANGED <<model, mounted, job, disk, events, widgetVars, running>>

MountDone ==
    /\ Callback /\ mount # "no" /\ CanLoad(model)
    /\ mount' = "no"
    /\ \/ mounted' = TRUE /\ model' = RootMounted(model, mount) /\ RecordLocation(model')
       \/ mounted' = FALSE /\ model' = RootError(model) /\ RecordLocation(model')
       \/ UNCHANGED <<mounted, model, widgetVars>>     \* the user dismissed the question
    /\ UNCHANGED <<job, disk, events, running>>

\* jump_to_location: the history moves first, then the store follows. Past the end
\* of the list it runs out of menu items.
Jump(to, waits) ==
    /\ Command /\ CanLoad(model)
    /\ IF to \notin DOMAIN locations THEN Crash
       ELSE /\ current' = to
            /\ SetRoot(locations[to][1], locations[to][2], to, waits)
            /\ UNCHANGED <<mounted, job, disk, events>>

Previous == "previous" \in sensitive /\ locations # <<>>
              /\ Jump(current + 1, UNCHANGED <<locations, bookmarks, sensitive>>)
Forward == "next" \in sensitive /\ Jump(current - 1, UNCHANGED <<locations, bookmarks, sensitive>>)

----------------------------------------------------------------------------
(* Browsing.                                                               *)

\* The virtual root moves in the store, and the widget is notified.
Move(m) == model' = m /\ RecordLocation(m)

OpenDirectory ==
    /\ Command /\ CanLoad(model) /\ ~bookmarks
    /\ \E n \in Shown : IsDir(n) /\ Move(SetVirtualRoot(Clear(model), n))
    /\ UNCHANGED <<mount, mounted, job, disk, events, running>>

Up ==
    /\ Command /\ CanLoad(model) /\ ~bookmarks /\ "up" \in sensitive
    /\ model.virtual_root # model.root
    /\ IF model.virtual_root = None THEN Crash
       ELSE /\ Move(SetVirtualRoot(Clear(model), model.nodes[model.virtual_root].parent))
            /\ UNCHANGED <<mount, mounted, job, disk, events, running>>

Expand ==
    /\ Command /\ CanLoad(model) /\ ~bookmarks
    /\ \E n \in Shown : /\ IsDir(n) /\ ~model.nodes[n].loaded
                        /\ HasChild(model, n) \/ model.nodes[n].dummy = "shown"
                        /\ model' = LoadDirectory(model, n)
    /\ UNCHANGED <<mount, mounted, job, disk, events, widgetVars, running>>

RECURSIVE UnloadAll(_, _)
UnloadAll(m, dirs) ==
    IF dirs = {} THEN m
    ELSE LET d == CHOOSE c \in dirs : TRUE
         IN  UnloadAll(CheckDummy(UnloadRemoving(m, d), d), dirs \ {d})

Collapse ==
    /\ Command /\ ~bookmarks
    /\ \E n \in Shown : /\ IsDir(n) /\ model.nodes[n].loaded
                        /\ model' = UnloadAll(model, {c \in Kids(model, n) :
                                        IsDir(c) /\ model.nodes[c].loaded})
    /\ UNCHANGED <<mount, mounted, job, disk, events, widgetVars, running>>

Refresh ==
    /\ Command /\ CanLoad(model) /\ ~bookmarks /\ model.virtual_root # None
    /\ model' = LoadDirectory(UnloadRemoving(model, model.virtual_root), model.virtual_root)
    /\ UNCHANGED <<mount, mounted, job, disk, events, widgetVars, running>>

SetFilterMode ==
    /\ Command /\ model.root # None
    /\ model' = Refilter(model)
    /\ UNCHANGED <<mount, mounted, job, disk, events, widgetVars, running>>

\* A change of the disk is reported by the monitor of the directory, if it has one.
Report(what, f) ==
    LET told == {n \in DOMAIN model.nodes : n[1] = Folder[f] /\ model.nodes[n].monitor}
    IN  events' = IF told = {} THEN events
                  ELSE Append(events, <<CHOOSE n \in told : TRUE, what, f>>)

NewFile ==
    /\ Command /\ ~bookmarks
    /\ \E n \in Shown \union {model.virtual_root}, f \in Files \ disk :
          /\ n # None /\ IsDir(n) /\ Folder[f] = n[1] /\ n[1] \in disk
          /\ disk' = disk \union {f}
          /\ model' = AddNodeFromFile(model, n, f)
          /\ Report("created", f)
    /\ UNCHANGED <<mount, mounted, job, widgetVars, running>>

\* Other programs.
ChangeDisk ==
    /\ running /\ changes < MaxChanges /\ changes' = changes + 1 /\ UNCHANGED commands
    /\ \E f \in Files \ {Home, Share} :
          \/ /\ f \in disk /\ In(f) = {} /\ disk' = disk \ {f} /\ Report("deleted", f)
          \/ /\ f \notin disk /\ Folder[f] \in disk
             /\ disk' = disk \union {f} /\ Report("created", f)
    /\ UNCHANGED <<model, mount, mounted, job, widgetVars, running>>

----------------------------------------------------------------------------
(* Callbacks.                                                              *)

\* A load is over; a cancellable of it that a directory keeps cancels nothing.
Drop(m, l) ==
    [m EXCEPT !.loads = [k \in DOMAIN @ \ {l} |-> @[k]],
              !.nodes = [n \in DOMAIN @ |-> [@[n] EXCEPT !.load = IF @ = l THEN NoLoad ELSE @]]]

LoadCancelled ==
    /\ Callback
    /\ \E l \in DOMAIN model.loads : model.loads[l].cancelled /\ model' = Drop(model, l)
    /\ UNCHANGED <<mount, mounted, job, disk, events, widgetVars, running>>

Live == {l \in DOMAIN model.loads : ~model.loads[l].cancelled}
FolderOf(l) == model.loads[l].dir[1]

\* model_iterate_children_cb: the enumerator is there.
LoadOpened ==
    /\ Callback
    /\ \E l \in Live : /\ ~model.loads[l].opened /\ FolderOf(l) \in disk
                       /\ model' = [model EXCEPT !.loads[l].opened = TRUE,
                                                 !.loads[l].owed = In(FolderOf(l))]
    /\ UNCHANGED <<mount, mounted, job, disk, events, widgetVars, running>>

\* The virtual root would be freed with a directory above it.
FreesVirtualRoot(n) ==
    model.virtual_root \in DOMAIN model.nodes /\ HasParent(model, model.virtual_root, n)

\* An error, of opening or of reading: the directory is unloaded.
LoadFails ==
    /\ Callback
    /\ \E l \in Live :
          /\ model.loads[l].opened => FolderOf(l) \notin disk
          /\ IF \/ model.loads[l].dir \notin DOMAIN model.nodes
                \/ FreesVirtualRoot(model.loads[l].dir) /\ model.nodes[model.loads[l].dir].loaded
             THEN Crash
             ELSE /\ model' = Drop(UnloadRemoving(model, model.loads[l].dir), l)
                  /\ UNCHANGED <<mount, mounted, job, disk, events, widgetVars, running>>

\* model_iterate_next_files_cb with files.
LoadFiles ==
    /\ Callback
    /\ \E l \in Live, files \in SUBSET Files \ {{}} :
          /\ model.loads[l].opened
          /\ files \subseteq In(FolderOf(l)) \ model.loads[l].seen
          /\ \/ model.loads[l].dir \in DOMAIN model.nodes
                /\ model' = AddNodesFromFiles([model EXCEPT !.loads[l].seen = @ \union files], l, files)
                /\ UNCHANGED <<mount, mounted, job, disk, events, widgetVars, running>>
             \/ /\ model.loads[l].dir \notin DOMAIN model.nodes \/ model.loads[l].dangling
                /\ Crash

\* The same without any: the load is over, and the cancellable the directory
\* holds, which may be another load's, is dropped.
LoadDone ==
    /\ Callback
    /\ \E l \in Live :
          LET dir == model.loads[l].dir
              other == model.nodes[dir].load
              m == [Drop(model, l) EXCEPT
                      !.nodes[dir].load = NoLoad, !.nodes[dir].monitor = TRUE,
                      !.loads = [k \in DOMAIN @ |-> [@[k] EXCEPT !.stray = @ \/ k = other]]]
          IN  /\ model.loads[l].opened
              /\ (model.loads[l].owed \intersect disk) \subseteq model.loads[l].seen
              /\ IF dir \notin DOMAIN model.nodes THEN Crash
                 ELSE /\ model' = CheckDummy(m, dir)
                      /\ UNCHANGED <<mount, mounted, job, disk, events, widgetVars, running>>

\* Removing the virtual root moves it up; removing one above it leaves it dangling.
Remove(n) ==
    IF FreesVirtualRoot(n) THEN running' = FALSE /\ UNCHANGED <<model, widgetVars>>
    ELSE LET m == RemoveNode(model, n)
         IN  /\ UNCHANGED running
             /\ IF n = model.virtual_root THEN Move(m)
                ELSE model' = m /\ UNCHANGED widgetVars

\* on_directory_monitor_event; a cancelled monitor reports nothing any more.
MonitorEvent ==
    /\ Callback /\ events # <<>> /\ CanLoad(model)
    /\ events' = Tail(events)
    /\ LET n == events[1][1]
           f == events[1][3]
       IN  IF n \notin DOMAIN model.nodes \/ ~model.nodes[n].monitor
           THEN UNCHANGED <<model, widgetVars, running>>
           ELSE \/ /\ events[1][2] = "created"
                   /\ model' = IF f \in disk THEN AddNodeFromFile(model, n, f) ELSE model
                   /\ UNCHANGED <<widgetVars, running>>
                \/ /\ events[1][2] = "deleted"
                   /\ IF HasFile(model, n, f)
                      THEN Remove(CHOOSE c \in Kids(model, n) : c[1] = f)
                      ELSE UNCHANGED <<model, widgetVars, running>>
    /\ UNCHANGED <<mount, mounted, job, disk>>

----------------------------------------------------------------------------
(* Deleting.                                                               *)

\* lapiz_file_browser_store_delete_all, from delete_selected_files: a file below
\* another one that was selected goes with it.
DeleteAll ==
    /\ Command /\ Idle /\ ~bookmarks
    /\ \E trash \in BOOLEAN, a, b \in Shown :
          /\ ~HasParent(model, a, b) /\ ~HasParent(model, b, a)
          /\ job' = [files |-> IF a = b THEN <<a[1]>> ELSE <<a[1], b[1]>>,
                     next |-> 1, trash |-> trash]
    /\ UNCHANGED <<model, mount, mounted, disk, events, widgetVars, running>>

Doomed == job.files[job.next]
NextFile == IF job.next = Len(job.files) THEN NoJob ELSE [job EXCEPT !.next = @ + 1]
NodesOf(f) == {n \in DOMAIN model.nodes : n[1] = f}

\* delete_file_finished: the file is gone, its node goes too.
FileDeleted ==
    /\ Callback /\ ~Idle /\ CanLoad(model)
    /\ Doomed \in disk /\ (job.trash => Doomed \in Trashable) /\ (In(Doomed) = {} \/ job.trash)
    /\ disk' = {f \in disk : ~IsBelow(f, Doomed)}
    /\ job' = NextFile
    /\ Report("deleted", Doomed)
    /\ IF NodesOf(Doomed) = {} THEN UNCHANGED <<model, widgetVars, running>>
       ELSE \E n \in NodesOf(Doomed) : n # model.root /\ Remove(n)
    /\ UNCHANGED <<mount, mounted>>

\* There is no trash: the whole job starts over as a deletion, if the user agrees.
NoTrash ==
    /\ Callback /\ ~Idle /\ job.trash /\ Doomed \in disk \ Trashable
    /\ job' \in {NoJob, [job EXCEPT !.trash = FALSE, !.next = 1]}
    /\ UNCHANGED <<model, mount, mounted, disk, events, widgetVars, running>>

\* Any other error: the job goes on with the same file.
DeleteFails ==
    /\ Callback /\ ~Idle
    /\ Doomed \notin disk \/ (~job.trash /\ In(Doomed) # {})
    /\ UNCHANGED <<storeVars, widgetVars, running>>

LoadCallback == LoadCancelled \/ LoadOpened \/ LoadFails \/ LoadFiles \/ LoadDone

Next ==
    \/ ShowBookmarks \/ CancelMount \/ MountDone \/ Previous \/ Forward
    \/ \E root \in {Home, Share}, virtual \in Dirs : OpenBookmark(root, virtual)
    \/ OpenDirectory \/ Up \/ Expand \/ Collapse \/ Refresh \/ SetFilterMode \/ NewFile
    \/ ChangeDisk \/ MonitorEvent
    \/ LoadCallback \/ DeleteAll \/ FileDeleted \/ NoTrash \/ DeleteFails

Spec == Init /\ [][Next]_vars

----------------------------------------------------------------------------

TypeOK ==
    /\ DOMAIN model.nodes \subseteq Nodes /\ DOMAIN model.loads \subseteq 1 .. MaxLoads
    /\ \A n \in DOMAIN model.nodes : model.nodes[n] \in Node
    /\ \A l \in DOMAIN model.loads : model.loads[l] \in Load
    /\ {model.root, model.virtual_root} \subseteq DOMAIN model.nodes \union {None}
    /\ \A n \in DOMAIN model.nodes :
          IF n = model.root THEN model.nodes[n].parent = None
          ELSE model.nodes[n].parent \in DOMAIN model.nodes
    /\ current \in 0 .. Len(locations)

\* The result of a load finds its directory in memory, and whoever frees the
\* directory can cancel the load: file_browser_node_free relies on the cancellable
\* it finds. A directory loaded twice loses the first load, which is `stray' then.
LoadsAreOwned ==
    \A l \in Live : ~model.loads[l].stray =>
        /\ model.loads[l].dir \in DOMAIN model.nodes
        /\ model.nodes[model.loads[l].dir].load = l

\* Where the view shows "(Empty)" there is nothing to show, and the other way round:
\* an expander never opens on nothing once the directory has loaded.
EmptyMeansEmpty ==
    \A n \in DOMAIN model.nodes :
        IsDir(n) /\ InView(model, n) /\ model.nodes[n].loaded /\ (\A l \in Live : model.loads[l].dir # n)
            => /\ model.nodes[n].dummy = "shown" => ~HasChild(model, n)
               /\ model.nodes[n].dummy \in {"hidden", "absent"} => HasChild(model, n)

\* The history knows where the user is: its current location has the root shown and
\* the virtual root too, unless an error fell back to the root.
HistoryKnowsThePlace ==
    running /\ current # 0 /\ ~bookmarks /\ model.virtual_root # None =>
        /\ locations[current][1] = model.root[1]
        /\ locations[current][2] = model.virtual_root[1] \/ model.virtual_root = model.root

\* What lies behind the current location stays in the history whatever comes.
PastIsKept ==
    [][LET kept == SubSeq(locations, IF current = 0 THEN 1 ELSE current, Len(locations))
       IN  \E k \in 1 .. Len(locations') + 1 : SubSeq(locations', k, Len(locations')) = kept]_vars

\* The tree in memory is what the view shows of it and what the loads work on,
\* and the history is where the user is.
BrowserIsSound == TypeOK /\ LoadsAreOwned /\ EmptyMeansEmpty /\ HistoryKnowsThePlace
=============================================================================
