-------------------------- MODULE FileBrowserStore --------------------------
(***************************************************************************)
(* The tree of the file browser plugin (lapiz-file-browser-store.c): the   *)
(* nodes kept in memory, the rows of them a view has been told about, the  *)
(* asynchronous loads that fill directories, the monitors that follow the  *)
(* disk, and what Up, a refresh, a filter or a new root does to all of     *)
(* them while a load is under way.                                         *)
(*                                                                         *)
(* The operators of this module work on a model m, a record of the store's *)
(* fields; FileBrowser.tla composes them into the store's entry points and *)
(* callbacks. The order of the children and the paths of the rows are left *)
(* out; the dummy child "(Empty)" of a directory is a field of it.         *)
(***************************************************************************)
EXTENDS Naturals, FiniteSets

CONSTANTS
    Files,          \* every file that may exist
    Dirs,           \* those that are directories
    HiddenFiles,    \* those the default filter hides
    Folder,         \* [Files -> Files \union {""}]: the directory a file is in
    MaxCopies,      \* nodes for the same file: a bound on the duplicates
    MaxLoads        \* loads under way at a time: a bound

ASSUME Dirs \subseteq Files /\ HiddenFiles \subseteq Files
ASSUME Folder \in [Files -> Dirs \union {""}]

\* A node is named by its file and a number that tells duplicates apart.
Nodes == Files \X (1 .. MaxCopies)
None == <<>>
NoLoad == 0

\* "lost": the flags say that the dummy is visible, but no row shows it.
Dummies == {"absent", "hidden", "shown", "lost"}
Node == [parent: Nodes \union {None}, inserted: BOOLEAN, loaded: BOOLEAN,
         load: 0 .. MaxLoads, monitor: BOOLEAN, dummy: Dummies]

\* stray: nothing can cancel the load any more, its cancellable was overwritten.
\* snapshot: the files of original_children, dangling when one of them was freed;
\* owed: the files the enumerator must return; seen: those it has returned.
Load == [dir: Nodes, cancelled: BOOLEAN, stray: BOOLEAN, opened: BOOLEAN,
         snapshot: SUBSET Files, dangling: BOOLEAN,
         owed: SUBSET Files, seen: SUBSET Files]

Kids(m, n) == {c \in DOMAIN m.nodes : m.nodes[c].parent = n}
IsDir(n) == n[1] \in Dirs

RECURSIVE HasParent(_, _, _)
HasParent(m, n, p) ==
    LET parent == m.nodes[n].parent
    IN  parent # None /\ (parent = p \/ HasParent(m, parent, p))

Descendants(m, n) == {c \in DOMAIN m.nodes : HasParent(m, c, n)}

Visible(m, n) ==
    \/ n = m.virtual_root
    \/ /\ m.virtual_root # None
       /\ HasParent(m, n, m.virtual_root)
       /\ ~(m.hiding /\ n[1] \in HiddenFiles)

Inserted(m, n) == n = m.virtual_root \/ (Visible(m, n) /\ m.nodes[n].inserted)

HasChild(m, n) == \E c \in Kids(m, n) : Inserted(m, c)

\* The nodes whose row, and every row above it, the view has room for.
RECURSIVE InView(_, _)
InView(m, n) ==
    n = m.virtual_root \/ (Visible(m, n) /\ InView(m, m.nodes[n].parent))

----------------------------------------------------------------------------

\* model_check_dummy
CheckDummy(m, n) ==
    IF ~IsDir(n) THEN m
    ELSE [m EXCEPT !.nodes[n].dummy =
             IF ~Visible(m, n) \/ HasChild(m, n) THEN "hidden"
             ELSE IF @ = "lost" THEN "lost" ELSE "shown"]

\* model_clear without freeing: the rows below the virtual root go.
Clear(m) ==
    IF m.virtual_root = None THEN m
    ELSE [m EXCEPT !.nodes =
             [n \in DOMAIN @ |->
                LET d == m.nodes[n].dummy
                IN  IF ~InView(m, n) THEN @[n]
                    ELSE [@[n] EXCEPT !.inserted = @ /\ n = m.virtual_root,
                            !.dummy = CASE d = "absent" -> "absent"
                                        [] n = m.virtual_root \/ d \in {"shown", "lost"} -> "lost"
                                        [] OTHER -> IF Kids(m, n) = {} THEN "hidden" ELSE "shown"]]]

\* model_fill from the virtual root.
Fill(m) ==
    [m EXCEPT !.nodes =
        [n \in DOMAIN @ |->
            IF ~InView(m, n) THEN @[n]
            ELSE [@[n] EXCEPT !.inserted = @ \/ n # m.virtual_root,
                    !.dummy = IF ~IsDir(n) THEN @
                              ELSE IF \E c \in Kids(m, n) : Visible(m, c) THEN "hidden"
                              ELSE "shown"]]]

\* Cancels the load whose cancellable a node of gone holds.
CancelLoads(m, gone) ==
    [m EXCEPT !.loads = [l \in DOMAIN @ |->
        [@[l] EXCEPT !.cancelled = @ \/ \E n \in gone : m.nodes[n].load = l]]]

\* The snapshot of a load of dir has a node, or the dummy, that was freed.
Dangle(m, dir) ==
    [m EXCEPT !.loads = [l \in DOMAIN @ |->
        [@[l] EXCEPT !.dangling = @ \/ m.loads[l].dir = dir]]]

Free(m, gone) ==
    LET freed == [l \in DOMAIN m.loads |->
                    \E n \in gone : /\ m.nodes[n].parent = m.loads[l].dir
                                    /\ n[1] \in m.loads[l].snapshot]
        c == CancelLoads(m, gone)
    IN  [c EXCEPT !.nodes = [n \in DOMAIN @ \ gone |-> @[n]],
                  !.loads = [l \in DOMAIN @ |-> [@[l] EXCEPT !.dangling = @ \/ freed[l]]]]

\* It forgets that the directory is loaded, but not its load and its monitor.
FreeChildren(m, n) ==
    IF ~IsDir(n) THEN m
    ELSE [Dangle(Free(m, Descendants(m, n)), n) EXCEPT
            !.nodes[n].loaded = FALSE, !.nodes[n].dummy = "absent"]

\* Mutant: the load of a directory that is unloaded goes on.
Unload_Uncancelled(m, n) ==
    IF ~m.nodes[n].loaded THEN m
    ELSE [m EXCEPT !.nodes[n] =
            [@ EXCEPT !.load = NoLoad, !.monitor = FALSE, !.loaded = FALSE]]

\* file_browser_node_unload keeping the children.
Unload(m, n) ==
    IF ~m.nodes[n].loaded THEN m
    ELSE [CancelLoads(m, {n}) EXCEPT !.nodes[n] =
            [@ EXCEPT !.load = NoLoad, !.monitor = FALSE, !.loaded = FALSE]]

\* file_browser_node_unload removing the children from the view and from memory.
UnloadRemoving(m, n) ==
    IF ~m.nodes[n].loaded THEN m
    ELSE LET had == Kids(m, n) # {}
             dummy == IF Visible(m, n) /\ had THEN "shown" ELSE "absent"
         IN  [Free(Unload(m, n), Descendants(m, n)) EXCEPT !.nodes[n].dummy = dummy]

FreeLoads(m) == 1 .. MaxLoads \ DOMAIN m.loads
CanLoad(m) == FreeLoads(m) # {}

\* model_load_directory. A directory that is not marked loaded is not unloaded, so
\* a load of it that is still under way loses its cancellable here.
LoadDirectory(m, n) ==
    LET u == IF m.nodes[n].load = NoLoad THEN m ELSE UnloadRemoving(m, n)
        old == u.nodes[n].load
        id == CHOOSE l \in FreeLoads(m) : \A k \in FreeLoads(m) : l <= k
        kept == [l \in DOMAIN u.loads |->
                    [u.loads[l] EXCEPT !.stray = @ \/ l = old]]
        load == [dir |-> n, cancelled |-> FALSE, stray |-> FALSE, opened |-> FALSE,
                 snapshot |-> {c[1] : c \in Kids(u, n)}, dangling |-> FALSE,
                 owed |-> {}, seen |-> {}]
    IN  [u EXCEPT !.nodes[n].loaded = TRUE, !.nodes[n].load = id,
                  !.loads = [l \in DOMAIN kept \union {id} |->
                                IF l = id THEN load ELSE kept[l]]]

----------------------------------------------------------------------------
(* Nodes come and go.                                                      *)

NewNode(m, f) ==
    LET taken == DOMAIN m.nodes \union
                    {m.loads[l].dir : l \in {k \in DOMAIN m.loads : ~m.loads[k].cancelled}}
        free == {k \in 1 .. MaxCopies : <<f, k>> \notin taken}
    IN  IF free = {} THEN None ELSE <<f, CHOOSE k \in free : \A j \in free : k <= j>>

Bare(parent) == [parent |-> parent, inserted |-> FALSE, loaded |-> FALSE,
                 load |-> NoLoad, monitor |-> FALSE, dummy |-> "absent"]

\* Adds a node for f and tells the view when it and its parent are visible.
AddNode(m, f, parent) ==
    LET n == NewNode(m, f)
        with == [m EXCEPT !.nodes = [c \in DOMAIN @ \union {n} |->
                                        IF c = n THEN Bare(parent) ELSE @[c]]]
        told == Visible(with, parent) /\ Visible(with, n)
    IN  IF n = None THEN m
        ELSE CheckDummy([with EXCEPT !.nodes[n].inserted = told], n)

HasFile(m, parent, f) == \E c \in Kids(m, parent) : c[1] = f

\* model_add_node_from_file and model_add_node_from_dir.
AddNodeFromFile(m, parent, f) ==
    IF HasFile(m, parent, f) THEN m ELSE CheckDummy(AddNode(m, f, parent), parent)

\* model_add_nodes_from_files looks for the files in the snapshot only.
RECURSIVE AddNodes(_, _, _)
AddNodes(m, parent, files) ==
    IF files = {} THEN m
    ELSE LET f == CHOOSE g \in files : TRUE
         IN  AddNodes(AddNode(m, f, parent), parent, files \ {f})

AddNodesFromFiles(m, l, files) ==
    LET new == files \ m.loads[l].snapshot
        dir == m.loads[l].dir
    IN  IF new = {} THEN m ELSE AddNodes(CheckDummy(m, dir), dir, new)

\* set_virtual_root_from_node: next to the node only directories that are not
\* loaded stay, further up only the chain, and below it two levels.
Siblings(m, n) ==
    IF m.nodes[n].parent = None THEN {} ELSE Kids(m, m.nodes[n].parent) \ {n}

RECURSIVE FreeBeside(_, _)
FreeBeside(m, n) ==
    LET p == m.nodes[n].parent
        off == Siblings(m, n)
        gone == off \union UNION {Descendants(m, c) : c \in off}
    IN  IF p = None THEN m
        ELSE LET up == [Free(m, gone) EXCEPT !.nodes[p].dummy = "absent"]
             IN  FreeBeside(Unload(Dangle(up, p), p), p)

RECURSIVE FreeBelow(_, _)
FreeBelow(m, dirs) ==
    IF dirs = {} THEN m
    ELSE LET d == CHOOSE c \in dirs : TRUE
         IN  FreeBelow(FreeChildren(m, d), dirs \ {d})

SetVirtualRoot(m, n) ==
    LET p == m.nodes[n].parent
        beside == FreeBelow(m, Siblings(m, n))
        above == IF p = None THEN beside ELSE FreeBeside(beside, p)
        below == FreeBelow(above, UNION {Kids(above, c) : c \in Kids(above, n)})
        full == Fill([below EXCEPT !.virtual_root = n])
    IN  IF full.nodes[n].loaded THEN full ELSE LoadDirectory(full, n)

\* model_remove_node, freeing it.
RemoveNode(m, n) ==
    LET p == m.nodes[n].parent
        rest == Free(m, {n} \union Descendants(m, n))
    IN  IF n = m.virtual_root THEN SetVirtualRoot(rest, p)
        ELSE IF Visible(m, p) THEN CheckDummy(rest, p) ELSE rest

\* set_virtual_root_from_file: the directories from the root down to f.
RECURSIVE Path(_, _)
Path(m, f) == IF f = m.root[1] THEN m.root
              ELSE LET p == Path(m, Folder[f]) IN
                   CHOOSE c \in Kids(m, p) : c[1] = f /\ \A d \in Kids(m, p) : d[1] = f => c[2] <= d[2]

RECURSIVE WithPath(_, _)
WithPath(m, f) ==
    IF f = m.root[1] THEN m
    ELSE LET above == WithPath(m, Folder[f])
         IN  AddNodeFromFile(above, Path(above, Folder[f]), f)

RECURSIVE IsBelow(_, _)
IsBelow(f, root) == f # "" /\ (f = root \/ IsBelow(Folder[f], root))

\* model_refilter: a node that becomes visible under a visible parent gets a row,
\* one that was visible all along keeps what it has.
Refilter(m) ==
    LET new == [m EXCEPT !.hiding = ~@]
        nodes == [n \in DOMAIN m.nodes |->
                    [m.nodes[n] EXCEPT !.inserted =
                        IF n = m.virtual_root \/ Visible(new, n) = Visible(m, n) THEN @
                        ELSE Visible(new, n)]]
        rows == [new EXCEPT !.nodes = nodes]
    IN  [rows EXCEPT !.nodes = [n \in DOMAIN nodes |-> CheckDummy(rows, n).nodes[n]]]
=============================================================================
