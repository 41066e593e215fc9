------------------------------ MODULE Instances ------------------------------
(* Processes of lapiz and what they share: the socket by which a second one   *)
(* hands its files to the first (bacon-message-connection.c, lapiz.c), and    *)
(* the metadata file.  Every system call is a step of its own, and processes  *)
(* start, quit and crash at any moment.                                       *)
EXTENDS MetadataManager

CONSTANTS
    Procs,
    Nobody, Stale, \* what a path in the temporary directory may be: nothing, a socket of a dead process
    MaxStarts,     \* bound: how many processes are started in all
    MaxCrashes,    \* bound: how many of them crash
    MaxSets,       \* bound: how often metadata are set
    MaxTime        \* bound: the clock

\* No process is what a path is without one.
ASSUME NamesAssumption == Nobody # Stale /\ Nobody \notin Procs /\ Stale \notin Procs
ASSUME TimeAssumption == MaxTime \in Nat

VARIABLES
    phase,     \* how far each process is in main
    path,      \* the path it looks at; its random name for a new one is its own
    tmp,       \* external: the socket at each path, by the process that bound it
    pending,   \* requests that wait in the connections of each process
    request,   \* the request of each process started: "none", "sent", "handled", "lost"
    turn,      \* the request of each process that starts
    starts, crashes, sets, now,
    manager,   \* the metadata manager of each process
    file,      \* external: the metadata file
    last,      \* history: what has been set of each document since it was dropped last
    hurried,   \* history: two processes have been starting or ending at once
    damaged    \* history: a crash may have lost metadata

sockets == <<path, tmp, pending>>
metadata == <<manager, file, last, sets, now, damaged>>
vars == <<phase, sockets, request, turn, starts, crashes, hurried, metadata>>

Starting == {"found", "binding", "bound", "connecting", "unlinking"}
Running  == {"server", "alone"}
Ending   == {"quitting", "saving"}

Listening(p) == phase[p] \in {"server", "quitting"} /\ path[p] # Nobody

Init ==
    /\ phase = [p \in Procs |-> "off"] /\ path = [p \in Procs |-> Nobody]
    /\ tmp = [p \in Procs |-> Nobody] /\ pending = [p \in Procs |-> {}]
    /\ request = [n \in 1..MaxStarts |-> "none"] /\ turn = [p \in Procs |-> 0]
    /\ starts = 0 /\ crashes = 0 /\ sets = 0 /\ now = 0
    /\ manager = [p \in Procs |-> NewManager]
    /\ file \in {NoFile, <<>>}
    /\ last = [u \in Uris |-> Nothing]
    /\ hurried = FALSE /\ damaged = FALSE

\* p goes on to another phase.
Goes(p, to) ==
    /\ phase' = [phase EXCEPT ![p] = to]
    /\ hurried' = (hurried \/ \E q \in Procs \ {p} : /\ to \in Starting \union Ending
                                                     /\ phase[q] \in Starting \union Ending)

\* p gives up its path.
Leaves(p) == path' = [path EXCEPT ![p] = Nobody]

OnlySockets == UNCHANGED <<request, turn, starts, crashes, metadata>>

-----------------------------------------------------------------------------
(***************************************************************************)
(* bacon_message_connection_new.                                           *)
(***************************************************************************)

\* find_file_with_pattern: any socket of the user's, or a new name
Candidates(p) ==
    LET present == {q \in Procs : tmp[q] # Nobody}
    IN IF present = {} THEN {p} ELSE present

\* socket_filename
Find(p) ==
    /\ phase[p] = "off" /\ starts < MaxStarts
    /\ starts' = starts + 1 /\ turn' = [turn EXCEPT ![p] = starts']
    /\ \E q \in Candidates(p) : path' = [path EXCEPT ![p] = q]
    /\ Goes(p, "found")
    /\ UNCHANGED <<tmp, pending, request, crashes, metadata>>

\* test_is_socket
TestIsSocket(p) ==
    /\ phase[p] = "found"
    /\ Goes(p, IF tmp[path[p]] = Nobody THEN "binding" ELSE "connecting")
    /\ UNCHANGED sockets /\ OnlySockets

\* try_server, up to bind; without a connection lapiz runs alone
Bind(p) ==
    /\ phase[p] = "binding"
    /\ IF tmp[path[p]] = Nobody
       THEN /\ tmp' = [tmp EXCEPT ![path[p]] = p]
            /\ Goes(p, "bound") /\ UNCHANGED path
       ELSE /\ Leaves(p)
            /\ Goes(p, "alone") /\ UNCHANGED tmp
    /\ UNCHANGED pending /\ OnlySockets

Listen(p) ==
    /\ phase[p] = "bound"
    /\ Goes(p, "server") /\ turn' = [turn EXCEPT ![p] = 0]
    /\ UNCHANGED <<sockets, request, starts, crashes, metadata>>

\* Does connect succeed?
Answers(p) == tmp[path[p]] \in Procs /\ Listening(tmp[path[p]])

\* try_client
Connect(p) ==
    /\ phase[p] = "connecting"
    /\ Goes(p, IF Answers(p) THEN "client" ELSE "unlinking")
    /\ UNCHANGED sockets /\ OnlySockets

Unlinked(p) == [tmp EXCEPT ![path[p]] = Nobody]

\* bacon_message_connection_new, when nobody answers
Unlink(p) ==
    /\ phase[p] = "unlinking"
    /\ tmp' = Unlinked(p)
    /\ Goes(p, "binding")
    /\ UNCHANGED <<path, pending>> /\ OnlySockets

-----------------------------------------------------------------------------
(***************************************************************************)
(* main: the client sends its request and is done, the server serves.      *)
(***************************************************************************)

\* send_bacon_message; the server may have gone since
SendRequest(p) ==
    /\ phase[p] = "client"
    /\ LET server == tmp[path[p]]
           there  == server \in Procs /\ Listening(server)
       IN /\ pending' = IF there THEN [pending EXCEPT ![server] = @ \union {turn[p]}] ELSE pending
          /\ request' = [request EXCEPT ![turn[p]] = IF there THEN "sent" ELSE "lost"]
    /\ Leaves(p) /\ turn' = [turn EXCEPT ![p] = 0]
    /\ Goes(p, "off")
    /\ UNCHANGED <<tmp, starts, crashes, metadata>>

\* Mutant: only the first connection is watched.
Watched_First(p) == {n \in pending[p] : \A m \in DOMAIN request : request[m] # "handled"}

Watched(p) == pending[p]

\* accept_new_connection, server_cb and on_message_received
HandleRequest(p) ==
    /\ phase[p] = "server"
    /\ \E n \in Watched(p) :
          /\ pending' = [pending EXCEPT ![p] = @ \ {n}]
          /\ request' = [request EXCEPT ![n] = "handled"]
    /\ UNCHANGED <<phase, hurried, path, tmp, turn, starts, crashes, metadata>>

\* The main loop ends: requests that wait are lost with the connection.
Quit(p) ==
    /\ phase[p] \in Running
    /\ Goes(p, "quitting")
    /\ UNCHANGED sockets /\ OnlySockets

Lost(p) == [n \in DOMAIN request |-> IF n \in pending[p] THEN "lost" ELSE request[n]]

\* What is left of p's sockets when its descriptor is closed
Closed(p, paths) == [q \in Procs |-> IF paths[q] = p THEN Stale ELSE paths[q]]

\* bacon_message_connection_free: removes what is at its path, its own or not
FreeConnection(p) ==
    /\ phase[p] = "quitting"
    /\ tmp' = Closed(p, IF path[p] = Nobody THEN tmp ELSE Unlinked(p))
    /\ Leaves(p)
    /\ request' = Lost(p) /\ pending' = [pending EXCEPT ![p] = {}]
    /\ Goes(p, "saving")
    /\ UNCHANGED <<turn, starts, crashes, metadata>>

\* A crash loses the metadata that wait for their timer; in the middle of a
\* write, the file as well.
Crash(p) ==
    /\ phase[p] # "off" /\ crashes < MaxCrashes
    /\ crashes' = crashes + 1
    /\ tmp' = Closed(p, tmp)
    /\ Leaves(p)
    /\ request' = Lost(p) /\ pending' = [pending EXCEPT ![p] = {}]
    /\ manager' = [manager EXCEPT ![p] = NewManager]
    /\ file' \in IF manager[p].timer THEN {file, NoFile} ELSE {file}
    /\ damaged' = (damaged \/ manager[p].timer)
    /\ Goes(p, "off") /\ turn' = [turn EXCEPT ![p] = 0]
    /\ UNCHANGED <<starts, last, sets, now>>

-----------------------------------------------------------------------------
(***************************************************************************)
(* The metadata.                                                           *)
(***************************************************************************)

OnlyMetadata == UNCHANGED <<phase, hurried, sockets, request, turn, starts, crashes, damaged>>

\* The clock matters when something is accessed only.
Access == now' \in now..MaxTime

Get(p, uri) ==
    /\ phase[p] \in Running /\ Access
    /\ manager' = [manager EXCEPT ![p] = GetValue(@, file, uri, now')]
    /\ UNCHANGED <<file, last, sets>> /\ OnlyMetadata

Set(p, uri, key, value) ==
    /\ phase[p] \in Running /\ sets < MaxSets /\ Access
    /\ sets' = sets + 1
    /\ manager' = [manager EXCEPT ![p] = SetValue(@, file, uri, key, value, now')]
    /\ last' = IF Usable(manager[p], file) THEN [last EXCEPT ![uri][key] = value] ELSE last
    /\ UNCHANGED file /\ OnlyMetadata

\* lapiz_metadata_manager_save: what does not fit is dropped
Save(p) ==
    \E items \in Resized(manager[p].items) :
       /\ file' = items
       /\ last' = [u \in Uris |-> IF u \in DOMAIN manager[p].items \ DOMAIN items
                                  THEN Nothing ELSE last[u]]

\* lapiz_metadata_manager_save, by the timer
SaveMetadata(p) ==
    /\ phase[p] \in Running /\ manager[p].timer
    /\ Save(p)
    /\ manager' = [manager EXCEPT ![p].timer = FALSE, ![p].items = file']
    /\ UNCHANGED <<sets, now>> /\ OnlyMetadata

\* Mutant: what waits for the timer is not saved at the end.
SavesAtExit_Never(m) == FALSE

SavesAtExit(m) == m.timer

\* lapiz_metadata_manager_shutdown, after the connection has been freed
ShutdownMetadata(p) ==
    /\ phase[p] = "saving"
    /\ IF SavesAtExit(manager[p]) THEN Save(p) ELSE UNCHANGED <<file, last>>
    /\ manager' = [manager EXCEPT ![p] = NewManager]
    /\ Goes(p, "off")
    /\ UNCHANGED <<sockets, request, turn, starts, crashes, sets, now, damaged>>

-----------------------------------------------------------------------------

Next ==
    \E p \in Procs :
          \/ Find(p) \/ TestIsSocket(p) \/ Bind(p) \/ Listen(p) \/ Connect(p) \/ Unlink(p)
          \/ SendRequest(p) \/ HandleRequest(p) \/ Quit(p) \/ FreeConnection(p) \/ Crash(p)
          \/ SaveMetadata(p) \/ ShutdownMetadata(p)
          \/ \E uri \in Uris : Get(p, uri)
          \/ \E uri \in Uris, key \in Keys, value \in Values \union {NoValue} :
                Set(p, uri, key, value)

Spec == Init /\ [][Next]_vars

\* A process does not stop between two system calls, and its main loop serves
\* its connections as long as it runs.
Fairness ==
    \A p \in Procs :
        /\ WF_vars(TestIsSocket(p) \/ Bind(p) \/ Listen(p) \/ Connect(p) \/ Unlink(p) \/ SendRequest(p))
        /\ WF_vars(HandleRequest(p))
        /\ WF_vars(FreeConnection(p) \/ ShutdownMetadata(p))

FairSpec == Spec /\ Fairness

-----------------------------------------------------------------------------

\* The variables have their types; a process that runs alone has no path.
TypeOK ==
    /\ \A p \in Procs : /\ phase[p] \in Starting \union Running \union Ending \union {"off", "client"}
                        /\ phase[p] \in Starting \union {"server", "client"} => path[p] # Nobody
                        /\ phase[p] \in {"off", "alone", "saving"} => path[p] = Nobody
                        /\ tmp[p] \in Procs \union {Nobody, Stale}
    /\ file = NoFile \/ Cardinality(DOMAIN file) <= MaxItems

\* As long as processes start and end one at a time, there is one server, and it
\* is the one a newcomer finds; whatever a crash leaves behind.
OneServer ==
    ~hurried => \A p, q \in Procs :
        /\ phase[p] = "server" /\ phase[q] \in Running => p = q
        /\ phase[p] = "server" => tmp[path[p]] = p
        /\ phase[p] = "server" => \A r \in Procs : tmp[r] = Nobody \/ r = path[p]

\* A request is handled unless its server quits or crashes first: a newcomer
\* that has exited has either become somebody's request, or it has been lost.
RequestsAreHandled ==
    \A n \in 1..MaxStarts : request[n] = "sent" ~> request[n] \in {"handled", "lost"}

Remembered(items) == [u \in Uris |-> IF u \in DOMAIN items THEN items[u].values ELSE Nothing]

\* With one process at a time and no crash at a bad moment, metadata are never
\* wrong and never lost: what a process or the file remembers of a document is
\* what has been set since it was dropped for want of room.
MetadataAreCurrent ==
    ~hurried /\ ~damaged =>
        /\ \A p \in Procs : manager[p].loaded => Remembered(manager[p].items) = last
        /\ file # NoFile /\ (\A p \in Procs : phase[p] = "off") => Remembered(file) = last

\* When an item is dropped, none that is kept has been used before it.
OldestGoFirst ==
    [][\A p \in Procs : SaveMetadata(p) =>
          \A u \in DOMAIN manager[p].items \ DOMAIN file', v \in DOMAIN file' :
              manager[p].items[u].atime <= manager[p].items[v].atime]_vars

\* However the sockets are left, found and removed, at most one process is the
\* server, and what any of them remembers is true.
InstancesAgree == TypeOK /\ OneServer /\ MetadataAreCurrent
=============================================================================
