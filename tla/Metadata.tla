------------------------------ MODULE Metadata ------------------------------
(***************************************************************************)
(* What the program knows of the tables of its connections.                *)
(*                                                                         *)
(* Every successful connect spawns a task that reads the schema, stores it *)
(* in the MetadataCache - memory first, then SQLite - and tells the UI.    *)
(* The completion reads the cache in the command loop; the sidebar and the *)
(* metadata search read SidebarUiState, which the event task fills and a   *)
(* disconnect empties.  Several tasks may fetch the same connection at     *)
(* once.  A schema is named by its version: the server's grows.            *)
(*                                                                         *)
(* The program may end at any moment; the next start preloads the cache.   *)
(***************************************************************************)
EXTENDS Naturals, Sequences, FiniteSets

CONSTANTS
    Conns,       \* saved connections
    None,        \* no connection
    MaxVersion,  \* bound on the versions of a schema
    MaxCommands, \* bound on the connects, with or without success, and removals
    MaxStarts    \* bound on the starts of the program

ASSUME NoneIsNone == None \notin Conns
ASSUME BoundsNat ==
    /\ MaxVersion \in Nat \ {0}
    /\ MaxCommands \in Nat
    /\ MaxStarts \in Nat \ {0}

VARIABLES
    server,   \* the version of the schema of each connection
    memory,   \* MetadataCache.memory, 0 for no entry
    disk,     \* the table metadata_cache, 0 for no row
    tasks,    \* the metadata tasks that have not sent their event
    loading,  \* the load of a completion the command loop waits for
    events,   \* the event channel
    closures, \* what invoke_from_event_loop has queued
    sidebar,  \* SidebarUiState.metadata, 0 for no entry
    spinner,  \* UiState.sidebar-loading
    overtaken, \* connections whose newest schema an older one may have replaced
    commands, starts

cacheVars == <<memory, disk, loading, overtaken>>
uiVars    == <<events, closures, sidebar, spinner>>
vars == <<server, cacheVars, tasks, uiVars, commands, starts>>

Version == 0 .. MaxVersion
NoLoad  == [conn |-> None, row |-> 0]

(* alone: no other task held a schema of the same connection while this    *)
(* one held its own.                                                       *)
Task == [id : 1 .. MaxCommands, conn : Conns, meta : Version, alone : BOOLEAN,
         at : {"fetch", "memory", "disk", "report", "failed"}]
News == [of : {"Connected", "Failed", "ConnectError", "Removed"}, conn : Conns]
        \cup [of : {"Loaded"}, conn : Conns, meta : Version]

TypeOK ==
    /\ server \in [Conns -> 1 .. MaxVersion]
    /\ memory \in [Conns -> Version] /\ disk \in [Conns -> Version]
    /\ tasks \subseteq Task
    /\ loading \in [conn : Conns, row : Version \ {0}] \cup {NoLoad}
    /\ events \in Seq(News) /\ closures \in Seq(News)
    /\ sidebar \in [Conns -> Version]
    /\ spinner \in BOOLEAN
    /\ overtaken \subseteq Conns
    /\ commands \in 0 .. MaxCommands /\ starts \in 1 .. MaxStarts

Init ==
    /\ server = [c \in Conns |-> 1]
    /\ memory = [c \in Conns |-> 0] /\ disk = [c \in Conns |-> 0]
    /\ tasks = {} /\ loading = NoLoad
    /\ events = <<>> /\ closures = <<>>
    /\ sidebar = [c \in Conns |-> 0] /\ spinner = FALSE
    /\ overtaken = {}
    /\ commands = 0 /\ starts = 1

LoopIdle == loading = NoLoad
Holding  == {t \in tasks : t.at \in {"memory", "disk"}}
Move(t, s) == tasks' = (tasks \ {t}) \cup {s}

(* The schema changes by what other programs, or a query, do.              *)
Migrate(c) ==
    /\ server[c] < MaxVersion
    /\ server' = [server EXCEPT ![c] = @ + 1]
    /\ UNCHANGED <<cacheVars, tasks, uiVars, commands, starts>>

(***************************************************************************)
(* Mutants.                                                                *)
(***************************************************************************)

(* The schema is reported before it is stored.                             *)
FetchedReports(t) ==
    /\ t.at = "fetch"
    /\ Move(t, [t EXCEPT !.at = "memory", !.meta = server[t.conn]])
    /\ events' = Append(events, [of |-> "Loaded", conn |-> t.conn, meta |-> server[t.conn]])
    /\ UNCHANGED <<server, cacheVars, closures, sidebar, spinner, commands, starts>>

(* A failed fetch is logged and not reported.                              *)
FetchFailsSilently(t) ==
    /\ t.at = "fetch"
    /\ tasks' = tasks \ {t}
    /\ UNCHANGED <<server, cacheVars, uiVars, commands, starts>>

(* The start does not preload the cache.                                   *)
RestartEmpty ==
    /\ starts < MaxStarts
    /\ starts' = starts + 1
    /\ memory' = [c \in Conns |-> 0] /\ overtaken' = {}
    /\ tasks' = {} /\ loading' = NoLoad
    /\ events' = <<>> /\ closures' = <<>>
    /\ sidebar' = [c \in Conns |-> 0] /\ spinner' = FALSE
    /\ UNCHANGED <<server, disk, commands>>

(***************************************************************************)
(* The command loop.                                                       *)
(***************************************************************************)

(* handle_connect, as far as it goes for metadata: the event is sent       *)
(* before the task is spawned.                                             *)
Connect(c) ==
    /\ LoopIdle /\ commands < MaxCommands
    /\ commands' = commands + 1
    /\ events' = Append(events, [of |-> "Connected", conn |-> c])
    /\ tasks' = tasks \cup {[id |-> commands', conn |-> c, meta |-> 0,
                             alone |-> TRUE, at |-> "fetch"]}
    /\ UNCHANGED <<server, cacheVars, closures, sidebar, spinner, starts>>

ConnectFails(c) ==
    /\ LoopIdle /\ commands < MaxCommands
    /\ commands' = commands + 1
    /\ events' = Append(events, [of |-> "ConnectError", conn |-> c])
    /\ UNCHANGED <<server, cacheVars, tasks, closures, sidebar, spinner, starts>>

(* on_disconnect runs on the UI thread and empties what the sidebar shows. *)
(* The command that follows drops the pool: a fetch that has not got it    *)
(* yet fails, as one may at any time, and changes nothing else here.       *)
Disconnect(c) ==
    /\ sidebar' = [sidebar EXCEPT ![c] = 0]
    /\ spinner' = FALSE
    /\ UNCHANGED <<server, cacheVars, tasks, events, closures, commands, starts>>

(* The cache keeps its entry, in memory and on disk.                       *)
Remove(c) ==
    /\ LoopIdle /\ commands < MaxCommands
    /\ commands' = commands + 1
    /\ events' = Append(events, [of |-> "Removed", conn |-> c])
    /\ UNCHANGED <<server, cacheVars, tasks, closures, sidebar, spinner, starts>>

(* handle_fetch_completion, when the memory has no entry: the row is read, *)
(* and only then put in the memory.  With an entry nothing changes.        *)
LoadRow(c) ==
    /\ LoopIdle /\ memory[c] = 0 /\ disk[c] # 0
    /\ loading' = [conn |-> c, row |-> disk[c]]
    /\ UNCHANGED <<server, memory, disk, overtaken, tasks, uiVars, commands, starts>>

LoadInsert ==
    /\ ~ LoopIdle
    /\ LET c == loading.conn IN
       /\ memory' = [memory EXCEPT ![c] = loading.row]
       /\ overtaken' = IF memory[c] \in {0, loading.row} THEN overtaken
                       ELSE overtaken \cup {c}
    /\ loading' = NoLoad
    /\ UNCHANGED <<server, disk, tasks, uiVars, commands, starts>>

(***************************************************************************)
(* The metadata task of a connect.                                         *)
(***************************************************************************)

(* From here on the task holds a schema that ages; two of one connection   *)
(* may reach the cache in either order.                                    *)
Fetched(t) ==
    /\ t.at = "fetch"
    /\ LET rivals == {r \in Holding : r.conn = t.conn}
           got    == [t EXCEPT !.at = "memory", !.meta = server[t.conn],
                               !.alone = rivals = {}]
       IN  /\ tasks' = (tasks \ ({t} \cup rivals)) \cup {got}
                       \cup {[r EXCEPT !.alone = FALSE] : r \in rivals}
           /\ overtaken' = IF rivals = {} THEN overtaken ELSE overtaken \cup {t.conn}
    /\ UNCHANGED <<server, memory, disk, loading, uiVars, commands, starts>>

(* The query fails, or the pool was gone before the task asked for it.     *)
FetchFails(t) ==
    /\ t.at = "fetch"
    /\ Move(t, [t EXCEPT !.at = "failed"])
    /\ UNCHANGED <<server, cacheVars, uiVars, commands, starts>>

StoreMemory(t) ==
    /\ t.at = "memory"
    /\ memory' = [memory EXCEPT ![t.conn] = t.meta]
    /\ Move(t, [t EXCEPT !.at = "disk"])
    /\ UNCHANGED <<server, disk, loading, overtaken, uiVars, commands, starts>>

(* A store on its own settles the entry, unless a load is about to write.  *)
StoreDisk(t) ==
    /\ t.at = "disk"
    /\ disk' = [disk EXCEPT ![t.conn] = t.meta]
    /\ overtaken' = IF t.alone /\ loading.conn # t.conn /\ memory[t.conn] = t.meta
                    THEN overtaken \ {t.conn} ELSE overtaken
    /\ Move(t, [t EXCEPT !.at = "report"])
    /\ UNCHANGED <<server, memory, loading, uiVars, commands, starts>>

(* A failed write is logged, and the schema reported all the same.         *)
StoreFails(t) ==
    /\ t.at = "disk"
    /\ overtaken' = overtaken \cup {t.conn}
    /\ Move(t, [t EXCEPT !.at = "report"])
    /\ UNCHANGED <<server, memory, disk, loading, uiVars, commands, starts>>

Report(t) ==
    /\ t.at \in {"report", "failed"}
    /\ events' = Append(events,
         IF t.at = "report" THEN [of |-> "Loaded", conn |-> t.conn, meta |-> t.meta]
                            ELSE [of |-> "Failed", conn |-> t.conn])
    /\ tasks' = tasks \ {t}
    /\ UNCHANGED <<server, cacheVars, closures, sidebar, spinner, commands, starts>>

(***************************************************************************)
(* The event task and the UI thread.                                       *)
(***************************************************************************)

HandleEvent ==
    /\ events # <<>>
    /\ LET e == Head(events) IN
       \/ e.of = "Loaded"  /\ sidebar' = [sidebar EXCEPT ![e.conn] = e.meta]
       \/ e.of = "Removed" /\ sidebar' = [sidebar EXCEPT ![e.conn] = 0]
       \/ e.of \in {"Connected", "Failed", "ConnectError"} /\ UNCHANGED sidebar
    /\ closures' = Append(closures, Head(events))
    /\ events' = Tail(events)
    /\ UNCHANGED <<server, cacheVars, tasks, spinner, commands, starts>>

(* Whichever connection the closure is of.                                 *)
RunClosure ==
    /\ closures # <<>>
    /\ LET of == Head(closures).of IN
       spinner' = IF of = "Removed" THEN spinner ELSE of = "Connected"
    /\ closures' = Tail(closures)
    /\ UNCHANGED <<server, cacheVars, tasks, events, sidebar, commands, starts>>

(***************************************************************************)
(* The program ends, in the middle of anything, and starts again.          *)
(* preload_from_disk fills the memory; when it fails that is only logged.  *)
(***************************************************************************)
Restart ==
    /\ starts < MaxStarts
    /\ starts' = starts + 1
    /\ \/ memory' = disk /\ overtaken' = {}
       \/ memory' = [c \in Conns |-> 0] /\ overtaken' = {c \in Conns : disk[c] # 0}
    /\ tasks' = {} /\ loading' = NoLoad
    /\ events' = <<>> /\ closures' = <<>>
    /\ sidebar' = [c \in Conns |-> 0] /\ spinner' = FALSE
    /\ UNCHANGED <<server, disk, commands>>

TaskStep(t) == Fetched(t) \/ FetchFails(t) \/ StoreMemory(t) \/ StoreDisk(t)
               \/ StoreFails(t) \/ Report(t)

Next ==
    \/ \E c \in Conns : \/ Migrate(c) \/ Connect(c) \/ ConnectFails(c)
                        \/ Disconnect(c) \/ Remove(c) \/ LoadRow(c)
    \/ \E t \in tasks : TaskStep(t)
    \/ LoadInsert \/ HandleEvent \/ RunClosure \/ Restart

Spec == Init /\ [][Next]_vars

(* A task is answered by its database and by SQLite sooner or later; the   *)
(* event task and the UI thread handle what they are sent.                 *)
Fairness ==
    /\ \A n \in 1 .. MaxCommands : WF_vars(\E t \in tasks : t.id = n /\ TaskStep(t))
    /\ WF_vars(LoadInsert) /\ WF_vars(HandleEvent) /\ WF_vars(RunClosure)

FairSpec == Spec /\ Fairness

(***************************************************************************)
(* Properties                                                              *)
(***************************************************************************)

(* The completion never knows less than the sidebar shows: the task stores *)
(* before it reports, and an older schema gets into the cache only when    *)
(* two tasks of a connection, or a task and a load, overlap.               *)
CacheNotBehindSidebar ==
    \A c \in Conns \ overtaken : sidebar[c] <= memory[c]

(* A schema outlives the program: whenever no task is between its two      *)
(* writes, disk and memory agree, except after a failed write or an        *)
(* overlap - and a later fetch on its own makes them agree again.          *)
DiskFollowsMemory ==
    \A c \in Conns \ overtaken :
        (\A t \in tasks : t.conn = c => t.at # "disk") => disk[c] = memory[c]

(* The sidebar does not load for ever, whatever fails or is disconnected   *)
(* meanwhile.                                                              *)
SpinnerStops == spinner ~> ~ spinner
=============================================================================
