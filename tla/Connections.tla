---------------------------- MODULE Connections ----------------------------
(***************************************************************************)
(* The life of a connection: the commands Connect, TestConnection,         *)
(* Disconnect, RemoveConnection and UpdateConfig(ConnectionFlags) of       *)
(* AppController, the pools and SSH tunnels of DbService, the connections  *)
(* known to ConnectionState, the rows of the connections table, the        *)
(* known-hosts file, and what the UI shows of all that.                    *)
(*                                                                         *)
(* The UI and the controller share ConnectionState and talk through two    *)
(* channels.  `send_cmd` gives every command a task of its own, so the     *)
(* commands of the UI reach the controller in any order; the events reach  *)
(* the UI in order.  The program may be closed at any moment and started   *)
(* again: rows and known hosts survive, nothing else does.                 *)
(*                                                                         *)
(* A row keeps of a connection its flags (safe_dml and read_only travel    *)
(* together: FALSE stands for the defaults of an insert), whether it was   *)
(* ever used, and whether its host and port still name the database.  All  *)
(* SSH connections go through one server, whose host key may change.       *)
(***************************************************************************)
EXTENDS Naturals, Sequences

CONSTANTS
    Conns,        \* connection ids
    SshConns,     \* those with an SSH section
    Keys,         \* host keys the SSH server may present
    NoConn, NoKey,
    EventCap,     \* CMD_CHANNEL_CAPACITY of the event channel
    MaxCommands,  \* bound on the commands the user gives
    MaxPorts,     \* bound on the tunnels opened
    MaxMishaps    \* bound on storage errors, host key changes and restarts

ASSUME ConnSets == SshConns \subseteq Conns
ASSUME Sentinels == NoConn \notin Conns /\ NoKey \notin Keys
ASSUME Bounds ==
    /\ EventCap \in Nat \ {0} /\ MaxCommands \in Nat
    /\ MaxPorts \in Nat /\ MaxMishaps \in Nat

VARIABLES
    rows,       \* the connections table
    known,      \* the key known_hosts.toml holds for the server
    inbox,      \* commands on their way to the controller
    pc,         \* where the controller is in its current handler
    job,        \* the command being handled
    fp,         \* the fingerprint handle_connect probed
    reply,      \* the event that ends the handler
    answer,     \* what came through the approval channel
    pools,      \* DbService.pools: the port each pool dials
    tunnels,    \* DbService.tunnels
    saved,      \* ids in ConnectionState.connections
    activeId,   \* ConnectionState.active_id
    events,     \* the event channel, oldest first
    uiRows,     \* the connections the sidebar lists
    uiActive,   \* UiState.active-connection-id
    uiFlag,     \* UiState.conn-safe-dml and conn-read-only
    dialog,     \* the fingerprint shown for approval
    serverKey,  \* the key the SSH server presents
    approved,   \* history: the keys the user has said yes to
    minted,     \* history: the ids the connection form has used up
    ports, faults, sent, changes  \* what the bounds count

diskVars == <<rows, known>>
ctlVars  == <<pc, job, fp, reply>>
dbVars   == <<pools, tunnels>>
connVars == <<saved, activeId>>
viewVars == <<uiRows, uiActive, uiFlag>>
askVars  == <<answer, dialog, approved>>
envVars  == <<serverKey, changes>>
vars == <<diskVars, inbox, ctlVars, dbVars, connVars, events, viewVars, askVars,
          envVars, minted, ports, faults, sent>>

(* Where a host and port lead: to the database, or to the user's own       *)
(* machine.                                                                *)
Targets == {"db", "loopback"}
Row     == [exists : BOOLEAN, flag : BOOLEAN, used : BOOLEAN, target : Targets]
RowOf(e, f, u, t) == [exists |-> e, flag |-> f, used |-> u, target |-> t]
NoRow   == RowOf(FALSE, FALSE, FALSE, "db")
NoRows  == [c \in Conns |-> NoRow]

(* The list with new flags for c, if it has a c. *)
WithFlag(list, c, f) ==
    [d \in Conns |-> IF d = c /\ list[d].exists
                     THEN RowOf(TRUE, f, list[d].used, list[d].target) ELSE list[d]]

CommandKinds == {"connect", "test", "disconnect", "remove", "flags"}
Command == [kind : CommandKinds, conn : Conns \cup {NoConn}, target : Targets, flag : BOOLEAN]
Cmd(k, c, t, f) == [kind |-> k, conn |-> c, target |-> t, flag |-> f]
NoCommand == Cmd("connect", NoConn, "db", FALSE)

EventTypes == {"connected", "connectError", "tested", "disconnected", "removed", "flags", "fingerprint"}
Event == [type : EventTypes, conn : Conns \cup {NoConn}, flag : BOOLEAN,
          key : Keys \cup {NoKey}, list : [Conns -> Row]]
Ev(t, c, f, k, l) == [type |-> t, conn |-> c, flag |-> f, key |-> k, list |-> l]
Note(t, c) == Ev(t, c, FALSE, NoKey, NoRows)
NoReply    == Note("connectError", NoConn)

Port    == 0 .. MaxPorts
Tunnel  == [port : Port, key : Keys \cup {NoKey}, target : Targets]
NoTunnel == [port |-> 0, key |-> NoKey, target |-> "db"]

(* A pool dials the local port of a tunnel, or the database itself (0). *)
Pool   == [up : BOOLEAN, port : Port]
NoPool == [up |-> FALSE, port |-> 0]

Places == {"idle", "probe", "ask", "approval", "tunnel", "dial", "commit", "test", "reply"}

TypeOK ==
    /\ rows \in [Conns -> Row] /\ known \in Keys \cup {NoKey}
    /\ inbox \subseteq Command
    /\ pc \in Places /\ job \in Command /\ fp \in Keys \cup {NoKey} /\ reply \in Event
    /\ pools \in [Conns -> Pool] /\ tunnels \in [Conns -> Tunnel]
    /\ saved \subseteq Conns /\ activeId \in Conns \cup {NoConn}
    /\ events \in Seq(Event) /\ Len(events) <= EventCap
    /\ uiRows \in [Conns -> Row] /\ uiActive \in Conns \cup {NoConn}
    /\ uiFlag \in BOOLEAN
    /\ answer \in {"none", "yes", "no"} /\ dialog \in Keys \cup {NoKey} /\ approved \subseteq Keys
    /\ serverKey \in Keys /\ changes \in 0 .. MaxMishaps
    /\ minted \subseteq Conns
    /\ ports \in Port /\ faults \in 0 .. MaxMishaps /\ sent \in 0 .. MaxCommands

-----------------------------------------------------------------------------
(* The connection the program works on: the active id, if it is known. *)
Active == IF activeId \in saved THEN activeId ELSE NoConn

(* A storage call may fail; the code logs it and goes on. *)
StorageWorks == UNCHANGED faults
StorageFails == faults + changes < MaxMishaps /\ faults' = faults + 1

(* What a saved row is dialled by.  The end of an SSH tunnel is not saved  *)
(* apart: it is the host and port of the row.                              *)
config_to_db_conn(row) == row.target

(* main.rs sends Connect for the row used last.  Times are not modelled:  *)
(* any row ever used may be that one.                                     *)
AutoConnect(r) ==
    IF \E c \in Conns : r[c].used
    THEN {{Cmd("connect", c, config_to_db_conn(r[c]), FALSE)} : c \in {d \in Conns : r[d].used}}
    ELSE {{}}

NoPools   == [c \in Conns |-> NoPool]
NoTunnels == [c \in Conns |-> NoTunnel]

(* What earlier sessions left.  The rows of SSH connections are not among  *)
(* it: all there is to know of them is written by Commit.                  *)
Init ==
    /\ \E R \in SUBSET (Conns \ SshConns) : \E f \in [R -> BOOLEAN], U \in SUBSET R :
          rows = [c \in Conns |->
                    IF c \in R THEN RowOf(TRUE, f[c], c \in U, "db") ELSE NoRow]
    /\ known \in Keys \cup {NoKey} /\ serverKey \in Keys
    /\ approved = {known} \ {NoKey}
    /\ minted = {c \in Conns : rows[c].exists}
    /\ inbox \in AutoConnect(rows)
    /\ pc = "idle" /\ job = NoCommand /\ fp = NoKey /\ reply = NoReply
    /\ pools = NoPools /\ tunnels = NoTunnels /\ saved = {} /\ activeId = NoConn
    /\ events = <<>> /\ answer = "none" /\ dialog = NoKey
    /\ uiRows = rows /\ uiActive = NoConn /\ uiFlag = FALSE
    /\ ports = 0 /\ faults = 0 /\ sent = 0 /\ changes = 0

(* The program is closed, or crashes, and is started again. *)
Restart ==
    /\ faults + changes < MaxMishaps /\ changes' = changes + 1
    /\ inbox' \in AutoConnect(rows)
    /\ pc' = "idle" /\ job' = NoCommand /\ fp' = NoKey /\ reply' = NoReply
    /\ pools' = NoPools /\ tunnels' = NoTunnels /\ saved' = {} /\ activeId' = NoConn
    /\ events' = <<>> /\ answer' = "none" /\ dialog' = NoKey
    /\ uiRows' = rows /\ uiActive' = NoConn /\ uiFlag' = FALSE
    /\ UNCHANGED <<diskVars, serverKey, approved, minted, ports, faults, sent>>

(* The SSH server is given another host key. *)
RotateKey ==
    /\ faults + changes < MaxMishaps /\ changes' = changes + 1
    /\ serverKey' \in Keys \ {serverKey}
    /\ UNCHANGED <<diskVars, inbox, ctlVars, dbVars, connVars, events, viewVars, askVars,
                   minted, ports, faults, sent>>

-----------------------------------------------------------------------------
(* The controller.                                                         *)

(* It receives any of the commands on their way. *)
Receive(kind) ==
    /\ pc = "idle"
    /\ \E c \in inbox : c.kind = kind /\ job' = c /\ inbox' = inbox \ {c}

(* A sender waits while the event channel is full. *)
Send(e) ==
    /\ Len(events) < EventCap
    /\ events' = Append(events, e)

(* The rest of a handler that has nothing left to do but report. *)
Report(e) == pc' = "reply" /\ reply' = e

SendReply ==
    /\ pc = "reply"
    /\ Send(reply)
    /\ pc' = "idle" /\ reply' = NoReply /\ job' = NoCommand /\ fp' = NoKey
    /\ UNCHANGED <<diskVars, inbox, dbVars, connVars, viewVars, askVars, envVars,
                   minted, ports, faults, sent>>

HandleConnect ==
    /\ Receive("connect")
    /\ pc' = IF job'.conn \in SshConns THEN "probe" ELSE "dial"
    /\ UNCHANGED <<diskVars, fp, reply, dbVars, connVars, events, viewVars, askVars, envVars,
                   minted, ports, faults, sent>>

(* Phases 1 and 2: the fingerprint is probed on a connection of its own    *)
(* and compared with the known-hosts file.                                 *)
Probe ==
    /\ pc = "probe"
    /\ \/ /\ fp' = serverKey
          /\ \/ serverKey = known /\ pc' = "tunnel" /\ UNCHANGED reply
             \/ known = NoKey /\ pc' = "ask" /\ UNCHANGED reply
             \/ known \notin {NoKey, serverKey} /\ Report(Note("connectError", NoConn))
       \/ Report(Note("connectError", NoConn)) /\ UNCHANGED fp
    /\ UNCHANGED <<diskVars, inbox, job, dbVars, connVars, events, viewVars, askVars, envVars,
                   minted, ports, faults, sent>>

AskApproval ==
    /\ pc = "ask"
    /\ Send(Ev("fingerprint", NoConn, FALSE, fp, NoRows))
    /\ pc' = "approval"
    /\ UNCHANGED <<diskVars, inbox, job, fp, reply, dbVars, connVars, viewVars, askVars, envVars,
                   minted, ports, faults, sent>>

(* A refusal ends the handler without an event. *)
Approval ==
    /\ pc = "approval"
    /\ answer' = "none"
    /\ \/ /\ answer = "yes" /\ pc' = "tunnel" /\ UNCHANGED <<job, fp>>
          /\ \/ StorageWorks /\ known' = fp
             \/ StorageFails /\ UNCHANGED known
       \/ /\ answer = "no" /\ pc' = "idle" /\ job' = NoCommand /\ fp' = NoKey
          /\ UNCHANGED <<known, faults>>
    /\ UNCHANGED <<rows, inbox, reply, dbVars, connVars, events, viewVars, dialog, approved,
                   envVars, minted, ports, sent>>

(* Phase 3: a second connection to the server, which TunnelHandler only    *)
(* lets through if it presents the fingerprint of phase 2.                 *)
KeyUnchecked == TRUE

KeyAccepted == serverKey = fp

OpenTunnel ==
    /\ pc = "tunnel"
    /\ \/ /\ KeyAccepted /\ ports < MaxPorts
          /\ ports' = ports + 1
          /\ tunnels' = [tunnels EXCEPT ![job.conn] =
                           [port |-> ports + 1, key |-> serverKey, target |-> job.target]]
          /\ pc' = "dial" /\ UNCHANGED reply
       \/ Report(Note("connectError", NoConn)) /\ UNCHANGED <<ports, tunnels>>
    /\ UNCHANGED <<diskVars, inbox, job, fp, pools, connVars, events, viewVars, askVars, envVars,
                   minted, faults, sent>>

(* The port the pool of c dials: conn.host and conn.port were redirected   *)
(* to the tunnel.  A connection string is used as it is, but has no tunnel *)
(* beside it: validate_form refuses the two together.                      *)
DialedPort(c) == IF c \in SshConns THEN tunnels[c].port ELSE 0

(* The certificates are copied and the pool is connected: either may fail. *)
Dial ==
    /\ pc = "dial"
    /\ \/ /\ pools' = [pools EXCEPT ![job.conn] = [up |-> TRUE, port |-> DialedPort(job.conn)]]
          /\ pc' = "commit" /\ UNCHANGED reply
       \/ Report(Note("connectError", NoConn)) /\ UNCHANGED pools
    /\ UNCHANGED <<diskVars, inbox, job, fp, tunnels, connVars, events, viewVars, askVars, envVars,
                   minted, ports, faults, sent>>

(* Host and port of the row are those the pool was given: handle_connect   *)
(* has redirected them to the tunnel.                                      *)
SavedTarget(c) == IF c \in SshConns THEN "loopback" ELSE job.target

(* Mutant: a reconnect writes the default flags.                           *)
UpsertedWithDefaults(c, old) ==
    RowOf(TRUE, FALSE, old.used, SavedTarget(c))

(* The row repo.upsert leaves: a new one has the default flags, an old one *)
(* keeps its own.                                                          *)
Upserted(c, old) == RowOf(TRUE, old.flag, old.used, SavedTarget(c))

(* touch_last_used, like every UPDATE, does nothing without a row. *)
Touched(row) == RowOf(row.exists, row.flag, row.used \/ row.exists, row.target)

(* Upsert, touch_last_used, the update of ConnectionState and the list for *)
(* the UI.  A failed upsert leaves the row to be touched, a failed touch   *)
(* leaves it untouched, a failed listing is an empty one.                  *)
Commit ==
    /\ pc = "commit"
    /\ LET c == job.conn
           new == Upserted(c, rows[c])
           Done(row, list) ==
             /\ rows' = [rows EXCEPT ![c] = row]
             /\ Report(Ev("connected", c, list[c].flag, NoKey, list)) IN
         /\ \/ StorageWorks /\ Done(Touched(new), [rows EXCEPT ![c] = Touched(new)])
            \/ /\ StorageFails
               /\ \/ \E row \in {Touched(rows[c]), new} : Done(row, [rows EXCEPT ![c] = row])
                  \/ Done(Touched(new), NoRows)
         /\ saved' = saved \cup {c} /\ activeId' = c
    /\ UNCHANGED <<known, inbox, job, fp, dbVars, events, viewVars, askVars, envVars,
                   minted, ports, sent>>

(* Mutant: the tunnel goes, the pool stays.                                *)
DropTunnelOnly(c) ==
    /\ tunnels' = [tunnels EXCEPT ![c] = NoTunnel]
    /\ UNCHANGED pools

(* DbService::disconnect drops the pool and the tunnel of c. *)
Drop(c) ==
    /\ pools' = [pools EXCEPT ![c] = NoPool]
    /\ tunnels' = [tunnels EXCEPT ![c] = NoTunnel]

HandleTestConnection ==
    /\ Receive("test")
    /\ pc' = "test"
    /\ UNCHANGED <<diskVars, fp, reply, dbVars, connVars, events, viewVars, askVars, envVars,
                   minted, ports, faults, sent>>

(* The SSH section is ignored.  A test that succeeds has put its pool in   *)
(* the place of the one of that id, and then disconnects the id.           *)
Test ==
    /\ pc = "test"
    /\ \/ Drop(job.conn)
       \/ UNCHANGED dbVars
    /\ Report(Note("tested", NoConn))
    /\ UNCHANGED <<diskVars, inbox, job, fp, connVars, events, viewVars, askVars, envVars,
                   minted, ports, faults, sent>>

HandleDisconnect ==
    /\ Receive("disconnect")
    /\ Drop(job'.conn)
    /\ Report(Note("disconnected", job'.conn))
    /\ UNCHANGED <<diskVars, fp, connVars, events, viewVars, askVars, envVars,
                   minted, ports, faults, sent>>

HandleRemoveConnection ==
    /\ Receive("remove")
    /\ Drop(job'.conn)
    /\ saved' = saved \ {job'.conn}
    /\ \/ StorageWorks /\ rows' = [rows EXCEPT ![job'.conn] = NoRow]
       \/ StorageFails /\ UNCHANGED rows
    /\ Report(Note("removed", job'.conn))
    /\ UNCHANGED <<known, fp, activeId, events, viewVars, askVars, envVars,
                   minted, ports, sent>>

(* UPDATE ... WHERE id = ?: nothing happens when there is no such row. *)
UpdateFlags(c, f) == rows' = WithFlag(rows, c, f)

HandleConnectionFlags ==
    /\ Receive("flags")
    /\ \/ StorageWorks /\ UpdateFlags(job'.conn, job'.flag)
       \/ StorageFails /\ UNCHANGED rows
    /\ Report(Ev("flags", job'.conn, job'.flag, NoKey, NoRows))
    /\ UNCHANGED <<known, fp, dbVars, connVars, events, viewVars, askVars, envVars,
                   minted, ports, sent>>

-----------------------------------------------------------------------------
(* The UI applies the events in the order of the channel.                  *)

UiTake(type) == events # <<>> /\ Head(events).type = type /\ events' = Tail(events)

UiUnchanged == UNCHANGED <<diskVars, inbox, ctlVars, dbVars, connVars, envVars,
                           answer, approved, minted, ports, faults, sent>>

UiConnected ==
    /\ UiTake("connected")
    /\ uiRows' = Head(events).list
    /\ uiActive' = Head(events).conn
    /\ uiFlag' = Head(events).flag
    /\ UNCHANGED dialog /\ UiUnchanged

(* These only change what the form and the status bar say. *)
UiStatus ==
    /\ UiTake("connectError") \/ UiTake("tested") \/ UiTake("disconnected")
    /\ UNCHANGED <<viewVars, dialog>> /\ UiUnchanged

(* Whichever connection was removed, the UI no longer shows one as active.  *)
(* The code resets conn-read-only and leaves conn-safe-dml; neither is read *)
(* before the next connection sets both.                                    *)
UiRemoved ==
    /\ UiTake("removed")
    /\ uiRows' = [uiRows EXCEPT ![Head(events).conn] = NoRow]
    /\ uiActive' = NoConn
    /\ uiFlag' = FALSE
    /\ UNCHANGED dialog /\ UiUnchanged

(* Mutant: flags of any connection reach the status bar.                   *)
ConcernsAlways(c) == TRUE

(* New flags concern the UI's checks if they are those of the connection   *)
(* the program works on, whether or not the UI shows it yet.               *)
Concerns(c) == Active = c

UiFlags ==
    /\ UiTake("flags")
    /\ LET e == Head(events) IN
         /\ uiRows' = WithFlag(uiRows, e.conn, e.flag)
         /\ uiFlag' = IF Concerns(e.conn) THEN e.flag ELSE uiFlag
    /\ UNCHANGED <<uiActive, dialog>> /\ UiUnchanged

UiFingerprint ==
    /\ UiTake("fingerprint")
    /\ dialog' = Head(events).key
    /\ UNCHANGED viewVars /\ UiUnchanged

UiHandle == UiConnected \/ UiStatus \/ UiRemoved \/ UiFlags \/ UiFingerprint

-----------------------------------------------------------------------------
(* The user.  A click reads what the UI lists and what ConnectionState     *)
(* holds at that moment, and puts commands on their way: a set, in which   *)
(* the same command twice counts once.                                     *)

UserSends(n, cmds) ==
    /\ sent + n <= MaxCommands /\ sent' = sent + n
    /\ inbox' = inbox \cup cmds

UserUnchanged == UNCHANGED <<diskVars, ctlVars, dbVars, saved, events, uiRows, uiFlag,
                             envVars, ports, faults>>

(* A click on a saved connection which is not the active one. *)
ClickConnection(c) ==
    /\ uiRows[c].exists /\ c # Active
    /\ UserSends(1, {Cmd("connect", c, config_to_db_conn(uiRows[c]), FALSE)})
    /\ UNCHANGED <<activeId, uiActive, askVars, minted>> /\ UserUnchanged

(* The form, open on a new connection or on a saved one; the user may put  *)
(* right the host and port it is filled with.                              *)
FormTargets(c) == {"db"} \cup IF uiRows[c].exists THEN {uiRows[c].target} ELSE {}

SubmitForm(c) ==
    /\ uiRows[c].exists \/ c \notin minted
    /\ \E t \in FormTargets(c), f \in BOOLEAN :
          UserSends(2, {Cmd("connect", c, t, FALSE), Cmd("flags", c, "db", f)})
    /\ minted' = minted \cup {c}
    /\ UNCHANGED <<activeId, uiActive, askVars>> /\ UserUnchanged

ClickTest(c) ==
    /\ uiRows[c].exists \/ c \notin minted
    /\ \E t \in FormTargets(c) : UserSends(1, {Cmd("test", c, t, FALSE)})
    /\ minted' = minted \cup {c}
    /\ UNCHANGED <<activeId, uiActive, askVars>> /\ UserUnchanged

ClickDelete(c) ==
    /\ uiRows[c].exists
    /\ UserSends(1, {Cmd("remove", c, "db", FALSE)})
    /\ UNCHANGED <<activeId, uiActive, askVars, minted>> /\ UserUnchanged

(* The UI clears the active connection before the command is on its way.   *)
ClickDisconnect ==
    /\ uiActive # NoConn
    /\ activeId' = NoConn
    /\ uiActive' = NoConn
    /\ UserSends(1, {Cmd("disconnect", uiActive, "db", FALSE)})
    /\ UNCHANGED <<askVars, minted>> /\ UserUnchanged

ApproveFingerprint ==
    /\ dialog # NoKey
    /\ answer' = "yes" /\ approved' = approved \cup {dialog} /\ dialog' = NoKey
    /\ UNCHANGED <<inbox, activeId, uiActive, minted, sent>> /\ UserUnchanged

(* Mutant: the dialog is closed and no answer sent.                        *)
RejectUnsent ==
    /\ dialog # NoKey
    /\ dialog' = NoKey
    /\ UNCHANGED <<answer, approved, inbox, activeId, uiActive, minted, sent>> /\ UserUnchanged

RejectFingerprint ==
    /\ dialog # NoKey
    /\ answer' = "no" /\ dialog' = NoKey
    /\ UNCHANGED <<approved, inbox, activeId, uiActive, minted, sent>> /\ UserUnchanged

-----------------------------------------------------------------------------
Controller ==
    \/ HandleConnect \/ Probe \/ AskApproval \/ Approval \/ OpenTunnel \/ Dial \/ Commit
    \/ HandleTestConnection \/ Test \/ HandleDisconnect \/ HandleRemoveConnection
    \/ HandleConnectionFlags \/ SendReply

User ==
    \/ \E c \in Conns : ClickConnection(c) \/ SubmitForm(c) \/ ClickTest(c) \/ ClickDelete(c)
    \/ ClickDisconnect \/ ApproveFingerprint \/ RejectFingerprint

Next == Controller \/ UiHandle \/ User \/ Restart \/ RotateKey

Spec == Init /\ [][Next]_vars

-----------------------------------------------------------------------------
(* Properties.                                                             *)

(* Every tunnel leads to a server whose key the user has approved, in this *)
(* session or an earlier one, although the key is looked at twice, on two  *)
(* connections, with the user and the file in between.                     *)
TunnelsApproved ==
    \A c \in Conns : tunnels[c].port # 0 => tunnels[c].key \in approved

(* A controller that waits for an answer can be given one: the dialog is   *)
(* open, about to open, or answered; and a dialog always has a controller  *)
(* that waits for it, for the key it shows.                                *)
ApprovalReachable ==
    /\ pc = "approval" =>
          dialog # NoKey \/ answer # "none" \/ \E i \in 1 .. Len(events) : events[i].type = "fingerprint"
    /\ dialog # NoKey => pc = "approval" /\ dialog = fp

(* A pool is only held for a connection the program knows, and could drop: *)
(* none for one that was removed while others were connected, or merely    *)
(* tested, whatever is on its way.                                         *)
NoOrphanPool ==
    \A c \in Conns : pools[c].up => c \in saved \/ (pc = "commit" /\ job.conn = c)

(* A reconnect never touches the flags of a saved connection: they change  *)
(* only by the command that says so.                                       *)
FlagsSurviveReconnect ==
    [][\A c \in Conns : rows[c].exists /\ rows'[c].exists /\ rows'[c].flag # rows[c].flag
          => job'.kind = "flags" /\ job'.conn = c]_vars

(* The flags the UI consults before it runs a statement are those of the   *)
(* row, whenever the UI has heard everything, shows the connection the     *)
(* program works on, and no storage call has failed.                       *)
UiFlagFresh ==
    (events = <<>> /\ pc = "idle" /\ uiActive = Active /\ Active # NoConn /\ faults = 0)
        => uiFlag = rows[Active].flag

=============================================================================
