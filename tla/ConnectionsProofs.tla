------------------------- MODULE ConnectionsProofs -------------------------
(***************************************************************************)
(* What Connections guarantees for any connections, host keys, channel     *)
(* capacity and bounds.  The inductive invariant IInv adds to the types    *)
(* what a handler at work holds (Working), where the answer to a           *)
(* fingerprint can be (Asking), which keys are trusted (Trusting), and     *)
(* whose pools are open (NoOrphanPool).  Hearing, further down, says what  *)
(* flags the events under way will leave the UI with.                      *)
(***************************************************************************)
EXTENDS Connections, SequenceTheorems, TLAPS

(* Commands are about a connection, and so is a handler that runs. *)
Working ==
    /\ \A m \in inbox : m.conn \in Conns
    /\ pc \notin {"idle", "reply"} => job.conn \in Conns

Asks(i) == events[i].type = "fingerprint"

(* The question for a key is in one place at a time: in the channel, in    *)
(* the dialog, or answered; and only while the controller waits for it.    *)
Asking ==
    /\ reply.type # "fingerprint"
    /\ pc \in {"ask", "approval"} => fp \in Keys
    /\ \A i \in 1 .. Len(events) : Asks(i) =>
          /\ pc = "approval" /\ events[i].key = fp
          /\ dialog = NoKey /\ answer = "none"
          /\ \A j \in 1 .. Len(events) : Asks(j) => i = j
    /\ dialog # NoKey => pc = "approval" /\ dialog = fp /\ answer = "none"
    /\ answer # "none" => pc = "approval"

(* What is written down, answered or about to be used has been approved. *)
Trusting ==
    /\ known \in approved \cup {NoKey}
    /\ answer = "yes" => fp \in approved
    /\ pc = "tunnel" => fp \in approved
    /\ TunnelsApproved

IInv == TypeOK /\ Working /\ Asking /\ Trusting /\ ApprovalReachable /\ NoOrphanPool

-----------------------------------------------------------------------------
(* Types.                                                                  *)

LEMMA RowValues ==
  /\ \A e, f, u \in BOOLEAN, t \in Targets : RowOf(e, f, u, t) \in Row
  /\ NoRow \in Row
  /\ \A r \in Row :
        /\ r.exists \in BOOLEAN /\ r.flag \in BOOLEAN /\ r.used \in BOOLEAN
        /\ r.target \in Targets /\ Touched(r) \in Row
  /\ "db" \in Targets /\ "loopback" \in Targets
<1>1. \A e, f, u \in BOOLEAN, t \in Targets : RowOf(e, f, u, t) \in Row
  BY DEF RowOf, Row
<1>2. \A r \in Row : /\ r.exists \in BOOLEAN /\ r.flag \in BOOLEAN /\ r.used \in BOOLEAN
                     /\ r.target \in Targets
  BY DEF Row
<1>3. "db" \in Targets /\ "loopback" \in Targets
  BY DEF Targets
<1>4. \A x, y \in BOOLEAN : (x \/ y) \in BOOLEAN
  OBVIOUS
<1> QED BY Zenon, <1>1, <1>2, <1>3, <1>4 DEF Touched, NoRow

LEMMA FlagValues ==
  ASSUME NEW l \in [Conns -> Row], NEW c, NEW f \in BOOLEAN
  PROVE  WithFlag(l, c, f) \in [Conns -> Row]
  BY RowValues DEF WithFlag

LEMMA Values ==
  /\ NoRow \in Row /\ NoRows \in [Conns -> Row]
  /\ NoCommand \in Command /\ NoReply \in Event
  /\ NoPool \in Pool /\ NoTunnel \in Tunnel
  /\ NoPools \in [Conns -> Pool] /\ NoTunnels \in [Conns -> Tunnel]
  /\ \A e \in Event : /\ e.conn \in Conns \cup {NoConn} /\ e.flag \in BOOLEAN
                       /\ e.key \in Keys \cup {NoKey} /\ e.list \in [Conns -> Row]
  /\ \A t \in EventTypes, c \in Conns \cup {NoConn} : Note(t, c) \in Event
  /\ \A t \in EventTypes, c \in Conns \cup {NoConn}, f \in BOOLEAN, k \in Keys \cup {NoKey},
        l \in [Conns -> Row] : Ev(t, c, f, k, l) \in Event
<1> USE Bounds
<1>1. NoRow \in Row /\ NoRows \in [Conns -> Row]
  BY RowValues DEF NoRows
<1>2. NoCommand \in Command
  BY RowValues DEF NoCommand, Cmd, Command, CommandKinds
<1>3. \A t \in EventTypes, c \in Conns \cup {NoConn}, f \in BOOLEAN, k \in Keys \cup {NoKey},
         l \in [Conns -> Row] : Ev(t, c, f, k, l) \in Event
  BY DEF Ev, Event
<1>4. \A t \in EventTypes, c \in Conns \cup {NoConn} : Note(t, c) \in Event
  BY <1>1, <1>3 DEF Note
<1>5. NoReply \in Event
  BY <1>4 DEF NoReply, EventTypes
<1>6. NoPool \in Pool /\ NoTunnel \in Tunnel
      /\ NoPools \in [Conns -> Pool] /\ NoTunnels \in [Conns -> Tunnel]
  <2>1. 0 \in Port
    BY DEF Port
  <2>2. NoPool \in Pool /\ NoTunnel \in Tunnel
    BY <2>1, RowValues DEF NoPool, NoTunnel, Pool, Tunnel
  <2> QED BY <2>2 DEF NoPools, NoTunnels
<1>7. \A e \in Event : /\ e.conn \in Conns \cup {NoConn} /\ e.flag \in BOOLEAN
                        /\ e.key \in Keys \cup {NoKey} /\ e.list \in [Conns -> Row]
  BY DEF Event
<1> QED BY <1>1, <1>2, <1>3, <1>4, <1>5, <1>6, <1>7

(* The commands a start of the program finds on their way. *)
LEMMA AutoConnectCommands ==
  ASSUME NEW r \in [Conns -> Row], NEW S \in AutoConnect(r)
  PROVE  S \subseteq Command /\ \A m \in S : m.conn \in Conns
<1>1. \A c \in Conns : Cmd("connect", c, r[c].target, FALSE) \in Command
  BY DEF Cmd, Command, CommandKinds, Row
<1>2. S = {} \/ \E c \in Conns : S = {Cmd("connect", c, r[c].target, FALSE)}
  <2>1. CASE \E c \in Conns : r[c].used
    BY <2>1 DEF AutoConnect, config_to_db_conn
  <2>2. CASE ~\E c \in Conns : r[c].used
    BY <2>2 DEF AutoConnect, config_to_db_conn
  <2> QED BY <2>1, <2>2
<1> QED BY <1>1, <1>2 DEF Cmd

LEMMA InitTypes == Init => TypeOK /\ Working
<1> SUFFICES ASSUME Init PROVE TypeOK /\ Working
  OBVIOUS
<1>0. events = <<>> /\ ports = 0 /\ faults = 0 /\ changes = 0 /\ sent = 0
  BY Zenon DEF Init
<1>1. rows \in [Conns -> Row]
  <2>1. PICK R \in SUBSET (Conns \ SshConns) : \E f \in [R -> BOOLEAN], U \in SUBSET R :
          rows = [c \in Conns |->
                    IF c \in R THEN RowOf(TRUE, f[c], c \in U, "db") ELSE NoRow]
    BY DEF Init
  <2>2. PICK f \in [R -> BOOLEAN], U \in SUBSET R :
          rows = [c \in Conns |->
                    IF c \in R THEN RowOf(TRUE, f[c], c \in U, "db") ELSE NoRow]
    BY <2>1
  <2>3. \A c \in R : f[c] \in BOOLEAN /\ (c \in U) \in BOOLEAN
    OBVIOUS
  <2> QED BY <2>2, <2>3, RowValues
<1>2. inbox \subseteq Command /\ Working
  BY <1>1, AutoConnectCommands DEF Init, Working
<1>3. events \in Seq(Event) /\ Len(events) <= EventCap
  <2>1. events = <<>> /\ 0 <= EventCap
    BY <1>0, Bounds
  <2> QED BY <2>1, EmptySeq
<1>4. uiFlag \in BOOLEAN /\ minted \subseteq Conns
  BY DEF Init
<1>5. approved \subseteq Keys /\ known \in Keys \cup {NoKey}
  BY DEF Init
<1>6. /\ ports \in Port /\ faults \in 0 .. MaxMishaps /\ changes \in 0 .. MaxMishaps
      /\ sent \in 0 .. MaxCommands
  BY <1>0, Bounds DEF Port
<1> QED BY <1>1, <1>2, <1>3, <1>4, <1>5, <1>6, Values DEF Init, TypeOK, Places

LEMMA SendType ==
  ASSUME events \in Seq(Event), NEW e \in Event, Send(e)
  PROVE  events' \in Seq(Event) /\ Len(events') <= EventCap
  BY AppendProperties, Bounds DEF Send

LEMMA TakeType ==
  ASSUME TypeOK, NEW t, UiTake(t)
  PROVE  /\ events' \in Seq(Event) /\ Len(events') <= EventCap
         /\ Head(events) \in Event /\ Head(events).type = t
  BY HeadTailProperties, Bounds DEF UiTake, TypeOK

LEMMA ReceiveType ==
  ASSUME TypeOK, Working, NEW k, Receive(k)
  PROVE  /\ job' \in Command /\ job'.conn \in Conns /\ job'.kind = k
         /\ job'.flag \in BOOLEAN
         /\ inbox' \subseteq Command /\ \A m \in inbox' : m.conn \in Conns
  BY DEF Receive, TypeOK, Working, Command

LEMMA DropType ==
  ASSUME TypeOK, NEW c, Drop(c)
  PROVE  pools' \in [Conns -> Pool] /\ tunnels' \in [Conns -> Tunnel]
  BY Values DEF Drop, TypeOK

LEMMA UserSendsType ==
  ASSUME TypeOK, Working, NEW n \in Nat, NEW S \in SUBSET Command,
         \A m \in S : m.conn \in Conns, UserSends(n, S)
  PROVE  /\ inbox' \subseteq Command /\ \A m \in inbox' : m.conn \in Conns
         /\ sent' \in 0 .. MaxCommands
  BY Bounds DEF UserSends, TypeOK, Working

LEMMA ControllerTypes == TypeOK /\ Working /\ Controller => TypeOK' /\ Working'
<1> SUFFICES ASSUME TypeOK, Working, Controller PROVE TypeOK' /\ Working'
  OBVIOUS
<1> USE Values, Bounds
    DEF TypeOK, Working, diskVars, ctlVars, dbVars, connVars, viewVars, askVars, envVars,
        Places, Report, EventTypes, Port, StorageWorks, StorageFails
<1>1. CASE HandleConnect \/ HandleTestConnection
  BY <1>1, ReceiveType DEF HandleConnect, HandleTestConnection, Receive
<1>2. CASE Probe
  BY <1>2 DEF Probe
<1>3. CASE AskApproval
  <2>1. Ev("fingerprint", NoConn, FALSE, fp, NoRows) \in Event
    OBVIOUS
  <2> QED BY <1>3, <2>1, SendType DEF AskApproval
<1>4. CASE Approval
  BY <1>4, SMTT(30) DEF Approval
<1>5. CASE OpenTunnel
  <2>1. pc' \in Places /\ reply' \in Event
    BY <1>5 DEF OpenTunnel
  <2>2. ports' \in Port /\ tunnels' \in [Conns -> Tunnel]
    <3>1. CASE ports' = ports + 1 /\ ports < MaxPorts
      <4>1. ports + 1 \in Port
        BY <3>1
      <4>2. [port |-> ports + 1, key |-> serverKey, target |-> job.target] \in Tunnel
        BY <4>1 DEF Tunnel, Command
      <4> QED BY <1>5, <3>1, <4>1, <4>2, ZenonT(60) DEF OpenTunnel
    <3>2. CASE UNCHANGED <<ports, tunnels>>
      BY <3>2
    <3> QED BY <1>5, <3>1, <3>2 DEF OpenTunnel
  <2> QED BY <1>5, <2>1, <2>2 DEF OpenTunnel
<1>6. CASE Dial
  <2>1. DialedPort(job.conn) \in Port
    BY <1>6 DEF Dial, DialedPort, Tunnel
  <2>2. [up |-> TRUE, port |-> DialedPort(job.conn)] \in Pool
    BY <2>1 DEF Pool
  <2>3. pools' \in [Conns -> Pool] /\ pc' \in Places /\ reply' \in Event
    BY <1>6, <2>2, ZenonT(60) DEF Dial
  <2> QED BY <1>6, <2>3 DEF Dial
<1>7. CASE Commit
  <2> DEFINE c == job.conn
             new == Upserted(c, rows[c])
  <2>1. c \in Conns /\ rows[c] \in Row /\ job.target \in Targets
    BY <1>7 DEF Commit, Command
  <2>2. new \in Row /\ Touched(new) \in Row /\ Touched(rows[c]) \in Row
    BY <2>1, RowValues DEF Upserted, SavedTarget
  <2>3. \E row \in Row, list \in [Conns -> Row] :
           /\ rows' = [rows EXCEPT ![c] = row]
           /\ Report(Ev("connected", c, list[c].flag, NoKey, list))
    <3>1. \A row \in Row : [rows EXCEPT ![c] = row] \in [Conns -> Row]
      OBVIOUS
    <3> HIDE DEF TypeOK
    <3> QED BY <1>7, <2>2, <3>1 DEF Commit
  <2>4. rows' \in [Conns -> Row] /\ pc' = "reply" /\ reply' \in Event
    <3>1. PICK row \in Row, list \in [Conns -> Row] :
             /\ rows' = [rows EXCEPT ![c] = row]
             /\ Report(Ev("connected", c, list[c].flag, NoKey, list))
      BY <2>3
    <3>2. list[c].flag \in BOOLEAN
      BY <2>1, <3>1, RowValues
    <3> QED BY <2>1, <3>1, <3>2
  <2>5. faults' \in 0 .. MaxMishaps
    BY <1>7, SMTT(30) DEF Commit
  <2>6. saved' \subseteq Conns /\ activeId' \in Conns
    BY <1>7, <2>1 DEF Commit
  <2> QED BY <1>7, <2>4, <2>5, <2>6 DEF Commit
<1>8. CASE Test
  <2>1. pc' \in Places /\ reply' \in Event
    BY <1>8 DEF Test
  <2>2. pools' \in [Conns -> Pool] /\ tunnels' \in [Conns -> Tunnel]
    <3>1. CASE Drop(job.conn)
      BY <3>1, DropType
    <3>2. CASE UNCHANGED dbVars
      BY <3>2
    <3> QED BY <1>8, <3>1, <3>2 DEF Test
  <2>3. pc' = "reply" /\ UNCHANGED <<diskVars, inbox, job, fp, connVars, events, viewVars,
                                    askVars, envVars, minted, ports, faults, sent>>
    BY <1>8 DEF Test
  <2> QED BY <2>1, <2>2, <2>3
<1>9. CASE HandleDisconnect
  <2>1. Receive("disconnect") /\ Drop(job'.conn) /\ Report(Note("disconnected", job'.conn))
    BY <1>9 DEF HandleDisconnect
  <2>2. reply' \in Event
    BY <2>1, ReceiveType
  <2> QED BY <1>9, <2>1, <2>2, ReceiveType, DropType DEF HandleDisconnect
<1>10. CASE HandleRemoveConnection
  <2>1. Receive("remove") /\ Drop(job'.conn) /\ Report(Note("removed", job'.conn))
    BY <1>10 DEF HandleRemoveConnection
  <2>2. reply' \in Event
    BY <2>1, ReceiveType
  <2>3. rows' \in [Conns -> Row]
    BY <1>10 DEF HandleRemoveConnection
  <2>4. faults' \in 0 .. MaxMishaps
    BY <1>10 DEF HandleRemoveConnection
  <2> QED BY <1>10, <2>1, <2>2, <2>3, <2>4, ReceiveType, DropType DEF HandleRemoveConnection
<1>11. CASE HandleConnectionFlags
  <2>1. Receive("flags") /\ Report(Ev("flags", job'.conn, job'.flag, NoKey, NoRows))
    BY <1>11 DEF HandleConnectionFlags
  <2>2. reply' \in Event
    BY <2>1, ReceiveType
  <2>3. rows' \in [Conns -> Row]
    <3>1. rows' = rows \/ rows' = WithFlag(rows, job'.conn, job'.flag)
      BY <1>11 DEF HandleConnectionFlags, UpdateFlags
    <3>2. job'.flag \in BOOLEAN
      BY <2>1, ReceiveType
    <3>3. WithFlag(rows, job'.conn, job'.flag) \in [Conns -> Row]
      BY <3>2, FlagValues
    <3> QED BY <3>1, <3>3
  <2>4. faults' \in 0 .. MaxMishaps
    BY <1>11 DEF HandleConnectionFlags
  <2> QED BY <1>11, <2>1, <2>2, <2>3, <2>4, ReceiveType DEF HandleConnectionFlags
<1>12. CASE SendReply
  BY <1>12, SendType DEF SendReply
<1> QED BY <1>1, <1>2, <1>3, <1>4, <1>5, <1>6, <1>7, <1>8, <1>9, <1>10, <1>11, <1>12
        DEF Controller

LEMMA UiTypes == TypeOK /\ Working /\ UiHandle => TypeOK' /\ Working'
<1> SUFFICES ASSUME TypeOK, Working, UiHandle PROVE TypeOK' /\ Working'
  OBVIOUS
<1> USE Values
    DEF TypeOK, Working, diskVars, ctlVars, dbVars, connVars, viewVars, askVars, envVars,
        UiUnchanged, EventTypes
<1>1. CASE UiConnected
  BY <1>1, TakeType DEF UiConnected
<1>2. CASE UiStatus
  BY <1>2, TakeType DEF UiStatus
<1>3. CASE UiRemoved
  BY <1>3, TakeType DEF UiRemoved
<1>4. CASE UiFlags
  BY <1>4, TakeType, FlagValues DEF UiFlags
<1>5. CASE UiFingerprint
  BY <1>5, TakeType DEF UiFingerprint
<1> QED BY <1>1, <1>2, <1>3, <1>4, <1>5 DEF UiHandle

LEMMA UserTypes == TypeOK /\ Working /\ User => TypeOK' /\ Working'
<1> SUFFICES ASSUME TypeOK, Working, User PROVE TypeOK' /\ Working'
  OBVIOUS
<1> USE Bounds
    DEF TypeOK, Working, diskVars, ctlVars, dbVars, connVars, viewVars, askVars, envVars,
        UserUnchanged
<1>1. \A k \in CommandKinds, c \in Conns, t \in Targets, f \in BOOLEAN :
         Cmd(k, c, t, f) \in Command /\ Cmd(k, c, t, f).conn \in Conns
  BY DEF Cmd, Command
<1>2. \A c \in Conns : uiRows[c].target \in Targets /\ FormTargets(c) \subseteq Targets
  BY RowValues DEF FormTargets
<1> DEFINE Others == UNCHANGED <<diskVars, ctlVars, dbVars, saved, events, uiRows, uiFlag,
                                 envVars, ports, faults>>
(* What every click comes to: commands on their way, the rest as it was. *)
<1>3. ASSUME NEW n \in Nat, NEW S \in SUBSET Command, \A m \in S : m.conn \in Conns,
             UserSends(n, S), Others, UNCHANGED askVars,
             activeId' \in Conns \cup {NoConn}, uiActive' \in Conns \cup {NoConn},
             minted' \subseteq Conns
      PROVE  TypeOK' /\ Working'
  BY <1>3, UserSendsType
<1> HIDE DEF TypeOK, Working, Others
<1>4. ASSUME NEW c \in Conns, ClickConnection(c) \/ SubmitForm(c) \/ ClickTest(c) \/ ClickDelete(c)
      PROVE  TypeOK' /\ Working'
  <2>1. UNCHANGED <<activeId, uiActive, askVars>> /\ Others
    BY <1>4 DEF ClickConnection, SubmitForm, ClickTest, ClickDelete, Others
  <2>2. minted' \subseteq Conns /\ activeId' \in Conns \cup {NoConn}
        /\ uiActive' \in Conns \cup {NoConn}
    BY <1>4, <2>1 DEF ClickConnection, SubmitForm, ClickTest, ClickDelete, TypeOK
  <2>3. \E n \in Nat, S \in SUBSET Command : (\A m \in S : m.conn \in Conns) /\ UserSends(n, S)
    <3>1. CASE ClickConnection(c)
      <4>1. UserSends(1, {Cmd("connect", c, uiRows[c].target, FALSE)})
        BY <3>1 DEF config_to_db_conn, ClickConnection
      <4>2. Cmd("connect", c, uiRows[c].target, FALSE) \in Command
            /\ Cmd("connect", c, uiRows[c].target, FALSE).conn \in Conns
        BY <1>1, <1>2 DEF CommandKinds
      <4> QED BY <4>1, <4>2
    <3>2. CASE SubmitForm(c)
      <4>1. PICK t \in FormTargets(c), f \in BOOLEAN :
               UserSends(2, {Cmd("connect", c, t, FALSE), Cmd("flags", c, "db", f)})
        BY <3>2 DEF SubmitForm
      <4>2. t \in Targets /\ f \in BOOLEAN /\ "connect" \in CommandKinds /\ "flags" \in CommandKinds
        BY <1>2 DEF CommandKinds
      <4>3. Cmd("connect", c, t, FALSE) \in Command /\ Cmd("connect", c, t, FALSE).conn \in Conns
        BY <1>1, <4>2
      <4>4. Cmd("flags", c, "db", f) \in Command /\ Cmd("flags", c, "db", f).conn \in Conns
        BY Zenon, <1>1, <4>2, RowValues
      <4> QED BY <4>1, <4>3, <4>4
    <3>3. CASE ClickTest(c)
      <4>1. PICK t \in FormTargets(c) : UserSends(1, {Cmd("test", c, t, FALSE)})
        BY <3>3 DEF ClickTest
      <4>2. Cmd("test", c, t, FALSE) \in Command /\ Cmd("test", c, t, FALSE).conn \in Conns
        BY <1>1, <1>2 DEF CommandKinds
      <4> QED BY <4>1, <4>2
    <3>4. CASE ClickDelete(c)
      <4>1. UserSends(1, {Cmd("remove", c, "db", FALSE)})
        BY <3>4 DEF ClickDelete
      <4>2. Cmd("remove", c, "db", FALSE) \in Command
            /\ Cmd("remove", c, "db", FALSE).conn \in Conns
        BY <1>1, RowValues DEF CommandKinds
      <4> QED BY <4>1, <4>2
    <3> QED BY <1>4, <3>1, <3>2, <3>3, <3>4
  <2> QED BY <1>3, <2>1, <2>2, <2>3
<1>7. CASE ClickDisconnect
  <2>1. uiActive \in Conns
    BY <1>7 DEF ClickDisconnect, TypeOK
  <2>2. UserSends(1, {Cmd("disconnect", uiActive, "db", FALSE)}) /\ Others
    BY <1>7 DEF ClickDisconnect, Others
  <2>3. Cmd("disconnect", uiActive, "db", FALSE) \in Command
        /\ Cmd("disconnect", uiActive, "db", FALSE).conn \in Conns
    BY <1>1, <2>1, RowValues DEF CommandKinds
  <2>4. UNCHANGED askVars /\ minted' \subseteq Conns
        /\ activeId' \in Conns \cup {NoConn} /\ uiActive' \in Conns \cup {NoConn}
    BY <1>7 DEF ClickDisconnect, TypeOK
  <2> QED BY <1>3, <2>2, <2>3, <2>4
<1>8. CASE ApproveFingerprint \/ RejectFingerprint
  BY <1>8 DEF TypeOK, Working, ApproveFingerprint, RejectFingerprint
<1> QED BY <1>4, <1>7, <1>8 DEF User

LEMMA TypeStep == TypeOK /\ Working /\ [Next]_vars => TypeOK' /\ Working'
<1> SUFFICES ASSUME TypeOK, Working, [Next]_vars PROVE TypeOK' /\ Working'
  OBVIOUS
<1> USE DEF TypeOK, Working, diskVars, ctlVars, dbVars, connVars, viewVars, askVars, envVars
<1>1. CASE Restart
  <2>1. inbox' \subseteq Command /\ \A m \in inbox' : m.conn \in Conns
    BY <1>1, AutoConnectCommands DEF Restart
  <2>2. events' \in Seq(Event) /\ Len(events') <= EventCap
    BY <1>1, EmptySeq, Bounds DEF Restart
  <2>3. changes' \in 0 .. MaxMishaps
    BY <1>1, Bounds DEF Restart
  <2>4. pools' = NoPools /\ tunnels' = NoTunnels /\ job' = NoCommand /\ reply' = NoReply
        /\ pc' = "idle" /\ fp' = NoKey /\ saved' = {} /\ activeId' = NoConn
        /\ answer' = "none" /\ dialog' = NoKey /\ uiRows' = rows /\ uiActive' = NoConn
        /\ (uiFlag' <=> FALSE)
    BY Zenon, <1>1 DEF Restart
  <2>5. UNCHANGED <<diskVars, serverKey, approved, minted, ports, faults, sent>>
    BY <1>1 DEF Restart
  <2>6. uiFlag' \in BOOLEAN
    BY <1>1 DEF Restart
  <2> QED BY <2>1, <2>2, <2>3, <2>4, <2>5, <2>6, Values DEF Places
<1>2. CASE RotateKey
  BY <1>2, Bounds DEF RotateKey
<1>3. CASE UNCHANGED vars
  BY <1>3 DEF vars
<1> QED BY <1>1, <1>2, <1>3, ControllerTypes, UiTypes, UserTypes DEF Next

-----------------------------------------------------------------------------
(* The question about a fingerprint.                                       *)

LEMMA SendValues ==
  ASSUME TypeOK, NEW e \in Event, Send(e)
  PROVE  /\ Len(events') = Len(events) + 1 /\ Len(events) \in Nat
         /\ \A i \in 1 .. Len(events) : events'[i] = events[i]
         /\ events'[Len(events) + 1] = e
  BY AppendProperties, LenProperties DEF Send, TypeOK

LEMMA TakeValues ==
  ASSUME TypeOK, NEW t, UiTake(t)
  PROVE  /\ Len(events) \in Nat \ {0} /\ Len(events') = Len(events) - 1
         /\ \A i \in 1 .. Len(events') : events'[i] = events[i + 1]
         /\ Head(events) = events[1] /\ events[1].type = t
  BY HeadTailProperties, LenProperties, EmptySeq DEF UiTake, TypeOK

Answerable == Asking /\ ApprovalReachable

(* Nothing of what these two speak about changes. *)
LEMMA Unasked ==
  ASSUME Answerable, UNCHANGED <<events, dialog, answer, fp, pc, reply>>
  PROVE  Answerable'
  BY DEF Answerable, Asking, ApprovalReachable, Asks

(* A handler works on what is not the approval. *)
LEMMA Elsewhere ==
  ASSUME Answerable, UNCHANGED <<events, dialog, answer>>, pc # "approval", pc' # "approval",
         reply'.type # "fingerprint", pc' = "ask" => fp' \in Keys
  PROVE  Answerable'
  BY DEF Answerable, Asking, ApprovalReachable, Asks

LEMMA NotAsked ==
  ASSUME Answerable, pc # "approval"
  PROVE  dialog = NoKey /\ answer = "none" /\ \A i \in 1 .. Len(events) : ~Asks(i)
  BY DEF Answerable, Asking

LEMMA AskingController == TypeOK /\ Answerable /\ Controller => Answerable'
<1> SUFFICES ASSUME TypeOK, Answerable, Controller PROVE Answerable'
  OBVIOUS
<1> USE DEF diskVars, dbVars, ctlVars, connVars, viewVars, askVars, envVars, Report
<1>0. /\ \A t \in EventTypes : \A c : Note(t, c).type = t
      /\ \A t, c, f, k, l : Ev(t, c, f, k, l).type = t /\ Ev(t, c, f, k, l).key = k
      /\ NoReply.type = "connectError"
  BY DEF Note, Ev, NoReply
<1>1. reply.type # "fingerprint"
  BY DEF Answerable, Asking
<1>2. CASE HandleConnect \/ HandleTestConnection
  BY <1>1, <1>2, Elsewhere DEF HandleConnect, HandleTestConnection, Receive
<1>3. CASE Probe
  <2>1. UNCHANGED <<events, dialog, answer>> /\ pc = "probe"
    BY <1>3 DEF Probe
  <2>2. pc' # "approval" /\ reply'.type # "fingerprint"
    BY <1>0, <1>1, <1>3 DEF Probe, EventTypes
  <2>3. pc' = "ask" => fp' \in Keys
    BY <1>3 DEF Probe, TypeOK
  <2> QED BY <2>1, <2>2, <2>3, Elsewhere
<1>4. CASE AskApproval
  <2> DEFINE e == Ev("fingerprint", NoConn, FALSE, fp, NoRows)
  <2>1. e \in Event /\ e.type = "fingerprint" /\ e.key = fp
    <3>1. "fingerprint" \in EventTypes /\ fp \in Keys \cup {NoKey} /\ NoRows \in [Conns -> Row]
      BY Values DEF TypeOK, EventTypes
    <3>2. e \in Event
      BY Zenon, <3>1, Values
    <3>3. e.type = "fingerprint" /\ e.key = fp
      BY DEF Ev
    <3> QED BY <3>2, <3>3
  <2>2. Send(e) /\ pc' = "approval" /\ pc = "ask" /\ UNCHANGED <<fp, reply, dialog, answer>>
    BY <1>4 DEF AskApproval
  <2> HIDE DEF e
  <2>3. /\ Len(events') = Len(events) + 1 /\ Len(events) \in Nat
        /\ \A i \in 1 .. Len(events) : events'[i] = events[i]
        /\ events'[Len(events) + 1] = e
    BY <2>1, <2>2, SendValues
  <2>4. dialog = NoKey /\ answer = "none" /\ \A i \in 1 .. Len(events) : ~Asks(i)
    BY <2>2, NotAsked
  <2>5. \A i \in 1 .. Len(events') : Asks(i)' => i = Len(events) + 1
    BY <2>3, <2>4 DEF Asks
  <2>6. Len(events) + 1 \in 1 .. Len(events')
    BY <2>3
  <2>7. fp \in Keys
    BY <2>2 DEF Answerable, Asking
  <2>8. Asking'
    BY <1>1, <2>1, <2>2, <2>3, <2>4, <2>5, <2>7 DEF Asking
  <2>9. ApprovalReachable'
    BY <2>1, <2>2, <2>3, <2>4, <2>6 DEF ApprovalReachable
  <2> QED BY <2>8, <2>9 DEF Answerable
<1>5. CASE Approval
  <2>1. /\ pc = "approval" /\ answer # "none" /\ answer' = "none" /\ pc' \in {"tunnel", "idle"}
        /\ UNCHANGED <<reply, events, dialog>>
    BY <1>5 DEF Approval
  <2>2. dialog = NoKey /\ \A i \in 1 .. Len(events) : ~Asks(i)
    BY <2>1 DEF Answerable, Asking
  <2> QED BY <1>1, <2>1, <2>2 DEF Answerable, Asking, ApprovalReachable, Asks
<1>6. CASE OpenTunnel
  BY <1>0, <1>1, <1>6, Elsewhere DEF OpenTunnel, EventTypes
<1>7. CASE Dial
  BY <1>0, <1>1, <1>7, Elsewhere DEF Dial, EventTypes
<1>8. CASE Commit
  <2>1. UNCHANGED <<events, dialog, answer>> /\ pc = "commit"
    BY <1>8 DEF Commit
  <2>2. \E c, f, l : pc' = "reply" /\ reply' = Ev("connected", c, f, NoKey, l)
    BY <1>8 DEF Commit
  <2>3. pc' = "reply" /\ reply'.type = "connected"
    BY <1>0, <2>2
  <2> QED BY <2>1, <2>3, Elsewhere
<1>9. CASE Test
  BY <1>0, <1>9, Elsewhere DEF Test, EventTypes
<1>10. CASE HandleDisconnect
  BY <1>0, <1>10, Elsewhere DEF HandleDisconnect, Receive, EventTypes
<1>11. CASE HandleRemoveConnection
  BY <1>0, <1>11, Elsewhere DEF HandleRemoveConnection, Receive, EventTypes
<1>12. CASE HandleConnectionFlags
  BY <1>0, <1>12, Elsewhere DEF HandleConnectionFlags, Receive
<1>13. CASE SendReply
  <2>1. /\ Send(reply) /\ pc = "reply" /\ pc' = "idle" /\ reply' = NoReply
        /\ UNCHANGED <<dialog, answer>> /\ reply \in Event
    BY <1>13 DEF SendReply, TypeOK
  <2>2. dialog = NoKey /\ answer = "none" /\ \A i \in 1 .. Len(events) : ~Asks(i)
    BY <2>1, NotAsked
  <2>3. \A i \in 1 .. Len(events') : ~Asks(i)'
    BY <1>1, <2>1, <2>2, SendValues DEF Asks
  <2> QED BY <1>0, <2>1, <2>2, <2>3 DEF Answerable, Asking, ApprovalReachable
<1> QED BY <1>2, <1>3, <1>4, <1>5, <1>6, <1>7, <1>8, <1>9, <1>10, <1>11, <1>12, <1>13
        DEF Controller

LEMMA AskingUi == TypeOK /\ Answerable /\ UiHandle => Answerable'
<1> SUFFICES ASSUME TypeOK, Answerable, UiHandle PROVE Answerable'
  OBVIOUS
<1> USE DEF ctlVars, UiUnchanged
<1>1. ASSUME NEW t, t # "fingerprint", UiTake(t), UNCHANGED <<dialog, answer, fp, pc, reply>>
      PROVE  Answerable'
  <2>1. /\ Len(events) \in Nat \ {0} /\ Len(events') = Len(events) - 1
        /\ \A i \in 1 .. Len(events') : events'[i] = events[i + 1]
        /\ events[1].type = t
    BY <1>1, TakeValues
  <2>2. \A i \in 1 .. Len(events') : i + 1 \in 1 .. Len(events) /\ (Asks(i)' <=> Asks(i + 1))
    BY <2>1 DEF Asks
  <2>3. Asking'
    BY <1>1, <2>1, <2>2 DEF Answerable, Asking
  <2>4. ASSUME NEW i \in 1 .. Len(events), Asks(i)
        PROVE  i - 1 \in 1 .. Len(events') /\ Asks(i - 1)'
    <3>1. i # 1
      BY <1>1, <2>1, <2>4 DEF Asks
    <3>2. i - 1 \in 1 .. Len(events') /\ (i - 1) + 1 = i
      BY <2>1, <3>1
    <3> QED BY <2>2, <2>4, <3>2
  <2>5. ApprovalReachable'
    BY <1>1, <2>3, <2>4 DEF Answerable, Asking, ApprovalReachable, Asks
  <2> QED BY <2>3, <2>5 DEF Answerable
<1>2. CASE UiFingerprint
  <2>1. /\ Len(events) \in Nat \ {0} /\ Len(events') = Len(events) - 1
        /\ \A i \in 1 .. Len(events') : events'[i] = events[i + 1]
        /\ Head(events) = events[1] /\ events[1].type = "fingerprint"
    BY <1>2, TakeValues DEF UiFingerprint
  <2>2. UNCHANGED <<answer, fp, pc, reply>> /\ dialog' = events[1].key
    BY <1>2, <2>1 DEF UiFingerprint
  <2>3. /\ pc = "approval" /\ events[1].key = fp /\ answer = "none"
        /\ \A j \in 1 .. Len(events) : Asks(j) => 1 = j
    BY <2>1 DEF Answerable, Asking, Asks
  <2>4. \A i \in 1 .. Len(events') : ~Asks(i)'
    <3>1. \A i \in 1 .. Len(events') : i + 1 \in 1 .. Len(events) /\ i + 1 # 1
      BY <2>1
    <3> QED BY <2>1, <2>3, <3>1 DEF Asks
  <2>5. fp \in Keys /\ NoKey \notin Keys
    BY <2>3, Sentinels DEF Answerable, Asking
  <2>6. reply.type # "fingerprint"
    BY DEF Answerable, Asking
  <2> QED BY <2>2, <2>3, <2>4, <2>5, <2>6 DEF Answerable, Asking, ApprovalReachable
<1>3. CASE UiConnected
  BY <1>1, <1>3 DEF UiConnected
<1>4. CASE UiStatus
  BY <1>1, <1>4 DEF UiStatus
<1>5. CASE UiRemoved
  BY <1>1, <1>5 DEF UiRemoved
<1>6. CASE UiFlags
  BY <1>1, <1>6 DEF UiFlags
<1> QED BY <1>2, <1>3, <1>4, <1>5, <1>6 DEF UiHandle

LEMMA AskingUser == TypeOK /\ Answerable /\ User => Answerable'
<1> SUFFICES ASSUME TypeOK, Answerable, User PROVE Answerable'
  OBVIOUS
<1> USE DEF ctlVars, askVars, UserUnchanged
<1>1. CASE \/ \E c \in Conns : ClickConnection(c) \/ SubmitForm(c) \/ ClickTest(c) \/ ClickDelete(c)
           \/ ClickDisconnect
  BY <1>1, Unasked DEF ClickConnection, SubmitForm, ClickTest, ClickDelete, ClickDisconnect
<1>2. CASE ApproveFingerprint \/ RejectFingerprint
  <2>1. /\ dialog # NoKey /\ dialog' = NoKey /\ answer' \in {"yes", "no"}
        /\ UNCHANGED <<events, fp, pc, reply>>
    BY <1>2 DEF ApproveFingerprint, RejectFingerprint
  <2>2. pc = "approval" /\ \A i \in 1 .. Len(events) : ~Asks(i)
    BY <2>1 DEF Answerable, Asking
  <2> QED BY <2>1, <2>2 DEF Answerable, Asking, ApprovalReachable, Asks
<1> QED BY <1>1, <1>2 DEF User

LEMMA AskingStep == TypeOK /\ Answerable /\ [Next]_vars => Answerable'
<1> SUFFICES ASSUME TypeOK, Answerable, [Next]_vars PROVE Answerable'
  OBVIOUS
<1>1. CASE Restart
  <2>1. events' = <<>> /\ Len(events') = 0 /\ pc' = "idle" /\ dialog' = NoKey /\ answer' = "none"
        /\ reply' = NoReply
    BY <1>1, EmptySeq DEF Restart
  <2>2. NoReply.type # "fingerprint"
    BY DEF NoReply, Note, Ev
  <2> QED BY <2>1, <2>2 DEF Answerable, Asking, ApprovalReachable
<1>2. CASE RotateKey \/ UNCHANGED vars
  BY <1>2, Unasked DEF RotateKey, vars, ctlVars, askVars
<1> QED BY <1>1, <1>2, AskingController, AskingUi, AskingUser DEF Next

-----------------------------------------------------------------------------
(* The keys trusted.                                                       *)

LEMMA TrustingStep == TypeOK /\ Answerable /\ Trusting /\ [Next]_vars => Trusting'
<1> SUFFICES ASSUME TypeOK, Answerable, Trusting, [Next]_vars PROVE Trusting'
  OBVIOUS
<1> USE DEF diskVars, ctlVars, dbVars, connVars, viewVars, askVars, envVars, Report
<1>1. answer # "none" => pc = "approval"
  BY DEF Answerable, Asking
<1>2. ASSUME NEW c, tunnels' = [tunnels EXCEPT ![c] = NoTunnel],
             UNCHANGED <<known, approved, answer>>, pc' # "tunnel", pc # "approval"
      PROVE  Trusting'
  BY <1>1, <1>2 DEF Trusting, TunnelsApproved, NoTunnel, TypeOK
<1>3. ASSUME UNCHANGED <<known, approved, answer, fp, tunnels>>, pc' = "tunnel" => pc = "tunnel"
      PROVE  Trusting'
  BY <1>3 DEF Trusting, TunnelsApproved
<1>4. CASE HandleConnect \/ HandleTestConnection \/ AskApproval \/ Dial \/ Commit
  BY <1>3, <1>4 DEF HandleConnect, HandleTestConnection, AskApproval, Dial, Commit
<1>5. CASE Probe
  <2>1. pc' = "tunnel" => fp' \in approved
    BY <1>5, Sentinels DEF Probe, Trusting, TypeOK
  <2> QED BY <1>1, <1>5, <2>1 DEF Probe, Trusting, TunnelsApproved
<1>6. CASE Approval
  BY <1>6 DEF Approval, Trusting, TunnelsApproved
<1>7. CASE OpenTunnel
  BY <1>7 DEF OpenTunnel, KeyAccepted, Trusting, TunnelsApproved, TypeOK
<1>8. CASE Test
  BY <1>2, <1>3, <1>8 DEF Test, Drop
<1>9. CASE HandleDisconnect \/ HandleRemoveConnection
  BY <1>2, <1>9 DEF HandleDisconnect, HandleRemoveConnection, Drop, Receive
<1>10. CASE HandleConnectionFlags
  BY <1>3, <1>10 DEF HandleConnectionFlags
<1>11. CASE SendReply
  BY <1>1, <1>11 DEF SendReply, Trusting, TunnelsApproved
<1>12. CASE UiHandle
  BY <1>3, <1>12 DEF UiHandle, UiUnchanged, UiConnected, UiStatus, UiRemoved, UiFlags, UiFingerprint
<1>13. CASE \/ \E c \in Conns : ClickConnection(c) \/ SubmitForm(c) \/ ClickTest(c) \/ ClickDelete(c)
            \/ ClickDisconnect
  BY <1>3, <1>13
     DEF UserUnchanged, ClickConnection, SubmitForm, ClickTest, ClickDelete, ClickDisconnect
<1>14. CASE ApproveFingerprint
  <2>1. dialog = fp
    BY <1>14 DEF ApproveFingerprint, Answerable, Asking
  <2> QED BY <1>14, <2>1 DEF ApproveFingerprint, UserUnchanged, Trusting, TunnelsApproved
<1>15. CASE RejectFingerprint
  BY <1>15 DEF RejectFingerprint, UserUnchanged, Trusting, TunnelsApproved
<1>16. CASE Restart
  <2>1. tunnels' = NoTunnels /\ answer' = "none" /\ pc' = "idle" /\ UNCHANGED <<known, approved>>
    BY <1>16 DEF Restart
  <2> QED BY <2>1 DEF Trusting, TunnelsApproved, NoTunnels, NoTunnel
<1>17. CASE RotateKey \/ UNCHANGED vars
  BY <1>3, <1>17 DEF RotateKey, vars
<1> QED BY <1>4, <1>5, <1>6, <1>7, <1>8, <1>9, <1>10, <1>11, <1>12, <1>13, <1>14, <1>15, <1>16,
           <1>17 DEF Next, Controller, User

-----------------------------------------------------------------------------
(* The pools.                                                              *)

LEMMA PoolStep == TypeOK /\ NoOrphanPool /\ [Next]_vars => NoOrphanPool'
<1> SUFFICES ASSUME TypeOK, NoOrphanPool, [Next]_vars PROVE NoOrphanPool'
  OBVIOUS
<1> USE DEF diskVars, ctlVars, dbVars, connVars, viewVars, askVars, envVars, Report
<1>1. ASSUME UNCHANGED <<pools, saved>>, pc # "commit" PROVE NoOrphanPool'
  BY <1>1 DEF NoOrphanPool
<1>2. ASSUME UNCHANGED <<pools, saved, pc, job>> PROVE NoOrphanPool'
  BY <1>2 DEF NoOrphanPool
<1>3. ASSUME NEW c, Drop(c), saved \ {c} \subseteq saved', pc # "commit" PROVE NoOrphanPool'
  BY <1>3 DEF Drop, NoOrphanPool, NoPool, TypeOK
<1>4. CASE \/ HandleConnect \/ HandleTestConnection \/ HandleConnectionFlags
           \/ Probe \/ AskApproval \/ Approval \/ OpenTunnel \/ SendReply
  BY <1>1, <1>4 DEF HandleConnect, HandleTestConnection, HandleConnectionFlags, Receive,
     Probe, AskApproval, Approval, OpenTunnel, SendReply
<1>5. CASE Dial
  BY <1>5 DEF Dial, NoOrphanPool, TypeOK
<1>6. CASE Commit
  BY <1>6 DEF Commit, NoOrphanPool
<1>7. CASE Test
  BY <1>1, <1>3, <1>7 DEF Test
<1>8. CASE HandleDisconnect \/ HandleRemoveConnection
  BY <1>3, <1>8 DEF HandleDisconnect, HandleRemoveConnection, Receive
<1>9. CASE UiHandle
  BY <1>2, <1>9 DEF UiHandle, UiUnchanged, UiConnected, UiStatus, UiRemoved, UiFlags, UiFingerprint
<1>10. CASE User
  BY <1>2, <1>10 DEF User, UserUnchanged, ClickConnection, SubmitForm, ClickTest, ClickDelete,
     ClickDisconnect, ApproveFingerprint, RejectFingerprint
<1>11. CASE Restart
  <2>1. pools' = NoPools
    BY <1>11 DEF Restart
  <2> QED BY <2>1 DEF NoOrphanPool, NoPools, NoPool
<1>12. CASE RotateKey \/ UNCHANGED vars
  BY <1>2, <1>12 DEF RotateKey, vars
<1> QED BY <1>4, <1>5, <1>6, <1>7, <1>8, <1>9, <1>10, <1>11, <1>12 DEF Next, Controller

-----------------------------------------------------------------------------
(* The flags the UI consults: which connection it will show once it has    *)
(* taken every event, and which flags of it.                               *)

(* The event that ends a handler is already decided when it waits to be    *)
(* sent.                                                                   *)
Pending == IF pc = "reply" THEN Append(events, reply) ELSE events

Switches(e) == e.type \in {"connected", "removed"}
Flags(e, c) == e.type = "flags" /\ e.conn = c

(* A UI that holds f of c at position k holds r of it at the end. *)
FlagArrives(es, k, c, f, r) ==
    \/ f = r /\ \A j \in DOMAIN es : k < j => ~ Flags(es[j], c)
    \/ \E j \in DOMAIN es :
          /\ k < j /\ Flags(es[j], c) /\ es[j].flag = r
          /\ \A n \in DOMAIN es : j < n => ~ Flags(es[n], c)

(* A UI that shows shown with f will, if it shows c at the end, show r with it. *)
Heard(es, shown, f, c, r) ==
    \/ \E i \in DOMAIN es :
          /\ Switches(es[i]) /\ \A j \in DOMAIN es : i < j => ~ Switches(es[j])
          /\ es[i].type = "connected" /\ es[i].conn = c => FlagArrives(es, i, c, es[i].flag, r)
    \/ /\ \A i \in DOMAIN es : ~ Switches(es[i])
       /\ shown = c => FlagArrives(es, 0, c, f, r)

Hearing ==
    faults = 0 =>
        /\ \A c \in saved : rows[c].exists
        /\ Active # NoConn => Heard(Pending, uiActive, uiFlag, Active, rows[Active].flag)

LEMMA Added ==
  ASSUME NEW es \in Seq(Event), NEW e \in Event, NEW fs, fs = Append(es, e)
  PROVE  /\ Len(es) \in Nat /\ DOMAIN es = 1 .. Len(es)
         /\ DOMAIN fs = 1 .. Len(es) + 1 /\ fs[Len(es) + 1] = e
         /\ \A i \in DOMAIN es : fs[i] = es[i]
OBVIOUS

LEMMA Taken ==
  ASSUME NEW es \in Seq(Event), es # <<>>, NEW fs, fs = Tail(es)
  PROVE  /\ Len(es) \in Nat /\ DOMAIN es = 1 .. Len(es) /\ 1 \in DOMAIN es
         /\ DOMAIN fs = 1 .. Len(es) - 1 /\ Head(es) = es[1]
         /\ \A i \in DOMAIN fs : i + 1 \in DOMAIN es /\ fs[i] = es[i + 1]
         /\ \A i \in DOMAIN es : i # 1 => i - 1 \in DOMAIN fs /\ fs[i - 1] = es[i]
OBVIOUS

(* One more event: flags of c are the ones it will show, and what is not   *)
(* about the flags of c changes nothing.                                   *)
LEMMA FlagAdded ==
  ASSUME NEW es \in Seq(Event), NEW e \in Event, NEW fs, fs = Append(es, e),
         NEW k \in 0 .. Len(es), NEW c, NEW f, NEW r, NEW q, FlagArrives(es, k, c, f, r),
         \/ Flags(e, c) /\ e.flag = q
         \/ ~ Flags(e, c) /\ q = r
  PROVE  FlagArrives(fs, k, c, f, q)
<1>1. /\ Len(es) \in Nat /\ DOMAIN es = 1 .. Len(es)
      /\ DOMAIN fs = 1 .. Len(es) + 1 /\ fs[Len(es) + 1] = e
      /\ \A i \in DOMAIN es : fs[i] = es[i]
  BY Added
<1>2. CASE Flags(e, c) /\ e.flag = q
  <2>1. Len(es) + 1 \in DOMAIN fs /\ k < Len(es) + 1
        /\ \A n \in DOMAIN fs : ~ (Len(es) + 1 < n)
    BY <1>1
  <2> QED BY <1>1, <1>2, <2>1 DEF FlagArrives
<1>3. CASE ~ Flags(e, c) /\ q = r
  <2>1. CASE f = r /\ \A j \in DOMAIN es : k < j => ~ Flags(es[j], c)
    <3>1. \A j \in DOMAIN fs : k < j => ~ Flags(fs[j], c)
      BY <1>1, <1>3, <2>1
    <3> QED BY <1>3, <2>1, <3>1 DEF FlagArrives
  <2>2. ASSUME NEW j \in DOMAIN es, k < j, Flags(es[j], c), es[j].flag = r,
               \A n \in DOMAIN es : j < n => ~ Flags(es[n], c)
        PROVE  FlagArrives(fs, k, c, f, q)
    <3>1. j \in DOMAIN fs /\ fs[j] = es[j]
      BY <1>1
    <3>2. \A n \in DOMAIN fs : j < n => ~ Flags(fs[n], c)
      BY <1>1, <1>3, <2>2
    <3> QED BY <1>3, <2>2, <3>1, <3>2 DEF FlagArrives
  <2> QED BY <1>3, <2>1, <2>2 DEF FlagArrives
<1> QED BY <1>2, <1>3

(* Positions move up by one when the first event is taken.                 *)
LEMMA FlagMoved ==
  ASSUME NEW es \in Seq(Event), es # <<>>, NEW fs, fs = Tail(es),
         NEW k \in Nat \ {0}, NEW c, NEW f, NEW r, FlagArrives(es, k, c, f, r)
  PROVE  FlagArrives(fs, k - 1, c, f, r)
<1>1. /\ Len(es) \in Nat /\ DOMAIN es = 1 .. Len(es) /\ 1 \in DOMAIN es
      /\ DOMAIN fs = 1 .. Len(es) - 1 /\ Head(es) = es[1]
      /\ \A i \in DOMAIN fs : i + 1 \in DOMAIN es /\ fs[i] = es[i + 1]
      /\ \A i \in DOMAIN es : i # 1 => i - 1 \in DOMAIN fs /\ fs[i - 1] = es[i]
  BY Taken
<1>2. CASE f = r /\ \A j \in DOMAIN es : k < j => ~ Flags(es[j], c)
  <2>1. \A j \in DOMAIN fs : k - 1 < j => ~ Flags(fs[j], c)
    BY <1>1, <1>2
  <2> QED BY <1>2, <2>1 DEF FlagArrives
<1>3. ASSUME NEW j \in DOMAIN es, k < j, Flags(es[j], c), es[j].flag = r,
             \A n \in DOMAIN es : j < n => ~ Flags(es[n], c)
      PROVE  FlagArrives(fs, k - 1, c, f, r)
  <2>1. j - 1 \in DOMAIN fs /\ fs[j - 1] = es[j] /\ k - 1 < j - 1
    BY <1>1, <1>3
  <2>2. \A n \in DOMAIN fs : j - 1 < n => ~ Flags(fs[n], c)
    BY <1>1, <1>3
  <2> QED BY <1>3, <2>1, <2>2 DEF FlagArrives
<1> QED BY <1>2, <1>3 DEF FlagArrives

(* The first event is taken by a UI that holds f of c, and then g.         *)
LEMMA FlagTaken ==
  ASSUME NEW es \in Seq(Event), es # <<>>, NEW fs, fs = Tail(es),
         NEW c, NEW f, NEW g, NEW r, FlagArrives(es, 0, c, f, r),
         g = IF Flags(Head(es), c) THEN Head(es).flag ELSE f
  PROVE  FlagArrives(fs, 0, c, g, r)
<1>0. es \in Seq(Event) /\ es # <<>> /\ fs = Tail(es)
  OBVIOUS
<1>1. /\ Len(es) \in Nat /\ DOMAIN es = 1 .. Len(es) /\ 1 \in DOMAIN es
      /\ DOMAIN fs = 1 .. Len(es) - 1 /\ Head(es) = es[1]
      /\ \A i \in DOMAIN fs : i + 1 \in DOMAIN es /\ fs[i] = es[i + 1]
      /\ \A i \in DOMAIN es : i # 1 => i - 1 \in DOMAIN fs /\ fs[i - 1] = es[i]
  BY ONLY <1>0, Taken
<1>2. CASE f = r /\ \A j \in DOMAIN es : 0 < j => ~ Flags(es[j], c)
  <2>1. ~ Flags(Head(es), c)
    BY <1>1, <1>2
  <2>2. \A j \in DOMAIN fs : 0 < j => ~ Flags(fs[j], c)
    BY <1>1, <1>2
  <2> QED BY <1>2, <2>1, <2>2 DEF FlagArrives
<1>3. ASSUME NEW j \in DOMAIN es, Flags(es[j], c), es[j].flag = r,
             \A n \in DOMAIN es : j < n => ~ Flags(es[n], c)
      PROVE  FlagArrives(fs, 0, c, g, r)
  <2>1. CASE j = 1
    <3>1. g = r
      BY <1>1, <1>3, <2>1
    <3>2. \A n \in DOMAIN fs : 0 < n => ~ Flags(fs[n], c)
      BY <1>1, <1>3, <2>1
    <3> QED BY <3>1, <3>2 DEF FlagArrives
  <2>2. CASE j # 1
    <3>1. j - 1 \in DOMAIN fs /\ fs[j - 1] = es[j] /\ 0 < j - 1
      BY <1>1, <2>2
    <3>2. \A n \in DOMAIN fs : j - 1 < n => ~ Flags(fs[n], c)
      BY <1>1, <1>3
    <3> QED BY <1>3, <3>1, <3>2 DEF FlagArrives
  <2> QED BY <2>1, <2>2
<1> QED BY <1>2, <1>3 DEF FlagArrives

(* The same for what will be shown.                                        *)
LEMMA HeardSwitch ==
  ASSUME NEW es \in Seq(Event), NEW e \in Event, NEW fs, fs = Append(es, e),
         NEW v, NEW f, NEW c, NEW r, Switches(e),
         e.type = "connected" /\ e.conn = c => e.flag = r
  PROVE  Heard(fs, v, f, c, r)
<1>1. /\ Len(es) \in Nat /\ DOMAIN es = 1 .. Len(es)
      /\ DOMAIN fs = 1 .. Len(es) + 1 /\ fs[Len(es) + 1] = e
      /\ \A i \in DOMAIN es : fs[i] = es[i]
  BY Added
<1> DEFINE n == Len(es) + 1
<1>2. n \in DOMAIN fs /\ fs[n] = e /\ \A j \in DOMAIN fs : ~ (n < j)
  BY <1>1
<1> HIDE DEF n
<1>3. e.type = "connected" /\ e.conn = c => FlagArrives(fs, n, c, fs[n].flag, r)
  BY <1>2 DEF FlagArrives
<1> QED BY <1>2, <1>3 DEF Heard

LEMMA HeardMore ==
  ASSUME NEW es \in Seq(Event), NEW e \in Event, NEW fs, fs = Append(es, e),
         NEW v, NEW f, NEW c, NEW r, NEW q, ~ Switches(e), Heard(es, v, f, c, r),
         \/ Flags(e, c) /\ e.flag = q
         \/ ~ Flags(e, c) /\ q = r
  PROVE  Heard(fs, v, f, c, q)
<1>1. /\ Len(es) \in Nat /\ DOMAIN es = 1 .. Len(es)
      /\ DOMAIN fs = 1 .. Len(es) + 1 /\ fs[Len(es) + 1] = e
      /\ \A i \in DOMAIN es : fs[i] = es[i]
  BY Added
<1>2. ASSUME NEW i \in DOMAIN es, Switches(es[i]),
             \A j \in DOMAIN es : i < j => ~ Switches(es[j]),
             es[i].type = "connected" /\ es[i].conn = c => FlagArrives(es, i, c, es[i].flag, r)
      PROVE  Heard(fs, v, f, c, q)
  <2>1. i \in DOMAIN fs /\ fs[i] = es[i] /\ i \in 0 .. Len(es)
    BY <1>1
  <2>2. \A j \in DOMAIN fs : i < j => ~ Switches(fs[j])
    BY <1>1, <1>2
  <2>3. ASSUME es[i].type = "connected", es[i].conn = c
        PROVE  FlagArrives(fs, i, c, es[i].flag, q)
    BY <1>2, <2>1, <2>3, FlagAdded, ZenonT(60)
  <2> QED BY <1>2, <2>1, <2>2, <2>3 DEF Heard
<1>3. CASE /\ \A i \in DOMAIN es : ~ Switches(es[i])
           /\ v = c => FlagArrives(es, 0, c, f, r)
  <2>1. \A i \in DOMAIN fs : ~ Switches(fs[i])
    BY <1>1, <1>3
  <2>2. 0 \in 0 .. Len(es)
    BY <1>1
  <2>3. v = c => FlagArrives(fs, 0, c, f, q)
    BY <1>3, <2>2, FlagAdded
  <2> QED BY <2>1, <2>3 DEF Heard
<1> QED BY <1>2, <1>3 DEF Heard

LEMMA HeardTaken ==
  ASSUME NEW es \in Seq(Event), es # <<>>, NEW fs, fs = Tail(es),
         NEW v, NEW f, NEW w, NEW g, NEW c, NEW r, Heard(es, v, f, c, r),
         \/ Head(es).type = "connected" /\ w = Head(es).conn /\ g = Head(es).flag
         \/ Head(es).type = "removed" /\ w # c
         \/ /\ ~ Switches(Head(es)) /\ w = v
            /\ g = IF Flags(Head(es), c) THEN Head(es).flag ELSE f
  PROVE  Heard(fs, w, g, c, r)
<1>0. es \in Seq(Event) /\ es # <<>> /\ fs = Tail(es)
  OBVIOUS
<1>1. /\ Len(es) \in Nat /\ DOMAIN es = 1 .. Len(es) /\ 1 \in DOMAIN es
      /\ DOMAIN fs = 1 .. Len(es) - 1 /\ Head(es) = es[1]
      /\ \A i \in DOMAIN fs : i + 1 \in DOMAIN es /\ fs[i] = es[i + 1]
      /\ \A i \in DOMAIN es : i # 1 => i - 1 \in DOMAIN fs /\ fs[i - 1] = es[i]
  BY ONLY <1>0, Taken
<1>2. ASSUME NEW i \in DOMAIN es, Switches(es[i]),
             \A j \in DOMAIN es : i < j => ~ Switches(es[j]),
             es[i].type = "connected" /\ es[i].conn = c => FlagArrives(es, i, c, es[i].flag, r)
      PROVE  Heard(fs, w, g, c, r)
  <2>0. i \in Nat \ {0}
    BY <1>1
  <2>1. CASE i = 1
    <3>1. \A j \in DOMAIN fs : ~ Switches(fs[j])
      BY <1>1, <1>2, <2>1
    <3>2. ASSUME w = c PROVE FlagArrives(fs, 0, c, g, r)
      <4>1. Head(es).type = "connected" /\ Head(es).conn = c /\ g = Head(es).flag
        BY <1>1, <1>2, <2>1, <3>2 DEF Switches
      <4>2. FlagArrives(es, i, c, es[i].flag, r)
        BY <1>1, <1>2, <2>1, <4>1
      <4>3. FlagArrives(fs, i - 1, c, es[i].flag, r)
        BY ONLY <1>0, <2>0, <4>2, FlagMoved
      <4> QED BY <1>1, <2>1, <4>1, <4>3
    <3> QED BY <3>1, <3>2 DEF Heard
  <2>2. CASE i # 1
    <3>1. i - 1 \in DOMAIN fs /\ fs[i - 1] = es[i]
      BY <1>1, <2>2
    <3>2. \A j \in DOMAIN fs : i - 1 < j => ~ Switches(fs[j])
      BY <1>1, <1>2
    <3>3. ASSUME es[i].type = "connected", es[i].conn = c
          PROVE  FlagArrives(fs, i - 1, c, es[i].flag, r)
      <4>1. FlagArrives(es, i, c, es[i].flag, r)
        BY <1>2, <3>3
      <4> QED BY ONLY <1>0, <2>0, <4>1, FlagMoved
    <3> QED BY <1>2, <3>1, <3>2, <3>3 DEF Heard
  <2> QED BY <2>1, <2>2
<1>3. CASE /\ \A i \in DOMAIN es : ~ Switches(es[i])
           /\ v = c => FlagArrives(es, 0, c, f, r)
  <2>1. \A i \in DOMAIN fs : ~ Switches(fs[i])
    BY <1>1, <1>3
  <2>2. ~ Switches(Head(es)) /\ w = v /\ g = IF Flags(Head(es), c) THEN Head(es).flag ELSE f
    BY <1>1, <1>3 DEF Switches
  <2>3. ASSUME w = c PROVE FlagArrives(fs, 0, c, g, r)
    <3>1. FlagArrives(es, 0, c, f, r)
      BY <1>3, <2>2, <2>3
    <3> QED BY ONLY <1>0, <2>2, <3>1, FlagTaken
  <2> QED BY <2>1, <2>3 DEF Heard
<1> QED BY <1>2, <1>3 DEF Heard

LEMMA HearingValues ==
  ASSUME TypeOK
  PROVE  /\ faults \in Nat /\ events \in Seq(Event) /\ reply \in Event /\ Pending \in Seq(Event)
         /\ saved \subseteq Conns /\ NoConn \notin saved
         /\ Active # NoConn => Active \in saved /\ Active = activeId
         /\ pc # "reply" => Pending = events
         /\ pc = "reply" => Pending = Append(events, reply)
BY Sentinels DEF TypeOK, Pending, Active

LEMMA SameHeard ==
  ASSUME Hearing, UNCHANGED <<rows, saved, activeId, events, uiActive, uiFlag, pc, reply, faults>>
  PROVE  Hearing'
BY DEF Hearing, Active, Pending

LEMMA QuietHeard ==
  ASSUME TypeOK, Hearing, UNCHANGED <<rows, saved, activeId, events, uiActive, uiFlag>>,
         faults' = 0 => faults = 0, pc # "reply", pc' # "reply"
  PROVE  Hearing'
BY DEF Hearing, Active, Pending

(* A handler that neither connects nor removes has its answer ready.       *)
LEMMA ReportHeard ==
  ASSUME TypeOK, TypeOK', Hearing, UNCHANGED <<saved, activeId, events, uiActive, uiFlag>>,
         faults' = 0 => faults = 0, pc # "reply", pc' = "reply", ~ Switches(reply'),
         faults' = 0 => \A c \in saved :
            /\ rows'[c].exists <=> rows[c].exists
            /\ \/ Flags(reply', c) /\ rows'[c].flag = reply'.flag
               \/ ~ Flags(reply', c) /\ rows'[c].flag = rows[c].flag
  PROVE  Hearing'
<1> SUFFICES ASSUME faults' = 0
             PROVE  /\ \A c \in saved' : rows'[c].exists
                    /\ Active' # NoConn => Heard(Pending', uiActive', uiFlag', Active', rows'[Active'].flag)
  BY DEF Hearing
<1>1. /\ events \in Seq(Event) /\ reply' \in Event /\ Pending = events
      /\ Pending' = Append(events, reply') /\ Active' = Active
      /\ Active # NoConn => Active \in saved
  BY HearingValues DEF Active, Pending, TypeOK
<1>2. \A c \in saved' : rows'[c].exists
  BY DEF Hearing
<1>3. ASSUME Active # NoConn
      PROVE  Heard(Pending', uiActive', uiFlag', Active', rows'[Active'].flag)
  <2>1. PICK c \in saved : c = Active
    BY <1>1, <1>3
  <2>2. Heard(events, uiActive, uiFlag, c, rows[c].flag)
    BY <1>1, <1>3, <2>1 DEF Hearing
  <2>3. \/ Flags(reply', c) /\ reply'.flag = rows'[c].flag
        \/ ~ Flags(reply', c) /\ rows'[c].flag = rows[c].flag
    OBVIOUS
  <2>4. Heard(Pending', uiActive, uiFlag, c, rows'[c].flag)
    <3>1. PICK es, e, fs, v, f, r, q :
             /\ es = events /\ e = reply' /\ fs = Pending'
             /\ v = uiActive /\ f = uiFlag /\ r = rows[c].flag /\ q = rows'[c].flag
      BY <1>1
    <3>2. /\ es \in Seq(Event) /\ e \in Event /\ fs = Append(es, e)
          /\ ~ Switches(e) /\ Heard(es, v, f, c, r)
      BY <1>1, <2>2, <3>1
    <3>3. (Flags(e, c) /\ e.flag = q) \/ (~ Flags(e, c) /\ q = r)
      BY <2>3, <3>1
    <3>4. Heard(fs, v, f, c, q)
      BY ONLY <3>2, <3>3, HeardMore
    <3> QED BY ONLY <3>1, <3>4
  <2>5. Active' = c /\ uiActive' = uiActive /\ uiFlag' = uiFlag
    BY <1>1, <2>1
  <2> QED BY Zenon, <2>4, <2>5
<1> QED BY <1>1, <1>2, <1>3

LEMMA CommitHeard ==
  ASSUME TypeOK, TypeOK', Working, Hearing, Commit
  PROVE  Hearing'
<1> SUFFICES ASSUME faults' = 0
             PROVE  /\ \A c \in saved' : rows'[c].exists
                    /\ Active' # NoConn => Heard(Pending', uiActive', uiFlag', Active', rows'[Active'].flag)
  BY DEF Hearing
<1>1. PICK c \in Conns : c = job.conn
  BY DEF Working, Commit
<1>2. faults = 0 /\ ~ StorageFails
  BY HearingValues DEF Commit, StorageWorks, StorageFails, TypeOK
<1>3. PICK row : row = Touched(Upserted(c, rows[c]))
  OBVIOUS
<1>4. /\ rows' = [rows EXCEPT ![c] = row] /\ pc = "commit" /\ pc' = "reply" /\ events' = events
      /\ reply' = Ev("connected", c, [rows EXCEPT ![c] = row][c].flag, NoKey, [rows EXCEPT ![c] = row])
      /\ saved' = saved \cup {c} /\ activeId' = c
  BY <1>1, <1>2, <1>3 DEF Commit, Report
<1>5. row.exists /\ rows'[c] = row /\ \A d \in Conns : d # c => rows'[d] = rows[d]
  BY <1>3, <1>4 DEF Touched, Upserted, RowOf, TypeOK
<1>6. reply'.type = "connected" /\ reply'.flag = row.flag /\ reply' \in Event
  BY <1>4, <1>5 DEF Ev, TypeOK
<1>7. Active' = c /\ Pending' = Append(events, reply') /\ events \in Seq(Event)
  BY <1>4 DEF Active, Pending, TypeOK
<1>8. Heard(Pending', uiActive', uiFlag', c, row.flag)
  <2>1. PICK es, e, fs, v, f, r :
           /\ es = events /\ e = reply' /\ fs = Pending'
           /\ v = uiActive' /\ f = uiFlag' /\ r = row.flag
    BY <1>6, <1>7
  <2>2. /\ es \in Seq(Event) /\ e \in Event /\ fs = Append(es, e)
        /\ Switches(e) /\ e.flag = r
    BY <1>6, <1>7, <2>1 DEF Switches
  <2>3. Heard(fs, v, f, c, r)
    BY ONLY <2>2, HeardSwitch
  <2> QED BY ONLY <2>1, <2>3
<1>9. \A d \in saved' : rows'[d].exists
  BY <1>2, <1>4, <1>5 DEF Hearing, TypeOK
<1> QED BY <1>5, <1>7, <1>8, <1>9

LEMMA RemoveHeard ==
  ASSUME TypeOK, TypeOK', Working, Hearing, HandleRemoveConnection
  PROVE  Hearing'
<1> SUFFICES ASSUME faults' = 0
             PROVE  /\ \A c \in saved' : rows'[c].exists
                    /\ Active' # NoConn => Heard(Pending', uiActive', uiFlag', Active', rows'[Active'].flag)
  BY DEF Hearing
<1>1. PICK c : c = job'.conn
  OBVIOUS
<1>2. faults = 0 /\ ~ StorageFails
  BY HearingValues DEF HandleRemoveConnection, StorageWorks, StorageFails, TypeOK
<1>3. /\ rows' = [rows EXCEPT ![c] = NoRow] /\ pc' = "reply" /\ events' = events
      /\ reply' = Note("removed", c) /\ saved' = saved \ {c}
  BY <1>1, <1>2 DEF HandleRemoveConnection, Report
<1>4. \A d \in Conns : d # c => rows'[d] = rows[d]
  BY <1>3 DEF TypeOK
<1>5. reply'.type = "removed" /\ reply' \in Event
  BY <1>3 DEF Note, Ev, TypeOK
<1>6. Pending' = Append(events, reply') /\ events \in Seq(Event)
  BY <1>3 DEF Pending, TypeOK
<1>7. ASSUME NEW d, NEW r PROVE Heard(Pending', uiActive', uiFlag', d, r)
  <2>1. PICK es, e, fs, v, f :
           es = events /\ e = reply' /\ fs = Pending' /\ v = uiActive' /\ f = uiFlag'
    BY <1>5, <1>6
  <2>2. /\ es \in Seq(Event) /\ e \in Event /\ fs = Append(es, e)
        /\ Switches(e) /\ e.type # "connected"
    BY <1>5, <1>6, <2>1 DEF Switches
  <2>3. Heard(fs, v, f, d, r)
    BY ONLY <2>2, HeardSwitch
  <2> QED BY ONLY <2>1, <2>3
<1>8. \A d \in saved' : rows'[d].exists
  BY <1>2, <1>3, <1>4 DEF Hearing, TypeOK
<1> QED BY <1>7, <1>8

LEMMA FlagsHeard ==
  ASSUME TypeOK, TypeOK', Hearing, HandleConnectionFlags
  PROVE  Hearing'
<1>1. PICK c, f : c = job'.conn /\ f = job'.flag
  OBVIOUS
<1>2. /\ UNCHANGED <<saved, activeId, events, uiActive, uiFlag>> /\ pc = "idle" /\ pc' = "reply"
      /\ reply' = Ev("flags", c, f, NoKey, NoRows)
      /\ (StorageWorks /\ rows' = WithFlag(rows, c, f)) \/ StorageFails
  BY <1>1 DEF HandleConnectionFlags, Receive, Report, connVars, viewVars, UpdateFlags
<1>3. (faults' = 0 => faults = 0) /\ (faults' = 0 => rows' = WithFlag(rows, c, f))
  BY <1>2, HearingValues DEF StorageWorks, StorageFails
<1>4. reply'.type = "flags" /\ reply'.conn = c /\ reply'.flag = f
  BY <1>2 DEF Ev
<1>5. ASSUME faults' = 0, NEW d \in saved
      PROVE  /\ rows'[d].exists <=> rows[d].exists
             /\ \/ Flags(reply', d) /\ rows'[d].flag = reply'.flag
                \/ ~ Flags(reply', d) /\ rows'[d].flag = rows[d].flag
  <2>1. d \in Conns /\ rows[d].exists
    BY <1>3, <1>5 DEF Hearing, TypeOK
  <2>2. rows'[d] = IF d = c THEN RowOf(TRUE, f, rows[d].used, rows[d].target) ELSE rows[d]
    BY <1>3, <1>5, <2>1 DEF WithFlag
  <2>3. CASE d = c
    <3>1. rows'[d].exists /\ rows'[d].flag = f
      BY <2>2, <2>3 DEF RowOf
    <3> QED BY <1>4, <2>1, <2>3, <3>1 DEF Flags
  <2>4. CASE d # c
    BY <1>4, <2>2, <2>4 DEF Flags
  <2> QED BY <2>3, <2>4
<1> QED BY <1>2, <1>3, <1>4, <1>5, ReportHeard DEF Switches

(* The UI takes one event.                                                 *)
LEMMA UiHeard ==
  ASSUME TypeOK, TypeOK', Hearing, UiHandle
  PROVE  Hearing'
<1> SUFFICES ASSUME faults' = 0
             PROVE  /\ \A c \in saved' : rows'[c].exists
                    /\ Active' # NoConn => Heard(Pending', uiActive', uiFlag', Active', rows'[Active'].flag)
  BY DEF Hearing
<1>1. /\ UNCHANGED <<rows, saved, activeId, pc, reply, faults>>
      /\ events # <<>> /\ events' = Tail(events) /\ events \in Seq(Event)
  BY DEF UiHandle, UiConnected, UiStatus, UiRemoved, UiFlags, UiFingerprint, UiTake, UiUnchanged,
     diskVars, ctlVars, connVars, TypeOK
<1>2. /\ Pending \in Seq(Event) /\ Pending # <<>> /\ Pending' = Tail(Pending)
      /\ Head(Pending) = Head(events) /\ Active' = Active
  <2>1. \A e \in Event : /\ Append(events, e) # <<>>
                         /\ Tail(Append(events, e)) = Append(Tail(events), e)
                         /\ Head(Append(events, e)) = Head(events)
    BY <1>1
  <2> QED BY <1>1, <2>1, HearingValues DEF Pending, Active
<1>3. \A c \in saved' : rows'[c].exists
  BY <1>1 DEF Hearing
<1>4. ASSUME Active # NoConn
      PROVE  Heard(Pending', uiActive', uiFlag', Active', rows'[Active'].flag)
  <2>1. PICK c \in Conns : c = Active /\ c # NoConn
    BY <1>4, HearingValues
  <2>2. Heard(Pending, uiActive, uiFlag, c, rows[c].flag)
    BY <1>1, <1>4, <2>1 DEF Hearing
  <2>3. PICK e : e = Head(Pending)
    OBVIOUS
  <2>4. \/ e.type = "connected" /\ uiActive' = e.conn /\ uiFlag' = e.flag
        \/ e.type = "removed" /\ uiActive' # c
        \/ /\ ~ Switches(e) /\ uiActive' = uiActive
           /\ uiFlag' = IF Flags(e, c) THEN e.flag ELSE uiFlag
    <3>1. CASE UiConnected
      BY <1>2, <2>3, <3>1 DEF UiConnected, UiTake
    <3>2. CASE UiRemoved
      BY <1>2, <2>1, <2>3, <3>2 DEF UiRemoved, UiTake
    <3>3. CASE UiFlags
      BY <1>2, <2>1, <2>3, <3>3 DEF UiFlags, UiTake, Switches, Flags, Concerns
    <3>4. CASE UiStatus \/ UiFingerprint
      BY <1>2, <2>3, <3>4 DEF UiStatus, UiFingerprint, UiTake, Switches, Flags, viewVars
    <3> QED BY <3>1, <3>2, <3>3, <3>4 DEF UiHandle
  <2>5. Heard(Pending', uiActive', uiFlag', c, rows[c].flag)
    <3>1. PICK es, fs, v, f, w, g, r :
             /\ es = Pending /\ fs = Pending' /\ v = uiActive /\ f = uiFlag
             /\ w = uiActive' /\ g = uiFlag' /\ r = rows[c].flag
      BY <1>2
    <3>2. /\ es \in Seq(Event) /\ es # <<>> /\ fs = Tail(es)
          /\ Heard(es, v, f, c, r)
      BY <1>2, <2>2, <3>1
    <3>3. \/ Head(es).type = "connected" /\ w = Head(es).conn /\ g = Head(es).flag
          \/ Head(es).type = "removed" /\ w # c
          \/ /\ ~ Switches(Head(es)) /\ w = v
             /\ g = IF Flags(Head(es), c) THEN Head(es).flag ELSE f
      BY <2>3, <2>4, <3>1
    <3>4. Heard(fs, w, g, c, r)
      BY ONLY <3>2, <3>3, HeardTaken
    <3> QED BY ONLY <3>1, <3>4
  <2>6. Active' = c /\ rows' = rows
    BY <1>1, <1>2, <2>1
  <2> QED BY Zenon, <2>5, <2>6
<1> QED BY <1>2, <1>3, <1>4

LEMMA HearsAtInit == Init => Hearing
<1> SUFFICES ASSUME Init PROVE Hearing
  OBVIOUS
<1>1. saved = {} /\ activeId = NoConn
  BY Zenon DEF Init
<1> QED BY <1>1 DEF Hearing, Active

LEMMA HearingStep ==
  ASSUME TypeOK, TypeOK', Working, Hearing, [Next]_vars
  PROVE  Hearing'
<1> USE DEF diskVars, ctlVars, dbVars, connVars, viewVars, askVars, envVars
<1>1. CASE HandleConnect \/ HandleTestConnection \/ Approval
  <2>1. /\ UNCHANGED <<rows, saved, activeId, events, uiActive, uiFlag>>
        /\ pc # "reply" /\ pc' # "reply" /\ (faults' = faults \/ StorageFails)
    BY <1>1 DEF HandleConnect, HandleTestConnection, Approval, Receive, StorageWorks
  <2> QED BY <2>1, QuietHeard, HearingValues DEF StorageFails
<1>2. CASE Probe \/ OpenTunnel \/ Dial \/ Test \/ HandleDisconnect
  <2>1. /\ UNCHANGED <<rows, saved, activeId, events, uiActive, uiFlag, faults>> /\ pc # "reply"
        /\ \/ pc' # "reply"
           \/ pc' = "reply" /\ \E c : reply' = Note("connectError", c) \/ reply' = Note("tested", c)
                                     \/ reply' = Note("disconnected", c)
    BY <1>2 DEF Probe, OpenTunnel, Dial, Test, HandleDisconnect, Receive, Report
  <2>2. CASE pc' # "reply"
    BY <2>1, <2>2, QuietHeard
  <2>3. CASE pc' = "reply"
    <3>1. reply'.type \in {"connectError", "tested", "disconnected"}
      BY <2>1, <2>3 DEF Note, Ev
    <3>2. ~ Switches(reply') /\ \A c : ~ Flags(reply', c)
      BY <3>1 DEF Switches, Flags
    <3> QED BY <2>1, <2>3, <3>2, ReportHeard
  <2> QED BY <2>2, <2>3
<1>3. CASE AskApproval
  <2>1. PICK e : e = Ev("fingerprint", NoConn, FALSE, fp, NoRows)
    OBVIOUS
  <2>2. /\ UNCHANGED <<rows, saved, activeId, uiActive, uiFlag, faults>>
        /\ pc = "ask" /\ pc' = "approval" /\ events' = Append(events, e) /\ Len(events) < EventCap
    BY <1>3, <2>1 DEF AskApproval, Send
  <2>3. events \in Seq(Event) /\ events' \in Seq(Event)
    BY DEF TypeOK
  <2>4. e \in Event
    <3>1. Len(events) + 1 \in DOMAIN events' /\ events'[Len(events) + 1] = e
      BY <2>2, <2>3
    <3> QED BY <2>3, <3>1
  <2>5. ~ Switches(e) /\ \A c : ~ Flags(e, c)
    BY <2>1 DEF Ev, Switches, Flags
  <2>6. \A c, r : Heard(events, uiActive, uiFlag, c, r) => Heard(events', uiActive, uiFlag, c, r)
    BY <2>2, <2>3, <2>4, <2>5, HeardMore
  <2> QED BY <2>2, <2>6 DEF Hearing, Pending, Active
<1>4. CASE SendReply
  <2>1. /\ UNCHANGED <<rows, saved, activeId, uiActive, uiFlag, faults>>
        /\ pc = "reply" /\ pc' = "idle" /\ events' = Append(events, reply)
    BY <1>4 DEF SendReply, Send
  <2> QED BY <2>1 DEF Hearing, Pending, Active
<1>5. CASE User
  <2>1. CASE ClickDisconnect
    <3>1. UNCHANGED <<rows, saved, faults>> /\ Active' = NoConn
      BY <2>1 DEF ClickDisconnect, UserUnchanged, Active
    <3> QED BY <3>1 DEF Hearing
  <2>2. CASE ~ ClickDisconnect
    BY <1>5, <2>2, SameHeard DEF User, UserUnchanged, ClickConnection, SubmitForm, ClickTest,
       ClickDelete, ApproveFingerprint, RejectFingerprint
  <2> QED BY <2>1, <2>2
<1>6. CASE Restart
  <2>1. saved' = {} /\ activeId' = NoConn
    BY <1>6 DEF Restart
  <2> QED BY <2>1 DEF Hearing, Active
<1>7. CASE RotateKey \/ UNCHANGED vars
  BY <1>7, SameHeard DEF RotateKey, vars
<1> QED BY <1>1, <1>2, <1>3, <1>4, <1>5, <1>6, <1>7, CommitHeard, RemoveHeard, FlagsHeard, UiHeard
       DEF Next, Controller

-----------------------------------------------------------------------------
(* Theorems.                                                               *)

(* What the model calls its state is one: of every connection, command,    *)
(* row, tunnel and event, and the channel never holds more than it may.    *)
THEOREM TypeCorrect == Spec => []TypeOK
<1>1. Init => TypeOK /\ Working
  BY InitTypes
<1>2. TypeOK /\ Working /\ [Next]_vars => (TypeOK /\ Working)'
  BY TypeStep
<1> QED BY <1>1, <1>2, PTL DEF Spec

(* IInv is inductive: it holds at the start, and no step of the            *)
(* controller, the UI, the user or the surroundings breaks it.             *)
THEOREM Inductive == Spec => []IInv
<1>1. Init => IInv
  <2> SUFFICES ASSUME Init PROVE IInv
    OBVIOUS
  <2>1. /\ pc = "idle" /\ answer = "none" /\ dialog = NoKey /\ events = <<>> /\ reply = NoReply
        /\ tunnels = NoTunnels /\ pools = NoPools /\ approved = {known} \ {NoKey}
    BY Zenon DEF Init
  <2>2. Len(events) = 0 /\ NoReply.type # "fingerprint"
    BY <2>1, EmptySeq DEF NoReply, Note, Ev
  <2>3. Asking /\ ApprovalReachable
    BY <2>1, <2>2 DEF Asking, ApprovalReachable
  <2>4. Trusting
    BY <2>1 DEF Trusting, TunnelsApproved, NoTunnels, NoTunnel
  <2>5. NoOrphanPool
    BY <2>1 DEF NoOrphanPool, NoPools, NoPool
  <2> QED BY <2>3, <2>4, <2>5, InitTypes DEF IInv
<1>2. IInv /\ [Next]_vars => IInv'
  BY TypeStep, AskingStep, TrustingStep, PoolStep DEF IInv, Answerable
<1> QED BY <1>1, <1>2, PTL DEF Spec

(* A tunnel is only ever open to a server whose key the user approved, for *)
(* all that may happen between the probe, the answer and the connection.   *)
THEOREM OnlyApprovedHosts == Spec => []TunnelsApproved
<1>1. IInv => TunnelsApproved
  BY DEF IInv, Trusting
<1> QED BY <1>1, Inductive, PTL

(* The controller never waits for an answer that nobody can give.          *)
THEOREM ApprovalAnswerable == Spec => []ApprovalReachable
<1>1. IInv => ApprovalReachable
  BY DEF IInv
<1> QED BY <1>1, Inductive, PTL

(* No pool is left to a connection that is not known, so that nothing      *)
(* could ever drop it.                                                     *)
THEOREM NoStrayPool == Spec => []NoOrphanPool
<1>1. IInv => NoOrphanPool
  BY DEF IInv
<1> QED BY <1>1, Inductive, PTL

(* The flags the UI consults before it runs a statement are those of the   *)
(* row, in whatever order connects, removals, new flags and clicks came.   *)
THEOREM FlagsReachUi == Spec => []UiFlagFresh
<1>1. Init => Hearing
  BY HearsAtInit
<1>2. IInv /\ IInv' /\ Hearing /\ [Next]_vars => Hearing'
  BY HearingStep DEF IInv
<1>3. IInv /\ Hearing => UiFlagFresh
  <2> SUFFICES ASSUME Hearing, events = <<>>, pc = "idle", uiActive = Active, Active # NoConn, faults = 0
               PROVE  uiFlag = rows[Active].flag
    BY DEF UiFlagFresh
  <2>1. Heard(events, uiActive, uiFlag, Active, rows[Active].flag)
    BY DEF Hearing, Pending
  <2>2. DOMAIN events = {}
    OBVIOUS
  <2>3. FlagArrives(events, 0, Active, uiFlag, rows[Active].flag)
    BY <2>1, <2>2 DEF Heard
  <2> QED BY <2>2, <2>3 DEF FlagArrives
<1> QED BY <1>1, <1>2, <1>3, Inductive, PTL DEF Spec

(* Connecting again leaves the safety flags of a saved connection as the   *)
(* user set them.                                                          *)
THEOREM FlagsKept == Spec => FlagsSurviveReconnect
<1> DEFINE Kept == \A c \in Conns : rows[c].exists /\ rows'[c].exists /\ rows'[c].flag # rows[c].flag
                      => job'.kind = "flags" /\ job'.conn = c
<1>1. TypeOK /\ [Next]_vars => [Kept]_vars
  <2> SUFFICES ASSUME TypeOK, [Next]_vars PROVE Kept
    OBVIOUS
  <2> USE DEF diskVars
  <2>1. ASSUME rows' = rows PROVE Kept
    BY <2>1
  <2>2. CASE Commit
    <3> DEFINE c == job.conn
               new == Upserted(c, rows[c])
    <3>1. /\ new.flag = rows[c].flag /\ Touched(new).flag = rows[c].flag
          /\ Touched(rows[c]).flag = rows[c].flag
      BY DEF Upserted, Touched, RowOf
    <3>2. \E row : row.flag = rows[c].flag /\ rows' = [rows EXCEPT ![c] = row]
      <4> HIDE DEF c, new
      <4>1. \E row \in {new, Touched(new), Touched(rows[c])} : rows' = [rows EXCEPT ![c] = row]
        BY <2>2 DEF Commit, c, new
      <4> QED BY <3>1, <4>1
    <3> QED BY <3>2 DEF TypeOK
  <2>3. CASE HandleRemoveConnection
    <3>1. rows' = rows \/ rows' = [rows EXCEPT ![job'.conn] = NoRow]
      BY <2>3 DEF HandleRemoveConnection
    <3> QED BY <3>1 DEF NoRow, RowOf, TypeOK
  <2>4. CASE HandleConnectionFlags
    <3>1. Receive("flags") /\ (rows' = rows \/ rows' = WithFlag(rows, job'.conn, job'.flag))
      BY <2>4 DEF HandleConnectionFlags, UpdateFlags
    <3> QED BY <3>1 DEF Receive, WithFlag, TypeOK
  <2>5. CASE \/ HandleConnect \/ Probe \/ AskApproval \/ Approval \/ OpenTunnel \/ Dial
             \/ HandleTestConnection \/ Test \/ HandleDisconnect \/ SendReply
    BY <2>1, <2>5 DEF HandleConnect, Probe, AskApproval, Approval, OpenTunnel, Dial,
       HandleTestConnection, Test, HandleDisconnect, SendReply
  <2>6. CASE UiHandle
    BY <2>1, <2>6
       DEF UiHandle, UiUnchanged, UiConnected, UiStatus, UiRemoved, UiFlags, UiFingerprint
  <2>7. CASE User
    BY <2>1, <2>7 DEF User, UserUnchanged, ClickConnection, SubmitForm, ClickTest, ClickDelete,
       ClickDisconnect, ApproveFingerprint, RejectFingerprint
  <2>8. CASE Restart \/ RotateKey \/ UNCHANGED vars
    BY <2>1, <2>8 DEF Restart, RotateKey, vars
  <2> QED BY <2>2, <2>3, <2>4, <2>5, <2>6, <2>7, <2>8 DEF Next, Controller
<1> QED BY <1>1, TypeCorrect, PTL DEF Spec, FlagsSurviveReconnect
=============================================================================
