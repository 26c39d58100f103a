--------------------------- MODULE RunTextProofs ----------------------------
(***************************************************************************)
(* What is proved of a text that runs: how it passes the gate (module      *)
(* RunGate), and how the scans of SQL read it (module SqlText), of which   *)
(* two must find the same, whatever is typed.                              *)
(***************************************************************************)
EXTENDS RunGate, SqlText, ListFacts

(***************************************************************************)
(* The run gate, for any connections, texts and sizes                      *)
(*                                                                         *)
(* A text passes many hands on its way to the database: commands, the job, *)
(* the last SQL, the event channel, the slot of the dialog.  The inductive *)
(* invariant says of each of them what the properties say of the end.      *)
(***************************************************************************)

(* A dangerous text has been let through.                                  *)
Let(t) == has_dangerous_dml(t) => t \in consent

(* Every text on its way, but for the one the user is asked about.         *)
Consented ==
    /\ \A x \in ran : Let(x.sql)
    /\ \A c \in inbox : c.kind \in RunKinds => Let(c.sql)
    /\ pc # "idle" => Let(job.sql)
    /\ lastSql # NoText => Let(lastSql)
    /\ \A i \in DOMAIN events : events[i].type = "params" => Let(events[i].sql)
    /\ slot # NoText => Let(slot)

(* The controller handles no command that changes the flag between its     *)
(* check and the launch.                                                   *)
Checked ==
    /\ ReadOnlyRespected
    /\ pc = "launch" /\ faults = 0 /\ is_write_statement(job.sql) => ~ rows[job.conn].ro

(* The one page command on its way, if no other choice overtook it.        *)
PageAgrees ==
    ~ overtaken => /\ statePage = uiPage
                   /\ \A c \in inbox : c.kind = "page" => c.size = uiPage

AtWork == pc # "idle" => job \in [kind : RunKinds, sql : Texts, conn : Conns]

IInv == TypeOK /\ AtWork /\ Consented /\ Checked /\ ParamsReachable /\ PageAgrees

-----------------------------------------------------------------------------

LEMMA AppendType == ASSUME NEW S, NEW s \in Seq(S), NEW e \in S PROVE Append(s, e) \in Seq(S)
OBVIOUS

LEMMA TailType == ASSUME NEW S, NEW s \in Seq(S), s # <<>> PROVE Tail(s) \in Seq(S)
OBVIOUS

LEMMA HeadType == ASSUME NEW S, NEW s \in Seq(S), s # <<>> PROVE Head(s) \in S
OBVIOUS

(* The messages are what the sets of messages say they are.                *)
LEMMA Messages ==
    /\ \A k \in RunKinds, t \in Texts : Run(k, t) \in Commands
    /\ \A n \in Sizes : Page(n) \in Commands
    /\ \A c \in Conns : Connect(c) \in Commands
    /\ \A c \in Conns, s, r \in BOOLEAN : Flags(c, s, r) \in Commands
    /\ \A t \in Texts : ParamEvent(t) \in Events
    /\ \A c \in Conns, s \in BOOLEAN : SafeEvent(c, s) \in Events
    /\ \A s \in BOOLEAN : UpEvent(s) \in Events
BY DEF Run, Page, Connect, Flags, ParamEvent, SafeEvent, UpEvent, Commands, Runs, Events

LEMMA Kinds ==
    ASSUME NEW c \in Commands
    PROVE  /\ c.kind \in RunKinds => c.sql \in Texts
           /\ c.kind = "page" => c.size \in Sizes
           /\ c.kind = "connect" => c.conn \in Conns
           /\ c.kind = "flags" => c.conn \in Conns /\ c.safe \in BOOLEAN /\ c.ro \in BOOLEAN
BY DEF Commands, Runs, RunKinds

LEMMA EventKinds ==
    ASSUME NEW e \in Events
    PROVE  /\ e.type \in {"params", "flags", "connected"}
           /\ e.type = "params" => e.sql \in Texts
           /\ e.type = "flags" => e.conn \in Conns /\ e.safe \in BOOLEAN
           /\ e.type = "connected" => e.safe \in BOOLEAN
BY DEF Events

LEMMA ClosureKinds ==
    ASSUME NEW c \in Closures
    PROVE  /\ c.type \in {"params", "safe"}
           /\ c.type = "params" => c.sql \in Texts
           /\ c.type = "safe" => c.safe \in BOOLEAN
BY DEF Closures

LEMMA InitInv == Init => IInv
<1> SUFFICES ASSUME Init PROVE IInv
    OBVIOUS
<1>1. /\ active = NoConn /\ lastSql = NoText
      /\ inbox = {} /\ pc = "idle" /\ job = Idle /\ events = <<>> /\ closures = <<>>
      /\ uiSafe = TRUE /\ pending = NoPending /\ askingAll = FALSE
      /\ slot = NoText /\ dialog = NoText /\ allValid = TRUE
      /\ ran = {} /\ consent = {} /\ overtaken = FALSE /\ faults = 0 /\ sent = 0
  BY Zenon DEF Init
<1>2. /\ rows \in [Conns -> [safe : BOOLEAN, ro : BOOLEAN]]
      /\ filePage \in Sizes /\ statePage = filePage /\ uiPage = filePage
  BY Zenon DEF Init
<1>3. NoPending \in Asked /\ Idle \in Jobs
  BY DEF NoPending, Asked, Idle, Jobs
<1>4. events \in Seq(Events) /\ closures \in Seq(Closures)
  BY <1>1
<1>5. sent \in 0 .. MaxCommands
  BY <1>1, MaxCommandsNat
<1>6. TypeOK
  BY <1>1, <1>2, <1>3, <1>4, <1>5 DEF TypeOK
<1>7. Consented /\ AtWork
  BY <1>1 DEF Consented, AtWork
<1>8. Checked /\ ParamsReachable /\ PageAgrees
  BY <1>1, <1>2 DEF Checked, ReadOnlyRespected, ParamsReachable, PageAgrees
<1> QED
  BY <1>6, <1>7, <1>8 DEF IInv

-----------------------------------------------------------------------------
(* Type correctness, action by action.                                     *)

LEMMA TypeHandle ==
    ASSUME TypeOK, NEW c \in inbox,
           HandleRun(c) \/ HandlePageSize(c) \/ HandleFlags(c) \/ HandleConnect(c)
    PROVE  TypeOK'
<1>0. c \in Commands /\ inbox' \subseteq Commands
  BY DEF TypeOK, HandleRun, HandlePageSize, HandleFlags, HandleConnect, Receive
<1>1. CASE HandleRun(c)
  <2>1. c.kind \in RunKinds /\ c.sql \in Texts
    BY <1>0, <1>1, Kinds DEF HandleRun
  <2>2. CASE active = NoConn
    BY <1>0, <1>1, <2>2 DEF TypeOK, HandleRun, diskVars, uiVars, auxVars
  <2>3. CASE active # NoConn
    <3>1. active \in Conns
      BY <2>3 DEF TypeOK
    <3>2. pc' = "check" /\ job' = [kind |-> c.kind, sql |-> c.sql, conn |-> active]
      BY <1>1, <2>3 DEF HandleRun
    <3>3. job' \in Jobs
      BY <2>1, <3>1, <3>2 DEF Jobs
    <3> QED
      BY <1>0, <1>1, <3>2, <3>3 DEF TypeOK, HandleRun, diskVars, uiVars, auxVars
  <2> QED
    BY <2>2, <2>3
<1>2. CASE HandlePageSize(c)
  <2>1. c.size \in Sizes
    BY <1>0, <1>2, Kinds DEF HandlePageSize
  <2> QED
    BY <1>0, <1>2, <2>1 DEF TypeOK, HandlePageSize, ctlVars, uiVars, auxVars
<1>3. CASE HandleFlags(c)
  <2>1. c.conn \in Conns /\ c.safe \in BOOLEAN /\ c.ro \in BOOLEAN
    BY <1>0, <1>3, Kinds DEF HandleFlags
  <2>2. events' \in Seq(Events)
    BY <1>3, <2>1, Messages, AppendType DEF TypeOK, HandleFlags
  <2>3. rows' \in [Conns -> [safe : BOOLEAN, ro : BOOLEAN]]
    BY <1>3, <2>1 DEF TypeOK, HandleFlags
  <2> QED
    BY <1>0, <1>3, <2>2, <2>3 DEF TypeOK, HandleFlags, ctlVars, uiVars, auxVars
<1>4. CASE HandleConnect(c)
  <2>1. c.conn \in Conns
    BY <1>0, <1>4, Kinds DEF HandleConnect
  <2>2. rows[c.conn].safe \in BOOLEAN
    BY <2>1 DEF TypeOK
  <2>3. events' \in Seq(Events)
    BY <1>4, <2>2, Messages, AppendType DEF TypeOK, HandleConnect
  <2> QED
    BY <1>0, <1>4, <2>1, <2>3 DEF TypeOK, HandleConnect, diskVars, uiVars, auxVars
<1> QED
  BY <1>1, <1>2, <1>3, <1>4

LEMMA TypeWork ==
    ASSUME TypeOK, AtWork, CheckReadOnly \/ Launch
    PROVE  TypeOK'
<1>0. Idle \in Jobs
  BY DEF Jobs
<1>1. CASE CheckReadOnly
  <2>1. job \in [kind : RunKinds, sql : Texts, conn : Conns] /\ job.sql \in Texts
    BY <1>1 DEF AtWork, CheckReadOnly
  <2>2. faults' \in Nat
    BY <1>1 DEF TypeOK, CheckReadOnly
  <2>3. lastSql' \in Texts \cup {NoText}
    BY <1>1, <2>1 DEF TypeOK, CheckReadOnly
  <2>4. events' \in Seq(Events)
    <3>1. events' = events \/ events' = Append(events, ParamEvent(job.sql))
      BY <1>1 DEF CheckReadOnly
    <3> QED
      BY <2>1, <3>1, Messages, AppendType, SMTT(30) DEF TypeOK
  <2>5. job' \in Jobs /\ pc' \in {"idle", "check", "launch"}
    BY <1>0, <1>1 DEF TypeOK, CheckReadOnly, EndJob
  <2> QED
    BY <1>1, <2>2, <2>3, <2>4, <2>5
       DEF TypeOK, CheckReadOnly, CheckUnchanged, uiVars, auxVars
<1>2. CASE Launch
  <2>1. job \in [kind : RunKinds, sql : Texts, conn : Conns]
    BY <1>2 DEF AtWork, Launch
  <2>2. rows[job.conn].ro \in BOOLEAN
    BY <2>1 DEF TypeOK
  <2>3. ran' \subseteq Launched
    BY <1>2, <2>1, <2>2 DEF TypeOK, Launch, Launched
  <2> QED
    BY <1>0, <1>2, <2>3 DEF TypeOK, Launch, EndJob, diskVars, uiVars, auxVars
<1> QED
  BY <1>1, <1>2

LEMMA TypeDispatch == ASSUME TypeOK, Dispatch PROVE TypeOK'
<1>1. events # <<>> /\ events' = Tail(events) /\ DispatchUnchanged
  BY DEF Dispatch
<1>2. Head(events) \in Events /\ events' \in Seq(Events)
  BY <1>1, HeadType, TailType DEF TypeOK
<1>3. slot' \in Texts \cup {NoText} /\ closures' \in Seq(Closures)
  <2>1. CASE Head(events).type = "params" /\ slot' = Head(events).sql
             /\ closures' = Append(closures, [type |-> "params", sql |-> Head(events).sql])
    <3>1. Head(events).sql \in Texts
      BY <1>2, <2>1, EventKinds
    <3>2. [type |-> "params", sql |-> Head(events).sql] \in Closures
      BY <3>1 DEF Closures
    <3> QED
      BY <2>1, <3>1, <3>2, AppendType DEF TypeOK
  <2>2. CASE (Head(events).type = "connected" \/ Head(events).type = "flags")
             /\ closures' = Append(closures, [type |-> "safe", safe |-> Head(events).safe])
             /\ slot' = slot
    <3>1. Head(events).safe \in BOOLEAN
      BY <1>2, <2>2, EventKinds
    <3>2. [type |-> "safe", safe |-> Head(events).safe] \in Closures
      BY <3>1 DEF Closures
    <3> QED
      BY <2>2, <3>2, AppendType DEF TypeOK
  <2>3. CASE closures' = closures /\ slot' = slot
    BY <2>3 DEF TypeOK
  <2> QED
    BY <2>1, <2>2, <2>3 DEF Dispatch
<1> QED
  BY <1>1, <1>2, <1>3 DEF TypeOK, DispatchUnchanged, diskVars, ctlVars, uiVars, auxVars

LEMMA TypeClosure == ASSUME TypeOK, RunClosure PROVE TypeOK'
<1>1. closures # <<>> /\ closures' = Tail(closures)
  BY DEF RunClosure
<1>2. Head(closures) \in Closures /\ closures' \in Seq(Closures)
  BY <1>1, HeadType, TailType DEF TypeOK
<1>3. /\ dialog' \in Texts \cup {NoText}
      /\ uiSafe' \in BOOLEAN
      /\ allValid' \in BOOLEAN
  BY <1>2, ClosureKinds DEF TypeOK, RunClosure
<1> QED
  BY <1>1, <1>2, <1>3 DEF TypeOK, RunClosure, diskVars, ctlVars, auxVars

LEMMA SendsType ==
    ASSUME TypeOK, NEW cmds, cmds \subseteq Commands, IsFiniteSet(cmds), Sends(cmds)
    PROVE  inbox' \subseteq Commands /\ sent' \in 0 .. MaxCommands
<1>1. Cardinality(cmds) \in Nat
  BY FS_CardinalityType
<1>2. sent + Cardinality(cmds) \in Nat
  BY <1>1 DEF TypeOK
<1> QED
  BY <1>2, MaxCommandsNat DEF TypeOK, Sends

LEMMA SendsOne ==
    ASSUME TypeOK, NEW c \in Commands, Sends({c})
    PROVE  inbox' \subseteq Commands /\ sent' \in 0 .. MaxCommands
<1>1. IsFiniteSet({c}) /\ {c} \subseteq Commands
  BY FS_Singleton
<1> QED
  BY <1>1, SendsType

LEMMA RerunType == TypeOK => Rerun \subseteq Commands /\ IsFiniteSet(Rerun)
<1> SUFFICES ASSUME TypeOK PROVE Rerun \subseteq Commands /\ IsFiniteSet(Rerun)
    OBVIOUS
<1>1. CASE lastSql = NoText
  BY <1>1, FS_EmptySet DEF Rerun
<1>2. CASE lastSql # NoText
  <2>1. Rerun = {Run("query", lastSql)} /\ lastSql \in Texts
    BY <1>2 DEF Rerun, TypeOK
  <2>2. Run("query", lastSql) \in Commands
    BY <2>1, Messages DEF RunKinds
  <2> QED
    BY <2>1, <2>2, FS_Singleton
<1> QED
  BY <1>1, <1>2

LEMMA TypeSubmit ==
    ASSUME TypeOK, NEW t \in Texts, NEW k \in {"query", "cursor", "all"}, Submit(k, t)
    PROVE  TypeOK'
<1>1. CommandOf(k, t) \in Commands
  BY Messages DEF CommandOf, RunKinds
<1>2. CASE check_safe_dml(t)
  <2>1. pending' \in Asked
    BY <1>2 DEF Submit, Asked
  <2> QED
    BY <1>2, <2>1 DEF TypeOK, Submit, UserUnchanged, diskVars
<1>3. CASE ~ check_safe_dml(t)
  <2>1. Sends({CommandOf(k, t)})
    BY <1>3 DEF Submit
  <2>2. inbox' \subseteq Commands /\ sent' \in 0 .. MaxCommands
    BY <1>1, <2>1, SendsOne
  <2>3. consent' \subseteq Texts
    BY <1>3 DEF TypeOK, Submit
  <2> QED
    BY <1>3, <2>2, <2>3 DEF TypeOK, Submit, UserUnchanged, diskVars
<1> QED
  BY <1>2, <1>3

LEMMA TypeConfirm ==
    ASSUME TypeOK, ConfirmSafeDml \/ DismissSafeDml
    PROVE  TypeOK'
<1>1. pending.sql \in Texts \cup {NoText} /\ pending.kind \in {"query", "cursor", "all"}
  BY DEF TypeOK, Asked
<1>2. pending.sql \in Texts
  BY <1>1 DEF ConfirmSafeDml, DismissSafeDml
<1>3. pending' \in Asked
  <2>1. pending' = [pending EXCEPT !.sql = NoText]
    BY DEF ConfirmSafeDml, DismissSafeDml
  <2> QED
    BY <2>1 DEF TypeOK, Asked
<1>4. CASE ConfirmSafeDml
  <2>1. CommandOf(pending.kind, pending.sql) \in Commands
    BY <1>2, Messages DEF CommandOf, RunKinds
  <2>2. inbox' \subseteq Commands /\ sent' \in 0 .. MaxCommands
    BY <1>4, <2>1, SendsOne DEF ConfirmSafeDml
  <2>3. consent' \subseteq Texts
    BY <1>2, <1>4 DEF TypeOK, ConfirmSafeDml
  <2> QED
    BY <1>3, <1>4, <2>2, <2>3 DEF TypeOK, ConfirmSafeDml, UserUnchanged, diskVars
<1>5. CASE DismissSafeDml
  BY <1>3, <1>5 DEF TypeOK, DismissSafeDml, UserUnchanged, diskVars
<1> QED
  BY <1>4, <1>5

LEMMA TypePage ==
    ASSUME TypeOK,
           (\E n \in Sizes : update_page_size(n)) \/ AskAllRows \/ ConfirmAllRows \/ DismissAllRows
    PROVE  TypeOK'
<1>1. ASSUME NEW n \in Sizes, update_page_size(n) PROVE TypeOK'
  <2>1. {Page(n)} \cup Rerun \subseteq Commands /\ IsFiniteSet({Page(n)} \cup Rerun)
    BY RerunType, Messages, FS_Singleton, FS_Union
  <2>2. Sends({Page(n)} \cup Rerun)
    BY <1>1 DEF update_page_size
  <2>3. inbox' \subseteq Commands /\ sent' \in 0 .. MaxCommands
    BY <2>1, <2>2, SendsType
  <2>4. overtaken' \in BOOLEAN
    BY <1>1 DEF TypeOK, update_page_size, Overtakes
  <2> QED
    BY <1>1, <2>3, <2>4 DEF TypeOK, update_page_size, UserUnchanged, diskVars
<1>2. CASE ConfirmAllRows
  <2>1. inbox' \subseteq Commands /\ sent' \in 0 .. MaxCommands
    BY <1>2, RerunType, SendsType DEF ConfirmAllRows
  <2>2. overtaken' \in BOOLEAN
    BY <1>2 DEF TypeOK, ConfirmAllRows, Overtakes
  <2> QED
    BY <1>2, <2>1, <2>2 DEF TypeOK, ConfirmAllRows, UserUnchanged, diskVars
<1>3. CASE AskAllRows
  BY <1>3 DEF TypeOK, AskAllRows, UserUnchanged, diskVars
<1>4. CASE DismissAllRows
  BY <1>4, ZenonT(60) DEF TypeOK, DismissAllRows, UserUnchanged, diskVars
<1> QED
  BY <1>1, <1>2, <1>3, <1>4

LEMMA TypeParams ==
    ASSUME TypeOK, ChangeParam \/ ConfirmParams \/ CancelParams
    PROVE  TypeOK'
<1>1. CASE ChangeParam
  BY <1>1 DEF TypeOK, ChangeParam, diskVars, ctlVars, auxVars
<1>2. CASE ConfirmParams
  <2>1. Run("params", slot) \in Commands
    BY <1>2, Messages DEF TypeOK, ConfirmParams, RunKinds
  <2>2. inbox' \subseteq Commands /\ sent' \in 0 .. MaxCommands
    BY <1>2, <2>1, SendsOne DEF ConfirmParams
  <2> QED
    BY <1>2, <2>2 DEF TypeOK, ConfirmParams, UserUnchanged, diskVars
<1>3. CASE CancelParams
  BY <1>3 DEF TypeOK, CancelParams, UserUnchanged, diskVars
<1> QED
  BY <1>1, <1>2, <1>3

LEMMA TypeOther ==
    ASSUME TypeOK,
           \/ \E c \in Conns : ClickConnect(c)
           \/ \E c \in Conns : \E s, r \in BOOLEAN : SaveFlags(c, s, r)
           \/ ClickDisconnect
    PROVE  TypeOK'
<1>1. ASSUME NEW c \in Commands, OtherCommand(c) PROVE TypeOK'
  <2>1. inbox' \subseteq Commands /\ sent' \in 0 .. MaxCommands
    BY <1>1, SendsOne DEF OtherCommand
  <2> QED
    BY <1>1, <2>1 DEF TypeOK, OtherCommand, UserUnchanged, diskVars
<1>2. CASE ClickDisconnect
  BY <1>2 DEF TypeOK, ClickDisconnect, UserUnchanged, diskVars
<1>3. CASE \E c \in Conns : ClickConnect(c)
  BY <1>1, <1>3, Messages DEF ClickConnect
<1>4. CASE \E c \in Conns : \E s, r \in BOOLEAN : SaveFlags(c, s, r)
  BY <1>1, <1>4, Messages DEF SaveFlags
<1> QED
  BY <1>2, <1>3, <1>4

-----------------------------------------------------------------------------
(* What the user has let through.  Only Launch reads it; the rest carries  *)
(* texts from one hand to the next.                                        *)

(* Steps that leave the ledger of launched and consented texts alone.      *)
LEMMA Carried ==
    ASSUME Consented, UNCHANGED <<ran, consent>>,
           \A c \in inbox' \ inbox : c.kind \in RunKinds => Let(c.sql),
           pc' # "idle" => Let(job'.sql),
           lastSql' # NoText => Let(lastSql'),
           \A i \in DOMAIN events' : events'[i].type = "params" => Let(events'[i].sql),
           slot' # NoText => Let(slot')
    PROVE  Consented'
BY DEF Consented, Let

LEMMA AppendEach ==
    ASSUME NEW S, NEW s \in Seq(S), NEW e \in S
    PROVE  \A i \in DOMAIN Append(s, e) :
              (i \in DOMAIN s /\ Append(s, e)[i] = s[i]) \/ Append(s, e)[i] = e
OBVIOUS

LEMMA TailEach ==
    ASSUME NEW S, NEW s \in Seq(S), s # <<>>
    PROVE  \A i \in DOMAIN Tail(s) : i + 1 \in DOMAIN s /\ Tail(s)[i] = s[i + 1]
OBVIOUS

LEMMA HeadEach ==
    ASSUME NEW S, NEW s \in Seq(S), s # <<>>
    PROVE  1 \in DOMAIN s /\ Head(s) = s[1]
OBVIOUS

LEMMA ConsentedController == ASSUME TypeOK, AtWork, Consented, Controller PROVE Consented'
<1>1. ASSUME NEW c \in inbox, HandleRun(c) PROVE Consented'
  <2>1. pc' # "idle" => Let(job'.sql)
    BY <1>1 DEF HandleRun, Receive, Consented
  <2> QED
    BY <1>1, <2>1, Carried DEF HandleRun, Receive, Consented, auxVars
<1>2. ASSUME NEW c \in inbox, HandlePageSize(c) PROVE Consented'
  BY <1>2, Carried DEF HandlePageSize, Receive, Consented, auxVars, ctlVars
<1>3. ASSUME NEW c \in inbox, HandleFlags(c) PROVE Consented'
  <2>1. SafeEvent(c.conn, c.safe) \in Events /\ events \in Seq(Events)
    BY <1>3, Kinds, Messages DEF HandleFlags, Receive, TypeOK
  <2>2. SafeEvent(c.conn, c.safe).type # "params"
    BY DEF SafeEvent
  <2>3. \A i \in DOMAIN events' : events'[i].type = "params" => Let(events'[i].sql)
    BY <1>3, <2>1, <2>2, AppendEach DEF HandleFlags, Consented
  <2> QED
    BY <1>3, <2>3, Carried DEF HandleFlags, Receive, Consented, auxVars, ctlVars
<1>4. ASSUME NEW c \in inbox, HandleConnect(c) PROVE Consented'
  <2>1. c.conn \in Conns /\ rows[c.conn].safe \in BOOLEAN
    BY <1>4, Kinds DEF HandleConnect, Receive, TypeOK
  <2>2. UpEvent(rows[c.conn].safe) \in Events /\ events \in Seq(Events)
    BY <2>1, Messages DEF TypeOK
  <2>3. UpEvent(rows[c.conn].safe).type # "params"
    BY DEF UpEvent
  <2>4. \A i \in DOMAIN events' : events'[i].type = "params" => Let(events'[i].sql)
    BY <1>4, <2>2, <2>3, AppendEach DEF HandleConnect, Consented
  <2> QED
    BY <1>4, <2>4, Carried DEF HandleConnect, Receive, Consented, auxVars
<1>5. CASE CheckReadOnly
  <2>0. Let(job.sql) /\ job.sql \in Texts
    BY <1>5 DEF CheckReadOnly, Consented, AtWork
  <2>1. \A i \in DOMAIN events' : events'[i].type = "params" => Let(events'[i].sql)
    <3>1. CASE events' = events
      BY <3>1 DEF Consented
    <3>2. CASE events' = Append(events, ParamEvent(job.sql))
      <4>1. ParamEvent(job.sql) \in Events /\ ParamEvent(job.sql).sql = job.sql
        BY <2>0, Messages DEF ParamEvent
      <4> QED
        BY <2>0, <3>2, <4>1, AppendEach DEF Consented, TypeOK
    <3> QED
      BY <1>5, <3>1, <3>2 DEF CheckReadOnly
  <2>2. lastSql' # NoText => Let(lastSql')
    BY <1>5, <2>0 DEF CheckReadOnly, Consented
  <2>3. pc' # "idle" => Let(job'.sql)
    BY <1>5, <2>0 DEF CheckReadOnly, EndJob
  <2> QED
    BY <1>5, <2>1, <2>2, <2>3, Carried DEF CheckReadOnly, CheckUnchanged, Consented, auxVars
<1>6. CASE Launch
  <2>1. Let(job.sql)
    BY <1>6 DEF Launch, Consented
  <2> QED
    BY <1>6, <2>1 DEF Launch, EndJob, Consented, Let
<1> QED
  BY <1>1, <1>2, <1>3, <1>4, <1>5, <1>6 DEF Controller

LEMMA ConsentedDispatch == ASSUME TypeOK, Consented, Dispatch PROVE Consented'
<1>1. events # <<>> /\ events' = Tail(events) /\ events \in Seq(Events) /\ DispatchUnchanged
  BY DEF Dispatch, TypeOK
<1>2. Head(events).type = "params" => Let(Head(events).sql)
  BY <1>1, HeadEach DEF Consented
<1>3. \A i \in DOMAIN events' : events'[i].type = "params" => Let(events'[i].sql)
  BY <1>1, TailEach DEF Consented
<1>4. slot' # NoText => Let(slot')
  BY <1>2 DEF Dispatch, Consented
<1> QED
  BY <1>1, <1>3, <1>4, Carried DEF DispatchUnchanged, Consented, ctlVars, auxVars

LEMMA ConsentedClosure == ASSUME Consented, RunClosure PROVE Consented'
BY Carried DEF RunClosure, Consented, ctlVars, auxVars

LEMMA ConsentedUser == ASSUME TypeOK, Consented, User PROVE Consented'
<1>1. ASSUME NEW t \in Texts, NEW k \in {"query", "cursor", "all"}, Submit(k, t)
      PROVE  Consented'
  <2>1. CASE check_safe_dml(t)
    BY <1>1, <2>1, Carried DEF Submit, UserUnchanged, Consented
  <2>2. CASE ~ check_safe_dml(t)
    <3>1. has_dangerous_dml(t) => t \in consent'
      BY <1>1, <2>2 DEF Submit, check_safe_dml
    <3>2. consent \subseteq consent' /\ inbox' = inbox \cup {CommandOf(k, t)}
      BY <1>1, <2>2 DEF Submit, Sends
    <3>3. CommandOf(k, t).sql = t
      BY DEF CommandOf, Run
    <3> QED
      BY <1>1, <3>1, <3>2, <3>3 DEF Submit, UserUnchanged, Consented, Let
  <2> QED
    BY <2>1, <2>2
<1>2. CASE ConfirmSafeDml
  <2>1. consent' = consent \cup {pending.sql}
        /\ inbox' = inbox \cup {CommandOf(pending.kind, pending.sql)}
    BY <1>2 DEF ConfirmSafeDml, Sends
  <2>2. CommandOf(pending.kind, pending.sql).sql = pending.sql
    BY DEF CommandOf, Run
  <2> QED
    BY <1>2, <2>1, <2>2 DEF ConfirmSafeDml, UserUnchanged, Consented, Let
<1>3. \A c \in Rerun : c.kind \in RunKinds => Let(c.sql)
  BY DEF Rerun, Run, Consented
<1>4. ASSUME NEW n \in Sizes, update_page_size(n) PROVE Consented'
  <2>1. inbox' = inbox \cup ({Page(n)} \cup Rerun)
    BY <1>4 DEF update_page_size, Sends
  <2>2. Page(n).kind \notin RunKinds
    BY DEF Page, RunKinds
  <2> QED
    BY <1>3, <1>4, <2>1, <2>2, Carried DEF update_page_size, UserUnchanged, Consented
<1>5. CASE ConfirmAllRows
  <2>1. inbox' = inbox \cup Rerun
    BY <1>5 DEF ConfirmAllRows, Sends
  <2> QED
    BY <1>3, <1>5, <2>1, Carried DEF ConfirmAllRows, UserUnchanged, Consented
<1>6. CASE ConfirmParams
  <2>1. inbox' = inbox \cup {Run("params", slot)} /\ Let(slot)
    BY <1>6 DEF ConfirmParams, Sends, Consented
  <2>2. Run("params", slot).sql = slot
    BY DEF Run
  <2> QED
    BY <1>6, <2>1, <2>2, Carried DEF ConfirmParams, UserUnchanged, Consented
<1>7. CASE DismissSafeDml \/ AskAllRows \/ DismissAllRows
  BY <1>7, Carried DEF DismissSafeDml, AskAllRows, DismissAllRows, UserUnchanged, Consented
<1>8. CASE ChangeParam \/ CancelParams \/ ClickDisconnect
  BY <1>8, Carried DEF ChangeParam, CancelParams, ClickDisconnect, UserUnchanged, Consented,
                       ctlVars, auxVars
<1>9. ASSUME NEW c, c.kind \notin RunKinds, OtherCommand(c) PROVE Consented'
  <2>1. inbox' = inbox \cup {c}
    BY <1>9 DEF OtherCommand, Sends
  <2> QED
    BY <1>9, <2>1, Carried DEF OtherCommand, UserUnchanged, Consented
<1>10. ASSUME NEW c \in Conns, ClickConnect(c) PROVE Consented'
  <2>1. Connect(c).kind \notin RunKinds
    BY DEF Connect, RunKinds
  <2> QED
    BY <1>9, <1>10, <2>1 DEF ClickConnect
<1>11. ASSUME NEW c \in Conns, NEW s \in BOOLEAN, NEW r \in BOOLEAN, SaveFlags(c, s, r)
       PROVE  Consented'
  <2>1. Flags(c, s, r).kind \notin RunKinds
    BY DEF Flags, RunKinds
  <2> QED
    BY <1>9, <1>11, <2>1 DEF SaveFlags
<1> QED
  BY <1>1, <1>2, <1>4, <1>5, <1>6, <1>7, <1>8, <1>10, <1>11 DEF User

-----------------------------------------------------------------------------
(* The three other parts.                                                  *)

LEMMA AtWorkNext == ASSUME TypeOK, AtWork, [Next]_vars PROVE AtWork'
<1>1. ASSUME NEW c \in inbox, HandleRun(c) PROVE AtWork'
  <2>1. c.sql \in Texts
    BY <1>1, Kinds DEF HandleRun, Receive, TypeOK
  <2> QED
    BY <1>1, <2>1 DEF HandleRun, Receive, TypeOK, AtWork
<1>2. ASSUME pc' = "idle" \/ (pc' = pc /\ job' = job) \/ (pc = "check" /\ job' = job)
      PROVE  AtWork'
  BY <1>2 DEF AtWork
<1>3. CASE CheckReadOnly \/ Launch
  BY <1>2, <1>3 DEF CheckReadOnly, Launch, EndJob
<1>4. ASSUME NEW c \in inbox, HandlePageSize(c) \/ HandleFlags(c) \/ HandleConnect(c)
      PROVE  AtWork'
  BY <1>2, <1>4 DEF HandlePageSize, HandleFlags, HandleConnect, ctlVars
<1>5. CASE Dispatch \/ RunClosure \/ ChangeParam
  BY <1>2, <1>5 DEF Dispatch, DispatchUnchanged, RunClosure, ChangeParam, ctlVars
<1>6. CASE UserUnchanged
  BY <1>2, <1>6 DEF UserUnchanged
<1>7. CASE UNCHANGED vars
  BY <1>2, <1>7 DEF vars, ctlVars
<1>8. User => UserUnchanged \/ ChangeParam
  BY DEF User, Submit, ConfirmSafeDml, DismissSafeDml, update_page_size, AskAllRows,
         ConfirmAllRows, DismissAllRows, ConfirmParams, CancelParams, ClickConnect, SaveFlags,
         OtherCommand, ClickDisconnect
<1> QED
  BY <1>1, <1>3, <1>4, <1>5, <1>6, <1>7, <1>8 DEF Next, Controller

(* Only the controller touches the rows and the launched texts, and only   *)
(* when it is idle the rows.                                               *)
LEMMA CheckedNext == ASSUME TypeOK, AtWork, Checked, [Next]_vars PROVE Checked'
<1>1. ASSUME UNCHANGED <<rows, faults, ran>>,
             pc' = "launch" => pc = "launch" /\ job' = job
      PROVE  Checked'
  BY <1>1 DEF Checked, ReadOnlyRespected
<1>2. ASSUME UNCHANGED <<faults, ran>>, pc' # "launch"
      PROVE  Checked'
  BY <1>2 DEF Checked, ReadOnlyRespected
<1>3. ASSUME NEW c \in inbox, HandleRun(c) PROVE Checked'
  BY <1>2, <1>3 DEF HandleRun, Receive, diskVars, auxVars
<1>4. ASSUME NEW c \in inbox, HandlePageSize(c) \/ HandleFlags(c) \/ HandleConnect(c)
      PROVE  Checked'
  BY <1>2, <1>4 DEF HandlePageSize, HandleFlags, HandleConnect, Receive, diskVars, ctlVars,
                    auxVars
<1>5. CASE CheckReadOnly
  <2>1. job.conn \in Conns /\ faults \in Nat
    BY <1>5 DEF CheckReadOnly, AtWork, TypeOK
  <2>2. PICK ro \in {RowReadOnly(job.conn), FALSE} :
           /\ faults' = faults + IF ro = rows[job.conn].ro THEN 0 ELSE 1
           /\ pc' = "launch" => ~ is_read_only_blocked(job.sql, ro) /\ job' = job
    BY <1>5 DEF CheckReadOnly, EndJob
  <2>3. rows' = rows /\ ran' = ran
    BY <1>5 DEF CheckReadOnly, CheckUnchanged, auxVars
  <2>4. faults' = 0 => faults = 0 /\ ro = rows[job.conn].ro
    <3>1. CASE ro = rows[job.conn].ro
      BY <2>1, <2>2, <3>1
    <3>2. CASE ro # rows[job.conn].ro
      BY <2>1, <2>2, <3>2
    <3> QED
      BY <3>1, <3>2
  <2>5. pc' = "launch" /\ faults' = 0 /\ is_write_statement(job'.sql) => ~ rows'[job'.conn].ro
    BY <2>2, <2>3, <2>4 DEF is_read_only_blocked
  <2>6. ReadOnlyRespected'
    BY <2>3, <2>4 DEF Checked, ReadOnlyRespected
  <2> QED
    BY <2>5, <2>6 DEF Checked
<1>6. CASE Launch
  <2>1. UNCHANGED <<rows, faults>> /\ pc' = "idle"
        /\ ran' = ran \cup {[sql |-> job.sql, conn |-> job.conn, ro |-> rows[job.conn].ro]}
    BY <1>6 DEF Launch, EndJob, diskVars
  <2>2. faults = 0 /\ is_write_statement(job.sql) => ~ rows[job.conn].ro
    BY <1>6 DEF Launch, Checked
  <2> QED
    BY <2>1, <2>2 DEF Checked, ReadOnlyRespected
<1>7. CASE Dispatch \/ RunClosure \/ ChangeParam
  BY <1>1, <1>7 DEF Dispatch, DispatchUnchanged, RunClosure, ChangeParam, diskVars, ctlVars,
                    auxVars
<1>8. CASE UserUnchanged
  BY <1>1, <1>8 DEF UserUnchanged, diskVars
<1>9. CASE UNCHANGED vars
  BY <1>1, <1>9 DEF vars, diskVars, ctlVars, auxVars
<1>10. User => UserUnchanged \/ ChangeParam
  BY DEF User, Submit, ConfirmSafeDml, DismissSafeDml, update_page_size, AskAllRows,
         ConfirmAllRows, DismissAllRows, ConfirmParams, CancelParams, ClickConnect, SaveFlags,
         OtherCommand, ClickDisconnect
<1> QED
  BY <1>3, <1>4, <1>5, <1>6, <1>7, <1>8, <1>9, <1>10 DEF Next, Controller

(* The slot is filled in the step that queues the dialog, and both are     *)
(* emptied together.                                                       *)
LEMMA ReachableNext == ASSUME TypeOK, ParamsReachable, [Next]_vars PROVE ParamsReachable'
<1>1. ASSUME UNCHANGED <<slot, dialog, closures>> PROVE ParamsReachable'
  BY <1>1 DEF ParamsReachable
<1>2. CASE Dispatch
  <2>1. events # <<>> /\ Head(events) \in Events
    BY <1>2, HeadType DEF Dispatch, TypeOK
  <2>2. dialog' = dialog
    BY <1>2 DEF Dispatch, DispatchUnchanged, uiVars
  <2>3. CASE closures' = closures /\ slot' = slot
    BY <2>2, <2>3 DEF ParamsReachable
  <2>4. ASSUME NEW c \in Closures, closures' = Append(closures, c),
               c.type = "params" \/ slot' = slot
        PROVE  ParamsReachable'
    <3>1. /\ Len(closures) + 1 \in DOMAIN closures'
          /\ closures'[Len(closures) + 1] = c
          /\ \A i \in DOMAIN closures : i \in DOMAIN closures' /\ closures'[i] = closures[i]
      BY <2>4 DEF TypeOK
    <3> QED
      BY <2>2, <2>4, <3>1 DEF ParamsReachable
  <2>5. CASE Head(events).type = "params"
             /\ closures' = Append(closures, [type |-> "params", sql |-> Head(events).sql])
    <3>1. [type |-> "params", sql |-> Head(events).sql] \in Closures
      BY <2>1, <2>5, EventKinds DEF Closures
    <3> QED
      BY <2>4, <2>5, <3>1
  <2>6. CASE (Head(events).type = "connected" \/ Head(events).type = "flags") /\ slot' = slot
             /\ closures' = Append(closures, [type |-> "safe", safe |-> Head(events).safe])
    <3>1. [type |-> "safe", safe |-> Head(events).safe] \in Closures
      BY <2>1, <2>6, EventKinds DEF Closures
    <3> QED
      BY <2>4, <2>6, <3>1
  <2> QED
    BY <1>2, <2>3, <2>5, <2>6 DEF Dispatch
<1>3. CASE RunClosure
  <2>1. closures # <<>> /\ closures' = Tail(closures) /\ slot' = slot
        /\ closures \in Seq(Closures) /\ Head(closures) \in Closures
    BY <1>3, HeadType DEF RunClosure, TypeOK
  <2>2. CASE Head(closures).type = "params"
    <3>1. dialog' = Head(closures).sql /\ Head(closures).sql \in Texts
      BY <1>3, <2>1, <2>2, ClosureKinds DEF RunClosure
    <3> QED
      BY <3>1, TextsOk DEF ParamsReachable
  <2>3. CASE Head(closures).type = "safe"
    <3>1. dialog' = dialog
      BY <1>3, <2>3 DEF RunClosure
    <3>2. ASSUME NEW i \in DOMAIN closures, closures[i].type = "params"
          PROVE  \E j \in DOMAIN closures' : closures'[j].type = "params"
      <4>1. i # 1
        BY <2>1, <2>3, <3>2
      <4>2. i - 1 \in DOMAIN closures' /\ closures'[i - 1] = closures[i]
        BY <2>1, <4>1
      <4> QED
        BY <3>2, <4>2
    <3> QED
      BY <2>1, <3>1, <3>2 DEF ParamsReachable
  <2> QED
    BY <2>1, <2>2, <2>3, ClosureKinds
<1>4. CASE ConfirmParams \/ CancelParams
  BY <1>4 DEF ConfirmParams, CancelParams, ParamsReachable
<1>5. CASE Controller
  BY <1>1, <1>5 DEF Controller, HandleRun, HandlePageSize, HandleFlags, HandleConnect,
                    CheckReadOnly, CheckUnchanged, Launch, uiVars
<1>6. CASE User /\ ~ ConfirmParams /\ ~ CancelParams
  BY <1>1, <1>6
     DEF User, UserUnchanged, Submit, ConfirmSafeDml, DismissSafeDml, update_page_size,
         AskAllRows, ConfirmAllRows, DismissAllRows, ChangeParam, ClickConnect, SaveFlags,
         OtherCommand, ClickDisconnect
<1>7. CASE UNCHANGED vars
  BY <1>1, <1>7 DEF vars, uiVars
<1> QED
  BY <1>2, <1>3, <1>4, <1>5, <1>6, <1>7 DEF Next

LEMMA PageNext == ASSUME TypeOK, PageAgrees, [Next]_vars PROVE PageAgrees'
<1>1. ASSUME UNCHANGED <<statePage, uiPage, overtaken>>,
             \A c \in inbox' \ inbox : c.kind # "page"
      PROVE  PageAgrees'
  BY <1>1 DEF PageAgrees
<1>2. ASSUME NEW c \in inbox, HandlePageSize(c) PROVE PageAgrees'
  <2>1. statePage' = c.size /\ inbox' \subseteq inbox /\ UNCHANGED <<uiPage, overtaken>>
        /\ c.kind = "page"
    BY <1>2 DEF HandlePageSize, Receive, uiVars, auxVars
  <2> QED
    BY <2>1 DEF PageAgrees
<1>3. ASSUME NEW c \in inbox, HandleRun(c) \/ HandleFlags(c) \/ HandleConnect(c)
      PROVE  PageAgrees'
  BY <1>1, <1>3 DEF HandleRun, HandleFlags, HandleConnect, Receive, uiVars, auxVars
<1>4. CASE CheckReadOnly \/ Launch \/ Dispatch \/ RunClosure
  BY <1>1, <1>4 DEF CheckReadOnly, CheckUnchanged, Launch, Dispatch, DispatchUnchanged,
                    RunClosure, uiVars, auxVars
<1>5. \A c \in Rerun : c.kind # "page"
  BY DEF Rerun, Run
<1>6. ASSUME NEW n \in Sizes, update_page_size(n) PROVE PageAgrees'
  <2>1. inbox' = inbox \cup ({Page(n)} \cup Rerun) /\ uiPage' = n /\ statePage' = n
        /\ overtaken' = Overtakes
    BY <1>6 DEF update_page_size, Sends
  <2>2. Page(n).size = n
    BY DEF Page
  <2> QED
    BY <1>5, <2>1, <2>2 DEF PageAgrees, Overtakes
<1>7. CASE ConfirmAllRows
  <2>1. inbox' = inbox \cup Rerun /\ uiPage' = AllRows /\ statePage' = AllRows
        /\ overtaken' = Overtakes
    BY <1>7 DEF ConfirmAllRows, Sends
  <2> QED
    BY <1>5, <2>1 DEF PageAgrees, Overtakes
<1>8. CASE (\E t \in Texts, k \in {"query", "cursor", "all"} : Submit(k, t))
           \/ ConfirmSafeDml \/ ConfirmParams
  <2>2. \A k, t : CommandOf(k, t).kind # "page"
    BY DEF CommandOf, Run
  <2>3. Run("params", slot).kind # "page"
    BY DEF Run
  <2>4. \A c \in inbox' \ inbox : c.kind # "page"
    <3>1. ASSUME NEW t \in Texts, NEW k \in {"query", "cursor", "all"}, Submit(k, t)
          PROVE  \A c \in inbox' \ inbox : c.kind # "page"
      <4>1. inbox' = inbox \/ inbox' = inbox \cup {CommandOf(k, t)}
        BY <3>1 DEF Submit, Sends
      <4> QED
        BY <2>2, <4>1
    <3>2. CASE ConfirmSafeDml
      <4>1. inbox' = inbox \cup {CommandOf(pending.kind, pending.sql)}
        BY <3>2 DEF ConfirmSafeDml, Sends
      <4> QED
        BY <2>2, <4>1
    <3>3. CASE ConfirmParams
      <4>1. inbox' = inbox \cup {Run("params", slot)}
        BY <3>3 DEF ConfirmParams, Sends
      <4> QED
        BY <2>3, <4>1
    <3> QED
      BY <1>8, <3>1, <3>2, <3>3
  <2>5. UNCHANGED <<statePage, uiPage, overtaken>>
    BY <1>8 DEF Submit, ConfirmSafeDml, ConfirmParams
  <2> QED
    BY <1>1, <2>4, <2>5
<1>9. CASE DismissSafeDml \/ AskAllRows \/ DismissAllRows \/ ChangeParam \/ CancelParams
           \/ ClickDisconnect
  BY <1>1, <1>9 DEF DismissSafeDml, AskAllRows, DismissAllRows, ChangeParam, CancelParams,
                    ClickDisconnect, auxVars
<1>10. CASE \E c \in Conns : ClickConnect(c) \/ \E s, r \in BOOLEAN : SaveFlags(c, s, r)
  <2>1. ASSUME NEW c, c.kind # "page", OtherCommand(c) PROVE PageAgrees'
    <3>1. inbox' = inbox \cup {c} /\ UNCHANGED <<statePage, uiPage, overtaken>>
      BY <2>1 DEF OtherCommand, Sends
    <3> QED
      BY <1>1, <2>1, <3>1
  <2>2. ASSUME NEW c \in Conns, ClickConnect(c) PROVE PageAgrees'
    <3>1. Connect(c).kind # "page"
      BY DEF Connect
    <3> QED
      BY <2>1, <2>2, <3>1 DEF ClickConnect
  <2>3. ASSUME NEW c \in Conns, NEW s \in BOOLEAN, NEW r \in BOOLEAN, SaveFlags(c, s, r)
        PROVE  PageAgrees'
    <3>1. Flags(c, s, r).kind # "page"
      BY DEF Flags
    <3> QED
      BY <2>1, <2>3, <3>1 DEF SaveFlags
  <2> QED
    BY <1>10, <2>2, <2>3
<1>11. CASE UNCHANGED vars
  BY <1>1, <1>11 DEF vars, uiVars, auxVars
<1> QED
  BY <1>2, <1>3, <1>4, <1>6, <1>7, <1>8, <1>9, <1>10, <1>11 DEF Next, Controller, User

-----------------------------------------------------------------------------

LEMMA TypeUser == TypeOK /\ User => TypeOK'
BY TypeSubmit, TypeConfirm, TypePage, TypeParams, TypeOther DEF User

LEMMA TypeNext == ASSUME TypeOK, AtWork, [Next]_vars PROVE TypeOK'
<1>1. CASE UNCHANGED vars
  BY <1>1 DEF vars, diskVars, ctlVars, uiVars, auxVars, TypeOK
<1>2. CASE Controller
  <2>1. ASSUME NEW c \in inbox,
               HandleRun(c) \/ HandlePageSize(c) \/ HandleFlags(c) \/ HandleConnect(c)
        PROVE  TypeOK'
    BY <2>1, TypeHandle
  <2>2. CheckReadOnly \/ Launch => TypeOK'
    BY TypeWork
  <2> QED
    BY <1>2, <2>1, <2>2 DEF Controller
<1>3. Dispatch => TypeOK'
  BY TypeDispatch
<1>4. RunClosure => TypeOK'
  BY TypeClosure
<1>5. User => TypeOK'
  BY TypeUser
<1> QED
  BY <1>1, <1>2, <1>3, <1>4, <1>5 DEF Next

LEMMA ConsentedNext == ASSUME TypeOK, AtWork, Consented, [Next]_vars PROVE Consented'
<1>1. UNCHANGED vars => Consented'
  BY DEF vars, diskVars, ctlVars, uiVars, auxVars, Consented, Let
<1>2. Controller => Consented'
  BY ConsentedController
<1>3. Dispatch => Consented'
  BY ConsentedDispatch
<1>4. RunClosure => Consented'
  BY ConsentedClosure
<1>5. User => Consented'
  BY ConsentedUser
<1> QED
  BY <1>1, <1>2, <1>3, <1>4, <1>5 DEF Next

(* The strengthened invariant: types, the job in hand, the consent to      *)
(* every text on its way, the flag at the check, the dialog of the slot    *)
(* and the size of the one page command.                                   *)
THEOREM Inductive == Spec => []IInv
<1>1. IInv /\ [Next]_vars => IInv'
  BY TypeNext, AtWorkNext, ConsentedNext, CheckedNext, ReachableNext, PageNext DEF IInv
<1> QED
  BY <1>1, InitInv, PTL DEF Spec

(* No text that writes is launched on a read-only connection.              *)
THEOREM ReadOnlyKept == Spec => []ReadOnlyRespected
<1>1. IInv => ReadOnlyRespected
  BY DEF IInv, Checked
<1> QED
  BY <1>1, Inductive, PTL

(* Every dangerous text at the database was let through once.              *)
THEOREM DangerAsked == Spec => []DangerLetThrough
<1>1. IInv => DangerLetThrough
  BY DEF IInv, Consented, Let, DangerLetThrough
<1> QED
  BY <1>1, Inductive, PTL

(* A text that waits for its parameters has a dialog, open or about to be. *)
THEOREM ParamsAnswerable == Spec => []ParamsReachable
<1>1. IInv => ParamsReachable
  BY DEF IInv
<1> QED
  BY <1>1, Inductive, PTL

(* The LIMIT is the size the toolbar shows.                                *)
THEOREM PageInForce == Spec => []PageFollowsToolbar
<1>1. IInv => PageFollowsToolbar
  BY DEF IInv, PageAgrees, PageFollowsToolbar
<1> QED
  BY <1>1, Inductive, PTL

(***************************************************************************)
(* The scans of SQL text                                                   *)
(***************************************************************************)

(* Letters and digits are no signs, and no letter is a digit.              *)
LEMMA Apartness ==
    ASSUME NEW x \in WordChars
    PROVE  /\ x \notin {"", "-", "/", "'", "\"", "backtick", "$", ":", ".", "+", "semicolon"}
           /\ x \in Letters <=> x \notin Digits
BY LettersApart DEF WordChars

LEMMA FirstOfIs ==
    ASSUME NEW S, S \subseteq Nat, NEW d \in Nat
    PROVE  /\ FirstOf(S, d) \in S \cup {d} /\ FirstOf(S, d) \in Nat
           /\ FirstOf(S, d) <= d /\ \A x \in S : FirstOf(S, d) <= x
<1>1. S \cup {d} \subseteq Nat /\ S \cup {d} # {}
  OBVIOUS
<1>2. Min(S \cup {d}) \in S \cup {d} /\ \A x \in S \cup {d} : Min(S \cup {d}) <= x
  BY <1>1, MinOf
<1> QED
  BY <1>1, <1>2 DEF FirstOf

(* A run ends at the first character that is not of the kind.              *)
LEMMA RunEndIs ==
    ASSUME NEW D, NEW t \in Seq(D), NEW i \in Nat, i <= Len(t) + 1, NEW C
    PROVE  /\ RunEnd(t, i, C) \in i .. Len(t) + 1
           /\ \A j \in i .. RunEnd(t, i, C) - 1 : j \in Nat /\ j <= Len(t) /\ t[j] \in C
           /\ RunEnd(t, i, C) <= Len(t) => t[RunEnd(t, i, C)] \notin C
<1> DEFINE S == {j \in i .. Len(t) : t[j] \notin C}
<1>1. S \subseteq Nat /\ Len(t) + 1 \in Nat
  OBVIOUS
<1>2. PICK e : e = FirstOf(S, Len(t) + 1)
  OBVIOUS
<1>3. e \in S \cup {Len(t) + 1} /\ e \in Nat /\ e <= Len(t) + 1 /\ \A x \in S : e <= x
  <2> HIDE DEF S
  <2> QED BY <1>1, <1>2, FirstOfIs
<1>4. e \in i .. Len(t) + 1
  BY <1>3
<1>5. ASSUME NEW j \in i .. e - 1 PROVE j \in Nat /\ j <= Len(t) /\ t[j] \in C
  <2>1. j \in i .. Len(t) /\ ~ (e <= j)
    BY <1>4
  <2> QED
    BY <1>3, <2>1
<1>6. e <= Len(t) => t[e] \notin C
  BY <1>3
<1>7. RunEnd(t, i, C) = e
  BY <1>2 DEF RunEnd
<1> QED
  BY <1>4, <1>5, <1>6, <1>7

(* The walk of QuoteEnd over the quoted text.                              *)
QuoteFrom(h, t, i, q) ==
    /\ \A j \in i + 1 .. Len(t) + 2 :
          h[j] \in {e \in i + 1 .. Len(t) + 1 : e <= Len(t) => t[e - 1] = q}
    /\ \A j \in i + 1 .. Len(t) + 2 :
          h[j] = IF j > Len(t) THEN Len(t) + 1
                 ELSE IF t[j] = q THEN IF At(t, j + 1) = q THEN h[j + 2] ELSE j + 1
                 ELSE IF q = "'" /\ t[j] = "backslash" THEN h[j + 2]
                 ELSE h[j + 1]

LEMMA QuoteWalk ==
    ASSUME NEW D, NEW t \in Seq(D), NEW i \in 1 .. Len(t), NEW q
    PROVE  \E h : QuoteFrom(h, t, i, q) /\ QuoteEnd(t, i, q) = h[i + 1]
<1> DEFINE n == Len(t)
           stop == {j \in 1 .. n : t[j] = q /\ At(t, j + 1) # q}
           val == [j \in 1 .. n |-> j + 1]
           next == [j \in 1 .. n |-> IF t[j] = q \/ (q = "'" /\ t[j] = "backslash") THEN j + 2 ELSE j + 1]
           V == {e \in i + 1 .. n + 1 : e <= n => t[e - 1] = q}
           Here(h, j) == IF j > n THEN n + 1
                         ELSE IF t[j] = q THEN IF At(t, j + 1) = q THEN h[j + 2] ELSE j + 1
                         ELSE IF q = "'" /\ t[j] = "backslash" THEN h[j + 2]
                         ELSE h[j + 1]
           From(h) == [j \in i + 1 .. n + 2 |-> Here(h, j)]
<1>1. n \in Nat /\ i \in Nat /\ 1 <= i /\ i <= n
  OBVIOUS
<1>2. Leaping(next, stop, val, n + 1, n, i + 1, n + 2, V)
  <2>1. ASSUME NEW j \in i + 1 .. n
        PROVE  j \in 1 .. n /\ val[j] = j + 1 /\ next[j] \in {j + 1, j + 2} /\ (j \in stop => t[j] = q)
    <3>1. j \in 1 .. n
      BY <1>1
    <3> QED
      BY ONLY <3>1
  <2>2. ASSUME NEW j \in i + 1 .. n
        PROVE  next[j] \in j + 1 .. n + 2 /\ (j \in stop => val[j] \in V)
    <3>1. val[j] = j + 1 /\ next[j] \in {j + 1, j + 2} /\ (j \in stop => t[j] = q)
      BY <2>1
    <3>2. j + 1 \in i + 1 .. n + 1 /\ (j + 1) - 1 = j
      BY ONLY <1>1, j \in i + 1 .. n
    <3>3. next[j] \in j + 1 .. n + 2
      BY ONLY <1>1, <3>1, j \in i + 1 .. n
    <3> HIDE DEF val, next, n, stop
    <3> QED BY ONLY <3>1, <3>2, <3>3
  <2>3. n + 1 \in V
    BY <1>1
  <2> HIDE DEF val, next, stop, n, V
  <2> QED
    BY <1>1, <2>2, <2>3 DEF Leaping
<1>3. ASSUME NEW h, NEW j \in i + 1 .. n + 2
      PROVE  Here(h, j) = IF j > n THEN n + 1 ELSE IF j \in stop THEN val[j] ELSE h[next[j]]
  <2>1. CASE j > n
    BY <2>1
  <2>2. CASE ~ (j > n)
    <3>1. j \in 1 .. n
      BY <1>1, <2>2
    <3>2. val[j] = j + 1 /\ (j \in stop <=> t[j] = q /\ At(t, j + 1) # q)
      BY <3>1
    <3>3. next[j] = IF t[j] = q \/ (q = "'" /\ t[j] = "backslash") THEN j + 2 ELSE j + 1
      BY <3>1
    <3> HIDE DEF val, stop, next, n
    <3> QED
      BY <2>2, <3>2, <3>3
  <2> QED
    BY <2>1, <2>2
<1> DEFINE from == CHOOSE h : h = From(h)
<1>4. \A h : h = From(h) <=> Leaps(h, next, stop, val, n + 1, n, i + 1, n + 2)
  <2> HIDE DEF Here, val, stop, next, n
  <2> SUFFICES ASSUME NEW h
               PROVE  From(h) = [j \in i + 1 .. n + 2 |->
                                    IF j > n THEN n + 1 ELSE IF j \in stop THEN val[j] ELSE h[next[j]]]
    BY Zenon DEF Leaps
  <2> QED
    BY <1>3
<1>5. \E h : h = From(h)
  <2> HIDE DEF From, val, stop, next, n, V
  <2> QED BY <1>2, <1>4, Leap
<1>6. Leaps(from, next, stop, val, n + 1, n, i + 1, n + 2)
  <2> HIDE DEF From, val, stop, next, n
  <2> QED BY <1>4, <1>5
<1>7. \A j \in i + 1 .. n + 2 : from[j] \in V
  <2> HIDE DEF from, val, stop, next, n, V
  <2> QED BY <1>2, <1>6, LeapIn
<1>8. QuoteEnd(t, i, q) = from[i + 1]
  BY DEF QuoteEnd
<1>9. from = From(from)
  <2> HIDE DEF From, val, stop, next, n
  <2> QED BY <1>4, <1>6
<1>10. \A j \in i + 1 .. n + 2 : from[j] = Here(from, j)
  <2> HIDE DEF from, Here
  <2> QED BY <1>9
<1> HIDE DEF from
<1>11. QuoteFrom(from, t, i, q)
  BY <1>7, <1>10 DEF QuoteFrom
<1> QED
  BY <1>8, <1>11

(* The end of a quoted text is behind its beginning, and not past the end. *)
LEMMA QuoteEndIn ==
    ASSUME NEW D, NEW t \in Seq(D), NEW i \in 1 .. Len(t), NEW q
    PROVE  QuoteEnd(t, i, q) \in i + 1 .. Len(t) + 1
<1>1. PICK h : QuoteFrom(h, t, i, q) /\ QuoteEnd(t, i, q) = h[i + 1]
  BY QuoteWalk
<1>2. i + 1 \in i + 1 .. Len(t) + 2
  OBVIOUS
<1> QED
  BY <1>1, <1>2 DEF QuoteFrom

LEMMA CommentEndsIn ==
    ASSUME NEW D, NEW t \in Seq(D), NEW i \in 1 .. Len(t)
    PROVE  /\ LineEnd(t, i) \in i + 1 .. Len(t) + 1
           /\ BlockEnd(t, i) \in i + 1 .. Len(t) + 1
           /\ BacktickEnd(t, i) \in i + 1 .. Len(t) + 1
<1>1. Len(t) + 1 \in Nat /\ i + 1 <= Len(t) + 1 /\ i \in Nat
  OBVIOUS
<1>2. ASSUME NEW S, S \subseteq i + 1 .. Len(t) + 1
      PROVE  FirstOf(S, Len(t) + 1) \in i + 1 .. Len(t) + 1
  <2>1. S \subseteq Nat
    BY <1>1, <1>2
  <2>2. FirstOf(S, Len(t) + 1) \in S \cup {Len(t) + 1}
    BY <1>1, <2>1, FirstOfIs
  <2>3. Len(t) + 1 \in i + 1 .. Len(t) + 1
    BY <1>1
  <2> QED
    BY ONLY <1>2, <2>2, <2>3, Zenon
<1>3. {j \in i + 2 .. Len(t) : t[j] = "\n"} \subseteq i + 1 .. Len(t) + 1
  BY <1>1
<1>4. {j + 2 : j \in {k \in i + 2 .. Len(t) - 1 : t[k] = "*" /\ t[k + 1] = "/"}} \subseteq i + 1 .. Len(t) + 1
  BY <1>1
<1>5. {j + 1 : j \in {k \in i + 1 .. Len(t) : t[k] = "backtick"}} \subseteq i + 1 .. Len(t) + 1
  BY <1>1
<1>6. LineEnd(t, i) \in i + 1 .. Len(t) + 1
  BY <1>2, <1>3 DEF LineEnd
<1>7. BlockEnd(t, i) \in i + 1 .. Len(t) + 1
  BY <1>2, <1>4 DEF BlockEnd
<1>8. BacktickEnd(t, i) \in i + 1 .. Len(t) + 1
  BY <1>2, <1>5 DEF BacktickEnd
<1> QED
  BY <1>6, <1>7, <1>8

LEMMA DollarEndIn ==
    ASSUME NEW D, NEW t \in Seq(D), NEW i \in 1 .. Len(t), ScanDollarTag(t, i) # 0
    PROVE  DollarEnd(t, i) \in i + 1 .. Len(t) + 1
<1>1. PICK j, n : j = RunEnd(t, i + 1, WordChars) /\ n = Len(t)
  OBVIOUS
<1>2. n \in Nat /\ i \in Nat /\ 1 <= i /\ i <= n /\ i + 1 <= Len(t) + 1 /\ i + 1 \in Nat
  BY <1>1
<1>3. j \in i + 1 .. n + 1
  BY <1>1, <1>2, RunEndIs
<1>4. ScanDollarTag(t, i) = j + 1 /\ At(t, j) = "$"
  BY <1>1 DEF ScanDollarTag
<1>5. PICK body, size : body = ScanDollarTag(t, i) /\ size = body - i
  OBVIOUS
<1>6. body \in Nat /\ size \in Nat /\ body >= i + 2 /\ size >= 2
  BY <1>2, <1>3, <1>4, <1>5
<1> DEFINE S == {k + size : k \in {k \in body .. n - size + 1 : Upto(t, k, k + size) = Upto(t, i, body)}}
<1>7. S \subseteq i + 1 .. n + 1
  BY <1>2, <1>6
<1>8. DollarEnd(t, i) = FirstOf(S, n + 1)
  BY <1>1, <1>5 DEF DollarEnd
<1>9. S \subseteq Nat /\ n + 1 \in Nat
  <2> HIDE DEF S
  <2> QED BY <1>2, <1>7
<1>10. FirstOf(S, n + 1) \in S \cup {n + 1}
  <2> HIDE DEF S
  <2> QED BY <1>9, FirstOfIs
<1>11. n + 1 \in i + 1 .. n + 1
  BY <1>2
<1>12. DollarEnd(t, i) \in i + 1 .. n + 1
  <2> HIDE DEF S
  <2> QED BY ONLY <1>7, <1>8, <1>10, <1>11, Zenon
<1> QED
  BY ONLY <1>1, <1>12

(* A scan that skips goes on, and not past the end.                        *)
LEMMA SkipIn ==
    ASSUME NEW D, NEW t \in Seq(D), NEW i \in 1 .. Len(t)
    PROVE  /\ SkipFrom(t, i) \in i .. Len(t) + 1
           /\ t[i] \notin {"-", "/", "'", "\"", "backtick", "$"} => SkipFrom(t, i) = i
<1>1. \A j \in i + 1 .. Len(t) + 1 : j \in i .. Len(t) + 1
  OBVIOUS
<1>2. i \in i .. Len(t) + 1
  OBVIOUS
<1>3. QuoteEnd(t, i, t[i]) \in i .. Len(t) + 1
  BY <1>1, QuoteEndIn
<1>4. /\ LineEnd(t, i) \in i .. Len(t) + 1 /\ BlockEnd(t, i) \in i .. Len(t) + 1
      /\ BacktickEnd(t, i) \in i .. Len(t) + 1
  BY <1>1, CommentEndsIn
<1>5. ScanDollarTag(t, i) # 0 => DollarEnd(t, i) \in i .. Len(t) + 1
  BY <1>1, DollarEndIn
<1>6. SkipFrom(t, i) \in i .. Len(t) + 1
  BY ONLY <1>2, <1>3, <1>4, <1>5, Zenon DEF SkipFrom
<1>7. ASSUME t[i] \notin {"-", "/", "'", "\"", "backtick", "$"}
      PROVE  SkipFrom(t, i) = i
  <2>1. /\ t[i] # "-" /\ t[i] # "/" /\ t[i] \notin {"'", "\""}
        /\ t[i] # "backtick" /\ t[i] # "$"
    BY <1>7
  <2> QED
    BY ONLY <2>1, Zenon DEF SkipFrom
<1> QED
  BY <1>6, <1>7

Onward(n)   == [i \in 1 .. n |-> i + 1]
Later(S, n) == {k \in 1 .. n : k + 1 \in S}

(* Of one number more, each a step further on.                             *)
LEMMA AscendingShift ==
    ASSUME NEW S, NEW n \in Nat
    PROVE  Ascending(S, n + 1) = (IF 1 \in S THEN <<1>> ELSE <<>>) \o Via(Onward(n), Ascending(Later(S, n), n))
<1>0. n + 1 \in Nat
  OBVIOUS
<1>a. PICK F, Z : F = Onward(n) /\ Z = Later(S, n)
  OBVIOUS
<1>1. PICK f : AscendsFrom(f, S, n + 1) /\ Ascending(S, n + 1) = f[1]
  BY <1>0, AscendingWalk
<1>2. PICK g : AscendsFrom(g, Z, n) /\ Ascending(Z, n) = g[1]
  BY AscendingWalk
<1>3. f[n + 1 + 1] = <<>> /\ \A i \in 1 .. n + 1 : f[i] = (IF i \in S THEN <<i>> ELSE <<>>) \o f[i + 1]
  BY ONLY <1>1 DEF AscendsFrom
<1>4. g[n + 1] = <<>> /\ \A i \in 1 .. n : g[i] = (IF i \in Z THEN <<i>> ELSE <<>>) \o g[i + 1]
  BY ONLY <1>2 DEF AscendsFrom
<1>5. \A i \in 1 .. n + 1 : g[i] \in Seq(1 .. n)
  <2>1. \A i \in 1 .. n + 1 : g[i] \in Seq(Z \cap 1 .. n)
    BY ONLY <1>2 DEF AscendsFrom
  <2>2. Z \cap 1 .. n \subseteq 1 .. n
    BY ONLY TRUE
  <2> QED
    BY ONLY <2>1, <2>2, SeqWithin
<1>6. F \in [1 .. n -> Int] /\ \A i \in 1 .. n : F[i] = i + 1
  BY ONLY <1>a, n \in Nat DEF Onward
<1>7. Via(F, <<>>) = <<>>
  BY ONLY TRUE DEF Via
<1> DEFINE P == {i \in 1 .. n + 1 : f[i + 1] = Via(F, g[i])}
<1>8. n + 1 \in P
  BY ONLY <1>3, <1>4, <1>7, n \in Nat
<1>9. ASSUME NEW i \in 1 .. n, i + 1 \in P PROVE i \in P
  <2>1. f[i + 1 + 1] = Via(F, g[i + 1])
    BY ONLY <1>9
  <2>2. i + 1 \in 1 .. n + 1 /\ i \in 1 .. n + 1
    BY ONLY i \in 1 .. n, n \in Nat
  <2>3. f[i + 1] = (IF i + 1 \in S THEN <<i + 1>> ELSE <<>>) \o f[i + 1 + 1]
    BY ONLY <1>3, <2>2
  <2>4. g[i] = (IF i \in Z THEN <<i>> ELSE <<>>) \o g[i + 1] /\ g[i + 1] \in Seq(1 .. n)
    BY ONLY <1>4, <1>5, <2>2, i \in 1 .. n
  <2>5. i \in Z <=> i + 1 \in S
    BY ONLY <1>a, i \in 1 .. n DEF Later
  <2>6. PICK a : a = IF i \in Z THEN <<i>> ELSE <<>>
    OBVIOUS
  <2>7. Via(F, <<i>>) = <<i + 1>>
    BY ONLY <1>6, i \in 1 .. n DEF Via
  <2>8. a \in Seq(1 .. n)
    <3>1. <<i>> \in Seq(1 .. n)
      BY ONLY i \in 1 .. n, ShortLists
    <3>2. <<>> \in Seq(1 .. n)
      BY ONLY TRUE
    <3> QED
      BY ONLY <2>6, <3>1, <3>2
  <2>9. Via(F, a) = IF i + 1 \in S THEN <<i + 1>> ELSE <<>>
    <3>1. CASE i \in Z
      BY ONLY <1>7, <2>5, <2>6, <2>7, <3>1
    <3>2. CASE i \notin Z
      BY ONLY <1>7, <2>5, <2>6, <2>7, <3>2
    <3> QED
      BY ONLY <3>1, <3>2
  <2>10. PICK b : b = g[i + 1]
    OBVIOUS
  <2>11. Via(F, a \o b) = Via(F, a) \o Via(F, b)
    <3>1. ViaBoth(F, a, b)
      BY ONLY <1>6, <2>4, <2>8, <2>10, ViaConcat
    <3> QED
      BY ONLY <3>1 DEF ViaBoth
  <2>12. f[i + 1] = Via(F, g[i])
    BY ONLY <2>1, <2>3, <2>4, <2>6, <2>9, <2>10, <2>11
  <2> QED
    BY ONLY <2>2, <2>12
<1>10. \A i \in 1 .. n + 1 : i \in P
  <2> HIDE DEF P
  <2> QED BY ONLY <1>8, <1>9, n \in Nat, Downward
<1>11. 1 \in 1 .. n + 1 /\ 1 \in P
  <2>1. 1 \in 1 .. n + 1
    OBVIOUS
  <2> HIDE DEF P
  <2> QED BY ONLY <1>10, <2>1
<1>12. f[1 + 1] = Via(F, g[1])
  BY ONLY <1>11
<1>13. f[1] = (IF 1 \in S THEN <<1>> ELSE <<>>) \o f[1 + 1]
  BY ONLY <1>3, <1>11
<1> QED
  BY ONLY <1>a, <1>1, <1>2, <1>12, <1>13

(* Of a list with an entry in front, that entry or not, and the rest.      *)
LEMMA KeptCons ==
    ASSUME NEW T, NEW a \in T, NEW s \in Seq(T), NEW S
    PROVE  Kept(<<a>> \o s, S) = (IF 1 \in S THEN <<a>> ELSE <<>>) \o Kept(s, Later(S, Len(s)))
<1>1. PICK n, list : n = Len(s) /\ list = <<a>> \o s
  OBVIOUS
<1>2. /\ n \in Nat /\ list \in Seq(T) /\ Len(list) = n + 1
      /\ list[1] = a /\ \A k \in 1 .. n : list[k + 1] = s[k]
  BY ONLY <1>1, a \in T, s \in Seq(T)
<1>3. PICK F, Z, A : F = Onward(n) /\ Z = Later(S, n) /\ A = Ascending(Z, n)
  OBVIOUS
<1>4. A \in Seq(1 .. n)
  <2>1. A \in Seq(Z \cap 1 .. n)
    BY ONLY <1>2, <1>3, AscendingType
  <2>2. Z \cap 1 .. n \subseteq 1 .. n
    BY ONLY TRUE
  <2> QED
    BY ONLY <2>1, <2>2, SeqWithin
<1>5. PICK h : h = IF 1 \in S THEN <<1>> ELSE <<>>
  OBVIOUS
<1>6. Ascending(S, n + 1) = h \o Via(F, A)
  <2>1. Ascending(S, n + 1) = (IF 1 \in S THEN <<1>> ELSE <<>>) \o Via(Onward(n), Ascending(Later(S, n), n))
    BY ONLY <1>2, AscendingShift
  <2> QED
    BY ONLY <1>3, <1>5, <2>1
<1>7. F \in [1 .. n -> 1 .. n + 1] /\ \A i \in 1 .. n : F[i] = i + 1
  BY ONLY <1>2, <1>3 DEF Onward
<1>8. list \in [1 .. n + 1 -> T]
  <2>1. n + 1 = Len(list)
    BY ONLY <1>2
  <2> QED
    BY ONLY <1>2, <2>1, SeqOn
<1>9. h \in Seq(1 .. n + 1)
  <2>1. 1 \in 1 .. n + 1
    BY ONLY <1>2
  <2>2. <<1>> \in Seq(1 .. n + 1)
    BY ONLY <2>1, ShortLists
  <2>3. <<>> \in Seq(1 .. n + 1)
    BY ONLY TRUE
  <2> QED
    BY ONLY <1>5, <2>2, <2>3
<1>10. Via(list, h) = IF 1 \in S THEN <<a>> ELSE <<>>
  <2>1. Via(list, <<>>) = <<>> /\ Via(list, <<1>>) = <<a>>
    BY ONLY <1>2 DEF Via
  <2> QED
    BY ONLY <1>5, <2>1
<1>11. PICK v : v = Via(F, A)
  OBVIOUS
<1>12. v \in Seq(1 .. n + 1) /\ Len(v) = Len(A) /\ \A k \in 1 .. Len(A) : v[k] = F[A[k]]
  <2>1. Mapped(v, F, A, 1 .. n + 1)
    BY ONLY <1>4, <1>7, <1>11, ViaType
  <2> QED
    BY ONLY <2>1 DEF Mapped
<1>13. Via(list, v) = Via(s, A)
  <2>1. ASSUME NEW k \in 1 .. Len(A) PROVE list[v[k]] = s[A[k]]
    <3>1. A[k] \in 1 .. n
      <4>1. A \in [1 .. Len(A) -> 1 .. n]
        BY ONLY <1>4, SeqOn
      <4> QED
        BY ONLY <4>1, k \in 1 .. Len(A)
    <3>2. v[k] = A[k] + 1
      BY ONLY <1>7, <1>12, <3>1, k \in 1 .. Len(A)
    <3> QED
      BY ONLY <1>2, <3>1, <3>2
  <2>2. DOMAIN v = 1 .. Len(A) /\ DOMAIN A = 1 .. Len(A)
    BY ONLY <1>4, <1>12
  <2> QED
    BY ONLY <2>1, <2>2 DEF Via
<1>14. Via(list, h \o v) = Via(list, h) \o Via(list, v)
  <2>1. ViaBoth(list, h, v)
    BY ONLY <1>8, <1>9, <1>12, ViaConcat
  <2> QED
    BY ONLY <2>1 DEF ViaBoth
<1>15. Kept(list, S) = Via(list, Ascending(S, n + 1)) /\ Kept(s, Z) = Via(s, A)
  BY ONLY <1>1, <1>2, <1>3 DEF Kept, Via
<1> QED
  BY ONLY <1>1, <1>3, <1>6, <1>10, <1>11, <1>13, <1>14, <1>15

(***************************************************************************)
(* The parameters of the dialog and those of the highlighter.              *)
(***************************************************************************)

NameEnd(t, i) == RunEnd(t, i + 1, WordChars)

ParamsFrom(f, t) ==
    /\ f \in [1 .. Len(t) + 1 -> Seq(Nat \X Nat)]
    /\ f[Len(t) + 1] = <<>>
    /\ \A i \in 1 .. Len(t) :
         /\ SkipFrom(t, i) # i => f[i] = f[SkipFrom(t, i)]
         /\ ParamAt(t, i) => f[i] = <<<<i, NameEnd(t, i)>>>> \o f[NameEnd(t, i)]
         /\ SkipFrom(t, i) = i /\ ~ ParamAt(t, i) => f[i] = f[i + 1]

(* A parameter is no quote and no comment.                                 *)
LEMMA ParamPlain ==
    ASSUME NEW D, NEW t \in Seq(D), NEW i \in 1 .. Len(t), ParamAt(t, i)
    PROVE  SkipFrom(t, i) = i
<1>1. t[i] \notin {"-", "/", "'", "\"", "backtick", "$"}
  BY DEF ParamAt
<1> QED
  BY <1>1, SkipIn

(* The dialog's parameters are what the walk over the text says.           *)
LEMMA PlaceholdersWalk ==
    ASSUME NEW D, NEW t \in Seq(D)
    PROVE  \E f : ParamsFrom(f, t) /\ Placeholders(t) = f[1]
<1> DEFINE n == Len(t)
           S == Nat \X Nat
           head == [i \in 1 .. n |-> IF ParamAt(t, i) THEN <<<<i, NameEnd(t, i)>>>> ELSE <<>>]
           next == [i \in 1 .. n |-> IF SkipFrom(t, i) # i THEN SkipFrom(t, i)
                                     ELSE IF ParamAt(t, i) THEN NameEnd(t, i) ELSE i + 1]
           Here(h, i) == CASE SkipFrom(t, i) # i -> h[SkipFrom(t, i)]
                           [] ParamAt(t, i)      -> <<<<i, NameEnd(t, i)>>>> \o h[NameEnd(t, i)]
                           [] OTHER              -> h[i + 1]
           From(h) == [i \in 1 .. n + 1 |-> IF i = n + 1 THEN <<>> ELSE Here(h, i)]
<1>1. n \in Nat /\ n + 1 \in Nat /\ n <= n + 1
  OBVIOUS
<1>2. ASSUME NEW i \in 1 .. n
      PROVE  /\ NameEnd(t, i) \in i + 1 .. n + 1
             /\ SkipFrom(t, i) \in i .. n + 1
             /\ ParamAt(t, i) => SkipFrom(t, i) = i
  <2>1. i + 1 \in Nat /\ i + 1 <= Len(t) + 1
    OBVIOUS
  <2>2. NameEnd(t, i) \in i + 1 .. Len(t) + 1
    BY <2>1, RunEndIs DEF NameEnd
  <2> QED
    BY <2>2, SkipIn, ParamPlain
<1>3. ASSUME NEW i \in 1 .. n
      PROVE  /\ head[i] = IF ParamAt(t, i) THEN <<<<i, NameEnd(t, i)>>>> ELSE <<>>
             /\ next[i] = IF SkipFrom(t, i) # i THEN SkipFrom(t, i)
                          ELSE IF ParamAt(t, i) THEN NameEnd(t, i) ELSE i + 1
  OBVIOUS
<1>4. ASSUME NEW i \in 1 .. n
      PROVE  head[i] \in Seq(S) /\ next[i] \in i + 1 .. n + 1
  <2>1. next[i] \in i + 1 .. n + 1
    <3>1. /\ NameEnd(t, i) \in i + 1 .. n + 1 /\ i + 1 \in i + 1 .. n + 1
          /\ SkipFrom(t, i) # i => SkipFrom(t, i) \in i + 1 .. n + 1
      <4>1. SkipFrom(t, i) \in i .. n + 1 /\ NameEnd(t, i) \in i + 1 .. n + 1 /\ i \in 1 .. n
        BY <1>2
      <4> HIDE DEF n
      <4> QED BY ONLY <1>1, <4>1
    <3> HIDE DEF next, n
    <3> QED BY ONLY <1>3, <3>1, i \in 1 .. n
  <2>2. <<i, NameEnd(t, i)>> \in S
    <3>1. i \in Nat /\ NameEnd(t, i) \in Nat
      BY <1>1, <1>2
    <3> QED
      BY <3>1
  <2>3. <<>> \in Seq(S) /\ <<<<i, NameEnd(t, i)>>>> \in Seq(S)
    <3> HIDE DEF S
    <3> QED BY <2>2, ShortLists
  <2> HIDE DEF head, S
  <2> QED
    BY <1>3, <2>1, <2>3
<1>5. PICK g : Walks(g, head, next, n, n + 1, S)
  <2> HIDE DEF n, head, next, S
  <2>1. Walkable(head, next, n, n + 1, S)
    BY <1>1, <1>4 DEF Walkable
  <2> QED
    BY <2>1, Walk
<1>6. g \in [1 .. n + 1 -> Seq(S)] /\ \A i \in 1 .. n + 1 : g[i] = IF i > n THEN <<>> ELSE head[i] \o g[next[i]]
  <2> HIDE DEF n, head, next, S
  <2> QED BY <1>5 DEF Walks
<1>7. g[n + 1] = <<>>
  <2>1. n + 1 \in 1 .. n + 1 /\ n + 1 > n
    BY <1>1
  <2> HIDE DEF n, head, next, S
  <2> QED BY <1>6, <2>1
<1>8. ASSUME NEW i \in 1 .. n
      PROVE  /\ SkipFrom(t, i) # i => g[i] = g[SkipFrom(t, i)]
             /\ ParamAt(t, i) => g[i] = <<<<i, NameEnd(t, i)>>>> \o g[NameEnd(t, i)]
             /\ SkipFrom(t, i) = i /\ ~ ParamAt(t, i) => g[i] = g[i + 1]
  <2>1. i \in 1 .. n + 1 /\ ~ (i > n)
    BY <1>1
  <2>2. g[i] = head[i] \o g[next[i]]
    <3> HIDE DEF n, head, next, S
    <3> QED BY <1>6, <2>1
  <2>3. next[i] \in 1 .. n + 1
    <3> HIDE DEF next, head, S
    <3>1. next[i] \in i + 1 .. n + 1
      BY <1>4
    <3> HIDE DEF n
    <3> QED BY <3>1, <1>1, <2>1
  <2>4. g[next[i]] \in Seq(S)
    <3> HIDE DEF n, head, next, S
    <3> QED BY <1>6, <2>3
  <2>5. <<>> \o g[next[i]] = g[next[i]]
    <3> HIDE DEF n, head, next, S
    <3> QED BY <2>4, ConcatEmptySeq
  <2> HIDE DEF n, head, next, S
  <2> QED
    BY <1>2, <1>3, <2>2, <2>5
<1>9. ParamsFrom(g, t)
  <2> HIDE DEF head, next
  <2> QED BY <1>6, <1>7, <1>8 DEF ParamsFrom
<1>10. ASSUME NEW h, NEW i \in 1 .. n
       PROVE  /\ SkipFrom(t, i) # i => Here(h, i) = h[SkipFrom(t, i)]
              /\ ParamAt(t, i) => Here(h, i) = <<<<i, NameEnd(t, i)>>>> \o h[NameEnd(t, i)]
              /\ SkipFrom(t, i) = i /\ ~ ParamAt(t, i) => Here(h, i) = h[i + 1]
  <2>1. ParamAt(t, i) => SkipFrom(t, i) = i
    BY <1>2
  <2>2. SkipFrom(t, i) # i => Here(h, i) = h[SkipFrom(t, i)]
    BY ONLY <2>1, Zenon
  <2>3. ParamAt(t, i) => Here(h, i) = <<<<i, NameEnd(t, i)>>>> \o h[NameEnd(t, i)]
    BY ONLY <2>1, Zenon
  <2>4. SkipFrom(t, i) = i /\ ~ ParamAt(t, i) => Here(h, i) = h[i + 1]
    BY ONLY Zenon
  <2> HIDE DEF Here
  <2> QED
    BY ONLY <2>2, <2>3, <2>4
<1>11. g = From(g)
  <2> SUFFICES ASSUME NEW i \in 1 .. n + 1 PROVE g[i] = IF i = n + 1 THEN <<>> ELSE Here(g, i)
    <3> HIDE DEF Here, S, head, next
    <3> QED BY <1>6
  <2>1. i # n + 1 => i \in 1 .. n
    BY <1>1
  <2> HIDE DEF Here, n, head, next, S
  <2> QED
    BY <1>7, <1>8, <1>10, <2>1
<1> DEFINE from == CHOOSE h : h = From(h)
<1>12. from = From(from)
  <2> HIDE DEF From
  <2> QED BY <1>11
<1>13. Placeholders(t) = from[1]
  BY DEF Placeholders, NameEnd
<1>14. \A i \in 1 .. n + 1 : (\A j \in i + 1 .. n + 1 : from[j] = g[j]) => from[i] = g[i]
  <2> SUFFICES ASSUME NEW i \in 1 .. n + 1, \A j \in i + 1 .. n + 1 : from[j] = g[j]
               PROVE  from[i] = g[i]
    OBVIOUS
  <2>1. from[i] = IF i = n + 1 THEN <<>> ELSE Here(from, i)
    <3> HIDE DEF from, Here
    <3> QED BY <1>12
  <2>2. CASE i = n + 1
    <3> HIDE DEF from, Here
    <3> QED BY <1>7, <2>1, <2>2
  <2>3. CASE i # n + 1
    <3>1. i \in 1 .. n /\ i + 1 \in i + 1 .. n + 1
      BY <1>1, <2>3
    <3>2. NameEnd(t, i) \in i + 1 .. n + 1 /\ (SkipFrom(t, i) # i => SkipFrom(t, i) \in i + 1 .. n + 1)
      <4> HIDE DEF n
      <4> QED BY <1>1, <1>2, <3>1
    <3> HIDE DEF from, Here, n
    <3>3. from[i] = Here(from, i)
      BY <2>1, <2>3
    <3>4. /\ SkipFrom(t, i) # i => Here(from, i) = from[SkipFrom(t, i)]
          /\ ParamAt(t, i) => Here(from, i) = <<<<i, NameEnd(t, i)>>>> \o from[NameEnd(t, i)]
          /\ SkipFrom(t, i) = i /\ ~ ParamAt(t, i) => Here(from, i) = from[i + 1]
      BY <1>10, <3>1, Zenon
    <3>5. /\ SkipFrom(t, i) # i => g[i] = g[SkipFrom(t, i)]
          /\ ParamAt(t, i) => g[i] = <<<<i, NameEnd(t, i)>>>> \o g[NameEnd(t, i)]
          /\ SkipFrom(t, i) = i /\ ~ ParamAt(t, i) => g[i] = g[i + 1]
      BY <1>8, <3>1, Zenon
    <3>6. /\ SkipFrom(t, i) # i => from[SkipFrom(t, i)] = g[SkipFrom(t, i)]
          /\ from[NameEnd(t, i)] = g[NameEnd(t, i)] /\ from[i + 1] = g[i + 1]
      BY <2>1, <3>1, <3>2
    <3> QED
      BY ONLY <3>3, <3>4, <3>5, <3>6
  <2> QED
    BY <2>2, <2>3
<1>15. 1 \in 1 .. n + 1 /\ from[1] = g[1]
  <2>1. 1 \in 1 .. n + 1
    BY <1>1
  <2> HIDE DEF from, n
  <2>2. Determined(from, g, n + 1)
    BY <1>1, <1>14 DEF Determined
  <2>3. SameUpTo(from, g, n + 1)
    BY <2>2, Agree
  <2> QED
    BY <2>1, <2>3 DEF SameUpTo
<1> HIDE DEF from
<1> QED
  BY <1>9, <1>13, <1>15

(* A sign after an exponent, where the two scans part.                     *)
SignedAt(t, k) == k \in 1 .. Len(t) /\ t[k] = "e" /\ At(t, k - 1) \in Digits \cup {"."} /\ At(t, k + 1) = "-"

(* A number goes on to its end over digits, points, exponents and signs,   *)
(* and takes a minus only after an exponent.                               *)
LEMMA NumberEndIs ==
    ASSUME NEW D, NEW t \in Seq(D), NEW i \in 1 .. Len(t), NumberAt(t, i)
    PROVE  /\ NumberEnd(t, i) \in i + 1 .. Len(t) + 1
           /\ \A j \in i .. NumberEnd(t, i) - 1 :
                t[j] \in Digits \cup {".", "e", "+"} \/ \E k \in 1 .. Len(t) : SignedAt(t, k)
<1> DEFINE Bare(j) == t[j] \in Digits \cup {"."}
           Fine(j) == t[j] \in Digits \cup {".", "e", "+"} \/ \E k \in 1 .. Len(t) : SignedAt(t, k)
<1>1. PICK n, whole : n = Len(t) /\ whole = RunEnd(t, i, Digits)
  OBVIOUS
<1>2. n \in Nat /\ i \in Nat /\ 1 <= i /\ i <= n /\ t \in [1 .. n -> D]
  BY <1>1
<1>3. \A k, x : At(t, k) = x /\ x # "" => k \in 1 .. n /\ t[k] = x
  BY <1>1 DEF At
<1>4. \A k \in 1 .. n : At(t, k) = t[k]
  BY <1>1 DEF At
<1>5. /\ whole \in i .. n + 1
      /\ \A j \in i .. whole - 1 : t[j] \in Digits
      /\ whole <= n => t[whole] \notin Digits
  BY <1>1, <1>2, RunEndIs
<1>6. "." \notin Digits /\ "." # "" /\ "e" # "" /\ "+" # "" /\ "-" # ""
  BY LettersApart
<1>7. PICK point : point = IF At(t, whole) = "." THEN RunEnd(t, whole + 1, Digits) ELSE whole
  OBVIOUS
<1>8. point \in i + 1 .. n + 1 /\ \A j \in i .. point - 1 : Bare(j)
  <2>1. CASE At(t, whole) = "."
    <3>1. whole \in 1 .. n /\ t[whole] = "."
      BY <1>3, <1>6, <2>1
    <3>2. whole + 1 \in Nat /\ whole + 1 <= Len(t) + 1
      BY <1>1, <1>2, <3>1
    <3>3. point \in whole + 1 .. n + 1 /\ \A j \in whole + 1 .. point - 1 : t[j] \in Digits
      BY <1>1, <1>7, <2>1, <3>2, RunEndIs
    <3>4. point \in i + 1 .. n + 1
      BY <1>2, <1>5, <3>3
    <3>5. ASSUME NEW j \in i .. point - 1 PROVE Bare(j)
      <4>1. j \in i .. whole - 1 \/ j = whole \/ j \in whole + 1 .. point - 1
        BY <1>2, <1>5, <3>3
      <4> QED
        BY <1>5, <3>1, <3>3, <4>1
    <3> QED
      BY <3>4, <3>5
  <2>2. CASE At(t, whole) # "."
    <3>1. t[i] \in Digits
      <4> SUFFICES ASSUME t[i] = "." PROVE FALSE
        BY DEF NumberAt
      <4>1. ~ (i \in i .. whole - 1)
        BY <1>5, <1>6
      <4>2. whole = i
        BY <1>2, <1>5, <4>1
      <4> QED
        BY <1>2, <1>4, <2>2, <4>2
    <3>2. whole # i
      BY <1>2, <1>5, <3>1
    <3> QED
      BY <1>2, <1>5, <1>7, <2>2, <3>2
  <2> QED
    BY <2>1, <2>2
<1>9. PICK sign : sign = IF At(t, point + 1) \in {"+", "-"} THEN point + 2 ELSE point + 1
  OBVIOUS
<1>10. NumberEnd(t, i) = IF At(t, point) = "e" THEN RunEnd(t, sign, Digits) ELSE point
  BY <1>1, <1>7, <1>9 DEF NumberEnd
<1>11. CASE At(t, point) # "e"
  <2>1. NumberEnd(t, i) = point
    BY <1>10, <1>11
  <2>2. \A j : Bare(j) => Fine(j)
    OBVIOUS
  <2> HIDE DEF Bare, Fine
  <2>3. \A j \in i .. NumberEnd(t, i) - 1 : Fine(j)
    BY <1>8, <2>1, <2>2
  <2> QED
    BY <1>1, <1>8, <2>1, <2>3 DEF Fine
<1>12. CASE At(t, point) = "e"
  <2>1. point \in 1 .. n /\ t[point] = "e"
    BY <1>3, <1>6, <1>12
  <2>2. PICK end : end = NumberEnd(t, i)
    OBVIOUS
  <2>3. end = RunEnd(t, sign, Digits)
    BY <1>10, <1>12, <2>2
  <2>4. At(t, point + 1) \in {"+", "-"} => point + 1 \in 1 .. n /\ t[point + 1] = At(t, point + 1)
    BY <1>3, <1>6
  <2>5. sign \in {point + 1, point + 2} /\ sign \in Nat /\ sign <= Len(t) + 1
    BY <1>1, <1>9, <2>1, <2>4
  <2>6. end \in sign .. n + 1 /\ \A j \in sign .. end - 1 : t[j] \in Digits
    BY <1>1, <2>3, <2>5, RunEndIs
  <2>7. end \in i + 1 .. n + 1
    BY <1>2, <1>8, <2>1, <2>5, <2>6
  <2>8. sign = point + 2 => Fine(point + 1)
    <3> SUFFICES ASSUME sign = point + 2 PROVE Fine(point + 1)
      OBVIOUS
    <3>1. At(t, point + 1) \in {"+", "-"}
      BY <1>9, <2>1
    <3>2. CASE At(t, point + 1) = "-"
      <4>1. point - 1 \in i .. point - 1 /\ point - 1 \in 1 .. n
        BY <1>2, <1>8
      <4>2. At(t, point - 1) \in Digits \cup {"."}
        BY <1>4, <1>8, <4>1
      <4>3. SignedAt(t, point)
        BY <1>1, <2>1, <3>2, <4>2 DEF SignedAt
      <4> QED
        BY <1>1, <2>1, <4>3
    <3>3. CASE At(t, point + 1) = "+"
      BY <2>4, <3>3
    <3> QED
      BY <3>1, <3>2, <3>3
  <2>9. ASSUME NEW j \in i .. end - 1 PROVE Fine(j)
    <3>1. j \in i .. point - 1 \/ j = point \/ (j = point + 1 /\ sign = point + 2) \/ j \in sign .. end - 1
      BY <1>2, <1>8, <2>1, <2>5, <2>6
    <3>2. CASE j \in i .. point - 1
      BY <1>8, <3>2
    <3>3. CASE j = point
      BY <2>1, <3>3
    <3>4. CASE j = point + 1 /\ sign = point + 2
      BY <2>8, <3>4
    <3>5. CASE j \in sign .. end - 1
      BY <2>6, <3>5
    <3> QED
      BY <3>1, <3>2, <3>3, <3>4, <3>5
  <2> QED
    BY <1>1, <2>2, <2>7, <2>9
<1> QED
  BY <1>11, <1>12

Colours == {"keyword", "string", "comment", "number", "param"}
Tokens  == [from : Nat, end : Nat, kind : Colours]

WordEnd(t, i) == RunEnd(t, i, WordChars)
Other(t, i)   == SkipFrom(t, i) = i /\ ~ NumberAt(t, i) /\ t[i] \notin Letters /\ ~ ParamAt(t, i)

TokensFrom(f, t) ==
    /\ f \in [1 .. Len(t) + 1 -> Seq(Tokens)]
    /\ f[Len(t) + 1] = <<>>
    /\ \A i \in 1 .. Len(t) :
         /\ SkipFrom(t, i) # i => \E kind \in {"comment", "string"} :
                f[i] = Token(i, SkipFrom(t, i), kind) \o f[SkipFrom(t, i)]
         /\ SkipFrom(t, i) = i /\ NumberAt(t, i) =>
                f[i] = Token(i, NumberEnd(t, i), "number") \o f[NumberEnd(t, i)]
         /\ t[i] \in Letters => f[i] = KeywordToken(t, i, WordEnd(t, i)) \o f[WordEnd(t, i)]
         /\ ParamAt(t, i) => f[i] = ParamToken(i, NameEnd(t, i)) \o f[NameEnd(t, i)]
         /\ Other(t, i) => f[i] = f[i + 1]

(* Which of the two a skip is.                                             *)
SkipKind(t, i)  == IF t[i] \in {"-", "/"} THEN "comment" ELSE "string"
SkipsFrom(f, t) == \A i \in 1 .. Len(t) :
    SkipFrom(t, i) # i => f[i] = Token(i, SkipFrom(t, i), SkipKind(t, i)) \o f[SkipFrom(t, i)]

(* No two of the five can be meant.                                        *)
LEMMA OneReading ==
    ASSUME NEW D, NEW t \in Seq(D), NEW i \in 1 .. Len(t)
    PROVE  /\ t[i] \in Letters => SkipFrom(t, i) = i /\ ~ NumberAt(t, i) /\ ~ ParamAt(t, i)
           /\ ParamAt(t, i) => SkipFrom(t, i) = i /\ ~ NumberAt(t, i) /\ t[i] \notin Letters
<1>1. ASSUME t[i] \in Letters
      PROVE  SkipFrom(t, i) = i /\ ~ NumberAt(t, i) /\ ~ ParamAt(t, i)
  <2>1. t[i] \in WordChars
    BY <1>1 DEF WordChars
  <2>2. t[i] \notin {"", "-", "/", "'", "\"", "backtick", "$", ":", ".", "+", "semicolon"} /\ t[i] \notin Digits
    BY <1>1, <2>1, Apartness
  <2>3. SkipFrom(t, i) = i
    BY <2>2, SkipIn
  <2> QED
    BY <2>2, <2>3 DEF NumberAt, ParamAt
<1>2. ASSUME ParamAt(t, i)
      PROVE  SkipFrom(t, i) = i /\ ~ NumberAt(t, i) /\ t[i] \notin Letters
  <2>1. SkipFrom(t, i) = i /\ t[i] = ":"
    BY <1>2, ParamPlain DEF ParamAt
  <2>2. t[i] \notin WordChars
    BY <2>1, Apartness
  <2> QED
    BY <2>1, <2>2 DEF NumberAt, WordChars
<1> QED
  BY <1>1, <1>2

(* The highlighter's tokens are what its walk over the text says.          *)
LEMMA TokenizeWalk ==
    ASSUME NEW D, NEW t \in Seq(D)
    PROVE  \E f : TokensFrom(f, t) /\ SkipsFrom(f, t) /\ Tokenize(t) = f[1]
<1> DEFINE n == Len(t)
           T == Tokens
           Kind(i) == IF t[i] \in {"-", "/"} THEN "comment" ELSE "string"
           Skips(i) == SkipFrom(t, i) # i
           Counts(i) == SkipFrom(t, i) = i /\ NumberAt(t, i)
           Names(i) == t[i] \in Letters
           Asks(i) == ParamAt(t, i)
           head == [i \in 1 .. n |-> IF Skips(i) THEN Token(i, SkipFrom(t, i), Kind(i))
                                     ELSE IF Counts(i) THEN Token(i, NumberEnd(t, i), "number")
                                     ELSE IF Names(i) THEN KeywordToken(t, i, WordEnd(t, i))
                                     ELSE IF Asks(i) THEN ParamToken(i, NameEnd(t, i)) ELSE <<>>]
           next == [i \in 1 .. n |-> IF Skips(i) THEN SkipFrom(t, i)
                                     ELSE IF Counts(i) THEN NumberEnd(t, i)
                                     ELSE IF Names(i) THEN WordEnd(t, i)
                                     ELSE IF Asks(i) THEN NameEnd(t, i) ELSE i + 1]
           Here(h, i) ==
              CASE SkipFrom(t, i) # i ->
                     Token(i, SkipFrom(t, i), IF t[i] \in {"-", "/"} THEN "comment" ELSE "string") \o h[SkipFrom(t, i)]
                [] SkipFrom(t, i) = i /\ NumberAt(t, i) ->
                     Token(i, NumberEnd(t, i), "number") \o h[NumberEnd(t, i)]
                [] t[i] \in Letters -> KeywordToken(t, i, WordEnd(t, i)) \o h[WordEnd(t, i)]
                [] ParamAt(t, i)    -> ParamToken(i, NameEnd(t, i)) \o h[NameEnd(t, i)]
                [] OTHER -> h[i + 1]
           From(h) == [i \in 1 .. n + 1 |-> IF i = n + 1 THEN <<>> ELSE Here(h, i)]
<1>1. n \in Nat /\ n + 1 \in Nat /\ n <= n + 1
  OBVIOUS
<1>2. ASSUME NEW i \in 1 .. n
      PROVE  /\ Skips(i) => SkipFrom(t, i) \in i + 1 .. n + 1
             /\ NumberAt(t, i) => NumberEnd(t, i) \in i + 1 .. n + 1
             /\ Names(i) => WordEnd(t, i) \in i + 1 .. n + 1
             /\ NameEnd(t, i) \in i + 1 .. n + 1
             /\ i + 1 \in i + 1 .. n + 1
  <2>1. i + 1 \in Nat /\ i + 1 <= Len(t) + 1 /\ i \in Nat /\ i <= Len(t) + 1
    OBVIOUS
  <2>2. NameEnd(t, i) \in i + 1 .. Len(t) + 1
    BY <2>1, RunEndIs DEF NameEnd
  <2>3. NumberAt(t, i) => NumberEnd(t, i) \in i + 1 .. n + 1
    BY NumberEndIs
  <2>4. SkipFrom(t, i) \in i .. n + 1
    BY SkipIn
  <2>5. WordEnd(t, i) \in i .. n + 1 /\ (WordEnd(t, i) <= n => t[WordEnd(t, i)] \notin WordChars)
    BY <2>1, RunEndIs DEF WordEnd
  <2>6. Names(i) => WordEnd(t, i) # i
    BY <2>5 DEF WordChars
  <2>7. Skips(i) => SkipFrom(t, i) \in i + 1 .. n + 1
    <3> HIDE DEF n
    <3> QED BY <1>1, <2>4
  <2>8. Names(i) => WordEnd(t, i) \in i + 1 .. n + 1
    <3> HIDE DEF n
    <3> QED BY <1>1, <2>5, <2>6
  <2> QED
    BY <1>1, <2>2, <2>3, <2>7, <2>8
<1>3. ASSUME NEW i \in 1 .. n
      PROVE  /\ head[i] = IF Skips(i) THEN Token(i, SkipFrom(t, i), Kind(i))
                          ELSE IF Counts(i) THEN Token(i, NumberEnd(t, i), "number")
                          ELSE IF Names(i) THEN KeywordToken(t, i, WordEnd(t, i))
                          ELSE IF Asks(i) THEN ParamToken(i, NameEnd(t, i)) ELSE <<>>
             /\ next[i] = IF Skips(i) THEN SkipFrom(t, i)
                          ELSE IF Counts(i) THEN NumberEnd(t, i)
                          ELSE IF Names(i) THEN WordEnd(t, i)
                          ELSE IF Asks(i) THEN NameEnd(t, i) ELSE i + 1
  <2> HIDE DEF Skips, Counts, Names, Asks, Kind
  <2> QED OBVIOUS
<1>a. ASSUME NEW i \in Nat, NEW e \in Nat, NEW k \in Colours
      PROVE  Token(i, e, k) \in Seq(T)
  <2>1. [from |-> i, end |-> e, kind |-> k] \in T
    BY DEF Tokens
  <2> HIDE DEF T
  <2> QED
    BY <2>1, ShortLists DEF Token
<1>b. \A i : Kind(i) \in {"comment", "string"}
  OBVIOUS
<1>c. "number" \in Colours /\ "keyword" \in Colours /\ "param" \in Colours /\ "comment" \in Colours /\ "string" \in Colours
  BY DEF Colours
<1>4. ASSUME NEW i \in 1 .. n
      PROVE  next[i] \in i + 1 .. n + 1
  <2> HIDE DEF next, head, n, Skips, Names, Asks, Kind
  <2>1. Counts(i) => NumberAt(t, i)
    OBVIOUS
  <2> HIDE DEF Counts
  <2>2. /\ Skips(i) => SkipFrom(t, i) \in i + 1 .. n + 1
        /\ NumberAt(t, i) => NumberEnd(t, i) \in i + 1 .. n + 1
        /\ Names(i) => WordEnd(t, i) \in i + 1 .. n + 1
        /\ NameEnd(t, i) \in i + 1 .. n + 1
        /\ i + 1 \in i + 1 .. n + 1
    BY <1>2
  <2>3. next[i] = IF Skips(i) THEN SkipFrom(t, i)
                          ELSE IF Counts(i) THEN NumberEnd(t, i)
                          ELSE IF Names(i) THEN WordEnd(t, i)
                          ELSE IF Asks(i) THEN NameEnd(t, i) ELSE i + 1
    BY <1>3
  <2> QED
    BY ONLY <2>1, <2>2, <2>3, Zenon
<1>5. ASSUME NEW i \in 1 .. n
      PROVE  head[i] \in Seq(T)
  <2>1. /\ i \in Nat /\ NameEnd(t, i) \in Nat
        /\ Skips(i) => SkipFrom(t, i) \in Nat
        /\ Counts(i) => NumberEnd(t, i) \in Nat
        /\ Names(i) => WordEnd(t, i) \in Nat
    BY <1>1, <1>2
  <2>2. <<>> \in Seq(T)
    OBVIOUS
  <2> HIDE DEF T, Skips, Names, Asks, Counts, Kind, head, next, n
  <2>3. Skips(i) => Token(i, SkipFrom(t, i), Kind(i)) \in Seq(T)
    BY <1>a, <1>b, <1>c, <2>1
  <2>4. Counts(i) => Token(i, NumberEnd(t, i), "number") \in Seq(T)
    BY <1>a, <1>c, <2>1
  <2>5. Names(i) => KeywordToken(t, i, WordEnd(t, i)) \in Seq(T)
    BY <1>a, <1>c, <2>1, <2>2 DEF KeywordToken
  <2>6. ParamToken(i, NameEnd(t, i)) \in Seq(T)
    BY <1>a, <1>c, <2>1 DEF ParamToken
  <2> QED
    BY <1>3, <2>2, <2>3, <2>4, <2>5, <2>6
<1>6. PICK g : Walks(g, head, next, n, n + 1, T)
  <2> HIDE DEF n, head, next, T
  <2>1. Walkable(head, next, n, n + 1, T)
    BY <1>1, <1>4, <1>5 DEF Walkable
  <2> QED
    BY <2>1, Walk
<1>7. g \in [1 .. n + 1 -> Seq(T)] /\ \A i \in 1 .. n + 1 : g[i] = IF i > n THEN <<>> ELSE head[i] \o g[next[i]]
  <2> HIDE DEF n, head, next, T
  <2> QED BY <1>6 DEF Walks
<1>8. g[n + 1] = <<>>
  <2>1. n + 1 \in 1 .. n + 1 /\ n + 1 > n
    BY <1>1
  <2> HIDE DEF n, head, next, T
  <2> QED BY <1>7, <2>1
<1>9. ASSUME NEW i \in 1 .. n
      PROVE  /\ Skips(i) => g[i] = Token(i, SkipFrom(t, i), Kind(i)) \o g[SkipFrom(t, i)]
             /\ Counts(i) => g[i] = Token(i, NumberEnd(t, i), "number") \o g[NumberEnd(t, i)]
             /\ Names(i) => g[i] = KeywordToken(t, i, WordEnd(t, i)) \o g[WordEnd(t, i)]
             /\ Asks(i) => g[i] = ParamToken(i, NameEnd(t, i)) \o g[NameEnd(t, i)]
             /\ ~ Skips(i) /\ ~ Counts(i) /\ ~ Names(i) /\ ~ Asks(i) => g[i] = g[i + 1]
  <2>1. i \in 1 .. n + 1 /\ ~ (i > n)
    BY <1>1
  <2>2. g[i] = head[i] \o g[next[i]]
    <3> HIDE DEF n, head, next, T
    <3> QED BY <1>7, <2>1
  <2>3. next[i] \in 1 .. n + 1
    <3>1. next[i] \in i + 1 .. n + 1
      <4> HIDE DEF next, head, T
      <4> QED BY <1>4
    <3> HIDE DEF n, next, head, T
    <3> QED BY <3>1, <1>1, <2>1
  <2>4. g[next[i]] \in Seq(T)
    <3> HIDE DEF n, head, next, T
    <3> QED BY <1>7, <2>3
  <2>5. <<>> \o g[next[i]] = g[next[i]]
    <3> HIDE DEF n, head, next, T
    <3> QED BY <2>4, ConcatEmptySeq
  <2>6. /\ Names(i) => ~ Skips(i) /\ ~ Counts(i) /\ ~ Asks(i)
        /\ Asks(i) => ~ Skips(i) /\ ~ Counts(i) /\ ~ Names(i)
        /\ Counts(i) => ~ Skips(i)
    BY OneReading
  <2> HIDE DEF n, head, next, T, Skips, Names, Asks, Counts, Kind
  <2> QED
    BY <1>3, <2>2, <2>5, <2>6
<1>10. TokensFrom(g, t)
  <2> SUFFICES ASSUME NEW i \in 1 .. n
               PROVE  /\ SkipFrom(t, i) # i => \E kind \in {"comment", "string"} :
                             g[i] = Token(i, SkipFrom(t, i), kind) \o g[SkipFrom(t, i)]
                      /\ SkipFrom(t, i) = i /\ NumberAt(t, i) =>
                             g[i] = Token(i, NumberEnd(t, i), "number") \o g[NumberEnd(t, i)]
                      /\ t[i] \in Letters => g[i] = KeywordToken(t, i, WordEnd(t, i)) \o g[WordEnd(t, i)]
                      /\ ParamAt(t, i) => g[i] = ParamToken(i, NameEnd(t, i)) \o g[NameEnd(t, i)]
                      /\ Other(t, i) => g[i] = g[i + 1]
    <3> HIDE DEF head, next
    <3> QED BY <1>7, <1>8 DEF TokensFrom
  <2>1. /\ Skips(i) => g[i] = Token(i, SkipFrom(t, i), Kind(i)) \o g[SkipFrom(t, i)]
        /\ Counts(i) => g[i] = Token(i, NumberEnd(t, i), "number") \o g[NumberEnd(t, i)]
        /\ Names(i) => g[i] = KeywordToken(t, i, WordEnd(t, i)) \o g[WordEnd(t, i)]
        /\ Asks(i) => g[i] = ParamToken(i, NameEnd(t, i)) \o g[NameEnd(t, i)]
        /\ ~ Skips(i) /\ ~ Counts(i) /\ ~ Names(i) /\ ~ Asks(i) => g[i] = g[i + 1]
    BY <1>9
  <2>2. Kind(i) \in {"comment", "string"}
    BY <1>b
  <2>3. Other(t, i) <=> ~ Skips(i) /\ ~ Counts(i) /\ ~ Names(i) /\ ~ Asks(i)
    BY DEF Other
  <2> HIDE DEF n, head, next, T, Kind
  <2> QED
    BY ONLY <2>1, <2>2, <2>3, Zenon
<1>s. SkipsFrom(g, t)
  <2>1. \A i \in 1 .. n : Skips(i) => g[i] = Token(i, SkipFrom(t, i), Kind(i)) \o g[SkipFrom(t, i)]
    BY <1>9
  <2> HIDE DEF head, next
  <2> QED
    BY ONLY <2>1 DEF SkipsFrom, SkipKind
<1>11. ASSUME NEW h, NEW i \in 1 .. n
       PROVE  /\ Skips(i) => Here(h, i) = Token(i, SkipFrom(t, i), Kind(i)) \o h[SkipFrom(t, i)]
              /\ Counts(i) => Here(h, i) = Token(i, NumberEnd(t, i), "number") \o h[NumberEnd(t, i)]
              /\ Names(i) => Here(h, i) = KeywordToken(t, i, WordEnd(t, i)) \o h[WordEnd(t, i)]
              /\ Asks(i) => Here(h, i) = ParamToken(i, NameEnd(t, i)) \o h[NameEnd(t, i)]
              /\ ~ Skips(i) /\ ~ Counts(i) /\ ~ Names(i) /\ ~ Asks(i) => Here(h, i) = h[i + 1]
  <2>1. /\ Names(i) => ~ Skips(i) /\ ~ Counts(i) /\ ~ Asks(i)
        /\ Asks(i) => ~ Skips(i) /\ ~ Counts(i) /\ ~ Names(i)
        /\ Counts(i) => ~ Skips(i)
    BY OneReading
  <2>2. Skips(i) => Here(h, i) = Token(i, SkipFrom(t, i), Kind(i)) \o h[SkipFrom(t, i)]
    BY ONLY <2>1, Zenon
  <2>3. Counts(i) => Here(h, i) = Token(i, NumberEnd(t, i), "number") \o h[NumberEnd(t, i)]
    BY ONLY <2>1, Zenon
  <2>4. Names(i) => Here(h, i) = KeywordToken(t, i, WordEnd(t, i)) \o h[WordEnd(t, i)]
    BY ONLY <2>1, Zenon
  <2>5. Asks(i) => Here(h, i) = ParamToken(i, NameEnd(t, i)) \o h[NameEnd(t, i)]
    BY ONLY <2>1, Zenon
  <2>6. ~ Skips(i) /\ ~ Counts(i) /\ ~ Names(i) /\ ~ Asks(i) => Here(h, i) = h[i + 1]
    BY ONLY Zenon
  <2> HIDE DEF Here, Skips, Names, Asks, Counts, Kind
  <2> QED
    BY ONLY <2>2, <2>3, <2>4, <2>5, <2>6
<1>12. g = From(g)
  <2> SUFFICES ASSUME NEW i \in 1 .. n + 1 PROVE g[i] = IF i = n + 1 THEN <<>> ELSE Here(g, i)
    <3> HIDE DEF Here, T, head, next
    <3> QED BY <1>7
  <2>1. i # n + 1 => i \in 1 .. n
    BY <1>1
  <2> HIDE DEF Here, n, head, next, T, Skips, Names, Asks, Counts, Kind
  <2> QED
    BY <1>8, <1>9, <1>11, <2>1
<1> DEFINE from == CHOOSE h : h = From(h)
<1>13. from = From(from)
  <2> HIDE DEF From
  <2> QED BY <1>12
<1>14. Tokenize(t) = from[1]
  BY DEF Tokenize, NameEnd, WordEnd
<1>15. \A i \in 1 .. n + 1 : (\A j \in i + 1 .. n + 1 : from[j] = g[j]) => from[i] = g[i]
  <2> SUFFICES ASSUME NEW i \in 1 .. n + 1, \A j \in i + 1 .. n + 1 : from[j] = g[j]
               PROVE  from[i] = g[i]
    OBVIOUS
  <2>1. from[i] = IF i = n + 1 THEN <<>> ELSE Here(from, i)
    <3> HIDE DEF from, Here
    <3> QED BY <1>13
  <2>2. CASE i = n + 1
    <3> HIDE DEF from, Here
    <3> QED BY <1>8, <2>1, <2>2
  <2>3. CASE i # n + 1
    <3>1. i \in 1 .. n
      BY <1>1, <2>3
    <3>2. Counts(i) => NumberAt(t, i)
      OBVIOUS
    <3> HIDE DEF from, Here, n, head, next, T, Skips, Names, Asks, Counts, Kind
    <3>3. /\ Skips(i) => from[SkipFrom(t, i)] = g[SkipFrom(t, i)]
          /\ Counts(i) => from[NumberEnd(t, i)] = g[NumberEnd(t, i)]
          /\ Names(i) => from[WordEnd(t, i)] = g[WordEnd(t, i)]
          /\ from[NameEnd(t, i)] = g[NameEnd(t, i)]
          /\ from[i + 1] = g[i + 1]
      BY <1>2, <3>1, <3>2
    <3>4. from[i] = Here(from, i)
      BY <2>1, <2>3
    <3>a. /\ Skips(i) => Here(from, i) = Token(i, SkipFrom(t, i), Kind(i)) \o from[SkipFrom(t, i)]
          /\ Counts(i) => Here(from, i) = Token(i, NumberEnd(t, i), "number") \o from[NumberEnd(t, i)]
          /\ Names(i) => Here(from, i) = KeywordToken(t, i, WordEnd(t, i)) \o from[WordEnd(t, i)]
          /\ Asks(i) => Here(from, i) = ParamToken(i, NameEnd(t, i)) \o from[NameEnd(t, i)]
      BY <1>11, <3>1, Zenon
    <3>b. /\ Skips(i) => g[i] = Token(i, SkipFrom(t, i), Kind(i)) \o g[SkipFrom(t, i)]
          /\ Counts(i) => g[i] = Token(i, NumberEnd(t, i), "number") \o g[NumberEnd(t, i)]
          /\ Names(i) => g[i] = KeywordToken(t, i, WordEnd(t, i)) \o g[WordEnd(t, i)]
          /\ Asks(i) => g[i] = ParamToken(i, NameEnd(t, i)) \o g[NameEnd(t, i)]
      BY <1>9, <3>1, Zenon
    <3>5. Skips(i) => from[i] = g[i]
      BY ONLY <3>3, <3>4, <3>a, <3>b
    <3>6. Counts(i) => from[i] = g[i]
      BY ONLY <3>3, <3>4, <3>a, <3>b
    <3>7. Names(i) => from[i] = g[i]
      BY ONLY <3>3, <3>4, <3>a, <3>b
    <3>8. Asks(i) => from[i] = g[i]
      BY ONLY <3>3, <3>4, <3>a, <3>b
    <3>9. ~ Skips(i) /\ ~ Counts(i) /\ ~ Names(i) /\ ~ Asks(i) => from[i] = g[i]
      BY <1>9, <1>11, <3>1, <3>3, <3>4
    <3> QED
      BY ONLY <3>5, <3>6, <3>7, <3>8, <3>9
  <2> QED
    BY <2>2, <2>3
<1>16. 1 \in 1 .. n + 1 /\ from[1] = g[1]
  <2>1. 1 \in 1 .. n + 1
    BY <1>1
  <2> HIDE DEF from, n
  <2>2. Determined(from, g, n + 1)
    BY <1>1, <1>15 DEF Determined
  <2>3. SameUpTo(from, g, n + 1)
    BY <2>2, Agree
  <2> QED
    BY <2>1, <2>3 DEF SameUpTo
<1> HIDE DEF from
<1> QED
  BY <1>10, <1>s, <1>14, <1>16

(* Where nothing is skipped and no name begins, the walk says nothing.     *)
LEMMA RunThrough ==
    ASSUME NEW t, NEW f, ParamsFrom(f, t), NEW n \in Nat, n = Len(t),
           NEW i \in 1 .. n + 1, NEW e \in i .. n + 1,
           \A j \in i .. e - 1 : SkipFrom(t, j) = j /\ ~ ParamAt(t, j)
    PROVE  f[i] = f[e]
<1> DEFINE P == {k \in 0 .. e - i : f[i + k] = f[i]}
<1>1. e - i \in Nat
  OBVIOUS
<1>2. 0 \in P
  OBVIOUS
<1>3. ASSUME NEW k \in 0 .. e - i - 1, k \in P PROVE k + 1 \in P
  <2>1. i + k \in 1 .. n /\ i + k \in i .. e - 1 /\ k + 1 \in 0 .. e - i
    OBVIOUS
  <2>2. f[i + k] = f[i + k + 1]
    BY <2>1 DEF ParamsFrom
  <2>3. i + k + 1 = i + (k + 1)
    OBVIOUS
  <2>4. f[i + k] = f[i]
    BY <1>3
  <2> QED
    BY <2>1, <2>2, <2>3, <2>4
<1>4. \A k \in 0 .. e - i : k \in P
  <2> HIDE DEF P
  <2> QED BY <1>1, <1>2, <1>3, Upward
<1>5. e - i \in 0 .. e - i /\ i + (e - i) = e
  OBVIOUS
<1>6. f[i + (e - i)] = f[i]
  BY <1>4, <1>5
<1> QED
  BY <1>5, <1>6

Pairs == [x \in Tokens |-> <<x.from, x.end>>]

ParamsOf(tokens) == Via(Pairs, Kept(tokens, {k \in DOMAIN tokens : tokens[k].kind = "param"}))

LEMMA ParamsOfType ==
    ASSUME NEW s \in Seq(Tokens)
    PROVE  ParamsOf(s) \in Seq(Nat \X Nat)
<1>1. Pairs \in [Tokens -> Nat \X Nat]
  BY DEF Pairs, Tokens
<1>2. Kept(s, {k \in DOMAIN s : s[k].kind = "param"}) \in Seq(Tokens)
  BY KeptType
<1>3. PICK F, v, r : /\ F = Pairs /\ v = Kept(s, {k \in DOMAIN s : s[k].kind = "param"})
                     /\ r = Via(F, v)
  OBVIOUS
<1>4. Mapped(r, F, v, Nat \X Nat)
  BY ONLY <1>1, <1>2, <1>3, ViaType
<1> QED
  BY ONLY <1>3, <1>4 DEF Mapped, ParamsOf

LEMMA NoParams == ParamsOf(<<>>) = <<>>
<1>1. <<>> \in Seq({})
  OBVIOUS
<1>2. PICK S : S = {k \in DOMAIN <<>> : <<>>[k].kind = "param"}
  OBVIOUS
<1>3. Kept(<<>>, S) \in Seq({})
  BY ONLY <1>1, KeptType
<1>4. Kept(<<>>, S) = <<>>
  BY ONLY <1>3
<1>5. Via(Pairs, <<>>) = <<>>
  BY DEF Via
<1> QED
  BY ONLY <1>2, <1>4, <1>5 DEF ParamsOf

(* A token in front adds itself, when it is a parameter.                   *)
LEMMA ParamsCons ==
    ASSUME NEW a \in Tokens, NEW s \in Seq(Tokens)
    PROVE  ParamsOf(<<a>> \o s) = (IF a.kind = "param" THEN <<<<a.from, a.end>>>> ELSE <<>>) \o ParamsOf(s)
<1>1. PICK list, S, Z : /\ list = <<a>> \o s
                        /\ S = {k \in DOMAIN list : list[k].kind = "param"}
                        /\ Z = {k \in DOMAIN s : s[k].kind = "param"}
  OBVIOUS
<1>2. /\ Len(list) = Len(s) + 1 /\ DOMAIN list = 1 .. Len(s) + 1 /\ DOMAIN s = 1 .. Len(s) /\ Len(s) \in Nat
      /\ list[1] = a /\ \A k \in 1 .. Len(s) : list[k + 1] = s[k]
  BY ONLY <1>1, a \in Tokens, s \in Seq(Tokens)
<1>3. 1 \in S <=> a.kind = "param"
  BY ONLY <1>1, <1>2
<1>4. Later(S, Len(s)) = Z
  <2>1. \A k \in 1 .. Len(s) : k + 1 \in S <=> s[k].kind = "param"
    <3> SUFFICES ASSUME NEW k \in 1 .. Len(s) PROVE k + 1 \in S <=> s[k].kind = "param"
      OBVIOUS
    <3>1. k + 1 \in 1 .. Len(s) + 1 /\ list[k + 1] = s[k]
      BY ONLY <1>2, k \in 1 .. Len(s)
    <3> QED
      BY ONLY <1>1, <1>2, <3>1
  <2> QED
    BY ONLY <1>1, <1>2, <2>1 DEF Later
<1>5. PICK v, u : v = Kept(s, Z) /\ u = IF 1 \in S THEN <<a>> ELSE <<>>
  OBVIOUS
<1>6. Kept(list, S) = u \o v
  <2>1. Kept(<<a>> \o s, S) = (IF 1 \in S THEN <<a>> ELSE <<>>) \o Kept(s, Later(S, Len(s)))
    BY ONLY a \in Tokens, s \in Seq(Tokens), KeptCons, SMTT(30)
  <2> QED
    BY ONLY <1>1, <1>4, <1>5, <2>1
<1>7. PICK F : F = Pairs
  OBVIOUS
<1>8. F \in [Tokens -> Nat \X Nat] /\ F[a] = <<a.from, a.end>>
  BY ONLY <1>7, a \in Tokens DEF Pairs, Tokens
<1>9. v \in Seq(Tokens)
  BY ONLY <1>5, s \in Seq(Tokens), KeptType
<1>10. u \in Seq(Tokens)
  <2>1. <<a>> \in Seq(Tokens) /\ <<>> \in Seq(Tokens)
    BY ONLY a \in Tokens, ShortLists
  <2> QED
    BY ONLY <1>5, <2>1
<1>11. Via(F, u) = IF 1 \in S THEN <<<<a.from, a.end>>>> ELSE <<>>
  <2>1. Via(F, <<>>) = <<>> /\ Via(F, <<a>>) = <<F[a]>>
    BY ONLY TRUE DEF Via
  <2> QED
    BY ONLY <1>5, <1>8, <2>1
<1>12. Via(F, u \o v) = Via(F, u) \o Via(F, v)
  <2>1. ViaBoth(F, u, v)
    BY ONLY <1>8, <1>9, <1>10, ViaConcat
  <2> QED
    BY ONLY <2>1 DEF ViaBoth
<1>13. ParamsOf(list) = Via(F, Kept(list, S)) /\ ParamsOf(s) = Via(F, v)
  BY ONLY <1>1, <1>5, <1>7 DEF ParamsOf
<1> QED
  BY ONLY <1>1, <1>3, <1>6, <1>11, <1>12, <1>13

(* In every text without such a sign, both find the same parameters.       *)
LEMMA SameParams ==
    ASSUME NEW D, NEW t \in Seq(D), \A k \in 1 .. Len(t) : ~ SignedAt(t, k)
    PROVE  Placeholders(t) = ParamsOf(Tokenize(t))
<1>1. PICK n : n = Len(t)
  OBVIOUS
<1>2. n \in Nat
  BY <1>1
<1>3. PICK f : ParamsFrom(f, t) /\ Placeholders(t) = f[1]
  BY PlaceholdersWalk
<1>4. PICK g : TokensFrom(g, t) /\ Tokenize(t) = g[1]
  BY TokenizeWalk
<1>5. PICK h : h = [i \in 1 .. n + 1 |-> ParamsOf(g[i])]
  OBVIOUS
<1>6. \A i \in 1 .. n + 1 : h[i] = ParamsOf(g[i]) /\ g[i] \in Seq(Tokens) /\ h[i] \in Seq(Nat \X Nat)
  <2>1. \A i \in 1 .. n + 1 : g[i] \in Seq(Tokens)
    BY ONLY <1>1, <1>4 DEF TokensFrom
  <2> QED
    BY ONLY <1>5, <2>1, ParamsOfType
<1>7. ASSUME NEW i \in Nat, NEW e \in i + 1 .. n + 1, i >= 1, NEW kind \in Colours,
             g[i] = Token(i, e, kind) \o g[e]
      PROVE  h[i] = (IF kind = "param" THEN <<<<i, e>>>> ELSE <<>>) \o h[e]
  <2>1. PICK a : a = [from |-> i, end |-> e, kind |-> kind]
    OBVIOUS
  <2>2. e \in Nat /\ e \in 1 .. n + 1 /\ i \in 1 .. n + 1
    BY ONLY <1>2, <1>7
  <2>3. a \in Tokens /\ a.kind = kind /\ a.from = i /\ a.end = e
    BY ONLY <2>1, <2>2, i \in Nat, kind \in Colours DEF Tokens
  <2>4. g[i] = <<a>> \o g[e] /\ g[e] \in Seq(Tokens)
    BY ONLY <1>6, <1>7, <2>1, <2>2 DEF Token
  <2>5. PICK s : s = g[e]
    OBVIOUS
  <2>6. ParamsOf(<<a>> \o s) = (IF a.kind = "param" THEN <<<<a.from, a.end>>>> ELSE <<>>) \o ParamsOf(s)
    BY ONLY <2>3, <2>4, <2>5, ParamsCons
  <2> QED
    BY ONLY <1>6, <2>2, <2>3, <2>4, <2>5, <2>6
<1>8. \A i \in 1 .. n + 1 : <<>> \o h[i] = h[i]
  BY ONLY <1>6, ConcatEmptySeq
<1>9. /\ f[n + 1] = <<>>
      /\ \A i \in 1 .. n :
         /\ SkipFrom(t, i) # i => f[i] = f[SkipFrom(t, i)]
         /\ ParamAt(t, i) => f[i] = <<<<i, NameEnd(t, i)>>>> \o f[NameEnd(t, i)]
         /\ SkipFrom(t, i) = i /\ ~ ParamAt(t, i) => f[i] = f[i + 1]
  BY ONLY <1>1, <1>3 DEF ParamsFrom
<1>10. /\ g[n + 1] = <<>>
       /\ \A i \in 1 .. n :
         /\ SkipFrom(t, i) # i => \E kind \in {"comment", "string"} :
                g[i] = Token(i, SkipFrom(t, i), kind) \o g[SkipFrom(t, i)]
         /\ SkipFrom(t, i) = i /\ NumberAt(t, i) =>
                g[i] = Token(i, NumberEnd(t, i), "number") \o g[NumberEnd(t, i)]
         /\ t[i] \in Letters => g[i] = KeywordToken(t, i, WordEnd(t, i)) \o g[WordEnd(t, i)]
         /\ ParamAt(t, i) => g[i] = ParamToken(i, NameEnd(t, i)) \o g[NameEnd(t, i)]
         /\ Other(t, i) => g[i] = g[i + 1]
  BY ONLY <1>1, <1>4 DEF TokensFrom
<1>11. ASSUME NEW i \in 1 .. n, \A j \in i + 1 .. n + 1 : f[j] = h[j]
       PROVE  f[i] = h[i]
  <2>1. /\ i \in Nat /\ i >= 1 /\ i \in 1 .. n + 1 /\ i + 1 \in i + 1 .. n + 1
        /\ i + 1 <= n + 1 /\ i <= n + 1 /\ i + 1 \in Nat
        /\ \A e \in i + 1 .. n + 1 : e \in 1 .. n + 1 /\ e \in i .. n + 1
    BY ONLY <1>2, i \in 1 .. n
  <2>2. NameEnd(t, i) \in i + 1 .. n + 1
    BY ONLY <1>1, <2>1, t \in Seq(D), RunEndIs DEF NameEnd
  <2>3. "number" \in Colours /\ "keyword" \in Colours /\ "param" \in Colours /\ "comment" \in Colours /\ "string" \in Colours
    BY DEF Colours
  <2>4. CASE SkipFrom(t, i) # i
    <3>1. PICK e : e = SkipFrom(t, i)
      OBVIOUS
    <3>2. e \in i .. n + 1
      BY ONLY <1>1, <3>1, i \in 1 .. n, t \in Seq(D), SkipIn
    <3>3. e \in i + 1 .. n + 1
      BY ONLY <1>2, <2>1, <2>4, <3>1, <3>2
    <3>4. PICK kind \in {"comment", "string"} : g[i] = Token(i, e, kind) \o g[e]
      BY ONLY <1>10, <2>4, <3>1, i \in 1 .. n
    <3>5. kind \in Colours /\ kind # "param"
      BY ONLY <2>3, <3>4
    <3>6. h[i] = (IF kind = "param" THEN <<<<i, e>>>> ELSE <<>>) \o h[e]
      BY ONLY <1>7, <2>1, <3>3, <3>4, <3>5
    <3>7. h[i] = h[e]
      BY ONLY <1>8, <2>1, <3>3, <3>5, <3>6
    <3> QED
      BY ONLY <1>9, <1>11, <2>4, <3>1, <3>3, <3>7, i \in 1 .. n
  <2>5. CASE SkipFrom(t, i) = i /\ NumberAt(t, i)
    <3>1. PICK e : e = NumberEnd(t, i)
      OBVIOUS
    <3>2. /\ e \in i + 1 .. n + 1
          /\ \A j \in i .. e - 1 : t[j] \in Digits \cup {".", "e", "+"}
      <4>1. /\ NumberEnd(t, i) \in i + 1 .. Len(t) + 1
            /\ \A j \in i .. NumberEnd(t, i) - 1 :
                t[j] \in Digits \cup {".", "e", "+"} \/ \E k \in 1 .. Len(t) : SignedAt(t, k)
        BY ONLY <1>1, <2>5, i \in 1 .. n, t \in Seq(D), NumberEndIs
      <4> QED
        BY ONLY <1>1, <3>1, <4>1, \A k \in 1 .. Len(t) : ~ SignedAt(t, k)
    <3>3. ASSUME NEW j \in i .. e - 1 PROVE SkipFrom(t, j) = j /\ ~ ParamAt(t, j)
      <4>1. j \in 1 .. Len(t)
        BY ONLY <1>1, <1>2, <2>1, <3>2, j \in i .. e - 1
      <4>2. t[j] \notin {"-", "/", "'", "\"", "backtick", "$", ":"}
        <5>1. CASE t[j] \in Digits
          <6>1. t[j] \in WordChars
            BY ONLY <5>1 DEF WordChars
          <6> QED
            BY ONLY <6>1, Apartness
        <5>2. CASE t[j] \in {".", "e", "+"}
          BY ONLY <5>2
        <5> QED
          BY ONLY <3>2, <5>1, <5>2, j \in i .. e - 1
      <4>3. SkipFrom(t, j) = j
        BY ONLY <4>1, <4>2, t \in Seq(D), SkipIn
      <4> QED
        BY ONLY <4>2, <4>3 DEF ParamAt
    <3>4. e \in i .. n + 1
      BY ONLY <2>1, <3>2
    <3>5. f[i] = f[e]
      BY ONLY <1>1, <1>2, <1>3, <2>1, <3>3, <3>4, RunThrough
    <3>6. h[i] = (IF "number" = "param" THEN <<<<i, e>>>> ELSE <<>>) \o h[e]
      <4>1. g[i] = Token(i, e, "number") \o g[e]
        BY ONLY <1>10, <2>5, <3>1, i \in 1 .. n
      <4> QED
        BY ONLY <1>7, <2>1, <2>3, <3>2, <4>1
    <3>7. h[i] = h[e]
      BY ONLY <1>8, <2>1, <3>2, <3>6
    <3> QED
      BY ONLY <1>11, <3>2, <3>5, <3>7
  <2>6. CASE t[i] \in Letters
    <3>1. PICK e : e = WordEnd(t, i)
      OBVIOUS
    <3>2. /\ e \in i .. n + 1 /\ \A j \in i .. e - 1 : t[j] \in WordChars
          /\ e <= n => t[e] \notin WordChars
      BY ONLY <1>1, <2>1, <3>1, t \in Seq(D), RunEndIs DEF WordEnd
    <3>3. e \in i + 1 .. n + 1
      <4>1. t[i] \in WordChars
        BY ONLY <2>6 DEF WordChars
      <4>2. e # i
        BY ONLY <1>2, <3>2, <4>1, i \in 1 .. n
      <4> QED
        BY ONLY <1>2, <2>1, <3>2, <4>2
    <3>4. ASSUME NEW j \in i .. e - 1 PROVE SkipFrom(t, j) = j /\ ~ ParamAt(t, j)
      <4>1. j \in 1 .. Len(t)
        BY ONLY <1>1, <1>2, <2>1, <3>2, j \in i .. e - 1
      <4>2. t[j] \notin {"", "-", "/", "'", "\"", "backtick", "$", ":", ".", "+", "semicolon"}
        BY ONLY <3>2, j \in i .. e - 1, Apartness
      <4>3. SkipFrom(t, j) = j
        BY ONLY <4>1, <4>2, t \in Seq(D), SkipIn
      <4> QED
        BY ONLY <4>2, <4>3 DEF ParamAt
    <3>5. f[i] = f[e]
      BY ONLY <1>1, <1>2, <1>3, <2>1, <3>2, <3>4, RunThrough
    <3>6. g[i] = KeywordToken(t, i, e) \o g[e]
      BY ONLY <1>10, <2>6, <3>1, i \in 1 .. n
    <3>7. h[i] = h[e]
      <4>1. CASE IsKeyword(Upto(t, i, e))
        <5>1. g[i] = Token(i, e, "keyword") \o g[e]
          BY ONLY <3>6, <4>1 DEF KeywordToken
        <5>2. h[i] = (IF "keyword" = "param" THEN <<<<i, e>>>> ELSE <<>>) \o h[e]
          BY ONLY <1>7, <2>1, <2>3, <3>3, <5>1
        <5> QED
          BY ONLY <1>8, <2>1, <3>3, <5>2
      <4>2. CASE ~ IsKeyword(Upto(t, i, e))
        <5>1. g[e] \in Seq(Tokens)
          BY ONLY <1>6, <2>1, <3>3
        <5>2. g[i] = <<>> \o g[e]
          BY ONLY <3>6, <4>2 DEF KeywordToken
        <5>3. g[i] = g[e]
          BY ONLY <5>1, <5>2, ConcatEmptySeq
        <5> QED
          BY ONLY <1>6, <2>1, <3>3, <5>3
      <4> QED
        BY ONLY <4>1, <4>2
    <3> QED
      BY ONLY <1>11, <3>3, <3>5, <3>7
  <2>7. CASE ParamAt(t, i)
    <3>1. PICK e : e = NameEnd(t, i)
      OBVIOUS
    <3>2. g[i] = Token(i, e, "param") \o g[e]
      BY ONLY <1>10, <2>7, <3>1, i \in 1 .. n DEF ParamToken
    <3>3. h[i] = (IF "param" = "param" THEN <<<<i, e>>>> ELSE <<>>) \o h[e]
      BY ONLY <1>7, <2>1, <2>2, <2>3, <3>1, <3>2
    <3>4. f[i] = <<<<i, e>>>> \o f[e]
      BY ONLY <1>9, <2>7, <3>1, i \in 1 .. n
    <3> QED
      BY ONLY <1>11, <2>2, <3>1, <3>3, <3>4
  <2>8. CASE Other(t, i)
    <3>1. f[i] = f[i + 1]
      BY ONLY <1>9, <2>8, i \in 1 .. n DEF Other
    <3>2. g[i] = g[i + 1]
      BY ONLY <1>10, <2>8, i \in 1 .. n
    <3>3. h[i] = h[i + 1]
      BY ONLY <1>6, <2>1, <3>2
    <3> QED
      BY ONLY <1>11, <2>1, <3>1, <3>3
  <2> QED
    BY ONLY <2>4, <2>5, <2>6, <2>7, <2>8 DEF Other
<1>12. f[n + 1] = h[n + 1]
  <2>1. n + 1 \in 1 .. n + 1
    BY ONLY <1>2
  <2> QED
    BY ONLY <1>6, <1>9, <1>10, <2>1, NoParams
<1>13. f[1] = h[1] /\ 1 \in 1 .. n + 1
  <2>1. 1 \in 1 .. n + 1
    BY ONLY <1>2
  <2>2. \A i \in 1 .. n + 1 : i \in 1 .. n \/ i = n + 1
    BY ONLY <1>2
  <2>3. Determined(f, h, n + 1)
    <3>1. n + 1 \in Nat
      BY ONLY <1>2
    <3>2. \A i \in 1 .. n + 1 : (\A j \in i + 1 .. n + 1 : f[j] = h[j]) => f[i] = h[i]
      BY ONLY <1>11, <1>12, <2>2, Zenon
    <3> QED
      BY ONLY <3>1, <3>2 DEF Determined
  <2>4. SameUpTo(f, h, n + 1)
    BY ONLY <2>3, Agree
  <2> QED
    BY ONLY <2>1, <2>4 DEF SameUpTo
<1> QED
  BY ONLY <1>3, <1>4, <1>6, <1>13

(* A typed text grows by a key that the bound leaves room for, or is gone. *)
THEOREM TypingTypeCorrect == TypingSpec => []TypedOK
<1>1. TypingInit => TypedOK
  <2> SUFFICES ASSUME TypingInit PROVE TypedOK
    OBVIOUS
  <2>1. keys \in Keyboards /\ text = <<>>
    BY Zenon DEF TypingInit
  <2>2. <<>> \in Seq(STRING) /\ Len(<<>>) = 0
    OBVIOUS
  <2> QED
    BY MaxTypedNat, <2>1, <2>2 DEF TypedOK
<1>2. TypedOK /\ [TypingNext]_typingVars => TypedOK'
  <2> SUFFICES ASSUME TypedOK, [TypingNext]_typingVars PROVE TypedOK'
    OBVIOUS
  <2>0. keys \in Keyboards /\ text \in Seq(STRING) /\ Len(text) <= MaxTyped
    BY DEF TypedOK
  <2>1. CASE \E key \in keys : Press(key)
    <3>1. PICK key \in keys : Press(key)
      BY <2>1
    <3>2. key \in Seq(STRING)
      BY <2>0, KeysAreTexts
    <3>3. keys' = keys /\ text' = text \o key /\ Len(text) + Len(key) <= MaxTyped
      BY <3>1 DEF Press
    <3>4. text \o key \in Seq(STRING) /\ Len(text \o key) = Len(text) + Len(key)
      BY <2>0, <3>2
    <3> QED
      BY <2>0, <3>3, <3>4 DEF TypedOK
  <2>2. CASE Clear
    <3>1. text' = <<>> /\ keys' = keys
      BY <2>2 DEF Clear
    <3>2. <<>> \in Seq(STRING) /\ Len(<<>>) = 0
      OBVIOUS
    <3> QED
      BY MaxTypedNat, <2>0, <3>1, <3>2 DEF TypedOK
  <2>3. CASE UNCHANGED typingVars
    BY <2>0, <2>3 DEF TypedOK, typingVars
  <2> QED
    BY <2>1, <2>2, <2>3 DEF TypingNext
<1> QED
  BY <1>1, <1>2, PTL DEF TypingSpec

(* The dialog asks for exactly what the highlighter colours, whatever is   *)
(* typed around it: comments, quotes, casts, numbers, words.               *)
THEOREM ParamsColoured == TypingSpec => []ParamsHighlighted
<1>1. TypedOK => ParamsHighlighted
  <2> SUFFICES ASSUME TypedOK, ~ SignedExponent PROVE ParamsHighlighted
    BY DEF ParamsHighlighted
  <2>1. text \in Seq(STRING)
    BY DEF TypedOK
  <2>2. \A k \in 1 .. Len(text) : ~ SignedAt(text, k)
    BY <2>1 DEF SignedExponent, SignedAt
  <2>3. Placeholders(text) = ParamsOf(Tokenize(text))
    BY <2>1, <2>2, SameParams
  <2>4. Tokenize(text) \in Seq(Tokens)
    <3>1. PICK g : TokensFrom(g, text) /\ Tokenize(text) = g[1]
      BY <2>1, TokenizeWalk
    <3>2. 1 \in 1 .. Len(text) + 1
      BY <2>1
    <3> QED
      BY <3>1, <3>2 DEF TokensFrom
  <2>5. PICK tokens, coloured :
          /\ tokens = Tokenize(text)
          /\ coloured = Kept(tokens, {k \in DOMAIN tokens : tokens[k].kind = "param"})
    OBVIOUS
  <2>6. coloured \in Seq(Tokens)
    BY ONLY <2>4, <2>5, KeptType
  <2>7. \A k \in DOMAIN coloured : Pairs[coloured[k]] = <<coloured[k].from, coloured[k].end>>
    <3>1. \A k \in DOMAIN coloured : coloured[k] \in Tokens
      BY ONLY <2>6
    <3> QED
      BY ONLY <3>1 DEF Pairs
  <2>8. ParamsOf(tokens) = [k \in DOMAIN coloured |-> <<coloured[k].from, coloured[k].end>>]
    BY ONLY <2>5, <2>7 DEF ParamsOf, Via
  <2> QED
    BY ONLY <2>3, <2>5, <2>8 DEF ParamsHighlighted
<1> QED
  BY <1>1, TypingTypeCorrect, PTL

(***************************************************************************)
(* Run at the cursor and Run All read the same statements.                 *)
(***************************************************************************)

(* The segments lie between the semicolons.                                *)
SegmentedBy(t, cuts, m) ==
    /\ m \in Nat \ {0}
    /\ cuts \in [1 .. m + 1 -> 0 .. Len(t) + 1]
    /\ cuts[1] = 0 /\ cuts[m + 1] = Len(t) + 1
    /\ \A k, l \in 1 .. m + 1 : k < l => cuts[k] < cuts[l]
    /\ \A k \in 2 .. m : t[cuts[k]] = "semicolon"
    /\ \A x \in 1 .. Len(t) : t[x] = "semicolon" => \E k \in 2 .. m : cuts[k] = x
    /\ Segments(t) = [k \in 1 .. m |-> [offset |-> cuts[k], body |-> Upto(t, cuts[k] + 1, cuts[k + 1])]]

LEMMA SegmentsAre ==
    ASSUME NEW D, NEW t \in Seq(D)
    PROVE  \E cuts, m : SegmentedBy(t, cuts, m)
<1>1. PICK n, at : n = Len(t) /\ at = Ascending({i \in DOMAIN t : t[i] = "semicolon"}, n)
  OBVIOUS
<1>2. n \in Nat /\ DOMAIN t = 1 .. n
  BY <1>1
<1>3. InOrder(at, {i \in DOMAIN t : t[i] = "semicolon"}, 1, n)
  BY ONLY <1>1, <1>2, AscendingIs
<1>4. /\ at \in Seq(Nat)
      /\ \A k \in 1 .. Len(at) : t[at[k]] = "semicolon" /\ 1 <= at[k] /\ at[k] <= n /\ at[k] \in Nat
      /\ \A x \in 1 .. n : t[x] = "semicolon" => \E k \in 1 .. Len(at) : at[k] = x
      /\ \A k, l \in 1 .. Len(at) : k < l => at[k] < at[l]
  BY ONLY <1>2, <1>3 DEF InOrder
<1>5. PICK cuts, m : cuts = <<0>> \o at \o <<n + 1>> /\ m = Len(at) + 1
  OBVIOUS
<1>6. /\ m \in Nat \ {0} /\ Len(cuts) = m + 1 /\ DOMAIN cuts = 1 .. m + 1 /\ cuts \in Seq(Nat)
      /\ cuts[1] = 0 /\ cuts[m + 1] = n + 1
      /\ \A k \in 2 .. m : k - 1 \in 1 .. Len(at) /\ cuts[k] = at[k - 1]
  <2>1. <<0>> \in Seq(Nat) /\ <<n + 1>> \in Seq(Nat) /\ Len(<<0>>) = 1 /\ Len(<<n + 1>>) = 1
    BY <1>2
  <2>2. PICK u : u = <<0>> \o at
    OBVIOUS
  <2>3. u \in Seq(Nat) /\ Len(u) = m /\ u[1] = 0 /\ \A k \in 2 .. m : k - 1 \in 1 .. Len(at) /\ u[k] = at[k - 1]
    BY <1>4, <1>5, <2>2
  <2>4. cuts = u \o <<n + 1>>
    BY <1>5, <2>2
  <2>5. m \in Nat \ {0}
    BY <1>4, <1>5
  <2> QED
    BY ONLY <1>2, <2>3, <2>4, <2>5
<1>7. \A k \in 1 .. m + 1 : k = 1 \/ k = m + 1 \/ k \in 2 .. m
  BY <1>6
<1>8. ASSUME NEW k \in 2 .. m PROVE t[cuts[k]] = "semicolon" /\ cuts[k] >= 1 /\ cuts[k] <= n /\ cuts[k] \in Nat
  <2>1. k - 1 \in 1 .. Len(at) /\ cuts[k] = at[k - 1]
    BY <1>6
  <2> QED
    BY ONLY <1>4, <2>1
<1>9. cuts \in [1 .. m + 1 -> 0 .. n + 1]
  <2>1. \A k \in 1 .. m + 1 : cuts[k] \in 0 .. n + 1
    BY <1>2, <1>6, <1>7, <1>8
  <2> QED
    BY <1>6, <2>1
<1>10. ASSUME NEW k \in 1 .. m + 1, NEW l \in 1 .. m + 1, k < l PROVE cuts[k] < cuts[l]
  <2>1. k # m + 1 /\ l # 1
    BY <1>6, <1>10
  <2>2. CASE k = 1
    BY <1>2, <1>6, <1>7, <1>8, <2>1, <2>2
  <2>3. CASE k # 1 /\ l = m + 1
    BY <1>2, <1>6, <1>7, <1>8, <2>1, <2>3
  <2>4. CASE k # 1 /\ l # m + 1
    <3>1. k \in 2 .. m /\ l \in 2 .. m
      BY <1>7, <2>1, <2>4
    <3>2. k - 1 \in 1 .. Len(at) /\ l - 1 \in 1 .. Len(at) /\ k - 1 < l - 1
      BY <1>6, <1>10, <3>1
    <3> QED
      BY <1>4, <1>6, <3>1, <3>2
  <2> QED
    BY <2>2, <2>3, <2>4
<1>11. ASSUME NEW x \in 1 .. n, t[x] = "semicolon" PROVE \E k \in 2 .. m : cuts[k] = x
  <2>1. PICK k \in 1 .. Len(at) : at[k] = x
    BY <1>4, <1>11
  <2>2. k + 1 \in 2 .. m /\ k + 1 - 1 = k
    BY <1>4, <1>5
  <2>3. cuts[k + 1] = at[k + 1 - 1]
    BY ONLY <1>6, <2>2
  <2>4. cuts[k + 1] = x
    BY ONLY <2>1, <2>2, <2>3
  <2> QED
    BY ONLY <2>2, <2>4
<1>12. Segments(t) = [k \in 1 .. m |-> [offset |-> cuts[k], body |-> Upto(t, cuts[k] + 1, cuts[k + 1])]]
  <2>1. Len(cuts) - 1 = m
    BY <1>6
  <2> QED
    BY ONLY <1>1, <1>5, <2>1 DEF Segments
<1>13. SegmentedBy(t, cuts, m)
  BY <1>1, <1>6, <1>8, <1>9, <1>10, <1>11, <1>12 DEF SegmentedBy
<1> QED
  BY <1>13

(* What a segment is: a text of its own, with no semicolon.                *)
LEMMA SegmentIs ==
    ASSUME NEW D, NEW t \in Seq(D), NEW cuts, NEW m, SegmentedBy(t, cuts, m), NEW k \in 1 .. m
    PROVE  /\ Segments(t)[k].offset = cuts[k]
           /\ Segments(t)[k].body \in Seq(D)
           /\ Len(Segments(t)[k].body) = cuts[k + 1] - cuts[k] - 1
           /\ cuts[k] \in Nat /\ cuts[k + 1] \in Nat /\ cuts[k] < cuts[k + 1]
           /\ \A x \in 1 .. Len(Segments(t)[k].body) : Segments(t)[k].body[x] # "semicolon"
<1>1. PICK n, a, b : n = Len(t) /\ a = cuts[k] + 1 /\ b = cuts[k + 1]
  OBVIOUS
<1>2. /\ n \in Nat /\ m \in Nat /\ k \in 1 .. m + 1 /\ k + 1 \in 1 .. m + 1 /\ k < k + 1
      /\ cuts[k] \in 0 .. n + 1 /\ cuts[k + 1] \in 0 .. n + 1 /\ cuts[k] < cuts[k + 1]
  BY <1>1 DEF SegmentedBy
<1>3. a \in 1 .. n + 1 /\ b \in a .. n + 1
  BY <1>1, <1>2
<1>4. PICK p : p = Upto(t, a, b)
  OBVIOUS
<1>5. p \in Seq(D) /\ Len(p) = b - a /\ \A x \in 1 .. b - a : p[x] = t[a + x - 1] /\ a + x - 1 \in a .. b - 1
  <2>1. a \in 1 .. Len(t) + 1 /\ b \in a .. Len(t) + 1
    BY ONLY <1>1, <1>3
  <2>2. PieceOf(p, t, a, b, D)
    BY ONLY <1>4, <2>1, t \in Seq(D), PieceIs
  <2> QED
    BY ONLY <2>2 DEF PieceOf
<1>6. Segments(t)[k].offset = cuts[k] /\ Segments(t)[k].body = p
  BY <1>1, <1>4 DEF SegmentedBy
<1>7. ASSUME NEW x \in 1 .. Len(p) PROVE p[x] # "semicolon"
  <2> SUFFICES ASSUME p[x] = "semicolon" PROVE FALSE
    OBVIOUS
  <2>1. PICK y : y = a + x - 1
    OBVIOUS
  <2>2. y \in a .. b - 1 /\ t[y] = "semicolon"
    BY <1>5, <2>1
  <2>3. y \in 1 .. n
    BY ONLY <1>2, <1>3, <2>2
  <2>4. PICK l \in 2 .. m : cuts[l] = y
    BY <1>1, <2>2, <2>3 DEF SegmentedBy
  <2>5. l \in 1 .. m + 1 /\ cuts[k] < cuts[l] /\ cuts[l] < cuts[k + 1]
    BY <1>1, <1>2, <2>2, <2>4
  <2>6. \A i, j \in 1 .. m + 1 : i < j => cuts[i] < cuts[j]
    BY DEF SegmentedBy
  <2>7. cuts[l] \in 0 .. n + 1
    BY <1>1, <2>5 DEF SegmentedBy
  <2>8. ~ (l < k)
    BY ONLY <1>2, <2>5, <2>6, <2>7
  <2>9. ~ (k + 1 < l)
    BY ONLY <1>2, <2>5, <2>6, <2>7
  <2>10. l # k /\ l # k + 1
    BY ONLY <1>2, <2>5, <2>7
  <2> QED
    BY <1>2, <2>5, <2>8, <2>9, <2>10
<1>8. b - a = cuts[k + 1] - cuts[k] - 1
  BY <1>1, <1>2
<1> QED
  BY <1>1, <1>2, <1>5, <1>6, <1>7, <1>8

(* A trimmed text is a piece that begins and ends with what is not blank.  *)
LEMMA TrimIs ==
    ASSUME NEW D, NEW s \in Seq(D)
    PROVE  \E a \in 1 .. Len(s) + 1 : \E b \in a .. Len(s) + 1 :
               /\ Trim(s) = Upto(s, a, b)
               /\ a < b => s[a] \notin Whitespace /\ s[b - 1] \notin Whitespace
               /\ \A i \in 1 .. Len(s) : s[i] \notin Whitespace => a <= i /\ i < b
<1> DEFINE solid == {i \in DOMAIN s : s[i] \notin Whitespace}
<1>1. PICK n : n = Len(s) /\ n \in Nat /\ DOMAIN s = 1 .. n
  OBVIOUS
<1>2. CASE solid = {}
  <2>1. Trim(s) = <<>>
    BY <1>2 DEF Trim
  <2>2. Upto(s, 1, 1) = <<>>
    <3>1. 1 \in 1 .. Len(s) + 1 /\ 1 \in 1 .. Len(s) + 1
      BY <1>1
    <3>2. PieceOf(Upto(s, 1, 1), s, 1, 1, D)
      BY ONLY <3>1, s \in Seq(D), PieceIs
    <3> QED
      BY ONLY <3>2 DEF PieceOf
  <2>3. \A i \in 1 .. Len(s) : ~ (s[i] \notin Whitespace)
    BY <1>1, <1>2
  <2>4. 1 \in 1 .. Len(s) + 1
    BY <1>1
  <2> QED
    BY <1>1, <2>1, <2>2, <2>3, <2>4
<1>3. CASE solid # {}
  <2>1. PICK a, z : a = Min(solid) /\ z = Max(solid)
    OBVIOUS
  <2>2. solid \subseteq Nat /\ solid \subseteq 0 .. n /\ solid \subseteq 1 .. n
    BY <1>1
  <2>3. a \in solid /\ z \in solid /\ \A x \in solid : a <= x /\ x <= z
    <3> HIDE DEF solid
    <3> QED BY <1>1, <1>3, <2>1, <2>2, MinOf, MaxOf
  <2>4. Trim(s) = SubSeq(s, a, z)
    BY <1>3, <2>1 DEF Trim
  <2>5. PICK b : b = z + 1
    OBVIOUS
  <2>6. a \in 1 .. n /\ z \in 1 .. n /\ a <= z /\ a \in Nat /\ z \in Nat
    BY <2>2, <2>3
  <2>7. b - 1 = z /\ a \in 1 .. n + 1 /\ b \in a .. n + 1
    BY ONLY <1>1, <2>5, <2>6
  <2>8. Trim(s) = Upto(s, a, b)
    BY ONLY <2>4, <2>7 DEF Upto
  <2>9. s[a] \notin Whitespace /\ s[b - 1] \notin Whitespace
    BY <2>3, <2>7
  <2>10. \A i \in 1 .. n : s[i] \notin Whitespace => a <= i /\ i < b
    <3>1. \A i \in 1 .. n : s[i] \notin Whitespace => i \in solid
      BY <1>1
    <3> HIDE DEF solid
    <3> QED BY <2>3, <2>5, <2>6, <3>1
  <2> HIDE DEF solid
  <2> QED
    BY ONLY <1>1, <2>7, <2>8, <2>9, <2>10
<1> QED
  BY <1>2, <1>3

CommentAt(s, j) == (At(s, j) = "-" /\ At(s, j + 1) = "-") \/ (At(s, j) = "/" /\ At(s, j + 1) = "*")

(* j is where what is no comment begins, or the end.                       *)
CodeBegins(s, j, n) == j <= n => s[j] \notin Whitespace /\ ~ CommentAt(s, j)

LEMMA StripIs ==
    ASSUME NEW D, NEW s \in Seq(D), Len(s) >= 1 => s[1] \notin Whitespace
    PROVE  \E j \in 1 .. Len(s) + 1 :
               /\ StripLeadingComments(s) = Upto(s, j, Len(s) + 1)
               /\ CodeBegins(s, j, Len(s))
               /\ ~ CommentAt(s, 1) => j = 1
<1> DEFINE n == Len(s)
           Rest(j) == Upto(s, j, n + 1)
           stop == {j \in 1 .. n : ~ CommentAt(s, j)}
           val == [j \in 1 .. n |-> Rest(j)]
           Line(j) == At(s, j) = "-" /\ At(s, j + 1) = "-"
           Block(j) == At(s, j) = "/" /\ At(s, j + 1) = "*"
           next == [j \in 1 .. n |-> IF Line(j) THEN RunEnd(s, LineEnd(s, j), Whitespace)
                                     ELSE RunEnd(s, BlockEnd(s, j), Whitespace)]
           V == {Rest(j) : j \in 1 .. n + 1}
           Here(h, j) == CASE At(s, j) = "-" /\ At(s, j + 1) = "-" -> h[RunEnd(s, LineEnd(s, j), Whitespace)]
                           [] At(s, j) = "/" /\ At(s, j + 1) = "*" -> h[RunEnd(s, BlockEnd(s, j), Whitespace)]
                           [] OTHER -> Upto(s, j, Len(s) + 1)
           From(h) == [j \in 1 .. n + 1 |-> Here(h, j)]
           Good(j) == j = n + 1 \/ s[j] \notin Whitespace
<1>1. n \in Nat /\ n + 1 \in Nat /\ n < n + 1 /\ 1 \in Nat \ {0}
  OBVIOUS
<1>2. ASSUME NEW j \in 1 .. n, NEW e, e \in {LineEnd(s, j), BlockEnd(s, j)}
      PROVE  RunEnd(s, e, Whitespace) \in j + 1 .. n + 1 /\ Good(RunEnd(s, e, Whitespace))
  <2>1. e \in j + 1 .. n + 1
    BY <1>2, CommentEndsIn
  <2>2. e \in Nat /\ e <= Len(s) + 1 /\ j \in Nat
    BY <1>1, <2>1
  <2>3. PICK r : r = RunEnd(s, e, Whitespace)
    OBVIOUS
  <2>4. r \in e .. n + 1 /\ (r <= n => s[r] \notin Whitespace)
    BY <2>2, <2>3, RunEndIs
  <2>5. r \in j + 1 .. n + 1 /\ (r = n + 1 \/ r <= n)
    <3> HIDE DEF n
    <3> QED BY <1>1, <2>1, <2>2, <2>4
  <2> QED
    BY <2>3, <2>4, <2>5
<1>3. ASSUME NEW j \in 1 .. n
      PROVE  next[j] \in j + 1 .. n + 1 /\ Good(next[j])
  <2>1. next[j] = IF Line(j) THEN RunEnd(s, LineEnd(s, j), Whitespace) ELSE RunEnd(s, BlockEnd(s, j), Whitespace)
    OBVIOUS
  <2> HIDE DEF next, Good, Line, n
  <2> QED
    BY <1>2, <2>1
<1>4. \A j \in 1 .. n + 1 : Rest(j) \in V
  OBVIOUS
<1>5. Leaping(next, stop, val, Rest(n + 1), n, 1, n + 1, V)
  <2>1. \A j \in 1 .. n : val[j] \in V
    BY <1>1
  <2>2. Rest(n + 1) \in V
    BY <1>1
  <2> HIDE DEF next, stop, val, Rest, V, n
  <2> QED
    BY <1>1, <1>3, <2>1, <2>2 DEF Leaping
<1>6. ASSUME NEW h, NEW j \in 1 .. n + 1
      PROVE  Here(h, j) = IF j > n THEN Rest(n + 1) ELSE IF j \in stop THEN val[j] ELSE h[next[j]]
  <2>1. CASE j > n
    <3>1. j = n + 1 /\ j \notin 1 .. n
      BY <1>1, <2>1
    <3>2. At(s, j) = ""
      BY <3>1 DEF At
    <3>3. At(s, j) # "-" /\ At(s, j) # "/"
      BY <3>2
    <3>4. Here(h, j) = Upto(s, j, Len(s) + 1)
      BY ONLY <3>3, Zenon
    <3> QED
      BY <2>1, <3>1, <3>4
  <2>2. CASE ~ (j > n)
    <3>1. j \in 1 .. n
      BY <1>1, <2>2
    <3>2. /\ val[j] = Upto(s, j, Len(s) + 1) /\ (j \in stop <=> ~ Line(j) /\ ~ Block(j))
          /\ next[j] = IF Line(j) THEN RunEnd(s, LineEnd(s, j), Whitespace)
                       ELSE RunEnd(s, BlockEnd(s, j), Whitespace)
      BY <3>1 DEF CommentAt
    <3>3. Line(j) => ~ Block(j)
      OBVIOUS
    <3>4. Line(j) => Here(h, j) = h[RunEnd(s, LineEnd(s, j), Whitespace)]
      BY ONLY <3>3, Zenon
    <3>5. Block(j) => Here(h, j) = h[RunEnd(s, BlockEnd(s, j), Whitespace)]
      BY ONLY <3>3, Zenon
    <3>6. ~ Line(j) /\ ~ Block(j) => Here(h, j) = Upto(s, j, Len(s) + 1)
      BY ONLY Zenon
    <3> HIDE DEF Here, val, stop, next, Line, Block, n, Rest
    <3> QED
      BY <2>2, <3>2, <3>3, <3>4, <3>5, <3>6
  <2> HIDE DEF Here, val, stop, next, Rest
  <2> QED
    BY <2>1, <2>2
<1> DEFINE from == CHOOSE h : h = From(h)
<1>7. \A h : h = From(h) <=> Leaps(h, next, stop, val, Rest(n + 1), n, 1, n + 1)
  <2> HIDE DEF Here, val, stop, next, n, Rest
  <2> SUFFICES ASSUME NEW h
               PROVE  From(h) = [j \in 1 .. n + 1 |->
                                    IF j > n THEN Rest(n + 1) ELSE IF j \in stop THEN val[j] ELSE h[next[j]]]
    BY Zenon DEF Leaps
  <2> QED
    BY <1>6
<1>8. \E h : h = From(h)
  <2> HIDE DEF From, val, stop, next, n, V, Rest
  <2> QED BY <1>5, <1>7, Leap
<1>9. Leaps(from, next, stop, val, Rest(n + 1), n, 1, n + 1)
  <2> HIDE DEF From, val, stop, next, n, Rest
  <2> QED BY <1>7, <1>8
<1>10. StripLeadingComments(s) = from[1]
  BY DEF StripLeadingComments
<1>11. \A j \in 1 .. n + 1 : from[j] = IF j > n THEN Rest(n + 1) ELSE IF j \in stop THEN val[j] ELSE from[next[j]]
  <2> HIDE DEF from, val, stop, next, n, Rest
  <2> QED BY <1>9, Zenon DEF Leaps
<1>12. \A j \in 1 .. n : val[j] = Rest(j) /\ (j \in stop <=> ~ CommentAt(s, j))
  OBVIOUS
<1> HIDE DEF from, val, stop, next
<1> DEFINE Ends(x) == \E e \in 1 .. n + 1 : x = Rest(e) /\ CodeBegins(s, e, n)
           P == {k \in 1 .. n + 1 : \A j \in k .. n + 1 : Good(j) => Ends(from[j])}
<1>13. Ends(from[n + 1])
  <2>1. n + 1 \in 1 .. n + 1 /\ n + 1 > n
    BY <1>1
  <2>2. from[n + 1] = Rest(n + 1)
    <3> HIDE DEF n, Rest
    <3> QED BY <1>11, <2>1
  <2>3. CodeBegins(s, n + 1, n)
    BY <1>1 DEF CodeBegins
  <2> HIDE DEF n, Rest
  <2> QED
    BY <2>1, <2>2, <2>3
<1>14. ASSUME NEW k \in 1 .. n, k + 1 \in P PROVE k \in P
  <2>1. \A j \in k + 1 .. n + 1 : Good(j) => Ends(from[j])
    BY <1>14
  <2>2. k \in 1 .. n + 1 /\ ~ (k > n) /\ k # n + 1
    BY <1>1
  <2>3. Good(k) => Ends(from[k])
    <3> SUFFICES ASSUME Good(k) PROVE Ends(from[k])
      OBVIOUS
    <3>1. from[k] = IF k > n THEN Rest(n + 1) ELSE IF k \in stop THEN val[k] ELSE from[next[k]]
      <4> HIDE DEF Rest, n
      <4> QED BY <1>11, <2>2
    <3>2. CASE k \in stop
      <4>1. from[k] = Rest(k) /\ ~ CommentAt(s, k)
        <5> HIDE DEF Rest, n
        <5> QED BY <1>12, <2>2, <3>1, <3>2
      <4>2. CodeBegins(s, k, n)
        BY <2>2, <4>1 DEF CodeBegins
      <4> HIDE DEF Rest, n
      <4> QED BY <2>2, <4>1, <4>2
    <3>3. CASE k \notin stop
      <4>1. from[k] = from[next[k]]
        <5> HIDE DEF Rest, n
        <5> QED BY <2>2, <3>1, <3>3
      <4>2. next[k] \in k + 1 .. n + 1 /\ Good(next[k])
        BY <1>3
      <4> HIDE DEF Rest, n, Ends, Good, P
      <4> QED BY <2>1, <4>1, <4>2
    <3> QED
      BY <3>2, <3>3
  <2>4. \A j \in k .. n + 1 : j = k \/ j \in k + 1 .. n + 1
    BY <1>1
  <2> HIDE DEF Ends, Good, n, Rest
  <2> QED
    BY <2>1, <2>2, <2>3, <2>4
<1>15. 1 \in P
  <2>1. 1 \in 1 .. n + 1 /\ n + 1 \in 1 .. n + 1
    BY <1>1
  <2>2. n + 1 \in P
    <3> HIDE DEF Ends
    <3> QED BY <1>1, <1>13, <2>1
  <2> HIDE DEF P, n
  <2> QED BY <1>1, <1>14, <2>1, <2>2, Downward
<1>16. Good(1)
  BY <1>1
<1>17. Ends(from[1])
  <2>1. 1 \in 1 .. n + 1
    BY <1>1
  <2> HIDE DEF Good, Ends, n
  <2> QED BY <1>15, <1>16, <2>1
<1>18. CASE CommentAt(s, 1)
  BY <1>10, <1>17, <1>18
<1>19. CASE ~ CommentAt(s, 1)
  <2>1. 1 \in 1 .. n + 1
    BY <1>1
  <2>2. from[1] = Rest(1)
    <3>1. 1 > n => n + 1 = 1
      BY <1>1
    <3>2. ~ (1 > n) => 1 \in 1 .. n
      BY <1>1
    <3> HIDE DEF Rest, n
    <3> QED BY <1>11, <1>12, <1>19, <2>1, <3>1, <3>2
  <2>3. CodeBegins(s, 1, n)
    BY <1>19 DEF CodeBegins
  <2> QED
    BY <1>10, <2>1, <2>2, <2>3
<1> QED
  BY <1>18, <1>19

Code(segs, k) == StripLeadingComments(Trim(segs[k].body))
Codes(t)      == {StripLeadingComments(s) : s \in Range(ExtractAllStatements(t))}

(* A statement as the cursor runs it: nothing blank around it, no comment  *)
(* in front, and no semicolon.                                             *)
Clean(x) ==
    /\ \A i \in 1 .. Len(x) : x[i] # "semicolon"
    /\ Len(x) >= 1 => x[1] \notin Whitespace /\ x[Len(x)] \notin Whitespace /\ ~ CommentAt(x, 1)

LEMMA CodeClean ==
    ASSUME NEW D, NEW b \in Seq(D), \A i \in 1 .. Len(b) : b[i] # "semicolon"
    PROVE  /\ StripLeadingComments(Trim(b)) \in Seq(D) /\ Clean(StripLeadingComments(Trim(b)))
           /\ Trim(b) \in Seq(D)
           /\ Trim(b) = <<>> => StripLeadingComments(Trim(b)) = <<>>
<1>1. PICK p : p = Trim(b)
  OBVIOUS
<1>2. PICK a \in 1 .. Len(b) + 1, e \in 1 .. Len(b) + 1 :
          /\ e \in a .. Len(b) + 1 /\ p = Upto(b, a, e)
          /\ a < e => b[a] \notin Whitespace /\ b[e - 1] \notin Whitespace
  <2>1. \E a \in 1 .. Len(b) + 1 : \E e \in a .. Len(b) + 1 :
            p = Upto(b, a, e) /\ (a < e => b[a] \notin Whitespace /\ b[e - 1] \notin Whitespace)
    BY <1>1, TrimIs
  <2>2. PICK a \in 1 .. Len(b) + 1 : \E e \in a .. Len(b) + 1 :
            p = Upto(b, a, e) /\ (a < e => b[a] \notin Whitespace /\ b[e - 1] \notin Whitespace)
    BY ONLY <2>1
  <2>3. PICK e \in a .. Len(b) + 1 :
            p = Upto(b, a, e) /\ (a < e => b[a] \notin Whitespace /\ b[e - 1] \notin Whitespace)
    BY ONLY <2>2
  <2>4. e \in 1 .. Len(b) + 1
    OBVIOUS
  <2> QED
    BY <2>3, <2>4
<1>3. p \in Seq(D) /\ Len(p) = e - a /\ \A x \in 1 .. e - a : p[x] = b[a + x - 1] /\ a + x - 1 \in a .. e - 1
  <2>1. PieceOf(p, b, a, e, D)
    BY ONLY <1>2, b \in Seq(D), PieceIs
  <2> QED
    BY ONLY <2>1 DEF PieceOf
<1>4. PICK m : m = Len(p) /\ m \in Nat /\ m = e - a
  BY <1>2, <1>3
<1>5. \A i \in 1 .. m : p[i] # "semicolon"
  <2> SUFFICES ASSUME NEW i \in 1 .. m PROVE p[i] # "semicolon"
    OBVIOUS
  <2>1. PICK y : y = a + i - 1
    OBVIOUS
  <2>2. p[i] = b[y] /\ y \in a .. e - 1
    BY <1>3, <1>4, <2>1
  <2>3. y \in 1 .. Len(b)
    BY <1>2, <2>2
  <2> QED
    BY <2>2, <2>3
<1>6. m >= 1 => p[1] \notin Whitespace /\ p[m] \notin Whitespace
  <2> SUFFICES ASSUME m >= 1 PROVE p[1] \notin Whitespace /\ p[m] \notin Whitespace
    OBVIOUS
  <2>1. a < e /\ a + 1 - 1 = a /\ a + m - 1 = e - 1 /\ 1 \in 1 .. e - a /\ m \in 1 .. e - a
    BY <1>2, <1>4
  <2>2. p[1] = b[a] /\ p[m] = b[e - 1]
    BY <1>3, <2>1
  <2> QED
    BY <1>2, <2>1, <2>2
<1>7. PICK j \in 1 .. m + 1 : StripLeadingComments(p) = Upto(p, j, m + 1) /\ CodeBegins(p, j, m)
  BY ONLY <1>3, <1>4, <1>6, StripIs
<1>8. PICK x : x = Upto(p, j, m + 1)
  OBVIOUS
<1>9. x \in Seq(D) /\ Len(x) = m + 1 - j /\ \A i \in 1 .. m + 1 - j : x[i] = p[j + i - 1]
  <2>1. j \in 1 .. Len(p) + 1 /\ m + 1 \in j .. Len(p) + 1
    BY ONLY <1>4, <1>7
  <2>2. PieceOf(x, p, j, m + 1, D)
    BY ONLY <1>3, <1>8, <2>1, PieceIs
  <2> QED
    BY ONLY <1>4, <1>7, <2>2 DEF PieceOf
<1>10. PICK l : l = Len(x) /\ l = m + 1 - j /\ l \in Nat
  BY ONLY <1>4, <1>7, <1>9
<1>11. \A i \in 1 .. l : x[i] # "semicolon"
  <2> SUFFICES ASSUME NEW i \in 1 .. l PROVE x[i] # "semicolon"
    OBVIOUS
  <2>1. j + i - 1 \in 1 .. m
    BY ONLY <1>4, <1>7, <1>10, i \in 1 .. l
  <2> QED
    BY ONLY <1>5, <1>9, <1>10, <2>1, i \in 1 .. l
<1>12. l >= 1 => x[1] \notin Whitespace /\ x[l] \notin Whitespace /\ ~ CommentAt(x, 1)
  <2> SUFFICES ASSUME l >= 1 PROVE x[1] \notin Whitespace /\ x[l] \notin Whitespace /\ ~ CommentAt(x, 1)
    OBVIOUS
  <2>1. /\ j <= m /\ 1 \in 1 .. m + 1 - j /\ l \in 1 .. m + 1 - j /\ j + 1 - 1 = j /\ j + l - 1 = m
        /\ m >= 1 /\ j \in 1 .. m
    BY ONLY <1>4, <1>7, <1>10, l >= 1
  <2>2. x[1] = p[j] /\ x[l] = p[m]
    BY ONLY <1>9, <2>1
  <2>3. p[j] \notin Whitespace /\ ~ CommentAt(p, j)
    BY ONLY <1>7, <2>1 DEF CodeBegins
  <2>4. At(x, 1) = At(p, j)
    <3>1. 1 \in 1 .. Len(x) /\ j \in 1 .. Len(p)
      BY ONLY <1>4, <1>10, <2>1
    <3> QED
      BY ONLY <2>2, <3>1 DEF At
  <2>5. At(x, 1 + 1) = At(p, j + 1)
    <3>1. CASE l = 1
      <4>1. 1 + 1 \notin 1 .. Len(x) /\ j + 1 \notin 1 .. Len(p)
        BY ONLY <1>4, <1>7, <1>10, <3>1
      <4> QED
        BY ONLY <4>1 DEF At
    <3>2. CASE l # 1
      <4>1. /\ 1 + 1 \in 1 .. Len(x) /\ j + 1 \in 1 .. Len(p)
            /\ 1 + 1 \in 1 .. m + 1 - j /\ j + (1 + 1) - 1 = j + 1
        BY ONLY <1>4, <1>7, <1>10, <3>2, l >= 1
      <4>2. x[1 + 1] = p[j + 1]
        BY ONLY <1>9, <4>1
      <4> QED
        BY ONLY <4>1, <4>2 DEF At
    <3> QED
      BY ONLY <3>1, <3>2
  <2>6. ~ CommentAt(x, 1)
    BY ONLY <2>3, <2>4, <2>5, Zenon DEF CommentAt
  <2> QED
    BY ONLY <1>6, <2>1, <2>2, <2>3, <2>6
<1>13. p = <<>> => x = <<>>
  <2>1. p = <<>> => l = 0
    BY ONLY <1>3, <1>4, <1>7, <1>10
  <2> QED
    BY ONLY <1>9, <1>10, <2>1
<1>14. Clean(x)
  BY ONLY <1>10, <1>11, <1>12 DEF Clean
<1> QED
  BY ONLY <1>1, <1>3, <1>7, <1>8, <1>9, <1>13, <1>14

(* The statements of a text are those of its segments that are not blank.  *)
LEMMA CodesAre ==
    ASSUME NEW D, NEW t \in Seq(D), NEW cuts, NEW m, SegmentedBy(t, cuts, m)
    PROVE  Codes(t) = {Code(Segments(t), k) : k \in {j \in 1 .. m : Trim(Segments(t)[j].body) # <<>>}}
<1>1. PICK segs : segs = Segments(t)
  OBVIOUS
<1>2. DOMAIN segs = 1 .. m /\ m \in Nat
  BY <1>1 DEF SegmentedBy
<1>3. PICK parts : parts = [k \in DOMAIN segs |-> Trim(segs[k].body)]
  OBVIOUS
<1>4. PICK T : T = {Trim(segs[k].body) : k \in 1 .. m}
  OBVIOUS
<1>5. parts \in [1 .. m -> T]
  BY ONLY <1>2, <1>3, <1>4
<1>6. parts \in Seq(T) /\ Len(parts) = m /\ DOMAIN parts = 1 .. m
  BY ONLY <1>2, <1>5
<1>7. PICK S : S = {k \in DOMAIN parts : parts[k] # <<>>}
  OBVIOUS
<1>8. S = {j \in 1 .. m : Trim(segs[j].body) # <<>>}
  BY ONLY <1>2, <1>3, <1>6, <1>7
<1>9. Range(Kept(parts, S)) = {parts[k] : k \in S}
  <2>1. S \subseteq 1 .. Len(parts)
    BY ONLY <1>6, <1>8
  <2> QED
    BY ONLY <1>6, <2>1, KeptRange
<1>10. ExtractAllStatements(t) = Kept(parts, S)
  BY ONLY <1>1, <1>3, <1>7 DEF ExtractAllStatements
<1>11. \A k \in S : parts[k] = Trim(segs[k].body)
  BY ONLY <1>2, <1>3, <1>8
<1>12. Codes(t) = {StripLeadingComments(s) : s \in {parts[k] : k \in S}}
  BY ONLY <1>9, <1>10 DEF Codes
<1>13. {StripLeadingComments(s) : s \in {parts[k] : k \in S}} = {Code(segs, k) : k \in S}
  BY ONLY <1>11 DEF Code
<1> QED
  BY ONLY <1>1, <1>8, <1>12, <1>13

(* Read again, such a statement is the only one, and is not cut.           *)
LEMMA CleanAlone ==
    ASSUME NEW D, NEW x \in Seq(D), Clean(x)
    PROVE  Codes(x) = IF x = <<>> THEN {} ELSE {x}
<1>1. PICK n : n = Len(x) /\ n \in Nat
  OBVIOUS
<1>2. PICK cuts, m : SegmentedBy(x, cuts, m)
  BY SegmentsAre
<1>3. /\ m \in Nat \ {0} /\ cuts[1] = 0 /\ cuts[m + 1] = n + 1
      /\ cuts \in [1 .. m + 1 -> 0 .. n + 1]
      /\ \A k, l \in 1 .. m + 1 : k < l => cuts[k] < cuts[l]
      /\ \A k \in 2 .. m : x[cuts[k]] = "semicolon"
      /\ Segments(x) = [k \in 1 .. m |-> [offset |-> cuts[k], body |-> Upto(x, cuts[k] + 1, cuts[k + 1])]]
  BY ONLY <1>1, <1>2 DEF SegmentedBy
<1>4. m = 1
  <2> SUFFICES ASSUME m # 1 PROVE FALSE
    OBVIOUS
  <2>1. 2 \in 2 .. m /\ 1 \in 1 .. m + 1 /\ 2 \in 1 .. m + 1 /\ m + 1 \in 1 .. m + 1 /\ 2 < m + 1
    BY ONLY <1>3, m # 1
  <2>2. cuts[1] < cuts[2] /\ cuts[2] < cuts[m + 1] /\ cuts[2] \in 0 .. n + 1
    BY ONLY <1>3, <2>1
  <2>3. cuts[2] \in 1 .. n
    BY ONLY <1>1, <1>3, <2>2
  <2>4. x[cuts[2]] = "semicolon"
    BY ONLY <1>3, <2>1
  <2> QED
    BY ONLY <1>1, <2>3, <2>4, Clean(x) DEF Clean
<1>5. Upto(x, 1, n + 1) = x
  <2>1. 1 \in 1 .. Len(x) + 1 /\ n + 1 \in 1 .. Len(x) + 1
    BY ONLY <1>1
  <2>2. PICK p : p = Upto(x, 1, n + 1)
    OBVIOUS
  <2>3. p \in Seq(D) /\ Len(p) = n + 1 - 1 /\ \A i \in 1 .. n + 1 - 1 : p[i] = x[1 + i - 1]
    <3>1. PieceOf(p, x, 1, n + 1, D)
      BY ONLY <2>1, <2>2, x \in Seq(D), PieceIs
    <3> QED
      BY ONLY <1>1, <3>1 DEF PieceOf
  <2>4. Len(p) = Len(x) /\ \A i \in 1 .. Len(x) : p[i] = x[i]
    BY ONLY <1>1, <2>3
  <2> QED
    BY ONLY <2>2, <2>3, <2>4, x \in Seq(D)
<1>6. Segments(x)[1].body = x
  <2>1. Segments(x)[1].body = Upto(x, 0 + 1, n + 1)
    <3>1. 1 \in 1 .. m /\ cuts[1 + 1] = n + 1
      BY ONLY <1>3, <1>4
    <3> QED
      BY ONLY <1>3, <3>1
  <2> QED
    BY ONLY <1>5, <2>1
<1>7. Trim(x) = x
  <2>1. PICK a \in 1 .. n + 1 : \E b \in a .. n + 1 :
            /\ Trim(x) = Upto(x, a, b)
            /\ \A i \in 1 .. n : x[i] \notin Whitespace => a <= i /\ i < b
    BY <1>1, TrimIs
  <2>2. PICK b \in a .. n + 1 :
            /\ Trim(x) = Upto(x, a, b)
            /\ \A i \in 1 .. n : x[i] \notin Whitespace => a <= i /\ i < b
    BY ONLY <2>1
  <2>3. n >= 1 => x[1] \notin Whitespace /\ x[n] \notin Whitespace
    BY ONLY <1>1, Clean(x) DEF Clean
  <2>4. a = 1 /\ b = n + 1
    <3>1. CASE n = 0
      BY ONLY <2>1, <2>2, <3>1
    <3>2. CASE n >= 1
      <4>1. 1 \in 1 .. n /\ n \in 1 .. n
        BY ONLY <1>1, <3>2
      <4>2. a <= 1 /\ n < b
        BY ONLY <2>2, <2>3, <3>2, <4>1
      <4> QED
        BY ONLY <1>1, <2>1, <2>2, <4>2
    <3> QED
      BY ONLY <1>1, <3>1, <3>2
  <2> QED
    BY ONLY <1>5, <2>2, <2>4
<1>8. StripLeadingComments(x) = x
  <2>1. n >= 1 => x[1] \notin Whitespace
    BY ONLY <1>1, Clean(x) DEF Clean
  <2>2. ~ CommentAt(x, 1)
    <3>1. n = 0 => At(x, 1) = ""
      BY ONLY <1>1 DEF At
    <3>2. n = 0 => ~ CommentAt(x, 1)
      <4>1. "" # "-" /\ "" # "/"
        OBVIOUS
      <4> QED
        BY ONLY <3>1, <4>1 DEF CommentAt
    <3> QED
      BY ONLY <1>1, <3>2, Clean(x) DEF Clean
  <2>3. \E j \in 1 .. n + 1 : StripLeadingComments(x) = Upto(x, j, n + 1) /\ (~ CommentAt(x, 1) => j = 1)
    BY <1>1, <2>1, StripIs
  <2> QED
    BY ONLY <1>5, <2>2, <2>3
<1>9. Codes(x) = {Code(Segments(x), k) : k \in {j \in 1 .. m : Trim(Segments(x)[j].body) # <<>>}}
  BY <1>2, CodesAre
<1>10. 1 .. m = {1} /\ Code(Segments(x), 1) = x /\ Trim(Segments(x)[1].body) = x
  BY ONLY <1>4, <1>6, <1>7, <1>8 DEF Code
<1>11. {j \in 1 .. m : Trim(Segments(x)[j].body) # <<>>} = IF x = <<>> THEN {} ELSE {1}
  BY ONLY <1>10
<1>12. CASE x = <<>>
  BY ONLY <1>9, <1>11, <1>12
<1>13. CASE x # <<>>
  <2>1. {Code(Segments(x), k) : k \in {1}} = {Code(Segments(x), 1)}
    BY ONLY TRUE
  <2> QED
    BY ONLY <1>9, <1>10, <1>11, <1>13, <2>1
<1> QED
  BY <1>12, <1>13

Writes(s)    == At(s, 1) \in WriteWords /\ At(s, 2) \notin WordChars
Dangerous(s) ==
    /\ At(s, 1) \in {"UPDATE", "DELETE"} /\ At(s, 2) = " "
    /\ ~ \E i \in DOMAIN s : Upto(s, i, FirstOf({i + 3}, Len(s) + 1)) = <<" ", "WHERE", " ">>

(* The two checks read the statements one by one.                          *)
LEMMA Verdicts ==
    ASSUME NEW t
    PROVE  /\ IsWriteStatement(t) <=> \E s \in Codes(t) : Writes(s)
           /\ HasDangerousDml(t) <=> \E s \in Codes(t) : Dangerous(s)
BY DEF IsWriteStatement, HasDangerousDml, Codes, Writes, Dangerous

(* Of one clean statement, they say what they say of it in the whole text. *)
LEMMA CleanVerdicts ==
    ASSUME NEW D, NEW x \in Seq(D), Clean(x)
    PROVE  (IsWriteStatement(x) <=> Writes(x)) /\ (HasDangerousDml(x) <=> Dangerous(x))
<1>1. Codes(x) = IF x = <<>> THEN {} ELSE {x}
  BY CleanAlone
<1>2. x = <<>> => ~ Writes(x) /\ ~ Dangerous(x)
  <2>1. At(<<>>, 1) = ""
    BY DEF At
  <2>2. "" \notin WriteWords /\ "" \notin {"UPDATE", "DELETE"}
    BY WriteWordsKnown, LettersApart
  <2> QED
    BY ONLY <2>1, <2>2 DEF Writes, Dangerous
<1>3. /\ IsWriteStatement(x) <=> \E s \in Codes(x) : Writes(s)
      /\ HasDangerousDml(x) <=> \E s \in Codes(x) : Dangerous(s)
  BY Verdicts
<1>4. CASE x = <<>>
  BY ONLY <1>1, <1>2, <1>3, <1>4
<1>5. CASE x # <<>>
  <2>1. Codes(x) = {x}
    BY ONLY <1>1, <1>5
  <2> QED
    BY ONLY <1>3, <2>1
<1> QED
  BY ONLY <1>4, <1>5

Ends(segs, c) == {k \in DOMAIN segs : c <= segs[k].offset + Len(segs[k].body)}

(* A cursor is in the first segment that ends behind it.                   *)
LEMMA CursorSegment ==
    ASSUME NEW D, NEW t \in Seq(D), NEW cuts, NEW m, SegmentedBy(t, cuts, m), NEW c \in 0 .. Len(t)
    PROVE  /\ Min(Ends(Segments(t), c)) \in 1 .. m
           /\ \A k \in 1 .. m : cuts[k] <= c /\ c < cuts[k + 1] => Min(Ends(Segments(t), c)) = k
<1>1. PICK n, segs, S : n = Len(t) /\ segs = Segments(t) /\ S = Ends(segs, c)
  OBVIOUS
<1>2. n \in Nat /\ m \in Nat \ {0} /\ DOMAIN segs = 1 .. m /\ cuts[m + 1] = n + 1
  BY <1>1 DEF SegmentedBy
<1>3. ASSUME NEW k \in 1 .. m
      PROVE  segs[k].offset + Len(segs[k].body) = cuts[k + 1] - 1 /\ cuts[k] \in Nat /\ cuts[k + 1] \in Nat
  <2>1. /\ segs[k].offset = cuts[k] /\ Len(segs[k].body) = cuts[k + 1] - cuts[k] - 1
        /\ cuts[k] \in Nat /\ cuts[k + 1] \in Nat
    BY <1>1, SegmentIs
  <2> QED
    BY ONLY <2>1
<1>4. S = {k \in 1 .. m : c < cuts[k + 1]}
  <2>1. \A k \in 1 .. m : c <= segs[k].offset + Len(segs[k].body) <=> c < cuts[k + 1]
    BY ONLY <1>1, <1>3, c \in 0 .. Len(t)
  <2> QED
    BY ONLY <1>1, <1>2, <2>1 DEF Ends
<1>5. m \in S
  <2>1. m \in 1 .. m /\ c < cuts[m + 1]
    BY ONLY <1>1, <1>2, c \in 0 .. Len(t)
  <2> QED
    BY ONLY <1>4, <2>1
<1>6. S \subseteq Nat /\ S \subseteq 1 .. m /\ S # {}
  <2>1. S \subseteq 1 .. m
    BY ONLY <1>4
  <2>2. 1 .. m \subseteq Nat
    BY ONLY <1>2
  <2> QED
    BY ONLY <1>5, <2>1, <2>2
<1>7. PICK a : a = Min(S)
  OBVIOUS
<1>8. a \in S /\ \A x \in S : a <= x
  BY ONLY <1>6, <1>7, MinOf
<1>9. ASSUME NEW k \in 1 .. m, cuts[k] <= c, c < cuts[k + 1] PROVE a = k
  <2>1. k \in S /\ a <= k /\ a \in 1 .. m /\ c < cuts[a + 1]
    BY ONLY <1>4, <1>6, <1>8, <1>9, k \in 1 .. m
  <2>2. a >= k
    <3>0. a \in Nat /\ k \in Nat
      BY ONLY <1>2, <2>1, k \in 1 .. m
    <3> SUFFICES ASSUME a < k PROVE FALSE
      BY <3>0
    <3>1. a + 1 \in 1 .. m + 1 /\ k \in 1 .. m + 1 /\ (a + 1 = k \/ a + 1 < k)
      BY ONLY <1>2, <2>1, a < k, k \in 1 .. m
    <3>2. \A i, j \in 1 .. m + 1 : i < j => cuts[i] < cuts[j]
      BY DEF SegmentedBy
    <3>3. cuts[a + 1] \in Nat /\ cuts[k] \in Nat /\ (a + 1 = k \/ cuts[a + 1] < cuts[k])
      BY ONLY <1>3, <2>1, <3>1, <3>2, k \in 1 .. m
    <3> QED
      BY ONLY <1>9, <2>1, <3>3, c \in 0 .. Len(t), <1>1, <1>2
  <2> QED
    BY ONLY <1>2, <2>1, <2>2, k \in 1 .. m
<1> QED
  BY ONLY <1>1, <1>6, <1>7, <1>8, <1>9

(* What the cursor runs is a statement of the text or nothing, and in the  *)
(* code of a segment, or right behind it, that segment's.                  *)
LEMMA CursorFinds ==
    ASSUME NEW D, NEW t \in Seq(D), NEW cuts, NEW m, SegmentedBy(t, cuts, m)
    PROVE  /\ \A c \in 0 .. Len(t) : ExtractStatementAt(t, c) \in Codes(t) \cup {<<>>}
           /\ \A k \in 1 .. m : Trim(Segments(t)[k].body) # <<>> =>
                \A c \in RunEnd(Segments(t)[k].body, 1, Whitespace) - 1 .. Len(Segments(t)[k].body) :
                    /\ ExtractStatementAt(t, Segments(t)[k].offset + c) = Code(Segments(t), k)
                    /\ Segments(t)[k].offset + c \in 0 .. Len(t)
           /\ \A k \in 1 .. m : /\ RunEnd(Segments(t)[k].body, 1, Whitespace) - 1 \in 0 .. Len(Segments(t)[k].body)
                                /\ Code(Segments(t), k) \in Seq(D) /\ Clean(Code(Segments(t), k))
<1>1. PICK n, segs : n = Len(t) /\ segs = Segments(t)
  OBVIOUS
<1>2. n \in Nat /\ m \in Nat \ {0} /\ DOMAIN segs = 1 .. m /\ cuts[m + 1] = n + 1
  BY <1>1 DEF SegmentedBy
<1>3. ASSUME NEW k \in 1 .. m
      PROVE  /\ segs[k].offset = cuts[k] /\ segs[k].body \in Seq(D)
             /\ Len(segs[k].body) = cuts[k + 1] - cuts[k] - 1
             /\ cuts[k] \in Nat /\ cuts[k + 1] \in Nat /\ cuts[k] < cuts[k + 1] /\ cuts[k + 1] <= n + 1
             /\ \A x \in 1 .. Len(segs[k].body) : segs[k].body[x] # "semicolon"
  <2>1. cuts[k + 1] <= n + 1
    BY <1>1 DEF SegmentedBy
  <2>2. /\ Segments(t)[k].offset = cuts[k] /\ Segments(t)[k].body \in Seq(D)
        /\ Len(Segments(t)[k].body) = cuts[k + 1] - cuts[k] - 1
        /\ cuts[k] \in Nat /\ cuts[k + 1] \in Nat /\ cuts[k] < cuts[k + 1]
        /\ \A x \in 1 .. Len(Segments(t)[k].body) : Segments(t)[k].body[x] # "semicolon"
    BY SegmentIs, SMTT(30)
  <2> QED
    BY ONLY <1>1, <2>1, <2>2
<1>4. ASSUME NEW k \in 1 .. m
      PROVE  /\ Code(segs, k) \in Seq(D) /\ Clean(Code(segs, k))
             /\ Trim(segs[k].body) = <<>> => Code(segs, k) = <<>>
  BY ONLY <1>3, k \in 1 .. m, CodeClean DEF Code
<1>5. Codes(t) = {Code(segs, k) : k \in {j \in 1 .. m : Trim(segs[j].body) # <<>>}}
  BY ONLY <1>1, t \in Seq(D), SegmentedBy(t, cuts, m), CodesAre
<1>6. \A k \in 1 .. m : Code(segs, k) \in Codes(t) \cup {<<>>}
  BY ONLY <1>4, <1>5
<1>7. ASSUME NEW k \in 1 .. m
      PROVE  RunEnd(segs[k].body, 1, Whitespace) - 1 \in 0 .. Len(segs[k].body)
  <2>1. segs[k].body \in Seq(D) /\ Len(segs[k].body) \in Nat
    BY ONLY <1>3, k \in 1 .. m
  <2>2. 1 \in Nat /\ 1 <= Len(segs[k].body) + 1
    BY ONLY <2>1
  <2>3. RunEnd(segs[k].body, 1, Whitespace) \in 1 .. Len(segs[k].body) + 1
    BY ONLY <2>1, <2>2, RunEndIs
  <2> QED
    BY ONLY <2>1, <2>3
<1> DEFINE Lead(k) == RunEnd(segs[k].body, 1, Whitespace) - 1
           Earlier(k) == {j \in 1 .. k - 1 : Code(segs, j) # <<>>}
           Early(k, c) == \/ Trim(segs[k].body) = <<>>
                          \/ c < segs[k].offset + Lead(k) /\ "\n" \in Range(SubSeq(segs[k].body, 1, Lead(k)))
<1>8. \A k, c : StatementIn(segs, k, c) =
                   IF Early(k, c)
                   THEN IF Earlier(k) = {} THEN <<>> ELSE Code(segs, Max(Earlier(k)))
                   ELSE Code(segs, k)
  BY Zenon DEF StatementIn, Code
<1>9. \A c : ExtractStatementAt(t, c) = StatementIn(segs, Min(Ends(segs, c)), c)
  BY ONLY <1>1, Zenon DEF ExtractStatementAt, Ends
<1>10. ASSUME NEW c \in 0 .. n PROVE ExtractStatementAt(t, c) \in Codes(t) \cup {<<>>}
  <2>1. PICK k : k = Min(Ends(segs, c))
    OBVIOUS
  <2>2. k \in 1 .. m
    BY <1>1, <2>1, CursorSegment
  <2>3. Earlier(k) # {} => Max(Earlier(k)) \in 1 .. m
    <3>1. Earlier(k) \subseteq 0 .. m /\ Earlier(k) \subseteq 1 .. m
      BY ONLY <1>2, <2>2
    <3>2. m \in Nat
      BY ONLY <1>2
    <3> HIDE DEF Earlier
    <3>3. Earlier(k) # {} => Max(Earlier(k)) \in Earlier(k)
      BY ONLY <3>1, <3>2, MaxOf
    <3> QED
      BY ONLY <3>1, <3>3
  <2>4. ExtractStatementAt(t, c) = StatementIn(segs, k, c)
    BY ONLY <1>9, <2>1
  <2> HIDE DEF Earlier, Early
  <2>5. StatementIn(segs, k, c) = IF Early(k, c)
                   THEN IF Earlier(k) = {} THEN <<>> ELSE Code(segs, Max(Earlier(k)))
                   ELSE Code(segs, k)
    BY ONLY <1>8, Zenon
  <2> QED
    BY ONLY <1>6, <2>2, <2>3, <2>4, <2>5
<1>11. ASSUME NEW k \in 1 .. m, Trim(segs[k].body) # <<>>,
              NEW c \in Lead(k) .. Len(segs[k].body)
       PROVE  ExtractStatementAt(t, segs[k].offset + c) = Code(segs, k) /\ segs[k].offset + c \in 0 .. n
  <2>1. PICK d : d = segs[k].offset + c
    OBVIOUS
  <2>2. PICK l : l = Lead(k)
    OBVIOUS
  <2>3. l \in 0 .. Len(segs[k].body) /\ c \in l .. Len(segs[k].body)
    BY ONLY <1>7, <2>2, c \in Lead(k) .. Len(segs[k].body), k \in 1 .. m
  <2>4. PICK o, z : o = segs[k].offset /\ z = Len(segs[k].body)
    OBVIOUS
  <2>5. o = cuts[k] /\ z = cuts[k + 1] - cuts[k] - 1 /\ cuts[k] \in Nat /\ cuts[k + 1] \in Nat /\ cuts[k + 1] <= n + 1
    BY ONLY <1>3, <2>4, k \in 1 .. m
  <2>6. /\ d = o + c /\ d \in 0 .. n /\ cuts[k] <= d /\ d < cuts[k + 1] /\ ~ (d < o + l)
    <3>1. z \in Nat /\ l \in 0 .. z /\ c \in l .. z
      BY ONLY <2>3, <2>4, <2>5, <1>3, k \in 1 .. m
    <3>2. d = o + c
      BY ONLY <2>1, <2>4
    <3>3. PICK u, v : u = cuts[k] /\ v = cuts[k + 1]
      OBVIOUS
    <3>4. o = u /\ z = v - u - 1 /\ u \in Nat /\ v \in Nat /\ v <= n + 1
      BY ONLY <2>5, <3>3
    <3>5. d \in 0 .. n /\ u <= d /\ d < v /\ ~ (d < o + l)
      BY ONLY <1>2, <3>1, <3>2, <3>4
    <3> QED
      BY ONLY <3>2, <3>3, <3>5
  <2>7. Min(Ends(segs, d)) = k
    <3>1. d \in 0 .. Len(t)
      BY ONLY <1>1, <2>6
    <3>2. \A j \in 1 .. m : cuts[j] <= d /\ d < cuts[j + 1] => Min(Ends(Segments(t), d)) = j
      BY <3>1, CursorSegment
    <3> QED
      BY ONLY <1>1, <2>6, <3>2, k \in 1 .. m
  <2>8. ~ Early(k, d)
    BY ONLY <1>11, <2>2, <2>4, <2>6
  <2>9. StatementIn(segs, k, d) = Code(segs, k)
    <3> HIDE DEF Early, Earlier
    <3> QED BY ONLY <1>8, <2>8
  <2> QED
    BY ONLY <1>9, <2>1, <2>6, <2>7, <2>9
<1>12. /\ \A c \in 0 .. n : ExtractStatementAt(t, c) \in Codes(t) \cup {<<>>}
       /\ \A k \in 1 .. m : Trim(segs[k].body) # <<>> =>
            \A c \in RunEnd(segs[k].body, 1, Whitespace) - 1 .. Len(segs[k].body) :
                /\ ExtractStatementAt(t, segs[k].offset + c) = Code(segs, k)
                /\ segs[k].offset + c \in 0 .. n
       /\ \A k \in 1 .. m : /\ RunEnd(segs[k].body, 1, Whitespace) - 1 \in 0 .. Len(segs[k].body)
                            /\ Code(segs, k) \in Seq(D) /\ Clean(Code(segs, k))
  BY ONLY <1>4, <1>7, <1>10, <1>11
<1> QED
  BY ONLY <1>1, <1>12

(* Whatever is typed, Run at the cursor runs only what Run All would, each *)
(* statement can be run from where it stands, and the write check and the  *)
(* dangerous check of the whole text are those of what a cursor can run.   *)
THEOREM StatementsAgree == TypingSpec => []StatementsFound
<1>1. TypedOK => StatementsFound
  <2> SUFFICES ASSUME TypedOK PROVE StatementsFound
    OBVIOUS
  <2>1. text \in Seq(STRING)
    BY DEF TypedOK
  <2>2. PICK cuts, m : SegmentedBy(text, cuts, m)
    BY <2>1, SegmentsAre
  <2>3. PICK t, segs, all, found :
          /\ t = text /\ segs = Segments(text) /\ all = Codes(text)
          /\ found = {ExtractStatementAt(text, c) : c \in 0 .. Len(text)}
    OBVIOUS
  <2>4. /\ \A c \in 0 .. Len(t) : ExtractStatementAt(t, c) \in all \cup {<<>>}
        /\ \A k \in 1 .. m : Trim(segs[k].body) # <<>> =>
             \A c \in RunEnd(segs[k].body, 1, Whitespace) - 1 .. Len(segs[k].body) :
                 /\ ExtractStatementAt(t, segs[k].offset + c) = Code(segs, k)
                 /\ segs[k].offset + c \in 0 .. Len(t)
        /\ \A k \in 1 .. m : /\ RunEnd(segs[k].body, 1, Whitespace) - 1 \in 0 .. Len(segs[k].body)
                             /\ Code(segs, k) \in Seq(STRING) /\ Clean(Code(segs, k))
    BY ONLY <2>1, <2>2, <2>3, CursorFinds
  <2>5. DOMAIN segs = 1 .. m
    BY ONLY <2>2, <2>3 DEF SegmentedBy
  <2>6. all = {Code(segs, k) : k \in {j \in 1 .. m : Trim(segs[j].body) # <<>>}}
    BY ONLY <2>1, <2>2, <2>3, CodesAre
  <2>7. found \subseteq all \cup {<<>>}
    BY ONLY <2>3, <2>4
  <2>8. all \subseteq found
    <3>0. \A x \in all : \E k \in 1 .. m : Trim(segs[k].body) # <<>> /\ x = Code(segs, k)
      BY ONLY <2>6
    <3> SUFFICES ASSUME NEW k \in 1 .. m, Trim(segs[k].body) # <<>> PROVE Code(segs, k) \in found
      BY <3>0
    <3>1. PICK c : c = RunEnd(segs[k].body, 1, Whitespace) - 1
      OBVIOUS
    <3>2. c \in RunEnd(segs[k].body, 1, Whitespace) - 1 .. Len(segs[k].body)
      <4>1. c \in 0 .. Len(segs[k].body)
        BY ONLY <2>4, <3>1, k \in 1 .. m
      <4>2. c \in c .. Len(segs[k].body)
        BY ONLY <4>1
      <4> QED
        BY ONLY <3>1, <4>2
    <3>3. /\ ExtractStatementAt(t, segs[k].offset + c) = Code(segs, k)
          /\ segs[k].offset + c \in 0 .. Len(t)
      BY ONLY <2>4, <3>2, k \in 1 .. m, Trim(segs[k].body) # <<>>
    <3> QED
      BY ONLY <2>3, <3>3
  <2>9. ASSUME NEW s \in all \cup {<<>>}
        PROVE  (IsWriteStatement(s) <=> Writes(s)) /\ (HasDangerousDml(s) <=> Dangerous(s))
    <3>1. s \in Seq(STRING) /\ Clean(s)
      <4>1. <<>> \in Seq(STRING) /\ Clean(<<>>)
        BY DEF Clean
      <4> QED
        BY ONLY <2>4, <2>6, <4>1, s \in all \cup {<<>>}
    <3> QED
      BY <3>1, CleanVerdicts
  <2>10. ~ Writes(<<>>) /\ ~ Dangerous(<<>>)
    <3>1. At(<<>>, 1) = ""
      BY DEF At
    <3>2. "" \notin WriteWords /\ "" \notin {"UPDATE", "DELETE"}
      BY WriteWordsKnown, LettersApart
    <3> QED
      BY ONLY <3>1, <3>2 DEF Writes, Dangerous
  <2>11. /\ IsWriteStatement(t) <=> \E s \in all : Writes(s)
         /\ HasDangerousDml(t) <=> \E s \in all : Dangerous(s)
    BY ONLY <2>3, Verdicts
  <2>12. IsWriteStatement(t) <=> \E s \in found : IsWriteStatement(s)
    BY ONLY <2>7, <2>8, <2>9, <2>10, <2>11
  <2>13. HasDangerousDml(t) <=> \E s \in found : HasDangerousDml(s)
    BY ONLY <2>7, <2>8, <2>9, <2>10, <2>11
  <2>14. \A k \in {j \in DOMAIN segs : Trim(segs[j].body) # <<>>} :
           \A c \in RunEnd(segs[k].body, 1, Whitespace) - 1 .. Len(segs[k].body) :
               ExtractStatementAt(t, segs[k].offset + c) = StripLeadingComments(Trim(segs[k].body))
    BY ONLY <2>4, <2>5 DEF Code
  <2> QED
    BY ONLY <2>3, <2>7, <2>12, <2>13, <2>14, Zenon DEF StatementsFound, Codes
<1> QED
  BY <1>1, TypingTypeCorrect, PTL

(***************************************************************************)
(* The highlighter draws every character                                   *)
(***************************************************************************)

(* S is A among the first n numbers and B among the m numbers after them.  *)
Splits(S, A, n, B, m) ==
    /\ \A i \in 1 .. n : i \in S <=> i \in A
    /\ \A k \in 1 .. m : n + k \in S <=> k \in B

(* w has the numbers of u, then those of v moved by n.                     *)
Shifted(w, u, v, n) ==
    /\ w \in Seq(Nat) /\ Len(w) = Len(u) + Len(v)
    /\ \A i \in 1 .. Len(u) : w[i] = u[i]
    /\ \A k \in 1 .. Len(v) : w[Len(u) + k] = n + v[k]

(* The places of S in two lists one after the other.                       *)
LEMMA OrderConcat ==
    ASSUME NEW n \in Nat, NEW m \in Nat, NEW S, NEW A, NEW B, Splits(S, A, n, B, m),
           NEW u, InOrder(u, A, 1, n), NEW v, InOrder(v, B, 1, m), NEW w, Shifted(w, u, v, n)
    PROVE  InOrder(w, S, 1, n + m)
<1>1. PICK p, q : p = Len(u) /\ q = Len(v)
  OBVIOUS
<1>2. /\ p \in Nat
      /\ \A k \in 1 .. p : u[k] \in A /\ u[k] \in 1 .. n
      /\ \A x \in 1 .. n : x \in A => \E k \in 1 .. p : u[k] = x
      /\ \A k, l \in 1 .. p : k < l => u[k] < u[l]
  BY <1>1 DEF InOrder
<1>3. /\ q \in Nat
      /\ \A k \in 1 .. q : v[k] \in B /\ v[k] \in 1 .. m
      /\ \A x \in 1 .. m : x \in B => \E k \in 1 .. q : v[k] = x
      /\ \A k, l \in 1 .. q : k < l => v[k] < v[l]
  <2>1. InOrder(v, B, 1, m) /\ m \in Nat
    OBVIOUS
  <2> QED
    BY ONLY <1>1, <2>1 DEF InOrder
<1>4. Len(w) = p + q /\ (\A i \in 1 .. p : w[i] = u[i]) /\ \A k \in 1 .. q : w[p + k] = n + v[k]
  BY <1>1 DEF Shifted
<1>5. \A k \in 1 .. p + q : k \in 1 .. p \/ (k - p \in 1 .. q /\ k = p + (k - p))
  BY <1>2, <1>3
<1>6. ASSUME NEW k \in 1 .. p + q PROVE w[k] \in S /\ 1 <= w[k] /\ w[k] <= n + m
  <2>1. CASE k \in 1 .. p
    <3>1. w[k] = u[k] /\ u[k] \in 1 .. n /\ u[k] \in A
      BY <1>2, <1>4, <2>1
    <3>2. u[k] \in S
      BY <3>1 DEF Splits
    <3> QED
      BY ONLY <3>1, <3>2, n \in Nat, m \in Nat
  <2>2. CASE k - p \in 1 .. q /\ k = p + (k - p)
    <3>1. PICK j : j = k - p
      OBVIOUS
    <3>2. j \in 1 .. q /\ w[k] = n + v[j] /\ v[j] \in B /\ v[j] \in 1 .. m
      BY <1>3, <1>4, <2>2, <3>1
    <3> QED
      BY <3>2 DEF Splits
  <2> QED
    BY <1>5, <2>1, <2>2
<1>7. ASSUME NEW x \in 1 .. n + m, x \in S PROVE \E k \in 1 .. p + q : w[k] = x
  <2>1. CASE x <= n
    <3>1. x \in 1 .. n /\ x \in A
      BY <1>7, <2>1 DEF Splits
    <3>2. PICK k \in 1 .. p : u[k] = x
      BY <1>2, <3>1
    <3>3. k \in 1 .. p + q
      BY <1>2, <1>3
    <3> QED
      BY <1>4, <3>2, <3>3
  <2>2. CASE ~ (x <= n)
    <3>1. PICK y : y = x - n
      OBVIOUS
    <3>2. y \in 1 .. m /\ x = n + y
      BY <2>2, <3>1
    <3>3. y \in B
      BY <1>7, <3>2 DEF Splits
    <3>4. PICK k \in 1 .. q : v[k] = y
      BY <1>3, <3>2, <3>3
    <3>5. p + k \in 1 .. p + q /\ w[p + k] = n + v[k]
      BY <1>2, <1>3, <1>4
    <3> QED
      BY <3>2, <3>4, <3>5
  <2> QED
    BY <2>1, <2>2
<1>8. ASSUME NEW k \in 1 .. p + q, NEW l \in 1 .. p + q, k < l PROVE w[k] < w[l]
  <2>1. CASE l \in 1 .. p
    <3>1. k \in 1 .. p
      BY <1>2, <1>8, <2>1
    <3> QED
      BY <1>2, <1>4, <1>8, <2>1, <3>1
  <2>2. CASE ~ (l \in 1 .. p)
    <3>1. PICK j : j = l - p
      OBVIOUS
    <3>2. j \in 1 .. q /\ w[l] = n + v[j] /\ v[j] \in 1 .. m /\ l = p + j
      BY <1>3, <1>4, <1>5, <2>2, <3>1
    <3>3. CASE k \in 1 .. p
      <4>1. w[k] = u[k] /\ u[k] \in 1 .. n
        BY <1>2, <1>4, <3>3
      <4> QED
        BY ONLY <3>2, <4>1, n \in Nat, m \in Nat
    <3>4. CASE ~ (k \in 1 .. p)
      <4>1. PICK i : i = k - p
        OBVIOUS
      <4>2. i \in 1 .. q /\ w[k] = n + v[i] /\ v[i] \in 1 .. m /\ k = p + i
        BY <1>3, <1>4, <1>5, <3>4, <4>1
      <4>3. i < j
        BY ONLY <1>2, <1>3, <1>8, <3>2, <4>2
      <4>4. v[i] < v[j]
        BY <1>3, <3>2, <4>2, <4>3
      <4>5. w[k] = n + v[i] /\ w[l] = n + v[j] /\ v[i] \in 1 .. m /\ v[j] \in 1 .. m
        BY ONLY <3>2, <4>2
      <4> QED
        BY ONLY <4>4, <4>5, n \in Nat, m \in Nat
    <3> QED
      BY <3>3, <3>4
  <2> QED
    BY <2>1, <2>2
<1>9. w \in Seq(Nat)
  BY DEF Shifted
<1> QED
  BY <1>4, <1>6, <1>7, <1>8, <1>9 DEF InOrder

(* What is kept of a list and then of another.                             *)
LEMMA KeptConcat ==
    ASSUME NEW T, NEW a \in Seq(T), NEW b \in Seq(T), NEW S, NEW A, NEW B,
           Splits(S, A, Len(a), B, Len(b))
    PROVE  Kept(a \o b, S) = Kept(a, A) \o Kept(b, B)
<1>1. PICK n, m, u, v, w : /\ n = Len(a) /\ m = Len(b)
                           /\ u = Ascending(A, n) /\ v = Ascending(B, m)
                           /\ w = u \o [k \in 1 .. Len(v) |-> n + v[k]]
  OBVIOUS
<1>2. n \in Nat /\ m \in Nat
  BY <1>1
<1>3. InOrder(u, A, 1, n) /\ InOrder(v, B, 1, m)
  BY <1>1, <1>2, AscendingIs
<1>4. u \in Seq(Nat) /\ v \in Seq(Nat)
  BY <1>3 DEF InOrder
<1>5. w \in Seq(Nat) /\ Len(w) = Len(u) + Len(v) /\ (\A i \in 1 .. Len(u) : w[i] = u[i])
      /\ \A k \in 1 .. Len(v) : w[Len(u) + k] = n + v[k]
  <2>1. PICK z : z = [k \in 1 .. Len(v) |-> n + v[k]]
    OBVIOUS
  <2>2. z \in Seq(Nat) /\ Len(z) = Len(v) /\ \A k \in 1 .. Len(v) : z[k] = n + v[k]
    BY ONLY <1>2, <1>4, <2>1
  <2>3. w = u \o z
    BY <1>1, <2>1
  <2>4. Concat(w, u, z, Nat)
    BY ONLY <1>4, <2>2, <2>3, ConcatIs
  <2> QED
    BY ONLY <2>2, <2>4 DEF Concat
<1>6. InOrder(w, S, 1, n + m)
  <2>1. Splits(S, A, n, B, m)
    BY <1>1
  <2>2. Shifted(w, u, v, n)
    BY ONLY <1>5 DEF Shifted
  <2> QED
    BY ONLY <1>2, <1>3, <2>1, <2>2, OrderConcat
<1>7. PICK c, d, e, f : c = a \o b /\ d = Kept(a, A) /\ e = Kept(b, B) /\ f = Kept(c, S)
  OBVIOUS
<1>8. /\ c \in Seq(T) /\ Len(c) = n + m
      /\ \A i \in 1 .. n : c[i] = a[i]
      /\ \A k \in 1 .. m : c[n + k] = b[k]
  BY <1>1, <1>7
<1>9. KeptAs(d, a, u, T) /\ KeptAs(e, b, v, T)
  BY <1>1, <1>3, <1>7, KeptAt
<1>10. KeptAs(f, c, w, T)
  BY <1>6, <1>7, <1>8, KeptAt
<1>11. /\ d \in Seq(T) /\ Len(d) = Len(u) /\ \A k \in 1 .. Len(u) : u[k] \in 1 .. n /\ d[k] = a[u[k]]
       /\ e \in Seq(T) /\ Len(e) = Len(v) /\ \A k \in 1 .. Len(v) : v[k] \in 1 .. m /\ e[k] = b[v[k]]
       /\ f \in Seq(T) /\ Len(f) = Len(w) /\ \A k \in 1 .. Len(w) : f[k] = c[w[k]]
  BY <1>1, <1>9, <1>10 DEF KeptAs
<1>12. PICK g : g = d \o e
  OBVIOUS
<1>13. /\ g \in Seq(T) /\ Len(g) = Len(u) + Len(v)
       /\ \A i \in 1 .. Len(u) : g[i] = d[i]
       /\ \A k \in 1 .. Len(v) : g[Len(u) + k] = e[k]
  <2>1. Concat(g, d, e, T)
    BY ONLY <1>11, <1>12, ConcatIs
  <2> QED
    BY ONLY <1>11, <2>1 DEF Concat
<1>14. \A i \in 1 .. Len(f) : f[i] = g[i]
  <2> TAKE i \in 1 .. Len(f)
  <2>0. Len(u) \in Nat /\ Len(v) \in Nat /\ i \in 1 .. Len(u) + Len(v) /\ i \in 1 .. Len(w)
    BY <1>4, <1>5, <1>11
  <2>1. CASE i \in 1 .. Len(u)
    <3>1. f[i] = c[w[i]] /\ w[i] = u[i]
      BY <1>5, <1>11, <2>0, <2>1
    <3>2. u[i] \in 1 .. n /\ d[i] = a[u[i]] /\ g[i] = d[i]
      BY <1>11, <1>13, <2>1
    <3> QED
      BY <1>8, <3>1, <3>2
  <2>2. CASE ~ (i \in 1 .. Len(u))
    <3>1. PICK k : k = i - Len(u)
      OBVIOUS
    <3>2. k \in 1 .. Len(v) /\ i = Len(u) + k
      BY ONLY <2>0, <2>2, <3>1
    <3>3. f[i] = c[n + v[k]]
      BY <1>5, <1>11, <2>0, <3>2
    <3>4. g[i] = b[v[k]] /\ v[k] \in 1 .. m
      BY <1>11, <1>13, <3>2
    <3> QED
      BY <1>8, <3>3, <3>4
  <2> QED
    BY <2>1, <2>2
<1>15. f = g
  <2>1. Len(f) = Len(g)
    BY <1>5, <1>11, <1>13
  <2> QED
    BY ONLY <1>11, <1>13, <1>14, <2>1, SeqEqual
<1> QED
  BY <1>7, <1>12, <1>15

(* s says where the lines of t begin.                                      *)
StartsOf(s, t) ==
    /\ s \in Seq(Nat) /\ Len(s) \in Nat /\ Len(s) >= 1 /\ s[1] = 1
    /\ \A l \in 1 .. Len(s) : s[l] \in Nat /\ 1 <= s[l] /\ s[l] <= Len(t) + 1
    /\ \A k, l \in 1 .. Len(s) : k < l => s[k] < s[l]
    /\ \A l \in 2 .. Len(s) : t[s[l] - 1] = "\n"

(* LineStarts gives where the lines begin.                                 *)
LEMMA StartsAre ==
    ASSUME NEW D, NEW t \in Seq(D)
    PROVE  StartsOf(LineStarts(t), t)
<1>1. PICK n, S, s : /\ n = Len(t) + 1 /\ S = {i \in 1 .. n : i = 1 \/ t[i - 1] = "\n"}
                     /\ s = Ascending(S, n)
  OBVIOUS
<1>2. n \in Nat /\ n >= 1 /\ LineStarts(t) = s
  BY <1>1 DEF LineStarts
<1>3. InOrder(s, S, 1, n)
  BY <1>1, <1>2, AscendingIs
<1>4. /\ s \in Seq(Nat) /\ Len(s) \in Nat
      /\ \A k \in 1 .. Len(s) : s[k] \in S /\ 1 <= s[k] /\ s[k] <= n /\ s[k] \in Nat
      /\ \A x \in 1 .. n : x \in S => \E k \in 1 .. Len(s) : s[k] = x
      /\ \A k, l \in 1 .. Len(s) : k < l => s[k] < s[l]
  BY ONLY <1>3 DEF InOrder
<1>5. PICK k \in 1 .. Len(s) : s[k] = 1
  <2>1. 1 \in 1 .. n /\ 1 \in S
    BY <1>1, <1>2
  <2> QED
    BY <1>4, <2>1
<1>6. Len(s) >= 1 /\ s[1] = 1
  <2>1. 1 \in 1 .. Len(s) /\ (k = 1 \/ 1 < k)
    BY <1>4
  <2>2. 1 < k => s[1] < 1 /\ 1 <= s[1] /\ s[1] \in Nat
    BY <1>4, <1>5, <2>1
  <2> QED
    BY <1>5, <2>1, <2>2
<1>7. ASSUME NEW l \in 2 .. Len(s) PROVE t[s[l] - 1] = "\n"
  <2>1. 1 \in 1 .. Len(s) /\ l \in 1 .. Len(s) /\ 1 < l
    BY <1>4
  <2>2. s[1] < s[l] /\ s[l] \in S /\ s[l] \in Nat
    BY <1>4, <2>1
  <2>3. s[l] # 1
    BY <1>6, <2>2
  <2> QED
    BY <1>1, <2>2, <2>3
<1> QED
  BY <1>1, <1>2, <1>4, <1>6, <1>7 DEF StartsOf

(* Line l has the place i.                                                 *)
LineOf(l, s, i) ==
    /\ l \in 1 .. Len(s) /\ s[l] <= i
    /\ l < Len(s) => i < s[l + 1]

(* FindLine gives the line of a place.                                     *)
LEMMA FindLineIs ==
    ASSUME NEW t, NEW s, StartsOf(s, t), NEW i \in Nat, 1 <= i
    PROVE  LineOf(FindLine(s, i), s, i)
<1>1. PICK n, S, m : n = Len(s) /\ S = {l \in DOMAIN s : s[l] <= i} /\ m = FindLine(s, i)
  OBVIOUS
<1>2. n \in Nat /\ n >= 1 /\ DOMAIN s = 1 .. n /\ s[1] = 1 /\ \A l \in 1 .. n : s[l] \in Nat
  BY <1>1 DEF StartsOf
<1>3. S \subseteq 0 .. n /\ S # {}
  <2>1. 1 \in S
    BY <1>1, <1>2
  <2> QED
    BY <1>1, <1>2, <2>1
<1>4. m = Max(S)
  BY <1>1 DEF FindLine
<1>5. m \in S /\ \A l \in S : l <= m
  BY <1>2, <1>3, <1>4, MaxOf
<1>6. m \in 1 .. n /\ s[m] <= i
  BY <1>1, <1>2, <1>5
<1>7. ASSUME m < n PROVE i < s[m + 1]
  <2>1. m + 1 \in 1 .. n /\ ~ (m + 1 <= m)
    BY <1>2, <1>6, <1>7
  <2>2. m + 1 \notin S
    BY <1>5, <2>1
  <2>3. ~ (s[m + 1] <= i) /\ s[m + 1] \in Nat
    BY <1>1, <1>2, <2>1, <2>2
  <2> QED
    BY <2>3
<1> QED
  BY <1>1, <1>6, <1>7 DEF LineOf

(* Where a line is over, its line end with it, and what a span is.         *)
Limit(t, s, l) == IF l < Len(s) THEN s[l + 1] ELSE Len(t) + 1

Spans(D) == [line : Nat, col : Nat, body : Seq(D), kind : Colours \cup {"identifier"}]

SpanFrom(x, s) == s[x.line] + x.col
SpanTo(x, s)   == s[x.line] + x.col + Len(x.body)

(* x draws what stands where it says.                                      *)
SpanOf(x, t, s, D) ==
    /\ x \in Spans(D) /\ x.line \in 1 .. Len(s)
    /\ SpanFrom(x, s) \in Nat /\ SpanTo(x, s) \in Nat
    /\ s[x.line] <= SpanFrom(x, s) /\ SpanFrom(x, s) < SpanTo(x, s) /\ SpanTo(x, s) <= Limit(t, s, x.line)
    /\ x.body = Upto(t, SpanFrom(x, s), SpanTo(x, s))

(* The spans of a list draw what they say, between lo and hi, in order.    *)
Placed(list, t, s, D, lo, hi) ==
    /\ list \in Seq(Spans(D))
    /\ \A k \in 1 .. Len(list) :
         SpanOf(list[k], t, s, D) /\ lo <= SpanFrom(list[k], s) /\ SpanTo(list[k], s) <= hi
    /\ \A j, k \in 1 .. Len(list) : j < k => SpanTo(list[j], s) <= SpanFrom(list[k], s)

(* Two lists of spans, one before the other.                               *)
LEMMA PlacedConcat ==
    ASSUME NEW D, NEW t, NEW s, NEW a, NEW b, NEW lo \in Nat, NEW m1 \in Nat, NEW m2 \in Nat, NEW hi \in Nat,
           Placed(a, t, s, D, lo, m1), Placed(b, t, s, D, m2, hi), lo <= m1, m1 <= m2, m2 <= hi
    PROVE  Placed(a \o b, t, s, D, lo, hi)
<1>1. PICK d, p, q : d = a \o b /\ p = Len(a) /\ q = Len(b)
  OBVIOUS
<1>2. a \in Seq(Spans(D)) /\ b \in Seq(Spans(D))
  BY DEF Placed
<1>3. Concat(d, a, b, Spans(D))
  BY <1>1, <1>2, ConcatIs
<1>4. /\ d \in Seq(Spans(D)) /\ Len(d) = p + q /\ p \in Nat /\ q \in Nat
      /\ \A i \in 1 .. p : d[i] = a[i]
      /\ \A i \in 1 .. q : d[p + i] = b[i]
  BY <1>1, <1>3 DEF Concat
<1>5. \A i \in 1 .. p + q : i \in 1 .. p \/ (i - p \in 1 .. q /\ d[i] = b[i - p])
  <2> SUFFICES ASSUME NEW i \in 1 .. p + q, i \notin 1 .. p PROVE i - p \in 1 .. q /\ d[i] = b[i - p]
    OBVIOUS
  <2>1. i - p \in 1 .. q /\ i = p + (i - p)
    BY <1>4
  <2> QED
    BY <1>4, <2>1
<1>6. /\ \A i \in 1 .. p : /\ SpanOf(a[i], t, s, D) /\ lo <= SpanFrom(a[i], s) /\ SpanTo(a[i], s) <= m1
                          /\ SpanFrom(a[i], s) \in Nat /\ SpanTo(a[i], s) \in Nat
      /\ \A i \in 1 .. q : /\ SpanOf(b[i], t, s, D) /\ m2 <= SpanFrom(b[i], s) /\ SpanTo(b[i], s) <= hi
                          /\ SpanFrom(b[i], s) \in Nat /\ SpanTo(b[i], s) \in Nat
  BY <1>1 DEF Placed, SpanOf
<1>7. ASSUME NEW i \in 1 .. p + q
      PROVE  SpanOf(d[i], t, s, D) /\ lo <= SpanFrom(d[i], s) /\ SpanTo(d[i], s) <= hi
  <2>1. CASE i \in 1 .. p
    <3>1. d[i] = a[i] /\ SpanOf(a[i], t, s, D)
      BY <1>4, <1>6, <2>1
    <3>2. lo <= SpanFrom(a[i], s) /\ SpanTo(a[i], s) <= m1 /\ SpanTo(a[i], s) \in Nat
      BY <1>6, <2>1
    <3>3. SpanTo(a[i], s) <= hi
      BY ONLY <3>2, m1 \in Nat, m2 \in Nat, hi \in Nat, m1 <= m2, m2 <= hi
    <3> QED
      BY ONLY <3>1, <3>2, <3>3
  <2>2. CASE i - p \in 1 .. q /\ d[i] = b[i - p]
    <3>1. PICK k : k = i - p
      OBVIOUS
    <3>2. d[i] = b[k] /\ SpanOf(b[k], t, s, D) /\ m2 <= SpanFrom(b[k], s) /\ SpanTo(b[k], s) <= hi
          /\ SpanFrom(b[k], s) \in Nat
      BY <1>6, <2>2, <3>1
    <3>3. lo <= SpanFrom(b[k], s)
      BY ONLY <3>2, lo \in Nat, m1 \in Nat, m2 \in Nat, lo <= m1, m1 <= m2
    <3> QED
      BY ONLY <3>2, <3>3
  <2> QED
    BY <1>5, <2>1, <2>2
<1>8. ASSUME NEW j \in 1 .. p + q, NEW k \in 1 .. p + q, j < k
      PROVE  SpanTo(d[j], s) <= SpanFrom(d[k], s)
  <2>1. CASE k \in 1 .. p
    <3>1. j \in 1 .. p
      BY <1>4, <1>8, <2>1
    <3> QED
      BY <1>1, <1>4, <1>8, <2>1, <3>1 DEF Placed
  <2>2. CASE k - p \in 1 .. q /\ d[k] = b[k - p]
    <3>1. PICK x : x = k - p
      OBVIOUS
    <3>2. CASE j \in 1 .. p
      <4>1. d[j] = a[j] /\ SpanTo(a[j], s) <= m1 /\ SpanTo(a[j], s) \in Nat
        BY <1>4, <1>6, <3>2
      <4>2. d[k] = b[x] /\ m2 <= SpanFrom(b[x], s) /\ SpanFrom(b[x], s) \in Nat
        BY <1>6, <2>2, <3>1
      <4>3. SpanTo(a[j], s) <= SpanFrom(b[x], s)
        BY ONLY <4>1, <4>2, m1 \in Nat, m2 \in Nat, m1 <= m2
      <4> QED
        BY ONLY <4>1, <4>2, <4>3
    <3>3. CASE j - p \in 1 .. q /\ d[j] = b[j - p]
      <4>1. PICK y : y = j - p
        OBVIOUS
      <4>2. y \in 1 .. q /\ x \in 1 .. q /\ y < x /\ d[j] = b[y] /\ d[k] = b[x]
        BY <1>4, <1>8, <2>2, <3>1, <3>3, <4>1
      <4> QED
        BY <1>1, <4>2 DEF Placed
    <3> QED
      BY <1>5, <3>2, <3>3
  <2> QED
    BY <1>5, <2>1, <2>2
<1> QED
  BY <1>1, <1>4, <1>7, <1>8 DEF Placed

(* No span is in the wrong place.                                          *)
LEMMA PlacedNone ==
    ASSUME NEW D, NEW t, NEW s, NEW lo, NEW hi
    PROVE  Placed(<<>>, t, s, D, lo, hi)
BY DEF Placed

(* The span of a piece of a line, if there is anything in it.              *)
LEMMA PlacedSpan ==
    ASSUME NEW D, NEW t \in Seq(D), NEW s, StartsOf(s, t), NEW l \in 1 .. Len(s), NEW kind \in Colours \cup {"identifier"},
           NEW p \in Nat, NEW q \in Nat, s[l] <= p, p <= q, q <= Limit(t, s, l)
    PROVE  /\ Placed(Span(l, p - s[l], Upto(t, p, q), kind), t, s, D, p, q)
           /\ p = q => Span(l, p - s[l], Upto(t, p, q), kind) = <<>>
           /\ p < q => /\ Span(l, p - s[l], Upto(t, p, q), kind) = <<[line |-> l, col |-> p - s[l], body |-> Upto(t, p, q), kind |-> kind]>>
                       /\ [line |-> l, col |-> p - s[l], body |-> Upto(t, p, q), kind |-> kind] \in Spans(D)
<1>1. PICK n, body, x : n = Len(t) /\ body = Upto(t, p, q) /\ x = [line |-> l, col |-> p - s[l], body |-> body, kind |-> kind]
  OBVIOUS
<1>2. n \in Nat /\ l \in Nat /\ s[l] \in Nat /\ 1 <= s[l] /\ Limit(t, s, l) <= n + 1 /\ Limit(t, s, l) \in Nat
  <2>1. l \in Nat /\ Len(s) \in Nat /\ (l < Len(s) => l + 1 \in 1 .. Len(s))
    BY DEF StartsOf
  <2>2. s[l] \in Nat /\ 1 <= s[l] /\ (l < Len(s) => s[l + 1] \in Nat /\ s[l + 1] <= n + 1)
    BY <1>1, <2>1 DEF StartsOf
  <2> QED
    BY <1>1, <2>1, <2>2 DEF Limit
<1>3. p \in 1 .. n + 1 /\ q \in p .. n + 1 /\ p - s[l] \in Nat /\ s[l] + (p - s[l]) = p
  BY <1>2
<1>4. body \in Seq(D) /\ Len(body) = q - p
  <2>1. PieceOf(body, t, p, q, D)
    BY <1>1, <1>3, PieceIs
  <2> QED
    BY <2>1 DEF PieceOf
<1>5. CASE p = q
  <2>1. body = <<>>
    <3>1. Len(body) = 0
      BY <1>3, <1>4, <1>5
    <3> QED
      BY ONLY <1>4, <3>1, EmptySeq
  <2>2. Span(l, p - s[l], body, kind) = <<>>
    BY <2>1 DEF Span
  <2> QED
    BY <1>1, <1>5, <2>2, PlacedNone
<1>6. CASE p < q
  <2>1. body # <<>>
    <3> SUFFICES ASSUME body = <<>> PROVE FALSE
      OBVIOUS
    <3>1. Len(body) = 0
      BY ONLY body = <<>>, EmptySeq
    <3> QED
      BY <1>4, <1>6, <3>1
  <2>2. Span(l, p - s[l], body, kind) = <<x>>
    BY <1>1, <2>1 DEF Span
  <2>3. x \in Spans(D) /\ x.line = l /\ x.col = p - s[l] /\ x.body = body
    BY <1>1, <1>2, <1>3, <1>4 DEF Spans
  <2>4. SpanFrom(x, s) = p /\ SpanTo(x, s) = q
    BY <1>3, <1>4, <2>3 DEF SpanFrom, SpanTo
  <2>5. SpanOf(x, t, s, D)
    BY <1>1, <1>6, <2>3, <2>4 DEF SpanOf
  <2>6. <<x>> \in Seq(Spans(D)) /\ Len(<<x>>) = 1 /\ <<x>>[1] = x
    BY ONLY <2>3
  <2>7. Placed(<<x>>, t, s, D, p, q)
    <3>1. \A k \in 1 .. 1 : k = 1
      OBVIOUS
    <3> QED
      BY <2>4, <2>5, <2>6, <3>1 DEF Placed
  <2> QED
    BY <1>1, <1>6, <2>2, <2>3, <2>7
<1> QED
  BY <1>5, <1>6

(* The k-th list of seqs has its spans from lo[k] to before hi[k].         *)
RowsPlaced(seqs, t, s, D, lo, hi) ==
    /\ seqs \in Seq(Seq(Spans(D)))
    /\ hi[0] \in Nat
    /\ \A k \in 1 .. Len(seqs) :
         /\ lo[k] \in Nat /\ hi[k] \in Nat /\ hi[k - 1] <= lo[k] /\ lo[k] <= hi[k]
         /\ Placed(seqs[k], t, s, D, lo[k], hi[k])

(* Lists of spans that follow each other make one list in order.           *)
LEMMA PlacedFlatten ==
    ASSUME NEW D, NEW t, NEW s, NEW seqs, NEW lo, NEW hi, RowsPlaced(seqs, t, s, D, lo, hi)
    PROVE  Placed(FlattenSeq(seqs), t, s, D, hi[0], hi[Len(seqs)]) /\ hi[0] <= hi[Len(seqs)] /\ hi[Len(seqs)] \in Nat
<1>1. PICK n : n = Len(seqs)
  OBVIOUS
<1>2. /\ seqs \in Seq(Seq(Spans(D))) /\ n \in Nat /\ hi[0] \in Nat
      /\ \A k \in 1 .. n :
         /\ lo[k] \in Nat /\ hi[k] \in Nat /\ hi[k - 1] <= lo[k] /\ lo[k] <= hi[k]
         /\ Placed(seqs[k], t, s, D, lo[k], hi[k])
  BY <1>1 DEF RowsPlaced
<1>3. PICK g : Flattens(g, seqs, Spans(D))
  BY <1>2, FlattenSteps
<1>4. g[0] = <<>> /\ (\A i \in 1 .. n : g[i] = g[i - 1] \o seqs[i]) /\ FlattenSeq(seqs) = g[n]
  BY <1>1, <1>3 DEF Flattens
<1> DEFINE P == {k \in 0 .. n : Placed(g[k], t, s, D, hi[0], hi[k]) /\ hi[0] <= hi[k] /\ hi[k] \in Nat}
<1>5. 0 \in P
  BY <1>2, <1>4, PlacedNone
<1>6. ASSUME NEW k \in 0 .. n - 1, k \in P PROVE k + 1 \in P
  <2>1. PICK m : m = k + 1
    OBVIOUS
  <2>2. m \in 1 .. n /\ m - 1 = k /\ m \in 0 .. n
    BY <1>2, <2>1
  <2>3. /\ lo[m] \in Nat /\ hi[m] \in Nat /\ hi[k] <= lo[m] /\ lo[m] <= hi[m]
        /\ Placed(seqs[m], t, s, D, lo[m], hi[m])
    BY <1>2, <2>2
  <2>4. Placed(g[k], t, s, D, hi[0], hi[k]) /\ hi[0] <= hi[k] /\ hi[k] \in Nat /\ hi[0] \in Nat
    BY <1>2, <1>6
  <2>5. Placed(g[k] \o seqs[m], t, s, D, hi[0], hi[m])
    BY ONLY <2>3, <2>4, PlacedConcat
  <2>6. hi[0] <= hi[m]
    BY ONLY <2>3, <2>4
  <2>7. g[m] = g[k] \o seqs[m]
    BY <1>4, <2>2
  <2> QED
    BY <2>1, <2>2, <2>3, <2>5, <2>6, <2>7
<1>7. \A k \in 0 .. n : k \in P
  <2> HIDE DEF P
  <2> QED BY <1>2, <1>5, <1>6, Upward
<1>8. n \in 0 .. n
  BY <1>2
<1> QED
  BY <1>1, <1>4, <1>7, <1>8

(* The tokens of a list follow each other from lo to the end n.            *)
Sequent(list, lo, n) ==
    /\ list \in Seq(Tokens)
    /\ \A k \in 1 .. Len(list) : lo <= list[k].from /\ list[k].from < list[k].end /\ list[k].end <= n + 1
    /\ \A j, k \in 1 .. Len(list) : j < k => list[j].end <= list[k].from

(* A token in front of tokens that come later.                             *)
LEMMA SequentCons ==
    ASSUME NEW n \in Nat, NEW i \in 1 .. n, NEW e \in i + 1 .. n + 1, NEW kind \in Colours,
           NEW list, Sequent(list, e, n)
    PROVE  Sequent(Token(i, e, kind) \o list, i, n)
<1>1. PICK x, d, m : x = [from |-> i, end |-> e, kind |-> kind] /\ d = <<x>> \o list /\ m = Len(list)
  OBVIOUS
<1>2. x \in Tokens /\ x.from = i /\ x.end = e
  BY <1>1 DEF Tokens
<1>3. /\ list \in Seq(Tokens) /\ m \in Nat
      /\ \A k \in 1 .. m : e <= list[k].from /\ list[k].from < list[k].end /\ list[k].end <= n + 1
      /\ \A j, k \in 1 .. m : j < k => list[j].end <= list[k].from
  BY <1>1 DEF Sequent
<1>a. \A k \in 1 .. m : list[k].from \in Nat /\ list[k].end \in Nat
  <2>1. \A k \in 1 .. m : list[k] \in Tokens
    BY <1>1, <1>3
  <2> QED
    BY <2>1 DEF Tokens
<1>4. d \in Seq(Tokens) /\ Len(d) = m + 1 /\ d[1] = x /\ \A k \in 1 .. m : d[k + 1] = list[k]
  BY ONLY <1>1, <1>2, <1>3
<1>5. \A k \in 1 .. m + 1 : k = 1 \/ (k - 1 \in 1 .. m /\ d[k] = list[k - 1])
  <2> SUFFICES ASSUME NEW k \in 1 .. m + 1, k # 1 PROVE k - 1 \in 1 .. m /\ d[k] = list[k - 1]
    OBVIOUS
  <2>1. k - 1 \in 1 .. m /\ k = (k - 1) + 1
    BY <1>3
  <2> QED
    BY <1>4, <2>1
<1>6. ASSUME NEW k \in 1 .. m + 1 PROVE i <= d[k].from /\ d[k].from < d[k].end /\ d[k].end <= n + 1
  <2>1. CASE k = 1
    BY <1>2, <1>4, <2>1
  <2>2. CASE k - 1 \in 1 .. m /\ d[k] = list[k - 1]
    <3>1. PICK j : j = k - 1
      OBVIOUS
    <3>2. d[k] = list[j] /\ e <= list[j].from /\ list[j].from < list[j].end /\ list[j].end <= n + 1 /\ list[j].from \in Nat
      BY <1>3, <1>a, <2>2, <3>1
    <3> QED
      BY <3>2
  <2> QED
    BY <1>5, <2>1, <2>2
<1>7. ASSUME NEW j \in 1 .. m + 1, NEW k \in 1 .. m + 1, j < k PROVE d[j].end <= d[k].from
  <2>1. PICK b : b = k - 1
    OBVIOUS
  <2>2. b \in 1 .. m /\ d[k] = list[b] /\ e <= list[b].from
    <3>1. k # 1
      BY <1>3, <1>7
    <3> QED
      BY <1>3, <1>5, <2>1, <3>1
  <2>3. CASE j = 1
    BY <1>2, <1>4, <2>2, <2>3
  <2>4. CASE j # 1
    <3>1. PICK a : a = j - 1
      OBVIOUS
    <3>2. a \in 1 .. m /\ d[j] = list[a] /\ a < b
      BY <1>3, <1>5, <1>7, <2>1, <2>4, <3>1
    <3> QED
      BY <1>3, <2>2, <3>2
  <2> QED
    BY <2>3, <2>4
<1>8. Token(i, e, kind) \o list = d
  BY <1>1 DEF Token
<1> QED
  BY <1>4, <1>6, <1>7, <1>8 DEF Sequent

(* Tokens that come from a place on come from any place before it on.      *)
LEMMA SequentEarlier ==
    ASSUME NEW n \in Nat, NEW i \in Nat, NEW e \in Nat, i <= e, NEW list, Sequent(list, e, n)
    PROVE  Sequent(list, i, n)
<1>1. \A k \in 1 .. Len(list) : list[k].from \in Nat
  <2>1. \A k \in 1 .. Len(list) : list[k] \in Tokens
    BY DEF Sequent
  <2> QED
    BY <2>1 DEF Tokens
<1> QED
  BY <1>1 DEF Sequent

(* The tokens of a text follow each other in it, from each place on.       *)
LEMMA WalkSequent ==
    ASSUME NEW D, NEW t \in Seq(D), NEW f, TokensFrom(f, t)
    PROVE  \A i \in 1 .. Len(t) + 1 : Sequent(f[i], i, Len(t))
<1>1. PICK n : TokensFrom(f, t) /\ n = Len(t)
  OBVIOUS
<1>2. n \in Nat
  BY <1>1
<1> DEFINE P == {i \in 1 .. n + 1 : \A j \in i .. n + 1 : Sequent(f[j], j, n)}
<1>3. n + 1 \in P
  <2>1. f[n + 1] = <<>>
    BY <1>1 DEF TokensFrom
  <2>2. Sequent(<<>>, n + 1, n)
    BY DEF Sequent
  <2>3. \A j \in n + 1 .. n + 1 : j = n + 1
    BY <1>2
  <2> QED
    BY <1>2, <2>1, <2>2, <2>3
<1>4. ASSUME NEW i \in 1 .. n, i + 1 \in P PROVE i \in P
  <2>1. \A j \in i + 1 .. n + 1 : Sequent(f[j], j, n)
    BY <1>4
  <2>2. i \in 1 .. Len(t) /\ i + 1 \in Nat /\ i + 1 <= Len(t) + 1 /\ i \in Nat /\ i <= Len(t) + 1
    BY <1>1, <1>2
  <2>3. /\ SkipFrom(t, i) # i => \E kind \in {"comment", "string"} :
                f[i] = Token(i, SkipFrom(t, i), kind) \o f[SkipFrom(t, i)]
        /\ SkipFrom(t, i) = i /\ NumberAt(t, i) =>
                f[i] = Token(i, NumberEnd(t, i), "number") \o f[NumberEnd(t, i)]
        /\ t[i] \in Letters => f[i] = KeywordToken(t, i, WordEnd(t, i)) \o f[WordEnd(t, i)]
        /\ ParamAt(t, i) => f[i] = ParamToken(i, NameEnd(t, i)) \o f[NameEnd(t, i)]
        /\ Other(t, i) => f[i] = f[i + 1]
    BY ONLY <1>1, <2>2 DEF TokensFrom
  <2>4. \A j \in 1 .. n + 1 : f[j] \in Seq(Tokens)
    BY <1>1 DEF TokensFrom
  <2>5. "number" \in Colours /\ "keyword" \in Colours /\ "param" \in Colours /\ "comment" \in Colours /\ "string" \in Colours
    BY DEF Colours
  <2>6. ASSUME NEW e \in i + 1 .. n + 1, NEW kind \in Colours
        PROVE  Sequent(Token(i, e, kind) \o f[e], i, n) /\ Sequent(f[e], i, n)
    <3>1. Sequent(f[e], e, n)
      BY <2>1
    <3>2. i \in 1 .. n /\ e \in Nat /\ i \in Nat /\ i <= e
      BY <1>2
    <3> QED
      BY ONLY <1>2, <3>1, <3>2, e \in i + 1 .. n + 1, kind \in Colours, SequentCons, SequentEarlier
  <2>7. ASSUME SkipFrom(t, i) # i PROVE Sequent(f[i], i, n)
    <3>1. SkipFrom(t, i) \in i + 1 .. n + 1
      <4>1. SkipFrom(t, i) \in i .. Len(t) + 1
        BY ONLY <2>2, SkipIn, t \in Seq(D)
      <4> QED
        BY ONLY <1>1, <1>2, <2>2, <2>7, <4>1
    <3> QED
      BY <2>3, <2>5, <2>6, <2>7, <3>1
  <2>8. ASSUME SkipFrom(t, i) = i /\ NumberAt(t, i) PROVE Sequent(f[i], i, n)
    <3>1. NumberEnd(t, i) \in i + 1 .. n + 1
      BY <1>1, <2>2, <2>8, NumberEndIs
    <3> QED
      BY <2>3, <2>5, <2>6, <2>8, <3>1
  <2>9. ASSUME t[i] \in Letters PROVE Sequent(f[i], i, n)
    <3>1. WordEnd(t, i) \in i .. n + 1 /\ (WordEnd(t, i) <= n => t[WordEnd(t, i)] \notin WordChars)
      BY <1>1, <2>2, RunEndIs DEF WordEnd
    <3>2. WordEnd(t, i) # i
      BY <1>2, <2>9, <3>1 DEF WordChars
    <3>3. WordEnd(t, i) \in i + 1 .. n + 1 /\ WordEnd(t, i) \in 1 .. n + 1
      BY ONLY <1>2, <2>2, <3>1, <3>2
    <3>4. CASE KeywordToken(t, i, WordEnd(t, i)) = <<>>
      <4>1. <<>> \o f[WordEnd(t, i)] = f[WordEnd(t, i)]
        BY <2>4, <3>3, ConcatEmptySeq
      <4>2. f[i] = f[WordEnd(t, i)]
        BY <2>3, <2>9, <3>4, <4>1
      <4> QED
        BY <2>5, <2>6, <3>3, <4>2
    <3>5. CASE KeywordToken(t, i, WordEnd(t, i)) = Token(i, WordEnd(t, i), "keyword")
      BY <2>3, <2>5, <2>6, <2>9, <3>3, <3>5
    <3> QED
      BY <3>4, <3>5 DEF KeywordToken
  <2>10. ASSUME ParamAt(t, i) PROVE Sequent(f[i], i, n)
    <3>1. NameEnd(t, i) \in i + 1 .. n + 1
      BY <1>1, <2>2, RunEndIs DEF NameEnd
    <3> QED
      BY <2>3, <2>5, <2>6, <2>10, <3>1 DEF ParamToken
  <2>11. ASSUME Other(t, i) PROVE Sequent(f[i], i, n)
    <3>1. i + 1 \in i + 1 .. n + 1
      BY <1>1, <2>2
    <3> QED
      BY <2>3, <2>5, <2>6, <2>11, <3>1
  <2>12. Sequent(f[i], i, n)
    BY ONLY <2>7, <2>8, <2>9, <2>10, <2>11 DEF Other
  <2>13. \A j \in i .. n + 1 : j = i \/ j \in i + 1 .. n + 1
    BY <2>2
  <2>14. i \in 1 .. n + 1
    BY <1>2
  <2> QED
    BY <2>1, <2>12, <2>13, <2>14
<1>5. \A i \in 1 .. n + 1 : i \in P
  <2> HIDE DEF P
  <2> QED BY <1>2, <1>3, <1>4, Downward
<1>6. \A i \in 1 .. n + 1 : i \in i .. n + 1
  BY <1>2
<1> QED
  BY <1>1, <1>5, <1>6

LEMMA TokensSequent ==
    ASSUME NEW D, NEW t \in Seq(D)
    PROVE  Sequent(Tokenize(t), 1, Len(t))
<1>1. PICK f : TokensFrom(f, t) /\ Tokenize(t) = f[1]
  BY TokenizeWalk
<1>2. 1 \in 1 .. Len(t) + 1
  OBVIOUS
<1> QED
  BY <1>1, <1>2, WalkSequent

(* The spans of a token draw it, line by line.                             *)
LEMMA EmitPlaced ==
    ASSUME NEW D, NEW t \in Seq(D), NEW s, StartsOf(s, t), NEW tok \in Tokens,
           1 <= tok.from, tok.from < tok.end, tok.end <= Len(t) + 1
    PROVE  Placed(EmitSpans(t, s, tok), t, s, D, tok.from, tok.end)
<1>1. PICK n, first, last, a, b :
          /\ n = Len(t) /\ first = FindLine(s, tok.from) /\ last = FindLine(s, tok.end - 1)
          /\ a = tok.from /\ b = tok.end
  OBVIOUS
<1>2. n \in Nat /\ a \in Nat /\ b \in Nat /\ 1 <= a /\ a < b /\ b <= n + 1 /\ tok.kind \in Colours \cup {"identifier"}
  <2>1. tok.from \in Nat /\ tok.end \in Nat /\ tok.kind \in Colours
    BY DEF Tokens
  <2> QED
    BY <1>1, <2>1
<1>3. LineOf(first, s, a) /\ LineOf(last, s, b - 1)
  BY <1>1, <1>2, FindLineIs
<1>4. /\ Len(s) \in Nat /\ \A l \in 1 .. Len(s) : s[l] \in Nat /\ 1 <= s[l] /\ s[l] <= n + 1
      /\ \A k, l \in 1 .. Len(s) : k < l => s[k] < s[l]
  BY <1>1 DEF StartsOf
<1>5. /\ first \in 1 .. Len(s) /\ last \in 1 .. Len(s) /\ first \in Nat /\ last \in Nat
      /\ s[first] <= a /\ (first < Len(s) => a < s[first + 1])
      /\ s[last] < b /\ (last < Len(s) => b <= s[last + 1])
  <2>1. first \in 1 .. Len(s) /\ last \in 1 .. Len(s) /\ s[first] <= a /\ (first < Len(s) => a < s[first + 1])
        /\ s[last] <= b - 1 /\ (last < Len(s) => b - 1 < s[last + 1])
    BY <1>3 DEF LineOf
  <2>2. s[last] \in Nat /\ (last < Len(s) => s[last + 1] \in Nat)
    BY <1>4, <2>1
  <2> QED
    BY <1>2, <1>4, <2>1, <2>2
<1>6. first <= last
  <2> SUFFICES ASSUME last < first PROVE FALSE
    BY <1>5
  <2>1. last + 1 \in 1 .. Len(s) /\ last < Len(s) /\ (last + 1 = first \/ last + 1 < first)
    BY <1>4, <1>5
  <2>2. s[last + 1] <= s[first] /\ s[last + 1] \in Nat /\ s[first] \in Nat
    BY <1>4, <1>5, <2>1
  <2> QED
    BY <1>2, <1>5, <2>1, <2>2
<1> DEFINE From(l) == IF l = first THEN a ELSE s[l]
           End(l)  == IF l = last THEN b ELSE s[l + 1] - 1
           m == last - first + 1
           Row(l) == Span(l, From(l) - s[l], Upto(t, From(l), End(l)), tok.kind)
           lists == [k \in 1 .. m |-> Row(first + k - 1)]
           lo == [k \in 1 .. m |-> From(first + k - 1)]
           hi == [k \in 0 .. m |-> IF k = 0 THEN a ELSE End(first + k - 1)]
<1>7. EmitSpans(t, s, tok) = FlattenSeq(lists)
  BY <1>1 DEF EmitSpans
<1>8. m \in Nat /\ m >= 1
  BY <1>5, <1>6
<1>9. ASSUME NEW l \in first .. last
      PROVE  /\ l \in 1 .. Len(s) /\ From(l) \in Nat /\ End(l) \in Nat
             /\ s[l] <= From(l) /\ From(l) <= End(l) /\ End(l) <= Limit(t, s, l)
             /\ l # last => l + 1 \in first .. last /\ End(l) <= From(l + 1)
  <2>1. l \in 1 .. Len(s) /\ l \in Nat
    BY <1>4, <1>5
  <2>2. s[l] \in Nat /\ 1 <= s[l] /\ s[l] <= n + 1
    BY <1>4, <2>1
  <2>3. l # last => l + 1 \in first .. last /\ l + 1 # first /\ l < Len(s) /\ l + 1 \in 1 .. Len(s)
    BY <1>4, <1>5, <2>1
  <2>4. l # last => s[l] < s[l + 1] /\ s[l + 1] \in Nat /\ s[l + 1] <= n + 1
    BY <1>4, <2>1, <2>3
  <2>5. From(l) \in Nat /\ s[l] <= From(l)
    BY <1>2, <1>5, <2>2
  <2>6. End(l) \in Nat
    BY <1>2, <2>2, <2>4
  <2>7. From(l) <= End(l)
    <3>1. CASE l = last
      BY <1>2, <1>5, <2>2, <3>1
    <3>2. CASE l # last
      <4>1. l = first => a < s[l + 1]
        BY <1>5, <2>3, <3>2
      <4> QED
        BY <1>2, <2>2, <2>4, <3>2, <4>1
    <3> QED
      BY <3>1, <3>2
  <2>8. End(l) <= Limit(t, s, l)
    <3>1. CASE l = last
      BY <1>1, <1>2, <1>5, <3>1 DEF Limit
    <3>2. CASE l # last
      BY <2>3, <2>4, <3>2 DEF Limit
    <3> QED
      BY <3>1, <3>2
  <2>9. l # last => End(l) <= From(l + 1)
    BY <2>3, <2>4
  <2> QED
    BY <2>1, <2>3, <2>5, <2>6, <2>7, <2>8, <2>9
<1>10. ASSUME NEW k \in 1 .. m
       PROVE  /\ first + k - 1 \in first .. last
              /\ k = 1 => first + k - 1 = first
              /\ k # 1 => /\ k - 1 \in 1 .. m /\ first + k - 1 = (first + (k - 1) - 1) + 1
                          /\ first + (k - 1) - 1 \in first .. last /\ first + (k - 1) - 1 # last
              /\ k = m => first + k - 1 = last
  BY <1>5, <1>6, <1>8
<1>11. ASSUME NEW k \in 1 .. m
       PROVE  /\ lo[k] \in Nat /\ hi[k] \in Nat /\ hi[k - 1] <= lo[k] /\ lo[k] <= hi[k]
              /\ Placed(lists[k], t, s, D, lo[k], hi[k])
  <2>1. PICK l : l = first + k - 1
    OBVIOUS
  <2>2. l \in first .. last
    BY <1>10, <2>1
  <2>3. /\ l \in 1 .. Len(s) /\ From(l) \in Nat /\ End(l) \in Nat
        /\ s[l] <= From(l) /\ From(l) <= End(l) /\ End(l) <= Limit(t, s, l)
    BY <1>9, <2>2
  <2>4. k \in 0 .. m /\ k # 0
    BY <1>8
  <2>5. lo[k] = From(l) /\ hi[k] = End(l) /\ lists[k] = Row(l)
    <3> HIDE DEF From, End, Row, m
    <3> QED BY <2>1, <2>4
  <2>6. Placed(Row(l), t, s, D, From(l), End(l))
    <3>1. tok.kind \in Colours \cup {"identifier"}
      BY <1>2
    <3> HIDE DEF From, End
    <3> QED BY ONLY <2>3, <3>1, StartsOf(s, t), t \in Seq(D), PlacedSpan
  <2>7. hi[k - 1] <= lo[k]
    <3>1. CASE k = 1
      <4>1. hi[k - 1] = a /\ lo[k] = From(first)
        BY <1>8, <1>10, <2>1, <2>5, <3>1
      <4> QED
        BY <1>2, <4>1
    <3>2. CASE k # 1
      <4>1. PICK h : h = first + (k - 1) - 1
        OBVIOUS
      <4>2. h \in first .. last /\ h # last /\ l = h + 1 /\ k - 1 \in 0 .. m /\ k - 1 # 0
        BY <1>10, <2>1, <3>2, <4>1
      <4>3. End(h) <= From(h + 1)
        BY <1>9, <4>2
      <4>4. hi[k - 1] = End(h)
        <5> HIDE DEF From, End, Row, m
        <5> QED BY <4>1, <4>2
      <4> HIDE DEF From, End, Row, m, hi, lo, lists
      <4> QED
        BY <2>5, <4>2, <4>3, <4>4
    <3> QED
      BY <3>1, <3>2
  <2> HIDE DEF From, End, Row, m, hi, lo, lists
  <2> QED
    BY <2>3, <2>5, <2>6, <2>7
<1>12. lists \in Seq(Seq(Spans(D))) /\ Len(lists) = m
  <2>1. \A k \in 1 .. m : lists[k] \in Seq(Spans(D))
    <3> HIDE DEF lists, m, lo, hi
    <3> QED BY <1>11 DEF Placed
  <2>2. \A k \in 1 .. m : Row(first + k - 1) \in Seq(Spans(D))
    <3> HIDE DEF Row, m
    <3> QED BY <2>1
  <2> HIDE DEF Row, m
  <2> QED
    BY <1>8, <2>2
<1>13. hi[0] = a /\ hi[m] = b
  <2>1. m \in 1 .. m /\ m \in 0 .. m /\ 0 \in 0 .. m /\ m # 0
    BY <1>8
  <2>2. first + m - 1 = last
    BY <1>10, <2>1
  <2> HIDE DEF m
  <2> QED
    BY <2>1, <2>2
<1>14. RowsPlaced(lists, t, s, D, lo, hi)
  <2> HIDE DEF lists, lo, hi, m
  <2> QED BY <1>2, <1>11, <1>12, <1>13 DEF RowsPlaced
<1> HIDE DEF lists, lo, hi, m
<1>15. Placed(FlattenSeq(lists), t, s, D, hi[0], hi[Len(lists)])
  BY <1>14, PlacedFlatten
<1> QED
  BY <1>1, <1>7, <1>12, <1>13, <1>15

(* The spans of all tokens are in order, and in the text.                  *)
LEMMA TokensPlaced ==
    ASSUME NEW D, NEW t \in Seq(D), NEW s, StartsOf(s, t), NEW toks, toks = Tokenize(t),
           NEW lists, lists = [k \in DOMAIN toks |-> EmitSpans(t, s, toks[k])]
    PROVE  Placed(FlattenSeq(lists), t, s, D, 1, Len(t) + 1)
<1>1. PICK n, m : n = Len(t) /\ m = Len(toks)
  OBVIOUS
<1>2. Sequent(toks, 1, n)
  BY <1>1, TokensSequent
<1>3. /\ toks \in Seq(Tokens) /\ m \in Nat /\ n \in Nat /\ DOMAIN toks = 1 .. m
      /\ \A k \in 1 .. m : toks[k] \in Tokens /\ 1 <= toks[k].from /\ toks[k].from < toks[k].end /\ toks[k].end <= n + 1
      /\ \A j, k \in 1 .. m : j < k => toks[j].end <= toks[k].from
  BY <1>1, <1>2 DEF Sequent
<1>4. \A k \in 1 .. m : toks[k].from \in Nat /\ toks[k].end \in Nat
  BY <1>3 DEF Tokens
<1> DEFINE lo == [k \in 1 .. m |-> toks[k].from]
           hi == [k \in 0 .. m |-> IF k = 0 THEN 1 ELSE toks[k].end]
<1>5. ASSUME NEW k \in 1 .. m
      PROVE  /\ lo[k] \in Nat /\ hi[k] \in Nat /\ hi[k - 1] <= lo[k] /\ lo[k] <= hi[k]
             /\ Placed(lists[k], t, s, D, lo[k], hi[k])
  <2>1. lo[k] = toks[k].from /\ hi[k] = toks[k].end /\ lists[k] = EmitSpans(t, s, toks[k])
    BY <1>3
  <2>2. Placed(lists[k], t, s, D, lo[k], hi[k])
    <3>1. toks[k] \in Tokens /\ 1 <= toks[k].from /\ toks[k].from < toks[k].end /\ toks[k].end <= Len(t) + 1
      BY <1>1, <1>3
    <3> HIDE DEF lo, hi
    <3> QED BY <2>1, <3>1, EmitPlaced
  <2>3. hi[k - 1] <= lo[k]
    <3>1. CASE k = 1
      BY <1>3, <2>1, <3>1
    <3>2. CASE k # 1
      <4>1. k - 1 \in 1 .. m /\ k - 1 < k /\ k - 1 \in 0 .. m /\ k - 1 # 0
        BY <1>3, <3>2
      <4> QED
        BY <1>3, <2>1, <4>1
    <3> QED
      BY <3>1, <3>2
  <2> HIDE DEF lo, hi
  <2> QED
    BY <1>3, <1>4, <2>1, <2>2, <2>3
<1>6. lists \in Seq(Seq(Spans(D))) /\ Len(lists) = m
  <2>1. \A k \in 1 .. m : lists[k] \in Seq(Spans(D))
    <3> HIDE DEF lo, hi
    <3> QED BY <1>5 DEF Placed
  <2>2. lists \in [DOMAIN toks -> Seq(Spans(D))]
    BY <1>3, <2>1
  <2>3. lists \in Seq(Seq(Spans(D)))
    BY ONLY <1>3, <2>2, MadeOf
  <2>4. DOMAIN lists = 1 .. m
    BY <1>3
  <2>5. DOMAIN lists = 1 .. Len(lists) /\ Len(lists) \in Nat
    BY ONLY <2>3
  <2> QED
    BY ONLY <1>3, <2>3, <2>4, <2>5
<1>7. hi[0] = 1 /\ hi[0] \in Nat /\ (hi[m] = 1 \/ (m \in 1 .. m /\ hi[m] = toks[m].end))
  BY <1>3
<1>8. hi[m] <= n + 1 /\ hi[m] \in Nat
  BY <1>3, <1>4, <1>7
<1>9. RowsPlaced(lists, t, s, D, lo, hi)
  <2> HIDE DEF lo, hi
  <2> QED BY <1>5, <1>6, <1>7 DEF RowsPlaced
<1> HIDE DEF lo, hi
<1>10. Placed(FlattenSeq(lists), t, s, D, 1, hi[m])
  BY <1>6, <1>7, <1>9, PlacedFlatten
<1>11. PICK F : F = FlattenSeq(lists)
  OBVIOUS
<1>12. \A k \in 1 .. Len(F) : SpanTo(F[k], s) <= n + 1
  <2> TAKE k \in 1 .. Len(F)
  <2>1. SpanTo(F[k], s) <= hi[m] /\ SpanTo(F[k], s) \in Nat
    BY <1>10, <1>11 DEF Placed, SpanOf
  <2> QED
    BY <1>3, <1>8, <2>1
<1> QED
  BY <1>1, <1>10, <1>11, <1>12 DEF Placed

(* The spans of one line, of those that are in order.                      *)
OfLine(list, l) == \A k \in 1 .. Len(list) : list[k].line = l

(* What OnLine keeps is in order, and of its line.                         *)
LEMMA OnLinePlaced ==
    ASSUME NEW D, NEW t, NEW s, NEW lo, NEW hi, NEW list, Placed(list, t, s, D, lo, hi), NEW l
    PROVE  Placed(OnLine(list, l), t, s, D, lo, hi) /\ OfLine(OnLine(list, l), l)
<1>1. PICK n, S, at, v : /\ n = Len(list) /\ S = {k \in DOMAIN list : list[k].line = l}
                         /\ at = Ascending(S, n) /\ v = Kept(list, S)
  OBVIOUS
<1>2. /\ list \in Seq(Spans(D)) /\ n \in Nat
      /\ \A k \in 1 .. n : SpanOf(list[k], t, s, D) /\ lo <= SpanFrom(list[k], s) /\ SpanTo(list[k], s) <= hi
      /\ \A j, k \in 1 .. n : j < k => SpanTo(list[j], s) <= SpanFrom(list[k], s)
  BY <1>1 DEF Placed
<1>3. InOrder(at, S, 1, n)
  BY <1>1, <1>2, AscendingIs
<1>4. KeptAs(v, list, at, Spans(D))
  BY <1>1, <1>2, <1>3, KeptAt
<1>5. /\ v \in Seq(Spans(D)) /\ Len(v) = Len(at)
      /\ \A k \in 1 .. Len(at) : at[k] \in 1 .. n /\ v[k] = list[at[k]]
  BY <1>1, <1>4 DEF KeptAs
<1>6. (\A k \in 1 .. Len(at) : at[k] \in S) /\ \A j, k \in 1 .. Len(at) : j < k => at[j] < at[k]
  BY ONLY <1>3 DEF InOrder
<1>7. \A k \in 1 .. Len(v) : v[k].line = l
  BY <1>1, <1>5, <1>6
<1>8. \A j, k \in 1 .. Len(v) : j < k => SpanTo(v[j], s) <= SpanFrom(v[k], s)
  BY <1>2, <1>5, <1>6
<1>9. Placed(v, t, s, D, lo, hi)
  BY <1>2, <1>5, <1>8 DEF Placed
<1>10. OnLine(list, l) = v
  BY <1>1 DEF OnLine
<1> QED
  BY <1>7, <1>9, <1>10 DEF OfLine

(* The spans of a list draw line l from a to before b, with no gap: the    *)
(* k-th is up to c[k].                                                     *)
TilesBy(c, list, t, s, D, l, a, b) ==
    /\ list \in Seq(Spans(D)) /\ Len(list) \in Nat
    /\ c[0] = a /\ c[Len(list)] = b
    /\ \A k \in 0 .. Len(list) : c[k] \in 1 .. Len(t) + 1
    /\ \A k \in 1 .. Len(list) :
         /\ c[k - 1] <= c[k]
         /\ list[k].line = l /\ list[k].col = c[k - 1] - s[l] /\ list[k].body = Upto(t, c[k - 1], c[k])

Tiles(list, t, s, D, l, a, b) == \E c : TilesBy(c, list, t, s, D, l, a, b)

(* Spans up to a place, and spans from there.                              *)
LEMMA TilesConcat ==
    ASSUME NEW D, NEW t \in Seq(D), NEW s, NEW l, NEW x, NEW y, NEW a, NEW b, NEW d,
           Tiles(x, t, s, D, l, a, b), Tiles(y, t, s, D, l, b, d)
    PROVE  Tiles(x \o y, t, s, D, l, a, d)
<1>1. PICK e : TilesBy(e, x, t, s, D, l, a, b)
  BY DEF Tiles
<1>2. PICK f : TilesBy(f, y, t, s, D, l, b, d)
  BY DEF Tiles
<1>3. PICK p, q, z, n : p = Len(x) /\ q = Len(y) /\ z = x \o y /\ n = Len(t) + 1
  OBVIOUS
<1>4. /\ x \in Seq(Spans(D)) /\ p \in Nat /\ e[0] = a /\ e[p] = b
      /\ \A k \in 0 .. p : e[k] \in 1 .. n
      /\ \A k \in 1 .. p : /\ e[k - 1] <= e[k]
                           /\ x[k].line = l /\ x[k].col = e[k - 1] - s[l] /\ x[k].body = Upto(t, e[k - 1], e[k])
  BY ONLY <1>1, <1>3 DEF TilesBy
<1>5. /\ y \in Seq(Spans(D)) /\ q \in Nat /\ f[0] = b /\ f[q] = d
      /\ \A k \in 0 .. q : f[k] \in 1 .. n
      /\ \A k \in 1 .. q : /\ f[k - 1] <= f[k]
                           /\ y[k].line = l /\ y[k].col = f[k - 1] - s[l] /\ y[k].body = Upto(t, f[k - 1], f[k])
  BY ONLY <1>2, <1>3 DEF TilesBy
<1>6. /\ z \in Seq(Spans(D)) /\ Len(z) = p + q
      /\ \A k \in 1 .. p : z[k] = x[k]
      /\ \A k \in 1 .. q : z[p + k] = y[k]
  <2>1. Concat(z, x, y, Spans(D))
    BY <1>3, <1>4, <1>5, ConcatIs
  <2> QED
    BY <1>3, <2>1 DEF Concat
<1>7. PICK c : c = [k \in 0 .. p + q |-> IF k <= p THEN e[k] ELSE f[k - p]]
  OBVIOUS
<1>8. (\A k \in 0 .. p : c[k] = e[k]) /\ \A k \in 0 .. q : c[p + k] = f[k]
  <2>1. \A k \in 0 .. p : c[k] = e[k]
    BY <1>4, <1>5, <1>7
  <2>2. ASSUME NEW k \in 0 .. q PROVE c[p + k] = f[k]
    <3>1. CASE k = 0
      <4>1. p \in 0 .. p /\ p + k = p
        BY <1>4, <3>1
      <4> QED
        BY <1>4, <1>5, <2>1, <3>1, <4>1
    <3>2. CASE k # 0
      <4>1. PICK m : m = p + k
        OBVIOUS
      <4>2. m \in 0 .. p + q /\ ~ (m <= p) /\ m - p = k
        BY <1>4, <1>5, <3>2, <4>1
      <4>3. c[m] = f[m - p]
        BY <1>7, <4>2
      <4> QED
        BY <4>1, <4>2, <4>3
    <3> QED
      BY <3>1, <3>2
  <2> QED
    BY <2>1, <2>2
<1>9. \A k \in 0 .. p + q : k \in 0 .. p \/ (k - p \in 0 .. q /\ k = p + (k - p))
  BY <1>4, <1>5
<1>10. \A k \in 1 .. p + q : k \in 1 .. p \/ (k - p \in 1 .. q /\ k = p + (k - p))
  BY <1>4, <1>5
<1>11. ASSUME NEW k \in 0 .. p + q PROVE c[k] \in 1 .. n
  <2>1. CASE k \in 0 .. p
    BY <1>4, <1>8, <2>1
  <2>2. CASE k - p \in 0 .. q /\ k = p + (k - p)
    <3>1. PICK j : j = k - p
      OBVIOUS
    <3>2. j \in 0 .. q /\ c[k] = f[j]
      BY <1>8, <2>2, <3>1
    <3> QED
      BY <1>5, <3>2
  <2> QED
    BY <1>9, <2>1, <2>2
<1>12. ASSUME NEW k \in 1 .. p + q
       PROVE  /\ c[k - 1] <= c[k]
              /\ z[k].line = l /\ z[k].col = c[k - 1] - s[l] /\ z[k].body = Upto(t, c[k - 1], c[k])
  <2>1. CASE k \in 1 .. p
    <3>1. k - 1 \in 0 .. p /\ k \in 0 .. p
      BY <1>4, <2>1
    <3>2. c[k - 1] = e[k - 1] /\ c[k] = e[k] /\ z[k] = x[k]
      BY <1>6, <1>8, <2>1, <3>1
    <3> QED
      BY <1>4, <2>1, <3>2
  <2>2. CASE k - p \in 1 .. q /\ k = p + (k - p)
    <3>1. PICK j : j = k - p
      OBVIOUS
    <3>2. j \in 1 .. q /\ j \in 0 .. q /\ j - 1 \in 0 .. q /\ k = p + j /\ k - 1 = p + (j - 1)
      <4>1. p \in Nat /\ q \in Nat
        BY <1>4, <1>5
      <4> QED
        BY ONLY <2>2, <3>1, <4>1
    <3>3. c[k - 1] = f[j - 1] /\ c[k] = f[j] /\ z[k] = y[j]
      BY <1>6, <1>8, <3>2
    <3> QED
      BY <1>5, <3>2, <3>3
  <2> QED
    BY <1>10, <2>1, <2>2
<1>13. c[0] = a /\ c[p + q] = d
  <2>1. 0 \in 0 .. p /\ q \in 0 .. q
    BY <1>4, <1>5
  <2> QED
    BY <1>4, <1>5, <1>8, <2>1
<1>14. TilesBy(c, z, t, s, D, l, a, d)
  BY <1>3, <1>4, <1>5, <1>6, <1>11, <1>12, <1>13 DEF TilesBy
<1> QED
  BY <1>3, <1>14 DEF Tiles

(* No span draws an empty piece.                                           *)
LEMMA TilesNone ==
    ASSUME NEW D, NEW t, NEW s, NEW l, NEW a \in 1 .. Len(t) + 1
    PROVE  Tiles(<<>>, t, s, D, l, a, a)
<1>1. PICK c : c = [k \in {0} |-> a]
  OBVIOUS
<1>2. c[0] = a /\ \A k \in 0 .. 0 : k = 0
  BY <1>1
<1>3. <<>> \in Seq(Spans(D)) /\ Len(<<>>) = 0 /\ 1 .. 0 = {}
  OBVIOUS
<1>4. TilesBy(c, <<>>, t, s, D, l, a, a)
  BY <1>2, <1>3 DEF TilesBy
<1> QED
  BY <1>4 DEF Tiles

(* One span draws the piece it has.                                        *)
LEMMA TilesOne ==
    ASSUME NEW D, NEW t, NEW s, NEW l, NEW x \in Spans(D), NEW a \in 1 .. Len(t) + 1, NEW b \in 1 .. Len(t) + 1,
           a <= b, x.line = l, x.col = a - s[l], x.body = Upto(t, a, b)
    PROVE  Tiles(<<x>>, t, s, D, l, a, b)
<1>1. PICK c : c = [k \in 0 .. 1 |-> IF k = 0 THEN a ELSE b]
  OBVIOUS
<1>2. c[0] = a /\ c[1] = b /\ (\A k \in 0 .. 1 : k = 0 \/ k = 1) /\ \A k \in 1 .. 1 : k = 1 /\ k - 1 = 0
  BY <1>1
<1>3. <<x>> \in Seq(Spans(D)) /\ Len(<<x>>) = 1 /\ <<x>>[1] = x
  OBVIOUS
<1>4. PICK list : list = <<x>>
  OBVIOUS
<1>5. TilesBy(c, list, t, s, D, l, a, b)
  BY <1>2, <1>3, <1>4 DEF TilesBy
<1> QED
  BY <1>4, <1>5 DEF Tiles

(* The span of a piece draws it, or there is nothing to draw.              *)
LEMMA TilesSpan ==
    ASSUME NEW D, NEW t \in Seq(D), NEW s, StartsOf(s, t), NEW l \in 1 .. Len(s), NEW kind \in Colours \cup {"identifier"},
           NEW p \in Nat, NEW q \in Nat, s[l] <= p, p <= q, q <= Limit(t, s, l)
    PROVE  Tiles(Span(l, p - s[l], Upto(t, p, q), kind), t, s, D, l, p, q)
<1>1. PICK n, x, v : /\ n = Len(t) + 1 /\ x = [line |-> l, col |-> p - s[l], body |-> Upto(t, p, q), kind |-> kind]
                     /\ v = Span(l, p - s[l], Upto(t, p, q), kind)
  OBVIOUS
<1>2. (p = q => v = <<>>) /\ (p < q => v = <<x>> /\ x \in Spans(D))
  BY <1>1, PlacedSpan
<1>3. p \in 1 .. n /\ q \in 1 .. n
  <2>1. n \in Nat /\ s[l] \in Nat /\ 1 <= s[l] /\ Limit(t, s, l) <= n /\ Limit(t, s, l) \in Nat
    <3>1. l < Len(s) => l + 1 \in 1 .. Len(s)
      BY DEF StartsOf
    <3> QED
      BY <1>1, <3>1 DEF StartsOf, Limit
  <2> QED
    BY <2>1
<1>4. CASE p = q
  <2>1. Tiles(<<>>, t, s, D, l, p, p)
    BY <1>1, <1>3, TilesNone
  <2> QED
    BY <1>1, <1>2, <1>4, <2>1
<1>5. CASE p < q
  <2>1. x.line = l /\ x.col = p - s[l] /\ x.body = Upto(t, p, q) /\ x \in Spans(D) /\ v = <<x>>
    BY <1>1, <1>2, <1>5
  <2>2. Tiles(<<x>>, t, s, D, l, p, q)
    BY <1>1, <1>3, <2>1, TilesOne
  <2> QED
    BY <1>1, <2>1, <2>2
<1> QED
  BY <1>4, <1>5

(* The k-th list of seqs draws from c[k - 1] to before c[k].               *)
RowsTile(seqs, t, s, D, l, c) ==
    /\ seqs \in Seq(Seq(Spans(D))) /\ c[0] \in 1 .. Len(t) + 1
    /\ \A k \in 1 .. Len(seqs) : Tiles(seqs[k], t, s, D, l, c[k - 1], c[k])

(* Lists that meet draw their line together.                               *)
LEMMA TilesFlatten ==
    ASSUME NEW D, NEW t \in Seq(D), NEW s, NEW l, NEW seqs, NEW c, RowsTile(seqs, t, s, D, l, c)
    PROVE  Tiles(FlattenSeq(seqs), t, s, D, l, c[0], c[Len(seqs)])
<1>1. PICK n : n = Len(seqs)
  OBVIOUS
<1>2. /\ seqs \in Seq(Seq(Spans(D))) /\ n \in Nat /\ c[0] \in 1 .. Len(t) + 1
      /\ \A k \in 1 .. n : Tiles(seqs[k], t, s, D, l, c[k - 1], c[k])
  BY <1>1 DEF RowsTile
<1>3. PICK g : Flattens(g, seqs, Spans(D))
  BY <1>2, FlattenSteps
<1>4. g[0] = <<>> /\ (\A i \in 1 .. n : g[i] = g[i - 1] \o seqs[i]) /\ FlattenSeq(seqs) = g[n]
  BY <1>1, <1>3 DEF Flattens
<1> DEFINE P == {k \in 0 .. n : Tiles(g[k], t, s, D, l, c[0], c[k])}
<1>5. 0 \in P
  BY <1>2, <1>4, TilesNone
<1>6. ASSUME NEW k \in 0 .. n - 1, k \in P PROVE k + 1 \in P
  <2>1. PICK m : m = k + 1
    OBVIOUS
  <2>2. m \in 1 .. n /\ m - 1 = k /\ m \in 0 .. n
    BY <1>2, <2>1
  <2>3. Tiles(seqs[m], t, s, D, l, c[k], c[m]) /\ Tiles(g[k], t, s, D, l, c[0], c[k])
    BY <1>2, <1>6, <2>2
  <2>4. Tiles(g[k] \o seqs[m], t, s, D, l, c[0], c[m])
    BY ONLY <2>3, TilesConcat, t \in Seq(D)
  <2> QED
    BY <1>4, <2>1, <2>2, <2>4
<1>7. \A k \in 0 .. n : k \in P
  <2> HIDE DEF P
  <2> QED BY <1>2, <1>5, <1>6, Upward
<1>8. n \in 0 .. n
  BY <1>2
<1> QED
  BY <1>1, <1>4, <1>7, <1>8

(* Two pieces that meet are one.                                           *)
LEMMA PiecesMeet ==
    ASSUME NEW D, NEW t \in Seq(D), NEW i \in 1 .. Len(t) + 1, NEW j \in i .. Len(t) + 1, NEW k \in j .. Len(t) + 1
    PROVE  Upto(t, i, j) \o Upto(t, j, k) = Upto(t, i, k)
<1>1. PICK a, b, n : a = j - 1 /\ b = k - 1 /\ n = Len(t)
  OBVIOUS
<1>2. n \in Nat /\ i \in 1 .. n + 1 /\ a \in i - 1 .. n /\ b \in a .. n /\ a + 1 = j
  BY <1>1
<1>3. SubSeq(t, i, a) \o SubSeq(t, a + 1, b) = SubSeq(t, i, b)
  BY ONLY <1>1, <1>2, t \in Seq(D), ConcatAdjacentSubSeq
<1> QED
  BY <1>1, <1>2, <1>3 DEF Upto

(* A piece with no extent is empty.                                        *)
LEMMA PieceNone ==
    ASSUME NEW D, NEW t \in Seq(D), NEW i \in 1 .. Len(t) + 1
    PROVE  Upto(t, i, i) = <<>>
<1>1. PieceOf(Upto(t, i, i), t, i, i, D)
  <2>1. i \in i .. Len(t) + 1
    OBVIOUS
  <2> QED
    BY ONLY <2>1, t \in Seq(D), i \in 1 .. Len(t) + 1, PieceIs
<1>2. Upto(t, i, i) \in Seq(D) /\ Len(Upto(t, i, i)) = i - i
  BY ONLY <1>1 DEF PieceOf
<1>3. Len(Upto(t, i, i)) = 0
  BY <1>2
<1> QED
  BY ONLY <1>2, <1>3, EmptySeq

(* A part of a piece is a piece.                                           *)
LEMMA PieceInside ==
    ASSUME NEW D, NEW t \in Seq(D), NEW i \in 1 .. Len(t) + 1, NEW j \in i .. Len(t) + 1,
           NEW p \in i .. j, NEW q \in p .. j
    PROVE  SubSeq(Upto(t, i, j), p - i + 1, q - i) = Upto(t, p, q)
<1>1. PICK u, v, w, a, b, n : /\ u = Upto(t, i, j) /\ v = Upto(t, p, q) /\ a = p - i + 1 /\ b = q - i
                              /\ w = SubSeq(u, a, b) /\ n = Len(t)
  OBVIOUS
<1>2. n \in Nat /\ p \in 1 .. n + 1 /\ q \in p .. n + 1 /\ a \in Int /\ b \in Int
  BY <1>1
<1>3. /\ u \in Seq(D) /\ Len(u) = j - i
      /\ \A z \in 1 .. j - i : u[z] = t[i + z - 1]
  <2>1. PieceOf(u, t, i, j, D)
    BY ONLY <1>1, t \in Seq(D), i \in 1 .. Len(t) + 1, j \in i .. Len(t) + 1, PieceIs
  <2> QED
    BY ONLY <2>1 DEF PieceOf
<1>4. /\ v \in Seq(D) /\ Len(v) = q - p
      /\ \A z \in 1 .. q - p : v[z] = t[p + z - 1]
  <2>1. PieceOf(v, t, p, q, D)
    BY ONLY <1>1, <1>2, t \in Seq(D), PieceIs
  <2> QED
    BY ONLY <2>1 DEF PieceOf
<1>5. \A x \in a .. b : x \in 1 .. j - i /\ u[x] \in D
  <2>1. \A x \in a .. b : x \in 1 .. j - i
    BY <1>1
  <2> QED
    BY <1>3, <2>1
<1>6. /\ w \in Seq(D) /\ Len(w) = IF a <= b THEN b - a + 1 ELSE 0
      /\ \A x \in 1 .. b - a + 1 : w[x] = u[a + x - 1]
  BY ONLY <1>1, <1>2, <1>5, SubSeqProperties
<1>7. b - a + 1 = q - p /\ q - p >= 0 /\ (a <= b <=> q - p >= 1)
  BY <1>1, <1>2
<1>8. Len(w) = q - p
  BY <1>2, <1>6, <1>7
<1>9. \A x \in 1 .. q - p : w[x] = v[x]
  <2> TAKE x \in 1 .. q - p
  <2>1. PICK y : y = a + x - 1
    OBVIOUS
  <2>2. y \in a .. b /\ i + y - 1 = p + x - 1
    BY <1>1, <1>2, <2>1
  <2>3. w[x] = u[y]
    BY <1>6, <1>7, <2>1
  <2> QED
    BY <1>3, <1>4, <1>5, <2>2, <2>3
<1>10. w = v
  BY ONLY <1>4, <1>6, <1>8, <1>9, SeqEqual
<1> QED
  BY <1>1, <1>10

(* What the first m spans of a line draw.                                  *)
LEMMA TilesDrawnTo ==
    ASSUME NEW D, NEW t \in Seq(D), NEW s, NEW l, NEW a, NEW b, NEW c, NEW list,
           TilesBy(c, list, t, s, D, l, a, b), NEW m \in 0 .. Len(list)
    PROVE  FlattenSeq([j \in 1 .. m |-> list[j].body]) = Upto(t, a, c[m]) /\ a <= c[m] /\ a \in 1 .. Len(t) + 1
<1>1. PICK n, seqs : n = Len(t) + 1 /\ seqs = [j \in 1 .. m |-> list[j].body]
  OBVIOUS
<1>2. /\ list \in Seq(Spans(D)) /\ Len(list) \in Nat /\ c[0] = a
      /\ \A k \in 0 .. Len(list) : c[k] \in 1 .. n
      /\ \A k \in 1 .. Len(list) : c[k - 1] <= c[k] /\ list[k].body = Upto(t, c[k - 1], c[k])
  BY ONLY <1>1, TilesBy(c, list, t, s, D, l, a, b) DEF TilesBy
<1>3. m \in Nat /\ n \in Nat /\ (\A k \in 1 .. m : k \in 1 .. Len(list)) /\ \A k \in 0 .. m : k \in 0 .. Len(list)
  BY <1>1, <1>2
<1>4. a \in 1 .. n
  <2>1. 0 \in 0 .. Len(list)
    BY <1>2
  <2> QED
    BY <1>2, <2>1
<1>5. seqs \in Seq(Seq(D)) /\ Len(seqs) = m /\ \A k \in 1 .. m : seqs[k] = list[k].body
  <2>1. \A k \in 1 .. m : list[k] \in Spans(D)
    BY <1>2, <1>3
  <2>2. \A k \in 1 .. m : list[k].body \in Seq(D)
    BY <2>1 DEF Spans
  <2> QED
    BY <1>1, <1>3, <2>2
<1>6. PICK g : Flattens(g, seqs, D)
  BY <1>5, FlattenSteps
<1>7. g[0] = <<>> /\ (\A i \in 1 .. m : g[i] = g[i - 1] \o seqs[i]) /\ FlattenSeq(seqs) = g[m]
  BY <1>5, <1>6 DEF Flattens
<1> DEFINE P == {k \in 0 .. m : g[k] = Upto(t, a, c[k]) /\ a <= c[k]}
<1>8. 0 \in P
  <2>1. Upto(t, a, a) = <<>>
    BY <1>1, <1>4, PieceNone
  <2> QED
    BY <1>1, <1>2, <1>3, <1>4, <1>7, <2>1
<1>9. ASSUME NEW k \in 0 .. m - 1, k \in P PROVE k + 1 \in P
  <2>1. PICK h : h = k + 1
    OBVIOUS
  <2>2. h \in 1 .. m /\ h - 1 = k /\ h \in 0 .. m /\ k \in 0 .. m
    BY <1>3, <2>1
  <2>3. g[k] = Upto(t, a, c[k]) /\ a <= c[k]
    BY <1>9
  <2>4. g[h] = g[k] \o Upto(t, c[k], c[h]) /\ c[k] <= c[h] /\ c[k] \in 1 .. n /\ c[h] \in 1 .. n
    BY <1>2, <1>3, <1>5, <1>7, <2>2
  <2>5. a \in 1 .. Len(t) + 1 /\ c[k] \in a .. Len(t) + 1 /\ c[h] \in c[k] .. Len(t) + 1
    BY <1>1, <1>4, <2>3, <2>4
  <2>6. Upto(t, a, c[k]) \o Upto(t, c[k], c[h]) = Upto(t, a, c[h])
    BY ONLY <2>5, t \in Seq(D), PiecesMeet
  <2>7. a <= c[h]
    BY <2>3, <2>4, <2>5
  <2> QED
    BY <2>1, <2>2, <2>3, <2>4, <2>6, <2>7
<1>10. \A k \in 0 .. m : k \in P
  <2> HIDE DEF P
  <2> QED BY <1>3, <1>8, <1>9, Upward
<1>11. m \in 0 .. m
  BY <1>3
<1> QED
  BY <1>1, <1>4, <1>7, <1>10, <1>11

(* What the spans of a line draw, and that each is drawn at its column.    *)
DrawnTo(list, piece) ==
    /\ FlattenSeq([k \in DOMAIN list |-> list[k].body]) = piece
    /\ \A k \in DOMAIN list : list[k].col = Len(FlattenSeq([j \in 1 .. k - 1 |-> list[j].body]))

(* Spans that tile a line draw the piece they tile.                        *)
LEMMA TilesDrawn ==
    ASSUME NEW D, NEW t \in Seq(D), NEW s, NEW l, NEW b, NEW list, Tiles(list, t, s, D, l, s[l], b)
    PROVE  DrawnTo(list, Upto(t, s[l], b))
<1>1. PICK c : TilesBy(c, list, t, s, D, l, s[l], b)
  BY DEF Tiles
<1>2. PICK a, n : a = s[l] /\ n = Len(list)
  OBVIOUS
<1>3. /\ list \in Seq(Spans(D)) /\ n \in Nat /\ c[n] = b
      /\ \A k \in 0 .. n : c[k] \in 1 .. Len(t) + 1
      /\ \A k \in 1 .. n : list[k].col = c[k - 1] - a
  BY ONLY <1>1, <1>2 DEF TilesBy
<1>4. ASSUME NEW m \in 0 .. n
      PROVE  FlattenSeq([j \in 1 .. m |-> list[j].body]) = Upto(t, a, c[m]) /\ a <= c[m] /\ a \in 1 .. Len(t) + 1
  BY <1>1, <1>2, TilesDrawnTo
<1>5. DOMAIN list = 1 .. n /\ n \in 0 .. n
  BY <1>2, <1>3
<1>6. FlattenSeq([k \in DOMAIN list |-> list[k].body]) = Upto(t, a, b)
  BY <1>3, <1>4, <1>5
<1>7. ASSUME NEW k \in 1 .. n PROVE list[k].col = Len(FlattenSeq([j \in 1 .. k - 1 |-> list[j].body]))
  <2>1. PICK m : m = k - 1
    OBVIOUS
  <2>2. m \in 0 .. n
    BY <1>3, <2>1
  <2>3. FlattenSeq([j \in 1 .. m |-> list[j].body]) = Upto(t, a, c[m]) /\ a <= c[m] /\ a \in 1 .. Len(t) + 1
    BY <1>4, <2>2
  <2>4. c[m] \in a .. Len(t) + 1
    BY <1>3, <2>2, <2>3
  <2>5. PieceOf(Upto(t, a, c[m]), t, a, c[m], D)
    BY ONLY <2>3, <2>4, t \in Seq(D), PieceIs
  <2>6. Len(Upto(t, a, c[m])) = c[m] - a
    BY ONLY <2>5 DEF PieceOf
  <2> QED
    BY <1>3, <2>1, <2>3, <2>6
<1> QED
  BY <1>2, <1>5, <1>6, <1>7 DEF DrawnTo

(* Where the text of a line is over, and where its k-th span is.           *)
EndOf(t, s, l) == IF l < Len(s) THEN s[l + 1] - 1 ELSE Len(t) + 1

SpanEnd(of, s, l, k) == IF k = 0 THEN s[l] ELSE SpanTo(of[k], s)

(* of are spans of line l, in order.                                       *)
Lined(of, t, s, D, l) ==
    /\ of \in Seq(Spans(D)) /\ Len(of) \in Nat
    /\ s[l] \in 1 .. Len(t) + 1 /\ EndOf(t, s, l) \in s[l] .. Len(t) + 1
    /\ Limit(t, s, l) \in {EndOf(t, s, l), EndOf(t, s, l) + 1} /\ Limit(t, s, l) <= Len(t) + 1
    /\ \A k \in 0 .. Len(of) :
         SpanEnd(of, s, l, k) \in s[l] .. Limit(t, s, l) /\ (k # 0 => of[k].col + Len(of[k].body) = SpanEnd(of, s, l, k) - s[l])
    /\ \A k \in 1 .. Len(of) :
         /\ SpanFrom(of[k], s) \in SpanEnd(of, s, l, k - 1) .. EndOf(t, s, l)
         /\ SpanFrom(of[k], s) < SpanEnd(of, s, l, k)
         /\ of[k].line = l /\ of[k].col = SpanFrom(of[k], s) - s[l]
         /\ of[k].body = Upto(t, SpanFrom(of[k], s), SpanEnd(of, s, l, k))

(* The spans of a line follow each other from its start to its limit.      *)
LEMMA PlacedLined ==
    ASSUME NEW D, NEW t \in Seq(D), NEW s, StartsOf(s, t), NEW l \in 1 .. Len(s),
           NEW of, Placed(of, t, s, D, 1, Len(t) + 1), OfLine(of, l)
    PROVE  Lined(of, t, s, D, l)
<1>1. PICK m, n, a, e, L : /\ m = Len(of) /\ n = Len(t) + 1 /\ a = s[l]
                           /\ e = EndOf(t, s, l) /\ L = Limit(t, s, l)
  OBVIOUS
<1>2. /\ of \in Seq(Spans(D)) /\ m \in Nat
      /\ \A k \in 1 .. m : SpanOf(of[k], t, s, D) /\ of[k].line = l
      /\ \A j, k \in 1 .. m : j < k => SpanTo(of[j], s) <= SpanFrom(of[k], s)
  BY ONLY <1>1, Placed(of, t, s, D, 1, Len(t) + 1), OfLine(of, l) DEF Placed, OfLine
<1>3. /\ a \in 1 .. n /\ n \in Nat /\ e \in a .. n /\ L \in {e, e + 1} /\ L <= n /\ L \in Nat /\ a \in Nat /\ e \in Nat
  <2>1. n \in Nat /\ a \in Nat /\ 1 <= a /\ a <= n /\ l \in Nat /\ Len(s) \in Nat
    BY <1>1 DEF StartsOf
  <2>2. l < Len(s) => /\ l + 1 \in 1 .. Len(s) /\ s[l + 1] \in Nat /\ s[l + 1] <= n /\ a < s[l + 1]
    <3>1. l < Len(s) => l + 1 \in 1 .. Len(s) /\ l < l + 1
      BY <2>1
    <3> QED
      BY <1>1, <3>1 DEF StartsOf
  <2> QED
    BY <1>1, <2>1, <2>2 DEF EndOf, Limit
<1>4. ASSUME NEW k \in 1 .. m
      PROVE  /\ of[k].line = l /\ of[k].col \in Nat /\ Len(of[k].body) \in Nat
             /\ SpanFrom(of[k], s) = a + of[k].col /\ SpanTo(of[k], s) = a + of[k].col + Len(of[k].body)
             /\ a <= SpanFrom(of[k], s) /\ SpanFrom(of[k], s) < SpanTo(of[k], s) /\ SpanTo(of[k], s) <= L
             /\ of[k].body = Upto(t, SpanFrom(of[k], s), SpanTo(of[k], s))
  <2>1. PICK x : x = of[k]
    OBVIOUS
  <2>2. x.line = l /\ SpanOf(x, t, s, D)
    BY <1>2, <2>1
  <2>3. x \in Spans(D) /\ s[l] <= SpanFrom(x, s) /\ SpanFrom(x, s) < SpanTo(x, s) /\ SpanTo(x, s) <= L
        /\ x.body = Upto(t, SpanFrom(x, s), SpanTo(x, s))
    BY <1>1, <2>2 DEF SpanOf
  <2>4. x.col \in Nat /\ x.body \in Seq(D)
    BY <2>3 DEF Spans
  <2>5. Len(x.body) \in Nat
    BY ONLY <2>4
  <2>6. SpanFrom(x, s) = a + x.col /\ SpanTo(x, s) = a + x.col + Len(x.body)
    BY <1>1, <2>2 DEF SpanFrom, SpanTo
  <2> QED
    BY <1>1, <2>1, <2>2, <2>3, <2>4, <2>5, <2>6
<1>5. SpanEnd(of, s, l, 0) = a /\ \A k \in 1 .. m : SpanEnd(of, s, l, k) = SpanTo(of[k], s)
  BY <1>1, <1>2 DEF SpanEnd
<1>6. \A k \in 0 .. m : k = 0 \/ k \in 1 .. m
  BY <1>2
<1>7. ASSUME NEW k \in 0 .. m
      PROVE  SpanEnd(of, s, l, k) \in a .. L /\ (k # 0 => of[k].col + Len(of[k].body) = SpanEnd(of, s, l, k) - a)
  <2>1. CASE k = 0
    BY <1>3, <1>5, <2>1
  <2>2. CASE k \in 1 .. m
    <3>1. PICK p, q, c, b : /\ p = SpanFrom(of[k], s) /\ q = SpanTo(of[k], s)
                            /\ c = of[k].col /\ b = Len(of[k].body)
      OBVIOUS
    <3>2. c \in Nat /\ b \in Nat /\ q = a + c + b /\ a <= p /\ p < q /\ q <= L /\ p = a + c
      BY <1>4, <2>2, <3>1
    <3>3. q \in a .. L /\ c + b = q - a
      BY ONLY <1>3, <3>2
    <3> QED
      BY <1>5, <2>2, <3>1, <3>3
  <2> QED
    BY <1>6, <2>1, <2>2
<1>8. ASSUME NEW k \in 1 .. m
      PROVE  /\ SpanFrom(of[k], s) \in SpanEnd(of, s, l, k - 1) .. e
             /\ SpanFrom(of[k], s) < SpanEnd(of, s, l, k)
             /\ of[k].col = SpanFrom(of[k], s) - a
             /\ of[k].body = Upto(t, SpanFrom(of[k], s), SpanEnd(of, s, l, k))
  <2>1. PICK p, q, c, h, r : /\ p = SpanFrom(of[k], s) /\ q = SpanTo(of[k], s) /\ c = of[k].col
                             /\ h = k - 1 /\ r = SpanEnd(of, s, l, h)
    OBVIOUS
  <2>2. c \in Nat /\ a <= p /\ p < q /\ q <= L /\ p = a + c /\ q \in Int
    <3>1. PICK b : b = Len(of[k].body)
      OBVIOUS
    <3>2. c \in Nat /\ b \in Nat /\ p = a + c /\ q = a + c + b /\ a <= p /\ p < q /\ q <= L
      BY <1>4, <2>1, <3>1
    <3> QED
      BY ONLY <1>3, <3>2
  <2>3. p \in Nat /\ p <= e /\ c = p - a
    BY ONLY <1>3, <2>2
  <2>4. h \in 0 .. m /\ (h # 0 => h \in 1 .. m /\ h < k)
    BY <1>2, <2>1
  <2>5. r \in a .. L
    BY <1>7, <2>1, <2>4
  <2>6. r <= p
    <3>1. CASE h = 0
      BY <1>5, <2>1, <2>2, <3>1
    <3>2. CASE h # 0
      BY <1>2, <1>5, <2>1, <2>4, <3>2
    <3> QED
      BY <3>1, <3>2
  <2>7. p \in r .. e
    BY ONLY <1>3, <2>3, <2>5, <2>6
  <2>8. SpanEnd(of, s, l, k) = q
    BY <1>5, <2>1
  <2> QED
    BY <1>4, <2>1, <2>2, <2>3, <2>7, <2>8
<1> QED
  BY <1>1, <1>2, <1>3, <1>4, <1>7, <1>8 DEF Lined

(* What is drawn plainly after the k-th span.                              *)
LEMMA GapTiles ==
    ASSUME NEW D, NEW t \in Seq(D), NEW s, StartsOf(s, t), NEW l \in 1 .. Len(s), NEW of, Lined(of, t, s, D, l),
           NEW k \in 0 .. Len(of), NEW p \in SpanEnd(of, s, l, k) .. EndOf(t, s, l)
    PROVE  Tiles(Gap(l, LineText(t, s, l), of, k, p - s[l]), t, s, D, l, SpanEnd(of, s, l, k), p)
<1>1. PICK a, c, e, n, x : /\ a = s[l] /\ c = SpanEnd(of, s, l, k) /\ e = EndOf(t, s, l) /\ n = Len(t) + 1
                           /\ x = LineText(t, s, l)
  OBVIOUS
<1>2. /\ a \in 1 .. n /\ e \in a .. n /\ c \in a .. Limit(t, s, l) /\ Limit(t, s, l) \in {e, e + 1}
      /\ k # 0 => of[k].col + Len(of[k].body) = c - a
  BY <1>1 DEF Lined
<1>3. k = 0 => c = a
  BY <1>1 DEF SpanEnd
<1>4. n \in Nat /\ c \in a .. e /\ p \in c .. e /\ p \in Nat /\ c \in Nat /\ a <= c /\ c <= p /\ p <= Limit(t, s, l)
  BY <1>1, <1>2
<1>5. x = Upto(t, a, e)
  BY <1>1 DEF LineText, EndOf
<1>6. SubSeq(x, c - a + 1, p - a) = Upto(t, c, p)
  <2>1. a \in 1 .. Len(t) + 1 /\ e \in a .. Len(t) + 1
    BY <1>1, <1>2
  <2> QED
    BY ONLY <1>4, <1>5, <2>1, t \in Seq(D), PieceInside
<1>7. (IF k = 0 THEN 0 ELSE of[k].col + Len(of[k].body)) = c - a
  BY <1>2, <1>3, <1>4
<1>8. Gap(l, x, of, k, p - a) = Span(l, c - a, Upto(t, c, p), "identifier")
  BY <1>6, <1>7 DEF Gap
<1>9. Tiles(Span(l, c - a, Upto(t, c, p), "identifier"), t, s, D, l, c, p)
  <2>1. s[l] <= c /\ "identifier" \in Colours \cup {"identifier"}
    BY <1>1, <1>4
  <2>2. Tiles(Span(l, c - s[l], Upto(t, c, p), "identifier"), t, s, D, l, c, p)
    BY ONLY <1>4, <2>1, t \in Seq(D), StartsOf(s, t), l \in 1 .. Len(s), TilesSpan
  <2> QED
    BY <1>1, <2>2
<1> QED
  BY <1>1, <1>8, <1>9

(* A line is drawn to its end, or with the line end that its last span     *)
(* took along.                                                             *)
LEMMA LineTiled ==
    ASSUME NEW D, NEW t \in Seq(D), NEW s, StartsOf(s, t), NEW l \in 1 .. Len(s), NEW of, Lined(of, t, s, D, l)
    PROVE  \E b \in {EndOf(t, s, l), Limit(t, s, l)} : Tiles(FillLine(l, LineText(t, s, l), of), t, s, D, l, s[l], b)
<1>1. PICK a, e, L, n, m, x : /\ a = s[l] /\ e = EndOf(t, s, l) /\ L = Limit(t, s, l) /\ n = Len(t) + 1
                              /\ m = Len(of) /\ x = LineText(t, s, l)
  OBVIOUS
<1>2. /\ of \in Seq(Spans(D)) /\ m \in Nat
      /\ a \in 1 .. n /\ e \in a .. n /\ L \in {e, e + 1} /\ L <= n /\ n \in Nat
      /\ \A k \in 0 .. m : SpanEnd(of, s, l, k) \in a .. L
      /\ \A k \in 1 .. m :
           /\ SpanFrom(of[k], s) \in SpanEnd(of, s, l, k - 1) .. e
           /\ SpanFrom(of[k], s) < SpanEnd(of, s, l, k)
           /\ of[k].line = l /\ of[k].col = SpanFrom(of[k], s) - a
           /\ of[k].body = Upto(t, SpanFrom(of[k], s), SpanEnd(of, s, l, k))
  BY <1>1 DEF Lined
<1>3. PICK c, lists : /\ c = [k \in 0 .. m |-> SpanEnd(of, s, l, k)]
                     /\ lists = [k \in DOMAIN of |-> Gap(l, x, of, k - 1, of[k].col) \o <<of[k]>>]
  OBVIOUS
<1>4. DOMAIN of = 1 .. m
  BY <1>1, <1>2
<1>5. c[0] = a
  <2>1. 0 \in 0 .. m
    BY <1>2
  <2> QED
    BY <1>1, <1>3, <2>1 DEF SpanEnd
<1>6. ASSUME NEW k \in 1 .. m PROVE Tiles(lists[k], t, s, D, l, c[k - 1], c[k])
  <2>1. PICK h, p, q, r : h = k - 1 /\ p = SpanFrom(of[k], s) /\ q = SpanEnd(of, s, l, k) /\ r = SpanEnd(of, s, l, h)
    OBVIOUS
  <2>2. h \in 0 .. m /\ k \in 0 .. m /\ c[h] = r /\ c[k] = q
    BY <1>2, <1>3, <2>1
  <2>3. /\ p \in r .. e /\ p < q /\ of[k].line = l /\ of[k].col = p - a /\ of[k].body = Upto(t, p, q)
        /\ r \in a .. L /\ q \in a .. L
    BY <1>2, <2>1, <2>2
  <2>4. Tiles(Gap(l, x, of, h, p - a), t, s, D, l, r, p)
    <3>1. h \in 0 .. Len(of) /\ p \in SpanEnd(of, s, l, h) .. EndOf(t, s, l)
      BY <1>1, <2>1, <2>2, <2>3
    <3>2. Tiles(Gap(l, LineText(t, s, l), of, h, p - s[l]), t, s, D, l, SpanEnd(of, s, l, h), p)
      BY ONLY <3>1, t \in Seq(D), StartsOf(s, t), l \in 1 .. Len(s), Lined(of, t, s, D, l), GapTiles
    <3> QED
      BY <1>1, <2>1, <3>2
  <2>5. Tiles(<<of[k]>>, t, s, D, l, p, q)
    <3>1. PICK y : y = of[k]
      OBVIOUS
    <3>2. /\ y \in Spans(D) /\ y.line = l /\ y.col = p - s[l] /\ y.body = Upto(t, p, q)
          /\ p \in 1 .. Len(t) + 1 /\ q \in 1 .. Len(t) + 1 /\ p <= q
      <4>1. y \in Spans(D)
        BY <1>1, <1>2, <3>1
      <4>2. y.line = l /\ y.col = p - s[l] /\ y.body = Upto(t, p, q)
        BY <1>1, <2>3, <3>1
      <4>3. p \in 1 .. n /\ q \in 1 .. n /\ p <= q
        <5>1. /\ a \in 1 .. n /\ e \in a .. n /\ L \in {e, e + 1} /\ L <= n /\ n \in Nat
              /\ p \in r .. e /\ p < q /\ r \in a .. L /\ q \in a .. L
          BY <1>2, <2>3
        <5> QED
          BY ONLY <5>1
      <4> QED
        BY <1>1, <4>1, <4>2, <4>3
    <3> QED
      BY ONLY <3>1, <3>2, t \in Seq(D), TilesOne
  <2>6. lists[k] = Gap(l, x, of, h, p - a) \o <<of[k]>>
    BY <1>3, <1>4, <2>1, <2>3
  <2>7. PICK u, v : u = Gap(l, x, of, h, p - a) /\ v = <<of[k]>>
    OBVIOUS
  <2>8. Tiles(u \o v, t, s, D, l, r, q)
    BY ONLY <2>4, <2>5, <2>7, t \in Seq(D), TilesConcat
  <2> QED
    BY <2>1, <2>2, <2>6, <2>7, <2>8
<1>7. lists \in Seq(Seq(Spans(D))) /\ Len(lists) = m
  <2>1. \A k \in 1 .. m : lists[k] \in Seq(Spans(D))
    BY <1>6 DEF Tiles, TilesBy
  <2>2. lists \in [1 .. m -> Seq(Spans(D))]
    BY <1>3, <1>4, <2>1
  <2> QED
    BY ONLY <1>2, <2>2
<1>8. RowsTile(lists, t, s, D, l, c)
  BY <1>1, <1>2, <1>5, <1>6, <1>7 DEF RowsTile
<1>9. Tiles(FlattenSeq(lists), t, s, D, l, a, c[m])
  <2>1. Tiles(FlattenSeq(lists), t, s, D, l, c[0], c[Len(lists)])
    BY ONLY <1>8, t \in Seq(D), TilesFlatten
  <2> QED
    BY <1>5, <1>7, <2>1
<1>10. FillLine(l, x, of) = FlattenSeq(lists) \o Gap(l, x, of, m, Len(x))
  BY <1>1, <1>3 DEF FillLine
<1>11. x = Upto(t, a, e) /\ Len(x) = e - a
  <2>1. x = Upto(t, a, e)
    BY <1>1 DEF LineText, EndOf
  <2>2. PieceOf(Upto(t, a, e), t, a, e, D)
    <3>1. a \in 1 .. Len(t) + 1 /\ e \in a .. Len(t) + 1
      BY <1>1, <1>2
    <3> QED
      BY ONLY <3>1, t \in Seq(D), PieceIs
  <2> QED
    BY <2>1, <2>2 DEF PieceOf
<1>12. m \in 0 .. m /\ c[m] = SpanEnd(of, s, l, m) /\ c[m] \in a .. L
  <2>1. m \in 0 .. m
    BY <1>2
  <2> QED
    BY <1>2, <1>3, <2>1
<1>13. CASE c[m] <= e
  <2>1. m \in 0 .. Len(of) /\ e \in SpanEnd(of, s, l, m) .. EndOf(t, s, l)
    BY <1>1, <1>2, <1>12, <1>13
  <2>2. Tiles(Gap(l, LineText(t, s, l), of, m, e - s[l]), t, s, D, l, SpanEnd(of, s, l, m), e)
    BY ONLY <2>1, t \in Seq(D), StartsOf(s, t), l \in 1 .. Len(s), Lined(of, t, s, D, l), GapTiles
  <2>3. Tiles(Gap(l, x, of, m, Len(x)), t, s, D, l, c[m], e)
    BY <1>1, <1>11, <1>12, <2>2
  <2>4. PICK u, v, d : u = FlattenSeq(lists) /\ v = Gap(l, x, of, m, Len(x)) /\ d = c[m]
    OBVIOUS
  <2>5. Tiles(u \o v, t, s, D, l, a, e)
    BY ONLY <1>9, <2>3, <2>4, t \in Seq(D), TilesConcat
  <2> QED
    BY <1>1, <1>10, <2>4, <2>5
<1>14. CASE ~ (c[m] <= e)
  <2>1. c[m] = e + 1 /\ c[m] = L
    <3>1. PICK d : d = c[m]
      OBVIOUS
    <3>2. /\ d \in a .. L /\ ~ (d <= e) /\ e \in a .. n /\ a \in 1 .. n /\ n \in Nat
          /\ (L = e \/ L = e + 1)
      BY <1>2, <1>12, <1>14, <3>1
    <3>3. d = e + 1 /\ d = L
      BY ONLY <3>2
    <3> QED
      BY <3>1, <3>3
  <2>2. Gap(l, x, of, m, Len(x)) = <<>>
    <3>1. (IF m = 0 THEN 0 ELSE of[m].col + Len(of[m].body)) = c[m] - a
      <4>1. m \in 0 .. Len(of)
        BY <1>1, <1>12
      <4>2. m # 0 => of[m].col + Len(of[m].body) = SpanEnd(of, s, l, m) - s[l]
        BY <4>1 DEF Lined
      <4>3. c[m] = c[m] /\ (m = 0 => c[m] - a = 0)
        BY <1>2, <1>5
      <4> QED
        BY <1>1, <1>12, <4>2, <4>3
    <3>2. SubSeq(x, e + 1 - a + 1, e - a) = <<>>
      <4>1. e + 1 - a + 1 \in Int /\ e - a \in Int /\ ~ (e + 1 - a + 1 <= e - a)
        BY <1>2
      <4>2. PICK i, j, w : i = e + 1 - a + 1 /\ j = e - a /\ w = SubSeq(x, i, j)
        OBVIOUS
      <4>3. ~ (i <= j) /\ i \in Int /\ j \in Int /\ \A z \in i .. j : x[z] \in D
        BY <4>1, <4>2
      <4>4. w \in Seq(D) /\ Len(w) = IF i <= j THEN j - i + 1 ELSE 0
        BY ONLY <4>2, <4>3, SubSeqProperties
      <4>5. w = <<>>
        BY ONLY <4>3, <4>4, EmptySeq
      <4> QED
        BY <4>2, <4>5
    <3>3. PICK C : C = IF m = 0 THEN 0 ELSE of[m].col + Len(of[m].body)
      OBVIOUS
    <3>4. Gap(l, x, of, m, Len(x)) = Span(l, C, SubSeq(x, C + 1, Len(x)), "identifier")
      BY <3>3, Zenon DEF Gap
    <3>5. C + 1 = e + 1 - a + 1
      <4>1. PICK d : d = c[m]
        OBVIOUS
      <4>2. C = d - a /\ d = e + 1
        BY <2>1, <3>1, <3>3, <4>1
      <4>3. a \in 1 .. n /\ e \in a .. n /\ n \in Nat
        BY <1>2
      <4> QED
        BY ONLY <4>2, <4>3
    <3>6. SubSeq(x, C + 1, Len(x)) = <<>>
      BY <1>11, <3>2, <3>5
    <3> QED
      BY <3>4, <3>6 DEF Span
  <2>3. FlattenSeq(lists) \o <<>> = FlattenSeq(lists)
    <3>1. FlattenSeq(lists) \in Seq(Spans(D))
      BY <1>9 DEF Tiles, TilesBy
    <3> QED
      BY ONLY <3>1, ConcatEmptySeq
  <2> QED
    BY <1>1, <1>9, <1>10, <2>1, <2>2, <2>3
<1> QED
  BY <1>13, <1>14

(* Lists of which the k-th has only spans of line k.                       *)
PerLine(lists, T) ==
    /\ lists \in Seq(Seq(T))
    /\ \A k \in 1 .. Len(lists) : OfLine(lists[k], k)

(* The spans of a line are those that were put together for it.            *)
LEMMA OwnLine ==
    ASSUME NEW T, NEW lists, PerLine(lists, T), NEW l \in 1 .. Len(lists)
    PROVE  OnLine(FlattenSeq(lists), l) = lists[l]
<1>1. PICK n : n = Len(lists)
  OBVIOUS
<1>2. /\ lists \in Seq(Seq(T)) /\ n \in Nat /\ \A k \in 1 .. n : lists[k] \in Seq(T) /\ OfLine(lists[k], k)
  BY <1>1 DEF PerLine
<1>3. PICK g : Flattens(g, lists, T)
  BY <1>2, FlattenSteps
<1>4. /\ g[0] = <<>> /\ (\A i \in 1 .. n : g[i] = g[i - 1] \o lists[i]) /\ FlattenSeq(lists) = g[n]
      /\ \A k \in 0 .. n : g[k] \in Seq(T)
  BY <1>1, <1>3 DEF Flattens
<1>5. \A a, b : a \in Seq(T) /\ b \in Seq(T) => OnLine(a \o b, l) = OnLine(a, l) \o OnLine(b, l)
  <2> SUFFICES ASSUME NEW a \in Seq(T), NEW b \in Seq(T) PROVE OnLine(a \o b, l) = OnLine(a, l) \o OnLine(b, l)
    OBVIOUS
  <2>1. PICK d, S, A, B, p, q : /\ d = a \o b /\ p = Len(a) /\ q = Len(b)
                                /\ S = {k \in DOMAIN d : d[k].line = l}
                                /\ A = {k \in DOMAIN a : a[k].line = l}
                                /\ B = {k \in DOMAIN b : b[k].line = l}
    OBVIOUS
  <2>2. Concat(d, a, b, T)
    BY <2>1, ConcatIs
  <2>3. /\ d \in Seq(T) /\ Len(d) = p + q /\ p \in Nat /\ q \in Nat
        /\ \A i \in 1 .. p : d[i] = a[i]
        /\ \A i \in 1 .. q : d[p + i] = b[i]
    BY <2>1, <2>2 DEF Concat
  <2>4. DOMAIN d = 1 .. p + q /\ DOMAIN a = 1 .. p /\ DOMAIN b = 1 .. q
    BY <2>1, <2>3
  <2>5. \A i \in 1 .. p : i \in S <=> i \in A
    <3>1. \A i \in 1 .. p : i \in 1 .. p + q
      BY <2>3
    <3> QED
      BY <2>1, <2>3, <2>4, <3>1
  <2>6. \A k \in 1 .. q : p + k \in S <=> k \in B
    <3>1. \A k \in 1 .. q : p + k \in 1 .. p + q
      BY <2>3
    <3> QED
      BY <2>1, <2>3, <2>4, <3>1
  <2>7. Splits(S, A, Len(a), B, Len(b))
    BY <2>1, <2>5, <2>6 DEF Splits
  <2>8. Kept(a \o b, S) = Kept(a, A) \o Kept(b, B)
    BY ONLY <2>7, a \in Seq(T), b \in Seq(T), KeptConcat
  <2> QED
    BY <2>1, <2>8 DEF OnLine
<1>6. ASSUME NEW k \in 1 .. n PROVE OnLine(lists[k], l) = IF k = l THEN lists[l] ELSE <<>>
  <2>1. PICK r : r = lists[k]
    OBVIOUS
  <2>2. r \in Seq(T) /\ \A i \in 1 .. Len(r) : r[i].line = k
    BY <1>2, <2>1 DEF OfLine
  <2>3. DOMAIN r = 1 .. Len(r)
    BY <2>2
  <2>4. PICK S : S = {i \in DOMAIN r : r[i].line = l}
    OBVIOUS
  <2>5. CASE k = l
    <3>1. \A i \in 1 .. Len(r) : i \in S
      BY <2>2, <2>3, <2>4, <2>5
    <3>2. Kept(r, S) = r
      BY ONLY <2>2, <3>1, KeptAll
    <3> QED
      BY <2>1, <2>4, <2>5, <3>2 DEF OnLine
  <2>6. CASE k # l
    <3>1. \A i \in 1 .. Len(r) : i \notin S
      BY <2>2, <2>3, <2>4, <2>6
    <3>2. Kept(r, S) = <<>>
      BY ONLY <2>2, <3>1, KeptNone
    <3> QED
      BY <2>1, <2>4, <2>6, <3>2 DEF OnLine
  <2> QED
    BY <2>5, <2>6
<1> DEFINE P == {k \in 0 .. n : OnLine(g[k], l) = IF k < l THEN <<>> ELSE lists[l]}
<1>7. 0 \in P
  <2>1. PICK S : S = {i \in DOMAIN <<>> : <<>>[i].line = l}
    OBVIOUS
  <2>2. <<>> \in Seq(T) /\ \A i \in 1 .. Len(<<>>) : i \notin S
    OBVIOUS
  <2>3. Kept(<<>>, S) = <<>>
    BY ONLY <2>2, KeptNone
  <2>4. OnLine(<<>>, l) = <<>>
    BY <2>1, <2>3 DEF OnLine
  <2>5. 0 < l /\ 0 \in 0 .. n
    BY <1>1, <1>2
  <2> QED
    BY <1>4, <2>4, <2>5
<1>8. ASSUME NEW k \in 0 .. n - 1, k \in P PROVE k + 1 \in P
  <2>1. PICK h : h = k + 1
    OBVIOUS
  <2>2. h \in 1 .. n /\ h - 1 = k /\ h \in 0 .. n /\ k \in 0 .. n
    BY <1>2, <2>1
  <2>3. OnLine(g[k], l) = IF k < l THEN <<>> ELSE lists[l]
    BY <1>8
  <2>4. g[h] = g[k] \o lists[h] /\ g[k] \in Seq(T) /\ lists[h] \in Seq(T)
    BY <1>2, <1>4, <2>2
  <2>5. OnLine(g[h], l) = OnLine(g[k], l) \o OnLine(lists[h], l)
    BY <1>5, <2>4
  <2>6. OnLine(lists[h], l) = IF h = l THEN lists[l] ELSE <<>>
    BY <1>6, <2>2
  <2>7. PICK w : w = lists[l]
    OBVIOUS
  <2>8. <<>> \o w = w /\ w \o <<>> = w /\ <<>> \o <<>> = <<>>
    <3>1. w \in Seq(T) /\ <<>> \in Seq(T)
      BY <1>1, <1>2, <2>7
    <3> QED
      BY ONLY <3>1, ConcatEmptySeq
  <2>9. \/ k < l /\ h < l /\ h # l
        \/ k < l /\ ~ (h < l) /\ h = l
        \/ ~ (k < l) /\ ~ (h < l) /\ h # l
    BY <1>1, <1>2, <2>1, <2>2
  <2>10. OnLine(g[h], l) = IF h < l THEN <<>> ELSE lists[l]
    BY <2>3, <2>5, <2>6, <2>7, <2>8, <2>9
  <2> QED
    BY <2>1, <2>2, <2>10
<1>9. \A k \in 0 .. n : k \in P
  <2> HIDE DEF P
  <2> QED BY <1>2, <1>7, <1>8, Upward
<1>10. n \in 0 .. n /\ ~ (n < l)
  BY <1>1, <1>2
<1> QED
  BY <1>4, <1>9, <1>10

(* Every line is drawn, each of its characters once and at its column.     *)
LEMMA HighlightDrawn ==
    ASSUME NEW D, NEW t \in Seq(D), NEW l \in 1 .. Len(LineStarts(t))
    PROVE  \E b \in {EndOf(t, LineStarts(t), l), Limit(t, LineStarts(t), l)} :
               DrawnTo(OnLine(Highlight(t), l), Upto(t, LineStarts(t)[l], b))
<1>1. PICK s, toks, n : s = LineStarts(t) /\ toks = Tokenize(t) /\ n = Len(s)
  OBVIOUS
<1>2. StartsOf(s, t)
  BY <1>1, StartsAre
<1>3. n \in Nat /\ DOMAIN s = 1 .. n /\ s \in Seq(Nat) /\ l \in 1 .. n
  BY <1>1, <1>2 DEF StartsOf
<1>4. PICK emitted, all : /\ emitted = [k \in DOMAIN toks |-> EmitSpans(t, s, toks[k])]
                          /\ all = FlattenSeq(emitted)
  OBVIOUS
<1>5. Placed(all, t, s, D, 1, Len(t) + 1)
  BY <1>1, <1>2, <1>4, TokensPlaced
<1>6. PICK lists : lists = [k \in DOMAIN s |-> FillLine(k, LineText(t, s, k), OnLine(all, k))]
  OBVIOUS
<1>7. Highlight(t) = FlattenSeq(lists)
  BY <1>1, <1>4, <1>6, Zenon DEF Highlight, FillGaps
<1>8. ASSUME NEW k \in 1 .. n
      PROVE  \E b \in {EndOf(t, s, k), Limit(t, s, k)} : Tiles(lists[k], t, s, D, k, s[k], b)
  <2>1. PICK of : of = OnLine(all, k)
    OBVIOUS
  <2>2. Placed(of, t, s, D, 1, Len(t) + 1) /\ OfLine(of, k)
    BY ONLY <1>5, <2>1, OnLinePlaced
  <2>3. k \in 1 .. Len(s)
    BY <1>1
  <2>4. Lined(of, t, s, D, k)
    BY ONLY <1>2, <2>2, <2>3, t \in Seq(D), PlacedLined
  <2>5. lists[k] = FillLine(k, LineText(t, s, k), of)
    BY <1>3, <1>6, <2>1
  <2>6. \E b \in {EndOf(t, s, k), Limit(t, s, k)} : Tiles(FillLine(k, LineText(t, s, k), of), t, s, D, k, s[k], b)
    BY ONLY <1>2, <2>3, <2>4, t \in Seq(D), LineTiled
  <2> QED
    BY <2>5, <2>6
<1>9. ASSUME NEW k \in 1 .. n PROVE lists[k] \in Seq(Spans(D)) /\ OfLine(lists[k], k)
  <2>1. PICK b : Tiles(lists[k], t, s, D, k, s[k], b)
    BY <1>8
  <2> QED
    BY <2>1 DEF Tiles, TilesBy, OfLine
<1>10. lists \in Seq(Seq(Spans(D))) /\ Len(lists) = n
  <2>1. lists \in [1 .. n -> Seq(Spans(D))]
    BY <1>3, <1>6, <1>9
  <2> QED
    BY ONLY <1>3, <2>1
<1>11. OnLine(FlattenSeq(lists), l) = lists[l]
  <2>1. PerLine(lists, Spans(D)) /\ l \in 1 .. Len(lists)
    BY <1>3, <1>9, <1>10 DEF PerLine
  <2> QED
    BY ONLY <2>1, OwnLine
<1>12. PICK b \in {EndOf(t, s, l), Limit(t, s, l)} : Tiles(lists[l], t, s, D, l, s[l], b)
  BY <1>3, <1>8
<1>13. DrawnTo(lists[l], Upto(t, s[l], b))
  BY ONLY <1>12, t \in Seq(D), TilesDrawn
<1> QED
  BY <1>1, <1>7, <1>11, <1>12, <1>13

(* What is drawn for a line is its text, or its text and the line end.     *)
LEMMA DrawnText ==
    ASSUME NEW D, NEW t \in Seq(D), NEW s, StartsOf(s, t), NEW l \in 1 .. Len(s),
           NEW b \in {EndOf(t, s, l), Limit(t, s, l)}
    PROVE  Upto(t, s[l], b) \in {LineText(t, s, l), LineText(t, s, l) \o <<"\n">>}
<1>1. PICK a, e, n : a = s[l] /\ e = EndOf(t, s, l) /\ n = Len(t) + 1
  OBVIOUS
<1>2. LineText(t, s, l) = Upto(t, a, e)
  BY <1>1 DEF LineText, EndOf
<1>3. CASE b = e
  BY <1>1, <1>2, <1>3
<1>4. CASE b # e
  <2>1. l < Len(s) /\ b = s[l + 1] /\ e = s[l + 1] - 1
    BY <1>1, <1>4 DEF EndOf, Limit
  <2>2. /\ b \in Nat /\ a \in Nat /\ n \in Nat /\ 1 <= a /\ a < b /\ b <= n /\ t[b - 1] = "\n"
    <3>1. Len(s) \in Nat /\ l \in Nat
      BY DEF StartsOf
    <3>2. l + 1 \in 1 .. Len(s) /\ l < l + 1 /\ l + 1 \in 2 .. Len(s)
      BY <2>1, <3>1
    <3> QED
      BY <1>1, <2>1, <3>2 DEF StartsOf
  <2>3. e = b - 1
    BY <2>1
  <2>4. a \in 1 .. Len(t) + 1 /\ e \in a .. Len(t) + 1 /\ b \in e .. Len(t) + 1 /\ e \in 1 .. Len(t) + 1 /\ b - e = 1
    BY <1>1, <2>2, <2>3
  <2>5. Upto(t, a, e) \o Upto(t, e, b) = Upto(t, a, b)
    BY ONLY <2>4, t \in Seq(D), PiecesMeet
  <2>6. PICK u, v, c : u = Upto(t, e, b) /\ c = t[e] /\ v = <<c>>
    OBVIOUS
  <2>7. PieceOf(u, t, e, b, D)
    BY ONLY <2>4, <2>6, t \in Seq(D), PieceIs
  <2>8. u \in Seq(D) /\ Len(u) = 1 /\ u[1] = c
    <3>1. u \in Seq(D) /\ Len(u) = b - e /\ \A z \in 1 .. b - e : u[z] = t[e + z - 1]
      BY ONLY <2>7 DEF PieceOf
    <3>2. 1 \in 1 .. b - e /\ e + 1 - 1 = e
      BY ONLY <2>4
    <3> QED
      BY <2>4, <2>6, <3>1, <3>2
  <2>9. u = v
    <3>1. c \in D
      BY ONLY <2>8
    <3>2. v \in Seq(D) /\ Len(v) = 1 /\ v[1] = c
      BY ONLY <2>6, <3>1
    <3>3. \A z \in 1 .. Len(u) : u[z] = v[z]
      BY ONLY <2>8, <3>2
    <3> QED
      BY ONLY <2>8, <3>2, <3>3, SeqEqual
  <2>10. c = "\n"
    BY <2>2, <2>3, <2>6
  <2> QED
    BY <1>1, <1>2, <2>5, <2>6, <2>9, <2>10
<1> QED
  BY <1>3, <1>4

(* Whatever is typed, the highlighter draws every character of every line  *)
(* in one span, at its column.                                             *)
THEOREM TextCovered == TypingSpec => []HighlightCovers
<1>1. TypedOK => HighlightCovers
  <2> SUFFICES ASSUME TypedOK PROVE HighlightCovers
    OBVIOUS
  <2>1. text \in Seq(STRING)
    BY DEF TypedOK
  <2>2. PICK s : s = LineStarts(text)
    OBVIOUS
  <2>3. StartsOf(s, text)
    BY <2>1, <2>2, StartsAre
  <2>4. DOMAIN s = 1 .. Len(s)
    BY <2>3 DEF StartsOf
  <2>5. ASSUME NEW l \in 1 .. Len(s)
        PROVE  \E b : /\ Upto(text, s[l], b) \in {LineText(text, s, l), LineText(text, s, l) \o <<"\n">>}
                      /\ DrawnTo(OnLine(Highlight(text), l), Upto(text, s[l], b))
    <3>1. PICK b \in {EndOf(text, s, l), Limit(text, s, l)} : DrawnTo(OnLine(Highlight(text), l), Upto(text, s[l], b))
      BY ONLY <2>1, <2>2, l \in 1 .. Len(s), HighlightDrawn
    <3>2. Upto(text, s[l], b) \in {LineText(text, s, l), LineText(text, s, l) \o <<"\n">>}
      BY ONLY <2>1, <2>3, <3>1, l \in 1 .. Len(s), DrawnText
    <3> QED
      BY <3>1, <3>2
  <2>6. ASSUME NEW l \in 1 .. Len(s)
        PROVE  LET of    == OnLine(Highlight(text), l)
                   drawn == FlattenSeq([k \in DOMAIN of |-> of[k].body])
               IN /\ drawn \in {LineText(text, s, l), LineText(text, s, l) \o <<"\n">>}
                  /\ \A k \in DOMAIN of : of[k].col = Len(FlattenSeq([j \in 1 .. k - 1 |-> of[j].body]))
    <3>1. PICK of, piece : /\ of = OnLine(Highlight(text), l) /\ DrawnTo(of, piece)
                           /\ piece \in {LineText(text, s, l), LineText(text, s, l) \o <<"\n">>}
      BY <2>5
    <3> QED
      BY ONLY <3>1, Zenon DEF DrawnTo
  <2> QED
    BY <2>2, <2>4, <2>6, Zenon DEF HighlightCovers
<1> QED
  BY <1>1, TypingTypeCorrect, PTL

(***************************************************************************)
(* A window of a text is read alike wherever it stands                     *)
(***************************************************************************)

(* What stands next to a text that stands apart: a separator, or nothing.  *)
Edges == Separators \cup {""}

(* The first m characters of s are those of t after the first d.  Both     *)
(* texts end there, or what follows is an edge in both; and no cast begins *)
(* in front of the window.                                                 *)
Alike(s, t, d, m) ==
    /\ d \in Nat /\ m \in 0 .. Len(s) /\ m + d <= Len(t)
    /\ \A k \in 1 .. m : s[k] = t[k + d]
    /\ At(s, 1) = ":" => At(t, d) # ":"
    /\ \/ m = Len(s) /\ m + d = Len(t)
       \/ /\ m < Len(s) /\ At(s, m + 1) \in Edges /\ At(t, m + 1 + d) \in Edges
          /\ At(s, m + 1) = "\n" => At(t, m + 1 + d) = "\n"

LEMMA AtIs ==
    ASSUME NEW D, NEW t \in Seq(D)
    PROVE  /\ \A k \in 1 .. Len(t) : At(t, k) = t[k]
           /\ \A k : k \notin 1 .. Len(t) => At(t, k) \in Edges /\ At(t, k) \notin Separators
<1>1. "" \in Edges /\ "" \notin Separators
  BY Zenon DEF Edges, Separators, Whitespace
<1> QED
  BY <1>1, Zenon DEF At

(* The signs the scans look for are no edges.                              *)
LEMMA SignsInside ==
    /\ \A x \in {"-", "/", "*", "'", "\"", "backtick", "backslash", "$", ":", ".", "+", "e"} : x \notin Edges
    /\ \A x \in WordChars : x \notin Edges
<1>1. \A x \in {"-", "/", "*", "'", "\"", "backtick", "backslash", "$", ":", ".", "+", "e"} : x \notin Edges
  BY Zenon DEF Edges, Separators, Whitespace
<1>2. \A x \in Edges : x \in {"", " ", "\n", "-", "/", "*", "'", "\"", "backtick", "backslash", "$", ":", ".", "+", "semicolon", "(", ")", ",", "="}
  BY Zenon DEF Edges, Separators, Whitespace
<1>3. \A x \in WordChars : x \notin Edges
  BY <1>2, LettersApart DEF WordChars
<1> QED
  BY <1>1, <1>3

(* What the texts have in a window.                                        *)
Looks(s, t, d, m) ==
    /\ d \in Nat /\ m \in Nat /\ m <= Len(s) /\ m + d <= Len(t)
    /\ \A k \in 1 .. m : s[k] = t[k + d] /\ At(s, k) = s[k] /\ At(t, k + d) = s[k]
    /\ At(s, m + 1) \in Edges /\ At(t, m + 1 + d) \in Edges
    /\ m = Len(s) => m + d = Len(t)
    /\ m < Len(s) => s[m + 1] = At(s, m + 1) /\ s[m + 1] \in Edges
    /\ m + d < Len(t) => t[m + 1 + d] = At(t, m + 1 + d) /\ t[m + 1 + d] \in Edges
    /\ At(s, m + 1) = "\n" => m + d < Len(t) /\ t[m + 1 + d] = "\n"

LEMMA AlikeLooks ==
    ASSUME NEW D, NEW s \in Seq(D), NEW t \in Seq(D), NEW d, NEW m, Alike(s, t, d, m)
    PROVE  Looks(s, t, d, m)
<1>1. PICK n, l : n = Len(s) /\ l = Len(t) /\ n \in Nat /\ l \in Nat
  <2>1. Len(s) \in Nat /\ Len(t) \in Nat
    OBVIOUS
  <2> QED
    BY ONLY <2>1
<1>2. /\ d \in Nat /\ m \in 0 .. n /\ m + d <= l /\ \A k \in 1 .. m : s[k] = t[k + d]
  BY <1>1 DEF Alike
<1>n. d \in Nat /\ m \in 0 .. n /\ m + d <= l
  BY <1>2
<1>3. /\ \A k \in 1 .. n : At(s, k) = s[k]
      /\ \A k \in 1 .. l : At(t, k) = t[k]
      /\ \A k : k \notin 1 .. n => At(s, k) \in Edges /\ At(s, k) \notin Separators
      /\ \A k : k \notin 1 .. l => At(t, k) \in Edges /\ At(t, k) \notin Separators
  BY <1>1, AtIs
<1>4. \A k \in 1 .. m : k \in 1 .. n /\ k + d \in 1 .. l
  <2>1. d \in Nat /\ m \in 0 .. n /\ m + d <= l
    BY <1>2
  <2> QED
    BY ONLY <1>1, <2>1
<1>5. \A k \in 1 .. m : s[k] = t[k + d] /\ At(s, k) = s[k] /\ At(t, k + d) = s[k]
  BY <1>2, <1>3, <1>4
<1>6. Separators \subseteq Edges /\ "\n" \in Separators
  BY Zenon DEF Edges, Separators, Whitespace
<1>7. CASE m = n /\ m + d = l
  <2>1. m + 1 \notin 1 .. n /\ m + 1 + d \notin 1 .. l
    BY <1>1, <1>2, <1>7
  <2>2. At(s, m + 1) \in Edges /\ At(t, m + 1 + d) \in Edges /\ At(s, m + 1) # "\n"
    BY ONLY <1>3, <1>6, <2>1
  <2> QED
    BY <1>1, <1>2, <1>5, <1>7, <2>2 DEF Looks
<1>8. CASE /\ m < n /\ At(s, m + 1) \in Edges /\ At(t, m + 1 + d) \in Edges
           /\ At(s, m + 1) = "\n" => At(t, m + 1 + d) = "\n"
  <2>1. m + 1 \in 1 .. n
    <3>1. m < n
      BY ONLY <1>8
    <3> QED
      BY ONLY <1>1, <1>n, <3>1
  <2>2. m # n /\ s[m + 1] = At(s, m + 1)
    BY <1>2, <1>3, <2>1
  <2>3. m + d < l => m + 1 + d \in 1 .. l
    BY <1>1, <1>2
  <2>4. m + d < l => t[m + 1 + d] = At(t, m + 1 + d)
    BY <1>3, <2>3
  <2>5. At(s, m + 1) = "\n" => m + d < l
    <3>1. At(s, m + 1) = "\n" => m + 1 + d \in 1 .. l
      BY <1>3, <1>6, <1>8
    <3>2. m + 1 + d \in 1 .. l => m + d < l
      BY ONLY <1>1, <1>n
    <3> QED
      BY <3>1, <3>2
  <2> QED
    <3>1. s[m + 1] \in Edges /\ m \in Nat /\ m <= Len(s)
      BY ONLY <1>1, <1>8, <1>n, <2>2
    <3>2. m + d < Len(t) => t[m + 1 + d] = At(t, m + 1 + d) /\ t[m + 1 + d] \in Edges
      BY ONLY <1>1, <1>8, <2>4
    <3>3. At(s, m + 1) = "\n" => m + d < Len(t) /\ t[m + 1 + d] = "\n"
      BY ONLY <1>1, <1>8, <2>4, <2>5
    <3>4. m # Len(s) /\ d \in Nat /\ m + d <= Len(t)
      BY ONLY <1>1, <1>2, <2>2
    <3> QED
      BY ONLY <1>5, <1>8, <2>2, <3>1, <3>2, <3>3, <3>4 DEF Looks
<1> QED
  BY <1>1, <1>7, <1>8 DEF Alike

(* Up to one character after the window the texts look the same, but for   *)
(* edges.                                                                  *)
LEMMA LookSame ==
    ASSUME NEW s, NEW t, NEW d, NEW m, Looks(s, t, d, m), NEW k \in 1 .. m + 1
    PROVE  At(s, k) = At(t, k + d) \/ (At(s, k) \in Edges /\ At(t, k + d) \in Edges)
<1>1. m \in Nat /\ d \in Nat
  BY DEF Looks
<1>2. k \in 1 .. m \/ (k = m + 1 /\ k + d = m + 1 + d)
  BY ONLY <1>1, k \in 1 .. m + 1
<1> QED
  BY <1>2 DEF Looks

LEMMA RunAlike ==
    ASSUME NEW D, NEW s \in Seq(D), NEW t \in Seq(D), NEW d, NEW m, Looks(s, t, d, m),
           NEW i \in 1 .. m + 1, NEW C, \A x \in C : x \notin Edges
    PROVE  RunEnd(s, i, C) \in i .. m + 1 /\ RunEnd(t, i + d, C) = RunEnd(s, i, C) + d
<1>1. PICK n, l : n = Len(s) /\ l = Len(t) /\ n \in Nat /\ l \in Nat
  OBVIOUS
<1>2. /\ d \in Nat /\ m \in Nat /\ m <= n /\ m + d <= l
      /\ \A k \in 1 .. m : s[k] = t[k + d]
      /\ m = n => m + d = l
      /\ m < n => s[m + 1] \in Edges
      /\ m + d < l => t[m + 1 + d] \in Edges
  BY <1>1 DEF Looks
<1>n. n \in Nat /\ l \in Nat /\ d \in Nat /\ m \in Nat /\ m <= n /\ m + d <= l /\ i \in 1 .. m + 1
  BY <1>1, <1>2
<1>3. i \in Nat /\ i <= Len(s) + 1 /\ i + d \in Nat /\ i + d <= Len(t) + 1
  BY <1>1, <1>2
<1>4. PICK e, f : e = RunEnd(s, i, C) /\ f = RunEnd(t, i + d, C)
  OBVIOUS
<1>5. /\ e \in i .. n + 1 /\ (\A j \in i .. e - 1 : j \in Nat /\ j <= n /\ s[j] \in C) /\ (e <= n => s[e] \notin C)
  BY <1>1, <1>3, <1>4, RunEndIs
<1>6. /\ f \in i + d .. l + 1 /\ (\A j \in i + d .. f - 1 : j \in Nat /\ j <= l /\ t[j] \in C) /\ (f <= l => t[f] \notin C)
  BY <1>1, <1>3, <1>4, RunEndIs
<1>e. e \in i .. n + 1 /\ f \in i + d .. l + 1
  BY <1>5, <1>6
<1>7. e <= m + 1
  <2>9. ASSUME e > m + 1 PROVE FALSE
    <3>1. m + 1 \in i .. e - 1 /\ m < n
      BY ONLY <1>n, <1>e, <2>9
    <3>2. s[m + 1] \in C
      BY <1>5, <3>1
    <3> QED
      BY <1>2, <3>1, <3>2
  <2> QED
    BY ONLY <1>n, <1>e, <2>9
<1>8. f >= e + d
  <2>9. ASSUME f < e + d PROVE FALSE
    <3>1. PICK j : j = f - d
      OBVIOUS
    <3>2. j \in i .. e - 1 /\ j \in 1 .. m /\ j + d = f /\ f <= l
      BY ONLY <1>n, <1>e, <1>7, <3>1, <2>9
    <3>3. s[j] \in C /\ t[f] \notin C
      BY ONLY <1>5, <1>6, <3>2
    <3> QED
      BY ONLY <1>2, <3>2, <3>3
  <2> QED
    BY ONLY <1>n, <1>e, <2>9
<1>9. f <= e + d
  <2>9. ASSUME f > e + d PROVE FALSE
    <3>1. e + d \in i + d .. f - 1 /\ e + d <= l
      BY ONLY <1>n, <1>e, <2>9
    <3>2. t[e + d] \in C
      BY ONLY <1>6, <3>1
    <3>3. CASE e \in 1 .. m
      <4>1. e <= n
        BY ONLY <1>n, <3>3
      <4> QED
        BY ONLY <1>2, <1>5, <3>2, <3>3, <4>1
    <3>4. CASE e = m + 1
      <4>1. m + d < l /\ e + d = m + 1 + d
        BY ONLY <1>n, <3>1, <3>4
      <4> QED
        BY <1>2, <3>2, <4>1
    <3>5. e \in 1 .. m \/ e = m + 1
      BY ONLY <1>n, <1>e, <1>7
    <3> QED
      BY <3>3, <3>4, <3>5
  <2> QED
    BY ONLY <1>n, <1>e, <2>9
<1>10. e \in i .. m + 1 /\ f = e + d
  BY ONLY <1>n, <1>e, <1>7, <1>8, <1>9
<1> QED
  BY <1>4, <1>10

(* The first of S, when it comes before the end of the window, is where    *)
(* the first of R is.                                                      *)
Matched(S, R, n, l, d, m) ==
    /\ S \subseteq Nat /\ R \subseteq Nat
    /\ n \in Nat /\ l \in Nat /\ d \in Nat /\ m \in Nat
    /\ m <= n /\ m + d <= l /\ (m = n => m + d = l)
    /\ \A x \in S : x <= m + 1 => x + d \in R
    /\ \A x \in R : x <= m + d => x - d \in S

LEMMA FirstAlike ==
    ASSUME NEW S, NEW R, NEW n, NEW l, NEW d, NEW m, Matched(S, R, n, l, d, m),
           FirstOf(S, n + 1) <= m + 1
    PROVE  FirstOf(R, l + 1) = FirstOf(S, n + 1) + d
<1>1. /\ S \subseteq Nat /\ R \subseteq Nat
      /\ n \in Nat /\ l \in Nat /\ d \in Nat /\ m \in Nat
      /\ m <= n /\ m + d <= l /\ (m = n => m + d = l)
      /\ \A x \in S : x <= m + 1 => x + d \in R
      /\ \A x \in R : x <= m + d => x - d \in S
  BY DEF Matched
<1>2. n + 1 \in Nat /\ l + 1 \in Nat
  BY <1>1
<1>3. PICK e, f : e = FirstOf(S, n + 1) /\ f = FirstOf(R, l + 1)
  OBVIOUS
<1>4. e \in S \cup {n + 1} /\ e \in Nat /\ e <= n + 1 /\ \A x \in S : e <= x
  <2>1. S \subseteq Nat
    BY <1>1
  <2> QED
    BY ONLY <1>2, <1>3, <2>1, FirstOfIs
<1>5. f \in R \cup {l + 1} /\ f \in Nat /\ f <= l + 1 /\ \A x \in R : f <= x
  <2>1. R \subseteq Nat
    BY <1>1
  <2> QED
    BY ONLY <1>2, <1>3, <2>1, FirstOfIs
<1>6. e <= m + 1
  BY <1>3
<1>7. f <= e + d
  <2>1. CASE e \in S
    BY <1>1, <1>5, <1>6, <2>1
  <2>2. CASE e = n + 1
    BY ONLY <1>1, <1>4, <1>5, <1>6, <2>2
  <2> QED
    BY <1>4, <2>1, <2>2
<1>8. f >= e + d
  <2> SUFFICES ASSUME f < e + d PROVE FALSE
    BY <1>1, <1>4, <1>5
  <2>1. f <= m + d /\ f # l + 1 /\ ~ (e <= f - d)
    BY ONLY <1>1, <1>4, <1>5, <1>6, f < e + d
  <2>2. f - d \in S
    BY <1>1, <1>5, <2>1
  <2> QED
    BY <1>4, <2>1, <2>2
<1> QED
  BY ONLY <1>1, <1>3, <1>4, <1>5, <1>7, <1>8

(* The same piece, in the window.                                          *)
LEMMA CutAlike ==
    ASSUME NEW D, NEW s \in Seq(D), NEW t \in Seq(D), NEW d, NEW m, Looks(s, t, d, m),
           NEW a \in 1 .. m + 1, NEW b \in a .. m + 1
    PROVE  Upto(t, a + d, b + d) = Upto(s, a, b)
<1>1. PICK n, l : n = Len(s) /\ l = Len(t) /\ n \in Nat /\ l \in Nat
  <2>1. Len(s) \in Nat /\ Len(t) \in Nat
    OBVIOUS
  <2> QED
    BY ONLY <2>1
<1>2. /\ d \in Nat /\ m \in Nat /\ m <= n /\ m + d <= l
      /\ \A k \in 1 .. m : s[k] = t[k + d]
  BY <1>1 DEF Looks
<1>n. /\ d \in Nat /\ m \in Nat /\ m <= n /\ m + d <= l /\ a \in 1 .. m + 1 /\ b \in a .. m + 1
  BY <1>2
<1>3. PICK p, q : p = Upto(s, a, b) /\ q = Upto(t, a + d, b + d)
  OBVIOUS
<1>4. /\ a \in Nat \ {0} /\ b \in Nat /\ a <= b /\ b <= Len(s) + 1
      /\ a + d \in Nat \ {0} /\ b + d \in Nat /\ a + d <= b + d /\ b + d <= Len(t) + 1
  BY ONLY <1>1, <1>n
<1>5. PieceOf(p, s, a, b, D) /\ PieceOf(q, t, a + d, b + d, D)
  BY <1>3, <1>4, PieceIs
<1>6. /\ p \in Seq(D) /\ Len(p) = b - a /\ \A k \in 1 .. b - a : p[k] = s[a + k - 1]
      /\ q \in Seq(D) /\ Len(q) = (b + d) - (a + d) /\ \A k \in 1 .. (b + d) - (a + d) : q[k] = t[a + d + k - 1]
  BY <1>5 DEF PieceOf
<1>7. \A k \in 1 .. b - a : a + k - 1 \in 1 .. m /\ a + d + k - 1 = (a + k - 1) + d
  BY ONLY <1>n
<1>8. (b + d) - (a + d) = b - a
  BY ONLY <1>n
<1>9. \A k \in 1 .. b - a : p[k] = q[k]
  BY ONLY <1>2, <1>6, <1>7, <1>8
<1> QED
  BY ONLY <1>3, <1>6, <1>8, <1>9, SeqEqual

(* The numbers the window gives the scans to count with.                   *)
LEMMA WindowIs ==
    ASSUME NEW D, NEW s \in Seq(D), NEW t \in Seq(D), NEW d, NEW m, Looks(s, t, d, m)
    PROVE  /\ Len(s) \in Nat /\ Len(t) \in Nat /\ d \in Nat /\ m \in Nat
           /\ m <= Len(s) /\ m + d <= Len(t) /\ (m = Len(s) => m + d = Len(t))
<1>1. Len(s) \in Nat /\ Len(t) \in Nat
  OBVIOUS
<1> QED
  BY <1>1 DEF Looks

LEMMA LineAlike ==
    ASSUME NEW D, NEW s \in Seq(D), NEW t \in Seq(D), NEW d, NEW m, Looks(s, t, d, m),
           NEW i \in 1 .. m, LineEnd(s, i) <= m + 1
    PROVE  LineEnd(t, i + d) = LineEnd(s, i) + d
<1>1. PICK n, l : n = Len(s) /\ l = Len(t)
  OBVIOUS
<1>n. n \in Nat /\ l \in Nat /\ d \in Nat /\ m \in Nat /\ m <= n /\ m + d <= l /\ (m = n => m + d = l) /\ i \in 1 .. m
  BY <1>1, WindowIs
<1>2. /\ \A k \in 1 .. m : s[k] = t[k + d]
      /\ m < n => s[m + 1] = At(s, m + 1)
      /\ At(s, m + 1) = "\n" => m + d < l /\ t[m + 1 + d] = "\n"
  BY <1>1 DEF Looks
<1>3. PICK S, R : /\ S = {j \in i + 2 .. n : s[j] = "\n"}
                  /\ R = {j \in i + d + 2 .. l : t[j] = "\n"}
  OBVIOUS
<1>4. S \subseteq Nat /\ R \subseteq Nat
  BY ONLY <1>n, <1>3
<1>5. ASSUME NEW x \in S, x <= m + 1 PROVE x + d \in R
  <2>1. x \in i + 2 .. n /\ s[x] = "\n"
    BY <1>3
  <2>2. CASE x \in 1 .. m
    <3>1. x + d \in i + d + 2 .. l
      BY ONLY <1>n, <2>1, <2>2
    <3> QED
      BY <1>2, <1>3, <2>1, <2>2, <3>1
  <2>3. CASE x = m + 1
    <3>1. m < n
      BY ONLY <1>n, <2>1, <2>3
    <3>2. m + d < l /\ t[m + 1 + d] = "\n"
      BY <1>2, <2>1, <2>3, <3>1
    <3>3. x + d \in i + d + 2 .. l /\ x + d = m + 1 + d
      BY ONLY <1>n, <2>1, <2>3, <3>2
    <3> QED
      BY <1>3, <3>2, <3>3
  <2>4. x \in 1 .. m \/ x = m + 1
    BY ONLY <1>n, <1>5, <2>1
  <2> QED
    BY <2>2, <2>3, <2>4
<1>6. ASSUME NEW x \in R, x <= m + d PROVE x - d \in S
  <2>1. x \in i + d + 2 .. l /\ t[x] = "\n"
    BY <1>3
  <2>2. PICK y : y = x - d
    OBVIOUS
  <2>3. y \in i + 2 .. n /\ y \in 1 .. m /\ y + d = x
    BY ONLY <1>n, <1>6, <2>1, <2>2
  <2> QED
    BY <1>2, <1>3, <2>1, <2>2, <2>3
<1>7. LineEnd(s, i) = FirstOf(S, n + 1) /\ LineEnd(t, i + d) = FirstOf(R, l + 1)
  BY <1>1, <1>3 DEF LineEnd
<1>8. Matched(S, R, n, l, d, m)
  BY ONLY <1>n, <1>4, <1>5, <1>6 DEF Matched
<1>9. FirstOf(S, n + 1) <= m + 1
  BY <1>7
<1> QED
  BY ONLY <1>7, <1>8, <1>9, FirstAlike

LEMMA BlockAlike ==
    ASSUME NEW D, NEW s \in Seq(D), NEW t \in Seq(D), NEW d, NEW m, Looks(s, t, d, m),
           NEW i \in 1 .. m, BlockEnd(s, i) <= m + 1
    PROVE  BlockEnd(t, i + d) = BlockEnd(s, i) + d
<1>1. PICK n, l : n = Len(s) /\ l = Len(t)
  OBVIOUS
<1>n. n \in Nat /\ l \in Nat /\ d \in Nat /\ m \in Nat /\ m <= n /\ m + d <= l /\ (m = n => m + d = l) /\ i \in 1 .. m
  BY <1>1, WindowIs
<1>2. \A k \in 1 .. m : s[k] = t[k + d]
  BY <1>1 DEF Looks
<1>3. PICK S, R : /\ S = {j + 2 : j \in {k \in i + 2 .. n - 1 : s[k] = "*" /\ s[k + 1] = "/"}}
                  /\ R = {j + 2 : j \in {k \in i + d + 2 .. l - 1 : t[k] = "*" /\ t[k + 1] = "/"}}
  OBVIOUS
<1>4. S \subseteq Nat /\ R \subseteq Nat
  BY ONLY <1>n, <1>3
<1>5. ASSUME NEW x \in S, x <= m + 1 PROVE x + d \in R
  <2>1. PICK j \in i + 2 .. n - 1 : x = j + 2 /\ s[j] = "*" /\ s[j + 1] = "/"
    BY <1>3
  <2>2. PICK h : h = j + d
    OBVIOUS
  <2>3. j \in 1 .. m /\ j + 1 \in 1 .. m /\ h \in i + d + 2 .. l - 1 /\ (j + 1) + d = h + 1 /\ h + 2 = x + d
    BY ONLY <1>n, <1>5, <2>1, <2>2
  <2>4. t[h] = "*" /\ t[h + 1] = "/"
    BY ONLY <1>2, <2>1, <2>2, <2>3
  <2> QED
    BY ONLY <1>3, <2>3, <2>4
<1>6. ASSUME NEW x \in R, x <= m + d PROVE x - d \in S
  <2>1. PICK j \in i + d + 2 .. l - 1 : x = j + 2 /\ t[j] = "*" /\ t[j + 1] = "/"
    BY <1>3
  <2>2. PICK h : h = j - d
    OBVIOUS
  <2>3. h \in 1 .. m /\ h + 1 \in 1 .. m /\ h \in i + 2 .. n - 1 /\ h + d = j /\ (h + 1) + d = j + 1 /\ h + 2 = x - d
    BY ONLY <1>n, <1>6, <2>1, <2>2
  <2>4. s[h] = "*" /\ s[h + 1] = "/"
    BY ONLY <1>2, <2>1, <2>3
  <2> QED
    BY ONLY <1>3, <2>3, <2>4
<1>7. BlockEnd(s, i) = FirstOf(S, n + 1) /\ BlockEnd(t, i + d) = FirstOf(R, l + 1)
  BY <1>1, <1>3 DEF BlockEnd
<1>8. Matched(S, R, n, l, d, m)
  BY ONLY <1>n, <1>4, <1>5, <1>6 DEF Matched
<1>9. FirstOf(S, n + 1) <= m + 1
  BY <1>7
<1> QED
  BY ONLY <1>7, <1>8, <1>9, FirstAlike

LEMMA BacktickAlike ==
    ASSUME NEW D, NEW s \in Seq(D), NEW t \in Seq(D), NEW d, NEW m, Looks(s, t, d, m),
           NEW i \in 1 .. m, BacktickEnd(s, i) <= m + 1
    PROVE  BacktickEnd(t, i + d) = BacktickEnd(s, i) + d
<1>1. PICK n, l : n = Len(s) /\ l = Len(t)
  OBVIOUS
<1>n. n \in Nat /\ l \in Nat /\ d \in Nat /\ m \in Nat /\ m <= n /\ m + d <= l /\ (m = n => m + d = l) /\ i \in 1 .. m
  BY <1>1, WindowIs
<1>2. \A k \in 1 .. m : s[k] = t[k + d]
  BY <1>1 DEF Looks
<1>3. PICK S, R : /\ S = {j + 1 : j \in {k \in i + 1 .. n : s[k] = "backtick"}}
                  /\ R = {j + 1 : j \in {k \in i + d + 1 .. l : t[k] = "backtick"}}
  OBVIOUS
<1>4. S \subseteq Nat /\ R \subseteq Nat
  BY ONLY <1>n, <1>3
<1>5. ASSUME NEW x \in S, x <= m + 1 PROVE x + d \in R
  <2>1. PICK j \in i + 1 .. n : x = j + 1 /\ s[j] = "backtick"
    BY <1>3
  <2>2. PICK h : h = j + d
    OBVIOUS
  <2>3. j \in 1 .. m /\ h \in i + d + 1 .. l /\ h + 1 = x + d
    BY ONLY <1>n, <1>5, <2>1, <2>2
  <2>4. t[h] = "backtick"
    BY ONLY <1>2, <2>1, <2>2, <2>3
  <2> QED
    BY ONLY <1>3, <2>3, <2>4
<1>6. ASSUME NEW x \in R, x <= m + d PROVE x - d \in S
  <2>1. PICK j \in i + d + 1 .. l : x = j + 1 /\ t[j] = "backtick"
    BY <1>3
  <2>2. PICK h : h = j - d
    OBVIOUS
  <2>3. h \in 1 .. m /\ h \in i + 1 .. n /\ h + d = j /\ h + 1 = x - d
    BY ONLY <1>n, <1>6, <2>1, <2>2
  <2>4. s[h] = "backtick"
    BY ONLY <1>2, <2>1, <2>3
  <2> QED
    BY ONLY <1>3, <2>3, <2>4
<1>7. BacktickEnd(s, i) = FirstOf(S, n + 1) /\ BacktickEnd(t, i + d) = FirstOf(R, l + 1)
  BY <1>1, <1>3 DEF BacktickEnd
<1>8. Matched(S, R, n, l, d, m)
  BY ONLY <1>n, <1>4, <1>5, <1>6 DEF Matched
<1>9. FirstOf(S, n + 1) <= m + 1
  BY <1>7
<1> QED
  BY ONLY <1>7, <1>8, <1>9, FirstAlike

(* The walk over a quoted text goes on, wherever it stands.                *)
LEMMA QuoteAhead ==
    ASSUME NEW D, NEW t \in Seq(D), NEW i \in 1 .. Len(t), NEW q, NEW h, QuoteFrom(h, t, i, q)
    PROVE  \A j \in i + 1 .. Len(t) : h[j] > j
<1>1. PICK n : n = Len(t) /\ n \in Nat
  <2>1. Len(t) \in Nat
    OBVIOUS
  <2> QED
    BY ONLY <2>1
<1>n. n \in Nat /\ i \in 1 .. n
  BY <1>1
<1>2. \A j \in i + 1 .. n + 2 :
          h[j] = IF j > n THEN n + 1
                 ELSE IF t[j] = q THEN IF At(t, j + 1) = q THEN h[j + 2] ELSE j + 1
                 ELSE IF q = "'" /\ t[j] = "backslash" THEN h[j + 2]
                 ELSE h[j + 1]
  BY <1>1 DEF QuoteFrom
<1> DEFINE P == {k \in 1 .. n + 3 : \A j \in k .. n + 2 : j >= i + 1 => IF j > n THEN h[j] = n + 1 ELSE h[j] > j}
<1>3. (n + 2) + 1 \in P
  BY ONLY <1>n
<1>4. ASSUME NEW k \in 1 .. n + 2, k + 1 \in P PROVE k \in P
  <2>1. \A j \in k + 1 .. n + 2 : j >= i + 1 => IF j > n THEN h[j] = n + 1 ELSE h[j] > j
    BY <1>4
  <2>2. ASSUME k >= i + 1 PROVE IF k > n THEN h[k] = n + 1 ELSE h[k] > k
    <3>1. k \in i + 1 .. n + 2
      BY ONLY <1>n, <2>2, k \in 1 .. n + 2
    <3>2. h[k] = IF k > n THEN n + 1
                 ELSE IF t[k] = q THEN IF At(t, k + 1) = q THEN h[k + 2] ELSE k + 1
                 ELSE IF q = "'" /\ t[k] = "backslash" THEN h[k + 2]
                 ELSE h[k + 1]
      BY ONLY <1>2, <3>1
    <3>3. CASE k > n
      BY ONLY <3>2, <3>3
    <3>4. CASE ~ (k > n)
      <4>1. h[k] \in {h[k + 2], h[k + 1], k + 1}
        BY ONLY <3>2, <3>4
      <4>2. /\ k + 1 \in k + 1 .. n + 2 /\ k + 2 \in k + 1 .. n + 2
            /\ k + 1 >= i + 1 /\ k + 2 >= i + 1
        BY ONLY <1>n, <2>2, <3>1, <3>4
      <4>3. IF k + 1 > n THEN h[k + 1] = n + 1 ELSE h[k + 1] > k + 1
        BY ONLY <2>1, <4>2
      <4>4. IF k + 2 > n THEN h[k + 2] = n + 1 ELSE h[k + 2] > k + 2
        BY ONLY <2>1, <4>2
      <4>5. PICK a, b, c : a = h[k] /\ b = h[k + 1] /\ c = h[k + 2]
        OBVIOUS
      <4>6. b > k
        <5>1. b \in Int
          <6>1. h[k + 1] \in i + 1 .. n + 1
            BY <1>1, <3>1, <4>2, <2>2 DEF QuoteFrom
          <6> QED
            BY ONLY <4>5, <6>1, <1>n
        <5> QED
          BY ONLY <1>n, <3>1, <3>4, <4>3, <4>5, <5>1
      <4>7. c > k
        <5>1. c \in Int
          <6>1. h[k + 2] \in i + 1 .. n + 1
            <7>1. k + 2 \in i + 1 .. n + 2
              BY ONLY <1>n, <3>1, <3>4
            <7> QED
              BY <1>1, <7>1 DEF QuoteFrom
          <6> QED
            BY ONLY <4>5, <6>1, <1>n
        <5> QED
          BY ONLY <1>n, <3>1, <3>4, <4>4, <4>5, <5>1
      <4>8. a > k
        BY ONLY <3>1, <1>n, <4>1, <4>5, <4>6, <4>7
      <4> QED
        BY ONLY <3>4, <4>5, <4>8
    <3> QED
      BY ONLY <3>3, <3>4
  <2>3. \A j \in k .. n + 2 : j = k \/ j \in k + 1 .. n + 2
    BY ONLY <1>n, k \in 1 .. n + 2
  <2>4. k \in 1 .. n + 3
    BY ONLY <1>n, k \in 1 .. n + 2
  <2> QED
    BY ONLY <2>1, <2>2, <2>3, <2>4
<1>5. \A k \in 1 .. (n + 2) + 1 : k \in P
  <2>1. n + 2 \in Nat
    BY ONLY <1>n
  <2> HIDE DEF P
  <2> QED BY ONLY <2>1, <1>3, <1>4, Downward
<1>6. ASSUME NEW j \in i + 1 .. n PROVE h[j] > j
  <2>1. j \in 1 .. (n + 2) + 1 /\ j \in j .. n + 2 /\ j >= i + 1 /\ ~ (j > n)
    BY ONLY <1>n, j \in i + 1 .. n
  <2> QED
    BY ONLY <1>5, <2>1
<1> QED
  BY ONLY <1>1, <1>6

LEMMA QuoteAlike ==
    ASSUME NEW D, NEW s \in Seq(D), NEW t \in Seq(D), NEW d, NEW m, Looks(s, t, d, m),
           NEW i \in 1 .. m, NEW q, q \notin Edges, QuoteEnd(s, i, q) <= m + 1
    PROVE  QuoteEnd(t, i + d, q) = QuoteEnd(s, i, q) + d
<1>1. PICK n, l : n = Len(s) /\ l = Len(t)
  OBVIOUS
<1>n. n \in Nat /\ l \in Nat /\ d \in Nat /\ m \in Nat /\ m <= n /\ m + d <= l /\ (m = n => m + d = l) /\ i \in 1 .. m
  BY <1>1, WindowIs
<1>2. /\ \A k \in 1 .. m : s[k] = t[k + d]
      /\ m < n => s[m + 1] \in Edges
  BY <1>1 DEF Looks
<1>3. i \in 1 .. n /\ i + d \in 1 .. l
  BY ONLY <1>n
<1>4. PICK h : QuoteFrom(h, s, i, q) /\ QuoteEnd(s, i, q) = h[i + 1]
  BY <1>1, <1>3, QuoteWalk
<1>5. PICK g : QuoteFrom(g, t, i + d, q) /\ QuoteEnd(t, i + d, q) = g[i + d + 1]
  BY <1>1, <1>3, QuoteWalk
<1>6. \A j \in i + 1 .. n + 2 :
          h[j] = IF j > n THEN n + 1
                 ELSE IF s[j] = q THEN IF At(s, j + 1) = q THEN h[j + 2] ELSE j + 1
                 ELSE IF q = "'" /\ s[j] = "backslash" THEN h[j + 2]
                 ELSE h[j + 1]
  BY <1>1, <1>4 DEF QuoteFrom
<1>7. \A j \in i + d + 1 .. l + 2 :
          g[j] = IF j > l THEN l + 1
                 ELSE IF t[j] = q THEN IF At(t, j + 1) = q THEN g[j + 2] ELSE j + 1
                 ELSE IF q = "'" /\ t[j] = "backslash" THEN g[j + 2]
                 ELSE g[j + 1]
  BY <1>1, <1>5 DEF QuoteFrom
<1>8. \A j \in i + 1 .. n : h[j] > j
  BY <1>1, <1>3, <1>4, QuoteAhead
<1>9. q \notin Edges
  OBVIOUS
<1> DEFINE P == {k \in 1 .. m + 3 : \A j \in k .. m + 2 : j >= i + 1 /\ j <= n + 2 /\ h[j] <= m + 1 => g[j + d] = h[j] + d}
<1>10. (m + 2) + 1 \in P
  BY ONLY <1>n
<1>11. ASSUME NEW k \in 1 .. m + 2, k + 1 \in P PROVE k \in P
  <2>1. \A j \in k + 1 .. m + 2 : j >= i + 1 /\ j <= n + 2 /\ h[j] <= m + 1 => g[j + d] = h[j] + d
    BY <1>11
  <2>2. ASSUME k >= i + 1, k <= n + 2, h[k] <= m + 1 PROVE g[k + d] = h[k] + d
    <3>1. k \in i + 1 .. n + 2
      BY ONLY <1>n, <2>2, k \in 1 .. m + 2
    <3>2. h[k] = IF k > n THEN n + 1
                 ELSE IF s[k] = q THEN IF At(s, k + 1) = q THEN h[k + 2] ELSE k + 1
                 ELSE IF q = "'" /\ s[k] = "backslash" THEN h[k + 2]
                 ELSE h[k + 1]
      BY ONLY <1>6, <3>1
    <3>3. CASE k > n
      <4>1. h[k] = n + 1 /\ n = m
        BY ONLY <1>n, <2>2, <3>2, <3>3
      <4>2. k + d \in i + d + 1 .. l + 2 /\ k + d > l /\ n + d = l
        BY ONLY <1>n, <3>1, <3>3, <4>1
      <4>3. g[k + d] = l + 1
        BY ONLY <1>7, <4>2
      <4> QED
        BY ONLY <1>n, <4>1, <4>2, <4>3
    <3>4. CASE k <= n /\ k > m
      <4>1. k \in i + 1 .. n
        BY ONLY <3>1, <3>4, <1>n
      <4>2. h[k] > k
        BY ONLY <1>8, <4>1
      <4>3. PICK a : a = h[k]
        OBVIOUS
      <4>5. a \in Nat
        <5>1. h[k] \in i + 1 .. n + 1
          BY <1>1, <1>4, <3>1 DEF QuoteFrom
        <5> QED
          BY ONLY <1>n, <4>3, <5>1
      <4>4. FALSE
        BY ONLY <1>n, <2>2, <3>4, <4>1, <4>2, <4>3, <4>5
      <4> QED
        BY ONLY <4>4
    <3>5. CASE k <= m
      <4>1. /\ k \in 1 .. m /\ k + 1 \in 1 .. m + 1 /\ ~ (k > n)
            /\ k + d \in i + d + 1 .. l + 2 /\ ~ (k + d > l)
            /\ k + 1 \in k + 1 .. m + 2 /\ k + 2 \in k + 1 .. m + 2
            /\ k + 1 >= i + 1 /\ k + 1 <= n + 2 /\ k + 2 >= i + 1 /\ k + 2 <= n + 2
            /\ (k + 1) + d = (k + d) + 1 /\ (k + 2) + d = (k + d) + 2
        BY ONLY <1>n, <3>1, <3>5
      <4>2. s[k] = t[k + d]
        BY ONLY <1>2, <4>1
      <4>3. At(s, k + 1) = q <=> At(t, (k + d) + 1) = q
        <5>1. At(s, k + 1) = At(t, (k + 1) + d) \/ (At(s, k + 1) \in Edges /\ At(t, (k + 1) + d) \in Edges)
          BY <4>1, LookSame
        <5> QED
          BY ONLY <1>9, <4>1, <5>1
      <4>4. g[k + d] = IF t[k + d] = q THEN IF At(t, (k + d) + 1) = q THEN g[(k + d) + 2] ELSE (k + d) + 1
                       ELSE IF q = "'" /\ t[k + d] = "backslash" THEN g[(k + d) + 2]
                       ELSE g[(k + d) + 1]
        BY ONLY <1>7, <4>1
      <4>5. h[k + 1] <= m + 1 => g[(k + d) + 1] = h[k + 1] + d
        BY ONLY <2>1, <4>1
      <4>6. h[k + 2] <= m + 1 => g[(k + d) + 2] = h[k + 2] + d
        BY ONLY <2>1, <4>1
      <4>7. (k + d) + 1 = (k + 1) + d
        BY ONLY <4>1
      <4> QED
        BY ONLY <2>2, <3>2, <4>1, <4>2, <4>3, <4>4, <4>5, <4>6, <4>7
    <3> QED
      BY ONLY <1>n, <3>1, <3>3, <3>4, <3>5
  <2>3. \A j \in k .. m + 2 : j = k \/ j \in k + 1 .. m + 2
    BY ONLY <1>n, k \in 1 .. m + 2
  <2>4. k \in 1 .. m + 3
    BY ONLY <1>n, k \in 1 .. m + 2
  <2> QED
    BY ONLY <2>1, <2>2, <2>3, <2>4
<1>12. \A k \in 1 .. (m + 2) + 1 : k \in P
  <2>1. m + 2 \in Nat
    BY ONLY <1>n
  <2> HIDE DEF P
  <2> QED BY ONLY <2>1, <1>10, <1>11, Downward
<1>13. /\ i + 1 \in 1 .. (m + 2) + 1 /\ i + 1 \in i + 1 .. m + 2 /\ i + 1 >= i + 1 /\ i + 1 <= n + 2
       /\ (i + 1) + d = i + d + 1
  BY ONLY <1>n
<1>14. h[i + 1] <= m + 1 => g[(i + 1) + d] = h[i + 1] + d
  BY ONLY <1>12, <1>13
<1> QED
  BY ONLY <1>4, <1>5, <1>13, <1>14, QuoteEnd(s, i, q) <= m + 1

(* What begins at i.                                                       *)
OpensLine(t, i)   == t[i] = "-" /\ At(t, i + 1) = "-"
OpensBlock(t, i)  == t[i] = "/" /\ At(t, i + 1) = "*"
OpensQuote(t, i)  == t[i] \in {"'", "\""}
OpensTick(t, i)   == t[i] = "backtick"
OpensDollar(t, i) == t[i] = "$" /\ ScanDollarTag(t, i) # 0
OpensNone(t, i)   == ~ (OpensLine(t, i) \/ OpensBlock(t, i) \/ OpensQuote(t, i) \/ OpensTick(t, i) \/ OpensDollar(t, i))

LEMMA SkipIs ==
    ASSUME NEW t, NEW i
    PROVE  /\ OpensLine(t, i)   => SkipFrom(t, i) = LineEnd(t, i)
           /\ OpensBlock(t, i)  => SkipFrom(t, i) = BlockEnd(t, i)
           /\ OpensQuote(t, i)  => SkipFrom(t, i) = QuoteEnd(t, i, t[i])
           /\ OpensTick(t, i)   => SkipFrom(t, i) = BacktickEnd(t, i)
           /\ OpensDollar(t, i) => SkipFrom(t, i) = DollarEnd(t, i)
           /\ OpensNone(t, i)   => SkipFrom(t, i) = i
<1>1. OpensLine(t, i) => SkipFrom(t, i) = LineEnd(t, i)
  BY ONLY Zenon DEF SkipFrom, OpensLine
<1>2. OpensBlock(t, i) => SkipFrom(t, i) = BlockEnd(t, i)
  BY ONLY Zenon DEF SkipFrom, OpensBlock
<1>3. OpensQuote(t, i) => SkipFrom(t, i) = QuoteEnd(t, i, t[i])
  BY ONLY Zenon DEF SkipFrom, OpensQuote
<1>4. OpensTick(t, i) => SkipFrom(t, i) = BacktickEnd(t, i)
  BY ONLY Zenon DEF SkipFrom, OpensTick
<1>5. OpensDollar(t, i) => SkipFrom(t, i) = DollarEnd(t, i)
  BY ONLY Zenon DEF SkipFrom, OpensDollar
<1>6. OpensNone(t, i) => SkipFrom(t, i) = i
  BY ONLY Zenon DEF SkipFrom, OpensLine, OpensBlock, OpensQuote, OpensTick, OpensDollar, OpensNone
<1> QED
  BY ONLY <1>1, <1>2, <1>3, <1>4, <1>5, <1>6

LEMMA TagAlike ==
    ASSUME NEW D, NEW s \in Seq(D), NEW t \in Seq(D), NEW d, NEW m, Looks(s, t, d, m), NEW i \in 1 .. m
    PROVE  /\ ScanDollarTag(s, i) # 0 <=> ScanDollarTag(t, i + d) # 0
           /\ ScanDollarTag(s, i) # 0 => /\ ScanDollarTag(s, i) \in i + 2 .. m + 1
                                         /\ ScanDollarTag(t, i + d) = ScanDollarTag(s, i) + d
<1>n. d \in Nat /\ m \in Nat /\ i \in 1 .. m
  BY WindowIs
<1>1. PICK e, f : e = RunEnd(s, i + 1, WordChars) /\ f = RunEnd(t, i + d + 1, WordChars)
  OBVIOUS
<1>2. i + 1 \in 1 .. m + 1 /\ (i + 1) + d = i + d + 1
  BY ONLY <1>n
<1>3. e \in i + 1 .. m + 1 /\ f = e + d
  <2>1. \A x \in WordChars : x \notin Edges
    BY SignsInside
  <2>2. RunEnd(s, i + 1, WordChars) \in i + 1 .. m + 1 /\ RunEnd(t, (i + 1) + d, WordChars) = RunEnd(s, i + 1, WordChars) + d
    BY <1>2, <2>1, RunAlike
  <2> QED
    BY ONLY <1>1, <1>2, <2>2
<1>4. At(s, e) = "$" <=> At(t, f) = "$"
  <2>1. e \in 1 .. m + 1
    BY ONLY <1>n, <1>3
  <2>2. At(s, e) = At(t, e + d) \/ (At(s, e) \in Edges /\ At(t, e + d) \in Edges)
    BY <2>1, LookSame
  <2>3. "$" \notin Edges
    BY SignsInside
  <2> QED
    BY ONLY <1>3, <2>2, <2>3
<1>5. At(s, e) = "$" => e # m + 1
  <2>1. At(s, m + 1) \in Edges
    BY DEF Looks
  <2>2. "$" \notin Edges
    BY SignsInside
  <2> QED
    BY ONLY <2>1, <2>2
<1>6. ScanDollarTag(s, i) = IF At(s, e) = "$" THEN e + 1 ELSE 0
  BY ONLY <1>1 DEF ScanDollarTag
<1>7. ScanDollarTag(t, i + d) = IF At(t, f) = "$" THEN f + 1 ELSE 0
  BY ONLY <1>1 DEF ScanDollarTag
<1>8. PICK a, b : a = ScanDollarTag(s, i) /\ b = ScanDollarTag(t, i + d)
  OBVIOUS
<1>9. CASE At(s, e) = "$"
  <2>1. e # m + 1 /\ a = e + 1 /\ b = f + 1
    BY ONLY <1>4, <1>5, <1>6, <1>7, <1>8, <1>9
  <2>2. a \in i + 2 .. m + 1 /\ b = a + d /\ a # 0 /\ b # 0
    BY ONLY <1>n, <1>3, <2>1
  <2> QED
    BY ONLY <1>8, <2>2
<1>10. CASE At(s, e) # "$"
  BY ONLY <1>4, <1>6, <1>7, <1>10
<1> QED
  BY ONLY <1>9, <1>10

LEMMA DollarAlike ==
    ASSUME NEW D, NEW s \in Seq(D), NEW t \in Seq(D), NEW d, NEW m, Looks(s, t, d, m),
           NEW i \in 1 .. m, ScanDollarTag(s, i) # 0, DollarEnd(s, i) <= m + 1
    PROVE  DollarEnd(t, i + d) = DollarEnd(s, i) + d
<1>1. PICK n, l : n = Len(s) /\ l = Len(t)
  OBVIOUS
<1>n. n \in Nat /\ l \in Nat /\ d \in Nat /\ m \in Nat /\ m <= n /\ m + d <= l /\ (m = n => m + d = l) /\ i \in 1 .. m
  BY <1>1, WindowIs
<1>2. PICK a, b, c : a = ScanDollarTag(s, i) /\ b = ScanDollarTag(t, i + d) /\ c = a - i
  OBVIOUS
<1>3. a \in i + 2 .. m + 1 /\ b = a + d
  BY <1>2, TagAlike
<1>4. c \in Nat /\ c >= 2 /\ b - (i + d) = c
  BY ONLY <1>n, <1>2, <1>3
<1>5. PICK S, R : /\ S = {j + c : j \in {k \in a .. n - c + 1 : Upto(s, k, k + c) = Upto(s, i, a)}}
                  /\ R = {j + c : j \in {k \in b .. l - c + 1 : Upto(t, k, k + c) = Upto(t, i + d, b)}}
  OBVIOUS
<1>6. Upto(t, i + d, b) = Upto(s, i, a)
  <2>1. i \in 1 .. m + 1 /\ a \in i .. m + 1
    BY ONLY <1>n, <1>3
  <2> QED
    BY <1>3, <2>1, CutAlike
<1>7. ASSUME NEW k \in Nat, k >= 1, k + c <= m + 1
      PROVE  Upto(t, k + d, (k + c) + d) = Upto(s, k, k + c)
  <2>1. k \in 1 .. m + 1 /\ k + c \in k .. m + 1
    BY ONLY <1>n, <1>4, <1>7
  <2> QED
    BY <2>1, CutAlike
<1>8. S \subseteq Nat /\ R \subseteq Nat
  <2>1. \A j \in a .. n - c + 1 : j + c \in Nat
    BY ONLY <1>n, <1>3, <1>4
  <2>2. \A j \in b .. l - c + 1 : j + c \in Nat
    BY ONLY <1>n, <1>3, <1>4
  <2> QED
    BY ONLY <1>5, <2>1, <2>2
<1>9. ASSUME NEW x \in S, x <= m + 1 PROVE x + d \in R
  <2>1. PICK j \in a .. n - c + 1 : x = j + c /\ Upto(s, j, j + c) = Upto(s, i, a)
    BY ONLY <1>5, x \in S
  <2>2. PICK h : h = j + d
    OBVIOUS
  <2>3. /\ j \in Nat /\ j >= 1 /\ j + c <= m + 1 /\ h \in b .. l - c + 1
        /\ (j + c) + d = h + c /\ x + d = h + c
    BY ONLY <1>n, <1>3, <1>4, <1>9, <2>1, <2>2
  <2>4. Upto(t, j + d, (j + c) + d) = Upto(s, j, j + c)
    BY ONLY <1>7, <2>3
  <2>5. Upto(t, h, h + c) = Upto(t, i + d, b)
    BY ONLY <1>6, <2>1, <2>2, <2>3, <2>4
  <2> QED
    BY ONLY <1>5, <2>3, <2>5
<1>10. ASSUME NEW x \in R, x <= m + d PROVE x - d \in S
  <2>1. PICK h \in b .. l - c + 1 : x = h + c /\ Upto(t, h, h + c) = Upto(t, i + d, b)
    BY ONLY <1>5, x \in R
  <2>2. PICK j : j = h - d
    OBVIOUS
  <2>3. /\ j \in Nat /\ j >= 1 /\ j + c <= m + 1 /\ j \in a .. n - c + 1
        /\ (j + c) + d = h + c /\ x - d = j + c /\ j + d = h
    BY ONLY <1>n, <1>3, <1>4, <1>10, <2>1, <2>2
  <2>4. Upto(t, j + d, (j + c) + d) = Upto(s, j, j + c)
    BY ONLY <1>7, <2>3
  <2>5. Upto(s, j, j + c) = Upto(s, i, a)
    BY ONLY <1>6, <2>1, <2>3, <2>4
  <2> QED
    BY ONLY <1>5, <2>3, <2>5
<1>11. DollarEnd(s, i) = FirstOf(S, n + 1)
  BY ONLY <1>1, <1>2, <1>5 DEF DollarEnd
<1>12. DollarEnd(t, i + d) = FirstOf(R, l + 1)
  BY ONLY <1>1, <1>2, <1>4, <1>5 DEF DollarEnd
<1>13. Matched(S, R, n, l, d, m)
  BY ONLY <1>n, <1>8, <1>9, <1>10 DEF Matched
<1>14. FirstOf(S, n + 1) <= m + 1
  BY <1>11
<1> QED
  BY ONLY <1>11, <1>12, <1>13, <1>14, FirstAlike

(* The same begins in both.                                                *)
LEMMA OpensAlike ==
    ASSUME NEW D, NEW s \in Seq(D), NEW t \in Seq(D), NEW d, NEW m, Looks(s, t, d, m), NEW i \in 1 .. m
    PROVE  /\ s[i] = t[i + d]
           /\ OpensLine(t, i + d) <=> OpensLine(s, i)
           /\ OpensBlock(t, i + d) <=> OpensBlock(s, i)
           /\ OpensQuote(t, i + d) <=> OpensQuote(s, i)
           /\ OpensTick(t, i + d) <=> OpensTick(s, i)
           /\ OpensDollar(t, i + d) <=> OpensDollar(s, i)
<1>n. d \in Nat /\ m \in Nat /\ i \in 1 .. m
  BY WindowIs
<1>1. s[i] = t[i + d]
  BY DEF Looks
<1>2. i + 1 \in 1 .. m + 1 /\ (i + 1) + d = i + d + 1
  BY ONLY <1>n
<1>3. At(s, i + 1) = At(t, i + d + 1) \/ (At(s, i + 1) \in Edges /\ At(t, i + d + 1) \in Edges)
  <2>1. At(s, i + 1) = At(t, (i + 1) + d) \/ (At(s, i + 1) \in Edges /\ At(t, (i + 1) + d) \in Edges)
    BY <1>2, LookSame
  <2> QED
    BY ONLY <1>2, <2>1
<1>4. "-" \notin Edges /\ "*" \notin Edges
  BY SignsInside
<1>5. OpensLine(t, i + d) <=> OpensLine(s, i)
  BY ONLY <1>1, <1>3, <1>4 DEF OpensLine
<1>6. OpensBlock(t, i + d) <=> OpensBlock(s, i)
  BY ONLY <1>1, <1>3, <1>4 DEF OpensBlock
<1>7. OpensQuote(t, i + d) <=> OpensQuote(s, i)
  BY ONLY <1>1, Zenon DEF OpensQuote
<1>8. OpensTick(t, i + d) <=> OpensTick(s, i)
  BY ONLY <1>1 DEF OpensTick
<1>9. OpensDollar(t, i + d) <=> OpensDollar(s, i)
  <2>1. ScanDollarTag(s, i) # 0 <=> ScanDollarTag(t, i + d) # 0
    BY TagAlike
  <2> QED
    BY ONLY <1>1, <2>1 DEF OpensDollar
<1> QED
  BY ONLY <1>1, <1>5, <1>6, <1>7, <1>8, <1>9

LEMMA QuotesInside == \A t, i : OpensQuote(t, i) => t[i] \notin Edges
<1> QED
  BY Zenon DEF OpensQuote, Edges, Separators, Whitespace

LEMMA SkipAlike ==
    ASSUME NEW D, NEW s \in Seq(D), NEW t \in Seq(D), NEW d, NEW m, Looks(s, t, d, m),
           NEW i \in 1 .. m, SkipFrom(s, i) <= m + 1
    PROVE  SkipFrom(t, i + d) = SkipFrom(s, i) + d
<1>1. /\ s[i] = t[i + d]
      /\ OpensLine(t, i + d) <=> OpensLine(s, i)
      /\ OpensBlock(t, i + d) <=> OpensBlock(s, i)
      /\ OpensQuote(t, i + d) <=> OpensQuote(s, i)
      /\ OpensTick(t, i + d) <=> OpensTick(s, i)
      /\ OpensDollar(t, i + d) <=> OpensDollar(s, i)
  BY OpensAlike
<1>2. CASE OpensLine(s, i)
  <2>1. SkipFrom(s, i) = LineEnd(s, i) /\ SkipFrom(t, i + d) = LineEnd(t, i + d)
    BY ONLY <1>1, <1>2, SkipIs
  <2>2. LineEnd(t, i + d) = LineEnd(s, i) + d
    BY <2>1, LineAlike
  <2> QED
    BY ONLY <2>1, <2>2
<1>3. CASE OpensBlock(s, i)
  <2>1. SkipFrom(s, i) = BlockEnd(s, i) /\ SkipFrom(t, i + d) = BlockEnd(t, i + d)
    BY ONLY <1>1, <1>3, SkipIs
  <2>2. BlockEnd(t, i + d) = BlockEnd(s, i) + d
    BY <2>1, BlockAlike
  <2> QED
    BY ONLY <2>1, <2>2
<1>4. CASE OpensQuote(s, i)
  <2>0. PICK q : q = s[i]
    OBVIOUS
  <2>1. SkipFrom(s, i) = QuoteEnd(s, i, q) /\ SkipFrom(t, i + d) = QuoteEnd(t, i + d, q)
    BY ONLY <1>1, <1>4, <2>0, SkipIs
  <2>2. q \notin Edges
    BY ONLY <1>4, <2>0, QuotesInside
  <2>3. QuoteEnd(s, i, q) <= m + 1
    BY ONLY <2>1, SkipFrom(s, i) <= m + 1
  <2>4. QuoteEnd(t, i + d, q) = QuoteEnd(s, i, q) + d
    BY <2>2, <2>3, QuoteAlike
  <2> QED
    BY ONLY <2>1, <2>4
<1>5. CASE OpensTick(s, i)
  <2>1. SkipFrom(s, i) = BacktickEnd(s, i) /\ SkipFrom(t, i + d) = BacktickEnd(t, i + d)
    BY ONLY <1>1, <1>5, SkipIs
  <2>2. BacktickEnd(t, i + d) = BacktickEnd(s, i) + d
    BY <2>1, BacktickAlike
  <2> QED
    BY ONLY <2>1, <2>2
<1>6. CASE OpensDollar(s, i)
  <2>1. SkipFrom(s, i) = DollarEnd(s, i) /\ SkipFrom(t, i + d) = DollarEnd(t, i + d)
    BY ONLY <1>1, <1>6, SkipIs
  <2>2. ScanDollarTag(s, i) # 0
    BY ONLY <1>6 DEF OpensDollar
  <2>3. DollarEnd(t, i + d) = DollarEnd(s, i) + d
    BY <2>1, <2>2, DollarAlike
  <2> QED
    BY ONLY <2>1, <2>3
<1>7. CASE OpensNone(s, i)
  <2>1. OpensNone(t, i + d)
    BY ONLY <1>1, <1>7 DEF OpensNone
  <2> QED
    BY ONLY <1>7, <2>1, SkipIs
<1> QED
  BY ONLY <1>2, <1>3, <1>4, <1>5, <1>6, <1>7 DEF OpensNone

(* What is skipped and ends before a character that is no newline ends in  *)
(* a sign: nothing goes on over a separator in front of a parameter.       *)
LEMMA SkipEnds ==
    ASSUME NEW D, NEW t \in Seq(D), NEW i \in 1 .. Len(t), SkipFrom(t, i) # i,
           SkipFrom(t, i) <= Len(t), t[SkipFrom(t, i)] # "\n"
    PROVE  t[SkipFrom(t, i) - 1] \notin Edges
<1>1. PICK n, e : n = Len(t) /\ e = SkipFrom(t, i)
  OBVIOUS
<1>n. n \in Nat /\ i \in 1 .. n
  BY <1>1
<1>0. e \in i .. n + 1 /\ e # i /\ e <= n /\ t[e] # "\n"
  BY <1>1, SkipIn
<1>2. \A x \in {"-", "/", "*", "'", "\"", "backtick", "backslash", "$", ":", ".", "+", "e"} : x \notin Edges
  BY ONLY SignsInside
<1>3. "/" \notin Edges /\ "backtick" \notin Edges /\ "$" \notin Edges
  BY ONLY <1>2, Zenon
<1>4. CASE OpensLine(t, i)
  <2>1. PICK S : S = {j \in i + 2 .. n : t[j] = "\n"}
    OBVIOUS
  <2>2. S \subseteq Nat /\ n + 1 \in Nat
    BY ONLY <1>n, <2>1
  <2>3. e = FirstOf(S, n + 1)
    <3>1. e = LineEnd(t, i)
      BY ONLY <1>1, <1>4, SkipIs
    <3> QED
      BY ONLY <1>1, <2>1, <3>1 DEF LineEnd
  <2>4. e \in S \cup {n + 1}
    BY ONLY <2>2, <2>3, FirstOfIs
  <2>5. e # n + 1
    BY ONLY <1>n, <1>0
  <2> QED
    BY ONLY <1>0, <2>1, <2>4, <2>5
<1>5. CASE OpensBlock(t, i)
  <2>1. PICK S : S = {j + 2 : j \in {k \in i + 2 .. n - 1 : t[k] = "*" /\ t[k + 1] = "/"}}
    OBVIOUS
  <2>2. S \subseteq Nat /\ n + 1 \in Nat
    BY ONLY <1>n, <2>1
  <2>3. e = FirstOf(S, n + 1)
    <3>1. e = BlockEnd(t, i)
      BY ONLY <1>1, <1>5, SkipIs
    <3> QED
      BY ONLY <1>1, <2>1, <3>1 DEF BlockEnd
  <2>4. e \in S \cup {n + 1}
    BY ONLY <2>2, <2>3, FirstOfIs
  <2>5. e # n + 1
    BY ONLY <1>n, <1>0
  <2>6. PICK j \in i + 2 .. n - 1 : e = j + 2 /\ t[j + 1] = "/"
    BY ONLY <2>1, <2>4, <2>5
  <2>7. e - 1 = j + 1
    BY ONLY <1>n, <2>6
  <2> QED
    BY ONLY <1>1, <1>3, <2>6, <2>7
<1>6. CASE OpensTick(t, i)
  <2>1. PICK S : S = {j + 1 : j \in {k \in i + 1 .. n : t[k] = "backtick"}}
    OBVIOUS
  <2>2. S \subseteq Nat /\ n + 1 \in Nat
    BY ONLY <1>n, <2>1
  <2>3. e = FirstOf(S, n + 1)
    <3>1. e = BacktickEnd(t, i)
      BY ONLY <1>1, <1>6, SkipIs
    <3> QED
      BY ONLY <1>1, <2>1, <3>1 DEF BacktickEnd
  <2>4. e \in S \cup {n + 1}
    BY ONLY <2>2, <2>3, FirstOfIs
  <2>5. e # n + 1
    BY ONLY <1>n, <1>0
  <2>6. PICK j \in i + 1 .. n : e = j + 1 /\ t[j] = "backtick"
    BY ONLY <2>1, <2>4, <2>5
  <2>7. e - 1 = j
    BY ONLY <1>n, <2>6
  <2> QED
    BY ONLY <1>1, <1>3, <2>6, <2>7
<1>7. CASE OpensQuote(t, i)
  <2>1. PICK q : q = t[i]
    OBVIOUS
  <2>2. PICK h : QuoteFrom(h, t, i, q) /\ QuoteEnd(t, i, q) = h[i + 1]
    BY QuoteWalk
  <2>3. e = h[i + 1]
    BY ONLY <1>1, <1>7, <2>1, <2>2, SkipIs
  <2>4. i + 1 \in i + 1 .. Len(t) + 2
    BY ONLY <1>1, <1>n
  <2>5. e <= Len(t) => t[e - 1] = q
    BY ONLY <2>2, <2>3, <2>4 DEF QuoteFrom
  <2>6. q \notin Edges
    BY ONLY <1>7, <2>1, QuotesInside
  <2> QED
    BY ONLY <1>0, <1>1, <2>5, <2>6
<1>8. CASE OpensDollar(t, i)
  <2>1. PICK a, c : a = ScanDollarTag(t, i) /\ c = a - i
    OBVIOUS
  <2>0. a # 0
    BY ONLY <1>8, <2>1 DEF OpensDollar
  <2>2. PICK j : j = RunEnd(t, i + 1, WordChars)
    OBVIOUS
  <2>3. j \in i + 1 .. n + 1
    <3>1. i + 1 \in Nat /\ i + 1 <= Len(t) + 1
      BY ONLY <1>1, <1>n
    <3>2. RunEnd(t, i + 1, WordChars) \in i + 1 .. Len(t) + 1
      BY <3>1, RunEndIs
    <3> QED
      BY ONLY <1>1, <2>2, <3>2
  <2>4. a = j + 1 /\ At(t, j) = "$"
    BY ONLY <2>0, <2>1, <2>2 DEF ScanDollarTag
  <2>5. j \in 1 .. n /\ t[j] = "$"
    <3>1. j \in 1 .. Len(t)
      <4>1. j \notin 1 .. Len(t) => At(t, j) \in Edges
        BY ONLY AtIs, t \in Seq(D)
      <4> QED
        BY ONLY <1>3, <2>4, <4>1
    <3>2. At(t, j) = t[j]
      BY ONLY <3>1, AtIs, t \in Seq(D)
    <3> QED
      BY ONLY <1>1, <2>4, <3>1, <3>2
  <2>6. c \in Nat /\ c >= 2 /\ a \in i .. n + 1 /\ a = i + c
    BY ONLY <1>n, <2>1, <2>3, <2>4, <2>5
  <2>7. PICK S : S = {k + c : k \in {k \in a .. n - c + 1 : Upto(t, k, k + c) = Upto(t, i, a)}}
    OBVIOUS
  <2>8. S \subseteq Nat /\ n + 1 \in Nat
    <3>1. \A k \in a .. n - c + 1 : k + c \in Nat
      BY ONLY <1>n, <2>6
    <3> QED
      BY ONLY <1>n, <2>7, <3>1
  <2>9. e = FirstOf(S, n + 1)
    <3>1. e = DollarEnd(t, i)
      BY ONLY <1>1, <1>8, SkipIs
    <3>2. DollarEnd(t, i) = FirstOf(S, n + 1)
      BY ONLY <1>1, <2>1, <2>7 DEF DollarEnd
    <3> QED
      BY ONLY <3>1, <3>2
  <2>10. e \in S \cup {n + 1}
    BY ONLY <2>8, <2>9, FirstOfIs
  <2>11. e # n + 1
    BY ONLY <1>n, <1>0
  <2>12. PICK k \in a .. n - c + 1 : e = k + c /\ Upto(t, k, k + c) = Upto(t, i, a)
    BY ONLY <2>7, <2>10, <2>11
  <2>13. PICK u, v : u = Upto(t, k, k + c) /\ v = Upto(t, i, a)
    OBVIOUS
  <2>14. /\ k \in Nat \ {0} /\ k + c \in Nat /\ k <= k + c /\ k + c <= Len(t) + 1
         /\ i \in Nat \ {0} /\ a \in Nat /\ i <= a /\ a <= Len(t) + 1
    BY ONLY <1>1, <1>n, <2>6, <2>12
  <2>15. PieceOf(u, t, k, k + c, D) /\ PieceOf(v, t, i, a, D)
    BY <2>13, <2>14, PieceIs
  <2>16. /\ \A x \in 1 .. (k + c) - k : u[x] = t[k + x - 1]
         /\ \A x \in 1 .. a - i : v[x] = t[i + x - 1]
    BY ONLY <2>15 DEF PieceOf
  <2>17. /\ c \in 1 .. (k + c) - k /\ c \in 1 .. a - i
         /\ k + c - 1 = e - 1 /\ i + c - 1 = j
    <3>1. i \in 1 .. n /\ n \in Nat /\ c \in Nat /\ c >= 2 /\ a = i + c /\ a = j + 1 /\ e = k + c /\ k \in Nat
      BY ONLY <1>n, <2>4, <2>6, <2>12, <2>14
    <3> QED
      BY ONLY <2>3, <3>1
  <2>18. u[c] = t[e - 1] /\ v[c] = t[j]
    BY ONLY <2>16, <2>17
  <2> QED
    BY ONLY <1>1, <1>3, <2>5, <2>12, <2>13, <2>18
<1>9. CASE OpensNone(t, i)
  BY ONLY <1>0, <1>1, <1>9, SkipIs
<1> QED
  BY ONLY <1>4, <1>5, <1>6, <1>7, <1>8, <1>9 DEF OpensNone

LEMMA NumberAlike ==
    ASSUME NEW D, NEW s \in Seq(D), NEW t \in Seq(D), NEW d, NEW m, Looks(s, t, d, m), NEW i \in 1 .. m
    PROVE  /\ NumberAt(t, i + d) <=> NumberAt(s, i)
           /\ NumberEnd(s, i) \in i .. m + 1 /\ NumberEnd(t, i + d) = NumberEnd(s, i) + d
<1>n. d \in Nat /\ m \in Nat /\ i \in 1 .. m
  BY WindowIs
<1>1. \A x \in Digits : x \notin Edges
  BY SignsInside DEF WordChars
<1>2. "." \notin Edges /\ "e" \notin Edges /\ "+" \notin Edges /\ "-" \notin Edges
  <2>1. \A x \in {"-", "/", "*", "'", "\"", "backtick", "backslash", "$", ":", ".", "+", "e"} : x \notin Edges
    BY ONLY SignsInside
  <2> QED
    BY ONLY <2>1, Zenon
<1>3. \A k \in 1 .. m + 1 : At(s, k) = At(t, k + d) \/ (At(s, k) \in Edges /\ At(t, k + d) \in Edges)
  BY LookSame
<1>4. At(s, m + 1) \in Edges
  BY DEF Looks
<1>5. ASSUME NEW k \in 1 .. m + 1
      PROVE  RunEnd(s, k, Digits) \in k .. m + 1 /\ RunEnd(t, k + d, Digits) = RunEnd(s, k, Digits) + d
  BY <1>1, RunAlike
<1>6. NumberAt(t, i + d) <=> NumberAt(s, i)
  <2>1. s[i] = t[i + d]
    BY DEF Looks
  <2>2. i + 1 \in 1 .. m + 1 /\ (i + 1) + d = (i + d) + 1
    BY ONLY <1>n
  <2>3. At(s, i + 1) \in Digits <=> At(t, (i + d) + 1) \in Digits
    BY ONLY <1>1, <1>3, <2>2
  <2> QED
    BY ONLY <2>1, <2>3 DEF NumberAt
<1>7. PICK a, b : a = RunEnd(s, i, Digits) /\ b = RunEnd(t, i + d, Digits)
  OBVIOUS
<1>8. a \in i .. m + 1 /\ b = a + d
  <2>1. i \in 1 .. m + 1
    BY ONLY <1>n
  <2> QED
    BY ONLY <1>5, <1>7, <2>1
<1>9. At(s, a) = "." <=> At(t, b) = "."
  <2>1. a \in 1 .. m + 1
    BY ONLY <1>n, <1>8
  <2> QED
    BY ONLY <1>2, <1>3, <1>8, <2>1
<1>10. PICK p, r : /\ p = IF At(s, a) = "." THEN RunEnd(s, a + 1, Digits) ELSE a
                   /\ r = IF At(t, b) = "." THEN RunEnd(t, b + 1, Digits) ELSE b
  OBVIOUS
<1>11. p \in i .. m + 1 /\ r = p + d
  <2>1. CASE At(s, a) = "."
    <3>1. a # m + 1
      BY ONLY <1>2, <1>4, <2>1
    <3>2. a + 1 \in 1 .. m + 1 /\ (a + 1) + d = b + 1
      BY ONLY <1>n, <1>8, <3>1
    <3>3. p \in a + 1 .. m + 1 /\ r = p + d
      BY ONLY <1>5, <1>9, <1>10, <2>1, <3>2
    <3> QED
      BY ONLY <1>n, <1>8, <3>3
  <2>2. CASE At(s, a) # "."
    BY ONLY <1>8, <1>9, <1>10, <2>2
  <2> QED
    BY ONLY <2>1, <2>2
<1>12. At(s, p) = "e" <=> At(t, r) = "e"
  <2>1. p \in 1 .. m + 1
    BY ONLY <1>n, <1>11
  <2> QED
    BY ONLY <1>2, <1>3, <1>11, <2>1
<1>13. NumberEnd(s, i) = IF At(s, p) = "e" THEN RunEnd(s, IF At(s, p + 1) \in {"+", "-"} THEN p + 2 ELSE p + 1, Digits) ELSE p
  BY ONLY <1>7, <1>10 DEF NumberEnd
<1>14. NumberEnd(t, i + d) = IF At(t, r) = "e" THEN RunEnd(t, IF At(t, r + 1) \in {"+", "-"} THEN r + 2 ELSE r + 1, Digits) ELSE r
  BY ONLY <1>7, <1>10 DEF NumberEnd
<1>15. NumberEnd(s, i) \in i .. m + 1 /\ NumberEnd(t, i + d) = NumberEnd(s, i) + d
  <2>1. CASE At(s, p) # "e"
    BY ONLY <1>11, <1>12, <1>13, <1>14, <2>1
  <2>2. CASE At(s, p) = "e"
    <3>1. p # m + 1
      BY ONLY <1>2, <1>4, <2>2
    <3>2. p + 1 \in 1 .. m + 1 /\ (p + 1) + d = r + 1
      BY ONLY <1>n, <1>11, <3>1
    <3>3. At(s, p + 1) \in {"+", "-"} <=> At(t, r + 1) \in {"+", "-"}
      BY ONLY <1>2, <1>3, <3>2
    <3>4. PICK g, h : /\ g = IF At(s, p + 1) \in {"+", "-"} THEN p + 2 ELSE p + 1
                      /\ h = IF At(t, r + 1) \in {"+", "-"} THEN r + 2 ELSE r + 1
      OBVIOUS
    <3>5. At(s, p + 1) \in {"+", "-"} => p + 1 # m + 1
      BY ONLY <1>2, <1>4
    <3>6. CASE At(s, p + 1) \in {"+", "-"}
      <4>1. g = p + 2 /\ h = r + 2 /\ p + 1 # m + 1
        BY ONLY <3>3, <3>4, <3>5, <3>6
      <4>2. g \in 1 .. m + 1 /\ h = g + d /\ g >= i
        BY ONLY <1>n, <1>11, <3>1, <4>1
      <4>3. RunEnd(s, g, Digits) \in g .. m + 1 /\ RunEnd(t, h, Digits) = RunEnd(s, g, Digits) + d
        BY ONLY <1>5, <4>2
      <4>4. RunEnd(s, g, Digits) \in i .. m + 1
        BY ONLY <1>n, <4>2, <4>3
      <4> QED
        BY ONLY <1>12, <1>13, <1>14, <2>2, <3>4, <4>3, <4>4
    <3>7. CASE ~ (At(s, p + 1) \in {"+", "-"})
      <4>1. g = p + 1 /\ h = r + 1
        BY ONLY <3>3, <3>4, <3>7
      <4>2. g \in 1 .. m + 1 /\ h = g + d /\ g >= i
        BY ONLY <1>n, <1>11, <3>1, <4>1
      <4>3. RunEnd(s, g, Digits) \in g .. m + 1 /\ RunEnd(t, h, Digits) = RunEnd(s, g, Digits) + d
        BY ONLY <1>5, <4>2
      <4>4. RunEnd(s, g, Digits) \in i .. m + 1
        BY ONLY <1>n, <4>2, <4>3
      <4> QED
        BY ONLY <1>12, <1>13, <1>14, <2>2, <3>4, <4>3, <4>4
    <3> QED
      BY ONLY <3>6, <3>7
  <2> QED
    BY ONLY <2>1, <2>2
<1> QED
  BY ONLY <1>6, <1>15

LEMMA ParamAlike ==
    ASSUME NEW D, NEW s \in Seq(D), NEW t \in Seq(D), NEW d, NEW m, Alike(s, t, d, m), NEW i \in 1 .. m
    PROVE  ParamAt(t, i + d) <=> ParamAt(s, i)
<1>0. Looks(s, t, d, m)
  BY AlikeLooks
<1>n. d \in Nat /\ m \in Nat /\ i \in 1 .. m
  BY <1>0, WindowIs
<1>1. s[i] = t[i + d] /\ At(s, i) = s[i]
  BY <1>0 DEF Looks
<1>2. \A x \in Letters : x \notin Edges
  BY SignsInside DEF WordChars
<1>3. ":" \notin Edges
  <2>1. \A x \in {"-", "/", "*", "'", "\"", "backtick", "backslash", "$", ":", ".", "+", "e"} : x \notin Edges
    BY ONLY SignsInside
  <2> QED
    BY ONLY <2>1, Zenon
<1>4. At(t, (i + d) + 1) \in Letters <=> At(s, i + 1) \in Letters
  <2>1. i + 1 \in 1 .. m + 1 /\ (i + 1) + d = (i + d) + 1
    BY ONLY <1>n
  <2>2. At(s, i + 1) = At(t, (i + 1) + d) \/ (At(s, i + 1) \in Edges /\ At(t, (i + 1) + d) \in Edges)
    BY <1>0, <2>1, LookSame
  <2> QED
    BY ONLY <1>2, <2>1, <2>2
<1>5. t[i + d] = ":" => (At(t, (i + d) - 1) # ":" <=> At(s, i - 1) # ":")
  <2>1. CASE i = 1
    <3>1. (i + d) - 1 = d /\ i - 1 \notin 1 .. Len(s)
      BY ONLY <1>n, <2>1
    <3>2. At(s, i - 1) # ":"
      BY <1>3, <3>1, AtIs
    <3>3. At(s, 1) = ":" => At(t, d) # ":"
      BY DEF Alike
    <3> QED
      BY ONLY <1>1, <2>1, <3>1, <3>2, <3>3
  <2>2. CASE i # 1
    <3>1. i - 1 \in 1 .. m + 1 /\ (i - 1) + d = (i + d) - 1
      BY ONLY <1>n, <2>2
    <3>2. At(s, i - 1) = At(t, (i - 1) + d) \/ (At(s, i - 1) \in Edges /\ At(t, (i - 1) + d) \in Edges)
      BY <1>0, <3>1, LookSame
    <3> QED
      BY ONLY <1>3, <3>1, <3>2
  <2> QED
    BY ONLY <2>1, <2>2
<1> QED
  BY ONLY <1>1, <1>4, <1>5 DEF ParamAt

(* Where the highlighter goes on after what is at i, and what it is.       *)
NextAt(t, i) ==
    IF SkipFrom(t, i) # i THEN SkipFrom(t, i)
    ELSE IF NumberAt(t, i) THEN NumberEnd(t, i)
    ELSE IF t[i] \in Letters THEN WordEnd(t, i)
    ELSE IF ParamAt(t, i) THEN NameEnd(t, i)
    ELSE i + 1

KindAt(t, i) ==
    IF SkipFrom(t, i) # i THEN IF t[i] \in {"-", "/"} THEN "comment" ELSE "string"
    ELSE IF NumberAt(t, i) THEN "number"
    ELSE IF t[i] \in Letters THEN IF IsKeyword(Upto(t, i, WordEnd(t, i))) THEN "keyword" ELSE "plain"
    ELSE IF ParamAt(t, i) THEN "param"
    ELSE "plain"

LEMMA NextIn ==
    ASSUME NEW D, NEW t \in Seq(D), NEW i \in 1 .. Len(t)
    PROVE  NextAt(t, i) \in i + 1 .. Len(t) + 1
<1>1. PICK n : n = Len(t) /\ n \in Nat
  <2>1. Len(t) \in Nat
    OBVIOUS
  <2> QED
    BY ONLY <2>1
<1>n. n \in Nat /\ i \in 1 .. n
  BY <1>1
<1>2. i + 1 \in Nat /\ i + 1 <= Len(t) + 1 /\ i \in Nat /\ i <= Len(t) + 1
  BY ONLY <1>1, <1>n
<1>3. SkipFrom(t, i) \in i .. n + 1
  BY <1>1, SkipIn
<1>4. NumberAt(t, i) => NumberEnd(t, i) \in i + 1 .. n + 1
  BY <1>1, NumberEndIs
<1>5. NameEnd(t, i) \in i + 1 .. n + 1
  BY <1>1, <1>2, RunEndIs DEF NameEnd
<1>6. WordEnd(t, i) \in i .. n + 1 /\ (WordEnd(t, i) <= n => t[WordEnd(t, i)] \notin WordChars)
  BY <1>1, <1>2, RunEndIs DEF WordEnd
<1>7. t[i] \in Letters => WordEnd(t, i) # i
  BY ONLY <1>n, <1>6 DEF WordChars
<1>8. PICK a, b : a = SkipFrom(t, i) /\ b = WordEnd(t, i)
  OBVIOUS
<1>9. (a # i => a \in i + 1 .. n + 1) /\ (b # i => b \in i + 1 .. n + 1) /\ i + 1 \in i + 1 .. n + 1
  <2>1. a \in i .. n + 1 /\ b \in i .. n + 1
    BY ONLY <1>3, <1>6, <1>8
  <2> QED
    BY ONLY <1>n, <2>1
<1>10. NextAt(t, i) \in i + 1 .. n + 1
  BY ONLY <1>4, <1>5, <1>7, <1>8, <1>9 DEF NextAt
<1> QED
  BY ONLY <1>1, <1>10

(* In the window both read the same, and go on to the same place.          *)
LEMMA StepAlike ==
    ASSUME NEW D, NEW s \in Seq(D), NEW t \in Seq(D), NEW d, NEW m, Alike(s, t, d, m),
           NEW i \in 1 .. m, NextAt(s, i) <= m + 1
    PROVE  /\ NextAt(t, i + d) = NextAt(s, i) + d /\ KindAt(t, i + d) = KindAt(s, i)
           /\ Upto(t, i + d, NextAt(t, i + d)) = Upto(s, i, NextAt(s, i))
<1>0. Looks(s, t, d, m)
  BY AlikeLooks
<1>n. /\ Len(s) \in Nat /\ d \in Nat /\ m \in Nat /\ m <= Len(s) /\ i \in 1 .. m
  BY <1>0, WindowIs
<1>1. s[i] = t[i + d]
  BY <1>0 DEF Looks
<1>2. i \in 1 .. Len(s) /\ i \in 1 .. m + 1 /\ i + 1 \in 1 .. m + 1 /\ (i + 1) + d = (i + d) + 1 /\ i <= m + 1
  BY ONLY <1>n
<1>3. \A x \in WordChars : x \notin Edges
  BY SignsInside
<1>4. NumberAt(t, i + d) <=> NumberAt(s, i)
  BY <1>0, NumberAlike
<1>5. NumberEnd(t, i + d) = NumberEnd(s, i) + d
  BY <1>0, NumberAlike
<1>6. ParamAt(t, i + d) <=> ParamAt(s, i)
  BY ParamAlike
<1>7. WordEnd(s, i) \in i .. m + 1 /\ WordEnd(t, i + d) = WordEnd(s, i) + d
  BY <1>0, <1>2, <1>3, RunAlike DEF WordEnd
<1>8. NameEnd(t, i + d) = NameEnd(s, i) + d
  <2>1. RunEnd(t, (i + 1) + d, WordChars) = RunEnd(s, i + 1, WordChars) + d
    BY <1>0, <1>2, <1>3, RunAlike
  <2> QED
    BY ONLY <1>2, <2>1 DEF NameEnd
<1>9. Upto(t, i + d, WordEnd(t, i + d)) = Upto(s, i, WordEnd(s, i))
  BY <1>0, <1>2, <1>7, CutAlike
<1>10. SkipFrom(t, i + d) = SkipFrom(s, i) + d
  <2>1. SkipFrom(s, i) <= m + 1
    <3>1. SkipFrom(s, i) = i \/ SkipFrom(s, i) = NextAt(s, i)
      BY ONLY Zenon DEF NextAt
    <3> QED
      BY ONLY <1>2, <3>1, NextAt(s, i) <= m + 1
  <2> QED
    BY <1>0, <2>1, SkipAlike
<1>11. SkipFrom(t, i + d) # i + d <=> SkipFrom(s, i) # i
  <2>1. SkipFrom(s, i) \in Nat
    <3>1. SkipFrom(s, i) \in i .. Len(s) + 1
      BY <1>2, SkipIn
    <3> QED
      BY ONLY <1>n, <3>1
  <2>2. PICK a : a = SkipFrom(s, i)
    OBVIOUS
  <2> QED
    BY ONLY <1>n, <1>10, <2>1, <2>2
<1>12. NextAt(t, i + d) = NextAt(s, i) + d
  <2>1. (i + d) + 1 = (i + 1) + d
    BY ONLY <1>2
  <2> QED
    BY ONLY <1>1, <1>4, <1>5, <1>6, <1>7, <1>8, <1>10, <1>11, <2>1 DEF NextAt
<1>13. KindAt(t, i + d) = KindAt(s, i)
  BY ONLY <1>1, <1>4, <1>6, <1>9, <1>11 DEF KindAt
<1>14. Upto(t, i + d, NextAt(t, i + d)) = Upto(s, i, NextAt(s, i))
  <2>1. NextAt(s, i) \in i .. m + 1
    <3>1. NextAt(s, i) \in i + 1 .. Len(s) + 1
      BY <1>2, NextIn
    <3>2. PICK a : a = NextAt(s, i)
      OBVIOUS
    <3> QED
      BY ONLY <1>n, <3>1, <3>2, NextAt(s, i) <= m + 1
  <2> QED
    BY <1>0, <1>2, <1>12, <2>1, CutAlike
<1> QED
  BY ONLY <1>12, <1>13, <1>14

(* The token at i, and what of the text it is.                             *)
HeadAt(t, i)  == IF KindAt(t, i) = "plain" THEN <<>> ELSE Token(i, NextAt(t, i), KindAt(t, i))
FoundAt(t, i) == IF KindAt(t, i) = "plain" THEN <<>> ELSE <<<<KindAt(t, i), Upto(t, i, NextAt(t, i))>>>>

HeadsFrom(f, t) ==
    /\ f \in [1 .. Len(t) + 1 -> Seq(Tokens)] /\ f[Len(t) + 1] = <<>>
    /\ \A i \in 1 .. Len(t) : f[i] = HeadAt(t, i) \o f[NextAt(t, i)]
    /\ \A i \in 1 .. Len(t) + 1 : Sequent(f[i], i, Len(t))

(* The highlighter's tokens are those of its steps.                        *)
LEMMA HeadsWalk ==
    ASSUME NEW D, NEW t \in Seq(D)
    PROVE  \E f : HeadsFrom(f, t) /\ Tokenize(t) = f[1]
<1>1. PICK f : TokensFrom(f, t) /\ SkipsFrom(f, t) /\ Tokenize(t) = f[1]
  BY TokenizeWalk
<1>2. /\ f \in [1 .. Len(t) + 1 -> Seq(Tokens)] /\ f[Len(t) + 1] = <<>>
      /\ \A i \in 1 .. Len(t) :
         /\ SkipFrom(t, i) = i /\ NumberAt(t, i) =>
                f[i] = Token(i, NumberEnd(t, i), "number") \o f[NumberEnd(t, i)]
         /\ t[i] \in Letters => f[i] = KeywordToken(t, i, WordEnd(t, i)) \o f[WordEnd(t, i)]
         /\ ParamAt(t, i) => f[i] = ParamToken(i, NameEnd(t, i)) \o f[NameEnd(t, i)]
         /\ Other(t, i) => f[i] = f[i + 1]
  BY <1>1 DEF TokensFrom
<1>3. \A i \in 1 .. Len(t) :
         SkipFrom(t, i) # i => f[i] = Token(i, SkipFrom(t, i), SkipKind(t, i)) \o f[SkipFrom(t, i)]
  BY <1>1 DEF SkipsFrom
<1>4. \A i \in 1 .. Len(t) + 1 : Sequent(f[i], i, Len(t))
  BY <1>1, WalkSequent
<1>5. ASSUME NEW i \in 1 .. Len(t) PROVE f[i] = HeadAt(t, i) \o f[NextAt(t, i)]
  <2>1. NextAt(t, i) \in 1 .. Len(t) + 1
    <3>1. NextAt(t, i) \in i + 1 .. Len(t) + 1
      BY NextIn
    <3> QED
      BY <3>1
  <2>2. \A e \in 1 .. Len(t) + 1 : <<>> \o f[e] = f[e]
    BY ONLY <1>2, ConcatEmptySeq
  <2>3. <<>> \o f[NextAt(t, i)] = f[NextAt(t, i)]
    BY ONLY <2>1, <2>2
  <2>4. CASE SkipFrom(t, i) # i
    <3>1. NextAt(t, i) = SkipFrom(t, i) /\ KindAt(t, i) = SkipKind(t, i)
      BY ONLY <2>4 DEF NextAt, KindAt, SkipKind
    <3>2. KindAt(t, i) # "plain"
      BY ONLY <3>1 DEF SkipKind
    <3> QED
      BY ONLY <1>3, <2>4, <3>1, <3>2, i \in 1 .. Len(t) DEF HeadAt
  <2>5. CASE SkipFrom(t, i) = i /\ NumberAt(t, i)
    <3>1. NextAt(t, i) = NumberEnd(t, i) /\ KindAt(t, i) = "number"
      BY ONLY <2>5 DEF NextAt, KindAt
    <3>2. KindAt(t, i) # "plain"
      BY ONLY <3>1
    <3> QED
      BY ONLY <1>2, <2>5, <3>1, <3>2, i \in 1 .. Len(t) DEF HeadAt
  <2>6. CASE t[i] \in Letters
    <3>1. SkipFrom(t, i) = i /\ ~ NumberAt(t, i)
      BY <2>6, OneReading
    <3>2. NextAt(t, i) = WordEnd(t, i)
      BY ONLY <2>6, <3>1 DEF NextAt
    <3>3. KindAt(t, i) = IF IsKeyword(Upto(t, i, WordEnd(t, i))) THEN "keyword" ELSE "plain"
      BY ONLY <2>6, <3>1 DEF KindAt
    <3>4. HeadAt(t, i) = KeywordToken(t, i, WordEnd(t, i))
      <4>1. CASE IsKeyword(Upto(t, i, WordEnd(t, i)))
        <5>1. KindAt(t, i) = "keyword" /\ KindAt(t, i) # "plain"
          BY ONLY <3>3, <4>1
        <5> QED
          BY ONLY <3>2, <4>1, <5>1 DEF HeadAt, KeywordToken
      <4>2. CASE ~ IsKeyword(Upto(t, i, WordEnd(t, i)))
        BY ONLY <3>3, <4>2 DEF HeadAt, KeywordToken
      <4> QED
        BY ONLY <4>1, <4>2
    <3> QED
      BY ONLY <1>2, <2>6, <3>2, <3>4, i \in 1 .. Len(t)
  <2>7. CASE ParamAt(t, i)
    <3>1. SkipFrom(t, i) = i /\ ~ NumberAt(t, i) /\ t[i] \notin Letters
      BY <2>7, OneReading
    <3>2. NextAt(t, i) = NameEnd(t, i) /\ KindAt(t, i) = "param"
      BY ONLY <2>7, <3>1 DEF NextAt, KindAt
    <3>3. KindAt(t, i) # "plain"
      BY ONLY <3>2
    <3> QED
      BY ONLY <1>2, <2>7, <3>2, <3>3, i \in 1 .. Len(t) DEF HeadAt, ParamToken
  <2>8. CASE Other(t, i)
    <3>1. NextAt(t, i) = i + 1 /\ KindAt(t, i) = "plain"
      BY ONLY <2>8 DEF NextAt, KindAt, Other
    <3> QED
      BY ONLY <1>2, <2>3, <2>8, <3>1, i \in 1 .. Len(t) DEF HeadAt
  <2> QED
    BY ONLY <2>4, <2>5, <2>6, <2>7, <2>8 DEF Other
<1>6. HeadsFrom(f, t)
  BY ONLY <1>2, <1>4, <1>5 DEF HeadsFrom
<1> QED
  BY <1>1, <1>6

LEMMA KindIn ==
    ASSUME NEW t, NEW i
    PROVE  /\ KindAt(t, i) \in Colours \cup {"plain"}
           /\ KindAt(t, i) = "plain" => SkipFrom(t, i) = i /\ NextAt(t, i) \in {WordEnd(t, i), i + 1} /\ ~ NumberAt(t, i)
           /\ KindAt(t, i) = "param" => ParamAt(t, i) /\ NextAt(t, i) = NameEnd(t, i)
           /\ "plain" \notin Colours
<1>1. KindAt(t, i) \in Colours \cup {"plain"}
  BY ONLY TRUE DEF KindAt, Colours
<1>2. KindAt(t, i) = "plain" => SkipFrom(t, i) = i /\ NextAt(t, i) \in {WordEnd(t, i), i + 1} /\ ~ NumberAt(t, i)
  BY ONLY TRUE DEF KindAt, NextAt
<1>3. KindAt(t, i) = "param" => ParamAt(t, i) /\ NextAt(t, i) = NameEnd(t, i)
  BY ONLY TRUE DEF KindAt, NextAt
<1>4. "plain" \notin Colours
  BY ONLY TRUE DEF Colours
<1> QED
  BY ONLY <1>1, <1>2, <1>3, <1>4

(* What a list of tokens is of the text.                                   *)
PieceSet(D)      == Colours \X Seq(D)
PiecesOf(t, list) == [k \in DOMAIN list |-> <<list[k].kind, Upto(t, list[k].from, list[k].end)>>]

PiecesFrom(w, t, D) ==
    /\ w \in [1 .. Len(t) + 1 -> Seq(PieceSet(D))] /\ w[Len(t) + 1] = <<>>
    /\ \A i \in 1 .. Len(t) : FoundAt(t, i) \in Seq(PieceSet(D)) /\ w[i] = FoundAt(t, i) \o w[NextAt(t, i)]

LEMMA PiecesCons ==
    ASSUME NEW t, NEW a \in Tokens, NEW s \in Seq(Tokens)
    PROVE  PiecesOf(t, <<a>> \o s) = <<<<a.kind, Upto(t, a.from, a.end)>>>> \o PiecesOf(t, s)
<1>1. PICK F : F = [x \in Tokens |-> <<x.kind, Upto(t, x.from, x.end)>>]
  OBVIOUS
<1>2. PICK T : T = {F[x] : x \in Tokens}
  OBVIOUS
<1>3. F \in [Tokens -> T]
  BY ONLY <1>1, <1>2
<1>4. <<a>> \in Seq(Tokens) /\ <<a>> \o s \in Seq(Tokens)
  <2>1. PICK u : u = <<a>>
    OBVIOUS
  <2>2. u \in Seq(Tokens)
    BY ONLY <2>1, a \in Tokens, ShortLists
  <2>3. u \o s \in Seq(Tokens)
    BY ONLY <2>2, s \in Seq(Tokens)
  <2> QED
    BY ONLY <2>1, <2>2, <2>3
<1>5. ASSUME NEW l \in Seq(Tokens) PROVE PiecesOf(t, l) = Via(F, l)
  <2>1. \A k \in DOMAIN l : l[k] \in Tokens
    BY ONLY l \in Seq(Tokens), EntryOf
  <2> QED
    BY ONLY <1>1, <2>1 DEF PiecesOf, Via
<1>6. PICK u : u = <<a>>
  OBVIOUS
<1>7. Via(F, u \o s) = Via(F, u) \o Via(F, s)
  <2>1. ViaBoth(F, u, s)
    BY ONLY <1>3, <1>4, <1>6, s \in Seq(Tokens), ViaConcat
  <2> QED
    BY ONLY <2>1 DEF ViaBoth
<1>8. Via(F, u) = <<<<a.kind, Upto(t, a.from, a.end)>>>>
  <2>1. F[a] = <<a.kind, Upto(t, a.from, a.end)>>
    BY ONLY <1>1, a \in Tokens
  <2>2. Via(F, <<a>>) = <<F[a]>>
    BY ONLY TRUE DEF Via
  <2> QED
    BY ONLY <1>6, <2>1, <2>2
<1> QED
  BY ONLY <1>4, <1>5, <1>6, <1>7, <1>8, s \in Seq(Tokens)

LEMMA FoundType ==
    ASSUME NEW D, NEW t \in Seq(D), NEW i \in 1 .. Len(t)
    PROVE  FoundAt(t, i) \in Seq(PieceSet(D))
<1>1. PICK e, u : e = NextAt(t, i) /\ u = Upto(t, i, e)
  OBVIOUS
<1>2. e \in i + 1 .. Len(t) + 1
  BY <1>1, NextIn
<1>3. i \in 1 .. Len(t) + 1 /\ e \in i .. Len(t) + 1
  BY <1>2
<1>4. PieceOf(u, t, i, e, D)
  BY <1>1, <1>3, PieceIs
<1>5. u \in Seq(D)
  BY ONLY <1>4 DEF PieceOf
<1>6. CASE KindAt(t, i) = "plain"
  BY <1>6 DEF FoundAt
<1>7. CASE KindAt(t, i) # "plain"
  <2>1. PICK k : k = KindAt(t, i)
    OBVIOUS
  <2>2. k \in Colours
    BY ONLY <1>7, <2>1, KindIn
  <2>3. <<k, u>> \in PieceSet(D)
    BY ONLY <1>5, <2>2 DEF PieceSet
  <2>4. PICK x : x = <<k, u>>
    OBVIOUS
  <2>5. <<x>> \in Seq(PieceSet(D))
    BY ONLY <2>3, <2>4, ShortLists
  <2> QED
    BY ONLY <1>1, <1>7, <2>1, <2>4, <2>5 DEF FoundAt
<1> QED
  BY ONLY <1>6, <1>7

(* The pieces of a text are those of its steps.                            *)
LEMMA PiecesWalk ==
    ASSUME NEW D, NEW t \in Seq(D), NEW f, HeadsFrom(f, t)
    PROVE  PiecesFrom([i \in 1 .. Len(t) + 1 |-> PiecesOf(t, f[i])], t, D)
<1>1. PICK n, w : n = Len(t) /\ w = [i \in 1 .. n + 1 |-> PiecesOf(t, f[i])]
  OBVIOUS
<1>n. n \in Nat
  BY <1>1
<1>2. /\ f \in [1 .. n + 1 -> Seq(Tokens)] /\ f[n + 1] = <<>>
      /\ \A i \in 1 .. n : f[i] = HeadAt(t, i) \o f[NextAt(t, i)]
      /\ \A i \in 1 .. n + 1 : Sequent(f[i], i, n)
  BY <1>1 DEF HeadsFrom
<1>3. ASSUME NEW i \in 1 .. n + 1 PROVE PiecesOf(t, f[i]) \in Seq(PieceSet(D))
  <2>1. PICK l, m : l = f[i] /\ m = Len(l)
    OBVIOUS
  <2>2. /\ l \in Seq(Tokens)
        /\ \A k \in 1 .. m : i <= l[k].from /\ l[k].from < l[k].end /\ l[k].end <= n + 1
    BY ONLY <1>2, <2>1, i \in 1 .. n + 1 DEF Sequent
  <2>3. m \in Nat /\ DOMAIN l = 1 .. m /\ \A k \in 1 .. m : l[k] \in Tokens
    BY ONLY <2>1, <2>2
  <2>4. ASSUME NEW k \in 1 .. m PROVE <<l[k].kind, Upto(t, l[k].from, l[k].end)>> \in PieceSet(D)
    <3>1. PICK a, b : a = l[k].from /\ b = l[k].end
      OBVIOUS
    <3>2. a \in Nat /\ b \in Nat /\ l[k].kind \in Colours
      BY ONLY <2>3, <3>1, k \in 1 .. m DEF Tokens
    <3>3. i <= a /\ a < b /\ b <= n + 1
      BY ONLY <2>2, <3>1, k \in 1 .. m
    <3>4. a \in 1 .. n + 1 /\ b \in a .. n + 1
      BY ONLY <1>n, <3>2, <3>3, i \in 1 .. n + 1
    <3>5. PICK u : u = Upto(t, a, b)
      OBVIOUS
    <3>6. PieceOf(u, t, a, b, D)
      BY ONLY <1>1, <3>4, <3>5, t \in Seq(D), PieceIs
    <3>7. u \in Seq(D)
      BY ONLY <3>6 DEF PieceOf
    <3> QED
      BY ONLY <3>1, <3>2, <3>5, <3>7 DEF PieceSet
  <2>5. PICK v : v = PiecesOf(t, l)
    OBVIOUS
  <2>6. v = [k \in 1 .. m |-> <<l[k].kind, Upto(t, l[k].from, l[k].end)>>]
    BY ONLY <2>3, <2>5 DEF PiecesOf
  <2>7. PICK P : P = PieceSet(D)
    OBVIOUS
  <2>8. v \in [1 .. m -> P]
    BY ONLY <2>4, <2>6, <2>7
  <2>9. v \in Seq(P)
    BY ONLY <2>3, <2>8
  <2> QED
    BY ONLY <2>1, <2>5, <2>7, <2>9
<1>4. w \in [1 .. n + 1 -> Seq(PieceSet(D))]
  BY ONLY <1>1, <1>3
<1>5. w[n + 1] = <<>>
  <2>1. n + 1 \in 1 .. n + 1
    BY ONLY <1>n
  <2>2. PiecesOf(t, <<>>) = <<>>
    BY ONLY TRUE DEF PiecesOf
  <2> QED
    BY ONLY <1>1, <1>2, <2>1, <2>2
<1>6. ASSUME NEW i \in 1 .. n PROVE w[i] = FoundAt(t, i) \o w[NextAt(t, i)]
  <2>1. PICK e, k : e = NextAt(t, i) /\ k = KindAt(t, i)
    OBVIOUS
  <2>2. e \in i + 1 .. n + 1
    BY ONLY <1>1, <2>1, i \in 1 .. n, t \in Seq(D), NextIn
  <2>3. e \in 1 .. n + 1 /\ e \in Nat /\ i \in Nat /\ i \in 1 .. n + 1
    BY ONLY <1>n, <2>2, i \in 1 .. n
  <2>4. w[i] = PiecesOf(t, f[i]) /\ w[e] = PiecesOf(t, f[e]) /\ f[e] \in Seq(Tokens) /\ w[e] \in Seq(PieceSet(D))
    BY ONLY <1>1, <1>2, <1>4, <2>3
  <2>5. f[i] = HeadAt(t, i) \o f[e]
    BY ONLY <1>2, <2>1, i \in 1 .. n
  <2>6. CASE k = "plain"
    <3>1. HeadAt(t, i) = <<>> /\ FoundAt(t, i) = <<>>
      BY ONLY <2>1, <2>6 DEF HeadAt, FoundAt
    <3>2. <<>> \o f[e] = f[e] /\ <<>> \o w[e] = w[e]
      BY ONLY <2>4, ConcatEmptySeq
    <3> QED
      BY ONLY <2>1, <2>4, <2>5, <3>1, <3>2
  <2>7. CASE k # "plain"
    <3>1. k \in Colours
      BY ONLY <2>1, <2>7, KindIn
    <3>2. PICK a : a = [from |-> i, end |-> e, kind |-> k]
      OBVIOUS
    <3>3. a \in Tokens /\ a.from = i /\ a.end = e /\ a.kind = k
      BY ONLY <2>3, <3>1, <3>2 DEF Tokens
    <3>4. HeadAt(t, i) = <<a>> /\ FoundAt(t, i) = <<<<k, Upto(t, i, e)>>>>
      BY ONLY <2>1, <2>7, <3>2 DEF HeadAt, FoundAt, Token
    <3>5. PICK s : s = f[e]
      OBVIOUS
    <3>6. PiecesOf(t, <<a>> \o s) = <<<<a.kind, Upto(t, a.from, a.end)>>>> \o PiecesOf(t, s)
      BY ONLY <2>4, <3>3, <3>5, PiecesCons
    <3> QED
      BY ONLY <2>1, <2>4, <2>5, <3>3, <3>4, <3>5, <3>6
  <2> QED
    BY ONLY <2>6, <2>7
<1>7. \A i \in 1 .. n : FoundAt(t, i) \in Seq(PieceSet(D))
  BY ONLY <1>1, t \in Seq(D), FoundType
<1> QED
  BY ONLY <1>1, <1>4, <1>5, <1>6, <1>7 DEF PiecesFrom


(* The tokens of f from i on end in the first m characters.                *)
EndsBy(f, i, m) == \A k \in 1 .. Len(f[i]) : f[i][k].end <= m + 1

LEMMA HeadEnds ==
    ASSUME NEW D, NEW s \in Seq(D), NEW t \in Seq(D), NEW d, NEW m, Looks(s, t, d, m),
           NEW f, HeadsFrom(f, s), NEW i \in 1 .. m, EndsBy(f, i, m)
    PROVE  NextAt(s, i) \in i + 1 .. m + 1 /\ EndsBy(f, NextAt(s, i), m)
<1>1. PICK n, e, k : n = Len(s) /\ e = NextAt(s, i) /\ k = KindAt(s, i)
  OBVIOUS
<1>2. d \in Nat /\ m \in Nat /\ m <= Len(s) /\ Len(s) \in Nat
  BY WindowIs
<1>n. n \in Nat /\ m \in Nat /\ m <= n /\ i \in 1 .. m /\ i \in 1 .. n /\ i \in Nat
  BY ONLY <1>1, <1>2, i \in 1 .. m
<1>3. e \in i + 1 .. n + 1
  BY ONLY <1>1, <1>n, s \in Seq(D), NextIn
<1>4. /\ f \in [1 .. n + 1 -> Seq(Tokens)]
      /\ \A j \in 1 .. n : f[j] = HeadAt(s, j) \o f[NextAt(s, j)]
  BY <1>1 DEF HeadsFrom
<1>5. e \in 1 .. n + 1 /\ e \in Nat
  BY ONLY <1>n, <1>3
<1>6. PICK r : r = f[e]
  OBVIOUS
<1>7. r \in Seq(Tokens) /\ f[i] = HeadAt(s, i) \o r
  BY ONLY <1>1, <1>4, <1>5, <1>6, <1>n
<1>8. CASE k = "plain"
  <2>1. HeadAt(s, i) = <<>>
    BY ONLY <1>1, <1>8 DEF HeadAt
  <2>2. f[i] = r
    BY ONLY <1>7, <2>1, ConcatEmptySeq
  <2>3. EndsBy(f, e, m)
    BY ONLY <1>6, <2>2, EndsBy(f, i, m) DEF EndsBy
  <2>4. e \in {WordEnd(s, i), i + 1}
    BY ONLY <1>1, <1>8, KindIn
  <2>5. WordEnd(s, i) \in i .. m + 1
    <3>1. \A x \in WordChars : x \notin Edges
      BY SignsInside
    <3>2. i \in 1 .. m + 1
      BY ONLY <1>n
    <3> QED
      BY <3>1, <3>2, RunAlike DEF WordEnd
  <2>6. PICK a : a = WordEnd(s, i)
    OBVIOUS
  <2>7. e \in i + 1 .. m + 1
    <3>1. e = a \/ e = i + 1
      BY ONLY <2>4, <2>6
    <3>2. a \in i .. m + 1
      BY ONLY <2>5, <2>6
    <3> QED
      BY ONLY <1>n, <1>3, <3>1, <3>2
  <2> QED
    BY ONLY <1>1, <2>3, <2>7
<1>9. CASE k # "plain"
  <2>1. k \in Colours
    BY ONLY <1>1, <1>9, KindIn
  <2>2. PICK a : a = [from |-> i, end |-> e, kind |-> k]
    OBVIOUS
  <2>3. a \in Tokens /\ a.end = e
    BY ONLY <1>5, <1>n, <2>1, <2>2 DEF Tokens
  <2>4. HeadAt(s, i) = <<a>>
    BY ONLY <1>1, <1>9, <2>2 DEF HeadAt, Token
  <2>5. f[i] = <<a>> \o r
    BY ONLY <1>7, <2>4
  <2>6. /\ Len(<<a>> \o r) = Len(r) + 1 /\ Len(r) \in Nat /\ (<<a>> \o r)[1] = a
        /\ \A j \in 1 .. Len(r) : (<<a>> \o r)[j + 1] = r[j]
    BY ONLY <1>7, <2>3
  <2>7. \A j \in 1 .. Len(r) + 1 : f[i][j].end <= m + 1
    BY ONLY <2>5, <2>6, EndsBy(f, i, m) DEF EndsBy
  <2>8. e <= m + 1
    <3>1. 1 \in 1 .. Len(r) + 1
      BY ONLY <2>6
    <3>2. f[i][1] = a
      BY ONLY <2>5, <2>6
    <3> QED
      BY ONLY <2>3, <2>7, <3>1, <3>2
  <2>9. \A j \in 1 .. Len(r) : r[j].end <= m + 1
    <3> SUFFICES ASSUME NEW j \in 1 .. Len(r) PROVE r[j].end <= m + 1
      OBVIOUS
    <3>1. j + 1 \in 1 .. Len(r) + 1
      BY ONLY <2>6, j \in 1 .. Len(r)
    <3>2. f[i][j + 1] = r[j]
      BY ONLY <2>5, <2>6, j \in 1 .. Len(r)
    <3>3. f[i][j + 1].end <= m + 1
      BY ONLY <2>7, <3>1
    <3> QED
      BY ONLY <3>2, <3>3
  <2>10. EndsBy(f, e, m)
    BY ONLY <1>6, <2>9 DEF EndsBy
  <2>11. e \in i + 1 .. m + 1
    BY ONLY <1>n, <1>3, <2>8
  <2> QED
    BY ONLY <1>1, <2>10, <2>11
<1> QED
  BY ONLY <1>8, <1>9

(* x is what is found in s from i to before m + 1, and in t d further.     *)
ReadAlike(x, ws, wt, D, i, d, m) ==
    /\ x \in Seq(PieceSet(D))
    /\ ws[i] = x \o ws[m + 1] /\ wt[i + d] = x \o wt[m + 1 + d]

(* What is found in a window is found wherever it stands.                  *)
LEMMA WindowRead ==
    ASSUME NEW D, NEW s \in Seq(D), NEW t \in Seq(D), NEW d, NEW m, Alike(s, t, d, m),
           NEW f, HeadsFrom(f, s), NEW ws, PiecesFrom(ws, s, D), NEW wt, PiecesFrom(wt, t, D),
           NEW i \in 1 .. m + 1, EndsBy(f, i, m)
    PROVE  \E x : ReadAlike(x, ws, wt, D, i, d, m)
<1>0. Looks(s, t, d, m)
  BY AlikeLooks
<1>1. PICK n, l, C : n = Len(s) /\ l = Len(t) /\ C = PieceSet(D)
  OBVIOUS
<1>2. Len(s) \in Nat /\ Len(t) \in Nat /\ d \in Nat /\ m \in Nat /\ m <= Len(s) /\ m + d <= Len(t)
  BY <1>0, WindowIs
<1>n. n \in Nat /\ l \in Nat /\ d \in Nat /\ m \in Nat /\ m <= n /\ m + d <= l
  BY ONLY <1>1, <1>2
<1>3. /\ ws \in [1 .. n + 1 -> Seq(C)]
      /\ \A j \in 1 .. n : FoundAt(s, j) \in Seq(C) /\ ws[j] = FoundAt(s, j) \o ws[NextAt(s, j)]
  BY <1>1 DEF PiecesFrom
<1>4. /\ wt \in [1 .. l + 1 -> Seq(C)]
      /\ \A j \in 1 .. l : FoundAt(t, j) \in Seq(C) /\ wt[j] = FoundAt(t, j) \o wt[NextAt(t, j)]
  BY <1>1 DEF PiecesFrom
<1>5. PICK P : P = {k \in 1 .. m + 1 : \A j \in k .. m + 1 :
                        EndsBy(f, j, m) => \E x : ReadAlike(x, ws, wt, D, j, d, m)}
  OBVIOUS
<1>6. m + 1 \in P
  <2>1. m + 1 \in 1 .. n + 1 /\ m + 1 + d \in 1 .. l + 1
    BY ONLY <1>n
  <2>2. ws[m + 1] \in Seq(C) /\ wt[m + 1 + d] \in Seq(C)
    BY ONLY <1>3, <1>4, <2>1
  <2>3. <<>> \o ws[m + 1] = ws[m + 1] /\ <<>> \o wt[m + 1 + d] = wt[m + 1 + d] /\ <<>> \in Seq(C)
    BY ONLY <2>2, ConcatEmptySeq
  <2>4. ReadAlike(<<>>, ws, wt, D, m + 1, d, m)
    BY ONLY <1>1, <2>3 DEF ReadAlike
  <2>5. \A j \in m + 1 .. m + 1 : j = m + 1
    BY ONLY <1>n
  <2>6. m + 1 \in 1 .. m + 1
    BY ONLY <1>n
  <2> QED
    BY ONLY <1>5, <2>4, <2>5, <2>6
<1>7. ASSUME NEW k \in 1 .. m, k + 1 \in P PROVE k \in P
  <2>1. k \in 1 .. m + 1 /\ k \in 1 .. n /\ k + d \in 1 .. l /\ \A j \in k .. m + 1 : j = k \/ j \in k + 1 .. m + 1
    BY ONLY <1>n, k \in 1 .. m
  <2>2. \A j \in k + 1 .. m + 1 : EndsBy(f, j, m) => \E x : ReadAlike(x, ws, wt, D, j, d, m)
    BY ONLY <1>5, <1>7
  <2>3. ASSUME EndsBy(f, k, m) PROVE \E x : ReadAlike(x, ws, wt, D, k, d, m)
    <3>1. PICK e : e = NextAt(s, k)
      OBVIOUS
    <3>2. e \in k + 1 .. m + 1 /\ EndsBy(f, e, m)
      BY <1>0, <2>3, <3>1, HeadEnds
    <3>3. PICK x : ReadAlike(x, ws, wt, D, e, d, m)
      BY ONLY <2>2, <3>2
    <3>4. x \in Seq(C) /\ ws[e] = x \o ws[m + 1] /\ wt[e + d] = x \o wt[m + 1 + d]
      BY ONLY <1>1, <3>3 DEF ReadAlike
    <3>5. /\ NextAt(t, k + d) = NextAt(s, k) + d /\ KindAt(t, k + d) = KindAt(s, k)
          /\ Upto(t, k + d, NextAt(t, k + d)) = Upto(s, k, NextAt(s, k))
      <4>1. NextAt(s, k) <= m + 1
        BY ONLY <1>n, <3>1, <3>2, k \in 1 .. m
      <4> QED
        BY <4>1, StepAlike
    <3>6. FoundAt(t, k + d) = FoundAt(s, k)
      BY ONLY <3>5 DEF FoundAt
    <3>7. PICK h, a, b : h = FoundAt(s, k) /\ a = ws[m + 1] /\ b = wt[m + 1 + d]
      OBVIOUS
    <3>8. ws[k] = h \o (x \o a) /\ wt[k + d] = h \o (x \o b) /\ h \in Seq(C)
      BY ONLY <1>3, <1>4, <2>1, <3>1, <3>4, <3>5, <3>6, <3>7
    <3>9. a \in Seq(C) /\ b \in Seq(C)
      <4>1. m + 1 \in 1 .. n + 1 /\ m + 1 + d \in 1 .. l + 1
        BY ONLY <1>n
      <4> QED
        BY ONLY <1>3, <1>4, <3>7, <4>1
    <3>10. Associates(h, x, a) /\ Associates(h, x, b)
      BY ONLY <3>4, <3>8, <3>9, Regroup
    <3>11. h \o x \in Seq(C)
      BY ONLY <3>4, <3>8
    <3>12. ReadAlike(h \o x, ws, wt, D, k, d, m)
      <4>1. ws[k] = (h \o x) \o a /\ wt[k + d] = (h \o x) \o b
        BY ONLY <3>8, <3>10 DEF Associates
      <4> QED
        BY ONLY <1>1, <3>7, <3>11, <4>1 DEF ReadAlike
    <3> QED
      BY ONLY <3>12
  <2>4. \A j \in k .. m + 1 : EndsBy(f, j, m) => \E x : ReadAlike(x, ws, wt, D, j, d, m)
    BY ONLY <2>1, <2>2, <2>3
  <2> QED
    BY ONLY <1>5, <2>1, <2>4
<1>8. \A k \in 1 .. m + 1 : k \in P
  BY ONLY <1>n, <1>6, <1>7, Downward
<1>9. i \in i .. m + 1
  BY ONLY <1>n, i \in 1 .. m + 1
<1> QED
  BY ONLY <1>5, <1>8, <1>9, i \in 1 .. m + 1, EndsBy(f, i, m)


(* At a separator nothing is found, and the walk goes on behind it.        *)
LEMMA EdgePlain ==
    ASSUME NEW t, NEW i, t[i] \in Edges
    PROVE  KindAt(t, i) = "plain" /\ NextAt(t, i) = i + 1 /\ FoundAt(t, i) = <<>>
<1>1. /\ \A x \in {"-", "/", "*", "'", "\"", "backtick", "backslash", "$", ":", ".", "+", "e"} : x \notin Edges
      /\ \A x \in WordChars : x \notin Edges
  BY SignsInside
<1>2. ~ OpensLine(t, i) /\ ~ OpensBlock(t, i) /\ ~ OpensTick(t, i) /\ ~ OpensDollar(t, i)
  <2>1. "-" \notin Edges /\ "/" \notin Edges /\ "backtick" \notin Edges /\ "$" \notin Edges
    BY ONLY <1>1, Zenon
  <2> QED
    BY ONLY <2>1, t[i] \in Edges DEF OpensLine, OpensBlock, OpensTick, OpensDollar
<1>3. ~ OpensQuote(t, i)
  BY ONLY QuotesInside, t[i] \in Edges
<1>4. SkipFrom(t, i) = i
  BY ONLY <1>2, <1>3, SkipIs DEF OpensNone
<1>5. ~ NumberAt(t, i) /\ t[i] \notin Letters /\ ~ ParamAt(t, i)
  <2>1. "." \notin Edges /\ ":" \notin Edges
    BY ONLY <1>1, Zenon
  <2> QED
    BY ONLY <1>1, <2>1, t[i] \in Edges DEF NumberAt, ParamAt, WordChars
<1>6. KindAt(t, i) = "plain" /\ NextAt(t, i) = i + 1
  BY ONLY <1>4, <1>5 DEF KindAt, NextAt
<1> QED
  BY ONLY <1>6 DEF FoundAt

(* A value that is whole: with a blank behind it, it has the same tokens.  *)
WholeValue(v, D) == v \in Seq(D) /\ " " \in D /\ Tokenize(v \o <<" ">>) = Tokenize(v)

(* v stands in t after its first d characters, apart from the rest.        *)
StandsIn(v, t, d) ==
    /\ d \in Nat /\ Len(v) + d <= Len(t)
    /\ \A k \in 1 .. Len(v) : v[k] = t[k + d]
    /\ At(t, d) \in Edges /\ At(t, Len(v) + 1 + d) \in Edges

(* A whole value is read in such a place as on its own.                    *)
LEMMA ValueRead ==
    ASSUME NEW D, NEW v, WholeValue(v, D), NEW t \in Seq(D), NEW d, StandsIn(v, t, d),
           NEW wt, PiecesFrom(wt, t, D)
    PROVE  /\ Pieces(v) \in Seq(PieceSet(D))
           /\ wt[1 + d] = Pieces(v) \o wt[Len(v) + 1 + d]
<1>1. PICK m, u, b : m = Len(v) /\ b = <<" ">> /\ u = v \o b
  OBVIOUS
<1>2. v \in Seq(D) /\ b \in Seq(D) /\ Len(b) = 1 /\ b[1] = " " /\ Tokenize(u) = Tokenize(v)
  <2>1. v \in Seq(D) /\ Tokenize(u) = Tokenize(v)
    BY <1>1 DEF WholeValue
  <2>2. PICK x : x = " "
    OBVIOUS
  <2>3. x \in D
    BY ONLY <2>2, WholeValue(v, D) DEF WholeValue
  <2>4. <<x>> \in Seq(D) /\ Len(<<x>>) = 1 /\ <<x>>[1] = x
    BY ONLY <2>3
  <2> QED
    BY ONLY <1>1, <2>1, <2>2, <2>4
<1>3. Concat(u, v, b, D)
  BY ONLY <1>1, <1>2, ConcatIs
<1>4. /\ u \in Seq(D) /\ m \in Nat /\ Len(u) = m + 1
      /\ \A k \in 1 .. m : u[k] = v[k]
      /\ u[m + 1] = " "
  <2>1. 1 \in 1 .. 1
    OBVIOUS
  <2> QED
    BY ONLY <1>1, <1>2, <1>3, <2>1 DEF Concat
<1>5. PICK l : l = Len(t) /\ l \in Nat
  <2>1. Len(t) \in Nat
    OBVIOUS
  <2> QED
    BY ONLY <2>1
<1>6. /\ d \in Nat /\ m + d <= l /\ \A k \in 1 .. m : v[k] = t[k + d]
      /\ At(t, d) \in Edges /\ At(t, m + 1 + d) \in Edges
  BY ONLY <1>1, <1>5, StandsIn(v, t, d) DEF StandsIn
<1>n. m \in Nat /\ l \in Nat /\ d \in Nat /\ m + d <= l /\ Len(u) = m + 1 /\ Len(v) = m /\ Len(t) = l
  BY ONLY <1>1, <1>4, <1>5, <1>6
<1>7. At(u, m + 1) \in Edges /\ At(u, m + 1) # "\n" /\ u[m + 1] \in Edges
  <2>1. m + 1 \in 1 .. Len(u)
    BY ONLY <1>n
  <2>2. At(u, m + 1) = " "
    BY ONLY <1>4, <2>1 DEF At
  <2>3. " " \in Edges /\ " " # "\n"
    BY ONLY Zenon DEF Separators, Edges, Whitespace
  <2> QED
    BY ONLY <1>4, <2>2, <2>3
<1>8. \A r, c : r \in Seq(D) /\ c \in Nat /\ m + c <= Len(r) /\ (\A k \in 1 .. m : v[k] = r[k + c])
                /\ At(r, c) \in Edges /\ At(r, m + 1 + c) \in Edges => Alike(u, r, c, m)
  <2> SUFFICES ASSUME NEW r, NEW c, r \in Seq(D), c \in Nat, m + c <= Len(r), \A k \in 1 .. m : v[k] = r[k + c],
                      At(r, c) \in Edges, At(r, m + 1 + c) \in Edges
               PROVE  Alike(u, r, c, m)
    OBVIOUS
  <2>1. m \in 0 .. Len(u)
    BY ONLY <1>n
  <2>2. \A k \in 1 .. m : u[k] = r[k + c]
    BY ONLY <1>4, \A k \in 1 .. m : v[k] = r[k + c]
  <2>3. At(r, c) # ":"
    <3>1. ":" \notin Edges
      BY SignsInside
    <3> QED
      BY ONLY <3>1, At(r, c) \in Edges
  <2>4. m < Len(u)
    BY ONLY <1>n
  <2> QED
    BY ONLY <1>7, <2>1, <2>2, <2>3, <2>4, c \in Nat, m + c <= Len(r), At(r, m + 1 + c) \in Edges DEF Alike
<1>9. Alike(u, t, d, m)
  BY ONLY <1>5, <1>6, <1>8, t \in Seq(D)
<1>10. Alike(u, v, 0, m)
  <2>1. \A k \in 1 .. m : v[k] = v[k + 0]
    BY ONLY <1>n
  <2>2. 0 \notin 1 .. Len(v) /\ m + 1 + 0 \notin 1 .. Len(v)
    BY ONLY <1>n
  <2>3. At(v, 0) \in Edges /\ At(v, m + 1 + 0) \in Edges
    BY ONLY <1>2, <2>2, AtIs
  <2>4. 0 \in Nat /\ m + 0 <= Len(v)
    BY ONLY <1>n
  <2> QED
    BY ONLY <1>2, <1>8, <2>1, <2>3, <2>4
<1>11. PICK f : HeadsFrom(f, u) /\ Tokenize(u) = f[1]
  BY ONLY <1>4, HeadsWalk
<1>12. PICK wu : wu = [i \in 1 .. Len(u) + 1 |-> PiecesOf(u, f[i])]
  OBVIOUS
<1>13. PiecesFrom(wu, u, D)
  BY ONLY <1>4, <1>11, <1>12, PiecesWalk
<1>14. PICK list, z : list = f[1] /\ z = Len(list)
  OBVIOUS
<1>15. /\ list \in Seq(Tokens) /\ z \in Nat
       /\ \A k \in 1 .. z : 1 <= list[k].from /\ list[k].from < list[k].end /\ list[k].end <= m + 1
  <2>1. Sequent(list, 1, m)
    BY ONLY <1>1, <1>2, <1>11, <1>14, TokensSequent
  <2>2. list \in Seq(Tokens) => z \in Nat
    BY ONLY <1>14
  <2> QED
    BY ONLY <1>14, <2>1, <2>2 DEF Sequent
<1>16. EndsBy(f, 1, m)
  BY ONLY <1>14, <1>15 DEF EndsBy
<1>17. PICK x : ReadAlike(x, wu, wt, D, 1, d, m)
  <2>1. 1 \in 1 .. m + 1
    BY ONLY <1>n
  <2> QED
    BY ONLY <1>4, <1>9, <1>11, <1>13, <1>16, <2>1, t \in Seq(D), PiecesFrom(wt, t, D), WindowRead
<1>18. x \in Seq(PieceSet(D)) /\ wu[1] = x \o wu[m + 1] /\ wt[1 + d] = x \o wt[m + 1 + d]
  BY ONLY <1>17 DEF ReadAlike
<1>19. wu[m + 1] = <<>>
  <2>1. m + 1 \in 1 .. Len(u) /\ (m + 1) + 1 = Len(u) + 1
    BY ONLY <1>n
  <2>2. NextAt(u, m + 1) = Len(u) + 1 /\ FoundAt(u, m + 1) = <<>>
    BY ONLY <1>7, <2>1, EdgePlain
  <2>3. wu[m + 1] = FoundAt(u, m + 1) \o wu[NextAt(u, m + 1)] /\ wu[Len(u) + 1] = <<>>
    BY ONLY <1>13, <2>1 DEF PiecesFrom
  <2> QED
    BY ONLY <2>2, <2>3
<1>20. wu[1] = x
  BY ONLY <1>18, <1>19, ConcatEmptySeq
<1>21. wu[1] = PiecesOf(u, list)
  <2>1. 1 \in 1 .. Len(u) + 1
    BY ONLY <1>n
  <2> QED
    BY ONLY <1>12, <1>14, <2>1
<1>22. ASSUME NEW k \in DOMAIN list PROVE Upto(v, list[k].from, list[k].end) = Upto(u, list[k].from, list[k].end)
  <2>1. k \in 1 .. z
    BY ONLY <1>14, <1>15, k \in DOMAIN list
  <2>2. PICK a, e : a = list[k].from /\ e = list[k].end
    OBVIOUS
  <2>3. list[k] \in Tokens
    BY ONLY <1>14, <1>15, <2>1
  <2>4. a \in Nat /\ e \in Nat
    BY ONLY <2>2, <2>3 DEF Tokens
  <2>5. 1 <= a /\ a < e /\ e <= m + 1
    BY ONLY <1>15, <2>1, <2>2
  <2>6. a \in 1 .. m + 1 /\ e \in a .. m + 1 /\ a + 0 = a /\ e + 0 = e
    BY ONLY <1>n, <2>4, <2>5
  <2>7. PICK c : c = 0
    OBVIOUS
  <2>8. Looks(u, v, c, m)
    BY ONLY <1>2, <1>4, <1>10, <2>7, AlikeLooks
  <2>9. a \in 1 .. m + 1 /\ e \in a .. m + 1
    BY ONLY <2>6
  <2>10. Upto(v, a + c, e + c) = Upto(u, a, e)
    <3>1. u \in Seq(D) /\ v \in Seq(D)
      BY ONLY <1>2, <1>4, Zenon
    <3> QED
      BY ONLY <2>8, <2>9, <3>1, CutAlike
  <2>11. a + c = a /\ e + c = e
    BY ONLY <2>6, <2>7
  <2> QED
    BY ONLY <2>2, <2>10, <2>11
<1>23. Pieces(v) = PiecesOf(u, list)
  <2>1. Pieces(v) = PiecesOf(v, list)
    BY ONLY <1>2, <1>11, <1>14 DEF Pieces, PiecesOf
  <2>2. PiecesOf(v, list) = PiecesOf(u, list)
    BY ONLY <1>22 DEF PiecesOf
  <2> QED
    BY ONLY <2>1, <2>2
<1> QED
  BY ONLY <1>1, <1>18, <1>20, <1>21, <1>23


(***************************************************************************)
(* The parameters are replaced from the last to the first                  *)
(***************************************************************************)

FilledIn(t, list, v) == FoldLeft(LAMBDA acc, p : Replaced(acc, p, v), t, list)
ReplaceOp(v, D)         == [z \in Seq(D) \X (Nat \X Nat) |-> Replaced(z[1], z[2], v)]

(* f has the text for each set of the first k places.                      *)
Redo(f, t, list, v, T)  == IF T = {} THEN t ELSE Replaced(f[T \ {Max(T)}], list[Max(T)], v)
Redone(f, t, list, v, k) == f = [T \in SUBSET (1 .. k) |-> Redo(f, t, list, v, T)]

LEMMA RedoneOnce ==
    ASSUME NEW t, NEW list, NEW v, NEW n \in Nat
    PROVE  \E f : Redone(f, t, list, v, n)
<1>1. PICK P : P = {k \in 0 .. n : \E f : Redone(f, t, list, v, k)}
  OBVIOUS
<1>2. 0 \in P
  <2>1. PICK f : f = [T \in SUBSET (1 .. 0) |-> t]
    OBVIOUS
  <2>2. \A T \in SUBSET (1 .. 0) : T = {}
    OBVIOUS
  <2>3. \A T \in SUBSET (1 .. 0) : Redo(f, t, list, v, T) = t
    BY ONLY <2>2 DEF Redo
  <2>4. Redone(f, t, list, v, 0)
    BY ONLY <2>1, <2>3 DEF Redone
  <2>5. 0 \in 0 .. n
    BY ONLY n \in Nat
  <2> QED
    BY ONLY <1>1, <2>4, <2>5
<1>3. ASSUME NEW k \in 0 .. n - 1, k \in P PROVE k + 1 \in P
  <2>1. PICK g : Redone(g, t, list, v, k)
    BY ONLY <1>1, <1>3
  <2>2. PICK m : m = k + 1
    OBVIOUS
  <2>3. m \in 0 .. n /\ m \in Nat /\ k \in Nat /\ m \notin 1 .. k /\ \A x \in 1 .. m : x = m \/ x \in 1 .. k
    BY ONLY <2>2, n \in Nat, k \in 0 .. n - 1
  <2>s. 1 .. k \subseteq 1 .. m
    BY ONLY <2>2, <2>3
  <2>4. PICK f : f = [T \in SUBSET (1 .. m) |-> IF m \in T THEN Replaced(g[T \ {m}], list[m], v) ELSE g[T]]
    OBVIOUS
  <2>5. \A T \in SUBSET (1 .. k) : f[T] = g[T] /\ g[T] = Redo(g, t, list, v, T)
    <3>1. \A T \in SUBSET (1 .. k) : g[T] = Redo(g, t, list, v, T)
      BY ONLY <2>1 DEF Redone
    <3>2. \A T \in SUBSET (1 .. k) : T \in SUBSET (1 .. m) /\ m \notin T
      BY ONLY <2>3, <2>s
    <3> QED
      BY ONLY <2>4, <3>1, <3>2
  <2>6. ASSUME NEW T \in SUBSET (1 .. m) PROVE f[T] = Redo(f, t, list, v, T)
    <3>1. CASE m \in T
      <4>1. T \subseteq 1 .. m /\ T # {} /\ T \ {m} \in SUBSET (1 .. k)
        BY ONLY <2>3, <3>1, T \in SUBSET (1 .. m)
      <4>2. PICK g0 : g0 = Max(T)
        OBVIOUS
      <4>3. g0 \in T /\ m <= g0
        BY ONLY <2>3, <3>1, <4>1, <4>2, Greatest
      <4>4. g0 = m
        <5>1. g0 \in 1 .. m
          BY ONLY <4>1, <4>3
        <5> QED
          BY ONLY <2>3, <4>3, <5>1
      <4>5. f[T] = Replaced(g[T \ {m}], list[m], v)
        BY ONLY <2>4, <3>1, T \in SUBSET (1 .. m)
      <4>6. f[T \ {m}] = g[T \ {m}]
        BY ONLY <2>5, <4>1
      <4> QED
        BY ONLY <4>1, <4>2, <4>4, <4>5, <4>6 DEF Redo
    <3>2. CASE m \notin T
      <4>1. T \in SUBSET (1 .. k) /\ T \ {Max(T)} \in SUBSET (1 .. k)
        BY ONLY <2>3, <3>2, T \in SUBSET (1 .. m)
      <4>2. f[T] = g[T] /\ g[T] = Redo(g, t, list, v, T) /\ f[T \ {Max(T)}] = g[T \ {Max(T)}]
        BY ONLY <2>5, <4>1
      <4> QED
        BY ONLY <4>2 DEF Redo
    <3> QED
      BY ONLY <3>1, <3>2
  <2>7. f = [T \in SUBSET (1 .. m) |-> Redo(f, t, list, v, T)]
    BY ONLY <2>4, <2>6
  <2>8. Redone(f, t, list, v, m)
    BY ONLY <2>7 DEF Redone
  <2> QED
    BY ONLY <1>1, <2>2, <2>3, <2>8
<1>4. \A k \in 0 .. n : k \in P
  BY ONLY <1>2, <1>3, n \in Nat, Upward
<1>5. n \in 0 .. n
  BY ONLY n \in Nat
<1> QED
  BY ONLY <1>1, <1>4, <1>5

(* It gives what the replacements lead to, one after the other.            *)
LEMMA FilledInIs ==
    ASSUME NEW D, NEW t, NEW v, NEW list \in Seq(Nat \X Nat), NEW b,
           Leads(ReplaceOp(v, D), t, list, b, Seq(D))
    PROVE  FilledIn(t, list, v) = b
<1> DEFINE F == CHOOSE g : g = [T \in SUBSET DOMAIN list |-> Redo(g, t, list, v, T)]
<1>1. FilledIn(t, list, v) = F[DOMAIN list]
  BY Zenon DEF FilledIn, FoldLeft, MapThenFoldSet, Redo
<1>2. PICK n : n = Len(list) /\ n \in Nat /\ DOMAIN list = 1 .. n
  OBVIOUS
<1>3. \E g : g = [T \in SUBSET DOMAIN list |-> Redo(g, t, list, v, T)]
  <2>1. \E g : Redone(g, t, list, v, n)
    BY ONLY <1>2, RedoneOnce
  <2> QED
    BY ONLY <1>2, <2>1 DEF Redone
<1>4. F = [T \in SUBSET DOMAIN list |-> Redo(F, t, list, v, T)]
  BY ONLY <1>3
<1>5. PICK f : f = F
  OBVIOUS
<1>6. Redone(f, t, list, v, n)
  <2> HIDE DEF F
  <2>1. F = [T \in SUBSET (1 .. n) |-> Redo(F, t, list, v, T)]
    BY ONLY <1>2, <1>4
  <2> QED
    BY ONLY <1>5, <2>1 DEF Redone
<1> HIDE DEF F
<1>7. PICK h, op : Steps(h, op, t, list, b, Seq(D)) /\ op = ReplaceOp(v, D)
  BY ONLY Leads(ReplaceOp(v, D), t, list, b, Seq(D)) DEF Leads
<1>8. h \in [0 .. n -> Seq(D)] /\ h[0] = t /\ h[n] = b /\ \A k \in 1 .. n : h[k] = op[<<h[k - 1], list[k]>>]
  BY ONLY <1>2, <1>7 DEF Steps, Folded
<1>9. ASSUME NEW k \in 1 .. n PROVE h[k] = Replaced(h[k - 1], list[k], v)
  <2>1. k - 1 \in 0 .. n
    BY ONLY <1>2, k \in 1 .. n
  <2>2. h[k - 1] \in Seq(D)
    BY ONLY <1>8, <2>1
  <2>3. list[k] \in Nat \X Nat
    BY ONLY <1>2, list \in Seq(Nat \X Nat), k \in 1 .. n
  <2>4. PICK x, y : x = h[k - 1] /\ y = list[k]
    OBVIOUS
  <2>5. <<x, y>> \in Seq(D) \X (Nat \X Nat)
    BY ONLY <2>2, <2>3, <2>4
  <2>6. op[<<x, y>>] = Replaced(x, y, v)
    BY ONLY <1>7, <2>5 DEF ReplaceOp
  <2> QED
    BY ONLY <1>8, <2>4, <2>6, k \in 1 .. n
<1>10. PICK P : P = {k \in 0 .. n : f[1 .. k] = h[k]}
  OBVIOUS
<1>11. \A T \in SUBSET (1 .. n) : f[T] = Redo(f, t, list, v, T)
  BY ONLY <1>6 DEF Redone
<1>12. 0 \in P
  <2>1. 1 .. 0 = {} /\ {} \in SUBSET (1 .. n) /\ 0 \in 0 .. n
    BY ONLY <1>2
  <2>2. f[{}] = t
    BY ONLY <1>11, <2>1 DEF Redo
  <2> QED
    BY ONLY <1>8, <1>10, <2>1, <2>2
<1>13. ASSUME NEW k \in 0 .. n - 1, k \in P PROVE k + 1 \in P
  <2>1. PICK m, T : m = k + 1 /\ T = 1 .. m
    OBVIOUS
  <2>2. m \in 1 .. n /\ m \in 0 .. n /\ m \in Nat /\ m # 0 /\ m - 1 = k
    BY ONLY <1>2, <2>1, k \in 0 .. n - 1
  <2>3. T \in SUBSET (1 .. n)
    BY ONLY <1>2, <2>1, <2>2
  <2>4. Max(1 .. m) = m /\ (1 .. m) \ {m} = 1 .. m - 1 /\ 1 .. m # {}
    BY ONLY <2>2, UpToMax
  <2>5. PICK g0 : g0 = Max(T)
    OBVIOUS
  <2>6. g0 = m /\ T \ {m} = 1 .. k /\ T # {}
    BY ONLY <2>1, <2>2, <2>4, <2>5
  <2>7. f[T] = Replaced(f[T \ {g0}], list[g0], v)
    BY ONLY <1>11, <2>3, <2>5, <2>6 DEF Redo
  <2>8. f[1 .. k] = h[k]
    BY ONLY <1>10, <1>13
  <2>9. h[m] = Replaced(h[k], list[m], v)
    BY ONLY <1>9, <2>2
  <2> QED
    BY ONLY <1>10, <2>1, <2>2, <2>6, <2>7, <2>8, <2>9
<1>14. \A k \in 0 .. n : k \in P
  BY ONLY <1>2, <1>12, <1>13, Upward
<1>15. n \in 0 .. n
  BY ONLY <1>2
<1>16. f[1 .. n] = h[n]
  BY ONLY <1>10, <1>14, <1>15
<1> QED
  BY ONLY <1>1, <1>2, <1>5, <1>8, <1>16

(* The reverse of a list that begins with x ends with x.                   *)
LEMMA ReverseCons ==
    ASSUME NEW S, NEW x \in S, NEW s \in Seq(S)
    PROVE  /\ Reverse(<<x>> \o s) = Reverse(s) \o <<x>> /\ Reverse(s) \in Seq(S)
           /\ Reverse(<<>>) = <<>>
<1>1. PICK n, u, l, r, z : n = Len(s) /\ u = <<x>> /\ l = u \o s /\ r = Reverse(s) /\ z = r \o u
  OBVIOUS
<1>2. n \in Nat /\ u \in Seq(S) /\ Len(u) = 1 /\ u[1] = x /\ \A k \in 1 .. n : s[k] \in S
  BY ONLY <1>1, x \in S, s \in Seq(S)
<1>3. l \in Seq(S) /\ Len(l) = n + 1 /\ l[1] = x /\ \A k \in 1 .. n : l[1 + k] = s[k]
  <2>1. Concat(l, u, s, S)
    BY ONLY <1>1, <1>2, s \in Seq(S), ConcatIs
  <2>2. 1 + n = n + 1 /\ 1 \in 1 .. 1
    BY ONLY <1>2
  <2> QED
    BY ONLY <1>1, <1>2, <2>1, <2>2 DEF Concat
<1>4. r = [k \in 1 .. n |-> s[n - k + 1]]
  BY ONLY <1>1 DEF Reverse
<1>5. \A k \in 1 .. n : n - k + 1 \in 1 .. n
  BY ONLY <1>2
<1>6. r \in Seq(S) /\ Len(r) = n
  <2>1. r \in [1 .. n -> S]
    BY ONLY <1>2, <1>4, <1>5
  <2> QED
    BY ONLY <1>2, <2>1
<1>7. z \in Seq(S) /\ Len(z) = n + 1 /\ z[n + 1] = x /\ \A k \in 1 .. n : z[k] = r[k]
  <2>1. Concat(z, r, u, S)
    BY ONLY <1>1, <1>2, <1>6, ConcatIs
  <2>2. 1 \in 1 .. 1
    OBVIOUS
  <2> QED
    BY ONLY <1>2, <1>6, <2>1, <2>2 DEF Concat
<1>8. PICK w : w = Reverse(l)
  OBVIOUS
<1>9. w = [k \in 1 .. n + 1 |-> l[(n + 1) - k + 1]]
  BY ONLY <1>3, <1>8 DEF Reverse
<1>10. \A k \in 1 .. n + 1 : (n + 1) - k + 1 \in 1 .. n + 1
  BY ONLY <1>2
<1>11. w \in Seq(S) /\ Len(w) = n + 1
  <2>1. \A k \in 1 .. n + 1 : l[k] \in S
    BY ONLY <1>3
  <2>2. w \in [1 .. n + 1 -> S]
    BY ONLY <1>9, <1>10, <2>1
  <2>3. n + 1 \in Nat
    BY ONLY <1>2
  <2> QED
    BY ONLY <2>2, <2>3
<1>12. ASSUME NEW k \in 1 .. n + 1 PROVE w[k] = z[k]
  <2>1. w[k] = l[(n + 1) - k + 1]
    BY ONLY <1>9, k \in 1 .. n + 1
  <2>2. CASE k = n + 1
    <3>1. (n + 1) - k + 1 = 1
      BY ONLY <1>2, <2>2
    <3> QED
      BY ONLY <1>3, <1>7, <2>1, <2>2, <3>1
  <2>3. CASE k # n + 1
    <3>1. k \in 1 .. n /\ (n + 1) - k + 1 = 1 + (n - k + 1) /\ n - k + 1 \in 1 .. n
      BY ONLY <1>2, <2>3, k \in 1 .. n + 1
    <3>2. z[k] = s[n - k + 1]
      BY ONLY <1>4, <1>7, <3>1
    <3>3. l[1 + (n - k + 1)] = s[n - k + 1]
      BY ONLY <1>3, <3>1
    <3> QED
      BY ONLY <2>1, <3>1, <3>2, <3>3
  <2> QED
    BY ONLY <2>2, <2>3
<1>13. w = z
  BY ONLY <1>7, <1>11, <1>12, SeqEqual
<1>14. Reverse(<<>>) = <<>>
  <2>1. PICK e : e = <<>>
    OBVIOUS
  <2>2. Len(e) = 0 /\ 1 .. 0 = {}
    BY ONLY <2>1
  <2>3. PICK y : y = [k \in 1 .. 0 |-> e[0 - k + 1]]
    OBVIOUS
  <2>4. y = <<>>
    BY ONLY <2>3
  <2>5. Reverse(e) = y
    BY ONLY <2>2, <2>3 DEF Reverse
  <2> QED
    BY ONLY <2>1, <2>4, <2>5
<1> QED
  BY ONLY <1>1, <1>6, <1>8, <1>13, <1>14


(* A list in front of others.                                              *)
LEMMA FlattenCons ==
    ASSUME NEW C, NEW a \in Seq(C), NEW s \in Seq(Seq(C))
    PROVE  FlattenSeq(<<a>> \o s) = a \o FlattenSeq(s) /\ FlattenSeq(<<>>) = <<>>
<1>1. PICK n, u, l, S : n = Len(s) /\ u = <<a>> /\ l = u \o s /\ S = Seq(C)
  OBVIOUS
<1>2. u \in Seq(S) /\ Len(u) = 1 /\ u[1] = a /\ s \in Seq(S) /\ n \in Nat
  BY ONLY <1>1, a \in Seq(C), s \in Seq(Seq(C))
<1>3. l \in Seq(S) /\ Len(l) = n + 1 /\ l[1] = a /\ \A k \in 1 .. n : l[1 + k] = s[k]
  <2>1. Concat(l, u, s, S)
    BY ONLY <1>1, <1>2, ConcatIs
  <2>2. 1 + n = n + 1 /\ 1 \in 1 .. 1
    BY ONLY <1>2
  <2> QED
    BY ONLY <1>1, <1>2, <2>1, <2>2 DEF Concat
<1>4. PICK g : Flattens(g, s, C)
  BY ONLY s \in Seq(Seq(C)), FlattenSteps
<1>5. PICK h : Flattens(h, l, C)
  BY ONLY <1>1, <1>3, FlattenSteps
<1>6. /\ g \in [0 .. n -> Seq(C)] /\ g[0] = <<>> /\ FlattenSeq(s) = g[n]
      /\ \A k \in 1 .. n : g[k] = g[k - 1] \o s[k]
  BY ONLY <1>1, <1>4 DEF Flattens
<1>7. /\ h \in [0 .. n + 1 -> Seq(C)] /\ h[0] = <<>> /\ FlattenSeq(l) = h[n + 1]
      /\ \A k \in 1 .. n + 1 : h[k] = h[k - 1] \o l[k]
  BY ONLY <1>3, <1>5 DEF Flattens
<1>8. PICK P : P = {k \in 0 .. n : h[k + 1] = a \o g[k]}
  OBVIOUS
<1>9. 0 \in P
  <2>1. 0 \in 0 .. n /\ 1 \in 1 .. n + 1 /\ 1 - 1 = 0 /\ 0 + 1 = 1
    BY ONLY <1>2
  <2>2. h[1] = <<>> \o a
    BY ONLY <1>3, <1>7, <2>1
  <2>3. <<>> \o a = a /\ a \o <<>> = a
    BY ONLY a \in Seq(C), ConcatEmptySeq
  <2> QED
    BY ONLY <1>6, <1>8, <2>1, <2>2, <2>3
<1>10. ASSUME NEW k \in 0 .. n - 1, k \in P PROVE k + 1 \in P
  <2>1. PICK m : m = k + 1
    OBVIOUS
  <2>2. m \in 0 .. n /\ m \in 1 .. n /\ m - 1 = k /\ m + 1 \in 1 .. n + 1 /\ (m + 1) - 1 = m /\ 1 + m = m + 1 /\ k \in 0 .. n
    BY ONLY <1>2, <2>1, k \in 0 .. n - 1
  <2>3. PICK b, c : b = g[k] /\ c = s[m]
    OBVIOUS
  <2>4. b \in Seq(C) /\ c \in Seq(C)
    <3>1. g \in [0 .. n -> Seq(C)]
      BY ONLY <1>6
    <3>2. b \in Seq(C)
      BY ONLY <2>2, <2>3, <3>1
    <3>3. c \in S
      <4>1. s \in Seq(S) /\ m \in 1 .. Len(s)
        BY ONLY <1>1, <1>2, <2>2
      <4> QED
        BY ONLY <2>3, <4>1
    <3> QED
      BY ONLY <1>1, <3>2, <3>3
  <2>5. h[m] = a \o b
    BY ONLY <1>8, <1>10, <2>1, <2>3
  <2>6. h[m + 1] = (a \o b) \o c
    BY ONLY <1>3, <1>7, <2>2, <2>3, <2>5
  <2>7. g[m] = b \o c
    BY ONLY <1>6, <2>2, <2>3
  <2>8. Associates(a, b, c)
    BY ONLY <2>4, a \in Seq(C), Regroup
  <2>9. h[m + 1] = a \o g[m]
    BY ONLY <2>6, <2>7, <2>8 DEF Associates
  <2> QED
    BY ONLY <1>8, <2>1, <2>2, <2>9
<1>11. \A k \in 0 .. n : k \in P
  BY ONLY <1>2, <1>9, <1>10, Upward
<1>12. n \in 0 .. n
  BY ONLY <1>2
<1>13. h[n + 1] = a \o g[n]
  BY ONLY <1>8, <1>11, <1>12
<1>14. FlattenSeq(<<>>) = <<>>
  <2>1. PICK e : e = <<>>
    OBVIOUS
  <2>2. e \in Seq(Seq(C)) /\ Len(e) = 0
    BY ONLY <2>1
  <2>3. PICK x : Flattens(x, e, C)
    BY ONLY <2>2, FlattenSteps
  <2> QED
    BY ONLY <2>1, <2>2, <2>3 DEF Flattens
<1> QED
  BY ONLY <1>1, <1>6, <1>7, <1>13, <1>14

(* The parameters among some pieces, replaced by a value's.                *)
Stuffed(list, v) == [k \in DOMAIN list |-> IF list[k][1] = "param" THEN Pieces(v) ELSE <<list[k]>>]

StuffedWith(v, x, s) == FlattenSeq(Stuffed(<<x>> \o s, v)) =
    (IF x[1] = "param" THEN Pieces(v) ELSE <<x>>) \o FlattenSeq(Stuffed(s, v))

LEMMA StuffedType ==
    ASSUME NEW D, NEW v, Pieces(v) \in Seq(PieceSet(D)), NEW s \in Seq(PieceSet(D))
    PROVE  FlattenSeq(Stuffed(s, v)) \in Seq(PieceSet(D))
<1>1. PICK C : C = PieceSet(D)
  OBVIOUS
<1>2. PICK F : F = [y \in C |-> IF y[1] = "param" THEN Pieces(v) ELSE <<y>>]
  OBVIOUS
<1>3. F \in [C -> Seq(C)]
  <2>1. \A y \in C : <<y>> \in Seq(C)
    BY ONLY ShortLists
  <2> QED
    BY ONLY <1>1, <1>2, <2>1, Pieces(v) \in Seq(PieceSet(D))
<1>4. Stuffed(s, v) = Via(F, s)
  <2>1. \A k \in DOMAIN s : s[k] \in C
    BY ONLY <1>1, s \in Seq(PieceSet(D)), EntryOf
  <2> QED
    BY ONLY <1>2, <2>1 DEF Stuffed, Via
<1>5. Mapped(Via(F, s), F, s, Seq(C))
  BY ONLY <1>1, <1>3, s \in Seq(PieceSet(D)), ViaType
<1>6. PICK r : r = Stuffed(s, v)
  OBVIOUS
<1>7. r \in Seq(Seq(C))
  BY ONLY <1>4, <1>5, <1>6 DEF Mapped
<1>8. FlattenSeq(r) \in Seq(C)
  BY ONLY <1>7, FlattenType
<1> QED
  BY ONLY <1>1, <1>6, <1>8

LEMMA StuffedNone ==
    ASSUME NEW v
    PROVE  FlattenSeq(Stuffed(<<>>, v)) = <<>>
<1>1. PICK s : s = <<>>
  OBVIOUS
<1>2. s \in Seq(Seq({})) /\ Len(s) = 0 /\ Stuffed(s, v) = <<>>
  BY ONLY <1>1 DEF Stuffed
<1>3. PICK g : Flattens(g, s, {})
  BY ONLY <1>2, FlattenSteps
<1>4. FlattenSeq(s) = <<>>
  BY ONLY <1>2, <1>3 DEF Flattens
<1> QED
  BY ONLY <1>1, <1>2, <1>4

LEMMA StuffedCons ==
    ASSUME NEW D, NEW v, Pieces(v) \in Seq(PieceSet(D)), NEW x \in PieceSet(D), NEW s \in Seq(PieceSet(D))
    PROVE  StuffedWith(v, x, s)
<1>1. PICK C, p : C = PieceSet(D) /\ p = Pieces(v)
  OBVIOUS
<1>2. p \in Seq(C) /\ x \in C /\ s \in Seq(C)
  BY ONLY <1>1, Pieces(v) \in Seq(PieceSet(D)), x \in PieceSet(D), s \in Seq(PieceSet(D))
<1>3. PICK F, T : F = [y \in C |-> IF y[1] = "param" THEN p ELSE <<y>>] /\ T = Seq(C)
  OBVIOUS
<1>4. F \in [C -> T]
  <2>1. \A y \in C : <<y>> \in T
    BY ONLY <1>3, ShortLists
  <2> QED
    BY ONLY <1>2, <1>3, <2>1
<1>5. ASSUME NEW l \in Seq(C) PROVE Stuffed(l, v) = Via(F, l)
  <2>1. \A k \in DOMAIN l : l[k] \in C
    BY ONLY l \in Seq(C), EntryOf
  <2> QED
    BY ONLY <1>1, <1>3, <2>1 DEF Stuffed, Via
<1>6. PICK u : u = <<x>>
  OBVIOUS
<1>7. u \in Seq(C) /\ u \o s \in Seq(C)
  <2>1. u \in Seq(C)
    BY ONLY <1>2, <1>6, ShortLists
  <2> QED
    BY ONLY <1>2, <2>1
<1>8. Via(F, u \o s) = Via(F, u) \o Via(F, s)
  <2>1. ViaBoth(F, u, s)
    BY ONLY <1>2, <1>4, <1>7, ViaConcat
  <2> QED
    BY ONLY <2>1 DEF ViaBoth
<1>9. PICK a, r : a = F[x] /\ r = Via(F, s)
  OBVIOUS
<1>10. Via(F, u) = <<a>>
  <2>1. Via(F, <<x>>) = <<F[x]>>
    BY ONLY TRUE DEF Via
  <2> QED
    BY ONLY <1>6, <1>9, <2>1
<1>11. a \in Seq(C) /\ a = IF x[1] = "param" THEN p ELSE <<x>>
  BY ONLY <1>2, <1>3, <1>4, <1>9
<1>12. r \in Seq(Seq(C))
  <2>1. Mapped(r, F, s, T)
    BY ONLY <1>2, <1>4, <1>9, ViaType
  <2> QED
    BY ONLY <1>3, <2>1 DEF Mapped
<1>13. FlattenSeq(<<a>> \o r) = a \o FlattenSeq(r)
  BY ONLY <1>11, <1>12, FlattenCons
<1>16. Stuffed(u \o s, v) = <<a>> \o r
  BY ONLY <1>5, <1>7, <1>8, <1>9, <1>10
<1>17. Stuffed(s, v) = r
  BY ONLY <1>2, <1>5, <1>9
<1> QED
  BY ONLY <1>1, <1>6, <1>11, <1>13, <1>16, <1>17 DEF StuffedWith

(* What is read of a text.                                                 *)
ReadsAs(w, t, D) == PiecesFrom(w, t, D) /\ w[1] = Pieces(t)

LEMMA ReadsOnce ==
    ASSUME NEW D, NEW t \in Seq(D), NEW f, HeadsFrom(f, t), Tokenize(t) = f[1],
           NEW w, w = [i \in 1 .. Len(t) + 1 |-> PiecesOf(t, f[i])]
    PROVE  ReadsAs(w, t, D)
<1>1. PiecesFrom(w, t, D)
  BY PiecesWalk
<1>2. 1 \in 1 .. Len(t) + 1
  <2>1. Len(t) \in Nat
    OBVIOUS
  <2> QED
    BY ONLY <2>1
<1>3. w[1] = PiecesOf(t, Tokenize(t))
  BY ONLY <1>2, Tokenize(t) = f[1], w = [i \in 1 .. Len(t) + 1 |-> PiecesOf(t, f[i])]
<1>4. Pieces(t) = PiecesOf(t, Tokenize(t))
  BY ONLY TRUE DEF Pieces, PiecesOf
<1> QED
  BY ONLY <1>1, <1>3, <1>4 DEF ReadsAs

LEMMA SomeReads ==
    ASSUME NEW D, NEW t \in Seq(D)
    PROVE  \E w : ReadsAs(w, t, D)
<1>1. PICK f : HeadsFrom(f, t) /\ Tokenize(t) = f[1]
  BY HeadsWalk
<1>2. PICK w : w = [i \in 1 .. Len(t) + 1 |-> PiecesOf(t, f[i])]
  OBVIOUS
<1>3. ReadsAs(w, t, D)
  BY <1>1, <1>2, ReadsOnce
<1> QED
  BY <1>3


(* T is t up to before q, the next parameter to be replaced, where t has   *)
(* an edge in front of a name; it is t when there is none.                 *)
AsTyped(t, i, T, q, D) ==
    /\ T \in Seq(D) /\ q \in i .. Len(t) + 1 /\ q - 1 <= Len(T)
    /\ \A k \in 1 .. q - 1 : T[k] = t[k]
    /\ q = Len(t) + 1 => T = t
    /\ q <= Len(t) => ParamAt(t, q) /\ At(t, q - 1) \in Edges

(* In front of a replaced parameter the texts are read alike.              *)
LEMMA TypedAlike ==
    ASSUME NEW D, NEW t \in Seq(D), NEW T, NEW e, NEW q, AsTyped(t, e, T, q, D), q <= Len(t),
           NEW i \in 1 .. Len(t), e = NextAt(t, i)
    PROVE  FoundAt(T, i) = FoundAt(t, i) /\ NextAt(T, i) = e
<1>1. PICK n, l : n = Len(t) /\ l = Len(T)
  OBVIOUS
<1>2. T \in Seq(D)
  BY DEF AsTyped
<1>3. Len(t) \in Nat /\ Len(T) \in Nat
  BY <1>2
<1>4. e \in i + 1 .. n + 1
  BY <1>1, NextIn
<1>5. /\ q \in e .. n + 1 /\ q - 1 <= l /\ \A k \in 1 .. q - 1 : T[k] = t[k]
      /\ t[q] = ":" /\ At(t, q - 1) \in Edges
  BY <1>1 DEF AsTyped, ParamAt
<1>n. n \in Nat /\ l \in Nat /\ i \in 1 .. n /\ e \in i + 1 .. n + 1 /\ q \in e .. n + 1 /\ q - 1 <= l /\ q <= n
  BY ONLY <1>1, <1>3, <1>4, <1>5, i \in 1 .. Len(t), q <= Len(t)
<1>6. /\ \A k \in 1 .. n : At(t, k) = t[k]
      /\ \A k \in 1 .. l : At(T, k) = T[k]
      /\ At(t, 0) \in Edges /\ At(T, 0) \in Edges
  <2>1. 0 \notin 1 .. Len(t) /\ 0 \notin 1 .. Len(T)
    BY ONLY <1>3
  <2> QED
    BY <1>1, <1>2, <2>1, AtIs
<1>7. t[q - 1] \in Edges /\ At(T, q - 1) = At(t, q - 1) /\ T[q - 1] = t[q - 1]
  <2>1. q - 1 \in 1 .. n /\ q - 1 \in 1 .. l /\ q - 1 \in 1 .. q - 1
    BY ONLY <1>n
  <2> QED
    BY ONLY <1>5, <1>6, <2>1
<1>8. CASE i = q - 1
  <2>1. t[i] \in Edges /\ T[i] \in Edges
    BY ONLY <1>7, <1>8
  <2> QED
    BY ONLY <2>1, EdgePlain, e = NextAt(t, i)
<1>9. CASE i # q - 1
  <2>1. PICK m, d : m = q - 2 /\ d = 0
    OBVIOUS
  <2>n. m \in Nat /\ i \in 1 .. m /\ m < n /\ m <= l /\ m + 1 = q - 1 /\ d \in Nat /\ m + d = m /\ m + 1 + d = q - 1 /\ i + d = i
    BY ONLY <1>n, <1>9, <2>1
  <2>2. Alike(t, T, d, m)
    <3>1. \A k \in 1 .. m : k + d = k /\ k \in 1 .. q - 1
      BY ONLY <1>n, <2>1
    <3>2. \A k \in 1 .. m : t[k] = T[k + d]
      BY ONLY <1>5, <3>1
    <3>3. At(T, d) # ":"
      <4>1. ":" \notin Edges
        BY SignsInside
      <4> QED
        BY ONLY <1>6, <2>1, <4>1
    <3>4. m \in 0 .. Len(t) /\ m < Len(t) /\ m + d <= Len(T)
      BY ONLY <1>1, <1>n, <2>n
    <3>5. At(t, m + 1) \in Edges /\ At(T, m + 1 + d) = At(t, m + 1)
      BY ONLY <1>5, <1>7, <2>n
    <3> QED
      BY ONLY <2>n, <3>2, <3>3, <3>4, <3>5 DEF Alike
  <2>3. Looks(t, T, d, m)
    BY <1>2, <2>2, AlikeLooks
  <2>4. \A x \in WordChars : x \notin Edges
    BY SignsInside
  <2>5. i \in 1 .. m + 1 /\ i + 1 \in 1 .. m + 1 /\ i + 1 <= m + 1
    BY ONLY <2>n
  <2>6. WordEnd(t, i) \in i .. m + 1
    BY ONLY <1>2, <2>3, <2>4, <2>5, t \in Seq(D), RunAlike DEF WordEnd
  <2>7. NameEnd(t, i) \in i + 1 .. m + 1
    BY ONLY <1>2, <2>3, <2>4, <2>5, t \in Seq(D), RunAlike DEF NameEnd
  <2>8. NumberEnd(t, i) \in i .. m + 1
    <3>1. i \in 1 .. m
      BY ONLY <2>n
    <3> QED
      BY ONLY <1>2, <2>3, <3>1, t \in Seq(D), NumberAlike
  <2>9. e <= m + 1
    <3>1. CASE e = SkipFrom(t, i) /\ SkipFrom(t, i) # i
      <4>1. e # q
        <5> SUFFICES ASSUME e = q PROVE FALSE
          OBVIOUS
        <5>1. t[e] = ":" /\ e <= Len(t)
          BY <1>1, <1>5, <1>n
        <5>2. ":" # "\n"
          OBVIOUS
        <5>3. t[e - 1] \notin Edges
          <6>1. PICK x : x = SkipFrom(t, i)
            OBVIOUS
          <6>2. SkipFrom(t, i) # i /\ SkipFrom(t, i) <= Len(t) /\ t[SkipFrom(t, i)] # "\n"
            BY ONLY <3>1, <5>1, <5>2
          <6>3. t[SkipFrom(t, i) - 1] \notin Edges
            BY ONLY <6>2, t \in Seq(D), i \in 1 .. Len(t), SkipEnds
          <6> QED
            BY ONLY <3>1, <6>3
        <5> QED
          BY <1>7, <5>3
      <4> QED
        BY ONLY <1>n, <2>n, <4>1
    <3>2. CASE e \in {WordEnd(t, i), NameEnd(t, i), NumberEnd(t, i), i + 1}
      <4>1. PICK a, b, c : a = WordEnd(t, i) /\ b = NameEnd(t, i) /\ c = NumberEnd(t, i)
        OBVIOUS
      <4>2. a \in i .. m + 1 /\ b \in i + 1 .. m + 1 /\ c \in i .. m + 1
        BY ONLY <2>6, <2>7, <2>8, <4>1
      <4>3. e = a \/ e = b \/ e = c \/ e = i + 1
        BY ONLY <3>2, <4>1
      <4> QED
        BY ONLY <2>n, <4>2, <4>3
    <3> QED
      BY ONLY <3>1, <3>2, e = NextAt(t, i) DEF NextAt
  <2>10. i \in 1 .. m /\ NextAt(t, i) <= m + 1
    BY ONLY <2>n, <2>9, e = NextAt(t, i)
  <2>11. /\ NextAt(T, i + d) = NextAt(t, i) + d /\ KindAt(T, i + d) = KindAt(t, i)
         /\ Upto(T, i + d, NextAt(T, i + d)) = Upto(t, i, NextAt(t, i))
    BY ONLY <1>2, <2>2, <2>10, t \in Seq(D), StepAlike
  <2>12. NextAt(T, i) = e
    <3>1. NextAt(T, i + d) = e + d /\ e + d = e
      BY ONLY <1>n, <2>1, <2>11, e = NextAt(t, i)
    <3> QED
      BY ONLY <2>n, <3>1
  <2>13. KindAt(T, i) = KindAt(t, i) /\ Upto(T, i, NextAt(T, i)) = Upto(t, i, NextAt(t, i))
    BY ONLY <2>n, <2>11
  <2> QED
    BY ONLY <2>12, <2>13 DEF FoundAt
<1> QED
  BY ONLY <1>8, <1>9

(* u is what is before i, a value, and r, which is what is from e on.      *)
Patched(u, r, T, v, i, e, D) ==
    /\ r \in Seq(D) /\ Len(r) = Len(T) + 1 - e
    /\ \A k \in 1 .. Len(r) : r[k] = T[k + (e - 1)]
    /\ u \in Seq(D) /\ Len(u) = (i - 1) + Len(v) + Len(r)
    /\ \A k \in 1 .. i - 1 : u[k] = T[k]
    /\ \A k \in 1 .. Len(v) : u[k + (i - 1)] = v[k]
    /\ \A k \in 1 .. Len(r) : u[k + (i - 1 + Len(v))] = r[k]

LEMMA ReplacedIs ==
    ASSUME NEW D, NEW T \in Seq(D), NEW v \in Seq(D), NEW i \in 1 .. Len(T) + 1, NEW e \in i .. Len(T) + 1,
           NEW r, r = Upto(T, e, Len(T) + 1), NEW u, u = Replaced(T, <<i, e>>, v)
    PROVE  Patched(u, r, T, v, i, e, D)
<1>1. PICK n, m, z, a : n = Len(T) /\ m = Len(v) /\ z = Len(r) /\ a = Upto(T, 1, i)
  OBVIOUS
<1>2. n \in Nat /\ m \in Nat
  BY <1>1
<1>3. 1 \in 1 .. n + 1 /\ i \in 1 .. n + 1 /\ e \in 1 .. n + 1 /\ n + 1 \in e .. n + 1 /\ e \in i .. n + 1 /\ i \in Nat /\ e \in Nat
  BY <1>1, <1>2
<1>4. PieceOf(a, T, 1, i, D) /\ PieceOf(r, T, e, n + 1, D)
  <2>1. 1 \in 1 .. Len(T) + 1 /\ i \in 1 .. Len(T) + 1 /\ e \in 1 .. Len(T) + 1 /\ Len(T) + 1 \in e .. Len(T) + 1
    BY ONLY <1>1, <1>3
  <2>2. PieceOf(Upto(T, 1, i), T, 1, i, D)
    BY ONLY <2>1, T \in Seq(D), PieceIs
  <2>3. PieceOf(Upto(T, e, Len(T) + 1), T, e, Len(T) + 1, D)
    BY ONLY <2>1, T \in Seq(D), PieceIs
  <2> QED
    BY <1>1, <2>2, <2>3
<1>5. /\ a \in Seq(D) /\ Len(a) = i - 1 /\ \A k \in 1 .. i - 1 : a[k] = T[1 + k - 1]
      /\ r \in Seq(D) /\ z = n + 1 - e /\ \A k \in 1 .. n + 1 - e : r[k] = T[e + k - 1]
  BY ONLY <1>1, <1>4 DEF PieceOf
<1>n. n \in Nat /\ m \in Nat /\ i \in 1 .. n + 1 /\ e \in i .. n + 1 /\ z = n + 1 - e /\ z \in Nat
  BY ONLY <1>2, <1>3, <1>5
<1>6. PICK p : p = a \o v
  OBVIOUS
<1>7. Concat(p, a, v, D)
  BY ONLY <1>5, <1>6, v \in Seq(D), ConcatIs
<1>8. /\ p \in Seq(D) /\ Len(p) = (i - 1) + m
      /\ \A k \in 1 .. i - 1 : p[k] = a[k]
      /\ \A k \in 1 .. m : p[(i - 1) + k] = v[k]
  BY ONLY <1>1, <1>5, <1>7 DEF Concat
<1>9. u = p \o r
  <2>1. PICK w : w = <<i, e>>
    OBVIOUS
  <2>2. w[1] = i /\ w[2] = e
    BY ONLY <2>1
  <2>3. u = Upto(T, 1, w[1]) \o v \o Upto(T, w[2], Len(T) + 1)
    BY ONLY <2>1, u = Replaced(T, <<i, e>>, v) DEF Replaced
  <2> QED
    BY ONLY <1>1, <1>6, <2>2, <2>3, r = Upto(T, e, Len(T) + 1)
<1>10. Concat(u, p, r, D)
  BY ONLY <1>5, <1>8, <1>9, ConcatIs
<1>11. /\ u \in Seq(D) /\ Len(u) = ((i - 1) + m) + z
       /\ \A k \in 1 .. (i - 1) + m : u[k] = p[k]
       /\ \A k \in 1 .. z : u[((i - 1) + m) + k] = r[k]
  BY ONLY <1>1, <1>8, <1>10 DEF Concat
<1>12. \A k \in 1 .. z : r[k] = T[k + (e - 1)]
  <2> SUFFICES ASSUME NEW k \in 1 .. z PROVE r[k] = T[k + (e - 1)]
    OBVIOUS
  <2>1. k \in 1 .. n + 1 - e /\ e + k - 1 = k + (e - 1)
    BY ONLY <1>n, k \in 1 .. z
  <2> QED
    BY ONLY <1>5, <2>1
<1>13. \A k \in 1 .. i - 1 : u[k] = T[k]
  <2> SUFFICES ASSUME NEW k \in 1 .. i - 1 PROVE u[k] = T[k]
    OBVIOUS
  <2>1. k \in 1 .. (i - 1) + m /\ 1 + k - 1 = k
    BY ONLY <1>n, k \in 1 .. i - 1
  <2> QED
    BY ONLY <1>5, <1>8, <1>11, <2>1, k \in 1 .. i - 1
<1>14. \A k \in 1 .. m : u[k + (i - 1)] = v[k]
  <2> SUFFICES ASSUME NEW k \in 1 .. m PROVE u[k + (i - 1)] = v[k]
    OBVIOUS
  <2>1. (i - 1) + k \in 1 .. (i - 1) + m /\ (i - 1) + k = k + (i - 1)
    BY ONLY <1>n, k \in 1 .. m
  <2> QED
    BY ONLY <1>8, <1>11, <2>1, k \in 1 .. m
<1>15. \A k \in 1 .. z : u[k + (i - 1 + m)] = r[k]
  <2> SUFFICES ASSUME NEW k \in 1 .. z PROVE u[k + (i - 1 + m)] = r[k]
    OBVIOUS
  <2>1. ((i - 1) + m) + k = k + (i - 1 + m)
    BY ONLY <1>n, k \in 1 .. z
  <2> QED
    BY ONLY <1>11, <2>1, k \in 1 .. z
<1> QED
  BY ONLY <1>1, <1>5, <1>11, <1>12, <1>13, <1>14, <1>15 DEF Patched


(* r is the end of T, after the first c characters.                        *)
TailOf(r, T, c) == c \in Nat /\ Len(r) + c = Len(T) /\ \A k \in 1 .. Len(r) : r[k] = T[k + c]

(* The end of a text that begins with an edge is read as on its own.       *)
LEMMA EndRead ==
    ASSUME NEW D, NEW r \in Seq(D), NEW T \in Seq(D), NEW c, TailOf(r, T, c), At(r, 1) \in Edges,
           NEW w, PiecesFrom(w, T, D)
    PROVE  w[1 + c] = Pieces(r)
<1>0. c \in Nat /\ Len(r) + c = Len(T) /\ \A k \in 1 .. Len(r) : r[k] = T[k + c]
  BY DEF TailOf
<1>1. PICK m : m = Len(r) /\ m \in Nat
  <2>1. Len(r) \in Nat
    OBVIOUS
  <2> QED
    BY ONLY <2>1
<1>2. PICK g : HeadsFrom(g, r) /\ Tokenize(r) = g[1]
  BY ONLY r \in Seq(D), HeadsWalk
<1>3. PICK wr : wr = [i \in 1 .. Len(r) + 1 |-> PiecesOf(r, g[i])]
  OBVIOUS
<1>4. PiecesFrom(wr, r, D) /\ wr[1] = Pieces(r)
  <2>1. ReadsAs(wr, r, D)
    BY ONLY <1>2, <1>3, r \in Seq(D), ReadsOnce
  <2> QED
    BY ONLY <2>1 DEF ReadsAs
<1>n. m \in Nat /\ 1 \in 1 .. m + 1 /\ m \in 0 .. m /\ 1 + c = c + 1 /\ m + 1 + c = (m + c) + 1
  BY ONLY <1>0, <1>1
<1>5. Alike(r, T, c, m)
  <2>1. At(r, 1) # ":"
    <3>1. ":" \notin Edges
      BY SignsInside
    <3> QED
      BY ONLY <3>1, At(r, 1) \in Edges
  <2>2. m + c = Len(T) /\ m + c <= Len(T) /\ m \in 0 .. Len(r) /\ m = Len(r)
    BY ONLY <1>0, <1>1
  <2>3. \A k \in 1 .. m : r[k] = T[k + c]
    BY ONLY <1>0, <1>1
  <2> QED
    BY ONLY <1>0, <2>1, <2>2, <2>3 DEF Alike
<1>6. EndsBy(g, 1, m)
  <2>1. 1 \in 1 .. Len(r) + 1
    BY ONLY <1>1
  <2>2. Sequent(g[1], 1, Len(r))
    BY ONLY <1>2, <2>1 DEF HeadsFrom
  <2> QED
    BY ONLY <1>1, <2>2 DEF Sequent, EndsBy
<1>7. PICK x : ReadAlike(x, wr, w, D, 1, c, m)
  BY ONLY <1>2, <1>4, <1>5, <1>6, <1>n, r \in Seq(D), T \in Seq(D), PiecesFrom(w, T, D), WindowRead
<1>8. x \in Seq(PieceSet(D)) /\ wr[1] = x \o wr[m + 1] /\ w[1 + c] = x \o w[m + 1 + c]
  BY ONLY <1>7 DEF ReadAlike
<1>9. wr[m + 1] = <<>>
  BY ONLY <1>1, <1>4 DEF PiecesFrom
<1>10. w[m + 1 + c] = <<>>
  <2>1. m + 1 + c = Len(T) + 1
    BY ONLY <1>0, <1>1
  <2> QED
    BY ONLY <2>1, PiecesFrom(w, T, D) DEF PiecesFrom
<1> QED
  BY ONLY <1>4, <1>8, <1>9, <1>10

(* A parameter replaced: the value's pieces, then those behind it.         *)
FilledAt(t, v, i, e, u, w, D) ==
    /\ u \in Seq(D) /\ AsTyped(t, i, u, i, D) /\ Pieces(v) \in Seq(PieceSet(D))
    /\ \A y : ReadsAs(y, u, D) => y[i] = Pieces(v) \o w[e]

LEMMA ParamReplaced ==
    ASSUME NEW D, NEW t \in Seq(D), NEW v, WholeValue(v, D), NEW i \in 1 .. Len(t), NEW e \in i + 1 .. Len(t) + 1,
           ParamAt(t, i), At(t, i - 1) \in Edges, At(t, e) \in Edges,
           NEW T, NEW q, AsTyped(t, e, T, q, D), NEW w, ReadsAs(w, T, D), NEW u, u = Replaced(T, <<i, e>>, v)
    PROVE  FilledAt(t, v, i, e, u, w, D)
<1>1. PICK n, l, m : n = Len(t) /\ l = Len(T) /\ m = Len(v)
  OBVIOUS
<1>2. T \in Seq(D) /\ v \in Seq(D)
  BY Zenon DEF AsTyped, WholeValue
<1>3. n \in Nat /\ l \in Nat /\ m \in Nat
  <2>1. Len(t) \in Nat /\ Len(T) \in Nat /\ Len(v) \in Nat
    BY ONLY <1>2, t \in Seq(D)
  <2> QED
    BY ONLY <1>1, <2>1
<1>4. /\ q \in e .. n + 1 /\ q - 1 <= l /\ \A k \in 1 .. q - 1 : T[k] = t[k]
      /\ q = n + 1 => T = t
      /\ q <= n => t[q] = ":"
  BY ONLY <1>1, AsTyped(t, e, T, q, D) DEF AsTyped, ParamAt
<1>n. n \in Nat /\ l \in Nat /\ m \in Nat /\ i \in 1 .. n /\ e \in i + 1 .. n + 1 /\ q \in e .. n + 1 /\ q - 1 <= l
  BY ONLY <1>1, <1>3, <1>4, i \in 1 .. Len(t), e \in i + 1 .. Len(t) + 1
<1>5. /\ \A k \in 1 .. n : At(t, k) = t[k]
      /\ \A k : k \notin 1 .. n => At(t, k) \in Edges
      /\ \A k \in 1 .. l : At(T, k) = T[k]
      /\ \A k : k \notin 1 .. l => At(T, k) \in Edges
  BY ONLY <1>1, <1>2, t \in Seq(D), AtIs
<1>6. At(T, e) \in Edges
  <2>1. CASE q = n + 1
    <3>1. T = t
      BY ONLY <1>4, <2>1
    <3> QED
      BY ONLY <3>1, At(t, e) \in Edges
  <2>2. CASE q # n + 1
    <3>1. e \in 1 .. n /\ q <= n
      BY ONLY <1>n, <2>2
    <3>2. e # q
      <4>1. ":" \notin Edges
        BY SignsInside
      <4>2. t[e] \in Edges
        BY ONLY <1>5, <3>1, At(t, e) \in Edges
      <4> QED
        BY ONLY <1>4, <3>1, <4>1, <4>2
    <3>3. e \in 1 .. q - 1 /\ e \in 1 .. l
      BY ONLY <1>n, <3>2
    <3> QED
      BY ONLY <1>4, <1>5, <3>1, <3>3, At(t, e) \in Edges
  <2> QED
    BY ONLY <2>1, <2>2
<1>7. PICK r : r = Upto(T, e, Len(T) + 1)
  OBVIOUS
<1>8. /\ r \in Seq(D) /\ Len(r) = Len(T) + 1 - e
      /\ \A k \in 1 .. Len(r) : r[k] = T[k + (e - 1)]
      /\ u \in Seq(D) /\ Len(u) = (i - 1) + Len(v) + Len(r)
      /\ \A k \in 1 .. i - 1 : u[k] = T[k]
      /\ \A k \in 1 .. Len(v) : u[k + (i - 1)] = v[k]
      /\ \A k \in 1 .. Len(r) : u[k + (i - 1 + Len(v))] = r[k]
  <2>1. i \in 1 .. Len(T) + 1 /\ e \in i .. Len(T) + 1
    BY ONLY <1>1, <1>n
  <2>2. Patched(u, r, T, v, i, e, D)
    BY ONLY <1>2, <1>7, <2>1, u = Replaced(T, <<i, e>>, v), ReplacedIs
  <2> QED
    BY ONLY <2>2 DEF Patched
<1>9. PICK z, b : z = Len(r) /\ b = Len(u)
  OBVIOUS
<1>m. z = l + 1 - e /\ z \in Nat /\ b = (i - 1) + m + z /\ b \in Nat
  <2>1. z = l + 1 - e /\ b = (i - 1) + m + z
    BY ONLY <1>1, <1>8, <1>9
  <2> QED
    BY ONLY <1>n, <2>1
<1>10. /\ \A k \in 1 .. z : At(r, k) = r[k]
       /\ \A k : k \notin 1 .. z => At(r, k) \in Edges
       /\ \A k \in 1 .. b : At(u, k) = u[k]
       /\ \A k : k \notin 1 .. b => At(u, k) \in Edges
  BY ONLY <1>8, <1>9, AtIs
<1>11. At(r, 1) \in Edges
  <2>1. CASE z = 0
    <3>1. 1 \notin 1 .. z
      BY ONLY <2>1
    <3> QED
      BY ONLY <1>10, <3>1
  <2>2. CASE z # 0
    <3>1. 1 \in 1 .. z /\ 1 + (e - 1) = e /\ e \in 1 .. l
      BY ONLY <1>n, <1>m, <2>2
    <3>2. r[1] = T[e]
      BY ONLY <1>8, <1>9, <3>1
    <3> QED
      BY ONLY <1>5, <1>6, <1>10, <3>1, <3>2
  <2> QED
    BY ONLY <2>1, <2>2
<1>12. ASSUME NEW k \in 1 .. i - 1 PROVE u[k] = t[k] /\ At(u, k) = At(t, k)
  <2>1. k \in 1 .. q - 1 /\ k \in 1 .. n /\ k \in 1 .. b
    BY ONLY <1>n, <1>m, k \in 1 .. i - 1
  <2>2. u[k] = t[k]
    BY ONLY <1>4, <1>8, <2>1, k \in 1 .. i - 1
  <2> QED
    BY ONLY <1>5, <1>10, <2>1, <2>2
<1>13. At(u, i - 1) \in Edges
  <2>1. CASE i = 1
    <3>1. i - 1 \notin 1 .. b
      BY ONLY <1>m, <2>1
    <3> QED
      BY ONLY <1>10, <3>1
  <2>2. CASE i # 1
    <3>1. i - 1 \in 1 .. i - 1
      BY ONLY <1>n, <2>2
    <3> QED
      BY ONLY <1>12, <3>1, At(t, i - 1) \in Edges
  <2> QED
    BY ONLY <2>1, <2>2
<1>14. At(u, m + 1 + (i - 1)) \in Edges
  <2>1. CASE z = 0
    <3>1. m + 1 + (i - 1) \notin 1 .. b
      BY ONLY <1>n, <1>m, <2>1
    <3> QED
      BY ONLY <1>10, <3>1
  <2>2. CASE z # 0
    <3>1. 1 \in 1 .. z /\ m + 1 + (i - 1) = 1 + (i - 1 + m) /\ m + 1 + (i - 1) \in 1 .. b
      BY ONLY <1>n, <1>m, <2>2
    <3>2. u[1 + (i - 1 + m)] = r[1]
      BY ONLY <1>1, <1>8, <1>9, <3>1
    <3> QED
      BY ONLY <1>10, <1>11, <3>1, <3>2
  <2> QED
    BY ONLY <2>1, <2>2
<1>15. StandsIn(v, u, i - 1)
  <2>1. i - 1 \in Nat /\ m + (i - 1) <= b
    BY ONLY <1>n, <1>m
  <2> QED
    BY ONLY <1>1, <1>8, <1>9, <1>13, <1>14, <2>1 DEF StandsIn
<1>16. AsTyped(t, i, u, i, D)
  <2>1. i \in i .. Len(t) + 1 /\ i - 1 <= Len(u) /\ i # Len(t) + 1
    BY ONLY <1>1, <1>9, <1>n, <1>m
  <2> QED
    BY ONLY <1>8, <1>12, <2>1, ParamAt(t, i), At(t, i - 1) \in Edges DEF AsTyped
<1>17. PiecesFrom(w, T, D)
  BY ONLY ReadsAs(w, T, D) DEF ReadsAs
<1>18. w[e] = Pieces(r)
  <2>1. PICK c : c = e - 1
    OBVIOUS
  <2>2. c \in Nat /\ Len(r) + c = Len(T) /\ 1 + c = e
    BY ONLY <1>1, <1>9, <1>n, <1>m, <2>1
  <2>3. \A k \in 1 .. Len(r) : r[k] = T[k + c]
    BY ONLY <1>8, <2>1
  <2>4. TailOf(r, T, c) /\ r \in Seq(D)
    BY ONLY <1>8, <2>2, <2>3 DEF TailOf
  <2>5. w[1 + c] = Pieces(r)
    BY ONLY <1>2, <1>11, <1>17, <2>4, EndRead
  <2> QED
    BY ONLY <2>2, <2>5
<1>19. Pieces(v) \in Seq(PieceSet(D))
  <2>1. \E y : ReadsAs(y, u, D)
    BY ONLY <1>8, SomeReads
  <2> QED
    BY ONLY <1>8, <1>15, <2>1, WholeValue(v, D), ValueRead DEF ReadsAs
<1>20. ASSUME NEW y, ReadsAs(y, u, D) PROVE y[i] = Pieces(v) \o w[e]
  <2>1. PiecesFrom(y, u, D)
    BY ONLY <1>20 DEF ReadsAs
  <2>2. PICK d : d = i - 1
    OBVIOUS
  <2>3. y[1 + d] = Pieces(v) \o y[Len(v) + 1 + d]
    <3>1. StandsIn(v, u, d) /\ u \in Seq(D)
      BY ONLY <1>8, <1>15, <2>2
    <3> QED
      BY ONLY <2>1, <3>1, WholeValue(v, D), ValueRead
  <2>4. PICK c : c = i - 1 + Len(v)
    OBVIOUS
  <2>5. c \in Nat /\ Len(r) + c = Len(u) /\ Len(v) + 1 + d = 1 + c /\ 1 + d = i
    BY ONLY <1>1, <1>9, <1>n, <1>m, <2>2, <2>4
  <2>6. \A k \in 1 .. Len(r) : r[k] = u[k + c]
    BY ONLY <1>8, <2>4
  <2>7. y[1 + c] = Pieces(r)
    <3>1. TailOf(r, u, c) /\ r \in Seq(D) /\ u \in Seq(D)
      BY ONLY <1>8, <2>5, <2>6 DEF TailOf
    <3> QED
      BY ONLY <1>11, <2>1, <3>1, EndRead
  <2> QED
    BY ONLY <1>18, <2>3, <2>5, <2>7
<1> QED
  BY ONLY <1>8, <1>16, <1>19, <1>20 DEF FilledAt


(* Every parameter of the list stands apart.                               *)
AllApart(t, list) == \A k \in DOMAIN list : Apart(t, list[k])

LEMMA AllApartCons ==
    ASSUME NEW t, NEW p \in Nat \X Nat, NEW s \in Seq(Nat \X Nat), AllApart(t, <<p>> \o s)
    PROVE  Apart(t, p) /\ AllApart(t, s)
<1>1. PICK n, u, l, S : n = Len(s) /\ u = <<p>> /\ l = u \o s /\ S = Nat \X Nat
  OBVIOUS
<1>2. u \in Seq(S) /\ Len(u) = 1 /\ u[1] = p /\ n \in Nat /\ s \in Seq(S)
  BY ONLY <1>1, p \in Nat \X Nat, s \in Seq(Nat \X Nat)
<1>3. Concat(l, u, s, S)
  BY ONLY <1>1, <1>2, ConcatIs
<1>4. l \in Seq(S) /\ Len(l) = 1 + n /\ l[1] = p /\ \A k \in 1 .. n : l[1 + k] = s[k]
  <2>1. 1 \in 1 .. 1
    OBVIOUS
  <2> QED
    BY ONLY <1>1, <1>2, <1>3, <2>1 DEF Concat
<1>5. \A k \in 1 .. 1 + n : Apart(t, l[k])
  <2>1. DOMAIN l = 1 .. 1 + n
    BY ONLY <1>2, <1>4
  <2> QED
    BY ONLY <1>1, <2>1, AllApart(t, <<p>> \o s) DEF AllApart
<1>6. Apart(t, p)
  <2>1. 1 \in 1 .. 1 + n
    BY ONLY <1>2
  <2> QED
    BY ONLY <1>4, <1>5, <2>1
<1>7. ASSUME NEW k \in DOMAIN s PROVE Apart(t, s[k])
  <2>1. k \in 1 .. n
    BY ONLY <1>1, <1>2, k \in DOMAIN s
  <2>2. 1 + k \in 1 .. 1 + n
    BY ONLY <1>2, <2>1
  <2> QED
    BY ONLY <1>4, <1>5, <2>1, <2>2
<1> QED
  BY ONLY <1>6, <1>7 DEF AllApart

(* The parameters of list replaced, and what is read of the text then.     *)
Confined(t, v, i, list, found, T, q, w, D) ==
    /\ AsTyped(t, i, T, q, D) /\ ReadsAs(w, T, D)
    /\ Leads(ReplaceOp(v, D), t, Reverse(list), T, Seq(D))
    /\ w[i] = FlattenSeq(Stuffed(found, v))

(* Whatever is not a parameter stays as it is.                             *)
LEMMA OthersStay ==
    ASSUME NEW D, NEW t \in Seq(D), NEW v, NEW i \in 1 .. Len(t), NEW e, e = NextAt(t, i),
           KindAt(t, i) # "param", Pieces(v) \in Seq(PieceSet(D)), NEW found \in Seq(PieceSet(D)),
           NEW list, NEW T, NEW q, NEW w, Confined(t, v, e, list, found, T, q, w, D)
    PROVE  Confined(t, v, i, list, FoundAt(t, i) \o found, T, q, w, D)
<1>1. /\ AsTyped(t, e, T, q, D) /\ ReadsAs(w, T, D)
      /\ Leads(ReplaceOp(v, D), t, Reverse(list), T, Seq(D))
      /\ w[e] = FlattenSeq(Stuffed(found, v))
  BY DEF Confined
<1>2. e \in i + 1 .. Len(t) + 1
  BY NextIn
<1>3. PICK n, l : n = Len(t) /\ l = Len(T)
  OBVIOUS
<1>4. T \in Seq(D) /\ q \in e .. n + 1 /\ q - 1 <= l /\ (q = n + 1 => T = t)
  BY ONLY <1>1, <1>3 DEF AsTyped
<1>n. n \in Nat /\ l \in Nat /\ i \in 1 .. n /\ e \in i + 1 .. n + 1 /\ q \in e .. n + 1 /\ q - 1 <= l
  <2>1. Len(t) \in Nat /\ Len(T) \in Nat
    BY ONLY <1>4, t \in Seq(D)
  <2> QED
    BY ONLY <1>2, <1>3, <1>4, <2>1, i \in 1 .. Len(t)
<1>5. AsTyped(t, i, T, q, D)
  <2>1. q \in i .. Len(t) + 1
    BY ONLY <1>3, <1>n
  <2> QED
    BY ONLY <1>1, <2>1 DEF AsTyped
<1>6. FoundAt(T, i) = FoundAt(t, i) /\ NextAt(T, i) = e
  <2>1. CASE q = n + 1
    BY ONLY <1>4, <2>1, e = NextAt(t, i)
  <2>2. CASE q # n + 1
    <3>1. q <= Len(t)
      BY ONLY <1>3, <1>n, <2>2
    <3> QED
      BY ONLY <1>1, <3>1, t \in Seq(D), i \in 1 .. Len(t), e = NextAt(t, i), TypedAlike
  <2> QED
    BY ONLY <2>1, <2>2
<1>7. w[i] = FoundAt(t, i) \o FlattenSeq(Stuffed(found, v))
  <2>1. i \in 1 .. Len(T)
    BY ONLY <1>3, <1>n
  <2>2. PiecesFrom(w, T, D)
    BY ONLY <1>1 DEF ReadsAs
  <2>3. w[i] = FoundAt(T, i) \o w[NextAt(T, i)]
    BY ONLY <2>1, <2>2 DEF PiecesFrom
  <2> QED
    BY ONLY <1>1, <1>6, <2>3
<1>8. FlattenSeq(Stuffed(FoundAt(t, i) \o found, v)) = FoundAt(t, i) \o FlattenSeq(Stuffed(found, v))
  <2>1. FlattenSeq(Stuffed(found, v)) \in Seq(PieceSet(D))
    BY ONLY Pieces(v) \in Seq(PieceSet(D)), found \in Seq(PieceSet(D)), StuffedType
  <2>2. CASE KindAt(t, i) = "plain"
    <3>1. FoundAt(t, i) = <<>>
      BY ONLY <2>2 DEF FoundAt
    <3>2. <<>> \o found = found /\ <<>> \o FlattenSeq(Stuffed(found, v)) = FlattenSeq(Stuffed(found, v))
      BY ONLY <2>1, found \in Seq(PieceSet(D)), ConcatEmptySeq
    <3> QED
      BY ONLY <3>1, <3>2
  <2>3. CASE KindAt(t, i) # "plain"
    <3>1. PICK x : x = <<KindAt(t, i), Upto(t, i, NextAt(t, i))>>
      OBVIOUS
    <3>2. FoundAt(t, i) = <<x>> /\ x[1] = KindAt(t, i)
      BY ONLY <2>3, <3>1 DEF FoundAt
    <3>3. x \in PieceSet(D)
      <4>1. FoundAt(t, i) \in Seq(PieceSet(D))
        BY FoundType
      <4>2. PICK y : y = FoundAt(t, i)
        OBVIOUS
      <4>3. y \in Seq(PieceSet(D)) /\ Len(y) = 1 /\ y[1] = x
        BY ONLY <3>2, <4>1, <4>2
      <4>4. PICK C : C = PieceSet(D)
        OBVIOUS
      <4>5. y \in Seq(C) /\ 1 \in 1 .. Len(y)
        BY ONLY <4>3, <4>4
      <4>6. y[1] \in C
        BY ONLY <4>5
      <4> QED
        BY ONLY <4>3, <4>4, <4>6
    <3>4. FlattenSeq(Stuffed(<<x>> \o found, v)) =
             (IF x[1] = "param" THEN Pieces(v) ELSE <<x>>) \o FlattenSeq(Stuffed(found, v))
      <4>1. StuffedWith(v, x, found)
        BY ONLY <3>3, Pieces(v) \in Seq(PieceSet(D)), found \in Seq(PieceSet(D)), StuffedCons
      <4> QED
        BY ONLY <4>1 DEF StuffedWith
    <3>5. x[1] # "param"
      BY ONLY <3>2, KindAt(t, i) # "param"
    <3> QED
      BY ONLY <3>2, <3>4, <3>5
  <2> QED
    BY ONLY <2>2, <2>3
<1> QED
  BY ONLY <1>1, <1>5, <1>7, <1>8 DEF Confined


LEMMA PiecesType ==
    ASSUME NEW D, NEW t \in Seq(D)
    PROVE  Pieces(t) \in Seq(PieceSet(D))
<1>1. PICK w : ReadsAs(w, t, D)
  BY SomeReads
<1>2. 1 \in 1 .. Len(t) + 1
  <2>1. Len(t) \in Nat
    OBVIOUS
  <2> QED
    BY ONLY <2>1
<1>3. w \in [1 .. Len(t) + 1 -> Seq(PieceSet(D))] /\ w[1] = Pieces(t)
  BY ONLY <1>1 DEF ReadsAs, PiecesFrom
<1>4. w[1] \in Seq(PieceSet(D))
  BY ONLY <1>2, <1>3
<1> QED
  BY ONLY <1>3, <1>4

(* A parameter is replaced by its value and by nothing else.               *)
LEMMA ParamFilled ==
    ASSUME NEW D, NEW t \in Seq(D), NEW v, WholeValue(v, D), NEW i \in 1 .. Len(t), NEW e, e = NextAt(t, i),
           KindAt(t, i) = "param", Apart(t, <<i, e>>), NEW found \in Seq(PieceSet(D)),
           NEW list \in Seq(Nat \X Nat), NEW T, NEW q, NEW w, Confined(t, v, e, list, found, T, q, w, D)
    PROVE  \E u, y : Confined(t, v, i, <<<<i, e>>>> \o list, FoundAt(t, i) \o found, u, i, y, D)
<1>1. /\ AsTyped(t, e, T, q, D) /\ ReadsAs(w, T, D)
      /\ Leads(ReplaceOp(v, D), t, Reverse(list), T, Seq(D))
      /\ w[e] = FlattenSeq(Stuffed(found, v))
  BY DEF Confined
<1>2. e \in i + 1 .. Len(t) + 1
  BY NextIn
<1>3. Len(t) \in Nat /\ i \in Nat /\ e \in Nat
  <2>1. Len(t) \in Nat
    OBVIOUS
  <2> QED
    BY ONLY <1>2, <2>1, i \in 1 .. Len(t)
<1>4. ParamAt(t, i)
  BY ONLY KindIn, KindAt(t, i) = "param"
<1>5. At(t, i - 1) \in Edges /\ At(t, e) \in Edges
  <2>1. PICK p : p = <<i, e>>
    OBVIOUS
  <2>2. p[1] = i /\ p[2] = e
    BY ONLY <2>1
  <2>3. {At(t, p[1] - 1), At(t, p[2])} \subseteq Edges
    BY ONLY Zenon, <2>1, Apart(t, <<i, e>>) DEF Apart, Edges
  <2> QED
    BY ONLY <2>2, <2>3
<1>6. PICK u : u = Replaced(T, <<i, e>>, v)
  OBVIOUS
<1>7. /\ u \in Seq(D) /\ AsTyped(t, i, u, i, D) /\ Pieces(v) \in Seq(PieceSet(D))
      /\ \A y : ReadsAs(y, u, D) => y[i] = Pieces(v) \o w[e]
  <2>1. FilledAt(t, v, i, e, u, w, D)
    BY ONLY <1>1, <1>2, <1>4, <1>5, <1>6, t \in Seq(D), WholeValue(v, D), i \in 1 .. Len(t), ParamReplaced
  <2> QED
    BY ONLY <2>1 DEF FilledAt
<1>8. PICK y : ReadsAs(y, u, D)
  BY ONLY <1>7, SomeReads
<1>9. y[i] = FlattenSeq(Stuffed(FoundAt(t, i) \o found, v))
  <2>1. PICK x : x = <<KindAt(t, i), Upto(t, i, NextAt(t, i))>>
    OBVIOUS
  <2>2. FoundAt(t, i) = <<x>> /\ x[1] = "param"
    <3>1. KindAt(t, i) # "plain"
      BY ONLY KindAt(t, i) = "param"
    <3> QED
      BY ONLY <2>1, <3>1, KindAt(t, i) = "param" DEF FoundAt
  <2>3. x \in PieceSet(D)
    <3>1. FoundAt(t, i) \in Seq(PieceSet(D))
      BY FoundType
    <3>2. PICK z, C : z = FoundAt(t, i) /\ C = PieceSet(D)
      OBVIOUS
    <3>3. z \in Seq(C) /\ Len(z) = 1 /\ z[1] = x
      BY ONLY <2>2, <3>1, <3>2
    <3>4. z \in Seq(C) /\ 1 \in 1 .. Len(z)
      BY ONLY <3>3
    <3>5. z[1] \in C
      BY ONLY <3>4
    <3> QED
      BY ONLY <3>2, <3>3, <3>5
  <2>4. StuffedWith(v, x, found)
    BY ONLY <1>7, <2>3, found \in Seq(PieceSet(D)), StuffedCons
  <2>5. FlattenSeq(Stuffed(<<x>> \o found, v)) = Pieces(v) \o FlattenSeq(Stuffed(found, v))
    BY ONLY <2>2, <2>4 DEF StuffedWith
  <2> QED
    BY ONLY <1>1, <1>7, <1>8, <2>2, <2>5
<1>10. Leads(ReplaceOp(v, D), t, Reverse(<<<<i, e>>>> \o list), u, Seq(D))
  <2>1. PICK p, S, op, V : p = <<i, e>> /\ S = Nat \X Nat /\ op = ReplaceOp(v, D) /\ V = Seq(D)
    OBVIOUS
  <2>2. p \in S /\ list \in Seq(S)
    BY ONLY <1>3, <2>1, list \in Seq(Nat \X Nat)
  <2>3. Reverse(<<p>> \o list) = Reverse(list) \o <<p>> /\ Reverse(list) \in Seq(S)
    BY ONLY <2>2, ReverseCons
  <2>4. T \in V
    BY ONLY <1>1, <2>1 DEF AsTyped
  <2>5. op[<<T, p>>] = u
    <3>1. <<T, p>> \in Seq(D) \X (Nat \X Nat)
      BY ONLY <2>1, <2>2, <2>4
    <3> QED
      BY ONLY <1>6, <2>1, <3>1 DEF ReplaceOp
  <2>6. Leads(op, T, <<p>>, op[<<T, p>>], V)
    <3>1. op[<<T, p>>] \in V
      BY ONLY <1>7, <2>1, <2>5
    <3> QED
      BY ONLY <2>4, <3>1, LeadsOne
  <2>7. PICK a, b : a = Reverse(list) /\ b = <<p>>
    OBVIOUS
  <2>8. a \in Seq(S) /\ b \in Seq(S)
    BY ONLY <2>2, <2>3, <2>7, ShortLists
  <2>9. Leads(op, t, a, T, V) /\ Leads(op, T, b, u, V)
    BY ONLY <1>1, <2>1, <2>5, <2>6, <2>7
  <2>10. Leads(op, t, a \o b, u, V)
    BY ONLY <2>8, <2>9, LeadsOn
  <2> QED
    BY ONLY <2>1, <2>3, <2>7, <2>10
<1>11. Confined(t, v, i, <<<<i, e>>>> \o list, FoundAt(t, i) \o found, u, i, y, D)
  BY ONLY <1>7, <1>8, <1>9, <1>10 DEF Confined
<1> QED
  BY ONLY <1>11

(* From every place on, the values are what is put in.                     *)
ConfinedFrom(t, v, i, list, found, D) == \E T, q, w : Confined(t, v, i, list, found, T, q, w, D)

LEMMA ConfinedOn ==
    ASSUME NEW D, NEW t \in Seq(D), NEW v, WholeValue(v, D), NEW f, HeadsFrom(f, t),
           NEW w, w = [i \in 1 .. Len(t) + 1 |-> PiecesOf(t, f[i])], ReadsAs(w, t, D)
    PROVE  \A i \in 1 .. Len(t) + 1 :
               AllApart(t, ParamsOf(f[i])) => ConfinedFrom(t, v, i, ParamsOf(f[i]), w[i], D)
<1>1. PICK n, C : n = Len(t) /\ n \in Nat /\ C = PieceSet(D)
  <2>1. Len(t) \in Nat
    OBVIOUS
  <2> QED
    BY ONLY <2>1
<1>2. /\ f \in [1 .. n + 1 -> Seq(Tokens)] /\ f[n + 1] = <<>>
      /\ \A i \in 1 .. n : f[i] = HeadAt(t, i) \o f[NextAt(t, i)]
  BY ONLY <1>1, HeadsFrom(f, t) DEF HeadsFrom
<1>3. /\ w \in [1 .. n + 1 -> Seq(C)] /\ w[n + 1] = <<>>
      /\ \A i \in 1 .. n : w[i] = FoundAt(t, i) \o w[NextAt(t, i)]
  BY ONLY <1>1, ReadsAs(w, t, D) DEF ReadsAs, PiecesFrom
<1>v. v \in Seq(D) /\ Pieces(v) \in Seq(PieceSet(D))
  <2>1. v \in Seq(D)
    BY Zenon DEF WholeValue
  <2> QED
    BY ONLY <2>1, PiecesType
<1>4. PICK P : P = {k \in 1 .. n + 1 : \A j \in k .. n + 1 :
                      AllApart(t, ParamsOf(f[j])) => ConfinedFrom(t, v, j, ParamsOf(f[j]), w[j], D)}
  OBVIOUS
<1>5. n + 1 \in P
  <2>1. Confined(t, v, n + 1, <<>>, <<>>, t, n + 1, w, D)
    <3>1. Reverse(<<>>) = <<>>
      BY ONLY <<1, 1>> \in Nat \X Nat, <<>> \in Seq(Nat \X Nat), ReverseCons
    <3>2. PICK V : V = Seq(D)
      OBVIOUS
    <3>3. Leads(ReplaceOp(v, D), t, <<>>, t, Seq(D))
      <4>1. t \in V
        BY ONLY <3>2, t \in Seq(D)
      <4> QED
        BY ONLY <3>2, <4>1, LeadsNowhere
    <3>4. FlattenSeq(Stuffed(<<>>, v)) = <<>>
      BY ONLY StuffedNone
    <3>5. AsTyped(t, n + 1, t, n + 1, D)
      <4>1. n + 1 \in n + 1 .. Len(t) + 1 /\ (n + 1) - 1 <= Len(t) /\ ~ (n + 1 <= Len(t))
        BY ONLY <1>1
      <4> QED
        BY ONLY <1>1, <4>1, t \in Seq(D) DEF AsTyped
    <3> QED
      BY ONLY <1>3, <3>1, <3>3, <3>4, <3>5, ReadsAs(w, t, D) DEF Confined
  <2>2. ConfinedFrom(t, v, n + 1, ParamsOf(f[n + 1]), w[n + 1], D)
    BY ONLY <1>2, <1>3, <2>1, NoParams DEF ConfinedFrom
  <2>3. \A j \in n + 1 .. n + 1 : j = n + 1
    BY ONLY <1>1
  <2>4. n + 1 \in 1 .. n + 1
    BY ONLY <1>1
  <2> QED
    BY ONLY <1>4, <2>2, <2>3, <2>4
<1>6. ASSUME NEW i \in 1 .. n, i + 1 \in P PROVE i \in P
  <2>1. \A j \in i + 1 .. n + 1 :
           AllApart(t, ParamsOf(f[j])) => ConfinedFrom(t, v, j, ParamsOf(f[j]), w[j], D)
    BY ONLY <1>4, <1>6
  <2>2. PICK e : e = NextAt(t, i)
    OBVIOUS
  <2>3. e \in i + 1 .. n + 1
    BY ONLY <1>1, <2>2, i \in 1 .. n, t \in Seq(D), NextIn
  <2>4. e \in 1 .. n + 1 /\ e \in Nat /\ i \in Nat /\ i \in 1 .. n + 1
    BY ONLY <1>1, <2>3, i \in 1 .. n
  <2>5. PICK s, list, found : s = f[e] /\ list = ParamsOf(s) /\ found = w[e]
    OBVIOUS
  <2>6. s \in Seq(Tokens) /\ found \in Seq(PieceSet(D)) /\ f[i] = HeadAt(t, i) \o s /\ w[i] = FoundAt(t, i) \o found
    <3>1. s \in Seq(Tokens)
      BY ONLY <1>2, <2>4, <2>5
    <3>2. found \in Seq(C)
      BY ONLY <1>3, <2>4, <2>5
    <3> QED
      BY ONLY <1>1, <1>2, <1>3, <2>2, <2>5, <3>1, <3>2, i \in 1 .. n
  <2>7. list \in Seq(Nat \X Nat)
    BY ONLY <2>5, <2>6, ParamsOfType
  <2>8. ParamsOf(f[i]) = (IF KindAt(t, i) = "param" THEN <<<<i, e>>>> ELSE <<>>) \o list
    <3>1. CASE KindAt(t, i) = "plain"
      <4>1. HeadAt(t, i) = <<>>
        BY ONLY <3>1 DEF HeadAt
      <4>2. <<>> \o s = s /\ <<>> \o list = list
        BY ONLY <2>6, <2>7, ConcatEmptySeq
      <4>3. KindAt(t, i) # "param"
        BY ONLY <3>1
      <4> QED
        BY ONLY <2>5, <2>6, <4>1, <4>2, <4>3
    <3>2. CASE KindAt(t, i) # "plain"
      <4>1. PICK k : k = KindAt(t, i)
        OBVIOUS
      <4>2. k \in Colours
        BY ONLY <3>2, <4>1, KindIn
      <4>3. PICK a : a = [from |-> i, end |-> e, kind |-> k]
        OBVIOUS
      <4>4. a \in Tokens /\ a.from = i /\ a.end = e /\ a.kind = k
        BY ONLY <2>4, <4>2, <4>3 DEF Tokens
      <4>5. HeadAt(t, i) = <<a>>
        BY ONLY <2>2, <3>2, <4>1, <4>3 DEF HeadAt, Token
      <4>6. ParamsOf(<<a>> \o s) = (IF a.kind = "param" THEN <<<<a.from, a.end>>>> ELSE <<>>) \o ParamsOf(s)
        BY ONLY <2>6, <4>4, ParamsCons
      <4> QED
        BY ONLY <2>5, <2>6, <4>1, <4>4, <4>5, <4>6
    <3> QED
      BY ONLY <3>1, <3>2
  <2>9. ASSUME AllApart(t, ParamsOf(f[i])) PROVE ConfinedFrom(t, v, i, ParamsOf(f[i]), w[i], D)
    <3>1. CASE KindAt(t, i) = "param"
      <4>1. PICK p : p = <<i, e>>
        OBVIOUS
      <4>2. p \in Nat \X Nat /\ ParamsOf(f[i]) = <<p>> \o list
        BY ONLY <2>4, <2>8, <3>1, <4>1
      <4>3. Apart(t, p) /\ AllApart(t, list)
        <5>1. AllApart(t, <<p>> \o list)
          BY ONLY <2>9, <4>2
        <5> QED
          BY ONLY <2>7, <4>2, <5>1, AllApartCons
      <4>4. PICK T, q, y : Confined(t, v, e, list, found, T, q, y, D)
        BY ONLY <2>1, <2>3, <2>5, <4>3 DEF ConfinedFrom
      <4>5. Apart(t, <<i, e>>)
        BY ONLY <4>1, <4>3
      <4>6. \E u, z : Confined(t, v, i, <<<<i, e>>>> \o list, FoundAt(t, i) \o found, u, i, z, D)
        <5>1. i \in 1 .. Len(t)
          BY ONLY <1>1, i \in 1 .. n
        <5> QED
          BY ONLY <2>2, <2>6, <2>7, <3>1, <4>4, <4>5, <5>1, t \in Seq(D), WholeValue(v, D), ParamFilled
      <4> QED
        BY ONLY <2>6, <4>1, <4>2, <4>6 DEF ConfinedFrom
    <3>2. CASE KindAt(t, i) # "param"
      <4>1. ParamsOf(f[i]) = list
        BY ONLY <2>7, <2>8, <3>2, ConcatEmptySeq
      <4>2. PICK T, q, y : Confined(t, v, e, list, found, T, q, y, D)
        BY ONLY <2>1, <2>3, <2>5, <2>9, <4>1 DEF ConfinedFrom
      <4>3. Confined(t, v, i, list, FoundAt(t, i) \o found, T, q, y, D)
        <5>1. i \in 1 .. Len(t)
          BY ONLY <1>1, i \in 1 .. n
        <5> QED
          BY ONLY <1>v, <2>2, <2>6, <3>2, <4>2, <5>1, t \in Seq(D), OthersStay
      <4> QED
        BY ONLY <2>6, <4>1, <4>3 DEF ConfinedFrom
    <3> QED
      BY ONLY <3>1, <3>2
  <2>10. \A j \in i .. n + 1 : j = i \/ j \in i + 1 .. n + 1
    BY ONLY <1>1, i \in 1 .. n
  <2>11. \A j \in i .. n + 1 :
           AllApart(t, ParamsOf(f[j])) => ConfinedFrom(t, v, j, ParamsOf(f[j]), w[j], D)
    BY ONLY <2>1, <2>9, <2>10
  <2> QED
    BY ONLY <1>4, <2>4, <2>11
<1>7. \A i \in 1 .. n + 1 : i \in P
  BY ONLY <1>1, <1>5, <1>6, Downward
<1>8. \A i \in 1 .. n + 1 : i \in i .. n + 1
  BY ONLY <1>1
<1> QED
  BY ONLY <1>1, <1>4, <1>7, <1>8


(* In the text that runs, every parameter is replaced by its value as it   *)
(* reads on its own, and everything else reads as it did: whatever is      *)
(* typed, in every text and for every value that is closed.                *)
THEOREM ValuesKept == TypingSpec => []ValuesConfined
<1>1. TypedOK => ValuesConfined
  <2> SUFFICES ASSUME TypedOK, NEW value \in Values, Closed(value),
                      \A p \in Range(Placeholders(text)) : Apart(text, p), ~ SignedExponent
               PROVE  Pieces(SubstituteParams(text, value)) = FlattenSeq(Stuffed(Pieces(text), value))
    BY Zenon DEF ValuesConfined, Stuffed
  <2>1. PICK D : D = STRING \cup {" "}
    OBVIOUS
  <2>2. text \in Seq(D) /\ text \in Seq(STRING)
    <3>1. text \in Seq(STRING)
      BY DEF TypedOK
    <3>2. STRING \subseteq D
      BY ONLY <2>1
    <3> QED
      BY ONLY <3>1, <3>2, SeqWithin
  <2>3. WholeValue(value, D)
    <3>1. value \in Seq(STRING) /\ Tokenize(value \o <<" ">>) = Tokenize(value)
      BY Zenon, ValuesAreTexts DEF Closed
    <3>2. STRING \subseteq D
      BY ONLY <2>1
    <3>3. " " \in D
      BY ONLY <2>1, Zenon
    <3>4. value \in Seq(STRING)
      BY ONLY <3>1, Zenon
    <3>5. value \in Seq(D)
      BY ONLY <3>2, <3>4, SeqWithin
    <3> QED
      BY ONLY <3>1, <3>3, <3>5, Zenon DEF WholeValue
  <2>4. \A k \in 1 .. Len(text) : ~ SignedAt(text, k)
    BY <2>2 DEF SignedExponent, SignedAt
  <2>5. Placeholders(text) = ParamsOf(Tokenize(text))
    BY ONLY <2>2, <2>4, SameParams
  <2>6. PICK f : HeadsFrom(f, text) /\ Tokenize(text) = f[1]
    BY ONLY <2>2, HeadsWalk
  <2>7. PICK w : w = [i \in 1 .. Len(text) + 1 |-> PiecesOf(text, f[i])]
    OBVIOUS
  <2>8. ReadsAs(w, text, D)
    BY ONLY <2>2, <2>6, <2>7, ReadsOnce
  <2>9. 1 \in 1 .. Len(text) + 1
    <3>1. Len(text) \in Nat
      BY ONLY <2>2
    <3> QED
      BY ONLY <3>1
  <2>10. PICK list : list = ParamsOf(f[1])
    OBVIOUS
  <2>11. list \in Seq(Nat \X Nat)
    <3>1. f[1] \in Seq(Tokens)
      BY ONLY <2>6, <2>9 DEF HeadsFrom
    <3> QED
      BY ONLY <2>10, <3>1, ParamsOfType
  <2>12. AllApart(text, list)
    <3>1. \A k \in DOMAIN list : list[k] \in Range(list)
      BY ONLY Zenon DEF Range
    <3> QED
      BY <2>5, <2>6, <2>10, <3>1 DEF AllApart
  <2>13. ConfinedFrom(text, value, 1, list, w[1], D)
    BY ONLY <2>2, <2>3, <2>6, <2>7, <2>8, <2>9, <2>10, <2>12, ConfinedOn
  <2>14. PICK T, q, y : Confined(text, value, 1, list, w[1], T, q, y, D)
    BY ONLY <2>13 DEF ConfinedFrom
  <2>15. /\ ReadsAs(y, T, D) /\ Leads(ReplaceOp(value, D), text, Reverse(list), T, Seq(D))
         /\ y[1] = FlattenSeq(Stuffed(w[1], value))
    BY ONLY <2>14 DEF Confined
  <2>16. y[1] = Pieces(T) /\ w[1] = Pieces(text)
    BY ONLY <2>8, <2>15 DEF ReadsAs
  <2>17. SubstituteParams(text, value) = T
    <3>1. PICK r, S : r = Reverse(list) /\ S = Nat \X Nat
      OBVIOUS
    <3>2. r \in Seq(S)
      <4>1. <<1, 1>> \in S
        BY ONLY <3>1
      <4>2. PICK x : x = <<1, 1>>
        OBVIOUS
      <4> QED
        BY ONLY <2>11, <3>1, <4>1, <4>2, ReverseCons
    <3>3. FilledIn(text, r, value) = T
      BY ONLY <2>15, <3>1, <3>2, FilledInIs
    <3>4. SubstituteParams(text, value) = FilledIn(text, Reverse(Placeholders(text)), value)
      BY ONLY Zenon DEF SubstituteParams, FilledIn
    <3> QED
      BY ONLY <2>5, <2>6, <2>10, <3>1, <3>3, <3>4
  <2> QED
    BY ONLY <2>15, <2>16, <2>17
<1> QED
  BY <1>1, TypingTypeCorrect, PTL

=============================================================================
