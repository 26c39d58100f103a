------------------------------ MODULE RunGate ------------------------------
(***************************************************************************)
(* What stands between a text in the editor and the database: the          *)
(* safe-DML question the UI asks before it sends a command, the read-only  *)
(* check the controller makes before it runs one, the dialog that asks for *)
(* the values of :name placeholders, the page size that becomes a LIMIT,   *)
(* and the automatic reruns of the last SQL.                               *)
(*                                                                         *)
(* Four actors interleave: the user, whose callbacks run on the UI thread; *)
(* the controller, which awaits in the middle of a command; the event      *)
(* task, which takes the controller's events and queues closures for the   *)
(* UI thread; and the tasks of `send_cmd`, so that commands may arrive in  *)
(* any order.  A text is a sequence of statements, a statement what the    *)
(* checks can tell of it.  What becomes of a statement once it is launched *)
(* is the subject of QueryLifecycle.                                       *)
(***************************************************************************)
EXTENDS Naturals, Sequences, FiniteSets

CONSTANTS
    Conns,      \* saved connections
    NoConn,     \* ConnectionState.active is None
    Texts,      \* the texts the user may run
    NoText,     \* no text: Option::None
    Sizes,      \* page sizes of the toolbar other than ALL
    AllRows,    \* the size 0 of ALL: no LIMIT
    MaxCommands \* bound on the commands sent in a behaviour

(* What the analyzer sees of a statement: the class of its keyword, and    *)
(* whether it has a WHERE clause or a :name placeholder.                   *)
Stmt == [class : {"select", "update", "write"}, where : BOOLEAN, holes : BOOLEAN]

ASSUME TextsOk == Texts \subseteq Seq(Stmt) /\ NoText \notin Texts
ASSUME SizesOk == AllRows \notin Sizes
ASSUME ConnsOk == NoConn \notin Conns
ASSUME MaxCommandsNat == MaxCommands \in Nat

VARIABLES
    rows,       \* safe_dml and read_only of each saved connection
    active,     \* ConnectionState.active
    statePage,  \* state::UiState.page_size, read by the run handlers
    filePage,   \* [editor].page_size of config.toml
    lastSql,    \* QueryState.last_sql
    inbox,      \* commands on their way to the controller
    pc, job,    \* where the controller is, and in which command
    events,     \* the event channel
    closures,   \* what invoke_from_event_loop has queued for the UI thread
    uiSafe,     \* UiState.conn-safe-dml
    uiPage,     \* UiState.page-size
    pending,    \* the safe-DML dialog: safe-dml-pending-sql and -kind
    askingAll,  \* UiState.show-all-rows-confirm
    slot,       \* param_pending_sql
    dialog,     \* the text whose placeholders the parameter dialog lists
    allValid,   \* UiState.params-all-valid: the dialog can be confirmed
    ran,        \* every text launched, and what held at that moment
    consent,    \* dangerous texts confirmed, or submitted while the check was off
    overtaken,  \* a size was chosen while a page command was on its way
    faults,     \* lookups of the row that failed
    sent        \* number of commands sent

diskVars == <<rows, filePage, faults>>
ctlVars  == <<pc, job, active, lastSql>>
uiVars   == <<uiSafe, uiPage, pending, askingAll, dialog, allValid>>
auxVars  == <<ran, consent, overtaken>>
vars     == <<diskVars, ctlVars, statePage, inbox, events, closures, uiVars, slot, auxVars, sent>>

-----------------------------------------------------------------------------
(* The analyzer, on statements.                                            *)

has_dangerous_dml(t) == \E i \in DOMAIN t : t[i].class = "update" /\ ~ t[i].where

is_write_statement(t) == \E i \in DOMAIN t : t[i].class # "select"

HasParams(t) == \E i \in DOMAIN t : t[i].holes

-----------------------------------------------------------------------------
(* Commands, events and closures.                                          *)

RunKinds == {"query", "params", "all"}

Run(kind, t)      == [kind |-> kind, sql |-> t]
Page(n)           == [kind |-> "page", size |-> n]
Connect(c)        == [kind |-> "connect", conn |-> c]
Flags(c, s, r)    == [kind |-> "flags", conn |-> c, safe |-> s, ro |-> r]

Runs     == [kind : RunKinds, sql : Texts]
Commands == Runs
            \cup [kind : {"page"}, size : Sizes]
            \cup [kind : {"connect"}, conn : Conns]
            \cup [kind : {"flags"}, conn : Conns, safe : BOOLEAN, ro : BOOLEAN]
Idle     == [kind |-> "none"]
Jobs     == {Idle} \cup [kind : RunKinds, sql : Texts, conn : Conns]

ParamEvent(t)   == [type |-> "params", sql |-> t]
SafeEvent(c, s) == [type |-> "flags", conn |-> c, safe |-> s]
UpEvent(s)      == [type |-> "connected", safe |-> s]
Events   == [type : {"params"}, sql : Texts] \cup [type : {"flags"}, conn : Conns, safe : BOOLEAN]
            \cup [type : {"connected"}, safe : BOOLEAN]
Closures == [type : {"params"}, sql : Texts] \cup [type : {"safe"}, safe : BOOLEAN]

NoPending == [sql |-> NoText, kind |-> "query"]
Asked     == [sql : Texts \cup {NoText}, kind : {"query", "cursor", "all"}]

Launched == [sql : Texts, conn : Conns, ro : BOOLEAN]

TypeOK ==
    /\ rows \in [Conns -> [safe : BOOLEAN, ro : BOOLEAN]]
    /\ active \in Conns \cup {NoConn}
    /\ statePage \in Sizes \cup {AllRows} /\ uiPage \in Sizes \cup {AllRows} /\ filePage \in Sizes
    /\ lastSql \in Texts \cup {NoText}
    /\ inbox \subseteq Commands /\ job \in Jobs
    /\ pc \in {"idle", "check", "launch"}
    /\ events \in Seq(Events) /\ closures \in Seq(Closures)
    /\ uiSafe \in BOOLEAN /\ askingAll \in BOOLEAN /\ allValid \in BOOLEAN /\ pending \in Asked
    /\ slot \in Texts \cup {NoText} /\ dialog \in Texts \cup {NoText}
    /\ ran \subseteq Launched /\ consent \subseteq Texts
    /\ overtaken \in BOOLEAN /\ faults \in Nat /\ sent \in 0 .. MaxCommands

Init ==
    /\ rows \in [Conns -> [safe : BOOLEAN, ro : BOOLEAN]]
    /\ active = NoConn /\ lastSql = NoText
    /\ filePage \in Sizes /\ statePage = filePage /\ uiPage = filePage
    /\ inbox = {} /\ pc = "idle" /\ job = Idle
    /\ events = <<>> /\ closures = <<>>
    /\ uiSafe = TRUE /\ pending = NoPending /\ askingAll = FALSE
    /\ slot = NoText /\ dialog = NoText /\ allValid = TRUE
    /\ ran = {} /\ consent = {} /\ overtaken = FALSE /\ faults = 0 /\ sent = 0

-----------------------------------------------------------------------------
(* The controller.                                                         *)

Receive(c) == pc = "idle" /\ c \in inbox /\ inbox' = inbox \ {c}

(* The three run handlers read the active connection and then await its    *)
(* row.  Without a connection they only report an error.                   *)
HandleRun(c) ==
    /\ Receive(c)
    /\ c.kind \in RunKinds
    /\ IF active = NoConn
       THEN UNCHANGED <<pc, job>>
       ELSE /\ pc' = "check"
            /\ job' = [kind |-> c.kind, sql |-> c.sql, conn |-> active]
    /\ UNCHANGED <<diskVars, active, lastSql, statePage, events, closures, uiVars, slot,
                   auxVars, sent>>

EndJob == pc' = "idle" /\ job' = Idle

(* The flag is that of the row; a row that cannot be read is not read-only.*)
RowReadOnly(c) == rows[c].ro

CheckUnchanged == UNCHANGED <<rows, filePage, active, statePage, inbox, closures, uiVars, slot,
                              auxVars, sent>>

(* Mutant: only the first statement of a text is looked at.                *)
FirstStatementBlocked(t, ro) == ro /\ t # <<>> /\ t[1].class # "select"

is_read_only_blocked(t, ro) == ro /\ is_write_statement(t)

(* After the check RunQuery asks for the values of the placeholders, RunAll*)
(* and RunQueryWithParams go on with the text as it is.                    *)
CheckReadOnly ==
    /\ pc = "check"
    /\ \E ro \in {RowReadOnly(job.conn), FALSE} :
         /\ faults' = faults + IF ro = rows[job.conn].ro THEN 0 ELSE 1
         /\ \/ /\ is_read_only_blocked(job.sql, ro)
               /\ EndJob /\ UNCHANGED <<events, lastSql>>
            \/ /\ ~ is_read_only_blocked(job.sql, ro)
               /\ job.kind = "query" /\ HasParams(job.sql)
               /\ events' = Append(events, ParamEvent(job.sql))
               /\ EndJob /\ UNCHANGED lastSql
            \/ /\ ~ is_read_only_blocked(job.sql, ro)
               /\ job.kind = "all" /\ job.sql = <<>>
               /\ EndJob /\ UNCHANGED <<events, lastSql>>
            \/ /\ ~ is_read_only_blocked(job.sql, ro)
               /\ job.kind = "query" => ~ HasParams(job.sql)
               /\ job.kind = "all" => job.sql # <<>>
               /\ lastSql' = job.sql
               /\ pc' = "launch" /\ UNCHANGED <<job, events>>
    /\ CheckUnchanged

(* QueryStarted has been sent; statePage is read for the LIMIT now, and the*)
(* task of the run is spawned.                                             *)
Launch ==
    /\ pc = "launch"
    /\ ran' = ran \cup {[sql |-> job.sql, conn |-> job.conn, ro |-> rows[job.conn].ro]}
    /\ EndJob
    /\ UNCHANGED <<diskVars, active, lastSql, statePage, inbox, events, closures, uiVars, slot,
                   consent, overtaken, sent>>

(* UpdateConfig(PageSize): the shared state once more, then config.toml.   *)
HandlePageSize(c) ==
    /\ Receive(c)
    /\ c.kind = "page"
    /\ statePage' = c.size
    /\ filePage' \in {c.size, filePage}
    /\ UNCHANGED <<rows, faults, ctlVars, events, closures, uiVars, slot, auxVars, sent>>

(* UpdateConfig(ConnectionFlags): the row, unless the update fails, and the*)
(* event either way.                                                       *)
HandleFlags(c) ==
    /\ Receive(c)
    /\ c.kind = "flags"
    /\ \/ rows' = [rows EXCEPT ![c.conn] = [safe |-> c.safe, ro |-> c.ro]]
       \/ UNCHANGED rows
    /\ events' = Append(events, SafeEvent(c.conn, c.safe))
    /\ UNCHANGED <<filePage, faults, ctlVars, statePage, closures, uiVars, slot, auxVars, sent>>

(* A connection is made: Connections has the steps it takes.               *)
HandleConnect(c) ==
    /\ Receive(c)
    /\ c.kind = "connect"
    /\ active' = c.conn
    /\ events' = Append(events, UpEvent(rows[c.conn].safe))
    /\ UNCHANGED <<diskVars, pc, job, lastSql, statePage, closures, uiVars, slot, auxVars, sent>>

Controller ==
    \/ \E c \in inbox : HandleRun(c) \/ HandlePageSize(c) \/ HandleFlags(c) \/ HandleConnect(c)
    \/ CheckReadOnly \/ Launch

-----------------------------------------------------------------------------
(* The event task: what it does itself, and the closure it queues.         *)

DispatchUnchanged == UNCHANGED <<diskVars, ctlVars, statePage, inbox, uiVars, auxVars, sent>>

Dispatch ==
    /\ events # <<>>
    /\ events' = Tail(events)
    /\ LET e == Head(events) IN
         \/ /\ e.type = "params"
            /\ slot' = e.sql
            /\ closures' = Append(closures, [type |-> "params", sql |-> e.sql])
         \/ /\ e.type = "connected" \/ (e.type = "flags" /\ e.conn = active)
            /\ closures' = Append(closures, [type |-> "safe", safe |-> e.safe])
            /\ UNCHANGED slot
         \/ /\ e.type = "flags" /\ e.conn # active
            /\ UNCHANGED <<closures, slot>>
    /\ DispatchUnchanged

(* The UI thread runs the closures in order, between two callbacks.        *)
RunClosure ==
    /\ closures # <<>>
    /\ closures' = Tail(closures)
    /\ LET c == Head(closures) IN
         \/ /\ c.type = "params" /\ dialog' = c.sql /\ allValid' = TRUE /\ UNCHANGED uiSafe
         \/ /\ c.type = "safe" /\ uiSafe' = c.safe /\ UNCHANGED <<dialog, allValid>>
    /\ UNCHANGED <<diskVars, ctlVars, statePage, inbox, events, uiPage, pending, askingAll, slot,
                   auxVars, sent>>

-----------------------------------------------------------------------------
(* The user.  An open dialog covers the editor and the toolbar.            *)

Covered == pending.sql # NoText \/ askingAll \/ dialog # NoText

Sends(cmds) ==
    /\ sent + Cardinality(cmds) <= MaxCommands
    /\ sent' = sent + Cardinality(cmds)
    /\ inbox' = inbox \cup cmds

UserUnchanged == UNCHANGED <<diskVars, pc, job, lastSql, events, closures, uiSafe, allValid, ran>>

CommandOf(kind, t) == Run(IF kind = "all" THEN "all" ELSE "query", t)

(* Mutant: the check finds nothing.                                        *)
Unchecked(t) == FALSE

check_safe_dml(t) == uiSafe /\ has_dangerous_dml(t)

(* run-query, run-query-at-cursor and run-all: the question first, if the  *)
(* text is dangerous and the check is on.  At the cursor there is one      *)
(* statement, or none, and then nothing is done.                           *)
Submit(kind, t) ==
    /\ ~ Covered
    /\ kind = "cursor" => Len(t) = 1
    /\ IF check_safe_dml(t)
       THEN /\ pending' = [sql |-> t, kind |-> kind]
            /\ UNCHANGED <<inbox, sent, consent>>
       ELSE /\ Sends({CommandOf(kind, t)})
            /\ consent' = IF uiSafe THEN consent ELSE consent \cup {t}
            /\ UNCHANGED pending
    /\ UNCHANGED <<active, statePage, uiPage, askingAll, slot, dialog, overtaken>>
    /\ UserUnchanged

ConfirmSafeDml ==
    /\ pending.sql # NoText
    /\ Sends({CommandOf(pending.kind, pending.sql)})
    /\ consent' = consent \cup {pending.sql}
    /\ pending' = [pending EXCEPT !.sql = NoText]
    /\ UNCHANGED <<active, statePage, uiPage, askingAll, slot, dialog, overtaken>>
    /\ UserUnchanged

DismissSafeDml ==
    /\ pending.sql # NoText
    /\ pending' = [pending EXCEPT !.sql = NoText]
    /\ UNCHANGED <<active, statePage, inbox, sent, uiPage, askingAll, slot, dialog, consent,
                   overtaken>>
    /\ UserUnchanged

Rerun == IF lastSql = NoText THEN {} ELSE {Run("query", lastSql)}

Overtakes == overtaken \/ \E c \in inbox : c.kind = "page"

(* A size of the toolbar: the UI, the shared state, the file by a command, *)
(* and the last SQL once more.                                             *)
update_page_size(n) ==
    /\ ~ Covered
    /\ uiPage' = n /\ statePage' = n
    /\ Sends({Page(n)} \cup Rerun)
    /\ overtaken' = Overtakes
    /\ UNCHANGED <<active, pending, askingAll, slot, dialog, consent>>
    /\ UserUnchanged

AskAllRows ==
    /\ ~ Covered
    /\ askingAll' = TRUE
    /\ UNCHANGED <<active, statePage, inbox, sent, uiPage, pending, slot, dialog, consent,
                   overtaken>>
    /\ UserUnchanged

(* Mutant: the toolbar changes, the size of the runs does not.             *)
ConfirmAllRowsUiOnly ==
    /\ askingAll /\ askingAll' = FALSE
    /\ uiPage' = AllRows
    /\ Sends(Rerun)
    /\ overtaken' = Overtakes
    /\ UNCHANGED <<active, statePage, pending, slot, dialog, consent>>
    /\ UserUnchanged

(* ALL has no PageSize variant: the file keeps the size it has.            *)
ConfirmAllRows ==
    /\ askingAll /\ askingAll' = FALSE
    /\ uiPage' = AllRows /\ statePage' = AllRows
    /\ Sends(Rerun)
    /\ overtaken' = Overtakes
    /\ UNCHANGED <<active, pending, slot, dialog, consent>>
    /\ UserUnchanged

DismissAllRows ==
    /\ askingAll /\ askingAll' = FALSE
    /\ UNCHANGED <<active, statePage, inbox, sent, uiPage, pending, slot, dialog, consent,
                   overtaken>>
    /\ UserUnchanged

(* Every value is checked against the type chosen for it, when either      *)
(* changes, and the button is enabled while all of them pass.              *)
ChangeParam ==
    /\ dialog # NoText
    /\ allValid' \in BOOLEAN
    /\ UNCHANGED <<diskVars, ctlVars, statePage, inbox, events, closures, uiSafe, uiPage, pending,
                   askingAll, dialog, slot, auxVars, sent>>

(* The text is taken from the slot, the names and values from the dialog:  *)
(* an empty slot leaves the dialog open.                                   *)
ConfirmParams ==
    /\ dialog # NoText /\ allValid /\ slot # NoText
    /\ slot' = NoText /\ dialog' = NoText
    /\ Sends({Run("params", slot)})
    /\ UNCHANGED <<active, statePage, uiPage, pending, askingAll, consent, overtaken>>
    /\ UserUnchanged

(* Mutant: the text keeps waiting when its dialog closes.                  *)
CancelParamsKeepingText ==
    /\ dialog # NoText
    /\ dialog' = NoText
    /\ UNCHANGED <<active, statePage, inbox, sent, uiPage, pending, askingAll, slot, consent,
                   overtaken>>
    /\ UserUnchanged

CancelParams ==
    /\ dialog # NoText
    /\ slot' = NoText /\ dialog' = NoText
    /\ UNCHANGED <<active, statePage, inbox, sent, uiPage, pending, askingAll, consent, overtaken>>
    /\ UserUnchanged

(* The forms of the other dialogs: another connection, other flags, none.  *)
OtherCommand(c) ==
    /\ ~ Covered
    /\ Sends({c})
    /\ UNCHANGED <<active, statePage, uiPage, pending, askingAll, slot, dialog, consent, overtaken>>
    /\ UserUnchanged

ClickConnect(c)     == OtherCommand(Connect(c))
SaveFlags(c, s, r)  == OtherCommand(Flags(c, s, r))

ClickDisconnect ==
    /\ ~ Covered /\ active # NoConn
    /\ active' = NoConn
    /\ UNCHANGED <<statePage, inbox, sent, uiPage, pending, askingAll, slot, dialog, consent,
                   overtaken>>
    /\ UserUnchanged

User ==
    \/ \E t \in Texts, k \in {"query", "cursor", "all"} : Submit(k, t)
    \/ ConfirmSafeDml \/ DismissSafeDml
    \/ \E n \in Sizes : update_page_size(n)
    \/ AskAllRows \/ ConfirmAllRows \/ DismissAllRows
    \/ ChangeParam \/ ConfirmParams \/ CancelParams
    \/ \E c \in Conns : \/ ClickConnect(c)
                        \/ \E s, r \in BOOLEAN : SaveFlags(c, s, r)
    \/ ClickDisconnect

Next == Controller \/ Dispatch \/ RunClosure \/ User

Spec == Init /\ [][Next]_vars

-----------------------------------------------------------------------------
(* Properties.                                                             *)

(* A text that writes is never launched on a connection whose row says     *)
(* read-only, whichever way it came (the editor, the parameter dialog, a   *)
(* rerun) and whatever flags or connections changed while the handler      *)
(* awaited the row; only a row that could not be read lets one through.    *)
ReadOnlyRespected ==
    faults = 0 => \A x \in ran : is_write_statement(x.sql) => ~ x.ro

(* A dangerous text that is launched was at some time confirmed, or was    *)
(* submitted while the check was off: a dismissed question, a dialog that  *)
(* replaced another or a rerun never brings one to the database that the   *)
(* user has not once let through.                                          *)
DangerLetThrough ==
    \A x \in ran : has_dangerous_dml(x.sql) => x.sql \in consent

(* A text waiting for its parameters is never out of the user's reach: the *)
(* dialog is open, or about to open.                                       *)
ParamsReachable ==
    slot # NoText => \/ dialog # NoText
                     \/ \E i \in DOMAIN closures : closures[i].type = "params"

(* The LIMIT of a run, rerun or not, is the size the toolbar shows, unless *)
(* a size was chosen while the command of an earlier choice was still on   *)
(* its way: that one sets the shared size once more.                       *)
PageFollowsToolbar == ~ overtaken => statePage = uiPage
=============================================================================
