--------------------------- MODULE QueryLifecycle ---------------------------
(***************************************************************************)
(* The life of a query: the command handlers of AppController that run and *)
(* cancel SQL, the token kept in QueryState, the tokio task each run is    *)
(* executed by, the history record, the bounded event channel and the UI   *)
(* handlers that follow it.                                                *)
(*                                                                         *)
(* Three kinds of actors interleave:                                       *)
(*   - the controller handles one command at a time and awaits in between; *)
(*   - every run has a task of its own, which outlives the handler;        *)
(*   - the UI consumes the event channel in order.                         *)
(* Events carry no run number in the code.  Here they carry one, which no  *)
(* action reads except to show a result; the properties are stated with it.*)
(*                                                                         *)
(* SQL is abstracted to the number of statements the handler will execute. *)
(* Commands are inputs: `send_cmd` gives each command a task of its own,   *)
(* so any command may be the next one the controller receives.             *)
(***************************************************************************)
EXTENDS Naturals, Sequences

CONSTANTS
    MaxRuns,         \* bound on the runs registered in a behaviour
    MaxStmts,        \* bound on the statements of one RunAll
    EventCap,        \* CMD_CHANNEL_CAPACITY of the event channel
    TimeoutSettings  \* values query_timeout_secs > 0 may have when a run starts

ASSUME MaxRunsNat == MaxRuns \in Nat
ASSUME MaxStmtsPos == MaxStmts \in Nat \ {0}
ASSUME EventCapPos == EventCap \in Nat \ {0}
ASSUME TimeoutBools == TimeoutSettings \in (SUBSET BOOLEAN) \ {{}}

VARIABLES
    pc,         \* where the controller is in its current handler
    job,        \* the command being handled
    reply,      \* the event that ends the handler, once it is decided
    runs,       \* number of runs registered so far
    token,      \* the run whose CancellationToken QueryState holds
    cancelled,  \* runs whose token has fired
    total,      \* statements of each run
    stmt,       \* the statement each run is at
    timed,      \* runs started with a timeout
    task,       \* what the task of each run is doing
    outcome,    \* how each run ended
    history,    \* what the history holds of each run
    events,     \* the event channel, oldest first
    loading,    \* UiState.is-loading
    shown       \* the run whose rows the result table shows

ctlVars  == <<pc, job, reply>>
regVars  == <<runs, token, total>>
taskVars == <<stmt, timed, task, outcome, history>>
uiVars   == <<loading, shown>>
vars     == <<ctlVars, regVars, cancelled, taskVars, events, uiVars>>

Run   == 1 .. MaxRuns
NoRun == 0

Kinds      == {"query", "params", "all"}
Job        == [kind : Kinds, stmts : 0 .. MaxStmts]
NoJob      == [kind |-> "query", stmts |-> 0]
EventTypes == {"started", "finished", "cancelled", "error", "paramDialog"}
Event      == [type : EventTypes, run : 0 .. MaxRuns]
Ev(t, r)   == [type |-> t, run |-> r]
NoReply    == Ev("error", NoRun)

(* The outcome of a run names the event that reports it. *)
Outcomes == {"finished", "cancelled", "error"}
Stages   == {"none", "exec", "save", "send", "done"}
Places   == {"idle", "readOnly", "announce", "spawn", "reply"}

TypeOK ==
    /\ pc \in Places /\ job \in Job /\ reply \in Event
    /\ runs \in 0 .. MaxRuns /\ token \in 0 .. MaxRuns
    /\ cancelled \subseteq Run
    /\ total \in [Run -> 0 .. MaxStmts] /\ stmt \in [Run -> 0 .. MaxStmts]
    /\ timed \in [Run -> BOOLEAN]
    /\ task \in [Run -> Stages]
    /\ outcome \in [Run -> Outcomes \cup {"none"}]
    /\ history \in [Run -> {"none", "success", "failure", "lost"}]
    /\ events \in Seq(Event) /\ Len(events) <= EventCap
    /\ loading \in BOOLEAN /\ shown \in 0 .. MaxRuns

Init ==
    /\ pc = "idle" /\ job = NoJob /\ reply = NoReply
    /\ runs = 0 /\ token = NoRun /\ cancelled = {}
    /\ total = [r \in Run |-> 0] /\ stmt = [r \in Run |-> 0]
    /\ timed = [r \in Run |-> FALSE]
    /\ task = [r \in Run |-> "none"]
    /\ outcome = [r \in Run |-> "none"]
    /\ history = [r \in Run |-> "none"]
    /\ events = <<>> /\ loading = FALSE /\ shown = NoRun

-----------------------------------------------------------------------------
(* The event channel: a sender waits while the channel is full.            *)

Send(e) ==
    /\ Len(events) < EventCap
    /\ events' = Append(events, e)

-----------------------------------------------------------------------------
(* The controller.  `QueryState::cancel` fires whatever token is stored,   *)
(* running or not, and the stored token is never cleared.                  *)

(* Mutant: a new run leaves the one before alone.                          *)
CancelNothing == UNCHANGED cancelled

CancelStored == cancelled' = cancelled \cup ({token} \ {NoRun})

(* The rest of a handler that has decided to give up and report `e`.       *)
Answer(e) ==
    /\ pc' = "reply"
    /\ reply' = e
    /\ job' = NoJob

(* The three run handlers begin alike: cancel first, then look for the     *)
(* active connection, then await the read-only flag of its row.            *)
HandleRun(kind, n) ==
    /\ pc = "idle"
    /\ runs < MaxRuns
    /\ CancelStored
    /\ \/ Answer(Ev("error", NoRun))
       \/ /\ pc' = "readOnly"
          /\ job' = [kind |-> kind, stmts |-> n]
          /\ UNCHANGED reply
    /\ UNCHANGED <<regVars, taskVars, events, uiVars>>

HandleRunQuery == HandleRun("query", 1)

HandleRunQueryWithParams == HandleRun("params", 1)

(* Mutant: Run All does not cancel the run before.                         *)
HandleRunAllUncancelled ==
    /\ pc = "idle" /\ runs < MaxRuns
    /\ \E n \in 0 .. MaxStmts :
        pc' = "readOnly" /\ job' = [kind |-> "all", stmts |-> n]
    /\ UNCHANGED <<reply, cancelled, regVars, taskVars, events, uiVars>>

HandleRunAll == \E n \in 0 .. MaxStmts : HandleRun("all", n)

HandleCancelQuery ==
    /\ pc = "idle"
    /\ CancelStored
    /\ Answer(Ev("cancelled", NoRun))
    /\ UNCHANGED <<regVars, taskVars, events, uiVars>>

(* The row says read-only and the SQL writes.                              *)
BlockReadOnly ==
    /\ pc = "readOnly"
    /\ Answer(Ev("error", NoRun))
    /\ UNCHANGED <<regVars, cancelled, taskVars, events, uiVars>>

(* RunQuery found :name placeholders: the user is asked for their values.  *)
AskParams ==
    /\ pc = "readOnly"
    /\ job.kind = "query"
    /\ Answer(Ev("paramDialog", NoRun))
    /\ UNCHANGED <<regVars, cancelled, taskVars, events, uiVars>>

(* RunAll of a text without any statement returns without a word.          *)
NothingToRun ==
    /\ pc = "readOnly"
    /\ job.stmts = 0
    /\ pc' = "idle" /\ job' = NoJob
    /\ UNCHANGED <<reply, regVars, cancelled, taskVars, events, uiVars>>

(* A run whose task is spawned before QueryStarted is sent.                *)
RegisterAndSpawn ==
    /\ pc = "readOnly"
    /\ job.stmts > 0
    /\ runs' = runs + 1
    /\ token' = runs + 1
    /\ total' = [total EXCEPT ![runs + 1] = job.stmts]
    /\ stmt' = [stmt EXCEPT ![runs + 1] = 1]
    /\ task' = [task EXCEPT ![runs + 1] = "exec"]
    /\ pc' = "announce"
    /\ UNCHANGED <<job, reply, cancelled, timed, outcome, history, events, uiVars>>

(* A fresh token, registered in QueryState.                                *)
Register ==
    /\ pc = "readOnly"
    /\ job.stmts > 0
    /\ runs' = runs + 1
    /\ token' = runs + 1
    /\ total' = [total EXCEPT ![runs + 1] = job.stmts]
    /\ pc' = "announce" /\ job' = NoJob
    /\ UNCHANGED <<reply, cancelled, taskVars, events, uiVars>>

Announce ==
    /\ pc = "announce"
    /\ Send(Ev("started", token))
    /\ pc' = "spawn"
    /\ UNCHANGED <<job, reply, regVars, cancelled, taskVars, uiVars>>

(* The timeout is read from the UI state once QueryStarted has been sent.  *)
Spawn ==
    /\ pc = "spawn"
    /\ \E t \in TimeoutSettings : timed' = [timed EXCEPT ![token] = t]
    /\ stmt' = [stmt EXCEPT ![token] = 1]
    /\ task' = [task EXCEPT ![token] = "exec"]
    /\ pc' = "idle"
    /\ UNCHANGED <<job, reply, regVars, cancelled, outcome, history, events, uiVars>>

SendReply ==
    /\ pc = "reply"
    /\ Send(reply)
    /\ pc' = "idle" /\ reply' = NoReply
    /\ UNCHANGED <<job, regVars, cancelled, taskVars, uiVars>>

-----------------------------------------------------------------------------
(* The task of a run.  `select!` polls the statement and the token in      *)
(* random order: a statement that completes while its token fires may go   *)
(* either way.                                                             *)

(* The task of run r leaves the execution with outcome o for stage s.      *)
Leave(r, o, s) ==
    /\ task[r] = "exec"
    /\ outcome' = [outcome EXCEPT ![r] = o]
    /\ task' = [task EXCEPT ![r] = s]
    /\ UNCHANGED <<stmt, timed, history>>

Complete(r) ==
    /\ \/ /\ stmt[r] < total[r]
          /\ task[r] = "exec"
          /\ stmt' = [stmt EXCEPT ![r] = @ + 1]
          /\ UNCHANGED <<timed, task, outcome, history>>
       \/ /\ stmt[r] = total[r]
          /\ Leave(r, "finished", "save")
    /\ UNCHANGED <<ctlVars, regVars, cancelled, events, uiVars>>

Fail(r) ==
    /\ Leave(r, "error", "save")
    /\ UNCHANGED <<ctlVars, regVars, cancelled, events, uiVars>>

(* Variants of the reaction to a fired token: recorded in the history,     *)
(* returning without an event, or deaf after the first statement.          *)
RecordCancel(r) ==
    /\ r \in cancelled
    /\ Leave(r, "cancelled", "save")
    /\ UNCHANGED <<ctlVars, regVars, cancelled, events, uiVars>>

NoticeCancelOnce(r) ==
    /\ r \in cancelled /\ stmt[r] = 1
    /\ Leave(r, "cancelled", "send")
    /\ UNCHANGED <<ctlVars, regVars, cancelled, events, uiVars>>

NoticeCancel(r) ==
    /\ r \in cancelled
    /\ Leave(r, "cancelled", "send")
    /\ UNCHANGED <<ctlVars, regVars, cancelled, events, uiVars>>

(* The statement's own timer elapses: the task fires the token of the      *)
(* whole run and reports DbError::Timeout.                                 *)
TimeOutSilently(r) ==
    /\ timed[r]
    /\ Leave(r, "error", "done")
    /\ cancelled' = cancelled \cup {r}
    /\ UNCHANGED <<ctlVars, regVars, events, uiVars>>

TimeOut(r) ==
    /\ timed[r]
    /\ Leave(r, "error", "save")
    /\ cancelled' = cancelled \cup {r}
    /\ UNCHANGED <<ctlVars, regVars, events, uiVars>>

(* The record is written before the event is sent; a failed insert is only *)
(* logged.                                                                 *)
Save(r) ==
    /\ task[r] = "save"
    /\ \E h \in {IF outcome[r] = "finished" THEN "success" ELSE "failure", "lost"} :
          history' = [history EXCEPT ![r] = h]
    /\ task' = [task EXCEPT ![r] = "send"]
    /\ UNCHANGED <<ctlVars, regVars, cancelled, stmt, timed, outcome, events, uiVars>>

Emit(r) ==
    /\ task[r] = "send"
    /\ Send(Ev(outcome[r], r))
    /\ task' = [task EXCEPT ![r] = "done"]
    /\ UNCHANGED <<ctlVars, regVars, cancelled, stmt, timed, outcome, history, uiVars>>

-----------------------------------------------------------------------------
(* The UI applies the events in the order of the channel.                  *)
UiHandle ==
    /\ events # <<>>
    /\ events' = Tail(events)
    /\ LET e == Head(events) IN
         /\ loading' = IF e.type = "started" THEN TRUE
                       ELSE IF e.type = "paramDialog" THEN loading ELSE FALSE
         /\ shown' = IF e.type = "finished" THEN e.run ELSE shown
    /\ UNCHANGED <<ctlVars, regVars, cancelled, taskVars>>

-----------------------------------------------------------------------------
Command == HandleRunQuery \/ HandleRunQueryWithParams \/ HandleRunAll \/ HandleCancelQuery

HandlerStep == BlockReadOnly \/ AskParams \/ NothingToRun \/ Register \/ Spawn

TaskStep(r) ==
    Complete(r) \/ Fail(r) \/ NoticeCancel(r) \/ TimeOut(r) \/ Save(r) \/ Emit(r)

Next ==
    \/ Command \/ HandlerStep \/ Announce \/ SendReply
    \/ \E r \in Run : TaskStep(r)
    \/ UiHandle

(* The runtime keeps polling a handler, a task and the UI loop that can go *)
(* on.  The channel hands a freed slot to the sender that has waited       *)
(* longest, so a sender is strongly fair.  Nothing makes the database      *)
(* answer (Complete, Fail) or the user press a key (Command).              *)
Fairness ==
    /\ WF_vars(HandlerStep) /\ SF_vars(Announce) /\ SF_vars(SendReply)
    /\ \A r \in Run :
          /\ WF_vars(NoticeCancel(r)) /\ WF_vars(TimeOut(r))
          /\ WF_vars(Save(r)) /\ SF_vars(Emit(r))
    /\ WF_vars(UiHandle)

Spec == Init /\ [][Next]_vars

FairSpec == Spec /\ Fairness

-----------------------------------------------------------------------------
(* Properties.                                                             *)

Executing(r) == task[r] = "exec"

(* The event that ends run r is in the channel at position i. *)
EndsAt(r, i) == events[i].run = r /\ events[i].type # "started"

(* Whatever is executing and has not been told to stop is the run whose    *)
(* token QueryState holds: the next Cancel, or the next run, reaches it.   *)
(* The token is replaced without a look at what the old one was for, so    *)
(* this rests on every run handler cancelling before it registers.         *)
NoOrphanRun ==
    \A r \in Run : Executing(r) /\ r \notin cancelled => r = token

(* The UI never hears of the end of a run before its start, nor of two     *)
(* ends: nothing of a run precedes its QueryStarted in the channel, and    *)
(* the one event that ends it is the last thing its task does.             *)
StartedBeforeEnd ==
    \A i, j \in 1 .. Len(events) :
        /\ events[i].run = events[j].run /\ events[i].run # NoRun
        /\ i < j
        => events[i].type = "started" /\ events[j].type # "started"

(* When the UI can learn how a run ended the history has its record, or    *)
(* the insert has failed; a cancelled run leaves none.                     *)
HistoryBeforeNews ==
    \A r \in Run :
        task[r] \in {"send", "done"} =>
            /\ outcome[r] = "cancelled" <=> history[r] = "none"
            /\ outcome[r] = "finished" => history[r] # "failure"
            /\ outcome[r] = "error" => history[r] # "success"

(* The spinner never outlives its cause: while it turns, some run is still *)
(* with its task, or the event that ends one is on its way.                *)
SpinnerHasCause ==
    loading => \E r \in 1 .. runs :
                  \/ task[r] # "done"
                  \/ \E i \in 1 .. Len(events) : EndsAt(r, i)

(* What RunPromise calls the phase of a run: it is live from the moment    *)
(* its token is registered, stopping once the token has fired, and over    *)
(* when its task has left the execution.                                   *)
phaseOf == [r \in Run |->
    IF r > runs THEN "none"
    ELSE IF outcome[r] # "none" THEN "over"
    ELSE IF r \in cancelled THEN "stopping" ELSE "live"]

Promise == INSTANCE RunPromise WITH phase <- phaseOf

(* The controller keeps the promise of RunPromise, its liveness included.  *)
PromiseKept == Promise!Spec

(* A run whose token has fired, or which has a timeout, is reported and    *)
(* its task ends, even when the database never answers.                    *)
StoppableRunEnds ==
    \A r \in Run : (task[r] # "none" /\ (r \in cancelled \/ timed[r])) ~> task[r] = "done"

(* With a timeout on every run the spinner always stops, whatever the      *)
(* database and the user do.                                               *)
SpinnerStops ==
    [](\A r \in Run : task[r] # "none" => timed[r]) => (loading ~> ~loading)

(* A run handler "cancels any in-flight query" so that the new one          *)
(* supersedes it: when everything has been heard, the rows on display are  *)
(* those of the newest run that finished.                                  *)
NewestResultShown ==
    events = <<>> /\ (\A r \in Run : task[r] \in {"none", "done"}) =>
        \A r \in Run : outcome[r] = "finished" => r <= shown
=============================================================================
