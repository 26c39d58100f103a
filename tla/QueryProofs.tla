----------------------------- MODULE QueryProofs ------------------------------
(***************************************************************************)
(* What is proved of a query from its run to the texts its result is       *)
(* copied and exported as: the life of a run (module QueryLifecycle), the  *)
(* panel that shows results and table data (module ResultPanel), and the   *)
(* rows of a result in the grid (module GridRows).                         *)
(***************************************************************************)
EXTENDS QueryLifecycle, ResultPanel, GridRows, ListFacts

(***************************************************************************)
(* What QueryLifecycle guarantees for any number of runs and statements    *)
(* and any channel capacity.  One inductive invariant carries everything:  *)
(* TypeOK, where the controller and the tasks can be (Where), and what the *)
(* channel and the spinner can say of a run (News).                        *)
(***************************************************************************)

(* A run's QueryStarted has been sent. *)
Announced(r) == r <= runs /\ ~(pc = "announce" /\ r = token)

(* The stored token is the newest; a run is without a task only while its  *)
(* handler is on the way to spawn one; every older run has left the        *)
(* execution or has been told to; and when the handler is about to         *)
(* register a run, all of them have.                                       *)
Where ==
    /\ token = runs
    /\ pc \in {"announce", "spawn"} => token # NoRun /\ task[token] = "none"
    /\ pc = "readOnly" => runs < MaxRuns /\ (token = NoRun \/ token \in cancelled)
    /\ \A r \in Run :
        /\ r > runs => task[r] = "none" /\ r \notin cancelled
        /\ r <= runs /\ task[r] = "none" => r = token /\ pc \in {"announce", "spawn"}
        /\ r < token /\ outcome[r] = "none" => r \in cancelled
        /\ outcome[r] = "none" <=> task[r] \in {"none", "exec"}

(* What the history has of a run is settled when its task leaves "save".   *)
Recorded ==
    /\ \A r \in Run :
          /\ task[r] \in {"none", "exec"} => history[r] = "none"
          /\ task[r] = "save" => outcome[r] \in {"finished", "error"}
    /\ HistoryBeforeNews

(* Events of a run come after its announcement, the one that ends it after *)
(* its task; a start in the channel is followed by an end if the task is   *)
(* done; and events that name no run neither start nor end one.            *)
News ==
    /\ reply.run = NoRun /\ reply.type # "started"
    /\ \A i \in 1 .. Len(events) :
          /\ events[i].run # NoRun => Announced(events[i].run)
          /\ events[i].run = NoRun => events[i].type # "started"
          /\ events[i].type = "paramDialog" => events[i].run = NoRun
          /\ \A r \in 1 .. runs : EndsAt(r, i) => task[r] = "done"
    /\ \A r \in 1 .. runs :
          task[r] = "done" /\ (\E i \in 1 .. Len(events) : events[i] = Ev("started", r)) =>
              \E j \in 1 .. Len(events) : EndsAt(r, j)
    /\ StartedBeforeEnd
    /\ SpinnerHasCause

IInv == TypeOK /\ Where /\ Recorded /\ News

-----------------------------------------------------------------------------
LEMMA InitIInv == Init => IInv
<1> SUFFICES ASSUME Init PROVE IInv
  OBVIOUS
<1> USE MaxRunsNat, MaxStmtsPos, EventCapPos DEF Init, NoRun, Run, NoReply, Ev
<1>1. events \in Seq(Event) /\ Len(events) = 0
  BY EmptySeq
<1>2. TypeOK
  <2>1. reply \in Event /\ job \in Job
    BY DEF Event, EventTypes, Job, Kinds, NoJob
  <2>2. timed \in [Run -> BOOLEAN] /\ loading \in BOOLEAN
    BY Zenon
  <2> QED BY <1>1, <2>1, <2>2 DEF TypeOK, Stages, Places, Outcomes
<1>3. Where /\ Recorded
  BY DEF Where, Recorded, HistoryBeforeNews
<1>4. News
  BY <1>1 DEF News, StartedBeforeEnd, SpinnerHasCause
<1> QED BY <1>2, <1>3, <1>4 DEF IInv

(* Types.                                                                  *)

LEMMA SendType ==
  ASSUME events \in Seq(Event), NEW e \in Event, Send(e)
  PROVE  events' \in Seq(Event) /\ Len(events') <= EventCap
  BY AppendProperties, EventCapPos DEF Send

LEMMA TypeStep == TypeOK /\ Where /\ [Next]_vars => TypeOK'
<1> SUFFICES ASSUME TypeOK, Where, [Next]_vars PROVE TypeOK'
  OBVIOUS
<1> USE MaxRunsNat, EventCapPos, MaxStmtsPos, TimeoutBools
    DEF TypeOK, ctlVars, regVars, taskVars, uiVars, vars, Run, NoRun, Places, Stages,
        Outcomes, Ev
<1>1. CASE Command
  <2>1. \A k \in Kinds, n \in 0 .. MaxStmts : HandleRun(k, n) => TypeOK'
    BY DEF HandleRun, CancelStored, Answer, Event, EventTypes, Job, Kinds, NoJob
  <2>2. CASE HandleCancelQuery
    BY <2>2 DEF HandleCancelQuery, CancelStored, Answer, Event, EventTypes, Job, Kinds, NoJob
  <2>3. Command => HandleCancelQuery \/ \E k \in Kinds, n \in 0 .. MaxStmts : HandleRun(k, n)
    BY DEF Command, HandleRunQuery, HandleRunQueryWithParams, HandleRunAll, Kinds
  <2> HIDE DEF TypeOK
  <2> QED BY <1>1, <2>1, <2>2, <2>3
<1>2. CASE HandlerStep
  <2>1. CASE BlockReadOnly
    BY <2>1 DEF BlockReadOnly, Answer, Event, EventTypes, Job, Kinds, NoJob
  <2>2. CASE AskParams
    BY <2>2 DEF AskParams, Answer, Event, EventTypes, Job, Kinds, NoJob
  <2>3. CASE NothingToRun
    BY <2>3 DEF NothingToRun, Job, Kinds, NoJob
  <2>4. CASE Register
    BY <2>4 DEF Register, Where, Job, Kinds, NoJob
  <2>5. CASE Spawn
    BY <2>5 DEF Spawn, Where
  <2> QED BY <1>2, <2>1, <2>2, <2>3, <2>4, <2>5 DEF HandlerStep
<1>3. CASE Announce
  <2>1. Ev("started", token) \in Event
    BY DEF Event, EventTypes
  <2> QED BY <1>3, <2>1, SendType DEF Announce
<1>4. CASE SendReply
  <2>1. NoReply \in Event
    BY DEF NoReply, Event, EventTypes
  <2> QED BY <1>4, <2>1, SendType DEF SendReply
<1>5. ASSUME NEW r \in Run, TaskStep(r) PROVE TypeOK'
  <2>1. CASE Complete(r)
    <3>1. CASE Leave(r, "finished", "save")
      BY <2>1, <3>1 DEF Complete, Leave
    <3>2. CASE stmt[r] < total[r] /\ ~Leave(r, "finished", "save")
      <4>1. stmt[r] + 1 \in 0 .. MaxStmts
        BY <3>2
      <4> QED BY <2>1, <3>2, <4>1, ZenonT(60) DEF Complete
    <3> QED BY <2>1, <3>1, <3>2 DEF Complete
  <2>2. CASE Fail(r) \/ TimeOut(r)
    BY <2>2 DEF Fail, TimeOut, Leave
  <2>3. CASE NoticeCancel(r)
    BY <2>3 DEF NoticeCancel, Leave
  <2>4. CASE Save(r)
    BY <2>4 DEF Save
  <2>5. CASE Emit(r)
    <3>1. outcome[r] \in Outcomes
      BY <2>5 DEF Emit, Where
    <3>2. Ev(outcome[r], r) \in Event
      BY <3>1 DEF Event, EventTypes
    <3> QED BY <2>5, <3>2, SendType DEF Emit
  <2> QED BY <1>5, <2>1, <2>2, <2>3, <2>4, <2>5 DEF TaskStep
<1>6. CASE UiHandle
  <2>1. events' \in Seq(Event) /\ Len(events') <= EventCap /\ Head(events) \in Event
    BY <1>6, HeadTailProperties DEF UiHandle
  <2> QED BY <1>6, <2>1 DEF UiHandle, Event
<1>7. CASE UNCHANGED vars
  BY <1>7
<1> QED BY <1>1, <1>2, <1>3, <1>4, <1>5, <1>6, <1>7 DEF Next

-----------------------------------------------------------------------------
(* Where the controller and the tasks can be.                              *)

LEMMA WhereStep == TypeOK /\ Where /\ [Next]_vars => Where'
<1> SUFFICES ASSUME TypeOK, Where, [Next]_vars PROVE Where'
  OBVIOUS
<1> USE MaxRunsNat
    DEF TypeOK, Where, ctlVars, regVars, taskVars, uiVars, vars, Run, NoRun, Outcomes
<1>1. CASE Command
  <2>1. \A k, n : HandleRun(k, n) => Where'
    BY DEF HandleRun, CancelStored, Answer
  <2>2. CASE HandleCancelQuery
    BY <2>2 DEF HandleCancelQuery, CancelStored, Answer
  <2>3. Command => HandleCancelQuery \/ \E k, n : HandleRun(k, n)
    BY DEF Command, HandleRunQuery, HandleRunQueryWithParams, HandleRunAll
  <2> HIDE DEF Where
  <2> QED BY <1>1, <2>1, <2>2, <2>3
<1>2. CASE HandlerStep
  <2>1. CASE BlockReadOnly \/ AskParams \/ NothingToRun
    BY <2>1 DEF BlockReadOnly, AskParams, NothingToRun, Answer
  <2>2. CASE Register
    BY <2>2 DEF Register
  <2>3. CASE Spawn
    BY <2>3 DEF Spawn, Stages
  <2> QED BY <1>2, <2>1, <2>2, <2>3 DEF HandlerStep
<1>3. CASE Announce \/ SendReply
  BY <1>3 DEF Announce, SendReply
<1>4. ASSUME NEW r \in Run, TaskStep(r) PROVE Where'
  <2>1. ASSUME NEW o \in Outcomes, NEW s \in {"save", "send"}, Leave(r, o, s),
               cancelled' \in {cancelled, cancelled \cup {r}}, UNCHANGED <<pc, runs, token>>
        PROVE  Where'
    BY <2>1 DEF Leave
  <2>2. CASE Complete(r) /\ UNCHANGED <<task, outcome>>
    BY <2>2 DEF Complete
  <2>3. CASE Complete(r) /\ Leave(r, "finished", "save")
    BY <2>1, <2>3 DEF Complete
  <2>4. CASE Fail(r) \/ NoticeCancel(r) \/ TimeOut(r)
    BY <2>1, <2>4 DEF Fail, NoticeCancel, TimeOut
  <2>5. CASE Save(r)
    BY <2>5 DEF Save
  <2>6. CASE Emit(r)
    BY <2>6 DEF Emit
  <2> QED BY <1>4, <2>2, <2>3, <2>4, <2>5, <2>6 DEF TaskStep, Complete
<1>5. CASE UiHandle
  BY <1>5 DEF UiHandle
<1>6. CASE UNCHANGED vars
  BY <1>6
<1> QED BY <1>1, <1>2, <1>3, <1>4, <1>5, <1>6 DEF Next

-----------------------------------------------------------------------------
(* What the history holds.                                                 *)

LEMMA RecordedStep == TypeOK /\ Where /\ Recorded /\ [Next]_vars => Recorded'
<1> SUFFICES ASSUME TypeOK, Where, Recorded, [Next]_vars PROVE Recorded'
  OBVIOUS
<1> USE MaxRunsNat
    DEF TypeOK, Where, Recorded, HistoryBeforeNews, ctlVars, regVars, taskVars, uiVars,
        vars, Run, NoRun, Outcomes
<1>1. CASE UNCHANGED <<task, outcome, history>>
  BY <1>1
<1>2. Command \/ Announce \/ SendReply \/ UiHandle \/ UNCHANGED vars
         => UNCHANGED <<task, outcome, history>>
  BY DEF Command, HandleRunQuery, HandleRunQueryWithParams, HandleRunAll, HandleRun,
         HandleCancelQuery, Announce, SendReply, UiHandle
<1>3. CASE HandlerStep
  <2>1. BlockReadOnly \/ AskParams \/ NothingToRun \/ Register
           => UNCHANGED <<task, outcome, history>>
    BY DEF BlockReadOnly, AskParams, NothingToRun, Register
  <2>2. CASE Spawn
    BY <2>2 DEF Spawn
  <2> QED BY <1>1, <1>3, <2>1, <2>2 DEF HandlerStep
<1>4. ASSUME NEW r \in Run, TaskStep(r) PROVE Recorded'
  <2>1. ASSUME NEW o \in {"finished", "error"}, Leave(r, o, "save") PROVE Recorded'
    BY <2>1 DEF Leave
  <2>2. ASSUME Leave(r, "cancelled", "send") PROVE Recorded'
    BY <2>2 DEF Leave
  <2>3. CASE Complete(r)
    <3>1. Leave(r, "finished", "save") \/ UNCHANGED <<task, outcome, history>>
      BY <2>3 DEF Complete
    <3> QED BY <1>1, <2>1, <3>1
  <2>4. CASE Fail(r) \/ TimeOut(r) \/ NoticeCancel(r)
    <3>1. Leave(r, "error", "save") \/ Leave(r, "cancelled", "send")
      BY <2>4 DEF Fail, TimeOut, NoticeCancel
    <3> QED BY <2>1, <2>2, <3>1
  <2>5. CASE Save(r)
    BY <2>5 DEF Save
  <2>6. CASE Emit(r)
    BY <2>6 DEF Emit
  <2> QED BY <1>4, <2>3, <2>4, <2>5, <2>6 DEF TaskStep
<1> QED BY <1>1, <1>2, <1>3, <1>4 DEF Next

-----------------------------------------------------------------------------
(* What the channel and the spinner say.                                   *)

(* A step that touches neither the channel nor the spinner and ends no     *)
(* task is no news.                                                        *)
LEMMA NoNews ==
  ASSUME TypeOK, News, UNCHANGED <<events, loading>>,
         runs' \in {runs, runs + 1},
         reply'.run = NoRun, reply'.type # "started",
         \A r \in 1 .. runs : Announced(r) => Announced(r)',
         \A r \in 1 .. runs : task'[r] = "done" <=> task[r] = "done"
  PROVE  News'
<1> USE DEF TypeOK, News, EndsAt, NoRun, Run, Announced
<1>1. \A i \in 1 .. Len(events) : events[i].run \in 0 .. runs
  <2>1. \A i \in 1 .. Len(events) : events[i] \in Event
    BY ElementOfSeq
  <2> QED BY <2>1 DEF Event
<1>2. \A i \in 1 .. Len(events) :
        /\ events[i].run # NoRun => Announced(events[i].run)'
        /\ \A r \in 1 .. runs' : EndsAt(r, i) => task'[r] = "done"
  BY <1>1
<1>3. \A r \in 1 .. runs' :
        task'[r] = "done" /\ (\E i \in 1 .. Len(events) : events[i] = Ev("started", r)) =>
            \E j \in 1 .. Len(events) : EndsAt(r, j)
  <2>1. \A i \in 1 .. Len(events), r \in 1 .. runs' :
           events[i] = Ev("started", r) => r \in 1 .. runs
    BY <1>1 DEF Ev
  <2> QED BY <2>1
<1>4. StartedBeforeEnd'
  <2>1. StartedBeforeEnd
    BY DEF News
  <2> QED BY <2>1 DEF StartedBeforeEnd
<1>5. SpinnerHasCause'
  <2>1. CASE ~loading
    BY <2>1 DEF SpinnerHasCause
  <2>2. CASE loading
    <3>1. PICK r \in 1 .. runs : task[r] # "done" \/ \E i \in 1 .. Len(events) : EndsAt(r, i)
      BY <2>2 DEF SpinnerHasCause
    <3>2. r \in 1 .. runs' /\ (task'[r] # "done" <=> task[r] # "done")
      OBVIOUS
    <3>3. \A i \in 1 .. Len(events) : EndsAt(r, i) => EndsAt(r, i)'
      OBVIOUS
    <3> HIDE DEF TypeOK, News, EndsAt
    <3> QED BY <3>1, <3>2, <3>3 DEF SpinnerHasCause
  <2> QED BY <2>1, <2>2
<1> QED BY <1>2, <1>3, <1>4, <1>5

(* A step that sends one more event, which fits what the channel already   *)
(* says of its run; only the run it reports may end by it.                 *)
LEMMA OneMore ==
  ASSUME TypeOK, News, NEW e \in Event, Send(e), UNCHANGED <<runs, loading>>,
         reply'.run = NoRun, reply'.type # "started",
         \A r \in 1 .. runs : Announced(r) => Announced(r)',
         e.run # NoRun => Announced(e.run)',
         e.run = NoRun => e.type # "started",
         e.type = "paramDialog" => e.run = NoRun,
         \A i \in 1 .. Len(events) :
            e.run # NoRun /\ events[i].run = e.run =>
                events[i].type = "started" /\ e.type # "started",
         \A r \in 1 .. runs :
            /\ e.run = r => (e.type # "started" <=> task'[r] = "done")
            /\ e.run # r => (task'[r] = "done" <=> task[r] = "done")
  PROVE  News'
<1> USE DEF NoRun, Run
<1>1. /\ Len(events) \in Nat /\ Len(events') = Len(events) + 1
      /\ \A i \in 1 .. Len(events) : events[i] \in Event /\ events'[i] = events[i]
      /\ events'[Len(events) + 1] = e
  BY AppendProperties, LenProperties, ElementOfSeq DEF Send, TypeOK
<1>2. \A i \in 1 .. Len(events) : events[i].run \in 0 .. runs
  BY <1>1 DEF News, Announced, TypeOK, Event
<1>3. \A i \in 1 .. Len(events') : i \in 1 .. Len(events) \/ i = Len(events) + 1
  BY <1>1
<1>4. ASSUME NEW i \in 1 .. Len(events')
      PROVE  (/\ events[i].run # NoRun => Announced(events[i].run)
              /\ events[i].run = NoRun => events[i].type # "started"
              /\ events[i].type = "paramDialog" => events[i].run = NoRun)'
  <2>1. CASE i \in 1 .. Len(events)
    BY <1>1, <1>2, <2>1 DEF News, Announced
  <2>2. CASE i = Len(events) + 1
    BY <1>1, <2>2 DEF Announced
  <2> QED BY <1>3, <2>1, <2>2
<1>5. \A i \in 1 .. Len(events'), r \in 1 .. runs' : EndsAt(r, i)' => task'[r] = "done"
  BY <1>1, <1>3 DEF News, EndsAt
<1>6. \A i \in 1 .. Len(events), r \in 1 .. runs : EndsAt(r, i) => EndsAt(r, i)'
  BY <1>1 DEF EndsAt
<1>7. ASSUME NEW r \in 1 .. runs, task'[r] = "done",
             \E i \in 1 .. Len(events') : events'[i] = Ev("started", r)
      PROVE  \E j \in 1 .. Len(events') : EndsAt(r, j)'
  <2>1. CASE e.run = r
    <3>1. EndsAt(r, Len(events))'
      BY <1>1, <1>7, <2>1 DEF EndsAt
    <3> QED BY <1>1, <3>1
  <2>2. CASE e.run # r
    <3>1. \E i \in 1 .. Len(events) : events[i] = Ev("started", r)
      BY <1>1, <1>3, <1>7, <2>2 DEF Ev
    <3>2. PICK j \in 1 .. Len(events) : EndsAt(r, j)
      BY <1>7, <2>2, <3>1 DEF News
    <3> QED BY <1>1, <1>6, <3>2
  <2> QED BY <2>1, <2>2
<1>8. StartedBeforeEnd'
  BY <1>1, <1>2, <1>3 DEF News, StartedBeforeEnd
<1>9. SpinnerHasCause'
  <2>1. CASE ~loading
    BY <2>1 DEF SpinnerHasCause
  <2>2. CASE loading
    <3>1. PICK r \in 1 .. runs : task[r] # "done" \/ \E i \in 1 .. Len(events) : EndsAt(r, i)
      BY <2>2 DEF News, SpinnerHasCause
    <3>2. task'[r] # "done" \/ \E i \in 1 .. Len(events') : EndsAt(r, i)'
      <4>1. CASE e.run = r /\ e.type # "started"
        <5>1. EndsAt(r, Len(events))'
          BY <1>1, <4>1 DEF EndsAt
        <5> QED BY <1>1, <5>1
      <4>2. CASE ~(e.run = r /\ e.type # "started")
        BY <1>1, <1>6, <3>1, <4>2
      <4> QED BY <4>1, <4>2
    <3> QED BY <3>2 DEF SpinnerHasCause
  <2> QED BY <2>1, <2>2
<1> QED BY <1>4, <1>5, <1>7, <1>8, <1>9 DEF News

LEMMA NewsStep == TypeOK /\ TypeOK' /\ Where /\ News /\ [Next]_vars => News'
<1> SUFFICES ASSUME TypeOK, TypeOK', Where, News, [Next]_vars PROVE News'
  OBVIOUS
<1> USE MaxRunsNat DEF ctlVars, regVars, taskVars, uiVars, vars, NoRun, Run
<1>3. CASE Command
  <2>1. reply'.run = NoRun /\ reply'.type # "started"
    BY <1>3 DEF Command, HandleRunQuery, HandleRunQueryWithParams, HandleRunAll, HandleRun,
                HandleCancelQuery, Answer, Ev, News
  <2>2. UNCHANGED <<events, loading, runs, token, task>> /\ pc' # "announce"
    BY <1>3 DEF Command, HandleRunQuery, HandleRunQueryWithParams, HandleRunAll, HandleRun,
                HandleCancelQuery, Answer
  <2> QED BY <2>1, <2>2, NoNews DEF Announced
<1>4. CASE HandlerStep
  <2>1. CASE BlockReadOnly \/ AskParams \/ NothingToRun
    BY <2>1, NoNews DEF BlockReadOnly, AskParams, NothingToRun, Answer, Ev, Announced, News
  <2>2. CASE Register
    <3>1. runs' = runs + 1 /\ token' = runs + 1 /\ UNCHANGED <<task, reply, events, loading>>
      BY <2>2 DEF Register
    <3>2. \A r \in 1 .. runs : Announced(r)'
      BY <3>1 DEF Announced, TypeOK
    <3> QED BY <3>1, <3>2, NoNews DEF News
  <2>3. CASE Spawn
    <3>1. \A r \in 1 .. runs : task'[r] = "done" <=> task[r] = "done"
      BY <2>3 DEF Spawn, Where, TypeOK
    <3> QED BY <2>3, <3>1, NoNews DEF Spawn, Announced, News
  <2> QED BY <1>4, <2>1, <2>2, <2>3 DEF HandlerStep
<1>5. ASSUME NEW r \in Run, Complete(r) \/ Fail(r) \/ NoticeCancel(r) \/ TimeOut(r) \/ Save(r)
      PROVE  News'
  <2>1. \A q \in 1 .. runs : task'[q] = "done" <=> task[q] = "done"
    <3>1. task[r] # "done" /\ \E s \in Stages \ {"done"} : task' = [task EXCEPT ![r] = s]
      <4>1. CASE Complete(r)
        BY <4>1 DEF Complete, Leave, TypeOK, Stages
      <4>2. CASE Fail(r) \/ NoticeCancel(r) \/ TimeOut(r)
        BY <4>2 DEF Fail, NoticeCancel, TimeOut, Leave, Stages
      <4>3. CASE Save(r)
        BY <4>3 DEF Save, Stages
      <4> QED BY <1>5, <4>1, <4>2, <4>3
    <3> QED BY <3>1 DEF TypeOK
  <2>2. UNCHANGED <<events, loading, runs, token, pc, reply>>
    BY <1>5 DEF Complete, Fail, NoticeCancel, TimeOut, Save
  <2> QED BY <2>1, <2>2, NoNews DEF Announced, News
<1>6. CASE UNCHANGED vars
  BY <1>6, NoNews DEF Announced, News
<1>7. CASE Announce
  <2>1. Ev("started", token) \in Event
    BY DEF Ev, Event, EventTypes, TypeOK
  <2>2. token \in 1 .. runs /\ task[token] = "none" /\ ~Announced(token)
    BY <1>7 DEF Announce, Where, TypeOK, Announced
  <2>3. Send(Ev("started", token)) /\ pc' = "spawn"
        /\ UNCHANGED <<runs, token, loading, reply, task>>
    BY <1>7 DEF Announce
  <2>4. \A i \in 1 .. Len(events) : events[i].run # token
    BY <2>2 DEF News
  <2> QED BY <2>1, <2>2, <2>3, <2>4, OneMore DEF Ev, Announced, News
<1>8. CASE SendReply
  <2>1. reply \in Event /\ reply.run = NoRun /\ reply.type # "started"
    BY DEF TypeOK, News
  <2>2. Send(reply) /\ pc' = "idle" /\ reply' = NoReply
        /\ UNCHANGED <<runs, token, loading, task>>
    BY <1>8 DEF SendReply
  <2> QED BY <2>1, <2>2, OneMore DEF Ev, NoReply, Announced
<1>9. ASSUME NEW r \in Run, Emit(r) PROVE News'
  <2>1. outcome[r] \in Outcomes /\ r \in 1 .. runs /\ task[r] = "send"
    <3>1. task[r] = "send"
      BY <1>9 DEF Emit
    <3>2. outcome[r] # "none" /\ ~(r > runs)
      BY <3>1 DEF Where
    <3>3. r \in Nat /\ r >= 1 /\ runs \in Nat
      BY DEF TypeOK
    <3> QED BY <3>1, <3>2, <3>3 DEF TypeOK
  <2>2. Ev(outcome[r], r) \in Event
    BY <2>1 DEF Ev, Event, EventTypes, Outcomes
  <2>3. Send(Ev(outcome[r], r)) /\ task' = [task EXCEPT ![r] = "done"]
        /\ UNCHANGED <<pc, runs, token, loading, reply>>
    BY <1>9 DEF Emit
  <2>4. Announced(r)
    BY <2>1 DEF Where, Announced
  <2>5. \A i \in 1 .. Len(events) : events[i].run = r => events[i].type = "started"
    BY <2>1 DEF News, EndsAt
  <2>6. \A q \in 1 .. runs : task'[q] = "done" <=> q = r \/ task[q] = "done"
    BY <2>1, <2>3 DEF TypeOK
  <2> QED BY <2>1, <2>2, <2>3, <2>4, <2>5, <2>6, OneMore DEF Ev, Announced, News, Outcomes
<1>10. CASE UiHandle
  <2>1. /\ Len(events) \in Nat \ {0} /\ Len(events') = Len(events) - 1
        /\ \A i \in 1 .. Len(events') : i + 1 \in 1 .. Len(events) /\ events'[i] = events[i + 1]
        /\ Head(events) = events[1]
    BY <1>10, HeadTailProperties, LenProperties DEF UiHandle, TypeOK
  <2>2. UNCHANGED <<pc, runs, token, task, reply>>
    BY <1>10 DEF UiHandle
  <2>3. \A i \in 1 .. Len(events) : events[i] \in Event
    BY ElementOfSeq DEF TypeOK
  <2>4. ASSUME NEW i \in 1 .. Len(events')
        PROVE  (/\ events[i].run # NoRun => Announced(events[i].run)
                /\ events[i].run = NoRun => events[i].type # "started"
                /\ events[i].type = "paramDialog" => events[i].run = NoRun
                /\ \A r \in 1 .. runs : EndsAt(r, i) => task[r] = "done")'
    BY <2>1, <2>2 DEF News, Announced, EndsAt
  <2>5. ASSUME NEW r \in 1 .. runs, NEW j \in 1 .. Len(events), j # 1, EndsAt(r, j)
        PROVE  \E k \in 1 .. Len(events') : EndsAt(r, k)'
    <3>1. j - 1 \in 1 .. Len(events') /\ events'[j - 1] = events[j]
      BY <2>1, <2>5
    <3>2. PICK k \in 1 .. Len(events') : events'[k] = events[j]
      BY <3>1
    <3> QED BY <2>5, <3>2 DEF EndsAt
  <2>6. ASSUME NEW r \in 1 .. runs, task[r] = "done",
               NEW i \in 1 .. Len(events), events[i] = Ev("started", r)
        PROVE  \E k \in 1 .. Len(events') : EndsAt(r, k)'
    <3>1. PICK j \in 1 .. Len(events) : EndsAt(r, j)
      BY <2>6 DEF News
    <3>2. ~(j < i) /\ j # i
      BY <2>1, <2>6, <3>1 DEF News, StartedBeforeEnd, EndsAt, Ev
    <3>3. j # 1
      BY <2>1, <3>2
    <3> QED BY <2>5, <3>1, <3>3
  <2>7. \A r \in 1 .. runs :
           task[r] = "done" /\ (\E i \in 1 .. Len(events') : events'[i] = Ev("started", r)) =>
               \E k \in 1 .. Len(events') : EndsAt(r, k)'
    BY <2>1, <2>6
  <2>8. StartedBeforeEnd'
    BY <2>1 DEF News, StartedBeforeEnd
  <2>9. SpinnerHasCause'
    <3>1. CASE events[1].type = "started"
      <4>1. events[1].run \in 1 .. runs /\ events[1] = Ev("started", events[1].run)
        <5>1. events[1] \in Event /\ 1 \in 1 .. Len(events)
          BY <2>1, <2>3
        <5>2. events[1] = Ev(events[1].type, events[1].run) /\ events[1].run \in 0 .. MaxRuns
          BY <5>1 DEF Event, Ev
        <5>3. events[1].run # NoRun /\ events[1].run <= runs
          BY <3>1, <5>1 DEF News, Announced
        <5>4. runs \in Nat
          BY DEF TypeOK
        <5> QED BY <3>1, <5>2, <5>3, <5>4
      <4>2. \E r \in 1 .. runs : task[r] # "done" \/ \E k \in 1 .. Len(events') : EndsAt(r, k)'
        BY <2>1, <2>6, <4>1
      <4> QED BY <2>2, <4>2 DEF SpinnerHasCause
    <3>2. CASE events[1].type = "paramDialog" /\ loading
      <4>1. PICK r \in 1 .. runs : task[r] # "done" \/ \E j \in 1 .. Len(events) : EndsAt(r, j)
        BY <3>2 DEF News, SpinnerHasCause
      <4>2. events[1].run = NoRun
        BY <2>1, <3>2 DEF News
      <4>3. task[r] # "done" \/ \E k \in 1 .. Len(events') : EndsAt(r, k)'
        BY <2>5, <4>1, <4>2 DEF EndsAt
      <4> QED BY <2>2, <4>3 DEF SpinnerHasCause
    <3>3. CASE events[1].type # "started" /\ ~(events[1].type = "paramDialog" /\ loading)
      <4>1. loading' = FALSE
        BY <1>10, <2>1, <3>3 DEF UiHandle, TypeOK
      <4> QED BY <4>1 DEF SpinnerHasCause
    <3> QED BY <3>1, <3>2, <3>3
  <2> QED BY <2>2, <2>4, <2>7, <2>8, <2>9 DEF News
<1> QED BY <1>3, <1>4, <1>5, <1>6, <1>7, <1>8, <1>9, <1>10 DEF Next, TaskStep

-----------------------------------------------------------------------------
(* IInv is inductive.                                                      *)
THEOREM Inductive == Spec => []IInv
<1>1. IInv /\ [Next]_vars => IInv'
  BY TypeStep, WhereStep, RecordedStep, NewsStep DEF IInv
<1> QED BY InitIInv, <1>1, PTL DEF Spec

(* The controller, the tasks, the history, the channel and the spinner     *)
(* never leave the domains declared for them: no event is lost to a full   *)
(* channel and no run is addressed before it is registered.                *)
THEOREM TypeCorrect == Spec => []TypeOK
<1>1. IInv => TypeOK
  BY DEF IInv
<1> QED BY Inductive, <1>1, PTL

(* Whatever executes and was not told to stop is what Cancel reaches.      *)
THEOREM OrphanFree == Spec => []NoOrphanRun
<1>1. IInv => NoOrphanRun
  <2> SUFFICES ASSUME IInv, NEW r \in Run, Executing(r), r \notin cancelled
               PROVE  r = token
    BY DEF NoOrphanRun
  <2>1. outcome[r] = "none" /\ task[r] # "none"
    BY DEF IInv, Where, Executing
  <2>2. r <= runs /\ runs = token /\ ~(r < token)
    BY <2>1 DEF IInv, Where, TypeOK, Run
  <2> QED BY <2>2, MaxRunsNat DEF IInv, TypeOK, Run
<1> QED BY Inductive, <1>1, PTL

(* QueryStarted of a run comes first and comes once, and so does its end.  *)
THEOREM NewsInOrder == Spec => []StartedBeforeEnd
<1>1. IInv => StartedBeforeEnd
  BY DEF IInv, News
<1> QED BY Inductive, <1>1, PTL

(* A run that ends with its rows or with an error has been put on record   *)
(* by then, if that ever succeeds: a user who opens the history once the   *)
(* end is announced finds it there.                                        *)
THEOREM HistoryFirst == Spec => []HistoryBeforeNews
<1>1. IInv => HistoryBeforeNews
  BY DEF IInv, Recorded
<1> QED BY Inductive, <1>1, PTL

(* The spinner only turns while some run, or the news of its end, is       *)
(* outstanding.                                                            *)
THEOREM SpinnerCaused == Spec => []SpinnerHasCause
<1>1. IInv => SpinnerHasCause
  BY DEF IInv, News
<1> QED BY Inductive, <1>1, PTL

-----------------------------------------------------------------------------
(* The controller implements the safety part of RunPromise: runs start in  *)
(* order and never while another is live, are stopped at most once and     *)
(* end once.  (That a stopped run does end is left to TLC.)                *)

LEMMA PhaseStep == IInv /\ [Next]_vars => [Promise!Next]_phaseOf
<1> SUFFICES ASSUME IInv, [Next]_vars PROVE Promise!Next \/ UNCHANGED phaseOf
  BY DEF Promise!Next
<1> USE MaxRunsNat
    DEF IInv, TypeOK, Where, ctlVars, regVars, taskVars, uiVars, vars, Run, NoRun,
        Promise!Run, Promise!Move
<1>1. CASE UNCHANGED <<runs, outcome, cancelled>>
  BY <1>1 DEF phaseOf
<1>2. CASE CancelStored /\ UNCHANGED <<runs, outcome>>
  <2>1. CASE phaseOf[token] = "live" /\ token \in Run
    <3>1. Promise!Stop(token)
      <4>1. cancelled' = cancelled \cup {token}
        BY <1>2, <2>1 DEF CancelStored
      <4>2. ~(token > runs) /\ outcome[token] = "none" /\ token \notin cancelled
        BY <2>1 DEF phaseOf
      <4>3. phaseOf' = [phaseOf EXCEPT ![token] = "stopping"]
        BY <1>2, <2>1, <4>1, <4>2 DEF phaseOf
      <4> QED BY <2>1, <4>3 DEF Promise!Stop
    <3> QED BY <2>1, <3>1 DEF Promise!Next
  <2>2. CASE ~(phaseOf[token] = "live" /\ token \in Run)
    BY <1>2, <2>2 DEF CancelStored, phaseOf
  <2> QED BY <2>1, <2>2
<1>3. CASE Register
  <2>1. runs + 1 \in Run /\ runs' = runs + 1 /\ UNCHANGED <<outcome, cancelled>>
    BY <1>3 DEF Register
  <2>2. phaseOf' = [phaseOf EXCEPT ![runs + 1] = "live"] /\ phaseOf[runs + 1] = "none"
    <3>1. \A p \in Run : p # runs + 1 => (p > runs' <=> p > runs)
      BY <2>1
    <3>2. outcome[runs + 1] = "none" /\ runs + 1 \notin cancelled /\ ~(runs + 1 > runs')
      BY <2>1
    <3>3. runs + 1 > runs
      BY <2>1
    <3>4. phaseOf[runs + 1] = "none"
      BY <2>1, <3>3 DEF phaseOf
    <3>5. \A p \in Run : phaseOf'[p] = IF p = runs + 1 THEN "live" ELSE phaseOf[p]
      BY <2>1, <3>1, <3>2 DEF phaseOf
    <3> QED BY <2>1, <3>4, <3>5 DEF phaseOf
  <2>3. \A p \in Run : phaseOf[p] # "live" /\ (p < runs + 1 => phaseOf[p] # "none")
    BY <1>3 DEF Register, phaseOf
  <2>4. Promise!Start(runs + 1)
    BY <2>2, <2>3 DEF Promise!Start
  <2> QED BY <2>1, <2>4 DEF Promise!Next
<1>4. ASSUME NEW r \in Run, NEW o \in Outcomes, NEW s, Leave(r, o, s), runs' = runs,
             cancelled' \in {cancelled, cancelled \cup {r}}
      PROVE  Promise!Next
  <2>1. r <= runs /\ outcome[r] = "none" /\ o # "none"
    BY <1>4 DEF Leave, Outcomes
  <2>2. phaseOf[r] \in {"live", "stopping"} /\ phaseOf' = [phaseOf EXCEPT ![r] = "over"]
    BY <1>4, <2>1 DEF Leave, phaseOf
  <2>3. Promise!End(r)
    BY <2>2 DEF Promise!End
  <2> QED BY <2>3 DEF Promise!Next
<1>5. Command => CancelStored /\ UNCHANGED <<runs, outcome>>
  BY DEF Command, HandleRunQuery, HandleRunQueryWithParams, HandleRunAll, HandleRun,
         HandleCancelQuery
<1>6. BlockReadOnly \/ AskParams \/ NothingToRun \/ Spawn \/ Announce \/ SendReply \/ UiHandle
        => UNCHANGED <<runs, outcome, cancelled>>
  BY DEF BlockReadOnly, AskParams, NothingToRun, Spawn, Announce, SendReply, UiHandle
<1>7. ASSUME NEW r \in Run, TaskStep(r)
      PROVE  \/ UNCHANGED <<runs, outcome, cancelled>>
             \/ /\ \E o \in Outcomes, s \in Stages : Leave(r, o, s)
                /\ runs' = runs /\ cancelled' \in {cancelled, cancelled \cup {r}}
  <2>1. CASE Complete(r)
    BY <2>1 DEF Complete, Outcomes, Stages
  <2>2. CASE Fail(r) \/ NoticeCancel(r) \/ TimeOut(r)
    BY <2>2 DEF Fail, NoticeCancel, TimeOut, Outcomes, Stages
  <2>3. CASE Save(r) \/ Emit(r)
    BY <2>3 DEF Save, Emit
  <2> QED BY <1>7, <2>1, <2>2, <2>3 DEF TaskStep
<1> QED BY <1>1, <1>2, <1>3, <1>4, <1>5, <1>6, <1>7 DEF Next, HandlerStep

(* Every step of the controller and of its tasks is a step of RunPromise   *)
(* or none, under phaseOf.                                                 *)
THEOREM Refinement == Spec => Promise!SafeSpec
<1>1. Init => Promise!Init
  BY MaxRunsNat DEF Init, Promise!Init, phaseOf, Promise!Run, Run
<1> QED BY <1>1, PhaseStep, Inductive, PTL DEF Spec, Promise!SafeSpec

(* What the promise alone implies: a run only starts while no other is     *)
(* live, so one Cancel reaches everything that is executing.               *)
THEOREM PromiseMutex == Promise!SafeSpec => []Promise!AtMostOneLive
<1>1. Promise!Init => Promise!TypeOK /\ Promise!AtMostOneLive
  BY DEF Promise!Init, Promise!TypeOK, Promise!Phases, Promise!AtMostOneLive
<1>2. Promise!TypeOK /\ Promise!AtMostOneLive /\ [Promise!Next]_phaseOf
         => Promise!TypeOK' /\ Promise!AtMostOneLive'
  <2> SUFFICES ASSUME Promise!TypeOK, Promise!AtMostOneLive, [Promise!Next]_phaseOf
               PROVE  Promise!TypeOK' /\ Promise!AtMostOneLive'
    OBVIOUS
  <2> USE DEF Promise!TypeOK, Promise!Phases, Promise!AtMostOneLive, Promise!Move
  <2>1. ASSUME NEW r \in Promise!Run, Promise!Start(r)
        PROVE  Promise!TypeOK' /\ Promise!AtMostOneLive'
    BY <2>1 DEF Promise!Start
  <2>2. ASSUME NEW r \in Promise!Run, Promise!Stop(r)
        PROVE  Promise!TypeOK' /\ Promise!AtMostOneLive'
    BY <2>2 DEF Promise!Stop
  <2>3. ASSUME NEW r \in Promise!Run, Promise!End(r)
        PROVE  Promise!TypeOK' /\ Promise!AtMostOneLive'
    BY <2>3 DEF Promise!End
  <2>4. CASE UNCHANGED phaseOf
    BY <2>4
  <2> QED BY <2>1, <2>2, <2>3, <2>4 DEF Promise!Next
<1> QED BY <1>1, <1>2, PTL DEF Promise!SafeSpec

(* Hence the controller never has two live runs, whatever commands arrive  *)
(* while a run is being replaced by the next.                              *)
THEOREM OneLive == Spec => []Promise!AtMostOneLive
BY Refinement, PromiseMutex, PTL

(***************************************************************************)
(* The result panel, for any tables, columns and filters and any number of *)
(* runs and fetches: its rows, filter and sort agree with its columns, and *)
(* every spinner of a table view has an answer on its way.                 *)
(***************************************************************************)

Closure == [of : {"finished"}, n : 1 .. MaxQueries]
           \cup [of : {"data", "ddl"}, table : Tables, ok : BOOLEAN]

Finished(i) == closures[i].of = "finished"

(* A run is numbered once: it is going on, or its result is queued or      *)
(* shown, never two of them.                                               *)
ShownOnce   == cols # None /\ cols.kind = "query" => cols.n <= queries /\ cols \notin work
WorkStarted == \A w \in work : w.kind = "query" => w.n <= queries
QueuedOnce  == \A i \in DOMAIN closures : Finished(i) =>
                   closures[i].n <= queries /\ Query(closures[i].n) \notin work
Numbered    == ShownOnce /\ WorkStarted /\ QueuedOnce

(* While a result waits to be shown, original_data is under no sort,       *)
(* unless the panel was used in between.                                   *)
Waiting ==
    ~ mixed => \A i \in DOMAIN closures : Finished(i) => orig.sort = Unsorted

(* The parts of the type invariant.                                        *)
TypeTv ==
    /\ views \in Seq(Tables) /\ active \in 0 .. Len(views) /\ IsInjective(views)
    /\ tvTable \in Tables \cup {None} /\ tvDdl \in Tables \cup {None}
    /\ tvLoading \in BOOLEAN /\ ddlLoading \in BOOLEAN

TypeGrid ==
    /\ orig \in [of : Queries, sort : Sorts] \cup {None}
    /\ cols \in Results \cup {None}
    /\ shownRows \in [of : Results, filter : Filters \cup {None}, sort : Sorts] \cup {None}
    /\ filter \in Filters \cup {None} /\ sort \in Sorts
    /\ mixed \in BOOLEAN

TypeWork ==
    /\ work \subseteq Work /\ closures \in Seq(Closure)
    /\ queries \in 0 .. MaxQueries /\ fetches \in 0 .. MaxFetches

PanelInv == TypeTv /\ TypeGrid /\ TypeWork /\ Numbered /\ Waiting /\ PanelCoherent /\ SpinnersHaveCause

LEMMA TypeParts == TypeTv /\ TypeGrid /\ TypeWork => PanelTypeOK
<1> SUFFICES ASSUME TypeTv, TypeGrid, TypeWork PROVE PanelTypeOK
    OBVIOUS
<1>1. Closure = [of : {"finished"}, n : 1 .. MaxQueries]
                \cup [of : {"data", "ddl"}, table : Tables, ok : BOOLEAN]
  BY DEF Closure
<1> QED
  BY Zenon, <1>1 DEF PanelTypeOK, TypeTv, TypeGrid, TypeWork

-----------------------------------------------------------------------------

LEMMA AppendEach ==
    ASSUME NEW S, NEW s \in Seq(S), NEW e \in S
    PROVE  /\ Append(s, e) \in Seq(S)
           /\ Len(Append(s, e)) = Len(s) + 1
           /\ Append(s, e)[Len(s) + 1] = e
           /\ \A i \in DOMAIN s : Append(s, e)[i] = s[i]
           /\ DOMAIN Append(s, e) = DOMAIN s \cup {Len(s) + 1}
OBVIOUS

LEMMA TailEach ==
    ASSUME NEW S, NEW s \in Seq(S), s # <<>>
    PROVE  /\ Tail(s) \in Seq(S) /\ Head(s) \in S
           /\ 1 \in DOMAIN s /\ Head(s) = s[1]
           /\ \A i \in DOMAIN Tail(s) : i + 1 \in DOMAIN s /\ Tail(s)[i] = s[i + 1]
           /\ \A i \in DOMAIN s : i # 1 => i - 1 \in DOMAIN Tail(s) /\ Tail(s)[i - 1] = s[i]
OBVIOUS

LEMMA ConcatEach ==
    ASSUME NEW S, NEW a \in Seq(S), NEW b \in Seq(S)
    PROVE  /\ a \o b \in Seq(S) /\ Len(a \o b) = Len(a) + Len(b)
           /\ \A i \in 1 .. Len(a) + Len(b) : i <= Len(a) => (a \o b)[i] = a[i]
           /\ \A i \in 1 .. Len(a) + Len(b) : ~ (i <= Len(a)) => (a \o b)[i] = b[i - Len(a)]
<1>1. a \o b \in Seq(S)
  OBVIOUS
<1>2. Len(a \o b) = Len(a) + Len(b)
  OBVIOUS
<1>3. \A i \in 1 .. Len(a) + Len(b) : i <= Len(a) => (a \o b)[i] = a[i]
  OBVIOUS
<1>4. \A i \in 1 .. Len(a) + Len(b) : ~ (i <= Len(a)) => (a \o b)[i] = b[i - Len(a)]
  OBVIOUS
<1> QED
  BY <1>1, <1>2, <1>3, <1>4

LEMMA RemoveEach ==
    ASSUME NEW S, NEW s \in Seq(S), NEW k \in DOMAIN s
    PROVE  /\ RemoveAt(s, k) \in Seq(S)
           /\ Len(RemoveAt(s, k)) = Len(s) - 1
           /\ \A i \in 1 .. (Len(s) - 1) :
                 RemoveAt(s, k)[i] = IF i < k THEN s[i] ELSE s[i + 1]
<1>1. Len(s) \in Nat /\ k \in 1 .. Len(s)
  OBVIOUS
<1>2. PICK a, b : a = SubSeq(s, 1, k - 1) /\ b = SubSeq(s, k + 1, Len(s))
  OBVIOUS
<1>3. a \in Seq(S) /\ Len(a) = k - 1 /\ \A i \in 1 .. k - 1 : a[i] = s[i]
  BY <1>1, <1>2
<1>4. b \in Seq(S) /\ Len(b) = Len(s) - k /\ \A i \in 1 .. Len(s) - k : b[i] = s[i + k]
  BY <1>1, <1>2
<1>5. PICK t : t = a \o b
  OBVIOUS
<1>6. /\ t \in Seq(S) /\ Len(t) = Len(a) + Len(b)
      /\ \A i \in 1 .. Len(a) + Len(b) : i <= Len(a) => t[i] = a[i]
      /\ \A i \in 1 .. Len(a) + Len(b) : ~ (i <= Len(a)) => t[i] = b[i - Len(a)]
  <2>1. a \in Seq(S) /\ b \in Seq(S)
    BY <1>3, <1>4
  <2>2. /\ a \o b \in Seq(S) /\ Len(a \o b) = Len(a) + Len(b)
        /\ \A i \in 1 .. Len(a) + Len(b) : i <= Len(a) => (a \o b)[i] = a[i]
        /\ \A i \in 1 .. Len(a) + Len(b) : ~ (i <= Len(a)) => (a \o b)[i] = b[i - Len(a)]
    BY ONLY <2>1, ConcatEach, Zenon
  <2> QED
    BY ONLY <1>5, <2>2, Zenon
<1>7. Len(t) = Len(s) - 1
  BY <1>1, <1>3, <1>4, <1>6
<1>8. ASSUME NEW i \in 1 .. Len(s) - 1, i < k
      PROVE  t[i] = s[i]
  <2>1. i \in 1 .. k - 1 /\ i \in 1 .. Len(a) + Len(b) /\ i <= Len(a)
    BY <1>1, <1>3, <1>4, <1>8
  <2>2. t[i] = a[i]
    BY <1>6, <2>1
  <2>3. a[i] = s[i]
    BY <1>3, <2>1
  <2> QED
    BY <2>2, <2>3
<1>9. ASSUME NEW i \in 1 .. Len(s) - 1, ~ (i < k)
      PROVE  t[i] = s[i + 1]
  <2>1. PICK j : j = i - Len(a)
    OBVIOUS
  <2>2. /\ i \in 1 .. Len(a) + Len(b) /\ ~ (i <= Len(a))
        /\ j \in 1 .. Len(s) - k /\ j + k = i + 1
    BY <1>1, <1>3, <1>4, <1>9, <2>1, SMTT(30)
  <2>3. t[i] = b[j]
    BY <1>6, <2>1, <2>2
  <2>4. b[j] = s[j + k]
    BY <1>4, <2>2
  <2> QED
    BY <2>2, <2>3, <2>4
<1>10. RemoveAt(s, k) = t
  BY <1>2, <1>5 DEF RemoveAt
<1>11. \A i \in 1 .. (Len(s) - 1) : t[i] = IF i < k THEN s[i] ELSE s[i + 1]
  BY <1>8, <1>9
<1>12. t \in Seq(S) /\ Len(t) = Len(s) - 1
  BY <1>6, <1>7
<1> QED
  BY ONLY <1>10, <1>11, <1>12

(* A new view is of a table that has none; closing one moves the others up.*)
LEMMA OpenInjective ==
    ASSUME NEW S, NEW s \in Seq(S), IsInjective(s), NEW e \in S, e \notin Range(s)
    PROVE  IsInjective(Append(s, e))
<1>1. \A i \in DOMAIN s : s[i] # e
  BY DEF Range
<1> QED
  BY <1>1 DEF IsInjective

LEMMA CloseInjective ==
    ASSUME NEW S, NEW s \in Seq(S), IsInjective(s), NEW k \in DOMAIN s
    PROVE  IsInjective(RemoveAt(s, k))
<1>0. \A i, j \in DOMAIN s : s[i] = s[j] => i = j
  BY DEF IsInjective
<1>1. /\ RemoveAt(s, k) \in Seq(S)
      /\ Len(RemoveAt(s, k)) = Len(s) - 1
      /\ \A i \in 1 .. (Len(s) - 1) :
            RemoveAt(s, k)[i] = IF i < k THEN s[i] ELSE s[i + 1]
  BY RemoveEach
<1>2. ASSUME NEW a \in DOMAIN RemoveAt(s, k), NEW b \in DOMAIN RemoveAt(s, k),
             RemoveAt(s, k)[a] = RemoveAt(s, k)[b]
      PROVE  a = b
  <2>1. /\ a \in 1 .. (Len(s) - 1) /\ b \in 1 .. (Len(s) - 1)
        /\ k \in 1 .. Len(s) /\ DOMAIN s = 1 .. Len(s) /\ Len(s) \in Nat
    BY <1>1
  <2>2. CASE a < k /\ b < k
    BY <1>0, <1>1, <1>2, <2>1, <2>2
  <2>3. CASE a < k /\ ~ b < k
    <3>1. s[a] = s[b + 1] /\ b + 1 \in DOMAIN s /\ a \in DOMAIN s
      BY <1>1, <1>2, <2>1, <2>3
    <3> QED
      BY <1>0, <2>1, <2>3, <3>1
  <2>4. CASE ~ a < k /\ b < k
    <3>1. s[a + 1] = s[b] /\ a + 1 \in DOMAIN s /\ b \in DOMAIN s
      BY <1>1, <1>2, <2>1, <2>4, SMTT(30)
    <3> QED
      BY <1>0, <2>1, <2>4, <3>1
  <2>5. CASE ~ a < k /\ ~ b < k
    <3>1. s[a + 1] = s[b + 1] /\ a + 1 \in DOMAIN s /\ b + 1 \in DOMAIN s
      BY <1>1, <1>2, <2>1, <2>5
    <3>2. a + 1 = b + 1
      BY <1>0, <3>1
    <3> QED
      BY <2>1, <3>2
  <2> QED
    BY <2>2, <2>3, <2>4, <2>5
<1> QED
  BY <1>2 DEF IsInjective

LEMMA InitInv == PanelInit => PanelInv
<1> SUFFICES ASSUME PanelInit PROVE PanelInv
    OBVIOUS
<1>1. /\ views = <<>> /\ active = 0
      /\ tvTable = None /\ tvLoading = FALSE /\ tvDdl = None /\ ddlLoading = FALSE
      /\ orig = None
      /\ cols = None /\ shownRows = None /\ filter = None /\ sort = Unsorted
      /\ work = {} /\ closures = <<>>
      /\ mixed = FALSE /\ queries = 0 /\ fetches = 0
  BY Zenon DEF PanelInit
<1>2. Unsorted \in Sorts
  BY DEF Unsorted, Sorts
<1>3. TypeTv
  <2>1. IsInjective(<<>>) /\ <<>> \in Seq(Tables) /\ Len(<<>>) = 0
    BY DEF IsInjective
  <2>3. 0 \in 0 .. 0
    OBVIOUS
  <2>2. views \in Seq(Tables) /\ active \in 0 .. Len(views) /\ IsInjective(views)
    BY Zenon, <1>1, <2>1, <2>3
  <2> QED
    BY <1>1, <2>2 DEF TypeTv
<1>4. TypeGrid
  BY <1>1, <1>2 DEF TypeGrid
<1>5. TypeWork
  BY <1>1, BoundsNat DEF TypeWork
<1>6. Numbered /\ Waiting /\ PanelCoherent
  BY <1>1 DEF Numbered, ShownOnce, WorkStarted, QueuedOnce, Waiting, PanelCoherent
<1>7. SpinnersHaveCause
  BY <1>1 DEF SpinnersHaveCause
<1> QED
  BY <1>3, <1>4, <1>5, <1>6, <1>7 DEF PanelInv

-----------------------------------------------------------------------------
(* Types, part by part.                                                    *)

LEMMA TypeTvNext == ASSUME TypeTv, TypeWork, [PanelNext]_panelVars PROVE TypeTv'
<1>1. ASSUME NEW t \in Tables, OpenTable(t) PROVE TypeTv'
  <2>1. CASE find_table_view(t)
    <3>1. active' \in DOMAIN views /\ views' = views
      BY <1>1, <2>1 DEF OpenTable
    <3>2. active' \in 0 .. Len(views)
      BY <3>1 DEF TypeTv
    <3>3. tvTable' = t /\ tvDdl' = None /\ ddlLoading' = FALSE /\ tvLoading' = FALSE
      BY <1>1, <2>1 DEF OpenTable
    <3> QED
      BY <3>1, <3>2, <3>3 DEF TypeTv
  <2>2. CASE ~ find_table_view(t)
    <3>1. views' = Append(views, t) /\ active' = Len(views')
      BY <1>1, <2>2 DEF OpenTable
    <3>2. views \in Seq(Tables) /\ IsInjective(views) /\ t \notin Range(views)
      BY <2>2 DEF TypeTv, find_table_view
    <3>3. IsInjective(Append(views, t))
      BY Zenon, <1>1, <3>2, OpenInjective
    <3>4. Append(views, t) \in Seq(Tables) /\ Len(Append(views, t)) \in Nat
      BY <3>2
    <3>5. tvTable' = t /\ tvDdl' = None /\ ddlLoading' = FALSE /\ tvLoading' = TRUE
      BY <1>1, <2>2 DEF OpenTable
    <3>6. active' \in 0 .. Len(views')
      BY <3>1, <3>4
    <3> QED
      BY <3>1, <3>3, <3>4, <3>5, <3>6 DEF TypeTv
  <2> QED
    BY <2>1, <2>2
<1>2. ASSUME NEW i \in 0 .. Len(views), SwitchTab(i) PROVE TypeTv'
  BY <1>2 DEF SwitchTab, TypeTv
<1>3. ASSUME NEW i \in DOMAIN views, CloseView(i) PROVE TypeTv'
  <2>1. views' \in Seq(Tables) /\ Len(views') = Len(views) - 1
    BY <1>3, RemoveEach DEF CloseView, TypeTv
  <2>2. IsInjective(views')
    BY <1>3, CloseInjective DEF CloseView, TypeTv
  <2>3. active' \in 0 .. Len(views')
    BY <1>3, <2>1 DEF CloseView, TypeTv
  <2> QED
    BY <1>3, <2>1, <2>2, <2>3 DEF CloseView, TypeTv
<1>4. CASE RefreshData \/ FetchDdl
  BY <1>4 DEF RefreshData, FetchDdl, TypeTv
<1>5. CASE RunClosure
  <2>1. Head(closures) \in Closure /\ UNCHANGED <<views, active, tvTable>>
    BY <1>5, TailEach DEF RunClosure, TypeWork
  <2>2. tvDdl' \in Tables \cup {None} /\ tvLoading' \in BOOLEAN /\ ddlLoading' \in BOOLEAN
    BY <1>5, <2>1 DEF RunClosure, ShowResult, ShowData, ShowDdl, TypeTv, Closure
  <2> QED
    BY <2>1, <2>2 DEF TypeTv
<1>6. ASSUME UNCHANGED tvVars PROVE TypeTv'
  BY <1>6 DEF tvVars, TypeTv
<1>7. CASE RunQuery \/ (\E f \in Filters \cup {None} : FilterRows(f))
           \/ (\E c \in Columns : SortRows(c)) \/ Arrive
  BY <1>6, <1>7 DEF RunQuery, FilterRows, SortRows, PanelUnchanged, Arrive, QueryFinished,
                    QueryFailed, Fetched, ArriveUnchanged
<1>8. CASE UNCHANGED panelVars
  BY <1>6, <1>8 DEF panelVars
<1> QED
  BY <1>1, <1>2, <1>3, <1>4, <1>5, <1>7, <1>8 DEF PanelNext, User

LEMMA RowsType ==
    \A r \in Results, f \in Filters \cup {None}, s \in Sorts :
       Rows(r, f, s) \in [of : Results, filter : Filters \cup {None}, sort : Sorts]
BY DEF Rows

LEMMA ToggledType ==
    ASSUME TypeGrid, orig # None, NEW c \in Columns PROVE Toggled(c) \in Sorts
BY DEF TypeGrid, Toggled, Sorts

LEMMA TypeGridNext == ASSUME TypeGrid, TypeWork, [PanelNext]_panelVars PROVE TypeGrid'
<1>0. orig # None => orig.of \in Results /\ orig.of \in Queries /\ orig.sort \in Sorts
  BY DEF TypeGrid, Results, Queries
<1>1. ASSUME NEW f \in Filters \cup {None}, FilterRows(f) PROVE TypeGrid'
  BY <1>0, <1>1, RowsType DEF FilterRows, TypeGrid, Behind
<1>2. ASSUME NEW c \in Columns, SortRows(c) PROVE TypeGrid'
  <2>1. Toggled(c) \in Sorts
    BY <1>2, ToggledType DEF SortRows
  <2>2. orig' \in [of : Queries, sort : Sorts]
    BY <1>0, <1>2, <2>1 DEF SortRows, TypeGrid
  <2>3. shownRows' \in [of : Results, filter : Filters \cup {None}, sort : Sorts]
    BY <1>0, <1>2, <2>1, RowsType DEF SortRows, TypeGrid
  <2> QED
    BY <1>2, <2>1, <2>2, <2>3 DEF SortRows, TypeGrid, Behind
<1>3. ASSUME NEW w \in work, QueryFinished(w) PROVE TypeGrid'
  <2>1. w \in Queries
    BY <1>3 DEF QueryFinished, TypeWork, Work, Queries
  <2>2. Unsorted \in Sorts
    BY DEF Unsorted, Sorts
  <2>3. orig' \in [of : Queries, sort : Sorts]
    BY <1>3, <2>1, <2>2 DEF QueryFinished
  <2> QED
    BY <1>3, <2>3 DEF QueryFinished, ArriveUnchanged, gridVars, TypeGrid
<1>4. CASE RunClosure
  <2>1. Head(closures) \in Closure /\ UNCHANGED <<orig, mixed>>
    BY <1>4, TailEach DEF RunClosure, TypeWork
  <2>2. Unsorted \in Sorts
    BY DEF Unsorted, Sorts
  <2>3. ASSUME Head(closures).of = "finished", ShowResult(Head(closures).n) PROVE TypeGrid'
    <3>1. Query(Head(closures).n) \in Results
      BY <2>1, <2>3 DEF Closure, Query, Results, Queries
    <3> QED
      BY <2>1, <2>2, <2>3, <3>1, RowsType DEF ShowResult, TypeGrid
  <2>4. ASSUME Head(closures).of = "data", ShowData(Head(closures)) PROVE TypeGrid'
    <3>1. Table(Head(closures).table) \in Results
      BY <2>1, <2>4 DEF Closure, Table, Results
    <3> QED
      BY <2>1, <2>2, <2>4, <3>1, RowsType DEF ShowData, TypeGrid
  <2>5. ASSUME ShowDdl(Head(closures)) PROVE TypeGrid'
    BY <2>1, <2>5 DEF ShowDdl, gridVars, TypeGrid
  <2> QED
    BY <1>4, <2>3, <2>4, <2>5 DEF RunClosure
<1>5. ASSUME UNCHANGED <<orig, gridVars, mixed>> PROVE TypeGrid'
  BY <1>5 DEF gridVars, TypeGrid
<1>6. CASE RunQuery \/ (\E t \in Tables : OpenTable(t)) \/ (\E i \in 0 .. Len(views) : SwitchTab(i))
           \/ (\E i \in DOMAIN views : CloseView(i)) \/ RefreshData \/ FetchDdl
  BY <1>5, <1>6 DEF RunQuery, OpenTable, SwitchTab, CloseView, RefreshData, FetchDdl, TvUnchanged
<1>7. ASSUME NEW w \in work, QueryFailed(w) \/ Fetched(w) PROVE TypeGrid'
  BY <1>5, <1>7 DEF QueryFailed, Fetched, ArriveUnchanged
<1>8. CASE UNCHANGED panelVars
  BY <1>5, <1>8 DEF panelVars
<1> QED
  BY <1>1, <1>2, <1>3, <1>4, <1>6, <1>7, <1>8 DEF PanelNext, User, Arrive

LEMMA FetchType ==
    ASSUME TypeWork, NEW kind \in {"data", "ddl"}, NEW t \in Tables, Fetch(kind, t)
    PROVE  work' \subseteq Work /\ fetches' \in 0 .. MaxFetches
<1>1. fetches' = fetches + 1 /\ fetches' \in 1 .. MaxFetches
  BY BoundsNat DEF Fetch, TypeWork
<1>2. [kind |-> kind, table |-> t, n |-> fetches'] \in Work
  BY <1>1 DEF Work
<1> QED
  BY <1>1, <1>2 DEF Fetch, TypeWork

LEMMA TypeWorkNext == ASSUME TypeTv, TypeWork, [PanelNext]_panelVars PROVE TypeWork'
<1>1. CASE RunQuery
  <2>1. queries' = queries + 1 /\ queries' \in 1 .. MaxQueries
    BY <1>1, BoundsNat DEF RunQuery, TypeWork
  <2>2. Query(queries') \in Work
    BY <2>1 DEF Query, Work
  <2> QED
    BY <1>1, <2>1, <2>2 DEF RunQuery, TypeWork
<1>2. ASSUME NEW t \in Tables, OpenTable(t) PROVE TypeWork'
  <2>1. work' \subseteq Work /\ fetches' \in 0 .. MaxFetches
    BY <1>2, FetchType DEF OpenTable, TypeWork
  <2> QED
    BY <1>2, <2>1 DEF OpenTable, TvUnchanged, TypeWork
<1>3. CASE RefreshData \/ FetchDdl
  <2>1. tvTable \in Tables
    BY <1>3 DEF RefreshData, FetchDdl, find_table_view, Range, TypeTv
  <2>2. work' \subseteq Work /\ fetches' \in 0 .. MaxFetches
    BY <1>3, <2>1, FetchType DEF RefreshData, FetchDdl
  <2> QED
    BY <1>3, <2>2 DEF RefreshData, FetchDdl, TvUnchanged, TypeWork
<1>4. ASSUME NEW w \in work, QueryFinished(w) PROVE TypeWork'
  <2>1. [of |-> "finished", n |-> w.n] \in Closure
    BY <1>4 DEF QueryFinished, TypeWork, Work, Closure
  <2>2. closures' \in Seq(Closure)
    BY <1>4, <2>1, AppendEach DEF QueryFinished, TypeWork
  <2> QED
    BY <1>4, <2>2 DEF QueryFinished, ArriveUnchanged, TypeWork
<1>5. ASSUME NEW w \in work, QueryFailed(w) PROVE TypeWork'
  BY <1>5 DEF QueryFailed, ArriveUnchanged, TypeWork
<1>6. ASSUME NEW w \in work, Fetched(w) PROVE TypeWork'
  <2>1. PICK ok \in BOOLEAN :
          closures' = Append(closures, [of |-> w.kind, table |-> w.table, ok |-> ok])
    BY <1>6 DEF Fetched
  <2>2. [of |-> w.kind, table |-> w.table, ok |-> ok] \in Closure
    BY <1>6 DEF Fetched, TypeWork, Work, Closure
  <2>3. closures' \in Seq(Closure)
    BY <2>1, <2>2, AppendEach DEF TypeWork
  <2> QED
    BY <1>6, <2>3 DEF Fetched, ArriveUnchanged, TypeWork
<1>7. CASE RunClosure
  BY <1>7, TailEach DEF RunClosure, TypeWork
<1>8. ASSUME UNCHANGED <<work, closures, queries, fetches>> PROVE TypeWork'
  BY <1>8 DEF TypeWork
<1>9. CASE (\E f \in Filters \cup {None} : FilterRows(f)) \/ (\E c \in Columns : SortRows(c))
           \/ (\E i \in 0 .. Len(views) : SwitchTab(i)) \/ (\E i \in DOMAIN views : CloseView(i))
  BY <1>8, <1>9 DEF FilterRows, SortRows, SwitchTab, CloseView, PanelUnchanged, TvUnchanged
<1>10. CASE UNCHANGED panelVars
  BY <1>8, <1>10 DEF panelVars
<1> QED
  BY <1>1, <1>2, <1>3, <1>4, <1>5, <1>6, <1>7, <1>9, <1>10 DEF PanelNext, User, Arrive

-----------------------------------------------------------------------------
(* Every run has one number and is in one place.                           *)

LEMMA NumberedKept ==
    ASSUME Numbered, UNCHANGED <<cols, closures, queries>>,
           \A w \in work' : w \in work \/ w.kind # "query"
    PROVE  Numbered'
<1>1. ShownOnce' /\ WorkStarted'
  BY DEF Numbered, ShownOnce, WorkStarted
<1>2. QueuedOnce'
  BY DEF Numbered, QueuedOnce, Finished, Query
<1> QED
  BY <1>1, <1>2 DEF Numbered

LEMMA NumberedNext ==
    ASSUME TypeGrid, TypeWork, Numbered, [PanelNext]_panelVars
    PROVE  Numbered'
<1>0. /\ queries \in Nat
      /\ cols # None /\ cols.kind = "query" => cols.n \in Nat
      /\ \A w \in work : w.kind = "query" => w.n \in Nat /\ w = Query(w.n)
      /\ \A i \in DOMAIN closures : closures[i] \in Closure
      /\ \A i \in DOMAIN closures : Finished(i) => closures[i].n \in Nat
  <2>1. \A w \in work : w.kind = "query" => w.n \in Nat /\ w = Query(w.n)
    BY DEF TypeWork, Work, Query
  <2>2. \A i \in DOMAIN closures : closures[i] \in Closure
    BY DEF TypeWork
  <2>3. cols # None /\ cols.kind = "query" => cols.n \in Nat
    BY DEF TypeGrid, Results, Queries
  <2> QED
    BY <2>1, <2>2, <2>3 DEF TypeWork, Closure, Finished
<1>1. CASE RunQuery
  <2>1. /\ queries' = queries + 1
        /\ work' = work \cup {Query(queries')} /\ UNCHANGED <<cols, closures>>
    BY <1>1 DEF RunQuery, gridVars
  <2>2. Query(queries').n = queries + 1 /\ queries' \in Nat
    BY <1>0, <2>1 DEF Query
  <2>3. ShownOnce'
    BY <1>0, <2>1, <2>2 DEF Numbered, ShownOnce
  <2>4. WorkStarted'
    BY <1>0, <2>1, <2>2 DEF Numbered, WorkStarted
  <2>5. ASSUME NEW i \in DOMAIN closures, Finished(i)
        PROVE  closures[i].n <= queries' /\ Query(closures[i].n) \notin work'
    <3>1. closures[i].n <= queries /\ Query(closures[i].n) \notin work
      BY <2>5 DEF Numbered, QueuedOnce
    <3>2. Query(closures[i].n).n = closures[i].n /\ closures[i].n \in Nat
      BY <1>0, <2>5 DEF Query
    <3> QED
      BY <1>0, <2>1, <2>2, <3>1, <3>2
  <2>6. QueuedOnce'
    BY <2>1, <2>5 DEF QueuedOnce, Finished
  <2> QED
    BY <2>3, <2>4, <2>6 DEF Numbered
<1>2. ASSUME NEW w \in work, QueryFinished(w) PROVE Numbered'
  <2>1. /\ work' = work \ {w} /\ UNCHANGED <<cols, queries>> /\ w.kind = "query"
        /\ closures' = Append(closures, [of |-> "finished", n |-> w.n])
    BY <1>2 DEF QueryFinished, ArriveUnchanged, gridVars
  <2>2. w.n <= queries /\ w = Query(w.n)
    BY <1>0, <2>1 DEF Numbered, WorkStarted
  <2>3. [of |-> "finished", n |-> w.n] \in Closure
    BY <2>1 DEF TypeWork, Work, Closure
  <2>4. ShownOnce' /\ WorkStarted'
    BY <2>1 DEF Numbered, ShownOnce, WorkStarted
  <2>5. /\ DOMAIN closures' = DOMAIN closures \cup {Len(closures) + 1}
        /\ closures'[Len(closures) + 1].n = w.n
        /\ \A i \in DOMAIN closures : closures'[i] = closures[i]
    BY <2>1, <2>3, AppendEach DEF TypeWork
  <2>6. ASSUME NEW i \in DOMAIN closures', closures'[i].of = "finished"
        PROVE  closures'[i].n <= queries /\ Query(closures'[i].n) \notin work'
    <3>1. CASE i = Len(closures) + 1
      BY <2>1, <2>2, <2>5, <3>1
    <3>2. CASE i \in DOMAIN closures
      BY <2>1, <2>5, <2>6, <3>2 DEF Numbered, QueuedOnce, Finished
    <3> QED
      BY <2>5, <3>1, <3>2
  <2>7. QueuedOnce'
    BY <2>1, <2>6 DEF QueuedOnce, Finished
  <2> QED
    BY <2>4, <2>7 DEF Numbered
<1>3. ASSUME NEW w \in work, Fetched(w) PROVE Numbered'
  <2>1. /\ work' = work \ {w} /\ UNCHANGED <<cols, queries>> /\ w.kind \in {"data", "ddl"}
    BY <1>3 DEF Fetched, ArriveUnchanged, gridVars
  <2>2. PICK ok \in BOOLEAN :
          closures' = Append(closures, [of |-> w.kind, table |-> w.table, ok |-> ok])
    BY <1>3 DEF Fetched
  <2>3. [of |-> w.kind, table |-> w.table, ok |-> ok] \in Closure
    BY <2>1 DEF TypeWork, Work, Closure
  <2>4. ShownOnce' /\ WorkStarted'
    BY <2>1 DEF Numbered, ShownOnce, WorkStarted
  <2>5. /\ DOMAIN closures' = DOMAIN closures \cup {Len(closures) + 1}
        /\ closures'[Len(closures) + 1].of # "finished"
        /\ \A i \in DOMAIN closures : closures'[i] = closures[i]
    BY <2>1, <2>2, <2>3, AppendEach DEF TypeWork
  <2>6. QueuedOnce'
    BY <2>1, <2>5 DEF Numbered, QueuedOnce, Finished, Query
  <2> QED
    BY <2>4, <2>6 DEF Numbered
<1>4. CASE RunClosure
  <2>1. /\ closures # <<>> /\ closures' = Tail(closures) /\ closures \in Seq(Closure)
        /\ UNCHANGED <<work, queries>>
    BY <1>4 DEF RunClosure, TypeWork
  <2>2. \A i \in DOMAIN closures' : i + 1 \in DOMAIN closures /\ closures'[i] = closures[i + 1]
    BY <2>1, TailEach
  <2>3. WorkStarted' /\ QueuedOnce'
    BY <2>1, <2>2 DEF Numbered, WorkStarted, QueuedOnce, Finished, Query
  <2>4. 1 \in DOMAIN closures /\ Head(closures) = closures[1]
    BY <2>1, TailEach
  <2>5. ASSUME Head(closures).of = "finished", ShowResult(Head(closures).n) PROVE ShownOnce'
    <3>1. cols' = Query(Head(closures).n)
      BY <2>5 DEF ShowResult
    <3>2. Head(closures).n <= queries /\ Query(Head(closures).n) \notin work
      BY <2>4, <2>5 DEF Numbered, QueuedOnce, Finished
    <3>3. Query(Head(closures).n).n = Head(closures).n
      BY DEF Query
    <3> QED
      BY <2>1, <3>1, <3>2, <3>3 DEF ShownOnce
  <2>6. ASSUME ShowData(Head(closures)) PROVE ShownOnce'
    <3>1. Table(Head(closures).table).kind # "query"
      BY DEF Table
    <3>2. cols' = Table(Head(closures).table) \/ cols' = cols
      BY <2>6 DEF ShowData
    <3> QED
      BY <2>1, <3>1, <3>2 DEF Numbered, ShownOnce
  <2>7. ASSUME ShowDdl(Head(closures)) PROVE ShownOnce'
    BY <2>1, <2>7 DEF ShowDdl, gridVars, Numbered, ShownOnce
  <2>8. ShownOnce'
    BY <1>4, <2>5, <2>6, <2>7 DEF RunClosure
  <2> QED
    BY <2>3, <2>8 DEF Numbered
<1>5. ASSUME NEW kind \in {"data", "ddl"}, NEW t, Fetch(kind, t), UNCHANGED <<cols, closures, queries>>
      PROVE  Numbered'
  <2>1. work' = work \cup {[kind |-> kind, table |-> t, n |-> fetches']}
    BY <1>5 DEF Fetch
  <2>2. \A w \in work' : w \in work \/ w.kind # "query"
    BY <2>1
  <2> QED
    BY <1>5, <2>2, NumberedKept
<1>6. ASSUME NEW t \in Tables, OpenTable(t) PROVE Numbered'
  <2>1. UNCHANGED <<cols, closures, queries>>
    BY <1>6 DEF OpenTable, TvUnchanged, gridVars
  <2>2. CASE work' = work
    BY <2>1, <2>2, NumberedKept
  <2>3. CASE Fetch("data", t)
    BY <1>5, <2>1, <2>3
  <2> QED
    BY <1>6, <2>2, <2>3 DEF OpenTable
<1>7. CASE RefreshData \/ FetchDdl
  <2>1. UNCHANGED <<cols, closures, queries>>
    BY <1>7 DEF RefreshData, FetchDdl, TvUnchanged, gridVars
  <2>2. Fetch("data", tvTable) \/ Fetch("ddl", tvTable)
    BY <1>7 DEF RefreshData, FetchDdl
  <2> QED
    BY <1>5, <2>1, <2>2
<1>8. ASSUME UNCHANGED <<cols, closures, queries>>, work' \subseteq work PROVE Numbered'
  BY <1>8, NumberedKept
<1>9. ASSUME NEW w \in work, QueryFailed(w) PROVE Numbered'
  BY <1>8, <1>9 DEF QueryFailed, ArriveUnchanged, gridVars
<1>10. CASE (\E f \in Filters \cup {None} : FilterRows(f)) \/ (\E c \in Columns : SortRows(c))
            \/ (\E i \in 0 .. Len(views) : SwitchTab(i)) \/ (\E i \in DOMAIN views : CloseView(i))
  BY <1>8, <1>10 DEF FilterRows, SortRows, SwitchTab, CloseView, PanelUnchanged, TvUnchanged,
                     gridVars
<1>11. CASE UNCHANGED panelVars
  BY <1>8, <1>11 DEF panelVars, gridVars
<1> QED
  BY <1>1, <1>2, <1>3, <1>4, <1>6, <1>7, <1>9, <1>10, <1>11 DEF PanelNext, User, Arrive

-----------------------------------------------------------------------------
(* The panel.                                                              *)

LEMMA WaitingNext == ASSUME TypeGrid, TypeWork, Waiting, [PanelNext]_panelVars PROVE Waiting'
<1>1. ASSUME UNCHANGED <<orig, closures, mixed>> PROVE Waiting'
  BY <1>1 DEF Waiting, Finished
<1>2. ASSUME NEW f \in Filters \cup {None}, FilterRows(f) PROVE Waiting'
  <2>1. mixed' = (mixed \/ Behind) /\ UNCHANGED <<orig, closures>>
    BY <1>2 DEF FilterRows, PanelUnchanged
  <2> QED
    BY <2>1 DEF Waiting, Finished, TypeGrid
<1>3. ASSUME NEW c \in Columns, SortRows(c) PROVE Waiting'
  <2>1. mixed' = (mixed \/ Behind) /\ closures' = closures
    BY <1>3 DEF SortRows, PanelUnchanged
  <2>2. ~ mixed' => \A i \in DOMAIN closures : ~ Finished(i)
    BY <2>1 DEF Behind, Finished, TypeGrid
  <2> QED
    BY <2>1, <2>2 DEF Waiting, Finished
<1>4. ASSUME NEW w \in work, QueryFinished(w) PROVE Waiting'
  <2>1. orig' = [of |-> w, sort |-> Unsorted]
    BY <1>4 DEF QueryFinished
  <2> QED
    BY <2>1 DEF Waiting
<1>5. ASSUME NEW w \in work, Fetched(w) PROVE Waiting'
  <2>1. UNCHANGED <<orig, mixed>> /\ w.kind \in {"data", "ddl"}
    BY <1>5 DEF Fetched, ArriveUnchanged
  <2>2. PICK ok \in BOOLEAN :
          closures' = Append(closures, [of |-> w.kind, table |-> w.table, ok |-> ok])
    BY <1>5 DEF Fetched
  <2>3. [of |-> w.kind, table |-> w.table, ok |-> ok] \in Closure
    BY <2>1 DEF TypeWork, Work, Closure
  <2>4. /\ DOMAIN closures' = DOMAIN closures \cup {Len(closures) + 1}
        /\ closures'[Len(closures) + 1].of # "finished"
        /\ \A i \in DOMAIN closures : closures'[i] = closures[i]
    BY <2>1, <2>2, <2>3, AppendEach DEF TypeWork
  <2> QED
    BY <2>1, <2>4 DEF Waiting, Finished
<1>6. CASE RunClosure
  <2>1. UNCHANGED <<orig, mixed>>
        /\ \A i \in DOMAIN closures' : i + 1 \in DOMAIN closures /\ closures'[i] = closures[i + 1]
    BY <1>6, TailEach DEF RunClosure, TypeWork
  <2> QED
    BY <2>1 DEF Waiting, Finished
<1>7. CASE RunQuery \/ (\E t \in Tables : OpenTable(t)) \/ (\E i \in 0 .. Len(views) : SwitchTab(i))
           \/ (\E i \in DOMAIN views : CloseView(i)) \/ RefreshData \/ FetchDdl
  BY <1>1, <1>7 DEF RunQuery, OpenTable, SwitchTab, CloseView, RefreshData, FetchDdl, TvUnchanged
<1>8. ASSUME NEW w \in work, QueryFailed(w) PROVE Waiting'
  BY <1>1, <1>8 DEF QueryFailed, ArriveUnchanged
<1>9. CASE UNCHANGED panelVars
  BY <1>1, <1>9 DEF panelVars
<1> QED
  BY <1>2, <1>3, <1>4, <1>5, <1>6, <1>7, <1>8, <1>9 DEF PanelNext, User, Arrive

LEMMA CoherentNext ==
    ASSUME TypeGrid, TypeWork, Numbered, Waiting, PanelCoherent, [PanelNext]_panelVars
    PROVE  PanelCoherent'
<1>1. ASSUME UNCHANGED <<orig, gridVars, mixed>> PROVE PanelCoherent'
  BY <1>1 DEF gridVars, PanelCoherent
<1>2. ASSUME NEW f \in Filters \cup {None}, FilterRows(f) PROVE PanelCoherent'
  <2>1. /\ shownRows' = Rows(orig.of, f, orig.sort) /\ filter' = f
        /\ UNCHANGED <<orig, cols, sort>> /\ mixed' = (mixed \/ Behind)
    BY <1>2 DEF FilterRows
  <2>2. ~ mixed' => ~ mixed /\ cols = orig.of
    BY <2>1 DEF Behind, TypeGrid
  <2> QED
    BY <2>1, <2>2 DEF PanelCoherent
<1>3. ASSUME NEW c \in Columns, SortRows(c) PROVE PanelCoherent'
  <2>1. /\ orig' = [orig EXCEPT !.sort = Toggled(c)] /\ shownRows' = Rows(orig.of, filter, Toggled(c))
        /\ sort' = Toggled(c) /\ UNCHANGED <<cols, filter>> /\ mixed' = (mixed \/ Behind)
        /\ orig # None
    BY <1>3 DEF SortRows
  <2>2. ~ mixed' => cols = orig.of
    BY <2>1 DEF Behind, TypeGrid
  <2>3. orig'.sort = Toggled(c)
    BY <2>1 DEF TypeGrid
  <2> QED
    BY <2>1, <2>2, <2>3 DEF PanelCoherent
<1>4. ASSUME NEW w \in work, QueryFinished(w) PROVE PanelCoherent'
  <2>1. orig' = [of |-> w, sort |-> Unsorted] /\ UNCHANGED <<gridVars, mixed>>
    BY <1>4 DEF QueryFinished, ArriveUnchanged
  <2>2. cols # None /\ cols.kind = "query" => cols # w
    BY <1>4 DEF Numbered, ShownOnce
  <2> QED
    BY <2>1, <2>2 DEF PanelCoherent, gridVars
<1>5. CASE RunClosure
  <2>1. UNCHANGED <<orig, mixed>>
    BY <1>5 DEF RunClosure
  <2>2. ASSUME Head(closures).of = "finished", ShowResult(Head(closures).n) PROVE PanelCoherent'
    <3>1. ~ mixed => orig.sort = Unsorted
      BY <1>5, <2>2, TailEach DEF RunClosure, TypeWork, Waiting, Finished
    <3> QED
      BY <2>1, <2>2, <3>1 DEF ShowResult, PanelCoherent
  <2>3. ASSUME ShowData(Head(closures)) PROVE PanelCoherent'
    <3>1. CASE Head(closures).ok
      <4>1. cols' = Table(Head(closures).table)
        BY <2>3, <3>1 DEF ShowData
      <4>2. Table(Head(closures).table).kind # "query"
        BY DEF Table
      <4> QED
        BY <4>1, <4>2 DEF PanelCoherent
    <3>2. CASE ~ Head(closures).ok
      BY <2>1, <2>3, <3>2 DEF ShowData, PanelCoherent
    <3> QED
      BY <3>1, <3>2
  <2>4. ASSUME ShowDdl(Head(closures)) PROVE PanelCoherent'
    BY <1>1, <2>1, <2>4 DEF ShowDdl
  <2> QED
    BY <1>5, <2>2, <2>3, <2>4 DEF RunClosure
<1>6. CASE RunQuery \/ (\E t \in Tables : OpenTable(t)) \/ (\E i \in 0 .. Len(views) : SwitchTab(i))
           \/ (\E i \in DOMAIN views : CloseView(i)) \/ RefreshData \/ FetchDdl
  BY <1>1, <1>6 DEF RunQuery, OpenTable, SwitchTab, CloseView, RefreshData, FetchDdl, TvUnchanged
<1>7. ASSUME NEW w \in work, QueryFailed(w) \/ Fetched(w) PROVE PanelCoherent'
  BY <1>1, <1>7 DEF QueryFailed, Fetched, ArriveUnchanged
<1>8. CASE UNCHANGED panelVars
  BY <1>1, <1>8 DEF panelVars
<1> QED
  BY <1>2, <1>3, <1>4, <1>5, <1>6, <1>7, <1>8 DEF PanelNext, User, Arrive

-----------------------------------------------------------------------------
(* The spinners.                                                           *)

(* An answer of this kind is on its way.                                   *)
Coming(kind) == (\E w \in work : w.kind = kind) \/ (\E i \in DOMAIN closures : closures[i].of = kind)

LEMMA CauseMeans ==
    SpinnersHaveCause <=> (tvLoading => Coming("data")) /\ (ddlLoading => Coming("ddl"))
BY DEF SpinnersHaveCause, Coming

(* What is on its way stays so until its closure runs.                     *)
LEMMA ComingNext ==
    ASSUME TypeWork, NEW kind \in {"data", "ddl"}, Coming(kind), [PanelNext]_panelVars,
           RunClosure => Head(closures).of # kind
    PROVE  Coming(kind)'
<1>1. ASSUME UNCHANGED closures, work \subseteq work' PROVE Coming(kind)'
  BY <1>1 DEF Coming
<1>2. ASSUME NEW w \in work, work' = work \ {w}, w.kind # kind,
             UNCHANGED closures \/ \E c \in Closure : closures' = Append(closures, c)
      PROVE  Coming(kind)'
  BY <1>2, AppendEach DEF Coming, TypeWork
<1>3. ASSUME NEW w \in work, Fetched(w) PROVE Coming(kind)'
  <2>1. work' = work \ {w} /\ w.kind \in {"data", "ddl"}
    BY <1>3 DEF Fetched
  <2>2. PICK ok \in BOOLEAN :
          closures' = Append(closures, [of |-> w.kind, table |-> w.table, ok |-> ok])
    BY <1>3 DEF Fetched
  <2>3. [of |-> w.kind, table |-> w.table, ok |-> ok] \in Closure
    BY <2>1 DEF TypeWork, Work, Closure
  <2>4. CASE w.kind # kind
    BY <1>2, <2>1, <2>2, <2>3, <2>4
  <2>5. CASE w.kind = kind
    BY <2>2, <2>3, <2>5, AppendEach DEF Coming, TypeWork
  <2> QED
    BY <2>4, <2>5
<1>4. ASSUME NEW w \in work, QueryFinished(w) PROVE Coming(kind)'
  <2>1. [of |-> "finished", n |-> w.n] \in Closure
    BY <1>4 DEF QueryFinished, TypeWork, Work, Closure
  <2> QED
    BY <1>2, <1>4, <2>1 DEF QueryFinished
<1>5. ASSUME NEW w \in work, QueryFailed(w) PROVE Coming(kind)'
  BY <1>2, <1>5 DEF QueryFailed
<1>6. CASE RunClosure
  <2>1. /\ UNCHANGED work
        /\ 1 \in DOMAIN closures /\ Head(closures) = closures[1]
        /\ \A i \in DOMAIN closures : i # 1 =>
              i - 1 \in DOMAIN closures' /\ closures'[i - 1] = closures[i]
    BY <1>6, TailEach DEF RunClosure, TypeWork
  <2> QED
    BY <1>6, <2>1 DEF Coming
<1>7. CASE RunQuery \/ RefreshData \/ FetchDdl \/ (\E t \in Tables : OpenTable(t))
  <2>1. UNCHANGED closures /\ work \subseteq work'
    BY <1>7 DEF RunQuery, RefreshData, FetchDdl, OpenTable, Fetch, TvUnchanged
  <2> QED
    BY <1>1, <2>1
<1>8. CASE (\E f \in Filters \cup {None} : FilterRows(f)) \/ (\E c \in Columns : SortRows(c))
           \/ (\E i \in 0 .. Len(views) : SwitchTab(i)) \/ (\E i \in DOMAIN views : CloseView(i))
  BY <1>1, <1>8 DEF FilterRows, SortRows, SwitchTab, CloseView, PanelUnchanged, TvUnchanged
<1>9. CASE UNCHANGED panelVars
  BY <1>1, <1>9 DEF panelVars
<1> QED
  BY <1>3, <1>4, <1>5, <1>6, <1>7, <1>8, <1>9 DEF PanelNext, User, Arrive

(* A spinner starts with a fetch and stops with its answer.                *)
LEMMA SpinnersNext ==
    ASSUME TypeTv, TypeWork, SpinnersHaveCause, [PanelNext]_panelVars PROVE SpinnersHaveCause'
<1>1. ASSUME tvLoading', ~ tvLoading PROVE Coming("data")'
  <2>1. PICK t : Fetch("data", t)
    BY <1>1 DEF PanelNext, User, Arrive, RunQuery, FilterRows, SortRows, OpenTable, SwitchTab,
                CloseView, RefreshData, FetchDdl, QueryFinished, QueryFailed, Fetched, RunClosure,
                ShowResult, ShowData, ShowDdl, PanelUnchanged, ArriveUnchanged, tvVars, panelVars
  <2>2. PICK w : w = [kind |-> "data", table |-> t, n |-> fetches']
    OBVIOUS
  <2>3. w \in work' /\ w.kind = "data"
    BY <2>1, <2>2 DEF Fetch
  <2> QED
    BY <2>3 DEF Coming
<1>2. ASSUME ddlLoading', ~ ddlLoading PROVE Coming("ddl")'
  <2>1. PICK t : Fetch("ddl", t)
    BY <1>2 DEF PanelNext, User, Arrive, RunQuery, FilterRows, SortRows, OpenTable, SwitchTab,
                CloseView, RefreshData, FetchDdl, QueryFinished, QueryFailed, Fetched, RunClosure,
                ShowResult, ShowData, ShowDdl, PanelUnchanged, ArriveUnchanged, tvVars, panelVars
  <2>2. PICK w : w = [kind |-> "ddl", table |-> t, n |-> fetches']
    OBVIOUS
  <2>3. w \in work' /\ w.kind = "ddl"
    BY <2>1, <2>2 DEF Fetch
  <2> QED
    BY <2>3 DEF Coming
<1>3. RunClosure /\ Head(closures).of = "data" => ~ tvLoading'
  BY DEF RunClosure, ShowData
<1>4. RunClosure /\ Head(closures).of = "ddl" => ~ ddlLoading'
  BY DEF RunClosure, ShowDdl
<1>5. ASSUME tvLoading', tvLoading PROVE Coming("data")'
  BY <1>3, <1>5, ComingNext, CauseMeans
<1>6. ASSUME ddlLoading', ddlLoading PROVE Coming("ddl")'
  BY <1>4, <1>6, ComingNext, CauseMeans
<1>7. (tvLoading => Coming("data"))' /\ (ddlLoading => Coming("ddl"))'
  BY <1>1, <1>2, <1>5, <1>6
<1> QED
  BY <1>7 DEF SpinnersHaveCause, Coming

-----------------------------------------------------------------------------

(* The strengthened invariant: types, one place for each run, no sort over *)
(* a result that waits to be shown, the panel and the spinners.            *)
THEOREM PanelInductive == PanelSpec => []PanelInv
<1>1. PanelInv /\ [PanelNext]_panelVars => PanelInv'
  BY TypeTvNext, TypeGridNext, TypeWorkNext, NumberedNext, WaitingNext, CoherentNext, SpinnersNext
     DEF PanelInv
<1> QED
  BY <1>1, InitInv, PTL DEF PanelSpec

(* Every variable of the panel keeps its type, and no table has two views. *)
THEOREM PanelTypeCorrect == PanelSpec => []PanelTypeOK
<1>1. PanelInv => PanelTypeOK
  BY TypeParts DEF PanelInv
<1> QED
  BY <1>1, PanelInductive, PTL

(* The rows are those of the columns above them, under the filter and the  *)
(* sort that are shown.                                                    *)
THEOREM PanelAgrees == PanelSpec => []PanelCoherent
<1>1. PanelInv => PanelCoherent
  BY DEF PanelInv
<1> QED
  BY <1>1, PanelInductive, PTL

(* A spinner of a table view never turns without an answer to come.        *)
THEOREM SpinnersAnswered == PanelSpec => []SpinnersHaveCause
<1>1. PanelInv => SpinnersHaveCause
  BY DEF PanelInv
<1> QED
  BY <1>1, PanelInductive, PTL

(***************************************************************************)
(* The rows in the grid.  Sorting puts one row after the other into its    *)
(* place: of the rows put in so far every one stands behind those it is to *)
(* follow, which is what the induction over the rows carries.  The         *)
(* comparison is an order, up to ties, where it must be.                   *)
(***************************************************************************)

(* Texts that can be compared.                                             *)
Comparable == {t \in Texts : \A i \in DOMAIN t : t[i] \in DOMAIN Byte}

(* Where a text is before another.                                         *)
Parts(a, b, k) ==
    /\ k \in 1 .. Len(b) /\ k - 1 <= Len(a)
    /\ \A j \in 1 .. k - 1 : a[j] = b[j]
    /\ k <= Len(a) => Byte[a[k]] < Byte[b[k]]

LEMMA BeforeAt ==
    ASSUME NEW a \in Comparable, NEW b \in Comparable
    PROVE  TextBefore(a, b) <=> \E k \in Nat : Parts(a, b, k)
<1>1. DOMAIN b = 1 .. Len(b) /\ Len(b) \in Nat
  BY DEF Comparable, Texts
<1> QED
  BY <1>1 DEF TextBefore, Parts

(* What a comparable text is made of.                                      *)
LEMMA Letters ==
    ASSUME NEW t \in Comparable
    PROVE  Len(t) \in Nat /\ \A i \in 1 .. Len(t) : t[i] \in DOMAIN Byte /\ Byte[t[i]] \in Nat
<1>1. DOMAIN t = 1 .. Len(t) /\ Len(t) \in Nat
  BY DEF Comparable, Texts
<1>2. \A i \in 1 .. Len(t) : t[i] \in DOMAIN Byte
  BY <1>1 DEF Comparable
<1> QED
  BY <1>1, <1>2, BytesApart

(* Of two texts, not each is before the other.                             *)
LEMMA TextsOneWay ==
    ASSUME NEW a \in Comparable, NEW b \in Comparable, TextBefore(a, b)
    PROVE  ~ TextBefore(b, a)
<1> SUFFICES ASSUME TextBefore(b, a) PROVE FALSE
  OBVIOUS
<1>1. PICK k \in Nat : Parts(a, b, k)
  BY BeforeAt
<1>2. PICK l \in Nat : Parts(b, a, l)
  BY BeforeAt
<1>3. /\ Len(a) \in Nat /\ \A i \in 1 .. Len(a) : Byte[a[i]] \in Nat
      /\ Len(b) \in Nat /\ \A i \in 1 .. Len(b) : Byte[b[i]] \in Nat
  BY Letters
<1>4. CASE k < l
  <2>1. b[k] = a[k] /\ k \in 1 .. Len(a) /\ k <= Len(a)
    BY <1>1, <1>2, <1>3, <1>4 DEF Parts
  <2> QED
    BY <1>1, <1>3, <2>1 DEF Parts
<1>5. CASE l < k
  <2>1. a[l] = b[l] /\ l \in 1 .. Len(b) /\ l <= Len(b)
    BY <1>1, <1>2, <1>3, <1>5 DEF Parts
  <2> QED
    BY <1>2, <1>3, <2>1 DEF Parts
<1>6. CASE k = l
  <2>1. k \in 1 .. Len(a) /\ k \in 1 .. Len(b)
    BY <1>1, <1>2, <1>6 DEF Parts
  <2> QED
    BY <1>1, <1>2, <1>3, <1>6, <2>1 DEF Parts
<1> QED
  BY <1>4, <1>5, <1>6

(* A third text is behind the first or before the second.                  *)
LEMMA TextsBetween ==
    ASSUME NEW a \in Comparable, NEW b \in Comparable, NEW c \in Comparable, TextBefore(a, c)
    PROVE  TextBefore(a, b) \/ TextBefore(b, c)
<1>1. PICK k \in Nat : Parts(a, c, k)
  BY BeforeAt
<1>2. /\ Len(a) \in Nat /\ \A i \in 1 .. Len(a) : a[i] \in DOMAIN Byte /\ Byte[a[i]] \in Nat
      /\ Len(b) \in Nat /\ \A i \in 1 .. Len(b) : b[i] \in DOMAIN Byte /\ Byte[b[i]] \in Nat
      /\ Len(c) \in Nat /\ \A i \in 1 .. Len(c) : c[i] \in DOMAIN Byte /\ Byte[c[i]] \in Nat
  BY Letters
<1>3. SUFFICES \E m \in Nat : Parts(a, b, m) \/ Parts(b, c, m)
  BY BeforeAt
<1>4. /\ k \in 1 .. Len(c) /\ k - 1 <= Len(a)
      /\ \A j \in 1 .. k - 1 : a[j] = c[j]
      /\ k <= Len(a) => Byte[a[k]] < Byte[c[k]]
  BY <1>1 DEF Parts
<1> DEFINE D == {m \in 1 .. k - 1 : m > Len(b) \/ b[m] # a[m]}
<1>5. CASE D = {}
  <2>1. \A m \in 1 .. k - 1 : m <= Len(b) /\ b[m] = a[m]
    BY <1>2, <1>5
  <2>2. k - 1 <= Len(b)
    BY <1>2, <1>4, <2>1
  <2>3. CASE k > Len(b)
    <3>1. Parts(b, c, k)
      BY <1>2, <1>4, <2>1, <2>2, <2>3 DEF Parts
    <3> QED
      BY <3>1
  <2>4. CASE k <= Len(b)
    <3>1. k \in 1 .. Len(b) /\ Byte[b[k]] \in Nat
      BY <1>2, <1>4, <2>4
    <3>2. CASE k > Len(a)
      <4>1. Parts(a, b, k)
        BY <1>2, <1>4, <2>1, <3>1, <3>2 DEF Parts
      <4> QED
        BY <4>1
    <3>3. CASE k <= Len(a)
      <4>1. Byte[a[k]] \in Nat /\ Byte[c[k]] \in Nat /\ Byte[a[k]] < Byte[c[k]]
        BY <1>2, <1>4, <3>3
      <4>2. CASE Byte[a[k]] < Byte[b[k]]
        <5>1. Parts(a, b, k)
          BY <1>2, <1>4, <2>1, <3>1, <4>2 DEF Parts
        <5> QED
          BY <5>1
      <4>3. CASE ~ (Byte[a[k]] < Byte[b[k]])
        <5>1. Byte[b[k]] < Byte[c[k]]
          BY <3>1, <4>1, <4>3
        <5>2. Parts(b, c, k)
          BY <1>2, <1>4, <2>1, <2>2, <5>1 DEF Parts
        <5> QED
          BY <5>2
      <4> QED
        BY <4>2, <4>3
    <3> QED
      BY <1>2, <1>4, <3>2, <3>3
  <2> QED
    BY <1>2, <1>4, <2>3, <2>4
<1>6. CASE D # {}
  <2>1. D \subseteq Nat
    BY <1>4
  <2>2. PICK m \in D : \A x \in D : m <= x
    <3> HIDE DEF D
    <3> QED BY <1>6, <2>1, Least
  <2>3. m \in Nat /\ m \in 1 .. k - 1 /\ m <= Len(a) /\ m <= Len(c) /\ a[m] = c[m] /\ m \in 1 .. Len(c)
    BY <1>2, <1>4, <2>2
  <2>4. ASSUME NEW j \in 1 .. m - 1 PROVE j <= Len(b) /\ b[j] = a[j] /\ a[j] = c[j]
    <3>1. j \in 1 .. k - 1 /\ ~ (m <= j)
      BY <1>4, <2>3
    <3>2. j \notin D
      BY <2>2, <3>1
    <3> QED
      BY <1>2, <1>4, <3>1, <3>2
  <2>5. m - 1 <= Len(b)
    <3>1. CASE m = 1
      BY <1>2, <3>1
    <3>2. CASE m # 1
      <4>1. m - 1 \in 1 .. m - 1
        BY <2>3, <3>2
      <4> QED
        BY <2>4, <4>1
    <3> QED
      BY <3>1, <3>2
  <2>6. CASE m > Len(b)
    <3>1. Parts(b, c, m)
      BY <1>2, <2>3, <2>4, <2>5, <2>6 DEF Parts
    <3> QED
      BY <3>1
  <2>7. CASE m <= Len(b)
    <3>1. b[m] # a[m]
      BY <1>2, <2>2, <2>3, <2>7
    <3>2. m \in 1 .. Len(b) /\ m \in 1 .. Len(a)
      BY <1>2, <2>3, <2>7
    <3>3. Byte[b[m]] # Byte[a[m]]
      BY <1>2, <3>1, <3>2, BytesApart
    <3>4. Byte[b[m]] \in Nat /\ Byte[a[m]] \in Nat
      BY <1>2, <3>2
    <3>5. CASE Byte[b[m]] < Byte[a[m]]
      <4>1. Parts(b, c, m)
        BY <1>2, <2>3, <2>4, <2>5, <3>5 DEF Parts
      <4> QED
        BY <4>1
    <3>6. CASE Byte[a[m]] < Byte[b[m]]
      <4>1. Parts(a, b, m)
        BY <1>2, <2>3, <2>4, <3>2, <3>6 DEF Parts
      <4> QED
        BY <4>1
    <3> QED
      BY <3>3, <3>4, <3>5, <3>6
  <2> QED
    BY <1>2, <2>3, <2>6, <2>7
<1> QED
  BY <1>5, <1>6

(* Cells of which all or none are numbers.                                 *)
Pure(X) == X \ {NULL} \subseteq Comparable
           /\ (X \ {NULL} \subseteq DOMAIN Number \/ (X \ {NULL}) \cap DOMAIN Number = {})

(* Less is an order on such cells, up to ties.                             *)
LEMMA CellsOneWay ==
    ASSUME NEW X, Pure(X), NEW x \in X, NEW y \in X, NEW asc \in BOOLEAN, Less(x, y, asc)
    PROVE  ~ Less(y, x, asc)
<1>1. CASE x = NULL \/ y = NULL
  BY <1>1 DEF Less
<1>2. CASE ~ (x = NULL \/ y = NULL)
  <2>1. x \in Comparable /\ y \in Comparable
    BY <1>2 DEF Pure
  <2>2. (x \in DOMAIN Number /\ y \in DOMAIN Number) \/ ~ (x \in DOMAIN Number \/ y \in DOMAIN Number)
    BY <1>2 DEF Pure
  <2>3. ~ (Before(x, y) /\ Before(y, x))
    BY <2>1, <2>2, TextsOneWay, ValuesOk DEF Before
  <2> QED
    BY <1>2, <2>3 DEF Less
<1> QED
  BY <1>1, <1>2

LEMMA CellsBetween ==
    ASSUME NEW X, Pure(X), NEW x \in X, NEW y \in X, NEW z \in X, NEW asc \in BOOLEAN, Less(x, z, asc)
    PROVE  Less(x, y, asc) \/ Less(y, z, asc)
<1>1. CASE x = NULL \/ y = NULL \/ z = NULL
  BY <1>1 DEF Less
<1>2. CASE ~ (x = NULL \/ y = NULL \/ z = NULL)
  <2>1. x \in Comparable /\ y \in Comparable /\ z \in Comparable
    BY <1>2 DEF Pure
  <2>2. \/ x \in DOMAIN Number /\ y \in DOMAIN Number /\ z \in DOMAIN Number
        \/ ~ (x \in DOMAIN Number \/ y \in DOMAIN Number \/ z \in DOMAIN Number)
    BY <1>2 DEF Pure
  <2>3. /\ Before(x, z) => Before(x, y) \/ Before(y, z)
        /\ Before(z, x) => Before(z, y) \/ Before(y, x)
    <3>1. CASE x \in DOMAIN Number /\ y \in DOMAIN Number /\ z \in DOMAIN Number
      <4>1. Number[x] \in Int /\ Number[y] \in Int /\ Number[z] \in Int
        BY <3>1, ValuesOk
      <4> QED
        BY <3>1, <4>1 DEF Before
    <3>2. CASE ~ (x \in DOMAIN Number \/ y \in DOMAIN Number \/ z \in DOMAIN Number)
      BY <2>1, <3>2, TextsBetween, Zenon DEF Before
    <3> QED
      BY <2>2, <3>1, <3>2
  <2> QED
    BY <1>2, <2>3 DEF Less
<1> QED
  BY <1>1, <1>2

(* The rows that may arrive.                                               *)
Row == {r \in [Cols -> UNION {Cells[c] : c \in Cols}] : \A c \in Cols : r[c] \in Cells[c]}

Placed(v, row, col, asc) == Max({0} \cup {i \in DOMAIN v : ~ Less(row[col], v[i][col], asc)})

LEMMA PlacedIs ==
    ASSUME NEW R, NEW v \in Seq(R), NEW row, NEW col, NEW asc
    PROVE  /\ Placed(v, row, col, asc) \in 0 .. Len(v)
           /\ Placed(v, row, col, asc) # 0 => ~ Less(row[col], v[Placed(v, row, col, asc)][col], asc)
           /\ \A i \in 1 .. Len(v) : i > Placed(v, row, col, asc) => Less(row[col], v[i][col], asc)
<1>1. PICK n : n = Len(v) /\ n \in Nat /\ DOMAIN v = 1 .. n
  OBVIOUS
<1>2. PICK S : S = {0} \cup {i \in DOMAIN v : ~ Less(row[col], v[i][col], asc)}
  OBVIOUS
<1>3. S \subseteq 0 .. n /\ S # {}
  BY <1>1, <1>2
<1>4. Max(S) \in S /\ \A x \in S : x <= Max(S)
  BY <1>1, <1>3, MaxOf
<1>5. PICK m : m = Max(S)
  OBVIOUS
<1>6. Placed(v, row, col, asc) = m
  BY <1>2, <1>5 DEF Placed
<1>7. m \in 0 .. n
  BY ONLY <1>3, <1>4, <1>5
<1>8. m # 0 => ~ Less(row[col], v[m][col], asc)
  BY ONLY <1>2, <1>4, <1>5
<1>9. ASSUME NEW i \in 1 .. n, i > m PROVE Less(row[col], v[i][col], asc)
  <2>1. i \notin S
    BY <1>1, <1>4, <1>5, <1>7, <1>9
  <2> QED
    BY <1>1, <1>2, <2>1
<1> QED
  BY <1>1, <1>6, <1>7, <1>8, <1>9

(* A list with an entry put in behind the first m.                         *)
Inserted(u, v, m, row, R) ==
    /\ u \in Seq(R) /\ Len(u) = Len(v) + 1
    /\ \A i \in 1 .. m : u[i] = v[i]
    /\ u[m + 1] = row
    /\ \A i \in m + 1 .. Len(v) : u[i + 1] = v[i]

LEMMA InsertAtIs ==
    ASSUME NEW s, NEW i, NEW e, NEW j, j = i - 1
    PROVE  InsertAt(s, i, e) = (SubSeq(s, 1, j) \o <<e>>) \o SubSeq(s, i, Len(s))
BY DEF InsertAt

LEMMA InsertedIs ==
    ASSUME NEW R, NEW v \in Seq(R), NEW row \in R, NEW m \in 0 .. Len(v)
    PROVE  Inserted(InsertAt(v, m + 1, row), v, m, row, R)
<1>1. PICK n : n = Len(v) /\ n \in Nat
  OBVIOUS
<1>2. PICK a, b, c : a = SubSeq(v, 1, m) /\ b = SubSeq(v, m + 1, n) /\ c = <<row>>
  OBVIOUS
<1>3. m \in Nat /\ m <= n
  BY <1>1
<1>4. a \in Seq(R) /\ Len(a) = m /\ \A i \in 1 .. m : a[i] = v[i]
  BY <1>1, <1>2, <1>3
<1>5. b \in Seq(R) /\ Len(b) = n - m /\ \A i \in 1 .. n - m : b[i] = v[m + i]
  <2>1. \A i \in m + 1 .. n : v[i] \in R
    BY <1>1, <1>3
  <2>2. b \in Seq(R) /\ Len(b) = (IF m + 1 <= n THEN n - (m + 1) + 1 ELSE 0)
        /\ \A i \in 1 .. n - (m + 1) + 1 : b[i] = v[m + 1 + i - 1]
    BY <1>1, <1>2, <1>3, <2>1, SubSeqProperties
  <2>3. \A i \in 1 .. n - m : m + 1 + i - 1 = m + i /\ i \in 1 .. n - (m + 1) + 1
    BY <1>1, <1>3
  <2> QED
    BY <1>1, <1>3, <2>2, <2>3
<1>6. c \in Seq(R) /\ Len(c) = 1 /\ c[1] = row
  BY <1>2
<1>7. PICK u : u = (a \o c) \o b
  OBVIOUS
<1>8. InsertAt(v, m + 1, row) = u
  <2>1. PICK i : i = m + 1
    OBVIOUS
  <2>2. m = i - 1
    BY <1>3, <2>1
  <2>3. InsertAt(v, i, row) = (SubSeq(v, 1, m) \o <<row>>) \o SubSeq(v, i, Len(v))
    BY <2>2, InsertAtIs
  <2> QED
    BY <1>1, <1>2, <1>7, <2>1, <2>3
<1>9. PICK d : d = a \o c
  OBVIOUS
<1>10. Concat(d, a, c, R)
  BY <1>4, <1>6, <1>9, ConcatIs
<1>11. d \in Seq(R) /\ Len(d) = m + 1 /\ (\A i \in 1 .. m : d[i] = v[i]) /\ d[m + 1] = row
  BY <1>3, <1>4, <1>6, <1>10 DEF Concat
<1>12. Concat(u, d, b, R)
  BY <1>5, <1>7, <1>9, <1>11, ConcatIs
<1>13. /\ u \in Seq(R) /\ Len(u) = n + 1
       /\ \A i \in 1 .. m + 1 : u[i] = d[i]
       /\ \A i \in 1 .. n - m : u[m + 1 + i] = v[m + i]
  <2>1. /\ u \in Seq(R) /\ Len(u) = Len(d) + Len(b)
        /\ \A i \in 1 .. Len(d) : u[i] = d[i]
        /\ \A i \in 1 .. Len(b) : u[Len(d) + i] = b[i]
    BY ONLY <1>12 DEF Concat
  <2>2. (m + 1) + (n - m) = n + 1
    BY <1>1, <1>3
  <2> QED
    BY ONLY <1>5, <1>11, <2>1, <2>2
<1>14. ASSUME NEW i \in m + 1 .. n PROVE u[i + 1] = v[i]
  <2>1. i - m \in 1 .. n - m /\ m + 1 + (i - m) = i + 1 /\ m + (i - m) = i
    BY <1>1, <1>3
  <2> QED
    BY <1>13, <2>1
<1>15. (\A i \in 1 .. m : u[i] = v[i]) /\ u[m + 1] = row
  BY <1>3, <1>11, <1>13
<1> QED
  BY <1>1, <1>8, <1>13, <1>14, <1>15 DEF Inserted

(* h has the rows of all sorted up to each of them.                        *)
SortsUp(h, all, col, asc, R) ==
    /\ h \in [0 .. Len(all) -> Seq(R)] /\ h[0] = <<>>
    /\ \A k \in 1 .. Len(all) :
         h[k] = InsertAt(h[k - 1], Placed(h[k - 1], all[k], col, asc) + 1, all[k])

LEMMA SortSteps ==
    ASSUME NEW R, NEW all \in Seq(R), NEW col, NEW asc
    PROVE  \E h : SortsUp(h, all, col, asc, R) /\ sort_rows(all, col, asc) = h[Len(all)]
<1> DEFINE V == Seq(R)
           In(v, x) == InsertAt(v, Placed(v, x, col, asc) + 1, x)
           op == [p \in V \X R |-> In(p[1], p[2])]
           Solves(f) == f = [T \in SUBSET DOMAIN all |->
                                IF T = {} THEN <<>> ELSE In(f[T \ {Max(T)}], all[Max(T)])]
           f == CHOOSE g : Solves(g)
<1>1. ASSUME NEW v \in V, NEW x \in R PROVE In(v, x) \in V
  <2>1. PICK m : m = Placed(v, x, col, asc)
    OBVIOUS
  <2>2. m \in 0 .. Len(v)
    BY <2>1, PlacedIs
  <2>3. Inserted(InsertAt(v, m + 1, x), v, m, x, R)
    BY <2>2, InsertedIs
  <2> QED
    BY <2>1, <2>3 DEF Inserted
<1>2. op \in [V \X R -> V] /\ \A v \in V, x \in R : op[<<v, x>>] = In(v, x)
  <2> HIDE DEF In, V
  <2> QED BY <1>1
<1>3. <<>> \in V
  OBVIOUS
<1>4. sort_rows(all, col, asc) = f[DOMAIN all]
  BY Zenon DEF sort_rows, FoldLeft, MapThenFoldSet, Placed
<1>5. \E g : Solves(g)
  <2> HIDE DEF V, op
  <2>1. PICK g : /\ g \in [SUBSET DOMAIN all -> V]
                 /\ \A T \in SUBSET DOMAIN all :
                      g[T] = IF T = {} THEN <<>> ELSE op[<<g[T \ {Max(T)}], all[Max(T)]>>]
                 /\ \A T \in SUBSET DOMAIN all : g[T \ {Max(T)}] \in V
                 /\ \A T \in SUBSET DOMAIN all : T # {} => all[Max(T)] \in R
    <3>1. Folding(op, <<>>, all, R, V)
      BY <1>2, <1>3 DEF Folding
    <3> QED BY ONLY <3>1, FoldMade
  <2> HIDE DEF In
  <2>2. \A T \in SUBSET DOMAIN all : g[T] = IF T = {} THEN <<>> ELSE In(g[T \ {Max(T)}], all[Max(T)])
    BY <1>2, <2>1
  <2>3. Solves(g)
    BY <2>1, <2>2
  <2> QED
    BY <2>3
<1>6. Solves(f)
  <2> HIDE DEF Solves
  <2> QED BY <1>5
<1>7. FoldsList(f, op, <<>>, all, V)
  <2>1. \A T \in SUBSET DOMAIN all : T # {} => all[Max(T)] \in R
    <3> SUFFICES ASSUME NEW T \in SUBSET DOMAIN all, T # {} PROVE all[Max(T)] \in R
      OBVIOUS
    <3>1. PICK n : n = Len(all) /\ n \in Nat /\ DOMAIN all = 1 .. n
      OBVIOUS
    <3>2. Max(T) \in T
      BY <3>1, Greatest
    <3> QED
      BY <3>1, <3>2
  <2> HIDE DEF In, V, op, f
  <2> QED
    BY <1>2, <1>6, <2>1 DEF FoldsList
<1>8. PICK h : Folded(h, op, <<>>, all, V) /\ f[DOMAIN all] = h[Len(all)]
  <2> HIDE DEF f, op, V
  <2>1. PICK o, F, W : o = op /\ F = f /\ W = V
    OBVIOUS
  <2>2. Folding(o, <<>>, all, R, W) /\ FoldsList(F, o, <<>>, all, W)
    BY <1>2, <1>3, <1>7, <2>1 DEF Folding
  <2>3. \E h : Folded(h, o, <<>>, all, W) /\ F[DOMAIN all] = h[Len(all)]
    BY ONLY <2>2, FoldUp
  <2> QED BY <2>1, <2>3
<1>9. PICK n : n = Len(all) /\ n \in Nat /\ \A k \in 1 .. n : all[k] \in R /\ k - 1 \in 0 .. n
  OBVIOUS
<1>10. /\ h \in [0 .. n -> V] /\ h[0] = <<>>
       /\ \A k \in 1 .. n : h[k] = op[<<h[k - 1], all[k]>>]
  <2> HIDE DEF f, op, V
  <2> QED BY <1>8, <1>9 DEF Folded
<1>11. \A k \in 1 .. n : h[k] = In(h[k - 1], all[k])
  <2> HIDE DEF f, op, V, In
  <2> QED BY <1>2, <1>9, <1>10
<1>12. SortsUp(h, all, col, asc, R)
  BY <1>9, <1>10, <1>11 DEF SortsUp
<1> QED
  BY <1>4, <1>8, <1>12

(* v has the first k of all, each at the place p tells of.                 *)
PlacesOf(v, p, all, k, R) ==
    /\ v \in Seq(R) /\ Len(v) = k
    /\ p \in [1 .. k -> 1 .. k]
    /\ \A i, j \in 1 .. k : p[i] = p[j] => i = j
    /\ \A x \in 1 .. k : \E i \in 1 .. k : p[i] = x
    /\ \A i \in 1 .. k : v[i] = all[p[i]]

NullsLast(v, col) ==
    \A i, j \in 1 .. Len(v) : i < j /\ v[i][col] = NULL => v[j][col] = NULL

(* Of two rows which is to be the later, by their cells and their numbers. *)
Follow(cell, asc, i, j) ==
    Less(cell[i], cell[j], asc) \/ (~ Less(cell[j], cell[i], asc) /\ i < j)

InPlace(p, cell, asc, k) ==
    \A i, j \in 1 .. k : i < j => Follow(cell, asc, p[i], p[j])

(* Where the rows are when one more has been put in behind the first m.    *)
Moved(p, m, k) ==
    [i \in 1 .. k + 1 |-> IF i <= m THEN p[i] ELSE IF i = m + 1 THEN k + 1 ELSE p[i - 1]]

MovesUp(q, p, m, k) ==
    /\ q \in [1 .. k + 1 -> 1 .. k + 1]
    /\ q[m + 1] = k + 1
    /\ \A i \in 1 .. m : q[i] = p[i] /\ q[i] \in 1 .. k
    /\ \A i \in m + 2 .. k + 1 : q[i] = p[i - 1] /\ i - 1 \in m + 1 .. k /\ i - 1 \in 1 .. k /\ q[i] \in 1 .. k
    /\ \A i \in 1 .. k + 1 : i \in 1 .. m \/ i = m + 1 \/ i \in m + 2 .. k + 1

LEMMA MovedIs ==
    ASSUME NEW k \in Nat, NEW p, p \in [1 .. k -> 1 .. k], NEW m \in 0 .. k
    PROVE  MovesUp(Moved(p, m, k), p, m, k)
<1>0. PICK q : q = Moved(p, m, k)
  OBVIOUS
<1>1. \A i \in 1 .. k + 1 : q[i] = IF i <= m THEN p[i] ELSE IF i = m + 1 THEN k + 1 ELSE p[i - 1]
  BY <1>0 DEF Moved
<1>2. m \in Nat /\ m <= k
  OBVIOUS
<1>3. \A i \in 1 .. k + 1 : i \in 1 .. m \/ i = m + 1 \/ i \in m + 2 .. k + 1
  BY <1>2
<1>4. ASSUME NEW i \in 1 .. m PROVE q[i] = p[i] /\ q[i] \in 1 .. k
  <2>1. i \in 1 .. k + 1 /\ i \in 1 .. k /\ i <= m
    BY <1>2
  <2> QED
    BY <1>1, <2>1
<1>5. q[m + 1] = k + 1
  <2>1. m + 1 \in 1 .. k + 1 /\ ~ (m + 1 <= m)
    BY <1>2
  <2> QED
    BY <1>1, <2>1
<1>6. ASSUME NEW i \in m + 2 .. k + 1 PROVE q[i] = p[i - 1] /\ i - 1 \in m + 1 .. k /\ i - 1 \in 1 .. k /\ q[i] \in 1 .. k
  <2>1. i \in 1 .. k + 1 /\ i - 1 \in m + 1 .. k /\ i - 1 \in 1 .. k /\ ~ (i <= m) /\ i # m + 1
    BY <1>2
  <2> QED
    BY <1>1, <2>1
<1>7. ASSUME NEW i \in 1 .. k + 1 PROVE q[i] \in 1 .. k + 1
  <2>1. 1 .. k \subseteq 1 .. k + 1 /\ k + 1 \in 1 .. k + 1
    OBVIOUS
  <2> QED
    BY <1>3, <1>4, <1>5, <1>6, <2>1
<1>8. q \in [1 .. k + 1 -> 1 .. k + 1]
  BY <1>0, <1>7 DEF Moved
<1>9. MovesUp(q, p, m, k)
  BY <1>3, <1>4, <1>5, <1>6, <1>8 DEF MovesUp
<1> QED
  BY <1>0, <1>9

LEMMA PlacesOneMore ==
    ASSUME NEW R, NEW all, NEW k \in Nat, NEW v, NEW p, PlacesOf(v, p, all, k, R), NEW m \in 0 .. k,
           NEW u, Inserted(u, v, m, all[k + 1], R), NEW q, MovesUp(q, p, m, k)
    PROVE  PlacesOf(u, q, all, k + 1, R)
<1>1. /\ v \in Seq(R) /\ Len(v) = k
      /\ p \in [1 .. k -> 1 .. k]
      /\ \A i, j \in 1 .. k : p[i] = p[j] => i = j
      /\ \A x \in 1 .. k : \E i \in 1 .. k : p[i] = x
      /\ \A i \in 1 .. k : v[i] = all[p[i]]
  BY DEF PlacesOf
<1>2. /\ u \in Seq(R) /\ Len(u) = k + 1
      /\ \A i \in 1 .. m : u[i] = v[i]
      /\ u[m + 1] = all[k + 1]
      /\ \A i \in m + 1 .. k : u[i + 1] = v[i]
  BY <1>1 DEF Inserted
<1>3. /\ q \in [1 .. k + 1 -> 1 .. k + 1]
      /\ q[m + 1] = k + 1
      /\ \A i \in 1 .. m : q[i] = p[i] /\ q[i] \in 1 .. k
      /\ \A i \in m + 2 .. k + 1 : q[i] = p[i - 1] /\ i - 1 \in m + 1 .. k /\ i - 1 \in 1 .. k /\ q[i] \in 1 .. k
      /\ \A i \in 1 .. k + 1 : i \in 1 .. m \/ i = m + 1 \/ i \in m + 2 .. k + 1
  BY ONLY MovesUp(q, p, m, k) DEF MovesUp
<1>4. ASSUME NEW i \in 1 .. k + 1, NEW j \in 1 .. k + 1, q[i] = q[j] PROVE i = j
  <2>1. \A x \in 1 .. k : x # k + 1
    OBVIOUS
  <2>2. CASE i = m + 1
    BY <1>3, <1>4, <2>1, <2>2
  <2>3. CASE j = m + 1
    BY <1>3, <1>4, <2>1, <2>3
  <2>4. CASE i \in 1 .. m /\ j \in 1 .. m
    <3>1. i \in 1 .. k /\ j \in 1 .. k
      BY <2>4
    <3> QED
      BY <1>1, <1>3, <1>4, <2>4, <3>1
  <2>5. CASE i \in m + 2 .. k + 1 /\ j \in m + 2 .. k + 1
    <3>1. i - 1 = j - 1
      BY <1>1, <1>3, <1>4, <2>5
    <3> QED
      BY <3>1
  <2>6. CASE i \in 1 .. m /\ j \in m + 2 .. k + 1
    <3>1. i \in 1 .. k /\ i # j - 1
      BY <2>6
    <3> QED
      BY <1>1, <1>3, <1>4, <2>6, <3>1
  <2>7. CASE j \in 1 .. m /\ i \in m + 2 .. k + 1
    <3>1. j \in 1 .. k /\ j # i - 1
      BY <2>7
    <3> QED
      BY <1>1, <1>3, <1>4, <2>7, <3>1
  <2> QED
    BY <1>3, <2>2, <2>3, <2>4, <2>5, <2>6, <2>7
<1>5. ASSUME NEW x \in 1 .. k + 1 PROVE \E i \in 1 .. k + 1 : q[i] = x
  <2>1. CASE x = k + 1
    <3>1. m + 1 \in 1 .. k + 1
      OBVIOUS
    <3> QED
      BY <1>3, <2>1, <3>1
  <2>2. CASE x \in 1 .. k
    <3>1. PICK j \in 1 .. k : p[j] = x
      BY <1>1, <2>2
    <3>2. CASE j <= m
      <4>1. j \in 1 .. m /\ j \in 1 .. k + 1
        BY <3>2
      <4> QED
        BY <1>3, <3>1, <4>1
    <3>3. CASE ~ (j <= m)
      <4>1. PICK i : i = j + 1
        OBVIOUS
      <4>2. i \in m + 2 .. k + 1 /\ i \in 1 .. k + 1 /\ i - 1 = j
        BY <3>3, <4>1
      <4> QED
        BY <1>3, <3>1, <4>2
    <3> QED
      BY <3>2, <3>3
  <2> QED
    BY <2>1, <2>2
<1>6. ASSUME NEW i \in 1 .. k + 1 PROVE u[i] = all[q[i]]
  <2>1. CASE i \in 1 .. m
    <3>1. i \in 1 .. k
      BY <2>1
    <3> QED
      BY ONLY <1>1, <1>2, <1>3, <2>1, <3>1
  <2>2. CASE i = m + 1
    BY <1>2, <1>3, <2>2
  <2>3. CASE i \in m + 2 .. k + 1
    <3>1. i - 1 \in m + 1 .. k /\ i - 1 \in 1 .. k /\ i - 1 + 1 = i
      BY <1>3, <2>3
    <3>2. PICK j : j = i - 1
      OBVIOUS
    <3>3. j \in m + 1 .. k /\ j \in 1 .. k /\ j + 1 = i /\ q[i] = p[j]
      BY ONLY <1>3, <2>3, <3>1, <3>2
    <3> QED
      BY ONLY <1>1, <1>2, <3>3
  <2> QED
    BY <1>3, <2>1, <2>2, <2>3
<1> QED
  BY <1>2, <1>3, <1>4, <1>5, <1>6 DEF PlacesOf

(* Where a row belongs: behind what it is not less than, before what it is *)
(* less than.                                                              *)
Belongs(v, row, m, col, asc) ==
    /\ m \in 0 .. Len(v)
    /\ m # 0 => ~ Less(row[col], v[m][col], asc)
    /\ \A i \in 1 .. Len(v) : i > m => Less(row[col], v[i][col], asc)

LEMMA NullsLastOneMore ==
    ASSUME NEW R, NEW v \in Seq(R), NEW col, NEW asc, NullsLast(v, col), NEW row,
           NEW m, Belongs(v, row, m, col, asc), NEW u, Inserted(u, v, m, row, R)
    PROVE  NullsLast(u, col)
<1>1. PICK k : k = Len(v) /\ k \in Nat
  OBVIOUS
<1>2. /\ Len(u) = k + 1
      /\ \A i \in 1 .. m : u[i] = v[i]
      /\ u[m + 1] = row
      /\ \A i \in m + 1 .. k : u[i + 1] = v[i]
  BY <1>1 DEF Inserted
<1>3. /\ m \in 0 .. k
      /\ m # 0 => ~ Less(row[col], v[m][col], asc)
      /\ \A i \in 1 .. k : i > m => Less(row[col], v[i][col], asc)
  BY <1>1 DEF Belongs
<1>0. k \in Nat /\ m \in Nat /\ m <= k
  BY ONLY <1>1, <1>3
<1>4. \A i, j \in 1 .. k : i < j /\ v[i][col] = NULL => v[j][col] = NULL
  BY <1>1 DEF NullsLast
<1>5. ASSUME NEW i \in 1 .. k + 1, NEW j \in 1 .. k + 1, i < j, u[i][col] = NULL PROVE u[j][col] = NULL
  <2>1. CASE j <= m
    <3>1. i \in 1 .. m /\ j \in 1 .. m /\ i \in 1 .. k /\ j \in 1 .. k
      BY ONLY <1>0, i \in 1 .. k + 1, j \in 1 .. k + 1, i < j, <2>1
    <3> QED
      BY <1>2, <1>4, <1>5, <3>1
  <2>2. CASE j = m + 1
    <3>1. i \in 1 .. m /\ i \in 1 .. k /\ m # 0 /\ m \in 1 .. k
      BY ONLY <1>0, i \in 1 .. k + 1, j \in 1 .. k + 1, i < j, <2>2
    <3>2. v[i][col] = NULL
      BY <1>2, <1>5, <3>1
    <3>3. v[m][col] = NULL
      <4>1. CASE i = m
        BY <3>2, <4>1
      <4>2. CASE i < m
        BY <1>4, <3>1, <3>2, <4>2
      <4> QED
        BY <1>3, <3>1, <4>1, <4>2
    <3>4. row[col] = NULL
      BY <1>3, <3>1, <3>3 DEF Less
    <3> QED
      BY <1>2, <2>2, <3>4
  <2>3. CASE j > m + 1
    <3>1. j - 1 \in m + 1 .. k /\ j - 1 \in 1 .. k /\ j - 1 + 1 = j /\ j - 1 > m
      BY ONLY <1>0, i \in 1 .. k + 1, j \in 1 .. k + 1, i < j, <2>3
    <3>2. u[j] = v[j - 1] /\ Less(row[col], v[j - 1][col], asc)
      BY <1>2, <1>3, <3>1
    <3>3. CASE i = m + 1
      BY <1>2, <1>5, <3>2, <3>3 DEF Less
    <3>4. CASE i <= m
      <4>1. i \in 1 .. m /\ i \in 1 .. k /\ i < j - 1
        BY ONLY <1>0, i \in 1 .. k + 1, j \in 1 .. k + 1, i < j, <2>3, <3>4
      <4> QED
        BY <1>2, <1>4, <1>5, <3>1, <3>2, <4>1
    <3>5. CASE i > m + 1
      <4>1. i - 1 \in m + 1 .. k /\ i - 1 \in 1 .. k /\ i - 1 + 1 = i /\ i - 1 < j - 1
        BY ONLY <1>0, i \in 1 .. k + 1, j \in 1 .. k + 1, i < j, <3>5
      <4>2. u[i] = v[i - 1]
        BY <1>2, <4>1
      <4> QED
        BY <1>4, <1>5, <3>1, <3>2, <4>1, <4>2
    <3> QED
      BY <1>3, <3>3, <3>4, <3>5
  <2> QED
    BY <1>3, <2>1, <2>2, <2>3
<1> QED
  BY <1>2, <1>5 DEF NullsLast

(* On the cells X of a column Less is an order up to ties.                 *)
Orders(X, asc) ==
    /\ \A x, y \in X : Less(x, y, asc) => ~ Less(y, x, asc)
    /\ \A x, y, z \in X : Less(x, z, asc) => Less(x, y, asc) \/ Less(y, z, asc)

LEMMA InPlaceOneMore ==
    ASSUME NEW R, NEW all, NEW k \in Nat, NEW v, NEW p, PlacesOf(v, p, all, k, R), NEW col,
           NEW cell, \A i \in 1 .. k + 1 : cell[i] = all[i][col], NEW asc,
           NEW X, Orders(X, asc), \A i \in 1 .. k + 1 : cell[i] \in X,
           InPlace(p, cell, asc, k),
           NEW m, Belongs(v, all[k + 1], m, col, asc), NEW q, MovesUp(q, p, m, k)
    PROVE  InPlace(q, cell, asc, k + 1)
<1>1. /\ Len(v) = k /\ \A i \in 1 .. k : v[i] = all[p[i]]
      /\ \A i \in 1 .. k : p[i] \in 1 .. k
  BY DEF PlacesOf
<1>2. /\ m \in 0 .. k
      /\ m # 0 => ~ Less(all[k + 1][col], v[m][col], asc)
      /\ \A i \in 1 .. k : i > m => Less(all[k + 1][col], v[i][col], asc)
  BY <1>1 DEF Belongs
<1>3. /\ q[m + 1] = k + 1
      /\ \A i \in 1 .. m : q[i] = p[i] /\ q[i] \in 1 .. k
      /\ \A i \in m + 2 .. k + 1 : q[i] = p[i - 1] /\ i - 1 \in m + 1 .. k /\ i - 1 \in 1 .. k /\ q[i] \in 1 .. k
  BY DEF MovesUp
<1>4. k + 1 \in 1 .. k + 1 /\ 1 .. k \subseteq 1 .. k + 1 /\ m \in Nat /\ m <= k
  BY ONLY <1>2, k \in Nat
<1>5. ASSUME NEW i \in 1 .. k PROVE v[i][col] = cell[p[i]] /\ cell[p[i]] \in X
  BY <1>1, <1>4
<1>6. PICK last : last = cell[k + 1]
  OBVIOUS
<1>7. last \in X /\ all[k + 1][col] = last
  BY <1>4, <1>6
<1>8. /\ m # 0 => ~ Less(last, cell[p[m]], asc)
      /\ \A i \in 1 .. k : i > m => Less(last, cell[p[i]], asc)
  <2>1. m # 0 => m \in 1 .. k
    BY ONLY <1>4, k \in Nat
  <2> QED
    BY <1>2, <1>5, <1>7, <2>1
<1>9. \A i, j \in 1 .. k : i < j => Follow(cell, asc, p[i], p[j])
  BY DEF InPlace
<1>10. ASSUME NEW i \in 1 .. k + 1, NEW j \in 1 .. k + 1, i < j PROVE Follow(cell, asc, q[i], q[j])
  <2>1. CASE j <= m
    <3>1. i \in 1 .. m /\ j \in 1 .. m /\ i \in 1 .. k /\ j \in 1 .. k
      BY ONLY <1>4, <1>10, <2>1, k \in Nat
    <3> QED
      BY <1>3, <1>9, <1>10, <3>1
  <2>2. CASE j = m + 1
    <3>1. i \in 1 .. m /\ i \in 1 .. k /\ m # 0 /\ m \in 1 .. k
      BY ONLY <1>4, <1>10, <2>2, k \in Nat
    <3>2. ~ Less(last, cell[p[i]], asc)
      <4>1. CASE i = m
        BY <1>8, <3>1, <4>1
      <4>2. CASE i < m
        <5>1. Follow(cell, asc, p[i], p[m])
          BY <1>9, <3>1, <4>2
        <5>2. ~ Less(cell[p[m]], cell[p[i]], asc)
          BY <1>5, <3>1, <5>1 DEF Follow, Orders
        <5> QED
          BY <1>5, <1>7, <1>8, <3>1, <5>2 DEF Orders
      <4> QED
        BY ONLY <1>4, <3>1, <4>1, <4>2
    <3>3. p[i] < k + 1
      <4>1. p[i] \in 1 .. k
        BY <1>1, <3>1
      <4> QED
        BY ONLY <4>1, k \in Nat
    <3>4. q[i] = p[i] /\ q[j] = k + 1
      BY <1>3, <2>2, <3>1
    <3> QED
      BY <1>6, <3>2, <3>3, <3>4 DEF Follow
  <2>3. CASE j > m + 1
    <3>1. j \in m + 2 .. k + 1 /\ j - 1 \in 1 .. k /\ j - 1 > m
      BY ONLY <1>4, <1>10, <2>3, k \in Nat
    <3>2. PICK l : l = j - 1
      OBVIOUS
    <3>3. l \in 1 .. k /\ l > m /\ q[j] = p[l]
      BY <1>3, <3>1, <3>2
    <3>4. CASE i = m + 1
      <4>1. q[i] = k + 1
        BY <1>3, <3>4
      <4> QED
        BY <1>6, <1>8, <3>3, <4>1 DEF Follow
    <3>5. CASE i <= m
      <4>1. i \in 1 .. m /\ i \in 1 .. k /\ i < l
        BY ONLY <1>4, <1>10, <3>3, <3>5, k \in Nat
      <4>2. q[i] = p[i]
        BY <1>3, <4>1
      <4> QED
        BY <1>9, <3>3, <4>1, <4>2
    <3>6. CASE i > m + 1
      <4>1. PICK h : h = i - 1
        OBVIOUS
      <4>2. i \in m + 2 .. k + 1 /\ h \in 1 .. k /\ h < l
        BY ONLY <1>4, <1>10, <3>2, <3>3, <3>6, <4>1, i \in 1 .. k + 1, j \in 1 .. k + 1, i < j, k \in Nat
      <4>3. q[i] = p[h]
        BY <1>3, <4>1, <4>2
      <4> QED
        BY <1>9, <3>3, <4>2, <4>3
    <3> QED
      BY ONLY <1>4, <3>4, <3>5, <3>6, i \in 1 .. k + 1
  <2> QED
    BY ONLY <1>4, <2>1, <2>2, <2>3, j \in 1 .. k + 1
<1> QED
  BY <1>10 DEF InPlace

(* What sorting the first k rows gives.                                    *)
SortedUp(v, all, k, col, asc, cell, X, R) ==
    /\ NullsLast(v, col)
    /\ \E p : PlacesOf(v, p, all, k, R) /\ (Orders(X, asc) => InPlace(p, cell, asc, k))

LEMMA SortOneMore ==
    ASSUME NEW R, NEW all \in Seq(R), NEW k \in Nat, k + 1 <= Len(all), NEW col, NEW asc,
           NEW cell, NEW X, \A i \in 1 .. Len(all) : cell[i] = all[i][col] /\ cell[i] \in X,
           NEW v, SortedUp(v, all, k, col, asc, cell, X, R)
    PROVE  SortedUp(InsertAt(v, Placed(v, all[k + 1], col, asc) + 1, all[k + 1]),
                    all, k + 1, col, asc, cell, X, R)
<1>1. PICK p : PlacesOf(v, p, all, k, R) /\ (Orders(X, asc) => InPlace(p, cell, asc, k))
  BY DEF SortedUp
<1>2. v \in Seq(R) /\ Len(v) = k /\ p \in [1 .. k -> 1 .. k]
  BY <1>1 DEF PlacesOf
<1>3. k + 1 \in 1 .. Len(all) /\ all[k + 1] \in R /\ \A i \in 1 .. k + 1 : i \in 1 .. Len(all)
  OBVIOUS
<1>4. PICK row, m, u, q : /\ row = all[k + 1] /\ m = Placed(v, row, col, asc)
                          /\ u = InsertAt(v, m + 1, row) /\ q = Moved(p, m, k)
  OBVIOUS
<1>5. Belongs(v, row, m, col, asc)
  <2>1. /\ Placed(v, row, col, asc) \in 0 .. Len(v)
        /\ Placed(v, row, col, asc) # 0 => ~ Less(row[col], v[Placed(v, row, col, asc)][col], asc)
        /\ \A i \in 1 .. Len(v) : i > Placed(v, row, col, asc) => Less(row[col], v[i][col], asc)
    BY ONLY <1>2, PlacedIs
  <2> QED
    BY ONLY <1>4, <2>1 DEF Belongs
<1>6. m \in 0 .. k
  BY <1>2, <1>5 DEF Belongs
<1>7. Inserted(u, v, m, row, R)
  BY <1>2, <1>3, <1>4, <1>6, InsertedIs
<1>8. MovesUp(q, p, m, k)
  BY <1>2, <1>4, <1>6, MovedIs
<1>9. PlacesOf(u, q, all, k + 1, R)
  BY <1>1, <1>4, <1>6, <1>7, <1>8, PlacesOneMore
<1>10. NullsLast(v, col)
  BY DEF SortedUp
<1>11. NullsLast(u, col)
  BY <1>2, <1>5, <1>7, <1>10, NullsLastOneMore
<1>12. \A i \in 1 .. k + 1 : cell[i] = all[i][col] /\ cell[i] \in X
  BY <1>3
<1>13. Orders(X, asc) => InPlace(q, cell, asc, k + 1)
  BY <1>1, <1>4, <1>5, <1>8, <1>12, InPlaceOneMore
<1>14. SortedUp(u, all, k + 1, col, asc, cell, X, R)
  BY <1>9, <1>11, <1>13 DEF SortedUp
<1> QED
  BY <1>4, <1>14

LEMMA SortedIs ==
    ASSUME NEW R, NEW all \in Seq(R), NEW col, NEW asc,
           NEW cell, NEW X, \A i \in 1 .. Len(all) : cell[i] = all[i][col] /\ cell[i] \in X
    PROVE  SortedUp(sort_rows(all, col, asc), all, Len(all), col, asc, cell, X, R)
<1>1. PICK h : SortsUp(h, all, col, asc, R) /\ sort_rows(all, col, asc) = h[Len(all)]
  BY SortSteps
<1>2. PICK n : n = Len(all) /\ n \in Nat
  OBVIOUS
<1>3. /\ h[0] = <<>>
      /\ \A k \in 1 .. n : h[k] = InsertAt(h[k - 1], Placed(h[k - 1], all[k], col, asc) + 1, all[k])
  BY <1>1, <1>2 DEF SortsUp
<1> DEFINE P == {k \in 0 .. n : SortedUp(h[k], all, k, col, asc, cell, X, R)}
<1>4. 0 \in P
  <2>1. PICK p : p = [i \in 1 .. 0 |-> 0]
    OBVIOUS
  <2>2. PlacesOf(<<>>, p, all, 0, R)
    <3>1. <<>> \in Seq(R) /\ Len(<<>>) = 0 /\ p \in [1 .. 0 -> 1 .. 0] /\ 1 .. 0 = {}
      BY <2>1
    <3> QED
      BY <3>1 DEF PlacesOf
  <2>3. InPlace(p, cell, asc, 0) /\ NullsLast(<<>>, col)
    BY DEF InPlace, NullsLast
  <2>4. SortedUp(h[0], all, 0, col, asc, cell, X, R)
    BY <1>3, <2>2, <2>3 DEF SortedUp
  <2> QED
    BY <1>2, <2>4
<1>5. ASSUME NEW k \in 0 .. n - 1, k \in P PROVE k + 1 \in P
  <2>1. k \in Nat /\ k + 1 <= n /\ k + 1 \in 0 .. n /\ k + 1 \in 1 .. n /\ k + 1 - 1 = k
    BY <1>2
  <2>2. SortedUp(h[k], all, k, col, asc, cell, X, R)
    BY <1>5
  <2>3. PICK v : v = h[k]
    OBVIOUS
  <2>4. SortedUp(InsertAt(v, Placed(v, all[k + 1], col, asc) + 1, all[k + 1]), all, k + 1, col, asc, cell, X, R)
    BY <1>2, <2>1, <2>2, <2>3, SortOneMore
  <2>5. PICK l : l = k + 1
    OBVIOUS
  <2>6. h[l] = InsertAt(v, Placed(v, all[l], col, asc) + 1, all[l])
    BY <1>3, <2>1, <2>3, <2>5
  <2> QED
    BY <2>1, <2>4, <2>5, <2>6
<1>6. \A k \in 0 .. n : k \in P
  <2> HIDE DEF P
  <2> QED BY <1>2, <1>4, <1>5, Upward
<1>7. n \in P
  BY <1>2, <1>6
<1> QED
  BY <1>1, <1>2, <1>7

(* w is the rows of all in S, each once, the one at k from the place P[k]. *)
Selects(w, P, S, all, R) ==
    /\ w \in Seq(R) /\ P \in [1 .. Len(w) -> S]
    /\ \A k, l \in 1 .. Len(w) : P[k] = P[l] => k = l
    /\ \A x \in S : \E k \in 1 .. Len(w) : P[k] = x
    /\ \A k \in 1 .. Len(w) : w[k] = all[P[k]]

Increasing(P, n) == \A k, l \in 1 .. n : k < l => P[k] < P[l]

LEMMA KeptLists ==
    ASSUME NEW R, NEW all \in Seq(R), NEW S, S \subseteq 1 .. Len(all)
    PROVE  \E at : Selects(Kept(all, S), at, S, all, R) /\ Increasing(at, Len(Kept(all, S)))
<1>1. PICK n : n = Len(all) /\ n \in Nat
  OBVIOUS
<1>2. PICK at : at = Ascending(S, n)
  OBVIOUS
<1>3. InOrder(at, S, 1, n)
  BY <1>1, <1>2, AscendingIs
<1>4. KeptAs(Kept(all, S), all, at, R)
  BY <1>1, <1>3, KeptAt
<1>5. PICK w : w = Kept(all, S)
  OBVIOUS
<1>6. w \in Seq(R) /\ Len(w) = Len(at) /\ \A k \in 1 .. Len(at) : w[k] = all[at[k]]
  BY <1>4, <1>5 DEF KeptAs
<1>7. /\ at \in Seq(Nat)
      /\ \A k \in 1 .. Len(at) : at[k] \in S
      /\ \A x \in 1 .. n : x \in S => \E k \in 1 .. Len(at) : at[k] = x
      /\ \A k, l \in 1 .. Len(at) : k < l => at[k] < at[l]
  BY ONLY <1>3 DEF InOrder
<1>8. PICK m : m = Len(at) /\ m \in Nat
  BY <1>7
<1>9. at \in [1 .. m -> S]
  BY <1>7, <1>8
<1>10. ASSUME NEW k \in 1 .. m, NEW l \in 1 .. m, at[k] = at[l] PROVE k = l
  <2>1. at[k] \in Nat /\ ~ (k < l) /\ ~ (l < k)
    BY <1>7, <1>8, <1>10
  <2> QED
    BY ONLY <1>8, <2>1, k \in 1 .. m, l \in 1 .. m
<1>11. Selects(w, at, S, all, R)
  BY <1>1, <1>6, <1>7, <1>8, <1>9, <1>10 DEF Selects
<1>12. Increasing(at, Len(w))
  BY <1>6, <1>7 DEF Increasing
<1> QED
  BY <1>5, <1>11, <1>12

(* The rows in S in the order asked for.                                   *)
Arranged(w, P, S, all, col, asc, cell, X, R) ==
    /\ Selects(w, P, S, all, R)
    /\ Orders(X, asc) => InPlace(P, cell, asc, Len(w))
    /\ col # 0 => NullsLast(w, col)

LEMMA UnsortedArranged ==
    ASSUME NEW R, NEW all \in Seq(R), NEW S, S \subseteq 1 .. Len(all), NEW asc, NEW cell,
           \A i \in 1 .. Len(all) : cell[i] = NULL
    PROVE  \E P : Arranged(Kept(all, S), P, S, all, 0, asc, cell, {NULL}, R)
<1>1. PICK at, w : w = Kept(all, S) /\ Selects(w, at, S, all, R) /\ Increasing(at, Len(w))
  BY KeptLists
<1>2. ASSUME NEW k \in 1 .. Len(w), NEW l \in 1 .. Len(w), k < l PROVE Follow(cell, asc, at[k], at[l])
  <2>1. at[k] \in 1 .. Len(all) /\ at[l] \in 1 .. Len(all) /\ at[k] < at[l]
    BY <1>1, <1>2 DEF Selects, Increasing
  <2> QED
    BY <2>1 DEF Follow, Less
<1>3. InPlace(at, cell, asc, Len(w))
  BY <1>2 DEF InPlace
<1> QED
  BY <1>1, <1>3 DEF Arranged

LEMMA SortedArranged ==
    ASSUME NEW R, NEW all \in Seq(R), NEW S, S \subseteq 1 .. Len(all), NEW col, NEW asc, NEW cell, NEW X,
           \A i \in 1 .. Len(all) : cell[i] = all[i][col], \A i \in S : cell[i] \in X
    PROVE  \E P : Arranged(sort_rows(Kept(all, S), col, asc), P, S, all, col, asc, cell, X, R)
<1>1. PICK at, v : v = Kept(all, S) /\ Selects(v, at, S, all, R) /\ Increasing(at, Len(v))
  BY KeptLists
<1>2. PICK n : n = Len(v) /\ n \in Nat /\ v \in Seq(R)
  BY <1>1 DEF Selects
<1>3. /\ at \in [1 .. n -> S]
      /\ \A k, l \in 1 .. n : at[k] = at[l] => k = l
      /\ \A x \in S : \E k \in 1 .. n : at[k] = x
      /\ \A k \in 1 .. n : v[k] = all[at[k]]
  BY <1>1, <1>2 DEF Selects
<1>4. \A k, l \in 1 .. n : k < l => at[k] < at[l]
  BY <1>1, <1>2 DEF Increasing
<1>5. PICK c : c = [i \in 1 .. n |-> cell[at[i]]]
  OBVIOUS
<1>6. \A i \in 1 .. n : at[i] \in 1 .. Len(all) /\ at[i] \in S /\ at[i] \in Nat
  <2>1. \A x \in 1 .. Len(all) : x \in Nat
    OBVIOUS
  <2>2. S \subseteq 1 .. Len(all)
    OBVIOUS
  <2> QED
    BY ONLY <1>3, <2>1, <2>2
<1>7. \A i \in 1 .. Len(v) : c[i] = v[i][col] /\ c[i] \in X
  BY <1>2, <1>3, <1>5, <1>6
<1>8. SortedUp(sort_rows(v, col, asc), v, Len(v), col, asc, c, X, R)
  BY <1>2, <1>7, SortedIs
<1>9. PICK w : w = sort_rows(v, col, asc)
  OBVIOUS
<1>10. NullsLast(w, col)
  BY <1>8, <1>9 DEF SortedUp
<1>11. PICK p : PlacesOf(w, p, v, n, R) /\ (Orders(X, asc) => InPlace(p, c, asc, n))
  BY <1>2, <1>8, <1>9 DEF SortedUp
<1>12. /\ w \in Seq(R) /\ Len(w) = n
       /\ p \in [1 .. n -> 1 .. n]
       /\ \A i, j \in 1 .. n : p[i] = p[j] => i = j
       /\ \A x \in 1 .. n : \E i \in 1 .. n : p[i] = x
       /\ \A i \in 1 .. n : w[i] = v[p[i]]
  BY <1>11 DEF PlacesOf
<1>13. PICK P : P = [k \in 1 .. n |-> at[p[k]]]
  OBVIOUS
<1>14. \A k \in 1 .. n : P[k] = at[p[k]] /\ p[k] \in 1 .. n
  BY <1>12, <1>13
<1>15. Selects(w, P, S, all, R)
  <2>1. P \in [1 .. Len(w) -> S]
    BY <1>3, <1>12, <1>13
  <2>2. \A k, l \in 1 .. n : P[k] = P[l] => k = l
    BY <1>3, <1>12, <1>14
  <2>3. ASSUME NEW x \in S PROVE \E k \in 1 .. n : P[k] = x
    <3>1. PICK i \in 1 .. n : at[i] = x
      BY <1>3
    <3>2. PICK k \in 1 .. n : p[k] = i
      BY <1>12
    <3> QED
      BY <1>14, <3>1, <3>2
  <2>4. ASSUME NEW k \in 1 .. n PROVE w[k] = all[P[k]]
    <3>1. PICK i : i = p[k]
      OBVIOUS
    <3>2. i \in 1 .. n /\ w[k] = v[i] /\ P[k] = at[i]
      BY <1>12, <1>14, <3>1
    <3> QED
      BY <1>3, <3>2
  <2> QED
    BY <1>12, <2>1, <2>2, <2>3, <2>4 DEF Selects
<1>16. ASSUME Orders(X, asc) PROVE InPlace(P, cell, asc, n)
  <2>1. ASSUME NEW k \in 1 .. n, NEW l \in 1 .. n, k < l PROVE Follow(cell, asc, P[k], P[l])
    <3>1. Follow(c, asc, p[k], p[l])
      BY <1>11, <1>16, <2>1 DEF InPlace
    <3>2. PICK i, j : i = p[k] /\ j = p[l]
      OBVIOUS
    <3>3. i \in 1 .. n /\ j \in 1 .. n /\ P[k] = at[i] /\ P[l] = at[j] /\ c[i] = cell[at[i]] /\ c[j] = cell[at[j]]
      BY <1>5, <1>14, <3>2
    <3>4. i < j => at[i] < at[j]
      BY <1>4, <3>3
    <3> QED
      BY <3>1, <3>2, <3>3, <3>4 DEF Follow
  <2> QED
    BY <2>1 DEF InPlace
<1>17. Arranged(w, P, S, all, col, asc, cell, X, R)
  BY <1>10, <1>12, <1>15, <1>16 DEF Arranged
<1> QED
  BY <1>1, <1>9, <1>17

LEMMA Counted ==
    ASSUME NEW n \in Nat, NEW S, NEW P, P \in [1 .. n -> S],
           \A k, l \in 1 .. n : P[k] = P[l] => k = l, \A x \in S : \E k \in 1 .. n : P[k] = x
    PROVE  Cardinality(S) = n
<1>1. P \in Bijection(1 .. n, S)
  BY DEF Bijection, Injection, Surjection, IsInjective
<1> QED
  BY <1>1, FS_CountingElements DEF ExistsBijection

(* A row is at the place behind all the rows it is to follow.              *)
LEMMA Ranked ==
    ASSUME NEW R, NEW w, NEW P, NEW S, NEW all, Selects(w, P, S, all, R), S \subseteq Nat,
           NEW cell, NEW asc, InPlace(P, cell, asc, Len(w)),
           NEW X, Orders(X, asc), \A i \in S : cell[i] \in X, NEW x \in S
    PROVE  LET k == 1 + Cardinality({j \in S : Follow(cell, asc, j, x)})
           IN  k \in 1 .. Len(w) /\ w[k] = all[x]
<1>1. PICK n : n = Len(w) /\ n \in Nat
  BY DEF Selects
<1>2. /\ P \in [1 .. n -> S]
      /\ \A k, l \in 1 .. n : P[k] = P[l] => k = l
      /\ \A y \in S : \E k \in 1 .. n : P[k] = y
      /\ \A k \in 1 .. n : w[k] = all[P[k]]
  BY <1>1 DEF Selects
<1>3. PICK k \in 1 .. n : P[k] = x
  BY <1>2
<1>4. PICK m : m = k - 1 /\ m \in Nat /\ m < n /\ k = 1 + m /\ m <= n
  BY ONLY <1>1, k \in 1 .. n
<1>5. PICK T : T = {j \in S : Follow(cell, asc, j, x)}
  OBVIOUS
<1>6. \A i, j \in 1 .. n : i < j => Follow(cell, asc, P[i], P[j])
  BY <1>1 DEF InPlace
<1>7. ASSUME NEW i \in 1 .. m PROVE i \in 1 .. n /\ P[i] \in T
  <2>1. i \in 1 .. n /\ i < k
    BY ONLY <1>1, <1>4, i \in 1 .. m
  <2> QED
    BY <1>2, <1>3, <1>5, <1>6, <2>1
<1>8. ASSUME NEW y \in S, NEW z \in S, Follow(cell, asc, y, z), Follow(cell, asc, z, y) PROVE FALSE
  <2>1. y \in Nat /\ z \in Nat
    OBVIOUS
  <2>2. ~ (y < z /\ z < y)
    BY <2>1
  <2>3. cell[y] \in X /\ cell[z] \in X
    OBVIOUS
  <2>4. Less(cell[y], cell[z], asc) => ~ Less(cell[z], cell[y], asc)
    BY <2>3 DEF Orders
  <2> QED
    BY <1>8, <2>2, <2>4 DEF Follow
<1>9. ASSUME NEW y \in T PROVE \E i \in 1 .. m : P[i] = y
  <2>1. y \in S /\ Follow(cell, asc, y, x)
    BY <1>5
  <2>2. PICK i \in 1 .. n : P[i] = y
    BY <1>2, <2>1
  <2>3. i < k
    <3>1. ~ (k < i)
      <4> SUFFICES ASSUME k < i PROVE FALSE
        OBVIOUS
      <4>1. Follow(cell, asc, x, y)
        BY <1>3, <1>6, <2>2
      <4> QED
        BY <1>8, <2>1, <4>1
    <3>2. k # i
      <4> SUFFICES ASSUME k = i PROVE FALSE
        OBVIOUS
      <4>1. y = x
        BY <1>3, <2>2
      <4> QED
        BY <1>8, <2>1, <4>1
    <3> QED
      BY ONLY <1>1, <3>1, <3>2, k \in 1 .. n, i \in 1 .. n
  <2>4. i \in 1 .. m
    BY ONLY <1>1, <1>4, <2>3, k \in 1 .. n, i \in 1 .. n
  <2> QED
    BY <2>2, <2>4
<1>10. PICK Q : Q = [i \in 1 .. m |-> P[i]]
  OBVIOUS
<1>11. /\ Q \in [1 .. m -> T]
       /\ \A i, j \in 1 .. m : Q[i] = Q[j] => i = j
       /\ \A y \in T : \E i \in 1 .. m : Q[i] = y
  BY <1>2, <1>7, <1>9, <1>10
<1>12. Cardinality(T) = m
  BY <1>4, <1>11, Counted
<1>13. w[k] = all[x]
  BY <1>2, <1>3
<1> QED
  BY <1>1, <1>4, <1>5, <1>12, <1>13

-----------------------------------------------------------------------------
(* The cells of a column of the result, NULL without one.                  *)
ColumnCells(col) == [i \in DOMAIN rows |-> IF col = 0 THEN NULL ELSE rows[i][col]]

LEMMA PureOrders ==
    ASSUME NEW X, Pure(X), NEW asc \in BOOLEAN
    PROVE  Orders(X, asc)
BY CellsOneWay, CellsBetween DEF Orders

LEMMA CellsAre ==
    ASSUME NEW row \in Row, NEW c \in Cols
    PROVE  row[c] # NULL => row[c] \in Comparable
<1>1. row[c] \in Cells[c] /\ c \in DOMAIN Names
  BY DEF Row, Cols
<1> QED
  BY <1>1, CellsOk, BytesApart DEF Comparable

RowsTypeOK ==
    /\ rows \in Seq(Row) /\ arriving \in BOOLEAN
    /\ order \in [col : {0} \cup Cols, asc : BOOLEAN]

(* The grid is made anew whenever what it depends on changes.              *)
RowsInv ==
    /\ RowsTypeOK
    /\ arriving => active_filter = <<>>
    /\ ~ arriving => result_rows = Grid(active_filter, order)

LEMMA ColumnsStart == Cols = 1 .. Len(Names) /\ Len(Names) \in Nat /\ 0 \notin Cols
<1>1. Names \in Seq(Texts)
  BY NamesOk
<1> QED
  BY <1>1 DEF Cols

LEMMA RowsInvStart == RowsInit => RowsInv
<1> SUFFICES ASSUME RowsInit PROVE RowsInv
  OBVIOUS
<1>1. rows = <<>> /\ arriving = TRUE /\ active_filter = <<>> /\ order = [col |-> 0, asc |-> TRUE]
  BY DEF RowsInit
<1> QED
  BY <1>1 DEF RowsInv, RowsTypeOK

LEMMA RowsInvStep == RowsInv /\ [RowsNext]_rowVars => RowsInv'
<1> SUFFICES ASSUME RowsInv, [RowsNext]_rowVars PROVE RowsInv'
  OBVIOUS
<1>0. /\ RowsTypeOK /\ (arriving => active_filter = <<>>)
      /\ (~ arriving => result_rows = Grid(active_filter, order))
  BY DEF RowsInv
<1>1. CASE Receive
  <2>1. /\ arriving /\ arriving' = arriving /\ active_filter' = active_filter /\ order' = order
        /\ \E row \in Row : rows' = Append(rows, row)
    BY <1>1, Zenon DEF Receive, Row
  <2>2. rows' \in Seq(Row)
    BY <1>0, <2>1 DEF RowsTypeOK
  <2> QED
    BY <1>0, <2>1, <2>2 DEF RowsInv, RowsTypeOK
<1>2. CASE Show
  <2>1. /\ arriving /\ arriving' = FALSE /\ result_rows' = Grid(<<>>, order)
        /\ rows' = rows /\ active_filter' = active_filter /\ order' = order
    BY <1>2 DEF Show
  <2>2. Grid(active_filter, order)' = Grid(<<>>, order)
    BY <1>0, <2>1 DEF Grid
  <2> QED
    BY <1>0, <2>1, <2>2 DEF RowsInv, RowsTypeOK
<1>3. ASSUME NEW query, FilterResultRows(query) PROVE RowsInv'
  <2>1. /\ ~ arriving /\ result_rows' = Grid(query, order) /\ active_filter' = query
        /\ rows' = rows /\ arriving' = arriving /\ order' = order
    BY <1>3 DEF FilterResultRows
  <2>2. Grid(active_filter, order)' = Grid(query, order)
    BY <2>1 DEF Grid
  <2> QED
    BY <1>0, <2>1, <2>2 DEF RowsInv, RowsTypeOK
<1>4. ASSUME NEW c \in Cols, SortResultCol(c) PROVE RowsInv'
  <2>1. /\ ~ arriving /\ order' = [col |-> c, asc |-> IF order.col = c THEN ~ order.asc ELSE TRUE]
        /\ result_rows' = Grid(active_filter, order')
        /\ rows' = rows /\ arriving' = arriving /\ active_filter' = active_filter
    BY <1>4 DEF SortResultCol
  <2>2. Grid(active_filter, order)' = Grid(active_filter, order')
    BY <2>1 DEF Grid
  <2>3. order' \in [col : {0} \cup Cols, asc : BOOLEAN]
    BY <1>0, <2>1 DEF RowsTypeOK
  <2> QED
    BY <1>0, <2>1, <2>2, <2>3 DEF RowsInv, RowsTypeOK
<1>5. CASE UNCHANGED rowVars
  <2>1. /\ rows' = rows /\ arriving' = arriving /\ active_filter' = active_filter
        /\ order' = order /\ result_rows' = result_rows
    BY <1>5 DEF rowVars
  <2>2. Grid(active_filter, order)' = Grid(active_filter, order)
    BY <2>1 DEF Grid
  <2> QED
    BY <1>0, <2>1, <2>2 DEF RowsInv, RowsTypeOK
<1> QED
  BY <1>1, <1>2, <1>3, <1>4, <1>5 DEF RowsNext

THEOREM RowsInvariant == RowsSpec => []RowsInv
BY RowsInvStart, RowsInvStep, PTL DEF RowsSpec

(* The grid in terms of the rows it shows and the places they are from.    *)
ShownAs(w, P, S, X) ==
    /\ result_rows = [i \in DOMAIN w |-> rows_to_ui(w[i])]
    /\ Arranged(w, P, S, rows, order.col, order.asc, ColumnCells(order.col), X, Row)

LEMMA GridArranged ==
    ASSUME RowsInv, ~ arriving, NEW S, S = Found(rows, active_filter),
           NEW X, X = IF order.col = 0 THEN {NULL} ELSE {rows[i][order.col] : i \in S}
    PROVE  \E w, P : ShownAs(w, P, S, X)
<1>1. PICK col, asc : col = order.col /\ asc = order.asc
  OBVIOUS
<1>2. rows \in Seq(Row) /\ result_rows = Grid(active_filter, order)
  BY DEF RowsInv, RowsTypeOK
<1>3. S \subseteq 1 .. Len(rows)
  BY <1>2 DEF Found
<1>4. PICK cell : cell = ColumnCells(col)
  OBVIOUS
<1>5. PICK w : w = IF col = 0 THEN Kept(rows, S) ELSE sort_rows(Kept(rows, S), col, asc)
  OBVIOUS
<1>6. result_rows = [i \in DOMAIN w |-> rows_to_ui(w[i])]
  BY <1>1, <1>2, <1>5, Zenon DEF Grid, filter_rows
<1>7. \E P : Arranged(w, P, S, rows, col, asc, cell, X, Row)
  <2>1. CASE col = 0
    <3>1. X = {NULL} /\ \A i \in 1 .. Len(rows) : cell[i] = NULL
      BY <1>1, <1>2, <1>4, <2>1 DEF ColumnCells
    <3>2. \E P : Arranged(Kept(rows, S), P, S, rows, 0, asc, cell, {NULL}, Row)
      BY <1>2, <1>3, <3>1, UnsortedArranged
    <3> QED
      BY <1>5, <2>1, <3>1, <3>2
  <2>2. CASE col # 0
    <3>1. \A i \in 1 .. Len(rows) : cell[i] = rows[i][col]
      BY <1>2, <1>4, <2>2 DEF ColumnCells
    <3>2. \A i \in S : cell[i] \in X
      BY <1>1, <1>3, <2>2, <3>1
    <3>3. \E P : Arranged(sort_rows(Kept(rows, S), col, asc), P, S, rows, col, asc, cell, X, Row)
      BY <1>2, <1>3, <3>1, <3>2, SortedArranged
    <3> QED
      BY <1>5, <2>2, <3>3
  <2> QED
    BY <2>1, <2>2
<1> QED
  BY <1>1, <1>4, <1>6, <1>7 DEF ShownAs

LEMMA ShownFacts ==
    ASSUME NEW w, NEW P, NEW S, NEW X, ShownAs(w, P, S, X)
    PROVE  /\ Len(w) \in Nat /\ Len(result_rows) = Len(w) /\ DOMAIN result_rows = 1 .. Len(w)
           /\ \A k \in 1 .. Len(w) : result_rows[k] = rows_to_ui(w[k]) /\ P[k] \in S /\ w[k] = rows[P[k]]
           /\ \A x \in S : \E k \in 1 .. Len(w) : P[k] = x
           /\ Cardinality(S) = Len(w)
<1>1. Selects(w, P, S, rows, Row) /\ result_rows = [i \in DOMAIN w |-> rows_to_ui(w[i])]
  BY DEF ShownAs, Arranged
<1>2. /\ w \in Seq(Row) /\ P \in [1 .. Len(w) -> S]
      /\ \A k, l \in 1 .. Len(w) : P[k] = P[l] => k = l
      /\ \A x \in S : \E k \in 1 .. Len(w) : P[k] = x
      /\ \A k \in 1 .. Len(w) : w[k] = rows[P[k]]
  BY <1>1 DEF Selects
<1>3. PICK n : n = Len(w) /\ n \in Nat /\ DOMAIN w = 1 .. n
  BY <1>2
<1>4. Cardinality(S) = n
  BY <1>2, <1>3, Counted
<1>5. result_rows \in Seq({rows_to_ui(w[i]) : i \in DOMAIN w}) /\ Len(result_rows) = n /\ DOMAIN result_rows = 1 .. n
  <2>1. PICK g, V : g = result_rows /\ V = {rows_to_ui(w[i]) : i \in DOMAIN w}
    OBVIOUS
  <2>2. g \in [1 .. n -> V]
    BY <1>1, <1>3, <2>1
  <2> QED
    BY <1>3, <2>1, <2>2
<1>6. \A k \in 1 .. n : result_rows[k] = rows_to_ui(w[k])
  BY <1>1, <1>3
<1> QED
  BY <1>2, <1>3, <1>4, <1>5, <1>6

LEMMA GridOrdered == RowsInv => ShownInOrder
<1> SUFFICES ASSUME RowsInv PROVE ShownInOrder
  OBVIOUS
<1> DEFINE kept    == Found(rows, active_filter)
           values  == IF order.col = 0 THEN {} ELSE {rows[i][order.col] : i \in kept} \ {NULL}
           pure    == values \subseteq DOMAIN Number \/ values \cap DOMAIN Number = {}
           cell(i) == IF order.col = 0 THEN NULL ELSE rows[i][order.col]
           Goes(i, j) ==
             \/ cell(i) # NULL /\ cell(j) = NULL
             \/ cell(i) # NULL /\ cell(j) # NULL /\ (IF order.asc THEN Before(cell(i), cell(j)) ELSE Before(cell(j), cell(i)))
           Follows(i, j) == Goes(i, j) \/ (~ Goes(j, i) /\ i < j)
           AllShown == Len(result_rows) = Cardinality(kept)
           Each == \A i \in kept : \E k \in DOMAIN result_rows : result_rows[k] = rows_to_ui(rows[i])
           NullsEnd == \A k \in DOMAIN result_rows, m \in DOMAIN result_rows :
                     k < m /\ order.col # 0 /\ result_rows[k][order.col].is_null => result_rows[m][order.col].is_null
           Ordered == pure => \A i \in kept :
                     result_rows[1 + Cardinality({j \in kept : Follows(j, i)})] = rows_to_ui(rows[i])
<1>1. ASSUME ~ arriving PROVE AllShown /\ Each /\ NullsEnd /\ Ordered
  <2>1. PICK S, X, col, asc, c :
           /\ S = kept /\ X = (IF order.col = 0 THEN {NULL} ELSE {rows[i][order.col] : i \in S})
           /\ col = order.col /\ asc = order.asc /\ c = ColumnCells(col)
    OBVIOUS
  <2>2. PICK w, P : ShownAs(w, P, S, X)
    BY <1>1, <2>1, GridArranged
  <2>3. /\ rows \in Seq(Row) /\ asc \in BOOLEAN /\ col \in {0} \cup Cols
    BY <2>1 DEF RowsInv, RowsTypeOK
  <2>4. S \subseteq DOMAIN rows /\ S \subseteq Nat
    BY <2>1, <2>3 DEF Found
  <2>5. PICK n : n = Len(w)
    OBVIOUS
  <2>6. /\ n \in Nat /\ Len(result_rows) = n /\ DOMAIN result_rows = 1 .. n
        /\ \A k \in 1 .. n : result_rows[k] = rows_to_ui(w[k]) /\ P[k] \in S /\ w[k] = rows[P[k]]
        /\ \A x \in S : \E k \in 1 .. n : P[k] = x
        /\ Cardinality(S) = n
    BY <2>2, <2>5, ShownFacts
  <2>7. /\ Selects(w, P, S, rows, Row) /\ (col # 0 => NullsLast(w, col))
        /\ Orders(X, asc) => InPlace(P, c, asc, n)
    BY <2>1, <2>2, <2>5 DEF ShownAs, Arranged
  <2>8. \A i \in S : c[i] = cell(i)
    BY <2>1, <2>4 DEF ColumnCells
  <2>9. AllShown
    BY <2>1, <2>6
  <2>10. Each
    BY <2>1, <2>6
  <2>11. NullsEnd
    <3> SUFFICES ASSUME NEW k \in 1 .. n, NEW m \in 1 .. n, k < m, col # 0, result_rows[k][col].is_null
                 PROVE  result_rows[m][col].is_null
      BY <2>1, <2>6
    <3>1. col \in Cols
      BY <2>3
    <3>2. \A row : rows_to_ui(row)[col].is_null <=> row[col] = NULL
      BY <3>1 DEF rows_to_ui
    <3>3. w[k][col] = NULL
      BY <2>6, <3>2
    <3>4. w[m][col] = NULL
      BY <2>5, <2>7, <3>3 DEF NullsLast
    <3> QED
      BY <2>6, <3>2, <3>4
  <2>12. Ordered
    <3> SUFFICES ASSUME pure, NEW x \in kept
                 PROVE  result_rows[1 + Cardinality({j \in kept : Follows(j, x)})] = rows_to_ui(rows[x])
      OBVIOUS
    <3>1. Orders(X, asc)
      <4>1. CASE col = 0
        BY <2>1, <4>1 DEF Orders, Less
      <4>2. CASE col # 0
        <5>1. col \in Cols
          BY <2>3, <4>2
        <5>2. X \ {NULL} \subseteq Comparable
          <6>1. \A i \in S : rows[i] \in Row
            BY <2>3, <2>4
          <6> QED
            BY <2>1, <4>2, <5>1, <6>1, CellsAre
        <5>3. X \ {NULL} = values
          BY <2>1, <4>2
        <5>4. Pure(X)
          BY <5>2, <5>3 DEF Pure
        <5> QED
          BY <2>3, <5>4, PureOrders
      <4> QED
        BY <4>1, <4>2
    <3>2. \A i, j \in S : Follows(i, j) <=> Follow(c, asc, i, j)
      <4> SUFFICES ASSUME NEW i \in S, NEW j \in S PROVE Follows(i, j) <=> Follow(c, asc, i, j)
        OBVIOUS
      <4>1. Goes(i, j) <=> Less(c[i], c[j], asc)
        <5> HIDE DEF cell
        <5> QED BY <2>1, <2>8 DEF Less
      <4>2. Goes(j, i) <=> Less(c[j], c[i], asc)
        <5> HIDE DEF cell
        <5> QED BY <2>1, <2>8 DEF Less
      <4> HIDE DEF Goes
      <4> QED
        BY <4>1, <4>2 DEF Follow
    <3>3. PICK T : T = {j \in S : Follow(c, asc, j, x)}
      OBVIOUS
    <3>4. {j \in kept : Follows(j, x)} = T
      <4> HIDE DEF Follows
      <4> QED BY <2>1, <3>2, <3>3
    <3>5. \A i \in S : c[i] \in X
      BY <2>1, <2>8
    <3>6. PICK k : k = 1 + Cardinality(T)
      OBVIOUS
    <3>7. k \in 1 .. n /\ w[k] = rows[x]
      <4>1. x \in S /\ InPlace(P, c, asc, Len(w))
        BY <2>1, <2>5, <2>7, <3>1
      <4> HIDE DEF kept, pure
      <4>2. /\ 1 + Cardinality({j \in S : Follow(c, asc, j, x)}) \in 1 .. Len(w)
            /\ w[1 + Cardinality({j \in S : Follow(c, asc, j, x)})] = rows[x]
        BY <2>4, <2>7, <3>1, <3>5, <4>1, Ranked
      <4> QED
        BY ONLY <2>5, <3>3, <3>6, <4>2
    <3>8. result_rows[k] = rows_to_ui(rows[x])
      BY <2>6, <3>7
    <3> HIDE DEF Follows
    <3> QED
      BY <3>4, <3>6, <3>8
  <2> QED
    BY <2>9, <2>10, <2>11, <2>12
<1> QED
  BY <1>1, Zenon DEF ShownInOrder

(* After any filters and clicks on headers the grid has every row of the   *)
(* result the filter asks for, as often as the result has it, NULL last,   *)
(* and in order where the values of the column have one.                   *)
THEOREM GridInOrder == RowsSpec => []ShownInOrder
BY RowsInvariant, GridOrdered, PTL

(***************************************************************************)
(* Reading back.  A reader is a fold over the letters of a text; what it   *)
(* comes to over a text follows from what it comes to over the parts the   *)
(* text is put together from (Leads, in ListFacts).  First the copy: lines *)
(* and tabs.                                                               *)
(***************************************************************************)

(* The letters of what is written: those of texts and those put between    *)
(* them, which the provers do not know for strings.                        *)
Chars == STRING \cup {"\t", "\n", "\r", ",", "\"", "'", " ", "(", ")", "NULL", "INSERT", "VALUES", "semicolon"}

Lines == Seq(Chars)

LEMMA TextsAreLines == Texts \subseteq Lines
BY SeqWithin DEF Texts, Lines, Chars

Pieces == Seq(Lines) \ {<<>>}

SplitOp(at) ==
    [p \in Pieces \X Chars |->
        IF p[2] = at THEN Append(p[1], <<>>)
        ELSE [p[1] EXCEPT ![Len(p[1])] = Append(p[1][Len(p[1])], p[2])]]

LEMMA TextLonger ==
    ASSUME NEW t \in Lines, NEW x \in Chars
    PROVE  Append(t, x) \in Lines
BY Longer DEF Lines

LEMMA PiecesStart == <<>> \in Lines /\ <<<<>>>> \in Pieces /\ <<<<>>>> = Append(<<>>, <<>>)
<1>1. <<>> \in Lines
  BY DEF Lines
<1>2. PICK T, e : T = Lines /\ e = <<>> /\ e \in T
  BY <1>1
<1>3. <<e>> \in Seq(T) /\ <<e>> # <<>> /\ <<e>> = Append(<<>>, e)
  BY ONLY <1>2
<1> QED
  BY <1>1, <1>2, <1>3 DEF Pieces

LEMMA PiecesLonger ==
    ASSUME NEW acc \in Seq(Lines), NEW t \in Lines
    PROVE  Append(acc, t) \in Pieces
BY Longer, LongerSome DEF Pieces

LEMMA SplitOpType ==
    ASSUME NEW at
    PROVE  SplitOp(at) \in [Pieces \X Chars -> Pieces]
<1>1. ASSUME NEW v \in Pieces, NEW x \in Chars
      PROVE  (IF x = at THEN Append(v, <<>>) ELSE [v EXCEPT ![Len(v)] = Append(v[Len(v)], x)]) \in Pieces
  <2>1. v \in Seq(Lines) /\ v # <<>>
    BY DEF Pieces
  <2>2. PICK n : n = Len(v) /\ n \in Nat /\ n \in 1 .. n /\ v[n] \in Lines /\ DOMAIN v = 1 .. n
    BY <2>1
  <2>3. Append(v[n], x) \in Lines
    BY <2>2, TextLonger
  <2>4. PICK u : u = [v EXCEPT ![n] = Append(v[n], x)]
    OBVIOUS
  <2>5. u \in Seq(Lines) /\ Len(u) = n
    <3>1. PICK T, y : T = Lines /\ y = Append(v[n], x)
      OBVIOUS
    <3>2. v \in Seq(T) /\ n = Len(v) /\ n \in 1 .. n /\ y \in T
      BY <2>1, <2>2, <2>3, <3>1
    <3>3. ChangedAt([v EXCEPT ![n] = y], v, n, n, y, T)
      BY ONLY <3>2, ChangedEntry
    <3> QED
      BY <2>4, <3>1, <3>3 DEF ChangedAt
  <2>6. u \in Pieces
    BY <2>2, <2>5 DEF Pieces
  <2>7. Append(v, <<>>) \in Pieces
    BY <2>1, PiecesStart, PiecesLonger
  <2> QED
    BY <2>2, <2>4, <2>6, <2>7
<1> QED
  BY <1>1 DEF SplitOp

LEMMA SplitOpAt ==
    ASSUME NEW at, NEW acc \in Seq(Lines), NEW t \in Lines, NEW x \in Chars, x # at
    PROVE  SplitOp(at)[<<Append(acc, t), x>>] = Append(acc, Append(t, x))
<1>1. PICK v : v = Append(acc, t)
  OBVIOUS
<1>2. v \in Pieces
  BY <1>1, PiecesLonger
<1>3. SplitOp(at)[<<v, x>>] = [v EXCEPT ![Len(v)] = Append(v[Len(v)], x)]
  BY <1>2 DEF SplitOp
<1>4. [v EXCEPT ![Len(v)] = Append(v[Len(v)], x)] = Append(acc, Append(t, x))
  <2>1. Append(t, x) \in Lines
    BY TextLonger
  <2>2. PICK T, y, k : T = Lines /\ y = Append(t, x) /\ k = Len(v)
    OBVIOUS
  <2>3. v[k] = t /\ [v EXCEPT ![k] = y] = Append(acc, y)
    <3>1. acc \in Seq(T) /\ t \in T /\ y \in T /\ EndsWith(v, acc, t, k)
      BY <1>1, <2>1, <2>2 DEF EndsWith
    <3>2. LastNow(v, acc, t, k, y)
      BY ONLY <3>1, LastChanged
    <3> QED
      BY ONLY <3>2 DEF LastNow
  <2> QED
    BY ONLY <2>2, <2>3
<1> QED
  BY <1>1, <1>3, <1>4

(* Split gives what its step leads to.                                     *)
LEMMA SplitLeads ==
    ASSUME NEW text \in Seq(Chars), NEW at, NEW b, Leads(SplitOp(at), <<<<>>>>, text, b, Pieces)
    PROVE  Split(text, at) = b
<1> DEFINE In(acc, x) == IF x = at THEN Append(acc, <<>>) ELSE [acc EXCEPT ![Len(acc)] = Append(acc[Len(acc)], x)]
           Solves(f) == f = [T \in SUBSET DOMAIN text |->
                                IF T = {} THEN <<<<>>>> ELSE In(f[T \ {Max(T)}], text[Max(T)])]
           f == CHOOSE g : Solves(g)
<1>1. PICK op : op = SplitOp(at)
  OBVIOUS
<1>2. op \in [Pieces \X Chars -> Pieces]
  BY <1>1, SplitOpType
<1>3. \A v \in Pieces, x \in Chars : op[<<v, x>>] = In(v, x)
  BY <1>1 DEF SplitOp
<1>4. <<<<>>>> \in Pieces
  BY PiecesStart
<1>5. Split(text, at) = f[DOMAIN text]
  BY Zenon DEF Split, FoldLeft, MapThenFoldSet
<1> HIDE DEF In
<1>6. PICK base : base = <<<<>>>>
  OBVIOUS
<1>0. \E g : SolvesFold(g, op, base, text) /\ FoldsList(g, op, base, text, Pieces)
                /\ (\A T \in SUBSET DOMAIN text : g[T \ {Max(T)}] \in Pieces)
                /\ (\A T \in SUBSET DOMAIN text : T # {} => text[Max(T)] \in Chars)
  <2>1. Folding(op, base, text, Chars, Pieces)
    BY <1>2, <1>4, <1>6 DEF Folding
  <2> QED
    BY ONLY <2>1, FoldSolved
<1>7. \E g : Solves(g)
  <2>1. PICK g : /\ SolvesFold(g, op, base, text)
                 /\ \A T \in SUBSET DOMAIN text : g[T \ {Max(T)}] \in Pieces
                 /\ \A T \in SUBSET DOMAIN text : T # {} => text[Max(T)] \in Chars
    BY ONLY <1>0
  <2>2. Solves(g)
    BY <1>3, <1>6, <2>1 DEF SolvesFold
  <2> QED
    BY <2>2
<1>8. Solves(f)
  <2> HIDE DEF Solves
  <2> QED BY <1>7
<1>9. FoldsList(f, op, base, text, Pieces)
  <2>1. \A T \in SUBSET DOMAIN text : T # {} => text[Max(T)] \in Chars
    BY ONLY <1>0
  <2> HIDE DEF f
  <2> QED
    BY <1>3, <1>6, <1>8, <2>1 DEF FoldsList
<1>10. PICK F : F = f
  OBVIOUS
<1>11. FoldsList(F, op, base, text, Pieces) /\ Leads(op, base, text, b, Pieces)
  <2> HIDE DEF f
  <2> QED BY <1>1, <1>6, <1>9, <1>10
<1>13. Folding(op, base, text, Chars, Pieces)
  BY <1>2, <1>4, <1>6 DEF Folding
<1>12. F[DOMAIN text] = b
  BY ONLY <1>13, <1>11, FoldLeads
<1> QED
  BY <1>5, <1>10, <1>12

LEMMA PieceLeads ==
    ASSUME NEW acc \in Seq(Lines), NEW t \in Lines, NEW at, \A i \in 1 .. Len(t) : t[i] # at
    PROVE  Leads(SplitOp(at), Append(acc, <<>>), t, Append(acc, t), Pieces)
<1>1. PICK n : n = Len(t) /\ n \in Nat /\ t \in Seq(Chars) /\ \A i \in 1 .. n : t[i] \in Chars
  BY DEF Lines
<1>2. /\ SubSeq(t, 1, 0) = <<>> /\ SubSeq(t, 1, n) = t
      /\ \A i \in 0 .. n : SubSeq(t, 1, i) \in Seq(Chars)
      /\ \A i \in 1 .. n : SubSeq(t, 1, i) = Append(SubSeq(t, 1, i - 1), t[i])
  BY ONLY <1>1, FirstEntries
<1>3. \A i \in 0 .. n : SubSeq(t, 1, i) \in Lines
  BY <1>2 DEF Lines
<1>4. PICK c : c = [i \in 0 .. n |-> Append(acc, SubSeq(t, 1, i))]
  OBVIOUS
<1>5. \A i \in 0 .. n : c[i] = Append(acc, SubSeq(t, 1, i)) /\ c[i] \in Pieces
  BY <1>3, <1>4, PiecesLonger
<1>6. c \in [0 .. Len(t) -> Pieces]
  BY <1>1, <1>4, <1>5
<1>7. PICK op : op = SplitOp(at)
  OBVIOUS
<1>8. \A i \in 1 .. n : op[<<c[i - 1], t[i]>>] = c[i]
  <2> SUFFICES ASSUME NEW i \in 1 .. n PROVE op[<<c[i - 1], t[i]>>] = c[i]
    OBVIOUS
  <2>1. i \in 0 .. n /\ i - 1 \in 0 .. n
    BY <1>1
  <2>2. PICK u : u = SubSeq(t, 1, i - 1)
    OBVIOUS
  <2>3. u \in Lines /\ c[i - 1] = Append(acc, u) /\ c[i] = Append(acc, Append(u, t[i]))
    BY <1>2, <1>3, <1>5, <2>1, <2>2
  <2>4. op[<<Append(acc, u), t[i]>>] = Append(acc, Append(u, t[i]))
    <3>1. PICK x : x = t[i]
      OBVIOUS
    <3>2. x \in Chars /\ x # at /\ u \in Lines
      BY <1>1, <2>3, <3>1
    <3>3. SplitOp(at)[<<Append(acc, u), x>>] = Append(acc, Append(u, x))
      BY ONLY acc \in Seq(Lines), <3>2, SplitOpAt
    <3> QED
      BY <1>7, <3>1, <3>3
  <2> QED
    BY <2>3, <2>4
<1>9. Leads(op, c[0], t, c[Len(t)], Pieces)
  BY <1>1, <1>6, <1>8, LeadsAlong
<1>10. c[0] = Append(acc, <<>>) /\ c[n] = Append(acc, t)
  <2>1. 0 \in 0 .. n /\ n \in 0 .. n
    BY <1>1
  <2> QED
    BY <1>2, <1>5, <2>1
<1> QED
  BY <1>1, <1>7, <1>9, <1>10

(* What Joined puts one after the other.                                   *)
JoinedParts(texts, between) ==
    [i \in DOMAIN texts |-> IF i = 1 THEN texts[i] ELSE between \o texts[i]]

LEMMA JoinedIn ==
    ASSUME NEW C, NEW texts \in Seq(Seq(C)), NEW between \in Seq(C)
    PROVE  /\ JoinedParts(texts, between) \in Seq(Seq(C)) /\ Len(JoinedParts(texts, between)) = Len(texts)
           /\ \A i \in 1 .. Len(texts) :
                JoinedParts(texts, between)[i] = IF i = 1 THEN texts[i] ELSE between \o texts[i]
           /\ Joined(texts, between) = FlattenSeq(JoinedParts(texts, between))
           /\ Joined(texts, between) \in Seq(C)
<1>1. PICK n : n = Len(texts) /\ n \in Nat /\ DOMAIN texts = 1 .. n /\ \A i \in 1 .. n : texts[i] \in Seq(C)
  OBVIOUS
<1>2. PICK p : p = JoinedParts(texts, between)
  OBVIOUS
<1>3. \A i \in 1 .. n : between \o texts[i] \in Seq(C)
  BY <1>1
<1>4. \A i \in 1 .. n : p[i] = (IF i = 1 THEN texts[i] ELSE between \o texts[i]) /\ p[i] \in Seq(C)
  BY <1>1, <1>2, <1>3 DEF JoinedParts
<1>5. PICK T : T = Seq(C)
  OBVIOUS
<1>6. p \in [1 .. n -> T]
  BY <1>1, <1>2, <1>4, <1>5 DEF JoinedParts
<1>7. p \in Seq(Seq(C)) /\ Len(p) = n
  BY ONLY <1>1, <1>5, <1>6, ListOf
<1>8. Joined(texts, between) = FlattenSeq(p)
  BY <1>2, Zenon DEF Joined, JoinedParts
<1>9. FlattenSeq(p) \in Seq(C)
  BY <1>7, FlattenType
<1> QED
  BY <1>1, <1>2, <1>4, <1>7, <1>8, <1>9

(* Lines joined by a letter that none of them has are read back.           *)
LEMMA SplitJoined ==
    ASSUME NEW at \in Chars, NEW texts \in Seq(Seq(Chars \ {at})), texts # <<>>
    PROVE  Split(Joined(texts, <<at>>), at) = texts
<1>1. PICK n : n = Len(texts) /\ n \in Nat /\ DOMAIN texts = 1 .. n /\ n # 0
               /\ \A i \in 1 .. n : texts[i] \in Seq(Chars \ {at})
  <2>1. Len(texts) \in Nat /\ DOMAIN texts = 1 .. Len(texts) /\ Len(texts) # 0
        /\ \A i \in 1 .. Len(texts) : texts[i] \in Seq(Chars \ {at})
    OBVIOUS
  <2> QED
    BY ONLY <2>1
<1>2. ASSUME NEW i \in 1 .. n
      PROVE  texts[i] \in Seq(Chars) /\ texts[i] \in Lines /\ \A j \in 1 .. Len(texts[i]) : texts[i][j] # at
  <2>1. PICK t : t = texts[i]
    OBVIOUS
  <2>2. t \in Seq(Chars \ {at})
    BY <1>1, <2>1
  <2>3. t \in Seq(Chars) /\ \A j \in 1 .. Len(t) : t[j] # at
    <3>1. PICK C : C = Chars \ {at}
      OBVIOUS
    <3>2. C \subseteq Chars /\ at \notin C /\ t \in Seq(C)
      BY <2>2, <3>1
    <3>3. \A j \in 1 .. Len(t) : t[j] \in C
      BY ONLY <3>2
    <3>4. t \in Seq(Chars)
      BY ONLY <3>2, SeqWithin
    <3> QED
      BY ONLY <3>2, <3>3, <3>4
  <2> QED
    BY <2>1, <2>3 DEF Lines
<1>3. texts \in Seq(Lines)
  <2>1. PICK S, T : S = Seq(Chars \ {at}) /\ T = Lines
    OBVIOUS
  <2>2. texts \in [1 .. n -> S]
    BY <1>1, <2>1, SeqOn
  <2>3. texts \in [1 .. n -> T]
    BY ONLY <1>2, <2>1, <2>2
  <2> QED
    BY ONLY <1>1, <2>1, <2>3, ListOf
<1>4. texts \in Seq(Seq(Chars)) /\ <<at>> \in Seq(Chars)
  <2>1. <<at>> \in Seq(Chars)
    BY ShortLists
  <2> QED
    BY <1>3, <2>1 DEF Lines
<1>5. PICK p, b : p = JoinedParts(texts, b) /\ b = <<at>>
  OBVIOUS
<1>6. /\ p \in Seq(Seq(Chars)) /\ Len(p) = n
      /\ \A i \in 1 .. n : p[i] = IF i = 1 THEN texts[i] ELSE b \o texts[i]
      /\ Joined(texts, b) = FlattenSeq(p) /\ Joined(texts, b) \in Seq(Chars)
  <2>1. b \in Seq(Chars) /\ texts \in Seq(Seq(Chars))
    BY <1>4, <1>5
  <2>2. /\ JoinedParts(texts, b) \in Seq(Seq(Chars)) /\ Len(JoinedParts(texts, b)) = Len(texts)
        /\ \A i \in 1 .. Len(texts) :
             JoinedParts(texts, b)[i] = IF i = 1 THEN texts[i] ELSE b \o texts[i]
        /\ Joined(texts, b) = FlattenSeq(JoinedParts(texts, b))
        /\ Joined(texts, b) \in Seq(Chars)
    BY ONLY <2>1, JoinedIn
  <2> QED
    BY ONLY <1>1, <1>5, <2>2
<1>7. /\ SubSeq(texts, 1, 0) = <<>> /\ SubSeq(texts, 1, n) = texts
      /\ \A i \in 0 .. n : SubSeq(texts, 1, i) \in Seq(Lines)
      /\ \A i \in 1 .. n : SubSeq(texts, 1, i) = Append(SubSeq(texts, 1, i - 1), texts[i])
  BY ONLY <1>1, <1>3, FirstEntries
<1>8. PICK c : c = [i \in 0 .. n |-> IF i = 0 THEN <<<<>>>> ELSE SubSeq(texts, 1, i)]
  OBVIOUS
<1>9. c[0] = <<<<>>>> /\ c[n] = texts /\ \A i \in 1 .. n : c[i] = Append(SubSeq(texts, 1, i - 1), texts[i])
  <2>1. 0 \in 0 .. n /\ n \in 0 .. n /\ \A i \in 1 .. n : i \in 0 .. n /\ i # 0
    BY <1>1
  <2> QED
    BY <1>1, <1>7, <1>8, <2>1
<1>10. ASSUME NEW i \in 1 .. n PROVE SubSeq(texts, 1, i - 1) \in Seq(Lines) /\ texts[i] \in Lines /\ c[i] \in Pieces
  <2>1. i - 1 \in 0 .. n
    BY <1>1
  <2>2. SubSeq(texts, 1, i - 1) \in Seq(Lines) /\ texts[i] \in Lines
    BY <1>2, <1>7, <2>1
  <2> QED
    BY <1>9, <2>2, PiecesLonger
<1>11. \A i \in 0 .. n : c[i] \in Pieces
  <2>1. \A i \in 0 .. n : i = 0 \/ i \in 1 .. n
    BY <1>1
  <2> QED
    BY <1>9, <1>10, <2>1, PiecesStart
<1>12. ASSUME NEW i \in 1 .. n PROVE Leads(SplitOp(at), c[i - 1], p[i], c[i], Pieces)
  <2>1. PICK acc, t : acc = SubSeq(texts, 1, i - 1) /\ t = texts[i]
    OBVIOUS
  <2>2. acc \in Seq(Lines) /\ t \in Lines /\ c[i] = Append(acc, t) /\ t \in Seq(Chars)
    BY <1>9, <1>10, <2>1 DEF Lines
  <2>3. Leads(SplitOp(at), Append(acc, <<>>), t, c[i], Pieces)
    BY <1>2, <2>1, <2>2, PieceLeads
  <2>4. CASE i = 1
    <3>1. p[i] = t /\ acc = <<>> /\ i - 1 = 0
      BY <1>6, <1>7, <2>1, <2>4
    <3>2. c[i - 1] = Append(acc, <<>>)
      BY <1>9, <3>1, PiecesStart
    <3> QED
      BY <2>3, <3>1, <3>2
  <2>5. CASE i # 1
    <3>0. i - 1 \in 1 .. n /\ i - 1 \in 0 .. n
      BY ONLY <1>1, <2>5, i \in 1 .. n
    <3>1. p[i] = b \o t /\ i - 1 \in 1 .. n /\ i - 1 \in 0 .. n
      BY <1>6, <2>1, <2>5, <3>0
    <3>2. c[i - 1] = acc /\ acc \in Pieces
      BY <1>1, <1>8, <1>11, <2>1, <2>5, <3>1
    <3>3. SplitOp(at)[<<acc, at>>] = Append(acc, <<>>)
      BY <3>2 DEF SplitOp
    <3>4. Append(acc, <<>>) \in Pieces
      BY <2>2, PiecesStart, PiecesLonger
    <3>5. Leads(SplitOp(at), acc, b, Append(acc, <<>>), Pieces)
      BY <1>5, <3>2, <3>3, <3>4, LeadsOne
    <3>6. b \in Seq(Chars)
      BY <1>4, <1>5
    <3>7. Leads(SplitOp(at), acc, b \o t, c[i], Pieces)
      BY <2>2, <2>3, <3>5, <3>6, LeadsOn
    <3> QED
      BY <3>1, <3>2, <3>7
  <2> QED
    BY <2>4, <2>5
<1>13. Leads(SplitOp(at), c[0], FlattenSeq(p), c[Len(p)], Pieces)
  <2>1. PICK op : op = SplitOp(at)
    OBVIOUS
  <2>2. (\A i \in 0 .. Len(p) : c[i] \in Pieces) /\ \A i \in 1 .. Len(p) : Leads(op, c[i - 1], p[i], c[i], Pieces)
    BY <1>6, <1>11, <1>12, <2>1
  <2>3. Leads(op, c[0], FlattenSeq(p), c[Len(p)], Pieces)
    BY ONLY <1>6, <2>2, LeadsFlat
  <2> QED
    BY <2>1, <2>3
<1> QED
  BY <1>5, <1>6, <1>9, <1>13, SplitLeads

LEMMA CellTexts ==
    ASSUME NEW row \in Row, NEW g, g = GridText(rows_to_ui(row))
    PROVE  g \in Seq(Lines) /\ Len(g) = Len(Names)
           /\ \A c \in Cols : g[c] = (IF row[c] = NULL THEN <<>> ELSE row[c]) /\ g[c] = rows_to_ui(row)[c].value
<1>1. PICK n : n = Len(Names) /\ n \in Nat /\ Cols = 1 .. n
  BY ColumnsStart
<1>2. ASSUME NEW c \in Cols
      PROVE  /\ g[c] = (IF row[c] = NULL THEN <<>> ELSE row[c]) /\ g[c] = rows_to_ui(row)[c].value
             /\ g[c] \in Lines
  <2>1. g[c] = rows_to_ui(row)[c].value
    BY <1>2 DEF GridText
  <2>2. rows_to_ui(row)[c].value = IF row[c] = NULL THEN <<>> ELSE row[c]
    BY <1>2 DEF rows_to_ui
  <2>3. row[c] # NULL => row[c] \in Lines
    BY CellsAre, TextsAreLines DEF Comparable
  <2> QED
    BY <2>1, <2>2, <2>3, PiecesStart
<1>3. PICK T : T = Lines
  OBVIOUS
<1>4. g \in [1 .. n -> T]
  BY <1>1, <1>2, <1>3 DEF GridText
<1> QED
  BY <1>1, <1>2, <1>3, <1>4, ListOf

LEMMA GridOf ==
    ASSUME RowsInv, ~ arriving
    PROVE  \E all \in Seq(Row) : result_rows = [i \in DOMAIN all |-> rows_to_ui(all[i])]
<1>1. PICK w, P, S, X : ShownAs(w, P, S, X)
  BY GridArranged
<1>2. w \in Seq(Row) /\ result_rows = [i \in DOMAIN w |-> rows_to_ui(w[i])]
  BY <1>1 DEF ShownAs, Arranged, Selects
<1> QED
  BY <1>2

(* A text with none of some letters.                                       *)
LEMMA TextWithout ==
    ASSUME NEW t \in Lines, NEW C, \A i \in DOMAIN t : t[i] \notin C
    PROVE  t \in Seq(Chars \ C)
<1>1. PICK n : n = Len(t) /\ n \in Nat /\ DOMAIN t = 1 .. n /\ t \in [1 .. n -> Chars]
  BY SeqOn DEF Lines
<1>2. PICK T : T = Chars \ C
  OBVIOUS
<1>3. t \in [1 .. n -> T]
  BY <1>1, <1>2
<1> QED
  BY <1>1, <1>2, <1>3, ListOf

LEMMA TextsWithout ==
    ASSUME NEW s \in Seq(Lines), NEW C, \A c \in DOMAIN s : \A i \in DOMAIN s[c] : s[c][i] \notin C
    PROVE  s \in Seq(Seq(Chars \ C))
<1>1. PICK n : n = Len(s) /\ n \in Nat /\ DOMAIN s = 1 .. n /\ s \in [1 .. n -> Lines]
  BY SeqOn
<1>2. PICK T : T = Seq(Chars \ C)
  OBVIOUS
<1>3. \A c \in 1 .. n : s[c] \in T
  BY <1>1, <1>2, TextWithout
<1>4. s \in [1 .. n -> T]
  BY <1>1, <1>3
<1> QED
  BY <1>1, <1>2, <1>4, ListOf

Plain(s) == \A c \in DOMAIN s : \A i \in DOMAIN s[c] : s[c][i] \notin {"\t", "\n"}

(* A line of plain cells is read back, and is one line.                    *)
LEMMA LineBack ==
    ASSUME NEW s \in Seq(Lines), s # <<>>, Plain(s)
    PROVE  Split(cells_to_tsv(s), "\t") = s /\ cells_to_tsv(s) \in Seq(Chars \ {"\n"})
<1>1. PICK tab, end : tab = "\t" /\ end = "\n" /\ tab # end /\ tab \in Chars /\ end \in Chars
  <2>1. "\t" # "\n" /\ "\t" \in Chars /\ "\n" \in Chars
    BY DEF Chars
  <2> QED
    BY ONLY <2>1
<1>2. \A c \in DOMAIN s : \A i \in DOMAIN s[c] : s[c][i] \notin {tab} /\ s[c][i] \notin {end}
  BY <1>1 DEF Plain
<1>3. s \in Seq(Seq(Chars \ {tab})) /\ s \in Seq(Seq(Chars \ {end}))
  <2>1. \A c \in DOMAIN s : \A i \in DOMAIN s[c] : s[c][i] \notin {tab}
    BY <1>2
  <2>2. \A c \in DOMAIN s : \A i \in DOMAIN s[c] : s[c][i] \notin {end}
    BY <1>2
  <2> QED
    BY <2>1, <2>2, TextsWithout
<1>4. cells_to_tsv(s) = Joined(s, <<tab>>)
  BY <1>1 DEF cells_to_tsv
<1>5. Split(cells_to_tsv(s), tab) = s
  BY <1>1, <1>3, <1>4, SplitJoined
<1>6. cells_to_tsv(s) \in Seq(Chars \ {end})
  <2>1. PICK C, b : C = Chars \ {end} /\ b = <<tab>>
    OBVIOUS
  <2>2. b \in Seq(C)
    <3>1. tab \in C
      BY <1>1, <2>1
    <3> QED
      BY <2>1, <3>1, ShortLists
  <2>3. Joined(s, b) \in Seq(C)
    BY <1>3, <2>1, <2>2, JoinedIn
  <2> QED
    BY <1>4, <2>1, <2>3
<1> QED
  BY <1>1, <1>5, <1>6

LEMMA CopyReadsBack == RowsInv => CopyIsGrid
<1> SUFFICES ASSUME RowsInv PROVE CopyIsGrid
  OBVIOUS
<1> DEFINE lines == Split(CopyTsv, "\n")
           Simple(t) == \A i \in DOMAIN t : t[i] \notin {"\t", "\n"}
           Cell == [i \in DOMAIN lines |-> Split(lines[i], "\t")]
                     = <<Names>> \o [i \in DOMAIN result_rows |-> GridText(result_rows[i])]
           Alone == \A i \in DOMAIN result_rows : CopyRow(i) = lines[i + 1]
<1>1. ASSUME ~ arriving, \A c \in Cols : Simple(Names[c]) /\ \A i \in DOMAIN result_rows : Simple(result_rows[i][c].value)
      PROVE  Cell /\ Alone
  <2>1. PICK all \in Seq(Row) : result_rows = [i \in DOMAIN all |-> rows_to_ui(all[i])]
    BY <1>1, GridOf
  <2>2. PICK m : m = Len(all) /\ m \in Nat /\ DOMAIN all = 1 .. m /\ DOMAIN result_rows = 1 .. m
    BY <2>1
  <2>3. PICK F : F = [i \in 1 .. m |-> GridText(result_rows[i])]
    OBVIOUS
  <2>4. ASSUME NEW i \in 1 .. m
        PROVE  /\ F[i] \in Seq(Lines) /\ Len(F[i]) = Len(Names)
               /\ \A c \in Cols : F[i][c] = result_rows[i][c].value
    <3>1. all[i] \in Row /\ result_rows[i] = rows_to_ui(all[i])
      BY <2>1, <2>2
    <3>2. F[i] = GridText(rows_to_ui(all[i]))
      BY <2>3, <3>1
    <3> QED
      BY <3>1, <3>2, CellTexts
  <2>5. Names \in Seq(Lines) /\ Names # <<>> /\ Cols = DOMAIN Names /\ Len(Names) # 0 /\ Cols = 1 .. Len(Names)
    <3>1. Names \in Seq(Lines) /\ Names # <<>>
      BY NamesOk, TextsAreLines, SeqWithin
    <3>2. Len(Names) # 0
      BY <3>1
    <3> QED
      BY <3>1, <3>2, ColumnsStart DEF Cols
  <2>6. Plain(Names)
    BY <1>1, <2>5 DEF Plain
  <2>7. ASSUME NEW i \in 1 .. m PROVE Plain(F[i]) /\ F[i] # <<>>
    <3>1. DOMAIN F[i] = Cols
      BY <2>4, <2>5
    <3>2. F[i] # <<>>
      <4>1. PICK f : f = F[i]
        OBVIOUS
      <4>2. Len(f) # 0
        BY <2>4, <2>5, <4>1
      <4> QED
        BY <4>1, <4>2
    <3> QED
      BY <1>1, <2>2, <2>4, <3>1, <3>2 DEF Plain
  <2>8. PICK all2, T : T = Seq(Lines) /\ all2 = <<Names>> \o F
    OBVIOUS
  <2>9. F \in Seq(T) /\ Len(F) = m /\ DOMAIN F = 1 .. m
    <3>1. F \in [1 .. m -> T]
      BY <2>3, <2>4, <2>8
    <3> QED
      BY <2>2, <3>1, ListOf
  <2>10. /\ all2 \in Seq(T) /\ Len(all2) = m + 1 /\ all2[1] = Names
         /\ \A i \in 1 .. m : all2[i + 1] = F[i]
    BY <2>2, <2>5, <2>8, <2>9
  <2>11. PICK U : U = Seq(Chars \ {"\n"})
    OBVIOUS
  <2>12. ASSUME NEW i \in 1 .. m + 1
         PROVE  Split(cells_to_tsv(all2[i]), "\t") = all2[i] /\ cells_to_tsv(all2[i]) \in U
    <3>1. CASE i = 1
      BY <2>5, <2>6, <2>10, <2>11, <3>1, LineBack
    <3>2. CASE i # 1
      <4>1. PICK j : j = i - 1
        OBVIOUS
      <4>2. j \in 1 .. m /\ j + 1 = i
        BY <2>2, <3>2, <4>1
      <4>3. all2[i] = F[j]
        BY <2>10, <4>2
      <4> QED
        BY <2>4, <2>7, <2>11, <4>2, <4>3, LineBack
    <3> QED
      BY <3>1, <3>2
  <2>13. PICK L : L = [i \in 1 .. m + 1 |-> cells_to_tsv(all2[i])]
    OBVIOUS
  <2>14. L \in Seq(U) /\ Len(L) = m + 1 /\ DOMAIN L = 1 .. m + 1
    <3>1. L \in [1 .. m + 1 -> U]
      BY <2>12, <2>13
    <3>2. m + 1 \in Nat
      BY <2>2
    <3> QED
      BY <3>1, <3>2, ListOf
  <2>15. <<cells_to_tsv(Names)>> \o [i \in 1 .. m |-> cells_to_tsv(F[i])] = L
    <3>1. PICK a, G : a = cells_to_tsv(Names) /\ G = [i \in 1 .. m |-> cells_to_tsv(F[i])]
      OBVIOUS
    <3>2. 1 \in 1 .. m + 1 /\ \A i \in 1 .. m : i + 1 \in 1 .. m + 1
      BY <2>2
    <3>3. L[1] = a /\ a \in U /\ \A i \in 1 .. m : L[i + 1] = G[i] /\ G[i] \in U
      BY <2>10, <2>12, <2>13, <3>1, <3>2
    <3>4. G \in Seq(U) /\ Len(G) = m
      <4>1. G \in [1 .. m -> U]
        BY <3>1, <3>3
      <4> QED
        BY <2>2, <4>1, ListOf
    <3>5. PICK K : K = <<a>> \o G
      OBVIOUS
    <3>6. K \in Seq(U) /\ Len(K) = m + 1 /\ K[1] = a /\ \A i \in 1 .. m : K[i + 1] = G[i]
      BY <2>2, <3>3, <3>4, <3>5
    <3>7. ASSUME NEW i \in 1 .. m + 1 PROVE K[i] = L[i]
      <4>1. CASE i = 1
        BY <3>3, <3>6, <4>1
      <4>2. CASE i # 1
        <5>1. PICK j : j = i - 1
          OBVIOUS
        <5>2. j \in 1 .. m /\ j + 1 = i
          BY <2>2, <4>2, <5>1
        <5> QED
          BY <3>3, <3>6, <5>2
      <4> QED
        BY <4>1, <4>2
    <3>8. K = L
      BY ONLY <2>14, <3>6, <3>7, SeqEqual
    <3> QED
      BY <3>1, <3>5, <3>8
  <2>16. CopyTsv = Joined(L, <<"\n">>)
    <3>1. [i \in DOMAIN result_rows |-> GridText(result_rows[i])] = F
      BY <2>2, <2>3
    <3>2. CopyTsv = result_to_tsv(F)
      BY <3>1, Zenon DEF CopyTsv
    <3>3. result_to_tsv(F) = Joined(<<cells_to_tsv(Names)>> \o [i \in 1 .. m |-> cells_to_tsv(F[i])], <<"\n">>)
      BY <2>9, Zenon DEF result_to_tsv
    <3> QED
      BY <2>15, <3>2, <3>3
  <2>17. lines = L
    <3>1. L # <<>>
      BY <2>2, <2>14
    <3>2. L \in Seq(Seq(Chars \ {"\n"}))
      BY <2>11, <2>14
    <3>3. "\n" \in Chars
      BY DEF Chars
    <3> QED
      BY <2>16, <3>1, <3>2, <3>3, SplitJoined
  <2>18. Cell
    <3>1. PICK M : M = [i \in 1 .. m + 1 |-> Split(L[i], "\t")]
      OBVIOUS
    <3>2. \A i \in 1 .. m + 1 : M[i] = all2[i]
      BY <2>12, <2>13, <3>1
    <3>3. M = all2
      <4>1. M \in [1 .. m + 1 -> T]
        BY <2>10, <3>1, <3>2
      <4>2. m + 1 \in Nat
        BY <2>2
      <4>3. M \in Seq(T) /\ Len(M) = m + 1
        BY <4>1, <4>2, ListOf
      <4> QED
        BY ONLY <2>10, <3>2, <4>3, SeqEqual
    <3>4. [i \in DOMAIN lines |-> Split(lines[i], "\t")] = M
      <4> HIDE DEF lines
      <4> QED BY <2>14, <2>17, <3>1
    <3>5. [i \in DOMAIN result_rows |-> GridText(result_rows[i])] = F
      BY <2>2, <2>3
    <3> HIDE DEF lines
    <3> QED
      BY <2>8, <3>3, <3>4, <3>5
  <2>19. Alone
    <3> SUFFICES ASSUME NEW i \in 1 .. m PROVE CopyRow(i) = L[i + 1]
      BY <2>2, <2>17
    <3>1. i + 1 \in 1 .. m + 1
      BY <2>2
    <3>2. L[i + 1] = cells_to_tsv(F[i])
      BY <2>10, <2>13, <3>1
    <3>3. CopyRow(i) = cells_to_tsv(F[i])
      BY <2>3 DEF CopyRow
    <3> QED
      BY <3>2, <3>3
  <2> QED
    BY <2>18, <2>19
<1> QED
  BY <1>1, Zenon DEF CopyIsGrid

(* What is copied is what is shown: read back line by line and tab by tab  *)
(* it is the names of the columns and the rows of the grid.                *)
THEOREM GridCopied == RowsSpec => []CopyIsGrid
BY RowsInvariant, CopyReadsBack, PTL

(***************************************************************************)
(* The CSV file: a field is read to its text whether or not it is quoted,  *)
(* a record to its fields, the file to its lines.                          *)
(***************************************************************************)

(* The states of the reader of CSV.                                        *)
CsvState == [mode : {"start", "plain", "quoted", "closing"}, text : Lines, fields : Seq(Lines), lines : Seq(Seq(Lines))]

Csv(mode, text, fields, lines) == [mode |-> mode, text |-> text, fields |-> fields, lines |-> lines]

CsvOp == [p \in CsvState \X Chars |-> CsvStep(p[1], p[2])]

LEMMA CsvKeeps ==
    ASSUME NEW a \in CsvState, NEW x \in Chars
    PROVE  CsvStep(a, x) \in CsvState
<1>1. PICK L, F : L = Lines /\ F = Seq(Lines)
  OBVIOUS
<1>2. /\ a \in [mode : {"start", "plain", "quoted", "closing"}, text : L, fields : F, lines : Seq(F)]
      /\ F = Seq(L)
  BY <1>1 DEF CsvState
<1>3. Append(a.text, x) \in L
  BY <1>1, <1>2, Longer DEF Lines
<1>4. Append(a.fields, a.text) \in F /\ <<>> \in L /\ <<>> \in F
  <2>1. <<>> \in L
    BY <1>1 DEF Lines
  <2> QED
    BY <1>2, <2>1
<1>5. Append(a.lines, Append(a.fields, a.text)) \in Seq(F)
  BY <1>2, <1>4
<1>6. CsvStep(a, x) \in [mode : {"start", "plain", "quoted", "closing"}, text : L, fields : F, lines : Seq(F)]
  BY ONLY <1>2, <1>3, <1>4, <1>5 DEF CsvStep
<1> QED
  BY <1>1, <1>6 DEF CsvState

LEMMA CsvOpIs ==
    /\ CsvOp \in [CsvState \X Chars -> CsvState]
    /\ \A a \in CsvState, x \in Chars : CsvOp[<<a, x>>] = CsvStep(a, x)
<1>1. \A p \in CsvState \X Chars : CsvStep(p[1], p[2]) \in CsvState
  BY CsvKeeps
<1> QED
  BY <1>1 DEF CsvOp

(* The steps of the reader.                                                *)
Ordinary(x) == x \notin {",", "\"", "\n"}
Bare(m)     == m \in {"start", "plain"}

LEMMA CsvLetter ==
    ASSUME NEW t, NEW f, NEW l, NEW x, Ordinary(x), NEW m, Bare(m)
    PROVE  CsvStep(Csv(m, t, f, l), x) = Csv("plain", Append(t, x), f, l)
BY DEF CsvStep, Csv, Ordinary, Bare

LEMMA CsvInside ==
    ASSUME NEW t, NEW f, NEW l, NEW x, x # "\""
    PROVE  CsvStep(Csv("quoted", t, f, l), x) = Csv("quoted", Append(t, x), f, l)
BY DEF CsvStep, Csv

LEMMA CsvQuote ==
    ASSUME NEW t, NEW f, NEW l
    PROVE  /\ CsvStep(Csv("start", t, f, l), "\"") = Csv("quoted", t, f, l)
           /\ CsvStep(Csv("quoted", t, f, l), "\"") = Csv("closing", t, f, l)
           /\ CsvStep(Csv("closing", t, f, l), "\"") = Csv("quoted", Append(t, "\""), f, l)
BY DEF CsvStep, Csv

LEMMA CsvComma ==
    ASSUME NEW t, NEW f, NEW l, NEW m \in {"start", "plain", "closing"}
    PROVE  CsvStep(Csv(m, t, f, l), ",") = Csv("start", <<>>, Append(f, t), l)
BY DEF CsvStep, Csv

LEMMA CsvEnd ==
    ASSUME NEW t, NEW f, NEW l, NEW m \in {"start", "plain", "closing"}, ~ (m = "start" /\ f = <<>>)
    PROVE  CsvStep(Csv(m, t, f, l), "\n") = Csv("start", <<>>, <<>>, Append(l, Append(f, t)))
BY DEF CsvStep, Csv

LEMMA CsvIn ==
    ASSUME NEW m \in {"start", "plain", "quoted", "closing"}, NEW t \in Lines,
           NEW f \in Seq(Lines), NEW l \in Seq(Seq(Lines))
    PROVE  Csv(m, t, f, l) \in CsvState
BY DEF Csv, CsvState

(* From c[i - 1] the letter i leads to c[i], doubled by way of half[i].    *)
Doubles(op, t, q, c, half, V) ==
    /\ \A i \in 0 .. Len(t) : c[i] \in V
    /\ \A i \in 1 .. Len(t) :
         IF t[i] = q THEN half[i] \in V /\ op[<<c[i - 1], q>>] = half[i] /\ op[<<half[i], q>>] = c[i]
         ELSE op[<<c[i - 1], t[i]>>] = c[i]

LEMMA DoubledLeads ==
    ASSUME NEW V, NEW op, NEW t \in Lines, NEW q \in Chars, NEW c, NEW half, Doubles(op, t, q, c, half, V)
    PROVE  Leads(op, c[0], Doubled(t, q), c[Len(t)], V) /\ Doubled(t, q) \in Lines
<1>1. PICK n : n = Len(t) /\ n \in Nat /\ DOMAIN t = 1 .. n /\ \A i \in 1 .. n : t[i] \in Chars
  BY DEF Lines
<1>2. /\ \A i \in 0 .. n : c[i] \in V
      /\ \A i \in 1 .. n :
           IF t[i] = q THEN half[i] \in V /\ op[<<c[i - 1], q>>] = half[i] /\ op[<<half[i], q>>] = c[i]
           ELSE op[<<c[i - 1], t[i]>>] = c[i]
  BY <1>1 DEF Doubles
<1>3. PICK p : p = [i \in DOMAIN t |-> IF t[i] = q THEN <<q, q>> ELSE <<t[i]>>]
  OBVIOUS
<1>4. \A i \in 1 .. n : p[i] = (IF t[i] = q THEN <<q, q>> ELSE <<t[i]>>) /\ p[i] \in Seq(Chars)
  BY <1>1, <1>3, ShortLists
<1>5. p \in Seq(Seq(Chars)) /\ Len(p) = n
  <2>1. PICK T : T = Seq(Chars)
    OBVIOUS
  <2>2. p \in [1 .. n -> T]
    BY <1>1, <1>3, <1>4, <2>1
  <2> QED
    BY <1>1, <2>1, <2>2, ListOf
<1>6. ASSUME NEW i \in 1 .. n PROVE Leads(op, c[i - 1], p[i], c[i], V)
  <2>1. i \in 0 .. n /\ i - 1 \in 0 .. n
    BY <1>1
  <2>2. PICK a, b : a = c[i - 1] /\ b = c[i] /\ a \in V /\ b \in V
    BY <1>2, <2>1
  <2>3. CASE t[i] = q
    <3>1. PICK d : d = half[i]
      OBVIOUS
    <3>2. p[i] = <<q, q>> /\ d \in V /\ op[<<a, q>>] = d /\ op[<<d, q>>] = b
      BY <1>2, <1>4, <2>2, <2>3, <3>1
    <3>3. Leads(op, a, <<q, q>>, b, V)
      BY <2>2, <3>2, LeadsTwo
    <3> QED
      BY <2>2, <3>2, <3>3
  <2>4. CASE t[i] # q
    <3>1. p[i] = <<t[i]>> /\ op[<<a, t[i]>>] = b
      BY <1>2, <1>4, <2>2, <2>4
    <3>2. Leads(op, a, <<t[i]>>, b, V)
      BY <2>2, <3>1, LeadsOne
    <3> QED
      BY <2>2, <3>1, <3>2
  <2> QED
    BY <2>3, <2>4
<1>7. Leads(op, c[0], FlattenSeq(p), c[Len(p)], V)
  BY <1>2, <1>5, <1>6, LeadsFlat
<1>8. Doubled(t, q) = FlattenSeq(p)
  BY <1>3, Zenon DEF Doubled
<1>9. FlattenSeq(p) \in Seq(Chars)
  BY <1>5, FlattenType
<1> QED
  BY <1>1, <1>5, <1>7, <1>8, <1>9 DEF Lines

(* How a quoted text is read: from open, over c inside, to shut.           *)
LEMMA QuotedLeads ==
    ASSUME NEW V, NEW op, NEW t \in Lines, NEW q \in Chars, NEW c, NEW half, Doubles(op, t, q, c, half, V),
           NEW open \in V, op[<<open, q>>] = c[0], NEW shut \in V, op[<<c[Len(t)], q>>] = shut
    PROVE  Leads(op, open, Quoted(t, q), shut, V) /\ Quoted(t, q) \in Lines
<1>1. Leads(op, c[0], Doubled(t, q), c[Len(t)], V) /\ Doubled(t, q) \in Seq(Chars)
  BY DoubledLeads DEF Lines
<1>2. c[0] \in V /\ c[Len(t)] \in V
  <2>1. Len(t) \in Nat
    BY DEF Lines
  <2>2. 0 \in 0 .. Len(t) /\ Len(t) \in 0 .. Len(t)
    BY <2>1
  <2> QED
    BY <2>2 DEF Doubles
<1>3. PICK e, d, s : e = <<q>> /\ d = Doubled(t, q) /\ s = e \o d
  OBVIOUS
<1>4. e \in Seq(Chars) /\ d \in Seq(Chars) /\ s \in Seq(Chars)
  <2>1. e \in Seq(Chars)
    BY <1>3, ShortLists
  <2> QED
    BY <1>1, <1>3, <2>1
<1>5. Leads(op, open, e, c[0], V)
  BY <1>2, <1>3, LeadsOne
<1>6. Leads(op, c[Len(t)], e, shut, V)
  BY <1>2, <1>3, LeadsOne
<1>7. Leads(op, open, s, c[Len(t)], V)
  BY <1>1, <1>3, <1>4, <1>5, LeadsOn
<1>8. Leads(op, open, s \o e, shut, V)
  BY <1>4, <1>6, <1>7, LeadsOn
<1>9. Quoted(t, q) = s \o e
  BY <1>3 DEF Quoted
<1>10. s \o e \in Seq(Chars)
  BY <1>4
<1> QED
  BY <1>8, <1>9, <1>10 DEF Lines

NeedsQuotes(t, alone) == (alone /\ t = <<>>) \/ \E i \in DOMAIN t : t[i] \in {",", "\"", "\n", "\r"}

(* Where the reader is behind a field.                                     *)
FieldMode(t, alone) ==
    IF NeedsQuotes(t, alone) THEN "closing" ELSE IF t = <<>> THEN "start" ELSE "plain"

LEMMA LineFirst ==
    ASSUME NEW t \in Lines
    PROVE  /\ SubSeq(t, 1, 0) = <<>> /\ SubSeq(t, 1, Len(t)) = t /\ Len(t) \in Nat /\ DOMAIN t = 1 .. Len(t)
           /\ \A i \in 0 .. Len(t) : SubSeq(t, 1, i) \in Lines
           /\ \A i \in 1 .. Len(t) : /\ SubSeq(t, 1, i) = Append(SubSeq(t, 1, i - 1), t[i])
                                     /\ t[i] \in Chars /\ i \in 0 .. Len(t) /\ i - 1 \in 0 .. Len(t)
<1>1. t \in Seq(Chars)
  BY DEF Lines
<1>2. Len(t) \in Nat /\ DOMAIN t = 1 .. Len(t) /\ \A i \in 1 .. Len(t) : t[i] \in Chars
  BY <1>1
<1>3. \A i \in 1 .. Len(t) : i \in 0 .. Len(t) /\ i - 1 \in 0 .. Len(t)
  BY <1>2
<1> QED
  BY <1>1, <1>2, <1>3, FirstEntries DEF Lines

LEMMA PlainFieldLeads ==
    ASSUME NEW t \in Lines, NEW alone, ~ NeedsQuotes(t, alone), NEW f \in Seq(Lines), NEW l \in Seq(Seq(Lines))
    PROVE  Leads(CsvOp, Csv("start", <<>>, f, l), t, Csv(FieldMode(t, alone), t, f, l), CsvState)
<1>1. PICK n : n = Len(t)
  OBVIOUS
<1>2. /\ SubSeq(t, 1, 0) = <<>> /\ SubSeq(t, 1, n) = t /\ n \in Nat /\ DOMAIN t = 1 .. n
      /\ \A i \in 0 .. n : SubSeq(t, 1, i) \in Lines
      /\ \A i \in 1 .. n : /\ SubSeq(t, 1, i) = Append(SubSeq(t, 1, i - 1), t[i])
                           /\ t[i] \in Chars /\ i \in 0 .. n /\ i - 1 \in 0 .. n
  BY <1>1, LineFirst
<1>3. PICK c : c = [i \in 0 .. n |-> Csv(IF i = 0 THEN "start" ELSE "plain", SubSeq(t, 1, i), f, l)]
  OBVIOUS
<1>4. \A i \in 0 .. n : c[i] = Csv(IF i = 0 THEN "start" ELSE "plain", SubSeq(t, 1, i), f, l) /\ c[i] \in CsvState
  BY <1>2, <1>3, CsvIn
<1>5. c \in [0 .. n -> CsvState]
  BY <1>3, <1>4
<1>6. ASSUME NEW i \in 1 .. n PROVE CsvOp[<<c[i - 1], t[i]>>] = c[i]
  <2>1. t[i] \notin {",", "\"", "\n"}
    BY <1>2 DEF NeedsQuotes
  <2>2. PICK m, u : m = (IF i - 1 = 0 THEN "start" ELSE "plain") /\ u = SubSeq(t, 1, i - 1)
    OBVIOUS
  <2>3. c[i - 1] = Csv(m, u, f, l) /\ c[i - 1] \in CsvState /\ m \in {"start", "plain"}
    BY <1>2, <1>4, <2>2
  <2>4. c[i] = Csv("plain", Append(u, t[i]), f, l)
    <3>1. i # 0
      OBVIOUS
    <3> QED
      BY <1>2, <1>4, <2>2, <3>1
  <2>5. CsvStep(Csv(m, u, f, l), t[i]) = Csv("plain", Append(u, t[i]), f, l)
    <3>1. PICK x : x = t[i]
      OBVIOUS
    <3>2. Ordinary(x) /\ Bare(m)
      BY <2>1, <2>3, <3>1 DEF Ordinary, Bare
    <3>3. CsvStep(Csv(m, u, f, l), x) = Csv("plain", Append(u, x), f, l)
      BY ONLY <3>2, CsvLetter
    <3> QED
      BY ONLY <3>1, <3>3
  <2> QED
    BY <1>2, <2>3, <2>4, <2>5, CsvOpIs
<1>7. Leads(CsvOp, c[0], t, c[n], CsvState)
  BY <1>1, <1>5, <1>6, LeadsAlong DEF Lines
<1>8. c[0] = Csv("start", <<>>, f, l)
  <2>1. 0 \in 0 .. n
    BY <1>2
  <2> QED
    BY <1>2, <1>4, <2>1
<1>9. c[n] = Csv(FieldMode(t, alone), t, f, l)
  <2>1. n \in 0 .. n /\ (n = 0 <=> t = <<>>)
    <3>1. t \in Seq(Chars)
      BY DEF Lines
    <3>2. n = 0 <=> t = <<>>
      BY <1>1, <3>1
    <3> QED
      BY <1>2, <3>2
  <2> QED
    BY <1>2, <1>4, <2>1 DEF FieldMode
<1> QED
  BY <1>7, <1>8, <1>9

LEMMA QuotedFieldLeads ==
    ASSUME NEW t \in Lines, NEW f \in Seq(Lines), NEW l \in Seq(Seq(Lines))
    PROVE  /\ Leads(CsvOp, Csv("start", <<>>, f, l), Quoted(t, "\""), Csv("closing", t, f, l), CsvState)
           /\ Quoted(t, "\"") \in Lines
<1>1. PICK n, q : n = Len(t) /\ q = "\""
  OBVIOUS
<1>2. /\ SubSeq(t, 1, 0) = <<>> /\ SubSeq(t, 1, n) = t /\ n \in Nat
      /\ \A i \in 0 .. n : SubSeq(t, 1, i) \in Lines
      /\ \A i \in 1 .. n : /\ SubSeq(t, 1, i) = Append(SubSeq(t, 1, i - 1), t[i])
                           /\ t[i] \in Chars /\ i \in 0 .. n /\ i - 1 \in 0 .. n
  BY <1>1, LineFirst
<1>3. q \in Chars /\ 0 \in 0 .. n /\ n \in 0 .. n
  <2>1. q \in Chars
    BY <1>1 DEF Chars
  <2> QED
    BY ONLY <1>2, <2>1
<1>4. PICK c, half : /\ c = [i \in 0 .. n |-> Csv("quoted", SubSeq(t, 1, i), f, l)]
                     /\ half = [i \in 1 .. n |-> Csv("closing", SubSeq(t, 1, i - 1), f, l)]
  OBVIOUS
<1>5. \A i \in 0 .. n : c[i] = Csv("quoted", SubSeq(t, 1, i), f, l) /\ c[i] \in CsvState
  BY <1>2, <1>4, CsvIn
<1>6. \A i \in 1 .. n : half[i] = Csv("closing", SubSeq(t, 1, i - 1), f, l) /\ half[i] \in CsvState
  BY <1>2, <1>4, CsvIn
<1>7. Doubles(CsvOp, t, q, c, half, CsvState)
  <2>1. ASSUME NEW i \in 1 .. n
        PROVE  IF t[i] = q THEN half[i] \in CsvState /\ CsvOp[<<c[i - 1], q>>] = half[i] /\ CsvOp[<<half[i], q>>] = c[i]
               ELSE CsvOp[<<c[i - 1], t[i]>>] = c[i]
    <3>1. PICK u, x : u = SubSeq(t, 1, i - 1) /\ x = t[i]
      OBVIOUS
    <3>2. /\ c[i - 1] = Csv("quoted", u, f, l) /\ c[i - 1] \in CsvState
          /\ half[i] = Csv("closing", u, f, l) /\ half[i] \in CsvState
          /\ c[i] = Csv("quoted", Append(u, x), f, l) /\ x \in Chars
      BY <1>2, <1>5, <1>6, <3>1
    <3>3. /\ CsvStep(Csv("quoted", u, f, l), q) = Csv("closing", u, f, l)
          /\ CsvStep(Csv("closing", u, f, l), q) = Csv("quoted", Append(u, q), f, l)
          /\ x # q => CsvStep(Csv("quoted", u, f, l), x) = Csv("quoted", Append(u, x), f, l)
      <4>1. /\ CsvStep(Csv("quoted", u, f, l), "\"") = Csv("closing", u, f, l)
            /\ CsvStep(Csv("closing", u, f, l), "\"") = Csv("quoted", Append(u, "\""), f, l)
        BY ONLY CsvQuote
      <4>2. ASSUME x # "\"" PROVE CsvStep(Csv("quoted", u, f, l), x) = Csv("quoted", Append(u, x), f, l)
        BY ONLY <4>2, CsvInside
      <4> QED
        BY ONLY <1>1, <4>1, <4>2
    <3> QED
      BY <1>3, <3>1, <3>2, <3>3, CsvOpIs
  <2> QED
    BY <1>1, <1>5, <2>1 DEF Doubles
<1>8. PICK open, shut : open = Csv("start", <<>>, f, l) /\ shut = Csv("closing", t, f, l)
  OBVIOUS
<1>9. open \in CsvState /\ shut \in CsvState
  <2>1. <<>> \in Lines
    BY PiecesStart
  <2> QED
    BY <1>8, <2>1, CsvIn
<1>10. CsvOp[<<open, q>>] = c[0]
  <2>1. CsvStep(open, q) = Csv("quoted", <<>>, f, l)
    BY <1>1, <1>8, CsvQuote
  <2> QED
    BY <1>2, <1>3, <1>5, <1>9, <2>1, CsvOpIs
<1>11. CsvOp[<<c[n], q>>] = shut
  <2>1. CsvStep(Csv("quoted", t, f, l), q) = shut
    BY <1>1, <1>8, CsvQuote
  <2> QED
    BY <1>2, <1>3, <1>5, <2>1, CsvOpIs
<1>12. Leads(CsvOp, open, Quoted(t, q), shut, CsvState) /\ Quoted(t, q) \in Lines
  BY <1>1, <1>3, <1>7, <1>9, <1>10, <1>11, QuotedLeads
<1> QED
  BY <1>1, <1>8, <1>12

LEMMA FieldLeads ==
    ASSUME NEW t \in Lines, NEW alone, NEW f \in Seq(Lines), NEW l \in Seq(Seq(Lines))
    PROVE  /\ Leads(CsvOp, Csv("start", <<>>, f, l), CsvField(t, alone), Csv(FieldMode(t, alone), t, f, l), CsvState)
           /\ CsvField(t, alone) \in Lines
<1>1. CASE NeedsQuotes(t, alone)
  <2>1. CsvField(t, alone) = Quoted(t, "\"") /\ FieldMode(t, alone) = "closing"
    BY <1>1 DEF CsvField, NeedsQuotes, FieldMode
  <2> QED
    BY <2>1, QuotedFieldLeads
<1>2. CASE ~ NeedsQuotes(t, alone)
  <2>1. CsvField(t, alone) = t
    BY <1>2 DEF CsvField, NeedsQuotes
  <2> QED
    BY <1>2, <2>1, PlainFieldLeads
<1> QED
  BY <1>1, <1>2

LEMMA FieldModes ==
    ASSUME NEW t, NEW alone
    PROVE  /\ FieldMode(t, alone) \in {"start", "plain", "closing"}
           /\ FieldMode(t, alone) \in {"start", "plain", "quoted", "closing"}
           /\ alone => FieldMode(t, alone) # "start"
BY DEF FieldMode, NeedsQuotes

(* BehindField the first i fields of a line.                                    *)
BehindField(s, i, alone, l) ==
    IF i = 0 THEN Csv("start", <<>>, <<>>, l)
    ELSE Csv(FieldMode(s[i], alone), s[i], SubSeq(s, 1, i - 1), l)

LEMMA BehindIs ==
    ASSUME NEW s \in Seq(Lines), NEW alone, NEW l \in Seq(Seq(Lines))
    PROVE  /\ \A i \in 0 .. Len(s) : BehindField(s, i, alone, l) \in CsvState
           /\ \A i \in 1 .. Len(s) :
                /\ i # 0 => BehindField(s, i, alone, l) = Csv(FieldMode(s[i], alone), s[i], SubSeq(s, 1, i - 1), l)
                /\ s[i] \in Lines /\ SubSeq(s, 1, i - 1) \in Seq(Lines)
                /\ SubSeq(s, 1, i) = Append(SubSeq(s, 1, i - 1), s[i])
<1>1. PICK n : n = Len(s) /\ n \in Nat /\ \A i \in 1 .. n : s[i] \in Lines
  OBVIOUS
<1>2. /\ \A i \in 0 .. n : SubSeq(s, 1, i) \in Seq(Lines)
      /\ \A i \in 1 .. n : SubSeq(s, 1, i) = Append(SubSeq(s, 1, i - 1), s[i])
  BY ONLY s \in Seq(Lines), <1>1, FirstEntries
<1>3. ASSUME NEW i \in 1 .. n
      PROVE  /\ SubSeq(s, 1, i - 1) \in Seq(Lines) /\ s[i] \in Lines
             /\ i # 0 => BehindField(s, i, alone, l) = Csv(FieldMode(s[i], alone), s[i], SubSeq(s, 1, i - 1), l)
             /\ i # 0 => BehindField(s, i, alone, l) \in CsvState
  <2>1. i - 1 \in 0 .. n
    BY <1>1
  <2>2. SubSeq(s, 1, i - 1) \in Seq(Lines) /\ s[i] \in Lines
    BY <1>1, <1>2, <2>1
  <2>3. i # 0 => BehindField(s, i, alone, l) = Csv(FieldMode(s[i], alone), s[i], SubSeq(s, 1, i - 1), l)
    BY DEF BehindField
  <2>4. Csv(FieldMode(s[i], alone), s[i], SubSeq(s, 1, i - 1), l) \in CsvState
    BY <2>2, FieldModes, CsvIn
  <2> QED
    BY <2>2, <2>3, <2>4
<1>4. BehindField(s, 0, alone, l) \in CsvState
  <2>1. <<>> \in Lines /\ <<>> \in Seq(Lines)
    BY PiecesStart
  <2>2. Csv("start", <<>>, <<>>, l) \in CsvState
    BY <2>1, CsvIn
  <2> QED
    BY <2>2 DEF BehindField
<1>5. \A i \in 0 .. n : i = 0 \/ (i \in 1 .. n /\ i # 0)
  BY <1>1
<1> QED
  BY <1>1, <1>2, <1>3, <1>4, <1>5

LEMMA NextFieldLeads ==
    ASSUME NEW s \in Seq(Lines), NEW alone, NEW l \in Seq(Seq(Lines)), NEW i \in 1 .. Len(s), NEW f, NEW p,
           f = CsvField(s[i], alone), p = IF i = 1 THEN f ELSE <<",">> \o f
    PROVE  Leads(CsvOp, BehindField(s, i - 1, alone, l), p, BehindField(s, i, alone, l), CsvState)
<1>1. PICK n : n = Len(s) /\ n \in Nat /\ i \in 1 .. n
  <2>1. Len(s) \in Nat
    BY ONLY s \in Seq(Lines)
  <2> QED
    BY <2>1
<1>2. PICK a, b, t, u : a = BehindField(s, i - 1, alone, l) /\ b = BehindField(s, i, alone, l) /\ t = s[i] /\ u = SubSeq(s, 1, i - 1)
  OBVIOUS
<1>3. i # 0 /\ i - 1 \in 0 .. n
  BY ONLY <1>1
<1>4. a \in CsvState /\ b = Csv(FieldMode(t, alone), t, u, l) /\ t \in Lines /\ u \in Seq(Lines)
  BY <1>1, <1>2, <1>3, BehindIs
<1>5. Leads(CsvOp, Csv("start", <<>>, u, l), f, b, CsvState) /\ f \in Lines
  BY <1>2, <1>4, FieldLeads
<1>6. CASE i = 1
  <2>1. p = f /\ u = <<>> /\ a = Csv("start", <<>>, <<>>, l)
    <3>1. i - 1 = 0
      BY <1>6
    <3>2. u = <<>>
      BY <1>2, <3>1, FirstEntries
    <3> QED
      BY <1>2, <1>6, <3>1, <3>2 DEF BehindField
  <2> QED
    BY <1>2, <1>5, <2>1
<1>7. CASE i # 1
  <2>1. PICK j : j = i - 1
    OBVIOUS
  <2>2. j \in 1 .. n /\ j # 0
    BY ONLY <1>1, <1>7, <2>1
  <2>3. PICK v, x, m : v = SubSeq(s, 1, j - 1) /\ x = s[j] /\ m = FieldMode(x, alone)
    OBVIOUS
  <2>4. a = Csv(m, x, v, l) /\ u = Append(v, x)
    BY <1>1, <1>2, <2>1, <2>2, <2>3, BehindIs
  <2>5. CsvStep(a, ",") = Csv("start", <<>>, u, l)
    <3>1. m \in {"start", "plain", "closing"}
      BY <2>3, FieldModes
    <3> QED
      BY <2>4, <3>1, CsvComma
  <2>6. PICK y, e : y = "," /\ e = <<y>> /\ y \in Chars
    BY DEF Chars
  <2>7. CsvOp[<<a, y>>] = Csv("start", <<>>, u, l)
    BY <1>4, <2>5, <2>6, CsvOpIs
  <2>8. Csv("start", <<>>, u, l) \in CsvState
    BY <1>4, PiecesStart, CsvIn
  <2>9. Leads(CsvOp, a, e, Csv("start", <<>>, u, l), CsvState)
    BY <1>4, <2>6, <2>7, <2>8, LeadsOne
  <2>10. e \in Seq(Chars) /\ f \in Seq(Chars)
    BY <1>5, <2>6, ShortLists DEF Lines
  <2>11. Leads(CsvOp, a, e \o f, b, CsvState)
    BY <1>5, <2>9, <2>10, LeadsOn
  <2>12. p = e \o f
    BY <1>7, <2>6
  <2> QED
    BY <1>2, <2>11, <2>12
<1> QED
  BY <1>6, <1>7

(* A line of the file is read back.                                        *)
LEMMA RecordLeads ==
    ASSUME NEW s \in Seq(Lines), s # <<>>, NEW alone, Len(s) = 1 => alone, NEW l \in Seq(Seq(Lines)),
           NEW F, F = [c \in DOMAIN s |-> CsvField(s[c], alone)]
    PROVE  /\ Leads(CsvOp, Csv("start", <<>>, <<>>, l), Record(F), Csv("start", <<>>, <<>>, Append(l, s)), CsvState)
           /\ Record(F) \in Lines
<1>1. PICK n : n = Len(s) /\ n \in Nat /\ DOMAIN s = 1 .. n /\ n # 0 /\ n \in 1 .. n
  <2>1. Len(s) \in Nat /\ DOMAIN s = 1 .. Len(s) /\ Len(s) # 0
    OBVIOUS
  <2>2. Len(s) \in 1 .. Len(s)
    BY ONLY <2>1
  <2> QED
    BY ONLY <2>1, <2>2
<1>2. PICK c : c = [i \in 0 .. n |-> BehindField(s, i, alone, l)]
  OBVIOUS
<1>3. \A i \in 1 .. n : s[i] \in Lines /\ F[i] = CsvField(s[i], alone) /\ F[i] \in Lines
  <2> SUFFICES ASSUME NEW i \in 1 .. n PROVE s[i] \in Lines /\ F[i] = CsvField(s[i], alone) /\ F[i] \in Lines
    OBVIOUS
  <2>1. s[i] \in Lines /\ F[i] = CsvField(s[i], alone)
    BY <1>1
  <2>2. <<>> \in Seq(Lines) /\ <<>> \in Seq(Seq(Lines))
    OBVIOUS
  <2> QED
    BY <2>1, <2>2, FieldLeads
<1>4. F \in Seq(Seq(Chars)) /\ Len(F) = n
  <2>1. PICK T : T = Seq(Chars)
    OBVIOUS
  <2>2. F \in [1 .. n -> T]
    BY <1>1, <1>3, <2>1 DEF Lines
  <2> QED
    BY <1>1, <2>1, <2>2, ListOf
<1>5. PICK p, y, e : p = JoinedParts(F, e) /\ e = <<y>> /\ y = "," /\ y \in Chars
  <2>1. "," \in Chars
    BY DEF Chars
  <2> QED
    BY <2>1
<1>6. e \in Seq(Chars)
  BY <1>5, ShortLists
<1>7. /\ p \in Seq(Seq(Chars)) /\ Len(p) = n
      /\ \A i \in 1 .. n : p[i] = IF i = 1 THEN F[i] ELSE e \o F[i]
      /\ Joined(F, e) = FlattenSeq(p) /\ Joined(F, e) \in Seq(Chars)
  <2>1. PICK q : q = JoinedParts(F, e)
    OBVIOUS
  <2>2. /\ q \in Seq(Seq(Chars)) /\ Len(q) = Len(F)
        /\ \A i \in 1 .. Len(F) : q[i] = IF i = 1 THEN F[i] ELSE e \o F[i]
        /\ Joined(F, e) = FlattenSeq(q) /\ Joined(F, e) \in Seq(Chars)
    BY ONLY <1>4, <1>6, <2>1, JoinedIn
  <2> QED
    BY ONLY <1>4, <1>5, <2>1, <2>2
<1>8. \A i \in 0 .. n : c[i] = BehindField(s, i, alone, l) /\ c[i] \in CsvState
  BY <1>1, <1>2, BehindIs
<1>9. ASSUME NEW i \in 1 .. n PROVE Leads(CsvOp, c[i - 1], p[i], c[i], CsvState)
  <2>1. i \in 0 .. n /\ i - 1 \in 0 .. n
    BY <1>1
  <2>2. Leads(CsvOp, BehindField(s, i - 1, alone, l), p[i], BehindField(s, i, alone, l), CsvState)
    BY <1>1, <1>3, <1>5, <1>7, NextFieldLeads
  <2> QED
    BY <1>8, <2>1, <2>2
<1>10. Leads(CsvOp, c[0], FlattenSeq(p), c[n], CsvState)
  <2>1. (\A i \in 0 .. Len(p) : c[i] \in CsvState) /\ \A i \in 1 .. Len(p) : Leads(CsvOp, c[i - 1], p[i], c[i], CsvState)
    BY <1>7, <1>8, <1>9
  <2>2. Leads(CsvOp, c[0], FlattenSeq(p), c[Len(p)], CsvState)
    BY ONLY <1>7, <2>1, LeadsFlat
  <2> QED
    BY <1>7, <2>2
<1>11. c[0] = Csv("start", <<>>, <<>>, l)
  <2>1. 0 \in 0 .. n
    BY <1>1
  <2> QED
    BY <1>8, <2>1 DEF BehindField
<1>12. PICK t, u, m : t = s[n] /\ u = SubSeq(s, 1, n - 1) /\ m = FieldMode(t, alone)
  OBVIOUS
<1>13. c[n] = Csv(m, t, u, l) /\ c[n] \in CsvState /\ s = Append(u, t) /\ (u = <<>> => n = 1)
  <2>1. n \in 0 .. n /\ n - 1 \in 0 .. n
    BY ONLY <1>1
  <2>2. SubSeq(s, 1, n) = s /\ SubSeq(s, 1, n) = Append(u, t) /\ Len(u) = n - 1
    BY <1>1, <1>12, <2>1, FirstEntries
  <2>3. u = <<>> => n = 1
    <3>1. Len(<<>>) = 0
      OBVIOUS
    <3> QED
      BY <1>1, <2>2, <3>1
  <2> QED
    BY <1>1, <1>8, <1>12, <2>1, <2>2, <2>3, BehindIs
<1>14. PICK z, k : z = "\n" /\ k = <<z>> /\ z \in Chars
  <2>1. "\n" \in Chars
    BY DEF Chars
  <2> QED
    BY <2>1
<1>15. PICK d : d = Csv("start", <<>>, <<>>, Append(l, s))
  OBVIOUS
<1>16. CsvStep(c[n], z) = d
  <2>1. m \in {"start", "plain", "closing"} /\ (alone => m # "start")
    BY <1>12, FieldModes
  <2>2. ~ (m = "start" /\ u = <<>>)
    BY <1>1, <1>13, <2>1
  <2>3. CsvStep(Csv(m, t, u, l), "\n") = Csv("start", <<>>, <<>>, Append(l, Append(u, t)))
    BY ONLY <2>1, <2>2, CsvEnd
  <2> QED
    BY <1>13, <1>14, <1>15, <2>3
<1>17. d \in CsvState
  <2>1. Append(l, s) \in Seq(Seq(Lines)) /\ <<>> \in Seq(Lines)
    OBVIOUS
  <2> QED
    BY <1>15, <2>1, PiecesStart, CsvIn
<1>18. Leads(CsvOp, c[n], k, d, CsvState)
  <2>1. CsvOp[<<c[n], z>>] = d
    BY <1>13, <1>14, <1>16, CsvOpIs
  <2> QED
    BY <1>13, <1>14, <1>17, <2>1, LeadsOne
<1>19. k \in Seq(Chars) /\ FlattenSeq(p) \in Seq(Chars)
  BY <1>7, <1>14, ShortLists
<1>20. Leads(CsvOp, c[0], FlattenSeq(p) \o k, d, CsvState)
  BY <1>10, <1>18, <1>19, LeadsOn
<1>21. Record(F) = FlattenSeq(p) \o k
  BY <1>5, <1>7, <1>14 DEF Record
<1>22. FlattenSeq(p) \o k \in Seq(Chars)
  BY <1>19
<1> QED
  BY <1>11, <1>15, <1>20, <1>21, <1>22 DEF Lines

(* The lines of the file.                                                  *)
CsvLines(K, alone) == [i \in DOMAIN K |-> Record([c \in DOMAIN K[i] |-> CsvField(K[i][c], alone)])]

NoneBlank(K, alone) == \A i \in DOMAIN K : K[i] # <<>> /\ (Len(K[i]) = 1 => alone)

LEMMA CsvFileLeads ==
    ASSUME NEW K \in Seq(Seq(Lines)), NEW alone, NEW W, W = CsvLines(K, alone), NoneBlank(K, alone)
    PROVE  /\ Leads(CsvOp, Csv("start", <<>>, <<>>, <<>>), FlattenSeq(W), Csv("start", <<>>, <<>>, K), CsvState)
           /\ FlattenSeq(W) \in Lines
<1>1. PICK n, T : n = Len(K) /\ n \in Nat /\ DOMAIN K = 1 .. n /\ T = Seq(Lines) /\ K \in Seq(T)
  <2>1. Len(K) \in Nat /\ DOMAIN K = 1 .. Len(K)
    BY ONLY K \in Seq(Seq(Lines))
  <2> QED
    BY <2>1
<1>2. PICK c : c = [i \in 0 .. n |-> Csv("start", <<>>, <<>>, SubSeq(K, 1, i))]
  OBVIOUS
<1>3. /\ SubSeq(K, 1, 0) = <<>> /\ SubSeq(K, 1, n) = K
      /\ \A i \in 0 .. n : SubSeq(K, 1, i) \in Seq(T)
      /\ \A i \in 1 .. n : SubSeq(K, 1, i) = Append(SubSeq(K, 1, i - 1), K[i])
  BY ONLY <1>1, FirstEntries
<1>4. \A i \in 0 .. n : c[i] = Csv("start", <<>>, <<>>, SubSeq(K, 1, i)) /\ c[i] \in CsvState
  <2>1. <<>> \in Lines /\ <<>> \in Seq(Lines)
    BY PiecesStart
  <2> QED
    BY <1>1, <1>2, <1>3, <2>1, CsvIn
<1>5. ASSUME NEW i \in 1 .. n
      PROVE  Leads(CsvOp, c[i - 1], W[i], c[i], CsvState) /\ W[i] \in Lines
  <2>1. i \in 0 .. n /\ i - 1 \in 0 .. n
    BY <1>1
  <2>2. PICK s, l, F : s = K[i] /\ l = SubSeq(K, 1, i - 1) /\ F = [k \in DOMAIN s |-> CsvField(s[k], alone)]
    OBVIOUS
  <2>3. s \in Seq(Lines) /\ s # <<>> /\ (Len(s) = 1 => alone) /\ l \in Seq(Seq(Lines))
    <3>1. K[i] \in T /\ SubSeq(K, 1, i - 1) \in Seq(T)
      BY ONLY <1>1, <1>3, <2>1, i \in 1 .. n
    <3>2. s # <<>> /\ (Len(s) = 1 => alone)
      BY <1>1, <2>2 DEF NoneBlank
    <3> QED
      BY ONLY <1>1, <2>2, <3>1, <3>2
  <2>4. /\ Leads(CsvOp, Csv("start", <<>>, <<>>, l), Record(F), Csv("start", <<>>, <<>>, Append(l, s)), CsvState)
        /\ Record(F) \in Lines
    BY ONLY <2>2, <2>3, RecordLeads
  <2>5. W[i] = Record(F)
    BY <1>1, <2>2 DEF CsvLines
  <2>6. c[i - 1] = Csv("start", <<>>, <<>>, l) /\ c[i] = Csv("start", <<>>, <<>>, Append(l, s))
    BY <1>3, <1>4, <2>1, <2>2
  <2> QED
    BY <2>4, <2>5, <2>6
<1>6. W \in Seq(Seq(Chars)) /\ Len(W) = n
  <2>1. PICK U : U = Seq(Chars)
    OBVIOUS
  <2>2. W \in [1 .. n -> U]
    BY <1>1, <1>5, <2>1 DEF Lines, CsvLines
  <2> QED
    BY <1>1, <2>1, <2>2, ListOf
<1>7. Leads(CsvOp, c[0], FlattenSeq(W), c[n], CsvState)
  <2>1. (\A i \in 0 .. Len(W) : c[i] \in CsvState) /\ \A i \in 1 .. Len(W) : Leads(CsvOp, c[i - 1], W[i], c[i], CsvState)
    BY <1>4, <1>5, <1>6
  <2>2. Leads(CsvOp, c[0], FlattenSeq(W), c[Len(W)], CsvState)
    BY ONLY <1>6, <2>1, LeadsFlat
  <2> QED
    BY <1>6, <2>2
<1>8. 0 \in 0 .. n /\ n \in 0 .. n
  BY ONLY <1>1
<1>9. FlattenSeq(W) \in Seq(Chars)
  BY <1>6, FlattenType
<1> QED
  BY <1>3, <1>4, <1>7, <1>8, <1>9 DEF Lines

(* The reader gives the lines its steps lead to.                           *)
LEMMA ReadCsvLeads ==
    ASSUME NEW text \in Seq(Chars), NEW b, Leads(CsvOp, Csv("start", <<>>, <<>>, <<>>), text, b, CsvState)
    PROVE  ReadCsv(text) = b.lines
<1> DEFINE First == [mode |-> "start", text |-> <<>>, fields |-> <<>>, lines |-> <<>>]
           n == Len(text)
           Solves(f) == f = [i \in 0 .. n |-> IF i = 0 THEN {First} ELSE {CsvStep(a, text[i]) : a \in f[i - 1]}]
           f == CHOOSE g : Solves(g)
<1>1. ReadCsv(text) = (CHOOSE a \in f[n] : TRUE).lines
  BY Zenon DEF ReadCsv
<1>2. n \in Nat /\ \A i \in 1 .. n : text[i] \in Chars
  OBVIOUS
<1>3. PICK h : Steps(h, CsvOp, Csv("start", <<>>, <<>>, <<>>), text, b, CsvState)
  BY DEF Leads
<1>4. /\ h \in [0 .. n -> CsvState] /\ h[0] = First /\ h[n] = b
      /\ \A i \in 1 .. n : h[i] = CsvOp[<<h[i - 1], text[i]>>]
  BY <1>3 DEF Steps, Folded, Csv
<1> HIDE DEF First
<1>5. \A i \in 1 .. n : h[i] = CsvStep(h[i - 1], text[i]) /\ i - 1 \in 0 .. n /\ i \in 0 .. n
  <2> SUFFICES ASSUME NEW i \in 1 .. n PROVE h[i] = CsvStep(h[i - 1], text[i]) /\ i - 1 \in 0 .. n /\ i \in 0 .. n
    OBVIOUS
  <2>1. i - 1 \in 0 .. n /\ i \in 0 .. n
    BY ONLY <1>2, i \in 1 .. n
  <2>2. h[i - 1] \in CsvState /\ text[i] \in Chars
    BY <1>2, <1>4, <2>1
  <2> QED
    BY <1>4, <2>1, <2>2, CsvOpIs
<1> HIDE DEF n
<1> DEFINE g == [i \in 0 .. n |-> {h[i]}]
<1>6. Solves(g)
  <2>1. \A i \in 0 .. n : g[i] = IF i = 0 THEN {First} ELSE {CsvStep(a, text[i]) : a \in g[i - 1]}
    <3>1. \A i \in 0 .. n : i = 0 \/ i \in 1 .. n
      BY <1>2
    <3>2. ASSUME NEW i \in 0 .. n, i = 0 PROVE g[i] = {First}
      BY <1>4, <3>2
    <3>3. ASSUME NEW i \in 1 .. n PROVE g[i] = {CsvStep(a, text[i]) : a \in g[i - 1]} /\ i # 0
      <4>1. g[i] = {CsvStep(h[i - 1], text[i])} /\ g[i - 1] = {h[i - 1]}
        BY <1>5
      <4>2. i # 0
        BY ONLY <1>2, i \in 1 .. n
      <4> HIDE DEF g
      <4> QED BY <4>1, <4>2
    <3> HIDE DEF g
    <3> QED BY <3>1, <3>2, <3>3
  <2> QED
    BY <2>1
<1> HIDE DEF g
<1>7. Solves(f)
  <2> HIDE DEF Solves
  <2> QED BY <1>6
<1>8. f[0] = {First} /\ \A i \in 1 .. n : f[i] = {CsvStep(a, text[i]) : a \in f[i - 1]}
  <2> HIDE DEF f
  <2>1. 0 \in 0 .. n /\ \A i \in 1 .. n : i \in 0 .. n /\ i # 0
    BY ONLY <1>2
  <2> QED
    BY <1>7, <2>1
<1> HIDE DEF f
<1> DEFINE P == {k \in 0 .. n : f[k] = {h[k]}}
<1>9. 0 \in P
  BY <1>2, <1>4, <1>8
<1>10. ASSUME NEW k \in 0 .. n - 1, k \in P PROVE k + 1 \in P
  <2>1. PICK i : i = k + 1
    OBVIOUS
  <2>2. i \in 1 .. n /\ i \in 0 .. n /\ i - 1 = k
    BY ONLY <1>2, <2>1, k \in 0 .. n - 1
  <2>3. f[i - 1] = {h[i - 1]}
    BY <1>10, <2>2
  <2>4. f[i] = {h[i]}
    <3>1. f[i] = {CsvStep(a, text[i]) : a \in f[i - 1]} /\ h[i] = CsvStep(h[i - 1], text[i])
      BY <1>5, <1>8, <2>2
    <3> QED
      BY ONLY <2>3, <3>1
  <2> QED
    BY <2>1, <2>2, <2>4
<1>11. \A k \in 0 .. n : k \in P
  <2> HIDE DEF P
  <2> QED BY <1>2, <1>9, <1>10, Upward
<1>12. f[n] = {b}
  <2>1. n \in 0 .. n
    BY <1>2
  <2> QED
    BY <1>4, <1>11, <2>1
<1>13. (CHOOSE a \in f[n] : TRUE) = b
  BY <1>12
<1> QED
  BY <1>1, <1>13 DEF n

LEMMA SanitizedIs ==
    ASSUME NEW t \in Lines
    PROVE  sanitize_cell(t) \in Lines
<1>1. PICK x, e : x = "\t" /\ e = <<x>> /\ x \in Chars
  <2>1. "\t" \in Chars
    BY DEF Chars
  <2> QED
    BY <2>1
<1>2. e \in Seq(Chars) /\ t \in Seq(Chars)
  BY <1>1, ShortLists DEF Lines
<1>3. e \o t \in Seq(Chars)
  BY ONLY <1>2
<1>4. sanitize_cell(t) \in {t, e \o t}
  BY <1>1 DEF sanitize_cell
<1> QED
  BY <1>2, <1>3, <1>4 DEF Lines

SafeRow(row) == [c \in Cols |-> sanitize_cell(GridText(rows_to_ui(row))[c])]

(* What the file has, line by line.                                        *)
FileLines(all) == <<Names>> \o [i \in DOMAIN all |-> SafeRow(all[i])]

LEMMA NamesAre ==
    /\ Names \in Seq(Lines) /\ Names # <<>> /\ Cols = DOMAIN Names /\ Cols = 1 .. Len(Names)
    /\ Len(Names) \in Nat /\ Len(Names) # 0
<1>1. Names \in Seq(Lines) /\ Names # <<>>
  BY NamesOk, TextsAreLines, SeqWithin
<1>2. Len(Names) # 0 /\ Len(Names) \in Nat
  BY <1>1
<1> QED
  BY <1>1, <1>2, ColumnsStart DEF Cols

LEMMA SafeIs ==
    ASSUME NEW row \in Row
    PROVE  SafeRow(row) \in Seq(Lines) /\ Len(SafeRow(row)) = Len(Names) /\ SafeRow(row) # <<>>
           /\ DOMAIN SafeRow(row) = Cols
<1>1. PICK g, s, n, T : g = GridText(rows_to_ui(row)) /\ s = SafeRow(row) /\ n = Len(Names) /\ T = Lines
  OBVIOUS
<1>2. g \in Seq(Lines) /\ Len(g) = n
  BY <1>1, CellTexts
<1>3. Cols = 1 .. n /\ n \in Nat /\ n # 0
  BY <1>1, NamesAre
<1>4. s = [c \in 1 .. n |-> sanitize_cell(g[c])]
  BY <1>1, <1>3 DEF SafeRow
<1>5. \A c \in 1 .. n : sanitize_cell(g[c]) \in T
  <2>1. \A c \in 1 .. n : g[c] \in Lines
    BY ONLY <1>2, <1>3
  <2> QED
    BY <1>1, <2>1, SanitizedIs
<1>6. s \in [1 .. n -> T]
  BY ONLY <1>4, <1>5
<1>7. s \in Seq(T) /\ Len(s) = n /\ DOMAIN s = 1 .. n
  BY ONLY <1>3, <1>6, ListOf
<1>8. s # <<>>
  <2>1. Len(<<>>) = 0
    OBVIOUS
  <2> QED
    BY <1>3, <1>7, <2>1
<1> QED
  BY <1>1, <1>3, <1>7, <1>8

LEMMA FileLinesAre ==
    ASSUME NEW all \in Seq(Row)
    PROVE  /\ FileLines(all) \in Seq(Seq(Lines)) /\ Len(FileLines(all)) = Len(all) + 1 /\ Len(all) \in Nat
           /\ FileLines(all)[1] = Names /\ \A i \in 1 .. Len(all) : FileLines(all)[i + 1] = SafeRow(all[i])
           /\ \A i \in 1 .. Len(all) + 1 : FileLines(all)[i] # <<>> /\ DOMAIN FileLines(all)[i] = Cols
                                           /\ Len(FileLines(all)[i]) = Len(Names)
<1>1. PICK m : m = Len(all) /\ m \in Nat /\ DOMAIN all = 1 .. m /\ \A i \in 1 .. m : all[i] \in Row
  OBVIOUS
<1>2. PICK F, T, K : F = [i \in 1 .. m |-> SafeRow(all[i])] /\ T = Seq(Lines) /\ K = <<Names>> \o F
  OBVIOUS
<1>3. K = FileLines(all)
  BY <1>1, <1>2 DEF FileLines
<1>4. F \in Seq(T) /\ Len(F) = m /\ \A i \in 1 .. m : F[i] = SafeRow(all[i])
  <2>1. \A i \in 1 .. m : SafeRow(all[i]) \in T
    BY <1>1, <1>2, SafeIs
  <2>2. F \in [1 .. m -> T]
    BY ONLY <1>2, <2>1
  <2>3. F \in Seq(T) /\ Len(F) = m
    BY ONLY <1>1, <2>2, ListOf
  <2> QED
    BY <1>2, <2>3
<1>5. Names \in T
  BY <1>2, NamesAre
<1>6. K \in Seq(T) /\ Len(K) = m + 1 /\ K[1] = Names /\ \A i \in 1 .. m : K[i + 1] = F[i]
  BY <1>1, <1>2, <1>4, <1>5
<1>7. ASSUME NEW i \in 1 .. m + 1 PROVE K[i] # <<>> /\ DOMAIN K[i] = Cols /\ Len(K[i]) = Len(Names)
  <2>1. CASE i = 1
    BY <1>6, <2>1, NamesAre
  <2>2. CASE i # 1
    <3>1. PICK j : j = i - 1
      OBVIOUS
    <3>2. j \in 1 .. m /\ j + 1 = i
      BY ONLY <1>1, <2>2, <3>1, i \in 1 .. m + 1
    <3>3. K[i] = SafeRow(all[j]) /\ all[j] \in Row
      BY <1>1, <1>4, <1>6, <3>2
    <3> QED
      BY <3>3, SafeIs
  <2> QED
    BY <2>1, <2>2
<1> QED
  BY <1>1, <1>2, <1>3, <1>4, <1>6, <1>7

LEMMA CsvFileIs ==
    ASSUME NEW all \in Seq(Row), NEW K, K = FileLines(all), NEW alone, alone = (Len(Names) = 1)
    PROVE  result_to_csv(all) = FlattenSeq(CsvLines(K, alone))
<1>1. PICK m : m = Len(all) /\ m \in Nat /\ DOMAIN all = 1 .. m
  OBVIOUS
<1>2. /\ K \in Seq(Seq(Lines)) /\ Len(K) = m + 1
      /\ K[1] = Names /\ \A i \in 1 .. m : K[i + 1] = SafeRow(all[i])
      /\ \A i \in 1 .. m + 1 : DOMAIN K[i] = Cols
  BY <1>1, FileLinesAre
<1> DEFINE Line(texts) == Record([c \in Cols |-> CsvField(texts[c], Len(Names) = 1)])
           Whole == CsvLines(K, alone)
           Below == [i \in DOMAIN all |-> Line(SafeRow(all[i]))]
<1>3. DOMAIN K = 1 .. m + 1
  BY <1>2
<1>4. \A i \in 1 .. m + 1 : Whole[i] = Line(K[i])
  BY <1>2, <1>3 DEF CsvLines
<1>5. result_to_csv(all) = FlattenSeq(<<Line(Names)>> \o Below)
  BY Zenon DEF result_to_csv, SafeRow
<1>6. Whole = <<Line(Names)>> \o Below
  <2>1. PICK a, G, W : a = Line(Names) /\ G = Below /\ W = Whole
    OBVIOUS
  <2>2. DOMAIN G = 1 .. m /\ \A i \in 1 .. m : G[i] = Line(SafeRow(all[i]))
    BY <1>1, <2>1
  <2>3. 1 \in 1 .. m + 1 /\ \A i \in 1 .. m : i + 1 \in 1 .. m + 1
    BY ONLY <1>1
  <2>4. W[1] = a /\ DOMAIN W = 1 .. m + 1 /\ \A i \in 1 .. m : W[i + 1] = G[i]
    BY <1>2, <1>3, <1>4, <2>1, <2>2, <2>3 DEF CsvLines
  <2>5. PICK T : T = {W[i] : i \in 1 .. m + 1}
    OBVIOUS
  <2>6. W \in [1 .. m + 1 -> T] /\ a \in T /\ \A i \in 1 .. m : G[i] \in T
    <3> HIDE DEF Whole, Line, Below
    <3>1. W = [i \in 1 .. m + 1 |-> W[i]]
      BY <1>3, <2>1 DEF Whole, CsvLines
    <3> QED
      BY <2>3, <2>4, <2>5, <3>1
  <2>7. G = [i \in 1 .. m |-> G[i]]
    BY <1>1, <2>1
  <2> HIDE DEF Whole, Line, Below
  <2>8. G \in [1 .. m -> T]
    BY ONLY <2>6, <2>7
  <2>9. G \in Seq(T) /\ Len(G) = m
    BY ONLY <1>1, <2>8, ListOf
  <2>10. W \in Seq(T) /\ Len(W) = m + 1
    <3>1. m + 1 \in Nat
      BY ONLY <1>1
    <3> QED
      BY ONLY <3>1, <2>6, ListOf
  <2>11. PICK V : V = <<a>> \o G
    OBVIOUS
  <2>12. V \in Seq(T) /\ Len(V) = m + 1 /\ V[1] = a /\ \A i \in 1 .. m : V[i + 1] = G[i]
    BY ONLY <1>1, <2>6, <2>9, <2>11
  <2>13. ASSUME NEW i \in 1 .. m + 1 PROVE V[i] = W[i]
    <3>1. CASE i = 1
      BY <2>4, <2>12, <3>1
    <3>2. CASE i # 1
      <4>1. PICK j : j = i - 1
        OBVIOUS
      <4>2. j \in 1 .. m /\ j + 1 = i
        BY ONLY <1>1, <3>2, <4>1, i \in 1 .. m + 1
      <4> QED
        BY <2>4, <2>12, <4>2
    <3> QED
      BY <3>1, <3>2
  <2>14. V = W
    BY ONLY <2>10, <2>12, <2>13, SeqEqual
  <2> QED
    BY <2>1, <2>11, <2>14
<1> QED
  BY <1>5, <1>6

LEMMA CsvReadsBack ==
    ASSUME NEW all \in Seq(Row)
    PROVE  ReadCsv(result_to_csv(all)) = FileLines(all)
<1>1. PICK K, alone, W :
          K = FileLines(all) /\ alone = (Len(Names) = 1) /\ W = CsvLines(K, alone)
  OBVIOUS
<1>2. result_to_csv(all) = FlattenSeq(W)
  BY <1>1, CsvFileIs
<1>3. K \in Seq(Seq(Lines)) /\ NoneBlank(K, alone)
  <2>1. K \in Seq(Seq(Lines)) /\ Len(K) = Len(all) + 1
        /\ \A i \in 1 .. Len(all) + 1 : K[i] # <<>> /\ Len(K[i]) = Len(Names)
    BY <1>1, FileLinesAre
  <2>2. DOMAIN K = 1 .. Len(all) + 1
    BY <2>1
  <2> QED
    BY <1>1, <2>1, <2>2 DEF NoneBlank
<1>4. /\ Leads(CsvOp, Csv("start", <<>>, <<>>, <<>>), FlattenSeq(W), Csv("start", <<>>, <<>>, K), CsvState)
      /\ FlattenSeq(W) \in Lines
  BY ONLY <1>1, <1>3, CsvFileLeads
<1>5. ReadCsv(FlattenSeq(W)) = Csv("start", <<>>, <<>>, K).lines
  BY <1>4, ReadCsvLeads DEF Lines
<1>6. Csv("start", <<>>, <<>>, K).lines = K
  BY DEF Csv
<1> QED
  BY <1>1, <1>2, <1>5, <1>6

(***************************************************************************)
(* The SQL file.  A quote that ends a token is seen by the letter behind   *)
(* it, so a part of the text leads from one set of states to another       *)
(* (Tells): outside of quotes, or behind a quote that may be half of two.  *)
(***************************************************************************)

(* Tokens of SQL: a word, or a quote and what is between quotes.           *)
Tok == {<<x>> : x \in Chars} \cup (Chars \X Lines)

Quotes == {"'", "\""}

(* The states of the reader of SQL.                                        *)
SqlState == [quote : Quotes \cup {""}, half : BOOLEAN, text : Lines, tokens : Seq(Tok)]

Sql(quote, half, text, tokens) == [quote |-> quote, half |-> half, text |-> text, tokens |-> tokens]

SqlOp == [p \in SqlState \X Chars |-> SqlStep(p[1], p[2])]

LEMMA SqlIn ==
    ASSUME NEW q \in Quotes \cup {""}, NEW h \in BOOLEAN, NEW t \in Lines, NEW T \in Seq(Tok)
    PROVE  Sql(q, h, t, T) \in SqlState
BY DEF Sql, SqlState

LEMMA SqlOf ==
    ASSUME NEW a \in SqlState
    PROVE  /\ a = Sql(a.quote, a.half, a.text, a.tokens)
           /\ a.quote \in Quotes \cup {""} /\ a.half \in BOOLEAN /\ a.text \in Lines /\ a.tokens \in Seq(Tok)
BY DEF Sql, SqlState

LEMMA TokensLonger ==
    ASSUME NEW T \in Seq(Tok)
    PROVE  /\ \A x \in Chars : Append(T, <<x>>) \in Seq(Tok) /\ <<x>> \in Tok
           /\ \A q \in Chars, t \in Lines : Append(T, <<q, t>>) \in Seq(Tok) /\ <<q, t>> \in Tok
<1>1. \A x \in Chars : <<x>> \in Tok
  BY DEF Tok
<1>2. \A q \in Chars, t \in Lines : <<q, t>> \in Tok
  BY DEF Tok
<1>3. PICK K : K = Tok
  OBVIOUS
<1>4. \A k \in K : Append(T, k) \in Seq(K)
  BY <1>3
<1> QED
  BY <1>1, <1>2, <1>3, <1>4

(* The steps of the reader.                                                *)
Wordly(x) == x \in Chars /\ x \notin Quotes \cup {" ", "\n"}

LEMMA SqlFree ==
    ASSUME NEW T, NEW x
    PROVE  SqlStep(Sql("", FALSE, <<>>, T), x) = SqlOutside(Sql("", FALSE, <<>>, T), x)
BY DEF SqlStep, Sql

LEMMA SqlClosed ==
    ASSUME NEW T, NEW t, NEW q \in Quotes
    PROVE  SqlClose(Sql(q, TRUE, t, T)) = Sql("", FALSE, <<>>, Append(T, <<q, t>>))
<1>1. q # ""
  BY DEF Quotes
<1> QED
  BY <1>1 DEF SqlClose, Sql

LEMMA SqlHalf ==
    ASSUME NEW T, NEW t, NEW q \in Quotes
    PROVE  SqlStep(Sql(q, TRUE, t, T), q) = Sql(q, FALSE, Append(t, q), T)
<1>1. q # ""
  BY DEF Quotes
<1> QED
  BY ONLY <1>1 DEF SqlStep, Sql

Other(x, q) == x # q

LEMMA SqlHalfEnds ==
    ASSUME NEW T, NEW t, NEW q \in Quotes, NEW x, Other(x, q)
    PROVE  SqlStep(Sql(q, TRUE, t, T), x) = SqlOutside(Sql("", FALSE, <<>>, Append(T, <<q, t>>)), x)
<1>1. q # "" /\ x # q
  BY DEF Quotes, Other
<1>2. SqlStep(Sql(q, TRUE, t, T), x) = SqlOutside(SqlClose(Sql(q, TRUE, t, T)), x)
  BY ONLY <1>1 DEF SqlStep, Sql
<1> QED
  BY <1>2, SqlClosed

LEMMA SqlWhole ==
    ASSUME NEW T, NEW t, NEW q \in Quotes, NEW x
    PROVE  /\ x = q => SqlStep(Sql(q, FALSE, t, T), x) = Sql(q, TRUE, t, T)
           /\ x # q => SqlStep(Sql(q, FALSE, t, T), x) = Sql(q, FALSE, Append(t, x), T)
<1>1. q # ""
  BY DEF Quotes
<1>2. ASSUME x = q PROVE SqlStep(Sql(q, FALSE, t, T), x) = Sql(q, TRUE, t, T)
  BY ONLY <1>1, <1>2 DEF SqlStep, Sql
<1>3. ASSUME x # q PROVE SqlStep(Sql(q, FALSE, t, T), x) = Sql(q, FALSE, Append(t, x), T)
  BY ONLY <1>1, <1>3 DEF SqlStep, Sql
<1> QED
  BY <1>2, <1>3

LEMMA SqlFreeSteps ==
    ASSUME NEW T, NEW x
    PROVE  /\ x \in Quotes => SqlOutside(Sql("", FALSE, <<>>, T), x) = Sql(x, FALSE, <<>>, T)
           /\ x \in {" ", "\n"} => SqlOutside(Sql("", FALSE, <<>>, T), x) = Sql("", FALSE, <<>>, T)
           /\ Wordly(x) => SqlOutside(Sql("", FALSE, <<>>, T), x) = Sql("", FALSE, <<>>, Append(T, <<x>>))
BY DEF SqlOutside, Sql, Quotes, Wordly

LEMMA SqlKeeps ==
    ASSUME NEW a \in SqlState, NEW x \in Chars
    PROVE  SqlStep(a, x) \in SqlState
<1>1. PICK q, h, t, T : /\ a = Sql(q, h, t, T) /\ q \in Quotes \cup {""} /\ h \in BOOLEAN
                        /\ t \in Lines /\ T \in Seq(Tok)
  BY SqlOf
<1>2. ASSUME NEW b \in SqlState PROVE SqlOutside(b, x) \in SqlState
  <2>1. PICK K : K = Seq(Tok) /\ Append(b.tokens, <<x>>) \in K
    <3>1. b.tokens \in Seq(Tok)
      BY SqlOf
    <3> QED
      BY <3>1, TokensLonger
  <2>2. b \in [quote : Quotes \cup {""}, half : BOOLEAN, text : Lines, tokens : K]
    BY <2>1 DEF SqlState
  <2>3. SqlOutside(b, x) \in [quote : Quotes \cup {""}, half : BOOLEAN, text : Lines, tokens : K]
    BY ONLY <2>1, <2>2 DEF SqlOutside, Quotes
  <2> QED
    BY <2>1, <2>3 DEF SqlState
<1>3. ASSUME NEW b \in SqlState, b.quote # "" PROVE SqlClose(b) \in SqlState
  <2>1. PICK K : K = Seq(Tok) /\ Append(b.tokens, <<b.quote, b.text>>) \in K
    <3>1. b.tokens \in Seq(Tok) /\ b.quote \in Chars /\ b.text \in Lines
      <4>1. b.quote \in Quotes
        BY <1>3, SqlOf
      <4>2. b.quote \in Chars
        BY <4>1 DEF Chars, Quotes
      <4> QED
        BY <4>2, SqlOf
    <3> QED
      BY <3>1, TokensLonger
  <2>2. b \in [quote : Quotes \cup {""}, half : BOOLEAN, text : Lines, tokens : K] /\ <<>> \in Lines
    BY <2>1, PiecesStart DEF SqlState
  <2>3. SqlClose(b) \in [quote : Quotes \cup {""}, half : BOOLEAN, text : Lines, tokens : K]
    BY ONLY <1>3, <2>1, <2>2 DEF SqlClose
  <2> QED
    BY <2>1, <2>3 DEF SqlState
<1>4. CASE a.quote = ""
  BY <1>2, <1>4 DEF SqlStep
<1>5. CASE a.quote # ""
  <2>1. PICK K : K = Seq(Tok) /\ Append(a.text, x) \in Lines
    BY SqlOf, TextLonger
  <2>2. a \in [quote : Quotes \cup {""}, half : BOOLEAN, text : Lines, tokens : K]
    BY <2>1 DEF SqlState
  <2>3. SqlOutside(SqlClose(a), x) \in [quote : Quotes \cup {""}, half : BOOLEAN, text : Lines, tokens : K]
    BY <1>2, <1>3, <1>5, <2>1 DEF SqlState
  <2>4. SqlStep(a, x) \in [quote : Quotes \cup {""}, half : BOOLEAN, text : Lines, tokens : K]
    BY ONLY <1>5, <2>1, <2>2, <2>3 DEF SqlStep
  <2> QED
    BY <2>1, <2>4 DEF SqlState
<1> QED
  BY <1>4, <1>5

LEMMA SqlOpIs ==
    /\ SqlOp \in [SqlState \X Chars -> SqlState]
    /\ \A a \in SqlState, x \in Chars : SqlOp[<<a, x>>] = SqlStep(a, x)
<1>1. \A p \in SqlState \X Chars : SqlStep(p[1], p[2]) \in SqlState
  BY SqlKeeps
<1> QED
  BY <1>1 DEF SqlOp

(* The reader with tokens behind it: between two, or behind a quote that   *)
(* ends one unless another follows.                                        *)
Free(T)  == Sql("", FALSE, <<>>, T)
FreeAt   == {<<Free(T), T>> : T \in Seq(Tok)}
HalfAt   == {<<Sql(p[1], TRUE, p[2], p[3]), Append(p[3], <<p[1], p[2]>>)>> : p \in Quotes \X Lines \X Seq(Tok)}
Behinds  == FreeAt \cup HalfAt

(* Reading the text s gives the tokens u.                                  *)
ReadTo(a, T, s, u, Z) == \E b : <<b, T \o u>> \in Z /\ Leads(SqlOp, a, s, b, SqlState)
Tells(Y, s, u, Z)     == \A p \in Y : ReadTo(p[1], p[2], s, u, Z)

LEMMA FreeIs ==
    ASSUME NEW T \in Seq(Tok)
    PROVE  <<Free(T), T>> \in FreeAt /\ <<Free(T), T>> \in Behinds /\ Free(T) \in SqlState
<1>1. Free(T) \in SqlState
  BY PiecesStart, SqlIn DEF Free
<1> QED
  BY <1>1 DEF FreeAt, Behinds

LEMMA HalfIs ==
    ASSUME NEW T \in Seq(Tok), NEW q \in Quotes, NEW t \in Lines
    PROVE  <<Sql(q, TRUE, t, T), Append(T, <<q, t>>)>> \in Behinds
<1>1. PICK p : p = <<q, t, T>> /\ p[1] = q /\ p[2] = t /\ p[3] = T /\ p \in Quotes \X Lines \X Seq(Tok)
  <2>1. PICK Q, L, K, p : Q = Quotes /\ L = Lines /\ K = Seq(Tok) /\ p = <<q, t, T>>
    OBVIOUS
  <2>2. q \in Q /\ t \in L /\ T \in K
    BY <2>1
  <2>3. p[1] = q /\ p[2] = t /\ p[3] = T /\ p \in Q \X L \X K
    BY ONLY <2>1, <2>2
  <2> QED
    BY ONLY <2>1, <2>3
<1>2. <<Sql(p[1], TRUE, p[2], p[3]), Append(p[3], <<p[1], p[2]>>)>> \in HalfAt
  BY <1>1 DEF HalfAt
<1> QED
  BY <1>1, <1>2 DEF Behinds

LEMMA BehindsAre ==
    ASSUME NEW p \in Behinds
    PROVE  /\ p[1] \in SqlState /\ p[2] \in Seq(Tok) /\ p = <<p[1], p[2]>>
           /\ \/ p[1] = Free(p[2])
              \/ \E q \in Quotes, t \in Lines, T \in Seq(Tok) :
                    p[1] = Sql(q, TRUE, t, T) /\ p[2] = Append(T, <<q, t>>)
<1>1. CASE p \in FreeAt
  <2>1. PICK T \in Seq(Tok) : p = <<Free(T), T>>
    BY <1>1 DEF FreeAt
  <2>2. p[1] = Free(T) /\ p[2] = T /\ p = <<p[1], p[2]>>
    <3>1. PICK a : a = Free(T)
      OBVIOUS
    <3> QED
      BY ONLY <2>1, <3>1
  <2> QED
    BY <2>2, FreeIs
<1>2. CASE p \in HalfAt
  <2>1. PICK r \in Quotes \X Lines \X Seq(Tok) : p = <<Sql(r[1], TRUE, r[2], r[3]), Append(r[3], <<r[1], r[2]>>)>>
    BY <1>2 DEF HalfAt
  <2>2. PICK q, t, T : q = r[1] /\ t = r[2] /\ T = r[3]
    OBVIOUS
  <2>3. q \in Quotes /\ t \in Lines /\ T \in Seq(Tok)
    BY <2>1, <2>2
  <2>4. p[1] = Sql(q, TRUE, t, T) /\ p[2] = Append(T, <<q, t>>) /\ p = <<p[1], p[2]>>
    <3>1. PICK a, b : a = Sql(q, TRUE, t, T) /\ b = Append(T, <<q, t>>)
      OBVIOUS
    <3>2. p = <<a, b>>
      BY <2>1, <2>2, <3>1
    <3> QED
      BY ONLY <3>1, <3>2
  <2>5. q \in Chars
    BY <2>3 DEF Quotes, Chars
  <2>6. Sql(q, TRUE, t, T) \in SqlState /\ Append(T, <<q, t>>) \in Seq(Tok)
    BY <2>3, <2>5, SqlIn, TokensLonger
  <2> QED
    BY <2>3, <2>4, <2>6
<1> QED
  BY <1>1, <1>2 DEF Behinds

LEMMA TellsOn ==
    ASSUME NEW X, NEW Y, NEW Z, X \subseteq Behinds,
           NEW s \in Seq(Chars), NEW t \in Seq(Chars), NEW u \in Seq(Tok), NEW v \in Seq(Tok),
           Tells(X, s, u, Y), Tells(Y, t, v, Z)
    PROVE  Tells(X, s \o t, u \o v, Z)
<1> SUFFICES ASSUME NEW p \in X PROVE ReadTo(p[1], p[2], s \o t, u \o v, Z)
  BY DEF Tells
<1>1. PICK a, T : a = p[1] /\ T = p[2] /\ T \in Seq(Tok)
  BY BehindsAre
<1>2. PICK b : <<b, T \o u>> \in Y /\ Leads(SqlOp, a, s, b, SqlState)
  BY <1>1 DEF Tells, ReadTo
<1>3. PICK r : r = <<b, T \o u>> /\ r[1] = b /\ r[2] = T \o u /\ r \in Y
  BY <1>2
<1>4. PICK d : <<d, (T \o u) \o v>> \in Z /\ Leads(SqlOp, b, t, d, SqlState)
  BY <1>3 DEF Tells, ReadTo
<1>5. (T \o u) \o v = T \o (u \o v)
  <2>1. PICK K : K = Tok
    OBVIOUS
  <2>2. T \in Seq(K) /\ u \in Seq(K) /\ v \in Seq(K)
    BY <1>1, <2>1
  <2> QED
    BY ONLY <2>2
<1>6. Leads(SqlOp, a, s \o t, d, SqlState)
  BY <1>2, <1>4, LeadsOn
<1> QED
  BY <1>1, <1>4, <1>5, <1>6 DEF ReadTo

LEMMA TellsWeaker ==
    ASSUME NEW X, NEW Y, NEW Z, NEW W, NEW s, NEW u, Tells(X, s, u, Y), W \subseteq X, Y \subseteq Z
    PROVE  Tells(W, s, u, Z)
BY DEF Tells, ReadTo

LEMMA TellsNothing ==
    ASSUME NEW X, X \subseteq Behinds
    PROVE  Tells(X, <<>>, <<>>, X)
<1> SUFFICES ASSUME NEW p \in X PROVE ReadTo(p[1], p[2], <<>>, <<>>, X)
  BY DEF Tells
<1>1. PICK a, T : a = p[1] /\ T = p[2] /\ T \in Seq(Tok) /\ a \in SqlState
  BY BehindsAre
<1>2. T \o <<>> = T
  BY <1>1, ConcatConcat
<1>3. p = <<a, T>>
  <2>1. p = <<p[1], p[2]>>
    BY BehindsAre
  <2> QED
    BY <1>1, <2>1
<1>4. Leads(SqlOp, a, <<>>, a, SqlState)
  BY <1>1, LeadsNowhere
<1> QED
  BY <1>1, <1>2, <1>3, <1>4 DEF ReadTo

(* A text of several parts.                                                *)
LEMMA TellsFlat ==
    ASSUME NEW n \in Nat, NEW S \in Seq(Seq(Chars)), Len(S) = n, NEW U \in Seq(Seq(Tok)), Len(U) = n,
           NEW c, \A i \in 0 .. n : c[i] \subseteq Behinds,
           \A i \in 1 .. n : Tells(c[i - 1], S[i], U[i], c[i])
    PROVE  Tells(c[0], FlattenSeq(S), FlattenSeq(U), c[n])
<1>1. PICK g : Flattens(g, S, Chars)
  BY FlattenSteps
<1>2. PICK h : Flattens(h, U, Tok)
  BY FlattenSteps
<1>3. /\ g \in [0 .. n -> Seq(Chars)] /\ g[0] = <<>>
      /\ \A i \in 1 .. n : g[i] = g[i - 1] \o S[i]
      /\ FlattenSeq(S) = g[n]
  BY <1>1 DEF Flattens
<1>4. /\ h \in [0 .. n -> Seq(Tok)] /\ h[0] = <<>>
      /\ \A i \in 1 .. n : h[i] = h[i - 1] \o U[i]
      /\ FlattenSeq(U) = h[n]
  BY <1>2 DEF Flattens
<1>5. \A i \in 1 .. n : S[i] \in Seq(Chars) /\ U[i] \in Seq(Tok)
  OBVIOUS
<1> DEFINE P == {k \in 0 .. n : Tells(c[0], g[k], h[k], c[k])}
<1>6. 0 \in P
  <2>1. 0 \in 0 .. n
    OBVIOUS
  <2>2. Tells(c[0], <<>>, <<>>, c[0])
    BY <2>1, TellsNothing
  <2> QED
    BY <1>3, <1>4, <2>1, <2>2
<1>7. ASSUME NEW k \in 0 .. n - 1, k \in P PROVE k + 1 \in P
  <2>1. PICK l : l = k + 1
    OBVIOUS
  <2>2. l \in 1 .. n /\ l \in 0 .. n /\ l - 1 = k /\ k \in 0 .. n /\ 0 \in 0 .. n
    BY ONLY <2>1, k \in 0 .. n - 1, n \in Nat
  <2>3. Tells(c[0], g[k], h[k], c[k])
    BY <1>7
  <2>4. Tells(c[k], S[l], U[l], c[l])
    BY <2>2
  <2>5. g[k] \in Seq(Chars) /\ S[l] \in Seq(Chars) /\ h[k] \in Seq(Tok) /\ U[l] \in Seq(Tok)
    BY <1>3, <1>4, <1>5, <2>2
  <2>6. g[l] = g[k] \o S[l] /\ h[l] = h[k] \o U[l]
    BY <1>3, <1>4, <2>2
  <2>7. c[0] \subseteq Behinds
    BY <2>2
  <2>8. Tells(c[0], g[l], h[l], c[l])
    <3> HIDE DEF P
    <3> QED BY <2>3, <2>4, <2>5, <2>6, <2>7, TellsOn
  <2> QED
    BY <2>1, <2>2, <2>8
<1>8. \A k \in 0 .. n : k \in P
  <2> HIDE DEF P
  <2> QED BY <1>6, <1>7, Upward
<1>9. n \in P
  BY <1>8
<1> QED
  BY <1>3, <1>4, <1>9

(* The first letter behind a token is read as outside of quotes.           *)
LEMMA SqlBehind ==
    ASSUME NEW p \in Behinds, NEW x \in Chars, x \notin Quotes
    PROVE  SqlOp[<<p[1], x>>] = SqlOutside(Free(p[2]), x)
<1>1. PICK a, T : a = p[1] /\ T = p[2] /\ a \in SqlState
  BY BehindsAre
<1>2. SqlOp[<<a, x>>] = SqlStep(a, x)
  BY <1>1, SqlOpIs
<1>3. CASE a = Free(T)
  BY <1>1, <1>2, <1>3, SqlFree DEF Free
<1>4. CASE \E q \in Quotes, t \in Lines, W \in Seq(Tok) : a = Sql(q, TRUE, t, W) /\ T = Append(W, <<q, t>>)
  <2>1. PICK q \in Quotes, t \in Lines, W \in Seq(Tok) : a = Sql(q, TRUE, t, W) /\ T = Append(W, <<q, t>>)
    BY <1>4
  <2>2. SqlStep(Sql(q, TRUE, t, W), x) = SqlOutside(Sql("", FALSE, <<>>, Append(W, <<q, t>>)), x)
    <3>1. Other(x, q)
      BY DEF Other
    <3> QED
      BY ONLY <3>1, q \in Quotes, SqlHalfEnds
  <2> QED
    BY <1>1, <1>2, <2>1, <2>2 DEF Free
<1> QED
  BY <1>1, <1>3, <1>4, BehindsAre

LEMMA WordTells ==
    ASSUME NEW x, Wordly(x)
    PROVE  Tells(Behinds, <<x>>, <<<<x>>>>, FreeAt)
<1> SUFFICES ASSUME NEW p \in Behinds PROVE ReadTo(p[1], p[2], <<x>>, <<<<x>>>>, FreeAt)
  BY DEF Tells
<1>1. PICK a, T, y : a = p[1] /\ T = p[2] /\ y = <<x>> /\ a \in SqlState /\ T \in Seq(Tok)
  BY BehindsAre
<1>2. x \in Chars /\ x \notin Quotes
  BY DEF Wordly
<1>3. SqlOp[<<a, x>>] = Free(Append(T, y))
  <2>1. SqlOutside(Free(T), x) = Free(Append(T, y))
    BY <1>1, SqlFreeSteps DEF Free
  <2> QED
    BY <1>1, <1>2, <2>1, SqlBehind
<1>4. Append(T, y) \in Seq(Tok) /\ y \in Tok
  BY <1>1, <1>2, TokensLonger
<1>5. Append(T, y) = T \o <<y>>
  BY ONLY <1>1, <1>4
<1>6. Leads(SqlOp, a, <<x>>, Free(Append(T, y)), SqlState)
  BY <1>1, <1>3, <1>4, FreeIs, LeadsOne
<1>7. <<Free(Append(T, y)), T \o <<y>>>> \in FreeAt
  BY <1>4, <1>5, FreeIs
<1> QED
  BY <1>1, <1>6, <1>7 DEF ReadTo

LEMMA BlankTells ==
    ASSUME NEW x \in Chars, x \in {" ", "\n"}
    PROVE  Tells(Behinds, <<x>>, <<>>, FreeAt)
<1> SUFFICES ASSUME NEW p \in Behinds PROVE ReadTo(p[1], p[2], <<x>>, <<>>, FreeAt)
  BY DEF Tells
<1>1. PICK a, T : a = p[1] /\ T = p[2] /\ a \in SqlState /\ T \in Seq(Tok)
  BY BehindsAre
<1>2. x \notin Quotes
  BY DEF Quotes
<1>3. SqlOp[<<a, x>>] = Free(T)
  <2>1. SqlOutside(Free(T), x) = Free(T)
    BY SqlFreeSteps DEF Free
  <2> QED
    BY <1>1, <1>2, <2>1, SqlBehind
<1>4. T \o <<>> = T
  BY <1>1, ConcatConcat
<1>5. Leads(SqlOp, a, <<x>>, Free(T), SqlState)
  BY <1>1, <1>3, FreeIs, LeadsOne
<1>6. <<Free(T), T \o <<>>>> \in FreeAt
  BY <1>1, <1>4, FreeIs
<1> QED
  BY <1>1, <1>5, <1>6 DEF ReadTo

(* A text in quotes is one token, whatever quotes are in it.               *)
LEMMA QuotedTells ==
    ASSUME NEW t \in Lines, NEW q \in Quotes
    PROVE  Tells(FreeAt, Quoted(t, q), <<<<q, t>>>>, Behinds) /\ Quoted(t, q) \in Seq(Chars)
           /\ <<q, t>> \in Tok
<1>1. q \in Chars /\ q \in Quotes \cup {""}
  BY DEF Quotes, Chars
<1>2. PICK n : /\ n = Len(t) /\ SubSeq(t, 1, 0) = <<>> /\ SubSeq(t, 1, n) = t /\ n \in Nat
               /\ \A i \in 0 .. n : SubSeq(t, 1, i) \in Lines
               /\ \A i \in 1 .. n : /\ SubSeq(t, 1, i) = Append(SubSeq(t, 1, i - 1), t[i])
                                    /\ t[i] \in Chars /\ i \in 0 .. n /\ i - 1 \in 0 .. n
  BY LineFirst
<1>3. 0 \in 0 .. n /\ n \in 0 .. n
  BY ONLY <1>2
<1>4. ASSUME NEW T \in Seq(Tok)
      PROVE  Leads(SqlOp, Free(T), Quoted(t, q), Sql(q, TRUE, t, T), SqlState) /\ Quoted(t, q) \in Lines
  <2>1. PICK c, half : /\ c = [i \in 0 .. n |-> Sql(q, FALSE, SubSeq(t, 1, i), T)]
                       /\ half = [i \in 1 .. n |-> Sql(q, TRUE, SubSeq(t, 1, i - 1), T)]
    OBVIOUS
  <2>2. \A i \in 0 .. n : c[i] = Sql(q, FALSE, SubSeq(t, 1, i), T) /\ c[i] \in SqlState
    <3> SUFFICES ASSUME NEW i \in 0 .. n PROVE c[i] = Sql(q, FALSE, SubSeq(t, 1, i), T) /\ c[i] \in SqlState
      OBVIOUS
    <3>1. c[i] = Sql(q, FALSE, SubSeq(t, 1, i), T) /\ SubSeq(t, 1, i) \in Lines
      BY <1>2, <2>1
    <3> QED
      BY <1>1, <3>1, SqlIn
  <2>3. \A i \in 1 .. n : half[i] = Sql(q, TRUE, SubSeq(t, 1, i - 1), T) /\ half[i] \in SqlState
    <3> SUFFICES ASSUME NEW i \in 1 .. n PROVE half[i] = Sql(q, TRUE, SubSeq(t, 1, i - 1), T) /\ half[i] \in SqlState
      OBVIOUS
    <3>1. half[i] = Sql(q, TRUE, SubSeq(t, 1, i - 1), T) /\ SubSeq(t, 1, i - 1) \in Lines
      BY <1>2, <2>1
    <3> QED
      BY <1>1, <3>1, SqlIn
  <2>4. Doubles(SqlOp, t, q, c, half, SqlState)
    <3>1. ASSUME NEW i \in 1 .. n
          PROVE  IF t[i] = q THEN half[i] \in SqlState /\ SqlOp[<<c[i - 1], q>>] = half[i] /\ SqlOp[<<half[i], q>>] = c[i]
                 ELSE SqlOp[<<c[i - 1], t[i]>>] = c[i]
      <4>1. PICK u, x, a, b, d : /\ u = SubSeq(t, 1, i - 1) /\ x = t[i]
                                 /\ a = c[i - 1] /\ b = half[i] /\ d = c[i]
        OBVIOUS
      <4>2. /\ a = Sql(q, FALSE, u, T) /\ a \in SqlState /\ b = Sql(q, TRUE, u, T) /\ b \in SqlState
            /\ d = Sql(q, FALSE, Append(u, x), T) /\ x \in Chars
        BY <1>2, <2>2, <2>3, <4>1
      <4>3. /\ SqlStep(a, q) = b
            /\ x = q => SqlStep(b, q) = d
            /\ x # q => SqlStep(a, x) = d
        <5>1. SqlStep(Sql(q, FALSE, u, T), q) = Sql(q, TRUE, u, T)
          BY ONLY q \in Quotes, SqlWhole
        <5>2. ASSUME x # q PROVE SqlStep(Sql(q, FALSE, u, T), x) = Sql(q, FALSE, Append(u, x), T)
          BY ONLY q \in Quotes, <5>2, SqlWhole
        <5>3. SqlStep(Sql(q, TRUE, u, T), q) = Sql(q, FALSE, Append(u, q), T)
          BY ONLY q \in Quotes, SqlHalf
        <5> QED
          BY <4>2, <5>1, <5>2, <5>3
      <4> QED
        BY <1>1, <4>1, <4>2, <4>3, SqlOpIs
    <3> QED
      BY <1>2, <2>2, <3>1 DEF Doubles
  <2>5. PICK open, shut : open = Free(T) /\ shut = Sql(q, TRUE, t, T)
    OBVIOUS
  <2>6. open \in SqlState /\ shut \in SqlState
    <3>1. open \in SqlState
      BY <2>5, FreeIs
    <3>2. shut \in SqlState
      BY <1>1, <2>5, SqlIn
    <3> QED
      BY <3>1, <3>2
  <2>7. SqlOp[<<open, q>>] = c[0]
    <3>1. SqlStep(open, q) = Sql(q, FALSE, <<>>, T)
      BY <2>5, SqlFree, SqlFreeSteps DEF Free
    <3> QED
      BY <1>1, <1>2, <1>3, <2>2, <2>6, <3>1, SqlOpIs
  <2>8. SqlOp[<<c[n], q>>] = shut
    <3>1. SqlStep(Sql(q, FALSE, t, T), q) = shut
      BY <2>5, SqlWhole
    <3> QED
      BY <1>1, <1>2, <1>3, <2>2, <3>1, SqlOpIs
  <2>9. Leads(SqlOp, open, Quoted(t, q), shut, SqlState) /\ Quoted(t, q) \in Lines
    BY <1>1, <1>2, <2>4, <2>6, <2>7, <2>8, QuotedLeads
  <2> QED
    BY <2>5, <2>9
<1>5. Tells(FreeAt, Quoted(t, q), <<<<q, t>>>>, Behinds)
  <2> SUFFICES ASSUME NEW p \in FreeAt PROVE ReadTo(p[1], p[2], Quoted(t, q), <<<<q, t>>>>, Behinds)
    BY DEF Tells
  <2>1. PICK T \in Seq(Tok) : p = <<Free(T), T>>
    BY DEF FreeAt
  <2>2. PICK y : y = <<q, t>> /\ y \in Tok
    BY <1>1, TokensLonger
  <2>3. Append(T, y) = T \o <<y>>
    <3>1. PICK K : K = Tok
      OBVIOUS
    <3>2. T \in Seq(K) /\ y \in K
      BY <2>2, <3>1
    <3> QED
      BY ONLY <3>2
  <2>4. <<Sql(q, TRUE, t, T), T \o <<y>>>> \in Behinds
    BY <2>2, <2>3, HalfIs
  <2>5. p[1] = Free(T) /\ p[2] = T
    BY <2>1
  <2> QED
    BY <1>4, <2>2, <2>4, <2>5 DEF ReadTo
<1>6. <<>> \in Seq(Tok)
  OBVIOUS
<1>7. <<q, t>> \in Tok
  BY <1>1, <1>6, TokensLonger
<1> QED
  BY <1>4, <1>5, <1>6, <1>7 DEF Lines

LEMMA TellsThen ==
    ASSUME NEW X, NEW Y, NEW W, NEW Z, X \subseteq Behinds, Y \subseteq W,
           NEW s \in Seq(Chars), NEW t \in Seq(Chars), NEW u \in Seq(Tok), NEW v \in Seq(Tok),
           Tells(X, s, u, Y), Tells(W, t, v, Z)
    PROVE  Tells(X, s \o t, u \o v, Z) /\ s \o t \in Seq(Chars) /\ u \o v \in Seq(Tok)
<1>1. Tells(Y, t, v, Z)
  BY TellsWeaker
<1>2. Tells(X, s \o t, u \o v, Z)
  BY <1>1, TellsOn
<1> QED
  BY <1>2

LEMMA NoTokens == <<>> \in Seq(Tok)
OBVIOUS

LEMMA KindsAre == FreeAt \subseteq Behinds /\ Behinds \subseteq Behinds /\ FreeAt \subseteq FreeAt
BY DEF Behinds

(* Two letters: a word and a blank.                                        *)
LEMMA WordBlank ==
    ASSUME NEW x, Wordly(x), NEW y \in Chars, y \in {" ", "\n"}
    PROVE  Tells(Behinds, <<x, y>>, <<<<x>>>>, FreeAt) /\ <<x, y>> \in Seq(Chars) /\ <<<<x>>>> \in Seq(Tok)
<1>1. x \in Chars
  BY DEF Wordly
<1>2. PICK u, k : u = <<x, y>> /\ k = <<x>>
  OBVIOUS
<1>3. Pair(x, y, u, Chars)
  BY <1>1, <1>2, PairIs
<1>4. u = <<x>> \o <<y>> /\ <<x>> \in Seq(Chars) /\ <<y>> \in Seq(Chars) /\ u \in Seq(Chars)
  BY <1>3 DEF Pair
<1>5. <<k>> \in Seq(Tok) /\ <<>> \in Seq(Tok)
  <2>1. k \in Tok
    <3>1. <<>> \in Seq(Tok)
      BY NoTokens
    <3> QED
      BY <1>1, <1>2, <3>1, TokensLonger
  <2> QED
    BY <2>1, ShortLists, NoTokens
<1>6. Tells(Behinds, <<x>>, <<k>>, FreeAt)
  BY <1>2, WordTells
<1>7. Tells(Behinds, <<y>>, <<>>, FreeAt)
  BY BlankTells
<1>8. Tells(Behinds, <<x>> \o <<y>>, <<k>> \o <<>>, FreeAt)
  BY <1>4, <1>5, <1>6, <1>7, KindsAre, TellsThen
<1>9. <<k>> \o <<>> = <<k>>
  BY <1>5, ConcatConcat
<1> QED
  BY <1>2, <1>4, <1>5, <1>8, <1>9

(* What ReadBack expects of a list in parentheses.                         *)
Tuples(V) == [c \in DOMAIN V |-> <<V[c]>>]
GroupOf(V) == <<<<"(">>>> \o Joined(Tuples(V), <<<<",">>>>) \o <<<<")">>>>

Told(P, V, n) ==
    /\ P \in Seq(Seq(Chars)) /\ Len(P) = n /\ V \in Seq(Tok) /\ Len(V) = n /\ n \in Nat /\ n # 0
    /\ \A i \in 1 .. n : Tells(FreeAt, P[i], <<V[i]>>, Behinds)

Commas(e, k) == e = <<",", " ">> /\ k = <<<<",">>>>

LEMMA JoinedTells ==
    ASSUME NEW P, NEW V, NEW n, Told(P, V, n), NEW e, NEW k, Commas(e, k)
    PROVE  /\ Tells(FreeAt, Joined(P, e), Joined(Tuples(V), k), Behinds)
           /\ Joined(P, e) \in Seq(Chars) /\ Joined(Tuples(V), k) \in Seq(Tok)
<1>1. /\ P \in Seq(Seq(Chars)) /\ Len(P) = n /\ V \in Seq(Tok) /\ Len(V) = n /\ n \in Nat /\ n # 0
      /\ \A i \in 1 .. n : Tells(FreeAt, P[i], <<V[i]>>, Behinds)
  BY DEF Told
<1>2. Tells(Behinds, e, k, FreeAt) /\ e \in Seq(Chars) /\ k \in Seq(Tok)
  <2>1. PICK x, y : x = "," /\ y = " " /\ e = <<x, y>> /\ k = <<<<x>>>>
    BY DEF Commas
  <2>2. Wordly(x) /\ y \in Chars /\ y \in {" ", "\n"}
    BY <2>1 DEF Wordly, Chars, Quotes
  <2> QED
    BY <2>1, <2>2, WordBlank
<1>3. PICK U : U = Tuples(V)
  OBVIOUS
<1>4. \A i \in 1 .. n : U[i] = <<V[i]>> /\ U[i] \in Seq(Tok)
  <2> SUFFICES ASSUME NEW i \in 1 .. n PROVE U[i] = <<V[i]>> /\ U[i] \in Seq(Tok)
    OBVIOUS
  <2>1. V[i] \in Tok /\ i \in DOMAIN V
    BY ONLY <1>1, i \in 1 .. n
  <2>2. U[i] = <<V[i]>>
    BY <1>3, <2>1 DEF Tuples
  <2> QED
    BY <2>1, <2>2, ShortLists
<1>5. U \in Seq(Seq(Tok)) /\ Len(U) = n
  <2>1. PICK T : T = Seq(Tok)
    OBVIOUS
  <2>2. DOMAIN V = 1 .. n
    BY ONLY <1>1
  <2>3. U \in [1 .. n -> T]
    BY <1>3, <1>4, <2>1, <2>2 DEF Tuples
  <2> QED
    BY <1>1, <2>1, <2>3, ListOf
<1>6. PICK p, q : p = JoinedParts(P, e) /\ q = JoinedParts(U, k)
  OBVIOUS
<1>7. /\ p \in Seq(Seq(Chars)) /\ Len(p) = n
      /\ \A i \in 1 .. n : p[i] = IF i = 1 THEN P[i] ELSE e \o P[i]
      /\ Joined(P, e) = FlattenSeq(p) /\ Joined(P, e) \in Seq(Chars)
  <2>1. P \in Seq(Seq(Chars)) /\ e \in Seq(Chars) /\ p = JoinedParts(P, e) /\ n = Len(P)
    BY <1>1, <1>2, <1>6
  <2> QED
    BY ONLY <2>1, JoinedIn
<1>8. /\ q \in Seq(Seq(Tok)) /\ Len(q) = n
      /\ \A i \in 1 .. n : q[i] = IF i = 1 THEN U[i] ELSE k \o U[i]
      /\ Joined(U, k) = FlattenSeq(q) /\ Joined(U, k) \in Seq(Tok)
  BY ONLY <1>2, <1>5, <1>6, JoinedIn
<1>9. PICK c : c = [i \in 0 .. n |-> IF i = 0 THEN FreeAt ELSE Behinds]
  OBVIOUS
<1>10. c[0] = FreeAt /\ c[n] = Behinds /\ (\A i \in 0 .. n : c[i] \subseteq Behinds)
       /\ \A i \in 1 .. n : c[i] = Behinds /\ c[i - 1] = IF i = 1 THEN FreeAt ELSE Behinds
  <2>1. 0 \in 0 .. n /\ n \in 0 .. n /\ \A i \in 1 .. n : i \in 0 .. n /\ i # 0 /\ i - 1 \in 0 .. n /\ (i - 1 = 0 <=> i = 1)
    BY ONLY <1>1
  <2> QED
    BY <1>1, <1>9, <2>1, KindsAre
<1>11. ASSUME NEW i \in 1 .. n PROVE Tells(c[i - 1], p[i], q[i], c[i])
  <2>1. P[i] \in Seq(Chars) /\ U[i] \in Seq(Tok) /\ Tells(FreeAt, P[i], U[i], Behinds)
    <3>1. P[i] \in Seq(Chars)
      BY ONLY <1>1, i \in 1 .. n
    <3>2. Tells(FreeAt, P[i], <<V[i]>>, Behinds)
      BY ONLY <1>1, i \in 1 .. n
    <3>3. PICK w : w = <<V[i]>>
      OBVIOUS
    <3>4. U[i] = w /\ U[i] \in Seq(Tok)
      BY ONLY <1>4, <3>3, i \in 1 .. n
    <3> QED
      BY ONLY <3>1, <3>2, <3>3, <3>4
  <2>2. CASE i = 1
    BY <1>7, <1>8, <1>10, <2>1, <2>2
  <2>3. CASE i # 1
    <3>1. PICK s, u : s = P[i] /\ u = U[i]
      OBVIOUS
    <3>2. Tells(Behinds, e \o s, k \o u, Behinds)
      BY <1>2, <2>1, <3>1, KindsAre, TellsThen
    <3> QED
      BY <1>7, <1>8, <1>10, <2>3, <3>1, <3>2
  <2> QED
    BY <2>2, <2>3
<1>12. Tells(c[0], FlattenSeq(p), FlattenSeq(q), c[n])
  BY ONLY <1>1, <1>7, <1>8, <1>10, <1>11, TellsFlat
<1> QED
  BY <1>3, <1>7, <1>8, <1>10, <1>12

LEMMA ListedTells ==
    ASSUME NEW P, NEW V, NEW n, Told(P, V, n)
    PROVE  Tells(Behinds, Listed(P), GroupOf(V), FreeAt) /\ Listed(P) \in Seq(Chars) /\ GroupOf(V) \in Seq(Tok)
<1>1. PICK x, y, e, k : x = "(" /\ y = ")" /\ e = <<",", " ">> /\ k = <<<<",">>>> /\ Wordly(x) /\ Wordly(y)
  <2>1. Wordly("(") /\ Wordly(")")
    BY DEF Wordly, Chars, Quotes
  <2> QED
    BY <2>1
<1>2. PICK J, K : J = Joined(P, e) /\ K = Joined(Tuples(V), k)
  OBVIOUS
<1>3. Tells(FreeAt, J, K, Behinds) /\ J \in Seq(Chars) /\ K \in Seq(Tok)
  <2>1. Commas(e, k)
    BY <1>1 DEF Commas
  <2> QED
    BY <1>2, <2>1, JoinedTells
<1>4. PICK a, b, u, v : a = <<x>> /\ b = <<y>> /\ u = <<<<x>>>> /\ v = <<<<y>>>>
  OBVIOUS
<1>5. a \in Seq(Chars) /\ b \in Seq(Chars) /\ u \in Seq(Tok) /\ v \in Seq(Tok)
  <2>1. x \in Chars /\ y \in Chars
    BY <1>1 DEF Wordly
  <2>2. <<>> \in Seq(Tok)
    BY NoTokens
  <2>3. <<x>> \in Tok /\ <<y>> \in Tok
    BY <2>1, <2>2, TokensLonger
  <2> QED
    BY <1>4, <2>1, <2>3, ShortLists
<1>6. Tells(Behinds, a, u, FreeAt) /\ Tells(Behinds, b, v, FreeAt)
  BY <1>1, <1>4, WordTells
<1>7. Tells(Behinds, a \o J, u \o K, Behinds) /\ a \o J \in Seq(Chars) /\ u \o K \in Seq(Tok)
  BY <1>3, <1>5, <1>6, KindsAre, TellsThen
<1>8. /\ Tells(Behinds, (a \o J) \o b, (u \o K) \o v, FreeAt)
      /\ (a \o J) \o b \in Seq(Chars) /\ (u \o K) \o v \in Seq(Tok)
  BY <1>5, <1>6, <1>7, KindsAre, TellsThen
<1>9. Listed(P) = (a \o J) \o b
  BY <1>1, <1>2, <1>4 DEF Listed
<1>10. GroupOf(V) = (u \o K) \o v
  BY <1>1, <1>2, <1>4 DEF GroupOf
<1> QED
  BY <1>8, <1>9, <1>10

(* The tokens of the INSERT of a row.                                      *)
NameTokens     == [c \in Cols |-> <<"\"", Names[c]>>]
ValueTokens(r) == [c \in Cols |-> IF r[c] = NULL THEN <<"NULL">> ELSE <<"'", r[c]>>]
InsertTokens(r) ==
    <<<<"INSERT">>, <<"\"", TableName>>>> \o GroupOf(NameTokens) \o <<<<"VALUES">>>>
    \o GroupOf(ValueTokens(r)) \o <<<<"semicolon">>>>

NameTexts     == [c \in Cols |-> Quoted(Names[c], "\"")]
ValueTexts(r) == [c \in Cols |-> IF r[c] = NULL THEN <<"NULL">> ELSE Quoted(r[c], "'")]

Whole(P, V, n) == P = [c \in 1 .. n |-> P[c]] /\ V = [c \in 1 .. n |-> V[c]]

LEMMA ToldOf ==
    ASSUME NEW P, NEW V, NEW n \in Nat, n # 0, Whole(P, V, n),
           \A i \in 1 .. n : P[i] \in Seq(Chars) /\ V[i] \in Tok /\ Tells(FreeAt, P[i], <<V[i]>>, Behinds)
    PROVE  Told(P, V, n)
<1>1. PICK T : T = Seq(Chars)
  OBVIOUS
<1>2. P \in [1 .. n -> T] /\ V \in [1 .. n -> Tok]
  BY <1>1 DEF Whole
<1>3. P \in Seq(T) /\ Len(P) = n /\ V \in Seq(Tok) /\ Len(V) = n
  BY <1>2, ListOf
<1> QED
  BY <1>1, <1>3 DEF Told

LEMMA QuotesAre == "'" \in Quotes /\ "\"" \in Quotes
BY DEF Quotes

LEMMA NamesTold == Told(NameTexts, NameTokens, Len(Names))
<1>1. PICK n, P, V, q : n = Len(Names) /\ P = NameTexts /\ V = NameTokens /\ q = "\"" /\ q \in Quotes
  BY QuotesAre
<1>2. n \in Nat /\ n # 0 /\ Cols = 1 .. n /\ \A c \in 1 .. n : Names[c] \in Lines
  <2>1. Names \in Seq(Lines) /\ n = Len(Names) /\ n \in Nat /\ n # 0 /\ Cols = 1 .. n
    BY <1>1, NamesAre
  <2> QED
    BY ONLY <2>1
<1>3. \A i \in 1 .. n : P[i] = Quoted(Names[i], q) /\ V[i] = <<q, Names[i]>>
  BY <1>1, <1>2 DEF NameTexts, NameTokens
<1>4. ASSUME NEW i \in 1 .. n
      PROVE  P[i] \in Seq(Chars) /\ V[i] \in Tok /\ Tells(FreeAt, P[i], <<V[i]>>, Behinds)
  BY <1>1, <1>2, <1>3, QuotedTells
<1>5. Whole(P, V, n)
  BY <1>1, <1>2 DEF Whole, NameTexts, NameTokens
<1>6. Told(P, V, n)
  BY ONLY <1>2, <1>4, <1>5, ToldOf
<1> QED
  BY <1>1, <1>6

LEMMA ValuesTold ==
    ASSUME NEW r \in Row
    PROVE  Told(ValueTexts(r), ValueTokens(r), Len(Names))
<1>1. PICK n, P, V, q, x : n = Len(Names) /\ P = ValueTexts(r) /\ V = ValueTokens(r) /\ q = "'" /\ q \in Quotes /\ x = "NULL"
  BY QuotesAre
<1>2. n \in Nat /\ n # 0 /\ Cols = 1 .. n
  BY <1>1, NamesAre
<1>3. \A c \in 1 .. n : r[c] # NULL => r[c] \in Lines
  BY <1>2, CellsAre, TextsAreLines DEF Comparable
<1>4. \A i \in 1 .. n : /\ r[i] = NULL => P[i] = <<x>> /\ V[i] = <<x>>
                        /\ r[i] # NULL => P[i] = Quoted(r[i], q) /\ V[i] = <<q, r[i]>>
  BY <1>1, <1>2 DEF ValueTexts, ValueTokens
<1>5. Wordly(x) /\ x \in Chars
  BY <1>1 DEF Wordly, Chars, Quotes
<1>6. Tells(FreeAt, <<x>>, <<<<x>>>>, Behinds) /\ <<x>> \in Seq(Chars) /\ <<x>> \in Tok
  <2>1. Tells(Behinds, <<x>>, <<<<x>>>>, FreeAt)
    BY <1>5, WordTells
  <2> QED
    BY <1>5, <2>1, KindsAre, TellsWeaker, ShortLists, NoTokens, TokensLonger
<1>7. ASSUME NEW i \in 1 .. n
      PROVE  P[i] \in Seq(Chars) /\ V[i] \in Tok /\ Tells(FreeAt, P[i], <<V[i]>>, Behinds)
  <2>1. CASE r[i] = NULL
    <3>1. P[i] = <<x>> /\ V[i] = <<x>>
      BY <1>4, <2>1
    <3> QED
      BY <1>6, <3>1
  <2>2. CASE r[i] # NULL
    <3>1. P[i] = Quoted(r[i], q) /\ V[i] = <<q, r[i]>> /\ r[i] \in Lines
      BY <1>3, <1>4, <2>2
    <3> QED
      BY <1>1, <3>1, QuotedTells
  <2> QED
    BY <2>1, <2>2
<1>8. Whole(P, V, n)
  BY <1>1, <1>2 DEF Whole, ValueTexts, ValueTokens
<1>9. Told(P, V, n)
  BY ONLY <1>2, <1>7, <1>8, ToldOf
<1> QED
  BY <1>1, <1>9

(* Words and blanks of an INSERT.                                          *)
LEMMA HeadTells ==
    /\ Tells(Behinds, <<"INSERT", " ">>, <<<<"INSERT">>>>, FreeAt) /\ <<"INSERT", " ">> \in Seq(Chars) /\ <<<<"INSERT">>>> \in Seq(Tok)
    /\ Tells(Behinds, <<" ">>, <<>>, FreeAt) /\ <<" ">> \in Seq(Chars)
    /\ Tells(Behinds, <<"semicolon", "\n">>, <<<<"semicolon">>>>, FreeAt) /\ <<"semicolon", "\n">> \in Seq(Chars) /\ <<<<"semicolon">>>> \in Seq(Tok)
<1>1. Wordly("INSERT") /\ Wordly("semicolon") /\ " " \in Chars /\ "\n" \in Chars
  BY DEF Wordly, Chars, Quotes
<1>2. " " \in {" ", "\n"} /\ "\n" \in {" ", "\n"}
  OBVIOUS
<1>3. Tells(Behinds, <<" ">>, <<>>, FreeAt) /\ <<" ">> \in Seq(Chars)
  BY <1>1, <1>2, BlankTells, ShortLists
<1>4. PICK a, b, s, e : a = "INSERT" /\ b = "semicolon" /\ s = " " /\ e = "\n"
  OBVIOUS
<1>5. Wordly(a) /\ Wordly(b) /\ s \in Chars /\ e \in Chars /\ s \in {" ", "\n"} /\ e \in {" ", "\n"}
  BY <1>1, <1>2, <1>4
<1>6. /\ Tells(Behinds, <<a, s>>, <<<<a>>>>, FreeAt) /\ <<a, s>> \in Seq(Chars) /\ <<<<a>>>> \in Seq(Tok)
      /\ Tells(Behinds, <<b, e>>, <<<<b>>>>, FreeAt) /\ <<b, e>> \in Seq(Chars) /\ <<<<b>>>> \in Seq(Tok)
  BY ONLY <1>5, WordBlank
<1> QED
  BY <1>3, <1>4, <1>6

LEMMA ValuesHeadTells ==
    /\ Tells(Behinds, <<" ", "VALUES", " ">>, <<<<"VALUES">>>>, FreeAt)
    /\ <<" ", "VALUES", " ">> \in Seq(Chars) /\ <<<<"VALUES">>>> \in Seq(Tok)
<1>1. PICK a, s, u, v : a = "VALUES" /\ s = " " /\ Triple(s, a, s, u, v)
  BY DEF Triple
<1>2. Wordly(a) /\ a \in Chars /\ s \in Chars /\ s \in {" ", "\n"}
  BY <1>1 DEF Wordly, Chars, Quotes
<1>3. Tells(Behinds, v, <<<<a>>>>, FreeAt) /\ v \in Seq(Chars) /\ <<<<a>>>> \in Seq(Tok)
  <2>1. v = <<a, s>>
    BY <1>1 DEF Triple
  <2> QED
    BY ONLY <1>2, <2>1, WordBlank
<1>4. Tells(Behinds, <<s>>, <<>>, FreeAt) /\ <<s>> \in Seq(Chars)
  BY <1>2, BlankTells, ShortLists
<1>5. u = <<s>> \o v
  BY ONLY <1>1, <1>2, TripleIs
<1>6. PICK k, w : k = <<<<a>>>> /\ w = <<s>>
  OBVIOUS
<1>7. Tells(Behinds, w \o v, <<>> \o k, FreeAt) /\ w \o v \in Seq(Chars)
  BY <1>3, <1>4, <1>6, NoTokens, KindsAre, TellsThen
<1>8. <<>> \o k = k
  BY <1>3, <1>6, ConcatConcat
<1> QED
  BY <1>1, <1>3, <1>5, <1>6, <1>7, <1>8 DEF Triple

InsertText(r) ==
    <<"INSERT", " ">> \o Quoted(TableName, "\"") \o <<" ">> \o Listed(NameTexts)
    \o <<" ", "VALUES", " ">> \o Listed(ValueTexts(r)) \o <<"semicolon", "\n">>

(* A text that gives tokens, from and to the outside of quotes.            *)
Says(s, u, Z) == Tells(FreeAt, s, u, Z) /\ s \in Seq(Chars) /\ u \in Seq(Tok)
Gives(t, v, Z) == Tells(Behinds, t, v, Z) /\ t \in Seq(Chars) /\ v \in Seq(Tok)

LEMMA SaysThen ==
    ASSUME NEW s, NEW u, NEW t, NEW v, NEW Y, NEW Z, Y \subseteq Behinds, Says(s, u, Y), Gives(t, v, Z)
    PROVE  Says(s \o t, u \o v, Z)
BY KindsAre, TellsThen DEF Says, Gives

LEMMA SaysNoMore ==
    ASSUME NEW s, NEW u, NEW t, NEW Y, NEW Z, Y \subseteq Behinds, Says(s, u, Y), Gives(t, <<>>, Z)
    PROVE  Says(s \o t, u, Z)
<1>1. Says(s \o t, u \o <<>>, Z)
  BY SaysThen
<1>2. u \o <<>> = u
  BY ConcatConcat DEF Says
<1> QED
  BY <1>1, <1>2

LEMMA InsertTells ==
    ASSUME NEW r \in Row
    PROVE  Says(InsertText(r), InsertTokens(r), FreeAt)
<1>1. PICK a, b, e, f, i, v, z :
          /\ a = <<"INSERT", " ">> /\ b = <<" ">> /\ e = <<" ", "VALUES", " ">> /\ f = <<"semicolon", "\n">>
          /\ i = <<"INSERT">> /\ v = <<<<"VALUES">>>> /\ z = <<<<"semicolon">>>>
  OBVIOUS
<1>2. Gives(a, <<i>>, FreeAt) /\ Gives(b, <<>>, FreeAt) /\ Gives(e, v, FreeAt) /\ Gives(f, z, FreeAt)
  BY <1>1, HeadTells, ValuesHeadTells, NoTokens DEF Gives
<1>3. PICK L, M, G, H : /\ L = Listed(NameTexts) /\ M = Listed(ValueTexts(r))
                        /\ G = GroupOf(NameTokens) /\ H = GroupOf(ValueTokens(r))
  OBVIOUS
<1>4. Gives(L, G, FreeAt)
  BY <1>3, NamesTold, ListedTells DEF Gives
<1>5. Gives(M, H, FreeAt)
  <2>1. Told(ValueTexts(r), ValueTokens(r), Len(Names))
    BY ValuesTold
  <2> QED
    BY <1>3, <2>1, ListedTells DEF Gives
<1>6. PICK q, t, n : q = "\"" /\ t = Quoted(TableName, q) /\ n = <<q, TableName>>
  OBVIOUS
<1>7. Tells(FreeAt, t, <<n>>, Behinds) /\ t \in Seq(Chars) /\ n \in Tok
  <2>1. TableName \in Lines /\ q \in Quotes
    BY <1>6, NamesOk, TextsAreLines, QuotesAre
  <2> QED
    BY <1>6, <2>1, QuotedTells
<1>8. Says(a, <<i>>, FreeAt)
  BY <1>2, KindsAre, TellsWeaker DEF Says, Gives
<1>9. <<i>> \o <<n>> = <<i, n>> /\ <<n>> \in Seq(Tok)
  <2>1. i \in Tok
    <3>1. "INSERT" \in Chars
      BY DEF Chars
    <3> QED
      BY <1>1, <3>1, NoTokens, TokensLonger
  <2>2. Pair(i, n, <<i, n>>, Tok)
    BY <1>7, <2>1, PairIs
  <2> QED
    BY <2>2 DEF Pair
<1>10. Says(a \o t, <<i, n>>, Behinds)
  <2>1. Tells(FreeAt, a \o t, <<i>> \o <<n>>, Behinds) /\ a \o t \in Seq(Chars) /\ <<i>> \o <<n>> \in Seq(Tok)
    <3>1. Tells(FreeAt, a, <<i>>, FreeAt) /\ a \in Seq(Chars) /\ <<i>> \in Seq(Tok)
      BY <1>8 DEF Says
    <3>2. PICK k, l : k = <<i>> /\ l = <<n>>
      OBVIOUS
    <3> QED
      BY <1>7, <1>9, <3>1, <3>2, KindsAre, TellsThen
  <2> QED
    BY <1>9, <2>1 DEF Says
<1>11. Says((a \o t) \o b, <<i, n>>, FreeAt)
  BY <1>2, <1>10, KindsAre, SaysNoMore
<1>12. PICK s1, u1 : s1 = (a \o t) \o b /\ u1 = <<i, n>>
  OBVIOUS
<1>13. Says(s1 \o L, u1 \o G, FreeAt)
  BY <1>4, <1>11, <1>12, KindsAre, SaysThen
<1>14. Says((s1 \o L) \o e, (u1 \o G) \o v, FreeAt)
  BY <1>2, <1>13, KindsAre, SaysThen
<1>15. Says(((s1 \o L) \o e) \o M, ((u1 \o G) \o v) \o H, FreeAt)
  BY <1>5, <1>14, KindsAre, SaysThen
<1>16. Says((((s1 \o L) \o e) \o M) \o f, (((u1 \o G) \o v) \o H) \o z, FreeAt)
  BY <1>2, <1>15, KindsAre, SaysThen
<1>17. InsertText(r) = (((s1 \o L) \o e) \o M) \o f
  BY <1>1, <1>3, <1>6, <1>12 DEF InsertText
<1>18. InsertTokens(r) = (((u1 \o G) \o v) \o H) \o z
  BY <1>1, <1>3, <1>6, <1>12 DEF InsertTokens
<1> QED
  BY <1>16, <1>17, <1>18

(* The reader gives the tokens of what it reads.                           *)
LEMMA ReadSqlLeads ==
    ASSUME NEW text \in Seq(Chars), NEW b, Leads(SqlOp, Free(<<>>), text, b, SqlState)
    PROVE  ReadSql(text) = SqlClose(b).tokens
<1> DEFINE First == [quote |-> "", half |-> FALSE, text |-> <<>>, tokens |-> <<>>]
           n == Len(text)
           Solves(f) == f = [i \in 0 .. n |-> IF i = 0 THEN {First} ELSE {SqlStep(a, text[i]) : a \in f[i - 1]}]
           f == CHOOSE g : Solves(g)
<1>1. ReadSql(text) = SqlClose(CHOOSE a \in f[n] : TRUE).tokens
  BY Zenon DEF ReadSql
<1>2. n \in Nat /\ \A i \in 1 .. n : text[i] \in Chars
  OBVIOUS
<1>3. PICK h : Steps(h, SqlOp, Free(<<>>), text, b, SqlState)
  BY DEF Leads
<1>20. Free(<<>>) = First
  BY Zenon DEF Sql, Free
<1> HIDE DEF First
<1>4. /\ h \in [0 .. n -> SqlState] /\ h[0] = First /\ h[n] = b
      /\ \A i \in 1 .. n : h[i] = SqlOp[<<h[i - 1], text[i]>>]
  BY <1>3, <1>20 DEF Steps, Folded
<1>5. \A i \in 1 .. n : h[i] = SqlStep(h[i - 1], text[i]) /\ i - 1 \in 0 .. n /\ i \in 0 .. n
  <2> SUFFICES ASSUME NEW i \in 1 .. n PROVE h[i] = SqlStep(h[i - 1], text[i]) /\ i - 1 \in 0 .. n /\ i \in 0 .. n
    OBVIOUS
  <2>1. i - 1 \in 0 .. n /\ i \in 0 .. n
    BY ONLY <1>2, i \in 1 .. n
  <2>2. h[i - 1] \in SqlState /\ text[i] \in Chars
    BY <1>2, <1>4, <2>1
  <2> QED
    BY <1>4, <2>1, <2>2, SqlOpIs
<1> HIDE DEF n
<1> DEFINE g == [i \in 0 .. n |-> {h[i]}]
<1>6. Solves(g)
  <2>1. \A i \in 0 .. n : g[i] = IF i = 0 THEN {First} ELSE {SqlStep(a, text[i]) : a \in g[i - 1]}
    <3>1. \A i \in 0 .. n : i = 0 \/ i \in 1 .. n
      BY <1>2
    <3>2. ASSUME NEW i \in 0 .. n, i = 0 PROVE g[i] = {First}
      BY <1>4, <3>2
    <3>3. ASSUME NEW i \in 1 .. n PROVE g[i] = {SqlStep(a, text[i]) : a \in g[i - 1]} /\ i # 0
      <4>1. g[i] = {SqlStep(h[i - 1], text[i])} /\ g[i - 1] = {h[i - 1]}
        BY <1>5
      <4>2. i # 0
        BY ONLY <1>2, i \in 1 .. n
      <4> HIDE DEF g
      <4> QED BY <4>1, <4>2
    <3> HIDE DEF g
    <3> QED BY <3>1, <3>2, <3>3
  <2> QED
    BY <2>1
<1> HIDE DEF g
<1>7. Solves(f)
  <2> HIDE DEF Solves
  <2> QED BY <1>6
<1>8. f[0] = {First} /\ \A i \in 1 .. n : f[i] = {SqlStep(a, text[i]) : a \in f[i - 1]}
  <2> HIDE DEF f
  <2>1. 0 \in 0 .. n /\ \A i \in 1 .. n : i \in 0 .. n /\ i # 0
    BY ONLY <1>2
  <2> QED
    BY <1>7, <2>1
<1> HIDE DEF f
<1> DEFINE P == {k \in 0 .. n : f[k] = {h[k]}}
<1>9. 0 \in P
  BY <1>2, <1>4, <1>8
<1>10. ASSUME NEW k \in 0 .. n - 1, k \in P PROVE k + 1 \in P
  <2>1. PICK i : i = k + 1
    OBVIOUS
  <2>2. i \in 1 .. n /\ i \in 0 .. n /\ i - 1 = k
    BY ONLY <1>2, <2>1, k \in 0 .. n - 1
  <2>3. f[i - 1] = {h[i - 1]}
    BY <1>10, <2>2
  <2>4. f[i] = {h[i]}
    <3>1. f[i] = {SqlStep(a, text[i]) : a \in f[i - 1]} /\ h[i] = SqlStep(h[i - 1], text[i])
      BY <1>5, <1>8, <2>2
    <3> QED
      BY ONLY <2>3, <3>1
  <2> QED
    BY <2>1, <2>2, <2>4
<1>11. \A k \in 0 .. n : k \in P
  <2> HIDE DEF P
  <2> QED BY <1>2, <1>9, <1>10, Upward
<1>12. f[n] = {b}
  <2>1. n \in 0 .. n
    BY <1>2
  <2> QED
    BY <1>4, <1>11, <2>1
<1>13. (CHOOSE a \in f[n] : TRUE) = b
  BY <1>12
<1> QED
  BY <1>1, <1>13 DEF n

(* The tokens of the file.                                                 *)
SqlTokens(all) == FlattenSeq([i \in DOMAIN all |-> InsertTokens(all[i])])

LEMMA SqlReadsBack ==
    ASSUME NEW all \in Seq(Row)
    PROVE  ReadSql(result_to_insert_sql(all)) = SqlTokens(all)
<1>1. PICK m : m = Len(all) /\ m \in Nat /\ DOMAIN all = 1 .. m /\ \A i \in 1 .. m : all[i] \in Row
  OBVIOUS
<1>2. PICK S, U : S = [i \in 1 .. m |-> InsertText(all[i])] /\ U = [i \in 1 .. m |-> InsertTokens(all[i])]
  OBVIOUS
<1>3. \A i \in 1 .. m : S[i] \in Seq(Chars) /\ U[i] \in Seq(Tok) /\ Tells(FreeAt, S[i], U[i], FreeAt)
  BY <1>1, <1>2, InsertTells DEF Says
<1>4. S \in Seq(Seq(Chars)) /\ Len(S) = m /\ U \in Seq(Seq(Tok)) /\ Len(U) = m
  <2>1. PICK K, L : K = Seq(Chars) /\ L = Seq(Tok)
    OBVIOUS
  <2>2. S \in [1 .. m -> K] /\ U \in [1 .. m -> L]
    BY <1>2, <1>3, <2>1
  <2> QED
    BY <1>1, <2>1, <2>2, ListOf
<1>5. PICK c : c = [i \in 0 .. m |-> FreeAt]
  OBVIOUS
<1>6. c[0] = FreeAt /\ c[m] = FreeAt /\ (\A i \in 0 .. m : c[i] = FreeAt) /\ \A i \in 1 .. m : c[i - 1] = FreeAt /\ c[i] = FreeAt
  <2>1. 0 \in 0 .. m /\ m \in 0 .. m /\ \A i \in 1 .. m : i \in 0 .. m /\ i - 1 \in 0 .. m
    BY ONLY <1>1
  <2> QED
    BY <1>5, <2>1
<1>7. (\A i \in 0 .. m : c[i] \subseteq Behinds) /\ \A i \in 1 .. m : Tells(c[i - 1], S[i], U[i], c[i])
  BY <1>3, <1>6, KindsAre
<1>8. PICK text, u : text = FlattenSeq(S) /\ u = FlattenSeq(U)
  OBVIOUS
<1>9. Tells(FreeAt, text, u, FreeAt)
  <2>1. Tells(c[0], FlattenSeq(S), FlattenSeq(U), c[m])
    BY ONLY <1>1, <1>4, <1>7, TellsFlat
  <2> QED
    BY <1>6, <1>8, <2>1
<1>10. text \in Seq(Chars) /\ u \in Seq(Tok)
  BY <1>4, <1>8, FlattenType
<1>11. PICK p, e : e = <<>> /\ p = <<Free(e), e>> /\ p \in FreeAt /\ p[1] = Free(e) /\ p[2] = e
  <2>1. PICK e : e = <<>> /\ e \in Seq(Tok)
    BY NoTokens
  <2>2. PICK a, p : a = Free(e) /\ p = <<a, e>>
    OBVIOUS
  <2>3. p[1] = a /\ p[2] = e
    BY ONLY <2>2
  <2>4. <<Free(e), e>> \in FreeAt
    BY <2>1, FreeIs
  <2> QED
    BY <2>1, <2>2, <2>3, <2>4
<1>12. PICK b : <<b, e \o u>> \in FreeAt /\ Leads(SqlOp, Free(e), text, b, SqlState)
  BY <1>9, <1>11 DEF Tells, ReadTo
<1>13. e \o u = u
  BY <1>10, <1>11, ConcatConcat
<1>14. b = Free(u)
  <2>1. PICK T \in Seq(Tok) : <<b, e \o u>> = <<Free(T), T>>
    BY <1>12 DEF FreeAt
  <2> QED
    BY <1>13, <2>1
<1>15. ReadSql(text) = SqlClose(Free(u)).tokens
  BY <1>10, <1>11, <1>12, <1>14, ReadSqlLeads
<1>16. SqlClose(Free(u)).tokens = u
  BY DEF SqlClose, Free, Sql
<1>17. result_to_insert_sql(all) = text
  <2>1. \A r : Insert(r) = InsertText(r)
    BY Zenon DEF Insert, InsertText, NameTexts, ValueTexts
  <2>2. result_to_insert_sql(all) = FlattenSeq([i \in DOMAIN all |-> InsertText(all[i])])
    BY <2>1, Zenon DEF result_to_insert_sql
  <2> QED
    BY <1>1, <1>2, <1>8, <2>2
<1>18. SqlTokens(all) = u
  BY <1>1, <1>2, <1>8 DEF SqlTokens
<1> QED
  BY <1>15, <1>16, <1>17, <1>18

LEMMA RowsReadBack == RowsInv => ExportsReadBack
<1> SUFFICES ASSUME RowsInv PROVE ReadBack
  BY DEF ExportsReadBack
<1>1. rows \in Seq(Row)
  BY DEF RowsInv, RowsTypeOK
<1>2. ReadCsv(ExportCsv) = FileLines(rows)
  BY <1>1, CsvReadsBack DEF ExportCsv
<1>3. ReadSql(ExportInsertSql) = SqlTokens(rows)
  BY <1>1, SqlReadsBack DEF ExportInsertSql
<1>4. FileLines(rows) = <<Names>> \o [i \in DOMAIN rows |-> [c \in Cols |-> sanitize_cell(GridText(rows_to_ui(rows[i]))[c])]]
  BY Zenon DEF FileLines, SafeRow
<1> DEFINE Group(tokens) == <<<<"(">>>> \o Joined([c \in Cols |-> <<tokens[c]>>], <<<<",">>>>) \o <<<<")">>>>
<1>5. DOMAIN NameTokens = Cols /\ \A r : DOMAIN ValueTokens(r) = Cols
  BY DEF NameTokens, ValueTokens
<1>6. GroupOf(NameTokens) = Group(NameTokens) /\ \A r : GroupOf(ValueTokens(r)) = Group(ValueTokens(r))
  BY <1>5, Zenon DEF GroupOf, Tuples
<1>7. \A r : InsertTokens(r) = <<<<"INSERT">>, <<"\"", TableName>>>> \o Group([c \in Cols |-> <<"\"", Names[c]>>])
            \o <<<<"VALUES">>>>
            \o Group([c \in Cols |-> IF r[c] = NULL THEN <<"NULL">> ELSE <<"'", r[c]>>])
            \o <<<<"semicolon">>>>
  <2> HIDE DEF Group
  <2> QED
    BY <1>6, Zenon DEF InsertTokens, NameTokens, ValueTokens
<1> QED
  BY <1>2, <1>3, <1>4, <1>7, Zenon DEF ReadBack, SqlTokens

(* An export reads back as the result, whatever is in its cells.           *)
THEOREM ExportRead == RowsSpec => []ExportsReadBack
BY RowsInvariant, RowsReadBack, PTL
=============================================================================
