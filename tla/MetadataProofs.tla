--------------------------- MODULE MetadataProofs ---------------------------
(***************************************************************************)
(* The cache and the sidebar, for any connections, versions and bounds.    *)
(*                                                                         *)
(* The argument: whatever is known of a connection anywhere is at most the *)
(* version of its server; a task that fetched while no other held a schema *)
(* holds the newest that anybody knows; and a connection that is not       *)
(* overtaken has no other holder and no load in progress.                  *)
(***************************************************************************)
EXTENDS Metadata, TLAPS

Told == {"memory", "disk", "report"}

(* Nothing the sidebar shows or is about to show of c is newer than m.     *)
Heard(c, m) ==
    /\ sidebar[c] <= m
    /\ \A t \in tasks : t.conn = c /\ t.at = "report" => t.meta <= m
    /\ \A i \in DOMAIN events :
          events[i].of = "Loaded" /\ events[i].conn = c => events[i].meta <= m

(* Nor anything else.                                                      *)
Known(c, m) ==
    /\ Heard(c, m)
    /\ memory[c] <= m /\ disk[c] <= m
    /\ loading.conn = c => loading.row <= m
    /\ \A t \in tasks : t.conn = c /\ t.at \in Told => t.meta <= m

Grown == \A c \in Conns : Known(c, server[c])

Fetches == \A t \in tasks : t.at \in Told => t.meta # 0

(* A task that is alone holds the newest schema; any other is accounted    *)
(* for.                                                                    *)
Sole ==
    \A t \in Holding :
       /\ t.alone => Known(t.conn, t.meta) /\ \A r \in Holding : r.conn = t.conn => r = t
       /\ ~ t.alone => t.conn \in overtaken

LoadAccounted == ~ LoopIdle => loading.conn \in overtaken

(* The cache holds m for c, in memory and, but for a write to come, on     *)
(* disk; and nothing newer was reported.                                   *)
Agreed(c, m) ==
    /\ memory[c] = m
    /\ Heard(c, m)
    /\ \A t \in tasks : t.conn = c /\ t.at = "disk" => t.meta = m
    /\ (\A t \in tasks : t.conn = c => t.at # "disk") => disk[c] = m

Settled == \A c \in Conns \ overtaken : \E m \in Version : Agreed(c, m)

IInv == TypeOK /\ Fetches /\ Grown /\ Sole /\ LoadAccounted /\ Settled

-----------------------------------------------------------------------------

LEMMA AppendNews ==
    ASSUME NEW S, NEW s \in Seq(S), NEW e \in S
    PROVE  /\ Append(s, e) \in Seq(S)
           /\ \A i \in DOMAIN Append(s, e) : (i \in DOMAIN s /\ Append(s, e)[i] = s[i])
                                             \/ Append(s, e)[i] = e
OBVIOUS

LEMMA TailNews ==
    ASSUME NEW S, NEW s \in Seq(S), s # <<>>
    PROVE  /\ Tail(s) \in Seq(S) /\ Head(s) \in S
           /\ 1 \in DOMAIN s /\ Head(s) = s[1]
           /\ \A i \in DOMAIN Tail(s) : i + 1 \in DOMAIN s /\ Tail(s)[i] = s[i + 1]
OBVIOUS

LEMMA TaskFields ==
    ASSUME NEW t \in Task
    PROVE  /\ t.id \in 1 .. MaxCommands /\ t.conn \in Conns /\ t.meta \in Version
           /\ t.alone \in BOOLEAN /\ t.at \in {"fetch", "memory", "disk", "report", "failed"}
BY DEF Task

LEMMA Moved ==
    ASSUME NEW t \in Task, NEW x \in {"fetch", "memory", "disk", "report", "failed"}
    PROVE  /\ [t EXCEPT !.at = x] \in Task
           /\ [t EXCEPT !.at = x].conn = t.conn /\ [t EXCEPT !.at = x].meta = t.meta
           /\ [t EXCEPT !.at = x].alone = t.alone /\ [t EXCEPT !.at = x].at = x
BY DEF Task

LEMMA Crowded ==
    ASSUME NEW t \in Task
    PROVE  /\ [t EXCEPT !.alone = FALSE] \in Task
           /\ [t EXCEPT !.alone = FALSE].conn = t.conn
           /\ [t EXCEPT !.alone = FALSE].meta = t.meta
           /\ [t EXCEPT !.alone = FALSE].at = t.at
           /\ [t EXCEPT !.alone = FALSE].alone = FALSE
BY DEF Task

LEMMA NewsFields ==
    ASSUME NEW e \in News
    PROVE  /\ e.of \in {"Connected", "Failed", "ConnectError", "Removed", "Loaded"}
           /\ e.conn \in Conns
           /\ e.of = "Loaded" => e.meta \in Version
BY DEF News

LEMMA InitInv == Init => IInv
<1> SUFFICES ASSUME Init PROVE IInv
    OBVIOUS
<1>1. /\ tasks = {} /\ loading = NoLoad /\ events = <<>> /\ closures = <<>>
      /\ spinner = FALSE /\ overtaken = {} /\ commands = 0 /\ starts = 1
      /\ server = [c \in Conns |-> 1]
      /\ memory = [c \in Conns |-> 0] /\ disk = [c \in Conns |-> 0]
      /\ sidebar = [c \in Conns |-> 0]
  BY Zenon DEF Init
<1>2. loading \in [conn : Conns, row : Version \ {0}] \cup {NoLoad} /\ loading.conn \notin Conns
      /\ LoopIdle
  BY <1>1, BoundsNat, NoneIsNone DEF NoLoad, LoopIdle
<1>3. TypeOK
  <2>1. server \in [Conns -> 1 .. MaxVersion]
    BY <1>1, BoundsNat
  <2>2. memory \in [Conns -> Version] /\ disk \in [Conns -> Version]
        /\ sidebar \in [Conns -> Version]
    BY <1>1, BoundsNat DEF Version
  <2>3. events \in Seq(News) /\ closures \in Seq(News) /\ tasks \subseteq Task
    BY <1>1
  <2>4. commands \in 0 .. MaxCommands /\ starts \in 1 .. MaxStarts
    BY <1>1, BoundsNat
  <2> QED
    BY <1>1, <1>2, <2>1, <2>2, <2>3, <2>4 DEF TypeOK
<1>4. Grown
  BY <1>1, <1>2 DEF Grown, Known, Heard
<1>5. Fetches /\ Sole
  BY <1>1 DEF Fetches, Sole, Holding
<1>6. Settled
  <2>1. 0 \in Version
    BY BoundsNat DEF Version
  <2>2. \A c \in Conns : Agreed(c, 0)
    BY <1>1 DEF Agreed, Heard
  <2> QED
    BY <2>1, <2>2 DEF Settled
<1> QED
  BY <1>2, <1>3, <1>4, <1>5, <1>6 DEF IInv, LoadAccounted

-----------------------------------------------------------------------------
(* Types.                                                                  *)

LEMMA TypeCommand ==
    ASSUME TypeOK, NEW c \in Conns,
           Connect(c) \/ ConnectFails(c) \/ Remove(c)
    PROVE  TypeOK'
<1>1. commands' \in 1 .. MaxCommands
  BY BoundsNat DEF TypeOK, Connect, ConnectFails, Remove
<1>2. \A o \in {"Connected", "ConnectError", "Removed"} : [of |-> o, conn |-> c] \in News
  BY DEF News
<1>3. events' \in Seq(News)
  <2>1. \E o \in {"Connected", "ConnectError", "Removed"} :
          events' = Append(events, [of |-> o, conn |-> c])
    BY DEF Connect, ConnectFails, Remove
  <2> QED
    BY <1>2, <2>1, AppendNews DEF TypeOK
<1>4. tasks' \subseteq Task
  <2>1. [id |-> commands', conn |-> c, meta |-> 0, alone |-> TRUE, at |-> "fetch"] \in Task
    BY <1>1, BoundsNat DEF Task, Version
  <2> QED
    BY <2>1 DEF TypeOK, Connect, ConnectFails, Remove
<1>5. UNCHANGED <<server, memory, disk, loading, overtaken, closures, sidebar, spinner, starts>>
  BY DEF Connect, ConnectFails, Remove, cacheVars
<1> QED
  BY <1>1, <1>3, <1>4, <1>5 DEF TypeOK

LEMMA TypeConn ==
    ASSUME TypeOK, NEW c \in Conns, Migrate(c) \/ Disconnect(c) \/ LoadRow(c)
    PROVE  TypeOK'
<1>1. CASE Migrate(c)
  <2>1. server' \in [Conns -> 1 .. MaxVersion]
    BY <1>1, BoundsNat DEF TypeOK, Migrate
  <2> QED
    BY <1>1, <2>1 DEF TypeOK, Migrate, cacheVars, uiVars
<1>2. CASE Disconnect(c)
  <2>1. sidebar' \in [Conns -> Version]
    BY <1>2, BoundsNat DEF TypeOK, Disconnect, Version
  <2> QED
    BY <1>2, <2>1 DEF TypeOK, Disconnect, cacheVars
<1>3. CASE LoadRow(c)
  <2>1. loading' \in [conn : Conns, row : Version \ {0}]
    BY <1>3 DEF TypeOK, LoadRow
  <2> QED
    BY <1>3, <2>1 DEF TypeOK, LoadRow, uiVars
<1> QED
  BY <1>1, <1>2, <1>3

LEMMA LoadingConn ==
    TypeOK /\ ~ LoopIdle => loading.conn \in Conns /\ loading.row \in Version
BY DEF TypeOK, LoopIdle

LEMMA TypeLoop ==
    ASSUME TypeOK, LoadInsert \/ HandleEvent \/ RunClosure \/ Restart
    PROVE  TypeOK'
<1>1. CASE LoadInsert
  <2>1. loading.conn \in Conns /\ loading.row \in Version
    BY <1>1, LoadingConn DEF LoadInsert
  <2>2. memory' \in [Conns -> Version] /\ overtaken' \subseteq Conns
    BY <1>1, <2>1 DEF TypeOK, LoadInsert
  <2> QED
    BY <1>1, <2>2 DEF TypeOK, LoadInsert, uiVars
<1>2. CASE HandleEvent
  <2>1. events # <<>> /\ events \in Seq(News) /\ closures \in Seq(News)
    BY <1>2 DEF TypeOK, HandleEvent
  <2>2. Head(events) \in News /\ events' \in Seq(News) /\ closures' \in Seq(News)
    BY <1>2, <2>1, TailNews, AppendNews DEF HandleEvent
  <2>3. sidebar' \in [Conns -> Version]
    <3>1. 0 \in Version
      BY BoundsNat DEF Version
    <3>2. Head(events).conn \in Conns
          /\ (Head(events).of = "Loaded" => Head(events).meta \in Version)
      BY <2>2, NewsFields
    <3> QED
      BY <1>2, <3>1, <3>2 DEF TypeOK, HandleEvent
  <2> QED
    BY <1>2, <2>2, <2>3 DEF TypeOK, HandleEvent, cacheVars
<1>3. CASE RunClosure
  <2>1. closures' \in Seq(News) /\ spinner' \in BOOLEAN
    BY <1>3, TailNews DEF TypeOK, RunClosure
  <2> QED
    BY <1>3, <2>1 DEF TypeOK, RunClosure, cacheVars
<1>4. CASE Restart
  <2>1. sidebar' \in [Conns -> Version] /\ starts' \in 1 .. MaxStarts
    BY <1>4, BoundsNat DEF TypeOK, Restart, Version
  <2>2. memory' \in [Conns -> Version] /\ overtaken' \subseteq Conns
    BY <1>4, BoundsNat DEF TypeOK, Restart, Version
  <2>3. events' \in Seq(News) /\ closures' \in Seq(News) /\ tasks' \subseteq Task
    BY <1>4 DEF Restart
  <2>4. loading' \in [conn : Conns, row : Version \ {0}] \cup {NoLoad}
    BY <1>4 DEF Restart
  <2> QED
    BY <1>4, <2>1, <2>2, <2>3, <2>4 DEF TypeOK, Restart
<1> QED
  BY <1>1, <1>2, <1>3, <1>4

(* What a finished fetch does to the tasks: the one it is of holds a new   *)
(* schema, and those of its connection that hold one are not alone.        *)
Made(r, u) == /\ r \in Holding /\ u.conn = r.conn /\ u.meta = r.meta /\ u.at = r.at
              /\ u.alone = FALSE /\ u \in Task

FetchedAs(t, got) ==
    /\ got.conn = t.conn /\ got.meta = server[t.conn] /\ got.at = "memory"
    /\ got.alone <=> ~ \E r \in Holding : r.conn = t.conn
    /\ overtaken' = IF got.alone THEN overtaken ELSE overtaken \cup {t.conn}
    /\ \A u \in tasks' :
          \/ u = got
          \/ u \in tasks /\ ~ (u \in Holding /\ u.conn = t.conn)
          \/ \E r \in tasks : r.conn = t.conn /\ Made(r, u)
    /\ \A u \in tasks : u.conn # t.conn => u \in tasks'

LEMMA FetchedTasks ==
    ASSUME TypeOK, NEW t \in tasks, Fetched(t)
    PROVE  \E got \in Task : FetchedAs(t, got)
<1>0. t \in Task /\ server[t.conn] \in Version /\ \A r \in tasks : r \in Task
  BY TaskFields DEF TypeOK, Version
<1>1. PICK rivals : rivals = {r \in Holding : r.conn = t.conn}
  OBVIOUS
<1>2. PICK a \in BOOLEAN : a = (rivals = {})
  OBVIOUS
<1>3. PICK v \in Version : v = server[t.conn]
  BY <1>0
<1>4. PICK got : got = [t EXCEPT !.at = "memory", !.meta = v, !.alone = a]
  OBVIOUS
<1>5. got = [t EXCEPT !.at = "memory", !.meta = server[t.conn], !.alone = rivals = {}]
  BY Zenon, <1>2, <1>3, <1>4
<1>6. tasks' = (tasks \ ({t} \cup rivals)) \cup {got}
               \cup {[r EXCEPT !.alone = FALSE] : r \in rivals}
  BY Zenon, <1>1, <1>5 DEF Fetched
<1>7. got \in Task /\ got.conn = t.conn /\ got.meta = v /\ got.at = "memory" /\ got.alone = a
  BY <1>0, <1>4 DEF Task
<1>8. ASSUME NEW r \in rivals, NEW u, u = [r EXCEPT !.alone = FALSE]
      PROVE  r \in tasks /\ r.conn = t.conn /\ Made(r, u)
  <2>1. r \in tasks /\ r \in Holding /\ r.conn = t.conn /\ r \in Task
    BY <1>0, <1>1 DEF Holding
  <2> QED
    BY <1>8, <2>1, Crowded DEF Made
<1>9. overtaken' = IF a THEN overtaken ELSE overtaken \cup {t.conn}
  BY <1>1, <1>2 DEF Fetched
<1>10. ASSUME NEW u \in tasks'
       PROVE  \/ u = got
              \/ u \in tasks /\ ~ (u \in Holding /\ u.conn = t.conn)
              \/ \E r \in tasks : r.conn = t.conn /\ Made(r, u)
  <2>1. CASE u \in tasks \ rivals
    BY <1>1, <2>1
  <2>2. CASE \E r \in rivals : u = [r EXCEPT !.alone = FALSE]
    BY <1>8, <2>2
  <2> QED
    BY <1>6, <2>1, <2>2
<1>11. got.alone <=> ~ \E r \in Holding : r.conn = t.conn
  BY <1>1, <1>2, <1>7
<1>12. \A u \in tasks : u.conn # t.conn => u \in tasks'
  BY <1>1, <1>6
<1> QED
  BY <1>3, <1>7, <1>9, <1>10, <1>11, <1>12 DEF FetchedAs

LEMMA TypeTask == ASSUME TypeOK, NEW t \in tasks, TaskStep(t) PROVE TypeOK'
<1>0. t \in Task /\ t.conn \in Conns /\ t.meta \in Version
  BY TaskFields DEF TypeOK
<1>1. CASE Fetched(t)
  <2>2. tasks' \subseteq Task
    BY <1>1, FetchedTasks DEF TypeOK, FetchedAs, Made
  <2>3. overtaken' \subseteq Conns
    BY <1>0, <1>1 DEF TypeOK, Fetched
  <2> QED
    BY <1>1, <2>2, <2>3 DEF TypeOK, Fetched, uiVars
<1>2. ASSUME NEW x \in {"disk", "report", "failed"}, Move(t, [t EXCEPT !.at = x])
      PROVE  tasks' \subseteq Task
  <2>1. x \in {"fetch", "memory", "disk", "report", "failed"}
    BY <1>2
  <2>2. [t EXCEPT !.at = x] \in Task
    BY <1>0, <2>1, Moved
  <2> QED
    BY <1>2, <2>2 DEF TypeOK, Move
<1>3. CASE FetchFails(t)
  BY <1>2, <1>3 DEF TypeOK, FetchFails, cacheVars, uiVars
<1>4. CASE StoreMemory(t)
  <2>1. memory' \in [Conns -> Version] /\ tasks' \subseteq Task
    BY <1>0, <1>2, <1>4 DEF TypeOK, StoreMemory
  <2> QED
    BY <1>4, <2>1 DEF TypeOK, StoreMemory, uiVars
<1>5. CASE StoreDisk(t)
  <2>1. disk' \in [Conns -> Version] /\ tasks' \subseteq Task /\ overtaken' \subseteq Conns
    BY <1>0, <1>2, <1>5 DEF TypeOK, StoreDisk
  <2> QED
    BY <1>5, <2>1 DEF TypeOK, StoreDisk, uiVars
<1>6. CASE StoreFails(t)
  <2>1. tasks' \subseteq Task /\ overtaken' \subseteq Conns
    BY <1>0, <1>2, <1>6 DEF TypeOK, StoreFails
  <2> QED
    BY <1>6, <2>1 DEF TypeOK, StoreFails, uiVars
<1>7. CASE Report(t)
  <2>1. [of |-> "Loaded", conn |-> t.conn, meta |-> t.meta] \in News
        /\ [of |-> "Failed", conn |-> t.conn] \in News
    BY <1>0 DEF News
  <2>2. events' \in Seq(News)
    BY <1>7, <2>1, AppendNews DEF TypeOK, Report
  <2> QED
    BY <1>7, <2>2 DEF TypeOK, Report, cacheVars
<1> QED
  BY <1>1, <1>3, <1>4, <1>5, <1>6, <1>7 DEF TaskStep

LEMMA TypeNext == ASSUME TypeOK, [Next]_vars PROVE TypeOK'
<1>1. ASSUME NEW c \in Conns,
             \/ Migrate(c) \/ Connect(c) \/ ConnectFails(c)
             \/ Disconnect(c) \/ Remove(c) \/ LoadRow(c)
      PROVE  TypeOK'
  <2>1. Connect(c) \/ ConnectFails(c) \/ Remove(c) => TypeOK'
    BY TypeCommand
  <2>2. Migrate(c) \/ Disconnect(c) \/ LoadRow(c) => TypeOK'
    BY TypeConn
  <2> QED
    BY <1>1, <2>1, <2>2
<1>2. ASSUME NEW t \in tasks, TaskStep(t) PROVE TypeOK'
  BY <1>2, TypeTask
<1>3. LoadInsert \/ HandleEvent \/ RunClosure \/ Restart => TypeOK'
  BY TypeLoop
<1>4. UNCHANGED vars => TypeOK'
  BY DEF TypeOK, vars, cacheVars, uiVars
<1> QED
  BY <1>1, <1>2, <1>3, <1>4 DEF Next

-----------------------------------------------------------------------------
(* What is known stays at most m until a schema newer than m is fetched.   *)

(* Every step but the end of a fetch.                                      *)
OtherStep(t) == FetchFails(t) \/ StoreMemory(t) \/ StoreDisk(t) \/ StoreFails(t) \/ Report(t)

Other ==
    \/ \E c \in Conns : \/ Migrate(c) \/ Connect(c) \/ ConnectFails(c)
                        \/ Disconnect(c) \/ Remove(c) \/ LoadRow(c)
    \/ \E t \in tasks : OtherStep(t)
    \/ LoadInsert \/ HandleEvent \/ RunClosure \/ Restart
    \/ UNCHANGED vars

LEMMA Steps == [Next]_vars => Other \/ \E t \in tasks : Fetched(t)
BY DEF Next, Other, OtherStep, TaskStep

LEMMA KnownFetched ==
    ASSUME TypeOK, NEW c \in Conns, NEW m \in Nat, Known(c, m),
           NEW t \in tasks, Fetched(t), t.conn = c => server[c] <= m
    PROVE  Known(c, m)'
<1>1. UNCHANGED <<memory, disk, loading, events, sidebar>>
  BY DEF Fetched, uiVars
<1>2. PICK got \in Task : FetchedAs(t, got)
  BY FetchedTasks
<1>3. \A u \in tasks' : u.conn = c /\ u.at \in Told => u.meta <= m
  BY <1>2 DEF FetchedAs, Made, Known
<1> QED
  BY <1>1, <1>3 DEF Known, Heard, Told

LEMMA KnownOther ==
    ASSUME TypeOK, NEW c \in Conns, NEW m \in Nat, Known(c, m), Other
    PROVE  Known(c, m)'
<1>0. /\ sidebar[c] <= m /\ memory[c] <= m /\ disk[c] <= m
      /\ \A t \in tasks : t.conn = c /\ t.at \in Told => t.meta <= m
      /\ \A i \in DOMAIN events : events[i].of = "Loaded" /\ events[i].conn = c => events[i].meta <= m
      /\ loading.conn = c => loading.row <= m
      /\ \A t \in tasks : t \in Task
  BY DEF Known, Heard, TypeOK
<1>1. ASSUME UNCHANGED <<memory, disk, loading, tasks, events, sidebar>> PROVE Known(c, m)'
  BY <1>0, <1>1 DEF Known, Heard, Told
<1>2. ASSUME NEW e \in News, events' = Append(events, e),
             e.of = "Loaded" /\ e.conn = c => e.meta <= m
      PROVE  \A i \in DOMAIN events' :
                events'[i].of = "Loaded" /\ events'[i].conn = c => events'[i].meta <= m
  BY <1>0, <1>2, AppendNews DEF TypeOK
<1>3. ASSUME NEW d \in Conns, Migrate(d) PROVE Known(c, m)'
  BY <1>1, <1>3 DEF Migrate, cacheVars, uiVars
<1>4. ASSUME NEW d \in Conns, Connect(d) PROVE Known(c, m)'
  <2>1. UNCHANGED <<memory, disk, loading, sidebar>>
    BY <1>4 DEF Connect, cacheVars
  <2>2. \A i \in DOMAIN events' :
                events'[i].of = "Loaded" /\ events'[i].conn = c => events'[i].meta <= m
    <3>1. [of |-> "Connected", conn |-> d] \in News
      BY DEF News
    <3> QED
      BY <1>2, <1>4, <3>1 DEF Connect
  <2>3. \A t \in tasks' : t.conn = c /\ t.at \in Told => t.meta <= m
    BY <1>0, <1>4 DEF Connect, Told
  <2> QED
    BY <1>0, <2>1, <2>2, <2>3 DEF Known, Heard, Told
<1>5. ASSUME NEW d \in Conns, ConnectFails(d) \/ Remove(d) PROVE Known(c, m)'
  <2>1. UNCHANGED <<memory, disk, loading, sidebar, tasks>>
    BY <1>5 DEF ConnectFails, Remove, cacheVars
  <2>2. \A i \in DOMAIN events' :
                events'[i].of = "Loaded" /\ events'[i].conn = c => events'[i].meta <= m
    <3>1. [of |-> "ConnectError", conn |-> d] \in News /\ [of |-> "Removed", conn |-> d] \in News
      BY DEF News
    <3> QED
      BY <1>2, <1>5, <3>1 DEF ConnectFails, Remove
  <2> QED
    BY <1>0, <2>1, <2>2 DEF Known, Heard, Told
<1>6. ASSUME NEW d \in Conns, Disconnect(d) PROVE Known(c, m)'
  <2>1. sidebar'[c] <= m /\ UNCHANGED <<memory, disk, loading, tasks, events>>
    BY <1>0, <1>6 DEF Disconnect, cacheVars, TypeOK
  <2> QED
    BY <1>0, <2>1 DEF Known, Heard, Told
<1>7. ASSUME NEW d \in Conns, LoadRow(d) PROVE Known(c, m)'
  <2>1. loading' = [conn |-> d, row |-> disk[d]]
        /\ UNCHANGED <<memory, disk, sidebar, tasks, events>>
    BY <1>7 DEF LoadRow, uiVars
  <2> QED
    BY <1>0, <2>1 DEF Known, Heard, Told
<1>8. CASE LoadInsert
  <2>1. loading.conn \in Conns
    BY <1>8, LoadingConn DEF LoadInsert
  <2>2. memory'[c] <= m /\ loading' = NoLoad /\ UNCHANGED <<disk, sidebar, tasks, events>>
    BY <1>0, <1>8, <2>1 DEF LoadInsert, TypeOK, uiVars
  <2> QED
    BY <1>0, <2>2, NoneIsNone DEF Known, Heard, Told, NoLoad
<1>9. CASE HandleEvent
  <2>1. events # <<>> /\ events' = Tail(events) /\ UNCHANGED <<memory, disk, loading, tasks>>
    BY <1>9 DEF HandleEvent, cacheVars
  <2>2. /\ Head(events) \in News /\ 1 \in DOMAIN events /\ Head(events) = events[1]
        /\ \A i \in DOMAIN events' : i + 1 \in DOMAIN events /\ events'[i] = events[i + 1]
    BY <2>1, TailNews DEF TypeOK
  <2>3. sidebar'[c] <= m
    <3>1. Head(events).conn \in Conns
          /\ (Head(events).of = "Loaded" /\ Head(events).conn = c => Head(events).meta <= m)
      BY <1>0, <2>2, NewsFields
    <3> QED
      BY <1>0, <1>9, <3>1 DEF HandleEvent, TypeOK
  <2> QED
    BY <1>0, <2>1, <2>2, <2>3 DEF Known, Heard, Told
<1>10. CASE RunClosure
  BY <1>1, <1>10 DEF RunClosure, cacheVars
<1>11. CASE Restart
  <2>1. /\ sidebar'[c] = 0 /\ memory'[c] <= m /\ disk' = disk /\ tasks' = {} /\ events' = <<>>
        /\ loading' = NoLoad
    BY <1>0, <1>11 DEF Restart
  <2> QED
    BY <1>0, <2>1, NoneIsNone DEF Known, Heard, Told, NoLoad
<1>13. ASSUME NEW t \in tasks, NEW x \in {"disk", "report", "failed"},
              Move(t, [t EXCEPT !.at = x]), x = "failed" \/ t.at \in Told
       PROVE  \A u \in tasks' : u.conn = c /\ u.at \in Told => u.meta <= m
  <2>0. PICK s : s = [t EXCEPT !.at = x]
    OBVIOUS
  <2>1. t \in Task /\ x \in {"fetch", "memory", "disk", "report", "failed"}
    BY <1>0, <1>13
  <2>2. s.conn = t.conn /\ s.meta = t.meta /\ s.at = x
    BY <2>0, <2>1, Moved
  <2>3. tasks' = (tasks \ {t}) \cup {s}
    BY <1>13, <2>0 DEF Move
  <2>4. s.conn = c /\ s.at \in Told => s.meta <= m
    BY <1>0, <1>13, <2>2 DEF Told
  <2> QED
    BY <1>0, <2>3, <2>4
<1>14. ASSUME NEW t \in tasks, FetchFails(t) PROVE Known(c, m)'
  <2>1. \A u \in tasks' : u.conn = c /\ u.at \in Told => u.meta <= m
    BY <1>13, <1>14 DEF FetchFails
  <2> QED
    BY <1>0, <1>14, <2>1 DEF FetchFails, cacheVars, uiVars, Known, Heard, Told
<1>15. ASSUME NEW t \in tasks, StoreMemory(t) PROVE Known(c, m)'
  <2>1. \A u \in tasks' : u.conn = c /\ u.at \in Told => u.meta <= m
    BY <1>13, <1>15 DEF StoreMemory, Told
  <2>2. memory'[c] <= m
    BY <1>0, <1>15 DEF StoreMemory, TypeOK, Told
  <2> QED
    BY <1>0, <1>15, <2>1, <2>2 DEF StoreMemory, uiVars, Known, Heard, Told
<1>16. ASSUME NEW t \in tasks, StoreDisk(t) PROVE Known(c, m)'
  <2>1. \A u \in tasks' : u.conn = c /\ u.at \in Told => u.meta <= m
    BY <1>13, <1>16 DEF StoreDisk, Told
  <2>2. disk'[c] <= m
    BY <1>0, <1>16 DEF StoreDisk, TypeOK, Told
  <2> QED
    BY <1>0, <1>16, <2>1, <2>2 DEF StoreDisk, uiVars, Known, Heard, Told
<1>17. ASSUME NEW t \in tasks, StoreFails(t) PROVE Known(c, m)'
  <2>1. \A u \in tasks' : u.conn = c /\ u.at \in Told => u.meta <= m
    BY <1>13, <1>17 DEF StoreFails, Told
  <2> QED
    BY <1>0, <1>17, <2>1 DEF StoreFails, uiVars, Known, Heard, Told
<1>18. ASSUME NEW t \in tasks, Report(t) PROVE Known(c, m)'
  <2>1. t.conn \in Conns /\ t.meta \in Version
    BY <1>0, TaskFields
  <2>2. [of |-> "Loaded", conn |-> t.conn, meta |-> t.meta] \in News
        /\ [of |-> "Failed", conn |-> t.conn] \in News
    BY <2>1 DEF News
  <2>3. \A i \in DOMAIN events' :
                events'[i].of = "Loaded" /\ events'[i].conn = c => events'[i].meta <= m
    BY <1>0, <1>2, <1>18, <2>2 DEF Report, Told
  <2> QED
    BY <1>0, <1>18, <2>3 DEF Report, cacheVars, Known, Heard, Told
<1>19. ASSUME NEW t \in tasks, OtherStep(t) PROVE Known(c, m)'
  BY <1>14, <1>15, <1>16, <1>17, <1>18, <1>19 DEF OtherStep
<1>20. CASE UNCHANGED vars
  BY <1>1, <1>20 DEF vars, cacheVars, uiVars
<1> QED
  BY <1>3, <1>4, <1>5, <1>6, <1>7, <1>8, <1>9, <1>10, <1>11, <1>19, <1>20 DEF Other

-----------------------------------------------------------------------------
(* The parts of the invariant, one after the other.                        *)

(* The move of a task, field by field.                                     *)
LEMMA MoveTo ==
    ASSUME TypeOK, NEW t \in tasks, NEW x \in {"disk", "report", "failed"},
           Move(t, [t EXCEPT !.at = x])
    PROVE  \E s \in Task : /\ tasks' = (tasks \ {t}) \cup {s}
                           /\ s.conn = t.conn /\ s.meta = t.meta /\ s.alone = t.alone
                           /\ s.at = x
<1>1. t \in Task /\ x \in {"fetch", "memory", "disk", "report", "failed"}
  BY DEF TypeOK
<1>2. PICK s : s = [t EXCEPT !.at = x]
  OBVIOUS
<1>3. s \in Task /\ s.conn = t.conn /\ s.meta = t.meta /\ s.alone = t.alone /\ s.at = x
  BY <1>1, <1>2, Moved
<1>4. tasks' = (tasks \ {t}) \cup {s}
  BY <1>2 DEF Move
<1> QED
  BY <1>3, <1>4

LEMMA FetchesNext == ASSUME TypeOK, Fetches, [Next]_vars PROVE Fetches'
<1>1. ASSUME tasks' \subseteq tasks PROVE Fetches'
  BY <1>1 DEF Fetches, Told
<1>2. ASSUME NEW t \in tasks, Fetched(t) PROVE Fetches'
  <2>1. PICK got \in Task : FetchedAs(t, got)
    BY <1>2, FetchedTasks
  <2>2. server[t.conn] # 0
    BY TaskFields DEF TypeOK
  <2> QED
    BY <2>1, <2>2 DEF FetchedAs, Made, Fetches, Told
<1>3. ASSUME NEW t \in tasks, NEW x \in {"disk", "report", "failed"},
             Move(t, [t EXCEPT !.at = x]), x = "failed" \/ t.at \in Told
      PROVE  Fetches'
  <2>1. PICK s \in Task : /\ tasks' = (tasks \ {t}) \cup {s}
                          /\ s.meta = t.meta /\ s.at = x
    BY <1>3, MoveTo
  <2> QED
    BY <1>3, <2>1 DEF Fetches, Told
<1>4. ASSUME NEW t \in tasks, OtherStep(t) PROVE Fetches'
  <2>1. CASE FetchFails(t)
    BY <1>3, <2>1 DEF FetchFails
  <2>2. CASE StoreMemory(t)
    BY <1>3, <2>2 DEF StoreMemory, Told
  <2>3. CASE StoreDisk(t)
    BY <1>3, <2>3 DEF StoreDisk, Told
  <2>4. CASE StoreFails(t)
    BY <1>3, <2>4 DEF StoreFails, Told
  <2>5. CASE Report(t)
    BY <1>1, <2>5 DEF Report
  <2> QED
    BY <1>4, <2>1, <2>2, <2>3, <2>4, <2>5 DEF OtherStep
<1>5. ASSUME NEW c \in Conns, Connect(c) PROVE Fetches'
  <2>1. tasks' = tasks \cup {[id |-> commands', conn |-> c, meta |-> 0,
                              alone |-> TRUE, at |-> "fetch"]}
    BY <1>5 DEF Connect
  <2> QED
    BY <2>1 DEF Fetches, Told
<1>6. ASSUME NEW c \in Conns,
             Migrate(c) \/ ConnectFails(c) \/ Disconnect(c) \/ Remove(c) \/ LoadRow(c)
      PROVE  Fetches'
  BY <1>1, <1>6 DEF Migrate, ConnectFails, Disconnect, Remove, LoadRow
<1>7. CASE LoadInsert \/ HandleEvent \/ RunClosure \/ Restart \/ UNCHANGED vars
  BY <1>1, <1>7 DEF LoadInsert, HandleEvent, RunClosure, Restart, vars
<1> QED
  BY <1>2, <1>4, <1>5, <1>6, <1>7, Steps DEF Other

LEMMA GrownNext ==
    ASSUME TypeOK, Grown, [Next]_vars, NEW c \in Conns
    PROVE  \E n \in Nat : n = server'[c] /\ Known(c, n)'
<1>1. server[c] \in Nat /\ server'[c] \in Nat /\ server[c] <= server'[c]
  <2>1. \A d \in Conns : server[d] \in 1 .. MaxVersion
    BY DEF TypeOK
  <2>2. server' = server \/ \E d \in Conns : server' = [server EXCEPT ![d] = @ + 1]
    BY DEF Next, TaskStep, Migrate, Connect, ConnectFails, Disconnect, Remove, LoadRow,
           LoadInsert, Fetched, FetchFails, StoreMemory, StoreDisk, StoreFails, Report,
           HandleEvent, RunClosure, Restart, vars
  <2> QED
    BY <2>1, <2>2, BoundsNat DEF TypeOK
<1>2. PICK m \in Nat : m = server[c]
  BY <1>1
<1>3. Known(c, m)
  BY <1>2 DEF Grown
<1>4. Known(c, m)'
  BY <1>1, <1>2, <1>3, Steps, KnownOther, KnownFetched
<1>5. /\ sidebar'[c] \in Nat /\ memory'[c] \in Nat /\ disk'[c] \in Nat
      /\ \A t \in tasks' : t.meta \in Nat
      /\ \A i \in DOMAIN events' : events'[i].of = "Loaded" => events'[i].meta \in Nat
      /\ loading'.conn = c => loading'.row \in Nat
  <2>1. TypeOK'
    BY TypeNext
  <2>2. sidebar'[c] \in Nat /\ memory'[c] \in Nat /\ disk'[c] \in Nat
    BY <2>1 DEF TypeOK, Version
  <2>3. \A t \in tasks' : t.meta \in Nat
    BY <2>1, TaskFields DEF TypeOK, Version
  <2>4. \A i \in DOMAIN events' : events'[i].of = "Loaded" => events'[i].meta \in Nat
    BY <2>1, NewsFields DEF TypeOK, Version
  <2>5. loading'.row \in Nat
    BY <2>1, BoundsNat DEF TypeOK, Version, NoLoad
  <2> QED
    BY <2>2, <2>3, <2>4, <2>5
<1>6. PICK n \in Nat : n = server'[c]
  BY <1>1
<1>7. Known(c, n)'
  BY <1>1, <1>2, <1>4, <1>5, <1>6 DEF Known, Heard, Told
<1> QED
  BY <1>6, <1>7

LEMMA HeardKept ==
    ASSUME TypeOK, NEW c \in Conns, NEW m \in Nat, Heard(c, m), [Next]_vars,
           \A u \in tasks' : u.conn = c /\ u.at = "report" => u \in tasks
    PROVE  Heard(c, m)'
<1>0. /\ sidebar[c] <= m
      /\ \A t \in tasks : t.conn = c /\ t.at = "report" => t.meta <= m
      /\ \A i \in DOMAIN events : events[i].of = "Loaded" /\ events[i].conn = c => events[i].meta <= m
      /\ \A t \in tasks : t \in Task
  BY DEF Heard, TypeOK
<1>1. sidebar'[c] <= m
  <2>1. CASE HandleEvent
    <3>1. Head(events) \in News /\ 1 \in DOMAIN events /\ Head(events) = events[1]
      BY <2>1, TailNews DEF HandleEvent, TypeOK
    <3>2. Head(events).conn \in Conns
          /\ (Head(events).of = "Loaded" /\ Head(events).conn = c => Head(events).meta <= m)
      BY <1>0, <3>1, NewsFields
    <3> QED
      BY <1>0, <2>1, <3>2 DEF HandleEvent, TypeOK
  <2>2. ASSUME NEW d \in Conns, Disconnect(d) PROVE sidebar'[c] <= m
    BY <1>0, <2>2 DEF Disconnect, TypeOK
  <2>3. CASE Restart
    BY <2>3 DEF Restart
  <2>4. ASSUME UNCHANGED sidebar PROVE sidebar'[c] <= m
    BY <1>0, <2>4
  <2> QED
    BY <2>1, <2>2, <2>3, <2>4
       DEF Next, TaskStep, Migrate, Connect, ConnectFails, Remove, LoadRow, LoadInsert,
           Fetched, FetchFails, StoreMemory, StoreDisk, StoreFails, Report, RunClosure,
           vars, uiVars
<1>2. \A u \in tasks' : u.conn = c /\ u.at = "report" => u.meta <= m
  BY <1>0
<1>3. \A i \in DOMAIN events' :
        events'[i].of = "Loaded" /\ events'[i].conn = c => events'[i].meta <= m
  <2>1. ASSUME NEW e \in News, events' = Append(events, e),
               e.of = "Loaded" /\ e.conn = c => e.meta <= m
        PROVE  \A i \in DOMAIN events' :
                 events'[i].of = "Loaded" /\ events'[i].conn = c => events'[i].meta <= m
    BY <1>0, <2>1, AppendNews DEF TypeOK
  <2>2. ASSUME NEW d \in Conns, Connect(d) \/ ConnectFails(d) \/ Remove(d)
        PROVE  \A i \in DOMAIN events' :
                 events'[i].of = "Loaded" /\ events'[i].conn = c => events'[i].meta <= m
    <3>1. PICK o \in {"Connected", "ConnectError", "Removed"} :
             events' = Append(events, [of |-> o, conn |-> d])
      BY <2>2 DEF Connect, ConnectFails, Remove
    <3>2. [of |-> o, conn |-> d] \in News
      BY DEF News
    <3> QED
      BY <2>1, <3>1, <3>2
  <2>3. ASSUME NEW t \in tasks, Report(t) PROVE \A i \in DOMAIN events' :
                 events'[i].of = "Loaded" /\ events'[i].conn = c => events'[i].meta <= m
    <3>1. t.conn \in Conns /\ t.meta \in Version
      BY <1>0, TaskFields
    <3>2. [of |-> "Loaded", conn |-> t.conn, meta |-> t.meta] \in News
          /\ [of |-> "Failed", conn |-> t.conn] \in News
      BY <3>1 DEF News
    <3> QED
      BY <1>0, <2>1, <2>3, <3>2 DEF Report
  <2>4. CASE HandleEvent
    <3>1. events # <<>> /\ events' = Tail(events)
      BY <2>4 DEF HandleEvent
    <3>2. \A i \in DOMAIN events' : i + 1 \in DOMAIN events /\ events'[i] = events[i + 1]
      BY <3>1, TailNews DEF TypeOK
    <3> QED
      BY <1>0, <3>2
  <2>5. CASE Restart
    BY <2>5 DEF Restart
  <2>6. ASSUME UNCHANGED events PROVE \A i \in DOMAIN events' :
                 events'[i].of = "Loaded" /\ events'[i].conn = c => events'[i].meta <= m
    BY <1>0, <2>6
  <2>7. ASSUME NEW d \in Conns, Migrate(d) \/ Disconnect(d) \/ LoadRow(d)
        PROVE  UNCHANGED events
    BY <2>7 DEF Migrate, Disconnect, LoadRow, uiVars
  <2>8. ASSUME NEW t \in tasks,
               Fetched(t) \/ FetchFails(t) \/ StoreMemory(t) \/ StoreDisk(t) \/ StoreFails(t)
        PROVE  UNCHANGED events
    BY <2>8 DEF Fetched, FetchFails, StoreMemory, StoreDisk, StoreFails, uiVars
  <2>9. LoadInsert \/ RunClosure \/ UNCHANGED vars => UNCHANGED events
    BY DEF LoadInsert, RunClosure, vars, uiVars
  <2> QED
    BY <2>2, <2>3, <2>4, <2>5, <2>6, <2>7, <2>8, <2>9 DEF Next, TaskStep
<1> QED
  BY <1>1, <1>2, <1>3 DEF Heard

LEMMA HolderKnown ==
    ASSUME TypeOK, Sole
    PROVE  \A t \in Holding : /\ t \in tasks /\ t \in Task /\ t.conn \in Conns /\ t.meta \in Nat
                              /\ t.alone \in BOOLEAN
                              /\ t.alone => Known(t.conn, t.meta)
                              /\ t.alone => \A r \in Holding : r.conn = t.conn => r = t
                              /\ ~ t.alone => t.conn \in overtaken
<1>1. \A t \in Holding : t \in tasks /\ t \in Task
  BY DEF Holding, TypeOK
<1>2. \A t \in Holding : t.conn \in Conns /\ t.meta \in Nat /\ t.alone \in BOOLEAN
  BY <1>1, TaskFields DEF Version
<1> QED
  BY <1>1, <1>2 DEF Sole

(* A holder that stays what it is.                                         *)
LEMMA SoleQuiet ==
    ASSUME TypeOK, Sole, Other, Holding' \subseteq Holding,
           \A t \in Holding' : t.conn \in overtaken => t.conn \in overtaken'
    PROVE  Sole'
<1> SUFFICES ASSUME NEW t \in Holding'
             PROVE  /\ t.alone => Known(t.conn, t.meta)'
                               /\ \A r \in Holding' : r.conn = t.conn => r = t
                    /\ ~ t.alone => t.conn \in overtaken'
    BY DEF Sole
<1>1. t \in Holding
  OBVIOUS
<1>2. /\ t.conn \in Conns /\ t.meta \in Nat
      /\ t.alone => Known(t.conn, t.meta)
      /\ t.alone => \A r \in Holding : r.conn = t.conn => r = t
      /\ ~ t.alone => t.conn \in overtaken
  BY <1>1, HolderKnown
<1>3. t.alone => Known(t.conn, t.meta)'
  BY <1>2, KnownOther
<1> QED
  BY <1>2, <1>3

LEMMA SoleTask ==
    ASSUME TypeOK, Sole, NEW t \in tasks, OtherStep(t)
    PROVE  Sole'
<1>0. Other
  BY DEF Other
<1>1. CASE FetchFails(t)
  <2>1. PICK s \in Task : tasks' = (tasks \ {t}) \cup {s} /\ s.at = "failed"
    BY <1>1, MoveTo DEF FetchFails
  <2>2. Holding' \subseteq Holding /\ overtaken' = overtaken
    BY <1>1, <2>1 DEF Holding, FetchFails, cacheVars
  <2> QED
    BY <1>0, <2>2, SoleQuiet
<1>2. CASE StoreDisk(t)
  <2>1. PICK s \in Task : tasks' = (tasks \ {t}) \cup {s} /\ s.at = "report"
    BY <1>2, MoveTo DEF StoreDisk
  <2>2. Holding' = Holding \ {t} /\ t \in Holding
    BY <1>2, <2>1 DEF Holding, StoreDisk
  <2>3. overtaken' = overtaken \/ (t.alone /\ overtaken' = overtaken \ {t.conn})
    BY <1>2 DEF StoreDisk
  <2>4. t.alone => \A r \in Holding : r.conn = t.conn => r = t
    BY <2>2, HolderKnown
  <2>5. \A r \in Holding' : r.conn \in overtaken => r.conn \in overtaken'
    BY <2>2, <2>3, <2>4
  <2> QED
    BY <1>0, <2>2, <2>5, SoleQuiet
<1>3. CASE StoreFails(t)
  <2>1. PICK s \in Task : tasks' = (tasks \ {t}) \cup {s} /\ s.at = "report"
    BY <1>3, MoveTo DEF StoreFails
  <2>2. Holding' \subseteq Holding /\ overtaken \subseteq overtaken'
    BY <1>3, <2>1 DEF Holding, StoreFails
  <2> QED
    BY <1>0, <2>2, SoleQuiet
<1>4. CASE Report(t)
  <2>1. Holding' \subseteq Holding /\ overtaken' = overtaken
    BY <1>4 DEF Holding, Report, cacheVars
  <2> QED
    BY <1>0, <2>1, SoleQuiet
<1>5. CASE StoreMemory(t)
  <2>1. PICK s \in Task : /\ tasks' = (tasks \ {t}) \cup {s}
                          /\ s.conn = t.conn /\ s.meta = t.meta /\ s.alone = t.alone
                          /\ s.at = "disk"
    BY <1>5, MoveTo DEF StoreMemory
  <2>2. t \in Holding /\ Holding' = (Holding \ {t}) \cup {s} /\ overtaken' = overtaken
    BY <1>5, <2>1 DEF Holding, StoreMemory
  <2>3. ASSUME NEW u \in Holding'
        PROVE  /\ u.alone => Known(u.conn, u.meta)'
                             /\ \A r \in Holding' : r.conn = u.conn => r = u
               /\ ~ u.alone => u.conn \in overtaken'
    <3>1. PICK w \in Holding : /\ w.conn = u.conn /\ w.meta = u.meta /\ w.alone = u.alone
                               /\ u = IF w = t THEN s ELSE w
      BY <2>1, <2>2
    <3>2. /\ w.conn \in Conns /\ w.meta \in Nat
          /\ w.alone => Known(w.conn, w.meta)
          /\ w.alone => \A r \in Holding : r.conn = w.conn => r = w
          /\ ~ w.alone => w.conn \in overtaken
      BY HolderKnown
    <3>3. w.alone => Known(w.conn, w.meta)'
      BY <1>0, <3>2, KnownOther
    <3>4. w.alone => \A r \in Holding' : r.conn = u.conn => r = u
      BY <2>1, <2>2, <3>1, <3>2
    <3>5. u.alone => Known(u.conn, u.meta)'
      <4>1. PICK d, m : d = w.conn /\ m = w.meta
        OBVIOUS
      <4>2. w.alone => Known(d, m)'
        BY <3>3, <4>1
      <4> QED
        BY <3>1, <4>1, <4>2
    <3> QED
      BY <2>2, <3>1, <3>2, <3>4, <3>5
  <2> QED
    BY <2>3 DEF Sole
<1> QED
  BY <1>1, <1>2, <1>3, <1>4, <1>5 DEF OtherStep

LEMMA SoleFetched ==
    ASSUME TypeOK, Sole, Grown, NEW t \in tasks, Fetched(t)
    PROVE  Sole'
<1>1. PICK got \in Task : FetchedAs(t, got)
  BY FetchedTasks
<1>2. t \in Task /\ t.conn \in Conns /\ server' = server
  BY TaskFields DEF TypeOK, Fetched
<1>3. PICK n \in Nat : n = server'[t.conn] /\ Known(t.conn, n)'
  <2>1. [Next]_vars
    BY DEF Next, TaskStep
  <2> QED
    BY <1>2, <2>1, GrownNext
<1>4. got.conn = t.conn /\ got.meta = n
  BY <1>1, <1>2, <1>3 DEF FetchedAs
<1>5. ASSUME NEW u \in Holding', u = got
      PROVE  /\ u.alone => Known(u.conn, u.meta)'
                           /\ \A r \in Holding' : r.conn = u.conn => r = u
             /\ ~ u.alone => u.conn \in overtaken'
  <2>1. Known(u.conn, u.meta)'
    <3>1. PICK d, m : d = t.conn /\ m = u.meta
      OBVIOUS
    <3>2. Known(d, m)' /\ d = u.conn
      BY <1>3, <1>4, <1>5, <3>1
    <3> QED
      BY <3>1, <3>2
  <2>2. u.alone => \A r \in Holding' : r.conn = u.conn => r = u
    BY <1>1, <1>5 DEF FetchedAs, Made, Holding
  <2>3. ~ u.alone => u.conn \in overtaken'
    BY <1>1, <1>4, <1>5 DEF FetchedAs
  <2> QED
    BY <2>1, <2>2, <2>3
<1>6. ASSUME NEW u \in Holding', u \in tasks, u.conn # t.conn
      PROVE  /\ u.alone => Known(u.conn, u.meta)'
                           /\ \A r \in Holding' : r.conn = u.conn => r = u
             /\ ~ u.alone => u.conn \in overtaken'
  <2>1. u \in Holding
    BY <1>6 DEF Holding
  <2>2. /\ u.conn \in Conns /\ u.meta \in Nat
        /\ u.alone => Known(u.conn, u.meta)
        /\ u.alone => \A r \in Holding : r.conn = u.conn => r = u
        /\ ~ u.alone => u.conn \in overtaken
    BY <2>1, HolderKnown
  <2>3. u.alone => Known(u.conn, u.meta)'
    BY <1>6, <2>2, KnownFetched
  <2>4. \A r \in Holding' : r.conn = u.conn => r \in Holding
    BY <1>1, <1>4, <1>6 DEF FetchedAs, Made, Holding
  <2>5. overtaken \subseteq overtaken'
    BY <1>1 DEF FetchedAs
  <2> QED
    BY <2>2, <2>3, <2>4, <2>5
<1>7. ASSUME NEW u \in Holding', NEW r \in tasks, r.conn = t.conn, Made(r, u)
      PROVE  ~ u.alone /\ u.conn \in overtaken'
  BY <1>1, <1>7 DEF FetchedAs, Made
<1>8. \A u \in Holding' : \/ u = got
                          \/ u \in tasks /\ u.conn # t.conn
                          \/ \E r \in tasks : r.conn = t.conn /\ Made(r, u)
  BY <1>1 DEF FetchedAs, Holding
<1> QED
  BY <1>5, <1>6, <1>7, <1>8 DEF Sole

LEMMA SoleNext == ASSUME TypeOK, Sole, Grown, [Next]_vars PROVE Sole'
<1>1. ASSUME NEW c \in Conns, Connect(c) PROVE Sole'
  <2>1. Holding' \subseteq Holding /\ overtaken' = overtaken /\ Other
    BY <1>1 DEF Holding, Connect, cacheVars, Other
  <2> QED
    BY <2>1, SoleQuiet
<1>2. ASSUME NEW c \in Conns,
             Migrate(c) \/ ConnectFails(c) \/ Disconnect(c) \/ Remove(c) \/ LoadRow(c)
      PROVE  Sole'
  <2>1. tasks' = tasks /\ overtaken' = overtaken /\ Other
    BY <1>2 DEF Migrate, ConnectFails, Disconnect, Remove, LoadRow, cacheVars, Other
  <2> QED
    BY <2>1, SoleQuiet DEF Holding
<1>3. ASSUME LoadInsert \/ HandleEvent \/ RunClosure \/ UNCHANGED vars PROVE Sole'
  <2>1. tasks' = tasks /\ overtaken \subseteq overtaken' /\ Other
    BY <1>3 DEF LoadInsert, HandleEvent, RunClosure, vars, cacheVars, Other
  <2> QED
    BY <2>1, SoleQuiet DEF Holding
<1>4. ASSUME Restart PROVE Sole'
  BY <1>4 DEF Restart, Sole, Holding
<1> QED
  BY <1>1, <1>2, <1>3, <1>4, SoleTask, SoleFetched, Steps DEF Other

(* A row is loaded only where memory and disk disagree: overtaken.         *)
LEMMA LoadAccountedNext ==
    ASSUME TypeOK, Fetches, LoadAccounted, Settled, [Next]_vars
    PROVE  LoadAccounted'
<1>1. ASSUME NEW c \in Conns, LoadRow(c) PROVE LoadAccounted'
  <2>1. loading' = [conn |-> c, row |-> disk[c]] /\ overtaken' = overtaken
        /\ memory[c] = 0 /\ disk[c] # 0
    BY <1>1 DEF LoadRow
  <2>2. c \in overtaken
    <3>1. SUFFICES ASSUME c \notin overtaken PROVE FALSE
      OBVIOUS
    <3>2. PICK m \in Version : Agreed(c, m)
      BY <3>1 DEF Settled
    <3>3. \A t \in tasks : t.conn = c => t.at # "disk"
      BY <2>1, <3>2 DEF Agreed, Fetches, Told
    <3> QED
      BY <2>1, <3>2, <3>3 DEF Agreed
  <2> QED
    BY <2>1, <2>2 DEF LoadAccounted
<1>2. ASSUME loading' = loading,
             \A c \in overtaken : c \in overtaken' \/ loading.conn # c
      PROVE  LoadAccounted'
  BY <1>2 DEF LoadAccounted, LoopIdle
<1>3. LoadInsert \/ Restart => LoadAccounted'
  BY DEF LoadInsert, Restart, LoadAccounted, LoopIdle
<1>4. ASSUME NEW c \in Conns,
             Migrate(c) \/ Connect(c) \/ ConnectFails(c) \/ Disconnect(c) \/ Remove(c)
      PROVE  LoadAccounted'
  BY <1>2, <1>4 DEF Migrate, Connect, ConnectFails, Disconnect, Remove, cacheVars
<1>5. HandleEvent \/ RunClosure \/ UNCHANGED vars => LoadAccounted'
  BY <1>2 DEF HandleEvent, RunClosure, vars, cacheVars
<1>6. ASSUME NEW t \in tasks, TaskStep(t) PROVE LoadAccounted'
  <2>1. CASE Fetched(t)
    BY <1>2, <2>1 DEF Fetched
  <2>2. CASE StoreDisk(t)
    BY <1>2, <2>2 DEF StoreDisk
  <2>3. CASE FetchFails(t) \/ StoreMemory(t) \/ StoreFails(t) \/ Report(t)
    BY <1>2, <2>3 DEF FetchFails, StoreMemory, StoreFails, Report, cacheVars
  <2> QED
    BY <1>6, <2>1, <2>2, <2>3 DEF TaskStep
<1> QED
  BY <1>1, <1>3, <1>4, <1>5, <1>6 DEF Next

(* What settles the entry of a connection is the write of a holder on its  *)
(* own; it then holds what that task does.                                 *)
LEMMA SettledTask ==
    ASSUME TypeOK, Sole, LoadAccounted, NEW c \in Conns \ overtaken', NEW m \in Version,
           NEW t \in tasks, TaskStep(t), c \notin overtaken => Agreed(c, m),
           c \in overtaken => StoreDisk(t) /\ t.conn = c
    PROVE  \E n \in Version : Agreed(c, n)'
<1>0. [Next]_vars /\ t \in Task /\ t.conn \in Conns /\ t.meta \in Version /\ m \in Nat
  BY TaskFields DEF Next, TypeOK, Version
<1>1. CASE StoreDisk(t) /\ t.conn = c
  <2>1. t \in Holding
    BY <1>1 DEF StoreDisk, Holding
  <2>2. t.alone /\ memory[c] = t.meta
    BY <1>1, <2>1, HolderKnown DEF StoreDisk, Agreed
  <2>3. Known(c, t.meta) /\ \A r \in Holding : r.conn = c => r = t
    BY <1>1, <2>1, <2>2, HolderKnown
  <2>4. PICK n \in Version : n = t.meta
    BY <1>0
  <2>5. Known(c, n)'
    <3>1. Other
      BY <1>1 DEF Other, OtherStep
    <3> QED
      BY <2>3, <2>4, <3>1, KnownOther DEF Version
  <2>6. PICK s \in Task : tasks' = (tasks \ {t}) \cup {s} /\ s.at = "report"
    BY <1>1, MoveTo DEF StoreDisk
  <2>7. \A u \in tasks' : u.conn = c => u.at # "disk"
    BY <2>3, <2>6 DEF Holding
  <2>8. memory'[c] = n /\ disk'[c] = n
    BY <1>1, <2>2, <2>4 DEF StoreDisk, TypeOK
  <2> QED
    BY <2>5, <2>7, <2>8 DEF Agreed, Known
<1>2. CASE StoreMemory(t) /\ t.conn = c
  <2>0. t \in Holding /\ c \notin overtaken
    BY <1>2 DEF StoreMemory, StoreDisk, Holding
  <2>1. Known(c, t.meta) /\ \A r \in Holding : r.conn = c => r = t
    BY <1>2, <2>0, HolderKnown
  <2>2. PICK n \in Version : n = t.meta
    BY <1>0
  <2>3. Known(c, n)'
    <3>1. Other
      BY <1>2 DEF Other, OtherStep
    <3> QED
      BY <2>1, <2>2, <3>1, KnownOther DEF Version
  <2>4. PICK s \in Task : /\ tasks' = (tasks \ {t}) \cup {s} /\ s.at = "disk"
                          /\ s.conn = t.conn /\ s.meta = t.meta
    BY <1>2, MoveTo DEF StoreMemory
  <2>5. \A u \in tasks' : u.conn = c /\ u.at = "disk" => u.meta = n
    BY <2>1, <2>2, <2>4 DEF Holding
  <2>6. memory'[c] = n
    BY <1>2, <2>2 DEF StoreMemory, TypeOK
  <2>7. ~ \A u \in tasks' : u.conn = c => u.at # "disk"
    BY <1>2, <2>4
  <2> QED
    BY <2>3, <2>5, <2>6, <2>7 DEF Agreed, Known
<1>3. ASSUME ~ (StoreDisk(t) /\ t.conn = c), ~ (StoreMemory(t) /\ t.conn = c)
      PROVE  Agreed(c, m)'
  <2>1. c \notin overtaken /\ Agreed(c, m)
    BY <1>3
  <2>2. ~ (StoreFails(t) /\ t.conn = c)
    BY DEF StoreFails
  <2>3. /\ memory'[c] = memory[c] /\ disk'[c] = disk[c]
        /\ \A u \in tasks' : u.conn = c /\ u.at \in {"disk", "report"} => u \in tasks
        /\ \A u \in tasks : u.conn = c /\ u.at = "disk" => u \in tasks'
    <3>1. CASE Fetched(t)
      <4>1. PICK got \in Task : FetchedAs(t, got)
        BY <3>1, FetchedTasks
      <4>2. t.conn = c => \A r \in Holding : r.conn # c
        BY <4>1 DEF FetchedAs
      <4> QED
        BY <3>1, <4>1, <4>2, ZenonT(60) DEF Fetched, FetchedAs, Made, Holding
    <3>2. CASE FetchFails(t)
      <4>1. PICK s \in Task : tasks' = (tasks \ {t}) \cup {s} /\ s.at = "failed"
        BY <3>2, MoveTo DEF FetchFails
      <4> QED
        BY <3>2, <4>1 DEF FetchFails, cacheVars
    <3>3. CASE StoreMemory(t)
      <4>1. PICK s \in Task : tasks' = (tasks \ {t}) \cup {s} /\ s.conn = t.conn
        BY <3>3, MoveTo DEF StoreMemory
      <4> QED
        BY <1>0, <1>3, <3>3, <4>1 DEF StoreMemory, TypeOK
    <3>4. CASE StoreDisk(t)
      <4>1. PICK s \in Task : tasks' = (tasks \ {t}) \cup {s} /\ s.conn = t.conn
        BY <3>4, MoveTo DEF StoreDisk
      <4> QED
        BY <1>0, <1>3, <3>4, <4>1 DEF StoreDisk, TypeOK
    <3>5. CASE StoreFails(t)
      <4>1. PICK s \in Task : tasks' = (tasks \ {t}) \cup {s} /\ s.conn = t.conn
        BY <3>5, MoveTo DEF StoreFails
      <4> QED
        BY <2>2, <3>5, <4>1 DEF StoreFails
    <3>6. CASE Report(t)
      BY <3>6 DEF Report, cacheVars
    <3> QED
      BY <3>1, <3>2, <3>3, <3>4, <3>5, <3>6 DEF TaskStep
  <2>4. Heard(c, m)'
    BY <1>0, <2>1, <2>3, HeardKept DEF Agreed
  <2> QED
    BY <2>1, <2>3, <2>4 DEF Agreed
<1> QED
  BY <1>1, <1>2, <1>3

LEMMA SettledQuiet ==
    ASSUME TypeOK, Settled, [Next]_vars, UNCHANGED <<memory, disk>>, overtaken \subseteq overtaken',
           \A u \in tasks' : u.at # "fetch" => u \in tasks,
           tasks \subseteq tasks'
    PROVE  Settled'
<1> SUFFICES ASSUME NEW c \in Conns \ overtaken' PROVE \E m \in Version : Agreed(c, m)'
    BY DEF Settled, Version
<1>1. PICK m \in Version : Agreed(c, m)
  BY DEF Settled
<1>2. Heard(c, m)'
  BY <1>1, HeardKept DEF Agreed, Version
<1> QED
  BY <1>1, <1>2 DEF Agreed

LEMMA SettledNext ==
    ASSUME TypeOK, Sole, LoadAccounted, Settled, [Next]_vars
    PROVE  Settled'
<1>1. ASSUME NEW t \in tasks, TaskStep(t) PROVE Settled'
  <2> SUFFICES ASSUME NEW c \in Conns \ overtaken' PROVE \E m \in Version : Agreed(c, m)'
      BY DEF Settled, Version
  <2>1. PICK m \in Version : c \notin overtaken => Agreed(c, m)
    <3>1. CASE c \in overtaken
      BY <3>1, BoundsNat DEF Version
    <3>2. CASE c \notin overtaken
      BY <3>2 DEF Settled
    <3> QED
      BY <3>1, <3>2
  <2>2. c \in overtaken => StoreDisk(t) /\ t.conn = c
    BY <1>1 DEF TaskStep, Fetched, FetchFails, StoreMemory, StoreDisk, StoreFails, Report,
                cacheVars
  <2> QED
    BY <1>1, <2>1, <2>2, SettledTask
<1>2. ASSUME NEW c \in Conns, Connect(c) PROVE Settled'
  BY <1>2, SettledQuiet DEF Connect, cacheVars
<1>3. ASSUME NEW c \in Conns,
             Migrate(c) \/ ConnectFails(c) \/ Disconnect(c) \/ Remove(c) \/ LoadRow(c)
      PROVE  Settled'
  <2>1. UNCHANGED <<memory, disk, overtaken, tasks>>
    BY <1>3 DEF Migrate, ConnectFails, Disconnect, Remove, LoadRow, cacheVars
  <2> QED
    BY <2>1, SettledQuiet
<1>4. HandleEvent \/ RunClosure \/ UNCHANGED vars => Settled'
  <2>1. HandleEvent \/ RunClosure \/ UNCHANGED vars
        => UNCHANGED <<memory, disk, overtaken, tasks>>
    BY DEF HandleEvent, RunClosure, vars, cacheVars
  <2> QED
    BY <2>1, SettledQuiet
<1>5. CASE LoadInsert
  <2> SUFFICES ASSUME NEW c \in Conns \ overtaken' PROVE \E m \in Version : Agreed(c, m)'
      BY DEF Settled, Version
  <2>1. c \notin overtaken /\ c # loading.conn
    BY <1>5 DEF LoadInsert, LoadAccounted
  <2>2. PICK m \in Version : Agreed(c, m)
    BY <2>1 DEF Settled
  <2>3. UNCHANGED <<disk, tasks>> /\ memory'[c] = memory[c]
    BY <1>5, <2>1 DEF LoadInsert, TypeOK
  <2>4. Heard(c, m)'
    BY <2>2, <2>3, HeardKept DEF Agreed, Version
  <2> QED
    BY <2>2, <2>3, <2>4 DEF Agreed
<1>6. CASE Restart
  <2> SUFFICES ASSUME NEW c \in Conns \ overtaken' PROVE \E m \in Version : Agreed(c, m)'
      BY DEF Settled, Version
  <2>1. PICK m \in Version : m = disk[c]
    BY DEF TypeOK
  <2>2. memory'[c] = m /\ disk'[c] = m
    BY <1>6, <2>1 DEF Restart
  <2>3. sidebar'[c] = 0 /\ tasks' = {} /\ events' = <<>>
    BY <1>6 DEF Restart
  <2> QED
    BY <2>2, <2>3 DEF Agreed, Heard, Version
<1> QED
  BY <1>1, <1>2, <1>3, <1>4, <1>5, <1>6 DEF Next

-----------------------------------------------------------------------------

(* The inductive invariant holds: nobody knows a schema the server never   *)
(* had, a holder on its own has the newest one, and what is not overtaken  *)
(* is settled (cache.rs, handle_connect's task).                           *)
THEOREM Inductive == Spec => []IInv
<1>1. Init => IInv
  BY InitInv
<1>2. IInv /\ [Next]_vars => IInv'
  <2> SUFFICES ASSUME IInv, [Next]_vars PROVE IInv'
      OBVIOUS
  <2>0. TypeOK /\ Fetches /\ Grown /\ Sole /\ LoadAccounted /\ Settled
    BY DEF IInv
  <2>1. TypeOK'
    BY <2>0, TypeNext
  <2>2. Fetches'
    BY <2>0, FetchesNext
  <2>3. Grown'
    BY <2>0, GrownNext DEF Grown, Known, Heard
  <2>4. Sole'
    BY <2>0, SoleNext
  <2>5. LoadAccounted'
    BY <2>0, LoadAccountedNext
  <2>6. Settled'
    BY <2>0, SettledNext
  <2> QED
    BY <2>1, <2>2, <2>3, <2>4, <2>5, <2>6 DEF IInv
<1> QED
  BY <1>1, <1>2, PTL DEF Spec

(* The sidebar never shows a schema newer than the completion's, unless an *)
(* overlap of fetches and loads is on record.                              *)
THEOREM CacheKeepsUp == Spec => []CacheNotBehindSidebar
<1>1. IInv => CacheNotBehindSidebar
  BY DEF IInv, Settled, Agreed, Heard, CacheNotBehindSidebar
<1> QED
  BY <1>1, Inductive, PTL

(* Between the two writes of a task, and after a failed one, memory and    *)
(* disk may differ; at any other time they agree, over any number of       *)
(* restarts.                                                               *)
THEOREM DiskAgrees == Spec => []DiskFollowsMemory
<1>1. IInv => DiskFollowsMemory
  BY DEF IInv, Settled, Agreed, DiskFollowsMemory
<1> QED
  BY <1>1, Inductive, PTL
=============================================================================
