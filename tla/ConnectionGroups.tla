-------------------------- MODULE ConnectionGroups --------------------------
(***************************************************************************)
(* The folders of the sidebar: the commands CreateGroup, RenameGroup,      *)
(* SetGroupColor, DeleteGroup, MoveConnectionToGroup, UndoGroupAction and  *)
(* RedoGroupAction of AppController, its GroupUndoStack, the tables groups *)
(* and connections, and the lists the sidebar is built from.  Connect and  *)
(* RemoveConnection are here for what they do to these tables.             *)
(*                                                                         *)
(* A handler only touches tables and the stack, which the controller alone *)
(* writes, and then sends one event: it is one step, taken when the event  *)
(* channel has room.  Commands arrive in any order, events in theirs.      *)
(*                                                                         *)
(* Whether a group is expanded, and the order of the lists, are left out.  *)
(***************************************************************************)
EXTENDS Naturals, Sequences, FiniteSets

CONSTANTS
    Conns, GroupIds, Names, Colors,
    NoConn, NoGroup,
    DefaultName,  \* group.default_name
    DefaultColor, \* "#6c7086"
    UndoMax,      \* ACTION_UNDO_MAX
    EventCap,     \* CMD_CHANNEL_CAPACITY of the event channel
    MaxCommands,  \* bound on the commands the user gives
    MaxInFlight,  \* bound on those not yet handled
    MaxMishaps    \* bound on storage errors and restarts

ASSUME GroupSets ==
    /\ NoConn \notin Conns /\ NoGroup \notin GroupIds
    /\ DefaultName \in Names /\ DefaultColor \in Colors
ASSUME GroupBounds ==
    /\ UndoMax \in Nat \ {0} /\ EventCap \in Nat \ {0}
    /\ MaxCommands \in Nat /\ MaxInFlight \in Nat \ {0}
    /\ MaxMishaps \in Nat

VARIABLES
    group,    \* the table groups
    member,   \* the column group_id of the table connections
    listed,   \* the connections that have a row there
    undo, redo, \* GroupUndoStack
    inbox,    \* commands on their way to the controller
    events,   \* the event channel, oldest first
    view,     \* SidebarUiState: groups and config_connections
    minted,   \* the group ids already given out
    sent, mishaps, \* what the bounds count
    past, future, intact \* history: the states the stack stands for

tables   == <<group, member, listed>>
stack    == <<undo, redo>>
history  == <<past, future, intact>>
counters == <<minted, sent, mishaps>>
vars == <<tables, stack, inbox, events, view, counters, history>>

RowOf(n, c) == [exists |-> TRUE, name |-> n, color |-> c]
NoRow == [exists |-> FALSE, name |-> DefaultName, color |-> DefaultColor]
Row == {RowOf(n, c) : n \in Names, c \in Colors} \cup {NoRow}

(* The two tables, as far as a group command can change them. *)
State == [group : [GroupIds -> Row], member : [Conns -> GroupIds \cup {NoGroup}]]
StateOf(g, m) == [group |-> g, member |-> m]
present == StateOf(group, member)

OpKinds == {"create", "delete", "rename", "color", "move", "restore"}
Op == [kind : OpKinds, id : GroupIds \cup {NoGroup}, conn : Conns \cup {NoConn},
       row : Row, members : SUBSET Conns]
OpOf(k, i, c, r, m) == [kind |-> k, id |-> i, conn |-> c, row |-> r, members |-> m]
Entry == [reverse : Op, forward : Op]

CommandKinds == {"create", "delete", "rename", "color", "move", "undo", "redo",
                 "connect", "remove"}
Command == [kind : CommandKinds, id : GroupIds \cup {NoGroup}, conn : Conns \cup {NoConn},
            name : Names, color : Colors]
Cmd(k, i, c, n, o) == [kind |-> k, id |-> i, conn |-> c, name |-> n, color |-> o]

View  == [group : [GroupIds -> Row], member : [Conns -> GroupIds \cup {NoGroup}],
          listed : SUBSET Conns]
ViewOf(g, m, l) == [group |-> g, member |-> m, listed |-> l]
Event == [type : {"groups", "connected", "removed"}, conn : Conns \cup {NoConn}, view : View]

TypeOK ==
    /\ group \in [GroupIds -> Row] /\ member \in [Conns -> GroupIds \cup {NoGroup}]
    /\ listed \subseteq Conns
    /\ undo \in Seq(Entry) /\ redo \in Seq(Entry)
    /\ inbox \subseteq Command
    /\ events \in Seq(Event) /\ Len(events) <= EventCap
    /\ view \in View
    /\ minted \subseteq GroupIds /\ sent \in 0 .. MaxCommands /\ mishaps \in 0 .. MaxMishaps
    /\ past \in Seq(State) /\ future \in Seq(State) /\ intact \in BOOLEAN

-----------------------------------------------------------------------------
(* What the writes of a group command make of the tables, if they succeed. *)

Members(g) == {c \in listed : member[c] = g}

Put(s, g, row) == StateOf([s.group EXCEPT ![g] = row], s.member)

Joined(s, g, S) == StateOf(s.group, [c \in Conns |-> IF c \in S THEN g ELSE s.member[c]])

(* The members are ungrouped first. *)
Deleted(s, g) ==
    StateOf([s.group EXCEPT ![g] = NoRow],
            [c \in Conns |-> IF s.member[c] = g THEN NoGroup ELSE s.member[c]])

(* execute_group_op: what op makes of s, when the connections L have rows. *)
Effect(op, s, L, t) ==
    \/ op.kind = "create" /\ t = Put(s, op.id, op.row)
    \/ op.kind = "restore" /\ t = Joined(Put(s, op.id, op.row), op.id, op.members \cap L)
    \/ op.kind = "delete" /\ t = Deleted(s, op.id)
    \/ op.kind = "rename" /\ s.group[op.id].exists
         /\ t = Put(s, op.id, RowOf(op.row.name, s.group[op.id].color))
    \/ op.kind = "color" /\ s.group[op.id].exists
         /\ t = Put(s, op.id, RowOf(s.group[op.id].name, op.row.color))
    \/ op.kind \in {"rename", "color"} /\ ~s.group[op.id].exists /\ t = s
    \/ op.kind = "move" /\ t = Joined(s, op.id, {op.conn} \cap L)

NamedOp(k, g, n, c) == OpOf(k, g, NoConn, RowOf(n, c), {})
MoveOp(c, g)        == OpOf("move", g, c, NoRow, {})
DeleteOp(g)         == OpOf("delete", g, NoConn, NoRow, {})
(* Mutant: a group comes back without its members.                         *)
RestoreOpAlone(g, r, S) == OpOf("restore", g, NoConn, r, {})
RestoreOp(g, r, S)  == OpOf("restore", g, NoConn, r, S)

-----------------------------------------------------------------------------
(* The stack.                                                              *)

LastOf(s)  == s[Len(s)]
FrontOf(s) == SubSeq(s, 1, Len(s) - 1)
Capped(s)  == IF Len(s) > UndoMax THEN Tail(s) ELSE s

Become(s) == group' = s.group /\ member' = s.member

Apply(op) == \E t \in State : Effect(op, present, listed, t) /\ Become(t)

Undisturbed(p, f) ==
    /\ UNCHANGED intact
    /\ past' = (IF intact THEN p ELSE <<>>) /\ future' = (IF intact THEN f ELSE <<>>)

Disturbed == intact' = FALSE /\ past' = <<>> /\ future' = <<>>

Push(reverse, forward) ==
    /\ undo' = Capped(Append(undo, [reverse |-> reverse, forward |-> forward]))
    /\ redo' = <<>>
    /\ Undisturbed(Capped(Append(past, present)), <<>>)

PopUndo ==
    /\ undo # <<>>
    /\ undo' = FrontOf(undo) /\ redo' = Capped(Append(redo, LastOf(undo)))

PopRedo ==
    /\ redo # <<>>
    /\ redo' = FrontOf(redo) /\ undo' = Capped(Append(undo, LastOf(redo)))

-----------------------------------------------------------------------------
(* The controller.                                                         *)

Take(m, kind) == m \in inbox /\ m.kind = kind /\ inbox' = inbox \ {m}

StorageWorks == UNCHANGED mishaps
StorageFails == mishaps < MaxMishaps /\ mishaps' = mishaps + 1

Sent(type, c, v) ==
    /\ Len(events) < EventCap
    /\ events' = Append(events, [type |-> type, conn |-> c, view |-> v])

(* The two lists are read again for the event; a failed read is empty. *)
SendLists == Sent("groups", NoConn, ViewOf(group', member', listed))
SendShortLists ==
    \/ Sent("groups", NoConn, ViewOf([g \in GroupIds |-> NoRow], member', listed))
    \/ Sent("groups", NoConn, ViewOf(group', member', {}))

Init ==
    /\ group \in [GroupIds -> {NoRow, RowOf(DefaultName, DefaultColor)}]
    /\ listed \in SUBSET Conns
    /\ member \in [Conns -> GroupIds \cup {NoGroup}]
    /\ \A c \in Conns : member[c] # NoGroup => c \in listed /\ group[member[c]].exists
    /\ minted = {g \in GroupIds : group[g].exists}
    /\ undo = <<>> /\ redo = <<>> /\ inbox = {} /\ events = <<>>
    /\ view = ViewOf(group, member, listed)
    /\ sent = 0 /\ mishaps = 0
    /\ past = <<>> /\ future = <<>> /\ intact = TRUE

(* The program is closed, or crashes, and is started again. *)
Restart ==
    /\ mishaps < MaxMishaps /\ mishaps' = mishaps + 1
    /\ undo' = <<>> /\ redo' = <<>> /\ inbox' = {} /\ events' = <<>>
    /\ view' = ViewOf(group, member, listed)
    /\ past' = <<>> /\ future' = <<>> /\ intact' = TRUE
    /\ UNCHANGED <<tables, minted, sent>>

(* A command that ends without an effect and without an event. *)
Nothing == UNCHANGED <<tables, stack, events, history>>

(* The tables become t, the action is recorded, and the lists are sent. *)
Done(t, reverse, forward) ==
    /\ Become(t) /\ UNCHANGED listed
    /\ Push(reverse, forward)
    /\ \/ StorageWorks /\ SendLists
       \/ StorageFails /\ SendShortLists

HandleCreateGroup(m) ==
    /\ Take(m, "create")
    /\ \/ \E g \in GroupIds \ minted :
             LET row == RowOf(m.name, DefaultColor) IN
             /\ minted' = minted \cup {g}
             /\ Done(Put(present, g, row), DeleteOp(g), OpOf("create", g, NoConn, row, {}))
       \/ StorageFails /\ Nothing /\ UNCHANGED minted
    /\ UNCHANGED <<view, sent>>

HandleRenameGroup(m) ==
    /\ Take(m, "rename")
    /\ LET old == group[m.id] IN
         \/ /\ old.exists
            /\ Done(Put(present, m.id, RowOf(m.name, old.color)),
                    NamedOp("rename", m.id, old.name, DefaultColor),
                    NamedOp("rename", m.id, m.name, DefaultColor))
         \/ ~old.exists /\ StorageWorks /\ Nothing
         \/ StorageFails /\ Nothing
    /\ UNCHANGED <<minted, view, sent>>

HandleSetGroupColor(m) ==
    /\ Take(m, "color")
    /\ LET old == group[m.id] IN
         \/ /\ old.exists
            /\ Done(Put(present, m.id, RowOf(old.name, m.color)),
                    NamedOp("color", m.id, DefaultName, old.color),
                    NamedOp("color", m.id, DefaultName, m.color))
         \/ ~old.exists /\ StorageWorks /\ Nothing
         \/ StorageFails /\ Nothing
    /\ UNCHANGED <<minted, view, sent>>

(* The group moved to need not exist. *)
HandleMoveConnectionToGroup(m) ==
    /\ Take(m, "move")
    /\ \/ /\ m.conn \in listed
          /\ Done(Joined(present, m.id, {m.conn}), MoveOp(m.conn, member[m.conn]),
                  MoveOp(m.conn, m.id))
       \/ m.conn \notin listed /\ StorageWorks /\ Nothing
       \/ StorageFails /\ Nothing
    /\ UNCHANGED <<minted, view, sent>>

(* A deletion of which a call fails: the group is not found, and so nothing *)
(* recorded; its members S stay in what is gone, those that could not be   *)
(* written or all of them, unread and then not recorded either; or it is   *)
(* not deleted although its members have left it.                          *)
DeleteBadly(g) ==
    /\ StorageFails /\ Disturbed /\ UNCHANGED listed
    /\ \/ Become(Deleted(present, g)) /\ SendLists /\ UNCHANGED stack
       \/ \E S \in SUBSET Members(g), R \in {{}, Members(g)} :
             /\ R = {} => S = Members(g)
             /\ Become(Joined(Deleted(present, g), g, S)) /\ SendLists
             /\ undo' = IF group[g].exists
                        THEN Capped(Append(undo, [reverse |-> RestoreOp(g, group[g], R),
                                                  forward |-> DeleteOp(g)]))
                        ELSE undo
             /\ redo' = IF group[g].exists THEN <<>> ELSE redo
       \/ Become(Joined(present, NoGroup, Members(g))) /\ UNCHANGED <<stack, events>>

(* A group that is gone may have members: nothing is recorded then. *)
HandleDeleteGroup(m) ==
    /\ Take(m, "delete")
    /\ \/ /\ group[m.id].exists
          /\ Done(Deleted(present, m.id), RestoreOp(m.id, group[m.id], Members(m.id)),
                  DeleteOp(m.id))
       \/ /\ ~group[m.id].exists
          /\ Become(Deleted(present, m.id)) /\ UNCHANGED <<listed, stack>>
          /\ IF Members(m.id) = {} THEN UNCHANGED history ELSE Disturbed
          /\ StorageWorks /\ SendLists
       \/ DeleteBadly(m.id)
    /\ UNCHANGED <<minted, view, sent>>

(* The stack has moved on before the operation is executed: if a write of  *)
(* it fails, or it finds nothing because a read did, or it stops half-way, *)
(* the stack knows nothing of it.                                          *)
ExecuteBadly(op) ==
    /\ StorageFails /\ Disturbed /\ UNCHANGED listed
    /\ \/ op.kind # "delete" /\ UNCHANGED <<group, member, events>>
       \/ op.kind \in {"rename", "color", "move"} /\ UNCHANGED <<group, member>> /\ SendLists
       \/ op.kind = "delete"
          /\ \/ \E S \in SUBSET Members(op.id) :
                  Become(Joined(Deleted(present, op.id), op.id, S)) /\ SendLists
             \/ Become(Joined(present, NoGroup, Members(op.id))) /\ UNCHANGED events
       \/ op.kind = "restore"
          /\ \E S \in SUBSET op.members : Apply(RestoreOp(op.id, op.row, S)) /\ SendLists
       \/ Apply(op) /\ SendShortLists

Execute(op, p, f) ==
    \/ /\ Apply(op) /\ UNCHANGED listed
       /\ StorageWorks /\ SendLists
       /\ Undisturbed(p, f)
    \/ ExecuteBadly(op)

HandleUndoGroupAction(m) ==
    /\ Take(m, "undo")
    /\ \/ PopUndo /\ Execute(LastOf(undo).reverse, FrontOf(past), Append(future, present))
       \/ undo = <<>> /\ Nothing /\ StorageWorks
    /\ UNCHANGED <<minted, view, sent>>

HandleRedoGroupAction(m) ==
    /\ Take(m, "redo")
    /\ \/ PopRedo /\ Execute(LastOf(redo).forward, Append(past, present), FrontOf(future))
       \/ redo = <<>> /\ Nothing /\ StorageWorks
    /\ UNCHANGED <<minted, view, sent>>

(* db_to_config_conn knows no group: the row is written without one.      *)
Written(c) == member' = [member EXCEPT ![c] = NoGroup] /\ listed' = listed \cup {c}

HandleConnect(m) ==
    /\ Take(m, "connect")
    /\ UNCHANGED <<group, stack, view, minted, sent>>
    /\ \/ /\ Written(m.conn)
          /\ \/ StorageWorks /\ Sent("connected", m.conn, ViewOf(group, member', listed'))
             \/ StorageFails /\ Sent("connected", m.conn, ViewOf(group, member', {}))
          /\ IF member[m.conn] = NoGroup THEN UNCHANGED history ELSE Disturbed
       \/ /\ StorageFails /\ UNCHANGED <<member, listed, history>>
          /\ Sent("connected", m.conn, ViewOf(group, member, listed))
       \/ StorageWorks /\ UNCHANGED <<member, listed, events, history>>

HandleRemoveConnection(m) ==
    /\ Take(m, "remove")
    /\ \/ /\ StorageWorks /\ Disturbed
          /\ member' = [member EXCEPT ![m.conn] = NoGroup] /\ listed' = listed \ {m.conn}
       \/ StorageFails /\ UNCHANGED <<member, listed, history>>
    /\ Sent("removed", m.conn, view)
    /\ UNCHANGED <<group, stack, view, minted, sent>>

-----------------------------------------------------------------------------
(* The sidebar.                                                            *)

UiTake(type) == events # <<>> /\ Head(events).type = type /\ events' = Tail(events)

UiUnchanged == UNCHANGED <<tables, stack, inbox, counters, history>>

UiGroups == UiTake("groups") /\ view' = Head(events).view /\ UiUnchanged

(* Mutant: a connection is added and the list not taken.                   *)
UiConnectedAdded ==
    /\ UiTake("connected")
    /\ view' = ViewOf(view.group, view.member, view.listed \cup {Head(events).conn})
    /\ UiUnchanged

UiConnected ==
    /\ UiTake("connected")
    /\ view' = ViewOf(view.group, Head(events).view.member, Head(events).view.listed)
    /\ UiUnchanged

UiRemoved ==
    /\ UiTake("removed")
    /\ view' = ViewOf(view.group, [view.member EXCEPT ![Head(events).conn] = NoGroup],
                      view.listed \ {Head(events).conn})
    /\ UiUnchanged

(* A connection is shown under its group, or below the groups if it is in  *)
(* none: one whose group is not in the list is not shown at all.           *)
Shown(c) == c \in view.listed /\ (view.member[c] = NoGroup \/ view.group[view.member[c]].exists)
ShownGroups == {g \in GroupIds : view.group[g].exists}

Commands ==
    {Cmd("create", NoGroup, NoConn, DefaultName, DefaultColor),
     Cmd("undo", NoGroup, NoConn, DefaultName, DefaultColor),
     Cmd("redo", NoGroup, NoConn, DefaultName, DefaultColor)}
    \cup {Cmd("delete", g, NoConn, DefaultName, DefaultColor) : g \in ShownGroups}
    \cup {Cmd("rename", g, NoConn, n, DefaultColor) : g \in ShownGroups, n \in Names}
    \cup {Cmd("color", g, NoConn, DefaultName, o) : g \in ShownGroups, o \in Colors}
    \cup {Cmd("move", g, c, DefaultName, DefaultColor) :
             g \in ShownGroups \cup {NoGroup}, c \in {d \in Conns : Shown(d)}}
    \cup {Cmd("remove", NoGroup, c, DefaultName, DefaultColor) : c \in {d \in Conns : Shown(d)}}
    \cup {Cmd("connect", NoGroup, c, DefaultName, DefaultColor) : c \in Conns}

UserSends ==
    /\ sent < MaxCommands /\ sent' = sent + 1
    /\ Cardinality(inbox) < MaxInFlight
    /\ \E m \in Commands : inbox' = inbox \cup {m}
    /\ UNCHANGED <<tables, stack, events, view, minted, mishaps, history>>

-----------------------------------------------------------------------------
Controller ==
    \E m \in inbox :
        \/ HandleCreateGroup(m) \/ HandleRenameGroup(m) \/ HandleSetGroupColor(m)
        \/ HandleMoveConnectionToGroup(m) \/ HandleDeleteGroup(m)
        \/ HandleUndoGroupAction(m) \/ HandleRedoGroupAction(m)
        \/ HandleConnect(m) \/ HandleRemoveConnection(m)

Next == Controller \/ UiGroups \/ UiConnected \/ UiRemoved \/ UserSends \/ Restart

Spec == Init /\ [][Next]_vars

-----------------------------------------------------------------------------
(* Properties.                                                             *)

(* What is undone can be redone: moving an entry from one side of the      *)
(* stack to the other never makes either drop an older one.                *)
StackBounded == Len(undo) + Len(redo) <= UndoMax

(* Undo and redo walk one line of states, through renaming, moving and     *)
(* deleting in any order: each brings back exactly the tables it left,     *)
(* members included, as long as only group commands have changed them.     *)
History == INSTANCE UndoHistory WITH Max <- UndoMax
UndoExact == History!Spec

(* When every command is handled and every event taken, the sidebar lists *)
(* exactly what the tables hold (without storage errors).                  *)
SidebarFresh ==
    inbox = {} /\ events = <<>> /\ mishaps = 0 => view = ViewOf(group, member, listed)
=============================================================================
