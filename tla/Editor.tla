------------------------------- MODULE Editor -------------------------------
(***************************************************************************)
(* The tabs of the workspace, the text of the editor, its undo and redo,   *)
(* the formatter, and the session that brings the tabs back.               *)
(*                                                                         *)
(* There is one text widget for all tabs: switching saves its text in the  *)
(* tab that is left and loads that of the tab that is entered.  Undo is    *)
(* per tab, by snapshots: a program that replaces the text pushes one, and *)
(* a burst of typing pushes the text it began with when it pauses.  All of *)
(* it runs on the UI thread; the timer of the burst, the answer of the     *)
(* formatter, the close of the window and the end of the process come      *)
(* between two callbacks of the user.  A text is a value that is only      *)
(* compared, and a table view has no text.                                 *)
(***************************************************************************)
EXTENDS Naturals, Sequences, FiniteSets, SequencesExt

CONSTANTS
    Texts,      \* contents of the editor
    Empty,      \* the empty text
    Tables,     \* tables that can be opened in a table view
    None,       \* no value
    UndoMax,    \* UNDO_MAX, the cap on each side of an undo stack
    MaxTabs,    \* bound on the tabs ever created
    MaxStarts,  \* bound on the starts in a behaviour
    MaxEdits    \* bound on the edits in a behaviour

ASSUME EmptyIsText == Empty \in Texts
ASSUME NoneIsNone == None \notin Texts \cup Tables
ASSUME BoundsOk == UndoMax \in Nat \ {0} /\ MaxTabs \in Nat \ {0}
                  /\ MaxStarts \in Nat /\ MaxEdits \in Nat

VARIABLES
    run,        \* the process: "up", "tabs" and "query" in the close handler, "down"
    tabs,       \* TabsState.tabs
    active,     \* TabsState.active_index, from 1
    fresh,      \* the next identifier of a tab
    stacks,     \* TabsState.undo_stacks; no entry is an empty one
    lastKnown,  \* TextUndoState.last_known
    burst,      \* TextUndoState.burst_start: the tab and the text, or None
    timer,      \* TextUndoState.debounce is armed
    uiText,     \* UiState.editor-text
    uiTab,      \* UiState.editor-active-tab-id
    uiSql,      \* UiState.active-tab-kind-sql
    format,     \* the tab and text of the format in flight, or None
    disk,       \* session_tabs: entries and active position, none at first
    lastQuery,  \* session_state['last_query']
    content,    \* the text the user last left in each tab
    seen,       \* the texts the editor has had under each tab
    goodbye,    \* the SQL tabs as the user saw them at the last save
    starts,     \* number of starts of the program so far
    edits       \* number of edits so far

tabVars   == <<tabs, active, fresh>>
undoVars  == <<stacks, lastKnown, burst, timer>>
uiVars    == <<uiText, uiTab, uiSql>>
diskVars  == <<disk, lastQuery, goodbye>>
ghostVars == <<content, seen>>
vars == <<run, starts, tabVars, undoVars, uiVars, format, diskVars, ghostVars, edits>>

Ids == 1 .. MaxTabs

Tab(id, kind, text, table) == [id |-> id, kind |-> kind, text |-> text, table |-> table]
SqlTab(id, text) == Tab(id, "sql", text, None)

Saved == [id : Ids, text : Texts]

TypeOK ==
    /\ run \in {"up", "tabs", "query", "down"}
    /\ tabs \in Seq([id : Ids, kind : {"sql", "table"}, text : Texts, table : Tables \cup {None}])
    /\ active \in DOMAIN tabs /\ fresh \in 1 .. MaxTabs + 1
    /\ \A i, j \in DOMAIN tabs : tabs[i].id = tabs[j].id => i = j
    /\ \E i \in DOMAIN tabs : tabs[i].kind = "sql"
    /\ stacks \in [Ids -> [undo : Seq(Texts), redo : Seq(Texts)]]
    /\ \A id \in Ids : Len(stacks[id].undo) <= UndoMax /\ Len(stacks[id].redo) <= UndoMax
    /\ lastKnown \in Texts /\ uiText \in Texts /\ uiTab \in Ids
    /\ burst \in [tab : Ids, text : Texts] \cup {None} /\ timer \in BOOLEAN /\ uiSql \in BOOLEAN
    /\ format \in [tab : Ids, text : Texts] \cup {None}
    /\ disk \in [active : Nat, entries : Seq(Saved)] /\ lastQuery \in Texts
    /\ content \in [Ids -> Texts] /\ seen \in [Ids -> SUBSET Texts]
    /\ starts \in 0 .. MaxStarts /\ edits \in 0 .. MaxEdits

-----------------------------------------------------------------------------
(* TextUndoStack.                                                          *)

NoStack == [undo |-> <<>>, redo |-> <<>>]

(* A full side loses its oldest entry.                                     *)
Capped(s) == IF Len(s) > UndoMax THEN Tail(s) ELSE s

(* push: what is on top already is not pushed again, and redo is kept.     *)
Push(st, text) ==
    IF st.undo # <<>> /\ Last(st.undo) = text
    THEN st
    ELSE [undo |-> Capped(Append(st.undo, text)), redo |-> <<>>]

(* undo and redo: the text of the editor goes to the other side, which is  *)
(* capped as well.                                                         *)
Undone(st, text) == [undo |-> Front(st.undo), redo |-> Capped(Append(st.redo, text))]
Redone(st, text) == [undo |-> Capped(Append(st.undo, text)), redo |-> Front(st.redo)]

PushBurst(sts) ==
    IF burst = None THEN sts ELSE [sts EXCEPT ![burst.tab] = Push(@, burst.text)]

-----------------------------------------------------------------------------
(* TabsState.                                                              *)

Here == tabs[active]

IsSql(i) == tabs[i].kind = "sql"

(* Mutant: the text of the tab left is not saved.                          *)
TextUnsaved(ts, text) == ts

save_current_text(ts, text) ==
    IF ts[active].kind = "sql" THEN [ts EXCEPT ![active].text = text] ELSE ts

(* The number of SQL tabs up to position i, and the SQL tabs in order.     *)
SqlUpTo(ts, i) == Cardinality({j \in 1 .. i : ts[j].kind = "sql"})
SqlAt(ts, k)   == CHOOSE i \in DOMAIN ts : ts[i].kind = "sql" /\ SqlUpTo(ts, i) = k
SqlTabs(ts)    == [k \in 1 .. SqlUpTo(ts, Len(ts)) |-> ts[SqlAt(ts, k)]]

(* Mutant: the first tab is taken for the active one.                      *)
ActiveSqlUnset == 1

(* The position of the active tab among the SQL tabs, the first if it is a *)
(* table view.                                                             *)
ActiveSql == IF IsSql(active) THEN SqlUpTo(tabs, active) ELSE 1

session_entries ==
    [active  |-> ActiveSql,
     entries |-> [i \in DOMAIN SqlTabs(tabs) |->
                    [id |-> SqlTabs(tabs)[i].id, text |-> SqlTabs(tabs)[i].text]]]

(* What is left of ts without the tab at i, and which of them is active.   *)
(* The position is corrected only when it is past the end: closing a tab   *)
(* before the active one activates another.                                *)
Closed(ts, i) ==
    LET left == RemoveAt(ts, i)
    IN [tabs |-> left, active |-> IF active > Len(left) THEN Len(left) ELSE active]

(* The last SQL tab stays.                                                 *)
CanClose(ts, i) == ts[i].kind = "sql" => SqlUpTo(ts, Len(ts)) > 1

add_sql_editor(ts) == Append(ts, SqlTab(fresh, Empty))

find_table_view(ts, tb) == {i \in DOMAIN ts : ts[i].table = tb}

(* The view of the table that there is, or else a new one at the end.      *)
open_table_view(ts, tb) ==
    IF find_table_view(ts, tb) # {}
    THEN tabs' = ts /\ active' \in find_table_view(ts, tb) /\ UNCHANGED fresh
    ELSE /\ fresh <= MaxTabs
         /\ tabs' = Append(ts, Tab(fresh, "table", Empty, tb))
         /\ active' = Len(tabs') /\ fresh' = fresh + 1

(* What the user sees in the SQL tabs, for the session.                    *)
AsSeen == [active |-> IF IsSql(active) THEN Here.id ELSE SqlTabs(tabs)[1].id,
           tabs   |-> [i \in DOMAIN SqlTabs(tabs) |->
                         [id |-> SqlTabs(tabs)[i].id, text |-> content[SqlTabs(tabs)[i].id]]]]

Edits == edits < MaxEdits /\ edits' = edits + 1

(* The tab the text of the editor is stored under now, and what it has had.*)
Shows(id, text) == seen' = [seen EXCEPT ![id] = @ \cup {text}]

-----------------------------------------------------------------------------
(* A process that is not running has no memory.                            *)
NoMemory ==
    [tabs |-> <<SqlTab(1, Empty)>>, stacks |-> [id \in Ids |-> NoStack],
     content |-> [id \in Ids |-> Empty], seen |-> [id \in Ids |-> {}]]

Init ==
    /\ run = "down" /\ starts = 0
    /\ tabs = NoMemory.tabs /\ active = 1 /\ fresh = 1
    /\ stacks = NoMemory.stacks
    /\ lastKnown = Empty /\ burst = None /\ timer = FALSE
    /\ uiText = Empty /\ uiTab = 1 /\ uiSql = TRUE
    /\ format = None
    /\ disk = [active |-> 1, entries |-> <<>>] /\ lastQuery = Empty
    /\ goodbye = None
    /\ content = NoMemory.content /\ seen = NoMemory.seen
    /\ edits = 0

Die ==
    /\ run' = "down"
    /\ tabs' = NoMemory.tabs /\ active' = 1
    /\ stacks' = NoMemory.stacks
    /\ lastKnown' = Empty /\ burst' = None /\ timer' = FALSE
    /\ uiText' = Empty /\ uiTab' = 1 /\ uiSql' = TRUE
    /\ format' = None
    /\ content' = NoMemory.content /\ seen' = NoMemory.seen
    /\ UNCHANGED <<fresh, starts, edits>>

restore_tabs ==
    [tabs   |-> [i \in DOMAIN disk.entries |-> SqlTab(disk.entries[i].id, disk.entries[i].text)],
     active |-> disk.active]

restore_last_query == lastQuery

(* A read of the tabs that fails is taken for a first launch.              *)
tabs_from_session(tabsRead) == tabsRead /\ disk.entries # <<>>

(* Only the disk is left: the tabs saved, or else a new one with the last  *)
(* query that could be read.                                               *)
Restored(fromSession, query) ==
    IF fromSession
    THEN [restore_tabs EXCEPT !.active = IF @ <= Len(disk.entries) THEN @ ELSE Len(disk.entries)]
    ELSE [tabs |-> <<SqlTab(fresh, query)>>, active |-> 1]

ShowRestored ==
    /\ uiText' = tabs'[active'].text
    /\ uiTab' = tabs'[active'].id
    /\ uiSql' = TRUE

(* The undo state is made before the fallback to the last query, so that   *)
(* it does not know that text.                                             *)
StartFrom(fromSession, query) ==
    /\ run = "down" /\ run' = "up"
    /\ starts < MaxStarts /\ starts' = starts + 1
    /\ fromSession \/ fresh <= MaxTabs
    /\ fresh' = IF fromSession THEN fresh ELSE fresh + 1
    /\ tabs' = Restored(fromSession, query).tabs /\ active' = Restored(fromSession, query).active
    /\ ShowRestored
    /\ lastKnown' = IF fromSession THEN uiText' ELSE Empty
    /\ stacks' = [id \in Ids |-> NoStack] /\ burst' = None /\ timer' = FALSE
    /\ format' = None
    /\ content' = [id \in Ids |-> IF \E i \in DOMAIN tabs' : tabs'[i].id = id
                                  THEN (CHOOSE t \in Range(tabs') : t.id = id).text
                                  ELSE Empty]
    /\ seen' = [id \in Ids |-> {content'[id]} \cup IF id = fresh THEN {Empty} ELSE {}]
    /\ UNCHANGED <<diskVars, edits>>

(* Either read may fail.  A last query that cannot be read leaves the new  *)
(* tab empty.                                                              *)
Start(tabsRead) ==
    \E query \in {restore_last_query, Empty} : StartFrom(tabs_from_session(tabsRead), query)

-----------------------------------------------------------------------------
(* Editing.                                                                *)

Up == run = "up"

EditUnchanged == UNCHANGED <<run, starts, tabVars, uiTab, uiSql, diskVars>>

(* The text of the editor becomes t; the user sees it in an SQL tab only.  *)
SetText(t) ==
    /\ uiText' = t
    /\ Shows(uiTab, t)
    /\ content' = IF uiSql THEN [content EXCEPT ![Here.id] = t] ELSE content

(* text-changed: the first keystroke of a burst remembers what was there,  *)
(* and every one of them restarts the timer.                               *)
Type(t) ==
    /\ Up /\ uiSql /\ t # uiText
    /\ Edits
    /\ burst' = IF timer THEN burst ELSE [tab |-> uiTab, text |-> lastKnown]
    /\ timer' = TRUE
    /\ lastKnown' = t
    /\ SetText(t)
    /\ UNCHANGED <<stacks, format>> /\ EditUnchanged

(* 500 ms without a keystroke.                                             *)
TimerFires ==
    /\ Up /\ timer
    /\ IF burst = None
       THEN UNCHANGED <<stacks, burst, timer>>
       ELSE stacks' = PushBurst(stacks) /\ burst' = None /\ timer' = FALSE
    /\ UNCHANGED <<run, starts, tabVars, lastKnown, uiVars, format, diskVars, ghostVars, edits>>

(* Mutant: the timer goes on in another tab.                               *)
BurstKept == UNCHANGED <<burst, timer>>

EndBurst == burst' = None /\ timer' = FALSE

EditorUndo ==
    /\ Up /\ uiSql
    /\ EndBurst
    /\ LET flushed == PushBurst(stacks)
           undo == flushed[uiTab].undo IN
       IF undo = <<>>
       THEN stacks' = flushed /\ UNCHANGED <<lastKnown, uiText, ghostVars>>
       ELSE /\ stacks' = [flushed EXCEPT ![uiTab] = Undone(@, uiText)]
            /\ lastKnown' = Last(undo) /\ SetText(Last(undo))
    /\ UNCHANGED <<format, edits>> /\ EditUnchanged

(* A burst in progress is dropped, not pushed.                             *)
EditorRedo ==
    /\ Up /\ uiSql
    /\ EndBurst
    /\ LET redo == stacks[uiTab].redo IN
       IF redo = <<>>
       THEN UNCHANGED <<stacks, lastKnown, uiText, ghostVars>>
       ELSE /\ stacks' = [stacks EXCEPT ![uiTab] = Redone(@, uiText)]
            /\ lastKnown' = Last(redo) /\ SetText(Last(redo))
    /\ UNCHANGED <<format, edits>> /\ EditUnchanged

(* flush_before_programmatic_change, and the text that is about to go.     *)
Snapshot ==
    /\ stacks' = [PushBurst(stacks) EXCEPT ![uiTab] = Push(@, uiText)]
    /\ EndBurst

(* The tab key, a snippet, an entry of the history: the last two also while*)
(* a table view is shown.                                                  *)
Insert(t) ==
    /\ Up
    /\ Edits
    /\ Snapshot
    /\ lastKnown' = t /\ SetText(t)
    /\ UNCHANGED format /\ EditUnchanged

(* A completion and a replacement set the text and nothing else.           *)
Overwrite(t) ==
    /\ Up /\ uiSql /\ t # uiText
    /\ Edits
    /\ SetText(t)
    /\ UNCHANGED <<undoVars, format>> /\ EditUnchanged

FormatSql ==
    /\ Up /\ uiSql /\ format = None
    /\ format' = [tab |-> uiTab, text |-> uiText]
    /\ Snapshot
    /\ UNCHANGED <<lastKnown, uiText, ghostVars, edits>> /\ EditUnchanged

(* The answer is thrown away if the editor is under another tab by then;   *)
(* what was typed in the meantime is overwritten.                          *)
FormatSqlComplete(t) ==
    /\ Up /\ format # None /\ format' = None
    /\ IF uiTab = format.tab
       THEN Edits /\ lastKnown' = t /\ SetText(t)
       ELSE UNCHANGED <<lastKnown, uiText, ghostVars, edits>>
    /\ UNCHANGED <<stacks, burst, timer>> /\ EditUnchanged

-----------------------------------------------------------------------------
(* Tabs.                                                                   *)

(* Mutant: the view of the tab before stays.                               *)
ShownKindKept(tab) == uiSql

ShownKind(tab) == tab.kind = "sql"

(* The editor under the tab at position i of ts.                           *)
Enter(ts, i) ==
    /\ tabs' = ts /\ active' = i
    /\ uiTab' = ts[i].id
    /\ uiSql' = ShownKind(ts[i])
    /\ uiText' = IF ts[i].kind = "sql" THEN ts[i].text ELSE uiText
    /\ Shows(ts[i].id, uiText')
    /\ EndBurst
    /\ UNCHANGED <<run, starts, format, diskVars, edits>>

(* Mutant: the text typed last in another tab is kept.                     *)
StaleLastKnown(tab) == lastKnown

KnownAfter(tab) == IF tab.kind = "sql" THEN tab.text ELSE Empty

NewTab ==
    /\ Up /\ fresh <= MaxTabs
    /\ LET ts == add_sql_editor(save_current_text(tabs, uiText)) IN
       Enter(ts, Len(ts)) /\ lastKnown' = KnownAfter(Last(ts))
    /\ fresh' = fresh + 1
    /\ content' = [content EXCEPT ![fresh] = Empty]
    /\ UNCHANGED stacks

SwitchTab(i) ==
    /\ Up
    /\ LET ts == save_current_text(tabs, uiText) IN
       Enter(ts, i) /\ lastKnown' = KnownAfter(ts[i])
    /\ UNCHANGED <<fresh, stacks, content>>

CloseTab(i) ==
    /\ Up
    /\ LET ts  == IF active = i THEN tabs ELSE save_current_text(tabs, uiText)
           now == Closed(ts, i) IN
       IF CanClose(ts, i)
       THEN /\ Enter(now.tabs, now.active) /\ lastKnown' = KnownAfter(now.tabs[now.active])
            /\ stacks' = [stacks EXCEPT ![ts[i].id] = NoStack]
       ELSE tabs' = ts /\ UNCHANGED <<run, starts, active, undoVars, uiVars, format, diskVars, seen, edits>>
    /\ UNCHANGED <<fresh, content>>

(* table-double-clicked: the editor stays under the tab it was in, burst   *)
(* and all.                                                                *)
OpenTable(tb) ==
    /\ Up
    /\ open_table_view(save_current_text(tabs, uiText), tb)
    /\ uiSql' = FALSE
    /\ UNCHANGED <<run, starts, undoVars, uiText, uiTab, format, diskVars, ghostVars, edits>>

-----------------------------------------------------------------------------
(* The end of the process.                                                 *)

SavingUnchanged == UNCHANGED <<starts, active, fresh, undoVars, uiVars, format, ghostVars, edits>>

(* The handler of the close button blocks the UI thread until both writes  *)
(* have succeeded or failed.                                               *)
CloseWindow ==
    /\ Up /\ run' = "tabs"
    /\ tabs' = save_current_text(tabs, uiText)
    /\ UNCHANGED diskVars /\ SavingUnchanged

(* save_tabs is one transaction.                                           *)
SaveTabs ==
    /\ run = "tabs" /\ run' = "query"
    /\ \/ disk' = session_entries /\ goodbye' = AsSeen
       \/ UNCHANGED <<disk, goodbye>>
    /\ UNCHANGED <<tabs, lastQuery>> /\ SavingUnchanged

SaveLastQuery ==
    /\ run = "query"
    /\ lastQuery' \in {uiText, lastQuery}
    /\ Die /\ UNCHANGED <<disk, goodbye>>

(* Quit of the menu only ends the event loop; so does a crash.             *)
Quit == run # "down" /\ Die /\ UNCHANGED diskVars

Edit == \E t \in Texts : Type(t) \/ Insert(t) \/ Overwrite(t) \/ FormatSqlComplete(t)

Next ==
    \/ (\E tabsRead \in BOOLEAN : Start(tabsRead))
    \/ Edit \/ TimerFires \/ EditorUndo \/ EditorRedo \/ FormatSql
    \/ NewTab \/ (\E i \in DOMAIN tabs : SwitchTab(i) \/ CloseTab(i))
    \/ (\E tb \in Tables : OpenTable(tb))
    \/ CloseWindow \/ SaveTabs \/ SaveLastQuery \/ Quit

Spec == Init /\ [][Next]_vars

-----------------------------------------------------------------------------
(* Properties.                                                             *)

(* The one text widget never mixes up the tabs: the tab that is shown has  *)
(* its text in the editor, and every other one has, in TabsState, the text *)
(* the user last left in it, whatever was switched, opened, closed,        *)
(* formatted or inserted behind a table view in between.                   *)
TextKept ==
    run = "up" => \A i \in DOMAIN tabs : IsSql(i) =>
        content[tabs[i].id] = IF i = active THEN uiText ELSE tabs[i].text

(* A snapshot in the undo stack of an SQL tab is a text of that tab: undo  *)
(* never brings in the text of another one, and a new tab has no phantom   *)
(* entry ("Prevent phantom undo entries on the first keystroke in a new    *)
(* editor tab").                                                           *)
UndoOwnText ==
    \A i \in DOMAIN tabs : IsSql(i) =>
        LET st == stacks[tabs[i].id] IN
        Range(st.undo) \cup Range(st.redo) \subseteq seen[tabs[i].id]

(* A closed tab leaves nothing behind: whatever the timer of a burst, the  *)
(* answer of the formatter or an insertion brings later, snapshots are     *)
(* stored under tabs that are open.                                        *)
StacksOfTabs ==
    LET open == {tabs[i].id : i \in DOMAIN tabs} IN
    /\ \A id \in Ids : stacks[id] # NoStack => id \in open
    /\ burst # None => burst.tab \in open

(* The editor is shown exactly when the active tab is an SQL tab, and its  *)
(* text is then stored, and undone, under that tab.                        *)
ShownTabIsActive ==
    run = "up" => /\ uiSql <=> IsSql(active)
                  /\ uiSql => uiTab = Here.id

(* A start after a session that was saved shows the SQL tabs as the user   *)
(* saw them then, in their order, with the same one in front; a failed     *)
(* write or a crash later leaves the session that was saved before.  The   *)
(* one exception is a start that cannot read the tabs: it shows none of    *)
(* them.  It loses nothing by that: if no other session was saved since,   *)
(* the next start that can read them shows them.                           *)
RestoreFaithful ==
    [][run = "down" /\ run' = "up" /\ goodbye # None => AsSeen' = goodbye \/ Start(FALSE)]_vars
=============================================================================
