# wellfeather in TLA+

wellfeather is a desktop SQL client: a Slint user interface on one thread, one
`AppController` task on a tokio runtime that handles commands, tasks it spawns
for queries and metadata, SQLite tables for what is saved, and database pools and
SSH tunnels in `DbService`. These modules model how those parts interact and the text
and row algorithms they rely on; TLC checks them on small instances, and TLAPS
proves what matters most for all instances.

Paths below are relative to `src/`.

## 1. The system

| Component | State | Operations | Interacts with |
|---|---|---|---|
| Channels (`app/src/app/controller.rs`, `command.rs`, `event.rs`, `ui/mod.rs`) | command and event channel, 64 entries each | `send_cmd` (a task per command), `run` (one handler at a time, awaited), `spawn_event_handler`, closures queued for the UI thread | everything |
| Query execution (`controller/query.rs`, `state/query_state.rs`, `wf-db/src/service.rs`) | the stored `CancellationToken`, `loading`, `last_sql`, one task per run | RunQuery, RunQueryWithParams, RunSelection, RunAll, CancelQuery, timeout | history, events, spinner, result table |
| Run gate (`ui/query.rs`, `ui/mod.rs`, `controller/config.rs`, `wf-query/src/analyzer.rs`) | pending statement of the safe-DML dialog, pending parameters, page size | run, confirm, dismiss, change page size and rerun, read-only check | query execution, flags |
| Connections (`controller/connection.rs`, `state/connection_state.rs`, `wf-db/src/{service,pool,tunnel/ssh}.rs`) | pools and tunnels by id, known connections, active id, rows, known hosts | Connect, TestConnection, Disconnect, RemoveConnection, ConnectionFlags, fingerprint approval, auto-connect | sidebar, status bar, dialog, repository |
| Groups (`controller/group.rs`, `controller/group_undo.rs`, `group_undo.rs`) | tables `groups` and `connections.group_id`, undo/redo stacks | Create, Rename, SetColor, Delete, Move, SetExpanded, Undo, Redo | sidebar tree |
| Tabs and session (`ui/tabs_state.rs`, `ui/tabs.rs`, `ui/undo.rs`, `session.rs`) | tabs, active index, text undo stacks, typing burst and its timer, the saved session | open, close, switch, snapshot, undo, redo, format, save, restore | the one text widget, SQLite |
| Find and replace (`ui/find_replace.rs`, `wf-history/src/find_history.rs`) | cached matches, current match, terms of before | search, next, previous, replace, replace all, browse, load and save terms | editor text, SQLite |
| Results (`ui/event.rs`, `ui/query.rs`, `ui/tabs.rs`) | one grid, `original_data`, filter, sort, table views and their spinners | show a result, filter, sort, open a table view, copy, export | query execution, table data and DDL tasks |
| Metadata (`controller/metadata.rs`, `wf-completion/src/cache.rs`) | cache in memory and in SQLite, the sidebar's copy | fetch, store, load, preload | connections, completion, tree viewer |
| Completion (`ui/completion.rs`, `wf-completion`) | popup, timer, requests under way | type, ask, show, select, accept | editor text, metadata cache |
| Text algorithms (`wf-query`) | none | split, statement at the cursor, dangerous and writing statements, parameters, highlight, export | run gate, editor |
| History, bookmarks, configuration (`wf-history`, `wf-config`) | SQLite tables, `config.toml`, encrypted secrets | insert, list, bookmark, load and save settings | controller handlers |
| Shell (`platform`, `.slint` components, `xtask`) | window, layout | input and drawing | UI callbacks |

What is hard in it, and what is therefore right or wrong in it:

- **Queries.** A new run replaces the old one's token without looking at it; the
  old task is anywhere between its `select!` and its last event; a timer fires the
  token too; senders wait on a full channel. Correct means: every execution that
  is not told to stop can be stopped by the next Cancel; start before end, one end
  per run; the record before the news; the spinner has a cause and stops.
- **Run gate.** A text passes many hands (commands, `last_sql`, one slot for a pending
  statement, events) while flags, connections and page sizes change. Correct means: the
  read-only row is respected, what is dangerous was let through, a text that waits
  for parameters can be reached, the LIMIT is the size shown.
- **Connections.** The controller waits, inside Connect, for a click; the host key
  is looked at twice; commands of one click arrive in either order; pools, tunnels,
  rows and UI are keyed by id and changed by different handlers. Correct means:
  no tunnel to a key the user has not accepted; the question can always be
  answered; no pool nobody can close; the flags that guard statements are those
  the user set.
- **Groups.** Undo entries are pairs of opposite operations executed against
  tables that may have moved on; deletion is several writes. Correct means: undo
  and redo return exactly the states they left, and the sidebar ends with what the
  tables hold.
- **Tabs and session.** One widget for all tabs; timers and late answers meet the tab
  shown now; two writes at the close. Correct means: text and snapshots end in
  the tab they belong to, and a start that can read the last complete save shows it.
- **Results.** One grid for all that arrives, in any order. Correct means: columns,
  rows, filter and sort are those of one result, and every spinner has an answer coming.
- **Metadata.** Tasks of one connection overlap, and each writes two stores. Correct
  means: the completion knows no less than the sidebar, and a restart no less than
  before it, unless something overlapped or failed.
- **Texts.** Four scanners of the same language, byte offsets, ranges kept while the text
  changes. Correct means: they agree where they must, and what is replaced,
  accepted, drawn, sorted or exported is what was meant.

`PROJECT.json` lists the hazards of the code at their lines, with the properties
that cover each or the reason why none does.

## 2. The modules

| Module | What it is |
|---|---|
| `RunPromise` | Abstract: what the controller promises about runs (order, at most one live, told to stop means ends) |
| `QueryLifecycle` | Controller, token, tasks, history, channel and UI of query execution; implements `RunPromise` |
| `RunGate` | What stands between a text in the editor and the launch that QueryLifecycle begins with |
| `Connections` | Connection commands, approval, tunnels, pools, rows, UI copy, restart |
| `UndoHistory` | Abstract: an undo history as one line of states |
| `ConnectionGroups` | Group commands, `GroupUndoStack`, tables and sidebar; implements `UndoHistory` |
| `Editor` | Tabs, editor text, text undo, formatter, session save and restore |
| `EditorText` | The text of the editor and what the modules that read it share |
| `FindBar` | Find and replace beside a text that changes, and the terms of before |
| `ResultPanel` | Which result, filter and sort the one grid shows, table views, spinners |
| `GridRows` | Filtering, sorting, copying and exporting the rows of one result |
| `Metadata` | Metadata tasks, the cache in memory and on disk, the sidebar's copy, restarts |
| `Completion` | The popup and the alias, context and candidate algorithms behind it |
| `SqlText` | Highlighting, parameters, statements and their classes, as functions of a text |
| `Lists` | Parts of a list: a piece of it, or its entries at the numbers of a set |
| `ListFacts` | Lemmas about sequences, the operators on them and folds over them, for the proofs |
| `QueryProofs` | Theorems about QueryLifecycle, ResultPanel and GridRows |
| `EditorTextProofs` | Theorems about FindBar and Completion |
| `RunTextProofs` | Theorems about RunGate and SqlText |
| `*Proofs` | Theorems about the module they are named after |
| `MC*` | Instances for TLC |

Conventions. `send_cmd` spawns a task per command, so the commands under way are a
set and any of them may be next. The controller handles one command to its end;
each `await` at which something else can matter is a step boundary (`pc` names the
place). The event channel is a sequence; in QueryLifecycle, Connections and
ConnectionGroups a send waits while it is full (`EventCap`; the code has 64). What a handler
gives to `invoke_from_event_loop` is a closure in a queue, run between two callbacks of
the user, where that delay matters (RunGate, ResultPanel, Metadata).
Definitions keep the names of the functions and handlers. A definition under a comment
that begins with "Mutant:" is a wrong variant of the one after it and is used by
no action; it shows that the properties notice the mistake. Variables
marked as history in their comments are read by properties only.

The components are modelled apart because their product is far beyond a model
checker. They meet in what crosses the border: RunGate ends with a launch, which is
the first step of QueryLifecycle's handlers; RunGate's rows and flags are those Connections
keeps; ResultPanel's queries are the ends QueryLifecycle emits; GridRows is the content
of ResultPanel's rows; RunGate takes as classes of statements what SqlText computes
from characters; and Completion takes as given the tables Metadata holds.

### QueryLifecycle and RunPromise

`pc`/`job`/`reply` are the handler the controller is in; `token`/`cancelled` are
`QueryState`'s token and the tokens that have fired; `task`/`outcome`/`stmt` are the
spawned tasks; `history` is what the history table has of each run. A run handler
is `HandleRun` (cancel, look for the active connection), then `BlockReadOnly`,
`AskParams`, `NothingToRun` or `Register` (fresh token), `Announce` (QueryStarted)
and `Spawn`. A task is `Complete`/`Fail`/`NoticeCancel`/`TimeOut`, then `Save` and
`Emit`; a cancelled run saves nothing. SQL is the number of its statements.
Events carry a run number in the model only; no action decides anything by it.

### RunGate

A text is a sequence of statements, a statement what the checks can tell of it (class,
WHERE, placeholder). `Submit` is the run buttons and the shortcut: a dangerous text with the check
on goes to `pending`, everything else becomes a command. The controller reads the row
(`faults` counts reads that fail, which count as "not read-only"), and launches,
blocks, or asks for parameters. `ran` records each launch with what held at that
moment, `consent` the dangerous texts that were confirmed or were submitted with the check
off, `overtaken` whether a page size was chosen while a page command was under way.

### Connections

`rows`, `known` survive a restart; `pools`, `tunnels`, `saved`, `activeId` are
`DbService` and `ConnectionState`; `uiRows`, `uiActive`, `uiFlag`, `dialog` are what the
window shows. Connect is `HandleConnect`, `Probe`, `AskApproval`, `Approval`,
`OpenTunnel`, `Dial`, `Commit`, `SendReply`; it stops in between where the code
returns. The two flags are one Boolean (they travel together), the endpoint of
a row is the database or the user's own machine, and all SSH connections share
one server whose key may change (`RotateKey`). A failed certificate copy is one of the
failures of `Dial`. A connection given as a string is one without SSH: the form refuses the two
together (`validate_form`). `Restart` loses everything but rows and known hosts, and
auto-connects to a row used before.

### ConnectionGroups and UndoHistory

`group`, `member`, `listed` are the tables; `undo`, `redo` the stacks of
(reverse, forward) pairs; `view` the sidebar's lists. A handler touches only what
the controller alone writes and ends with one event, so it is one step, taken when
the channel has room. Reading a list that fails counts as an empty list, as
`unwrap_or_default` does; `DeleteBadly` and `ExecuteBadly` are the ways a storage error
cuts a handler short. `past`, `future`, `intact` record the states the stack stands
for, and `intact` ends when something else than a successful group command has
changed the tables.

### Editor

`tabs`, `active`, `fresh` are `TabsState`; `stacks`, `lastKnown`, `burst`, `timer` the undo
state; `uiText`, `uiTab`, `uiSql` the properties the widget is bound to; `disk`,
`lastQuery` the two things a close writes. Each callback is one action, since all of
them run on the UI thread; between them come `TimerFires`, the formatter's answer,
the two writes of the close handler (`run` is "tabs" and "query" between them; either
may fail) and the end of the process without them. `Start` reads the two again, and either
read may fail: tabs that cannot be read count as none saved, so that the program starts with one
new tab, and a last query that cannot be read leaves that tab empty. Identifiers count up
instead of being drawn at random. `content` and `seen` record the text the user left in each tab and
all texts the editor had under it; `goodbye` the tabs as seen at the last save.

### FindBar

`cache` is `FindState` (text, query, matches, current), `snap` the snapshot of terms, `browse` the
index in it, `table` the rows of `find_history`; `loads` and `saves` are the tokio
tasks. Texts are sequences of letters, so matches, shifts and replacement are computed as
the code does; case and regular expressions are left out. `text`, the editor's text, is
declared in EditorText, which Completion and SqlText extend too.

### ResultPanel and GridRows

ResultPanel names rows instead of computing them: `Rows(r, f, s)` is result r under filter
f and sort s. `work` are the runs and fetches not yet answered, `Arrive` takes any of them
and runs its event handler, `RunClosure` what that left for the UI thread. `mixed` is set when
the user filters or sorts while the grid shows another result than `original_data`.
GridRows computes what those rows are: `Matches`, the comparator `Less` and the stable sort, the
TSV of a copy, and the CSV and SQL exports, over cells that are NULL or sequences of characters. The
result arrives row by row (`Receive`), then `FilterResultRows` and `SortResultCol` run in any order.
The readers at the end of the module (`ReadCsv`, `ReadSql`, `Split`) are what other programs make of the
texts, not this program's code. A CSV field that is alone in its line and empty is quoted, as csv::Writer
does, for readers skip an empty line; the byte order mark before the file is left out, and so is the
JSON export.

### Metadata

`memory`, `disk` are the cache; `tasks` the fetches (each at "fetch", "memory", "disk",
"report" or "failed"); `loading` the load a completion waits for; `sidebar` the UI's copy. A
schema is a version number and the server's only grows. `overtaken` collects the connections
for which fetches or loads overlapped or a write failed.

### Completion and SqlText

Texts are sequences of characters, a run of letters that is never cut being one
character; so every scanner is translated as it works. A few characters are spelled out ("semicolon",
"backtick", "backslash"). SqlText's state is the text being typed and the keyboard `keys` it is
typed on (`Press`, `Clear`; `MaxTyped` bounds the text), `Completion`'s the popup, its timer, requests and answers. `Accept` is the
Enter key; `Symbols` are the characters of a text and `IdentChars` those of words, as
`is_ident_char` tells them.

## 3. The runs

| Run | Shows | Instance |
|---|---|---|
| `query` | `NoOrphanRun`, `StartedBeforeEnd`, `HistoryBeforeNews`, `PromiseKept` (all of RunPromise), `StoppableRunEnds`, `SpinnerStops` | 2 runs, 2 statements, channel of 2, timeouts on or off |
| `query_newest` | finding: `NewestResultShown` fails | 2 runs |
| `gate_safety` | `ReadOnlyRespected`, `DangerLetThrough`, `ParamsReachable`, `PageFollowsToolbar` | 2 connections, 3 texts, 2 sizes and ALL, 3 commands |
| `conn_safety` | `TunnelsApproved`, `ApprovalReachable`, `NoOrphanPool`, `UiFlagFresh`, `FlagsSurviveReconnect` | one SSH and one plain connection, 2 keys, 4 commands, channel of 1, 1 mishap |
| `groups_safety` | `SidebarFresh`, `UndoExact` (UndoHistory) | 1 connection, 2 groups, stack of 2, 4 commands, channel of 1, 1 mishap |
| `editor_safety` | `TextKept`, `UndoOwnText`, `StacksOfTabs`, `ShownTabIsActive`, `RestoreFaithful` | 3 tabs, 3 texts, stack of 1, 2 edits, 3 starts |
| `find_bar` | `TermsOnce`, `BrowsingShowsEntry`, `ReplaceExact` | texts of up to 3 letters, 2 terms kept, 1 load task |
| `results_panel` | `PanelCoherent`, `SpinnersStop` | 2 queries, 2 fetches, 2 tables, 2 columns, 1 filter |
| `grid_rows` | `ShownInOrder`, `CopyIsGrid`, `ExportsReadBack` | every result of up to 3 rows over 4 and 5 kinds of cells |
| `metadata` | `CacheNotBehindSidebar`, `DiskFollowsMemory`, `SpinnerStops` | 1 connection, 2 versions, 3 commands, 2 starts |
| `completion` | `SelectionInRange`, `AliasResolved`, `AcceptKeepsText` | 5 texts, 2 edits, 2 requests |
| `sql_text` | `HighlightCovers`, `ParamsHighlighted`, `ValuesConfined`, `StatementsFound` | every text of up to 6 characters on three keyboards |

Why these bounds. Two runs let a run be superseded while the one before it is
still ending; two statements make a RunAll that is stopped half-way; a channel of
two can be full with a sender waiting behind it. What more runs could do is proved.
In RunGate three commands are a run, a flag or connect between check and launch,
and a rerun; the texts are a dangerous one with a placeholder, and one whose two
statements split writing and placeholder between them. In Connections two connections are needed for all
that concerns the *other* one, two keys for a key that changes, four commands for
connect, flags, remove and connect again in any order, and a mishap is a storage
error, a new host key or a restart. In ConnectionGroups a stack of two overflows,
and after an undo has room on both sides; four commands reach
act-act-undo-act and act-act-undo-redo; one connection is a member or not.
`MaxInFlight` is one there: a second command sent from the same stale view arrives after
the first in any case, since the event that would refresh the view may still be in the
channel. In Editor three tabs put a table view between two SQL tabs, and a stack of
one loses its oldest entry at the second edit; three starts are one whose session is
saved, one that cannot read it and one that can; the view drops what is on disk once no start
is left to read it. One connection is enough in Metadata, since nothing of one depends on
another but the spinner, and three commands make two tasks that overlap and a removal.
Six characters hold a comment, a quote and a placeholder in one text, or two
statements and what is between them. Three rows are a tie, a NULL and
a value. Everything named Max... but the stacks' and lists' own limits is there
only to keep the state space finite. `CHECK_DEADLOCK FALSE` is set where the
commands, edits or starts run out; the other runs are checked for deadlock.
Symmetry is used where values are interchangeable and no liveness is checked.

Fairness. `query`: handler steps, task steps that need no database, and the UI loop are
weakly fair, since tokio polls a task that is ready and the event loop takes the next
event; sends are strongly fair, because tokio's mpsc gives freed capacity to waiting
senders in order while other senders make a send enabled and disabled again. Nothing makes
the database answer or the user act. `results_panel`: answers that are due arrive and
closures run. `metadata`: a task goes on (each by itself), the load of the command loop
ends, events and closures are taken. Nothing makes the user connect or the
server change.

### Finding

*Late rows* (`ui/query.rs:752`, run `query_newest`): rows of a superseded run can replace the
newer run's, although a run "1. Cancel[s] any in-flight query" (`controller/query.rs:18`).

### Read in the code, true of the models, contradicted by no document

These are consequences of the code that a reader of the properties should know: each
limits what a property can promise, or is allowed by the model's steps.

- *Queries.* The end event of a superseded run switches the spinner off while its successor
  executes (`ui/event.rs:463`).
- *Connections.* Removing any connection leaves the UI without an active one while the
  program keeps its own (`ui/event.rs:529`). Flags of a new connection whose command is handled
  before the row exists are announced and not stored (`ui/connection.rs:948`). The local
  end of a tunnel is saved as the database's address (`controller/connection.rs:123`).
- *Groups.* A successful connect takes the connection out of its group
  (`app/src/app/session.rs:345`).
- *Run gate.* Changing the page size and confirming all rows run the last SQL again
  without the safe-DML check (`ui/query.rs:617`); two quick page-size clicks may leave the first
  size in force; a parameter dialog opened for one text may, after a second request, confirm
  another.
- *Results.* Filtering or sorting while table data fills the grid applies to the query
  result and mixes the two; closing a table view leaves the `tv_*` properties; DDL lands on
  whatever view is shown; a sort between an event and its closure leaves the indicator
  out of step.
- *Rows.* The comparator of `sort_rows` is not transitive over mixed columns ("2" < "10" as
  numbers, "10" < "1a" and "1a" < "2" as texts, NaN equal to everything). Exports: negative
  numbers are written to CSV behind a tab, JSON drops columns of the same name and
  rewrites "007" and "1e5", the TSV copy does not escape tabs or newlines, all export the whole result
  and not the filtered rows, and the INSERT export takes its table name from
  `last_sql`, which is set when a run starts (`controller/query.rs:67`). The name is cut from the
  untrimmed text at an offset of the trimmed one (`wf-query/src/analyzer.rs:113`).
- *Editor.* Redo in the middle of a burst loses what was typed; replacing and
  completing push no snapshot; a format's answer overwrites what was typed meanwhile; quitting from
  the menu saves no session; a snippet inserted behind a table view is lost. A failed read of the
  saved tabs counts as a first launch (the `_` arm at `ui/mod.rs:541`; the comment at
  `ui/mod.rs:652` speaks of no tabs saved yet): nothing is reported, and the next close writes
  the one new tab over the session that is still on disk. `RestoreFaithful` therefore excepts the
  start whose read fails; without a save in between the next one that succeeds shows the session.
- *Find bar.* Clearing the field leaves the old matches drawn (`ui/find_replace.rs:104`); after a
  load replaces the list while it is browsed the index is not corrected; the draft of
  the replace field is not kept; Replace with no match leaves a stale counter.
- *Metadata.* Overlapping fetches or loads may leave the older schema; a removal does not
  evict the cache; a failed connect or another connection's answer stops the spinner.
- *Completion.* Answers carry no request (`ui/completion.rs:85`): one may reopen a closed
  popup, or survive a switch of tabs; "." closes the popup; after `alias.x` the columns of the
  first FROM table are offered; the alias of an unaliased FROM table named in ON, and comma
  joins, resolve to the word before; keywords of two words accepted in a select list get a comma.
- *Texts.* A ";" in a comment splits a statement; a negative value behind a "-" begins a
  comment; a value may run together with a quote beside it; the LIMIT of a page lands in a
  trailing comment; `has_dangerous_dml` needs plain blanks around WHERE; `1e--` is read
  differently by the highlighter and the parameter scanner.

## 4. What is proved

All proofs are for any values of the constants that satisfy the named assumptions
(bounds are natural numbers, capacities positive, sentinels not among the values).
Every invariant below that is not inductive by itself is strengthened to an `IInv` that
is. TLC found each of the strengthenings to hold before it was proved.

**QueryProofs: QueryLifecycle.** `IInv == TypeOK /\ Where /\ Recorded /\ News`. `Where` says which
run the controller is at: the token is the newest run, a run without a task is
the one being announced, and every older run that has not ended has been cancelled. That
last part carries `NoOrphanRun`, and it holds only because between the cancel
that begins a handler and the registration nothing else can register. `Recorded` ties
history to the stage of a task, for `HistoryBeforeNews`. `News` describes the channel:
what is in it of a run is behind its start, an end is only there when the task is
done, and a start whose run is done is followed by the end. The spinner
(`SpinnerCaused`) needs exactly that: taking a start from the channel must leave a
reason to spin. `Refinement`: under `phaseOf` every step is a step of `RunPromise` or a
stutter. `PromiseMutex` is what the promise alone implies, at most one run that is not
told to stop, and `OneLive` carries it over to the controller and its tasks.

**RunTextProofs: RunGate.** A text passes many hands; `Consented` says of each of them (commands, job,
last SQL, events, slot) that what is dangerous there was let through, `Checked` that no command
can change a flag between the read-only check and the launch, `PageAgrees` where the
page size may differ. Hence all four properties of the run.

**ConnectionsProofs.** `IInv == TypeOK /\ Working /\ Asking /\ Trusting /\
ApprovalReachable /\ NoOrphanPool`. `Asking`: the question for a key is in one place
at a time (channel, dialog or answer), with the fingerprint of the handler that waits;
without it a late dialog could answer for another key. `Trusting`: what is written to known
hosts, answered yes, or about to be used was approved. `Hearing` is about the future: what the
UI will hold when it has taken every event, the one the controller is about to send included.
The last event that switches the connection and the last flags of that
connection after it decide, and they agree with the row. Hence all five properties.

**ConnectionGroupsProofs.** `IInv == Core /\ Mail /\ Counted`. `Tables`: connections without
a row are in no group, and a group id never given out is nowhere (so undoing a creation
leaves nothing behind, and restoring the members that have rows restores them all). `Stack`: the two
sides together hold at most `UndoMax` entries. `Kept`: as long as nothing else has changed the
tables, entry i of the undo side leads (`Leads`: executing one operation gives the
other state, both ways) from state i of the past to the next one, the last one to the
present, and the redo side mirrors it. The entries store single fields and member
lists, not states, so they are right only when executed against the very state they were
recorded for. `UndoKept`: every step is a step of `UndoHistory` or a stutter.
`Arriving` is to the sidebar what `Hearing` is to the flags: the last event
that tells of the groups, and for each connection the last that tells of it, say what
the tables hold (`SidebarCatchesUp`).

**EditorProofs.** All five properties of the run. `Numbered`: identifiers are used once and the
widget is under an open tab. `Sound` and `BurstSound`: snapshots and the pending burst
belong to open tabs and hold texts seen there. `TextInRun`: what the user left in a tab is in
the widget if the tab is active, and in the tab otherwise, and already in the tab when the
close handler writes. `SessionSaved`: what is on disk is what the user saw at the last save,
with the active tab at its rank among the SQL tabs; `RestoreFaithful` follows because counting
the SQL tabs up to the active one and finding the tab with that rank are inverse to each other,
and because a session once saved has tabs: only `Start(FALSE)`, which cannot read them, shows none.

**QueryProofs: ResultPanel.** A run's result is in one place (going on, queued or shown: `Numbered`), and while
one waits to be shown `original_data` is under no sort (`Waiting`); with these `PanelCoherent` is
inductive. `SpinnersAnswered`: every spinner that turns has an answer on its way.

**QueryProofs: GridRows.** `RowsInv` adds to the types that the grid is what filter and sort make of
the rows; that much is inductive at once (`RowsInvariant`), and the rest is about the operators. Sorting
is a fold that puts one row after the other into its place. What the induction over the rows carries
(`SortedUp`; `ShownAs` at its end) is that NULLs are last and every row is at the place it is due: a
row is put behind the last one it is not less than, which is right because the comparison orders the
column, ties apart. That is shown from the
columns' values: numbers compare by value, other texts by their bytes, and NULL against a value
is decided before either. Over a mixed column it is no order and nothing but the rows themselves and
NULL last is claimed. So in `GridInOrder` the place of a row is the number of rows it follows.
`GridCopied` and `ExportRead` are about readers. A reader is a fold over the characters of the whole text; `Leads`
says that a piece of text takes it from one state to another, and leads from piece to piece, so that
a file follows from its lines, a line from its fields and a field from its characters,
each an induction of its own. In the CSV file a field is read alike quoted or plain, since a plain one has nothing
the reader stops at. In the SQL file a quote is the end of a text or half of a quote in it, and only the
next character tells: the states between pieces are therefore sets of two (`Tells`), the end seen and not
yet seen, which come to the same tokens.

**MetadataProofs.** Whatever is known of a connection anywhere is at most the server's version
(`Grown`); a task that fetched alone holds the newest anybody knows (`Sole`); a connection
that is not overtaken has one version everywhere but for a write to come (`Settled`).
Hence `CacheNotBehindSidebar` and `DiskFollowsMemory`.

**EditorTextProofs.** About the texts of FindBar and Completion, whose operators, like SqlText's, are recursive
functions over a text of any length. An induction theorem that takes the claim as an operator
cannot be used with these provers; the proofs argue by the least counterexample
instead (`WFMin`): `Upward` and `Downward` say that a set of numbers which holds one end of an interval and
is closed under a step holds the whole interval, and each walk over a text
is stated as such a set. For the find bar `IInv == TypeOK /\ CacheOk(cache) /\ ShownIsCurrent
/\ ListsOk /\ BrowsingShowsEntry`: the cached matches are those of the cached text (each
an occurrence of the query, one past the end of the other, none left out between them) and the
current one is one of them; `ListsOk` keeps the terms of the snapshot and of the table apart and
within the limit, whatever order the load and save tasks run in. Hence the three properties of
the run, and `ReplaceAllSubstitutes`: what Replace All writes is the text with
every one of its matches, and nothing else, exchanged for the replacement. For completion
`PopupInv` is the type invariant with `SelectionInRange`, and it is not shallow:
that every candidate is a sequence of characters whose cursor offset lies within it, and that
the texts in the timer, the requests and behind the answers have their cursor inside, goes through every
context and candidate operator, and without it the selected row could not be put in.
`AcceptExact` then says what Enter may change, at any cursor and in any text, not only where the candidate
was computed. `AliasesResolved` is about what the popup offers after `alias.`: the words of a FROM clause
begin at an increasing list of places (`WordsBegin`), those of a declaration follow each other in it
(`WordsDeclared`), every word before them is a word of what stands in front (`WordInFront`), and so the first word
written like the alias is the one that declares it (`AliasStandsFor`).
TLC checks the type invariants of FindBar and Completion on the instances of
their runs; that of SqlText is the bound in `Press` and the sequences of `Keyboards`.

**RunTextProofs: SqlText.** The invariant is `TypedOK`. For the scans of SQL the two halves of the code that must agree are proved to, in every text:
`ParamsColoured` (the parameter scan of `params.rs` and the tokenizer of `highlight.rs` find the same
placeholders; `1e--`, which they read differently, is excepted in the property) and `StatementsAgree` (the statement
at a cursor is one of those Run All runs, and the one the cursor is in). Each scan is shown to be a walk:
the least set of positions that holds the first and, with one, the end of what begins there. A walk of the tokenizer
meets every position the parameter scan meets, since the words, numbers and signs it
takes whole hold no quote, comment or colon; so the two keep the same placeholders (`PlaceholdersWalk`,
`TokenizeWalk`, `SameParams`). For statements, `SegmentsAre`, `TrimIs` and `StripIs` give in closed form
what the loops compute, and the cursor's window is placed in its segment (`CursorFinds`).
`TextCovered` is the promise of the overlay that draws the editor: the tokens follow each other (`TokensSequent`),
the spans of a token lie where they say, in its lines (`EmitPlaced`), so those of all tokens are in order and in
bounds (`TokensPlaced`; hence the sort and the clamps of `fill_gaps` are left out of the model), and the
spans of a line with the gaps between them tile it: each begins where the one before it ends
(`GapTiles`, `LineTiled`), which makes the text they draw the line (`TilesDrawn`).
`ValuesKept` compares the scan of a text with that of the text the values make of it, in which every position
has moved. A window of a text is read alike wherever it stands: where the same characters are at a distance in
two texts, up to an edge in both (a separator or the end; `Alike`), each question the tokenizer asks has
the same answer (`Looks`, then one lemma for each kind of comment, quote and number), so it takes the same steps
(`StepAlike`) and finds the same pieces (`WindowRead`). A closed value therefore reads in its place as it
does alone (`ValueRead`), and what stands between the parameters as it was typed (`AsTyped`). The code replaces
from the last parameter to the first; `FilledInIs` unrolls that loop, and `ConfinedOn` goes down over the text: what is
already replaced behind a position reads as it should, and a step to the left keeps it so
(`ParamFilled` at a parameter, `OthersStay` anywhere else).

Assumptions about these texts: `SeqsOk`, `TextsFit` and `NoneIsNone` of FindBar (texts and terms are sequences,
short enough, and no term is the sentinel), `CountsNat`, `WordsOk` and `JoinWordsKnown` of Completion (texts, names
and keywords are made of `Symbols`, blanks are not characters of words, and the words of a join are keywords), `MaxTypedNat`, `KeysAreTexts`, `LettersApart`
and `WriteWordsKnown` of SqlText (keys are sequences of characters; letters, digits, the signs the
scans look for and `=` are different characters; the words that begin a write are words), and `ValuesAreTexts` (values
are sequences of characters). That a value leaves no quote or comment open (`Closed`: a blank behind
it is no part of its last token) is a condition in `ValuesConfined` and not an assumption: the dialog takes any text, and
a quote its user leaves open does run on into the statement. In GridRows: `NamesOk`
(there is a column; names are texts), `CellsOk` and `ValuesOk` (a cell is NULL or a text, a number has a
value), `BytesApart` (different characters have different bytes, and those of the cells have one), `MaxRowsNat`.

**Only model-checked.** Liveness (`StoppableRunEnds`, `SpinnerStops`, `SpinnersStop`, the liveness
of `PromiseKept`) is out of the prover's reach; what it rests on, that every
spinner has a cause, is proved. Every invariant and every action property the passing runs check is
a theorem; the refinement `PromiseKept` is one in its safety part.

## 5. Not modelled

- One composition of all components: its states would be the product of theirs.
- Crashes inside a group command, `SetGroupExpanded`, the order of groups and connections.
- The busy flag of the connection form, which only the form reads.
- Ranking among completion candidates of one kind, case folding, regular expressions in
  the find bar, multi-byte characters.
- The formatter's output (a library call), pages and column widths of the grid, the clipboard.
- History lists, searches and bookmarks: single SQL queries whose answer replaces a list.
- Cryptography, certificate files, row decoding, appearance, key bindings, snippets beyond
  their insertion, drawing, window system and build tasks: data or I/O without interleaving.
- Times: `last_used_at` is "used before" in Connections, timeouts and timers fire at any moment.

## 6. What could come next

- Crashes between the writes of a group command, with `UndoHistory` promised again after
  the restart.
- RunGate composed with QueryLifecycle for one connection, to state what is launched and how it
  ends in one property.
- The sort comparator on columns it does not order, once the code decides what it should do.
