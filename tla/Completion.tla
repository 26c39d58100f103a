----------------------------- MODULE Completion -----------------------------
(***************************************************************************)
(* Completion in the editor: the text and cursor are read for the context, *)
(* the context gives candidates, the popup shows them and Enter puts one   *)
(* in.                                                                     *)
(*                                                                         *)
(* The popup belongs to the UI thread.  A keystroke starts a timer that    *)
(* carries the text and cursor of that moment; the timer, Ctrl+Space and   *)
(* an accepted candidate send requests, each by a task of its own, and the *)
(* answers are queued.  An answer does not say which text it is for: it    *)
(* may be shown when the text, the cursor or the tab is another one.       *)
(*                                                                         *)
(* A text is a sequence of characters, where a run of letters that is      *)
(* never cut is one character; a name is a sequence of them, so that one   *)
(* name can begin another.  The cursor is the number of characters before  *)
(* it.  Case is left out, and the tables of the connection do not change   *)
(* (module Metadata has that).                                             *)
(***************************************************************************)
EXTENDS EditorText

CONSTANTS
    Starts,      \* the texts of the tabs
    Keys,        \* what one keystroke types
    Symbols,     \* the characters of a text
    IdentChars,  \* those of words
    Tables,      \* tables and views in order: [name, columns]
    KeywordList, \* SQL_KEYWORDS, some of several words
    NextClauses, \* what may follow a table
    Operators,   \* what may follow a column
    SqlWords,    \* is_sql_keyword: single words only
    MaxEdits,    \* bound on edits, moves of the cursor and tab switches
    MaxRequests, \* bound on requests and answers under way
    Nothing

ASSUME CountsNat == MaxEdits \in Nat /\ MaxRequests \in Nat
ASSUME WordsOk   ==
    /\ Starts \cup Keys \subseteq Seq(Symbols)
    /\ {KeywordList, NextClauses, Operators} \subseteq Seq(Seq(Symbols))
    /\ Tables \in Seq([name : Seq(Symbols), columns : Seq(Seq(Symbols))])
    /\ IdentChars \subseteq Symbols \ {"", " "}
    /\ {" ", ",", "'", "FROM", "ON", "NULL"} \subseteq Symbols

VARIABLES
    cursor,   \* the cursor of the editor
    timer,    \* the debounce timer and what it will ask
    requests, \* FetchCompletion commands whose task has not run
    answers,  \* CompletionReady events, the oldest first
    visible,  \* UiState.completion-visible
    items,    \* UiState.completion-items
    selected, \* UiState.completion-selected, from 0
    edits     \* counts what MaxEdits bounds

popup == <<visible, items, selected>>
completionVars  == <<text, cursor, timer, requests, answers, popup, edits>>

(***************************************************************************)
(* Words                                                                   *)
(***************************************************************************)

Before(t, c) == SubSeq(t, 1, c)
After(t, c)  == SubSeq(t, c + 1, Len(t))

Blanks == {" "}

TrimEnd(t) ==
    LET solid == {i \in DOMAIN t : t[i] \notin Blanks}
    IN Before(t, Max(solid \cup {0}))

TrimStart(t) ==
    LET solid == {i \in DOMAIN t : t[i] \notin Blanks}
    IN IF solid = {} THEN <<>> ELSE After(t, Min(solid) - 1)

(* The word a text begins with, and where the one it ends with begins.     *)
FirstWord(t) == Before(t, Min({i \in DOMAIN t : t[i] \notin IdentChars} \cup {Len(t) + 1}) - 1)
FindPrefixStart(t, c) == Max({i \in 1 .. c : t[i] \notin IdentChars} \cup {0})
ExtractPrefix(t, c)   == SubSeq(t, FindPrefixStart(t, c) + 1, c)

LastIdent(t) ==
    LET end == Max({i \in DOMAIN t : t[i] \in IdentChars} \cup {0})
    IN ExtractPrefix(t, end)

IdentTokens(t) ==
    LET begins == Ascending({i \in DOMAIN t : t[i] \in IdentChars /\ At(t, i - 1) \notin IdentChars}, Len(t))
    IN [k \in DOMAIN begins |-> FirstWord(After(t, begins[k] - 1))]

IsSqlKeyword(word) == word \in SqlWords

(* What can stand before a table or an alias, and AS, are keywords.        *)
JoinKeywords == {<<kw>> : kw \in {"FROM", "JOIN", "LEFT", "RIGHT", "INNER", "OUTER", "CROSS", "FULL", "NATURAL", "ON"}}
ASSUME JoinWordsKnown == JoinKeywords \cup {<<"AS">>} \subseteq SqlWords

(* Where a keyword stands as a word of its own.                            *)
KeywordAt(t, kw) == {i \in DOMAIN t : t[i] = kw /\ {At(t, i - 1), At(t, i + 1)} \cap IdentChars = {}}
LastKwPos(t, kw)  == Max(KeywordAt(t, kw) \cup {0})
FirstKwPos(t, kw) == Min(KeywordAt(t, kw) \cup {Len(t) + 1})
HasKeyword(t, kw) == KeywordAt(t, kw) # {}

Triggers == {"SELECT", "FROM", "JOIN", "WHERE", "SET", "HAVING", "INTO", "BY", "ON"}

LastTrigger(t) ==
    LET last == Max({LastKwPos(t, kw) : kw \in Triggers})
    IN IF last = 0 THEN Nothing ELSE t[last]

(***************************************************************************)
(* The context of the cursor (parser.rs).  <<>> stands for no table.       *)
(***************************************************************************)

ExtractFromTable(t) ==
    IF HasKeyword(t, "FROM") THEN FirstWord(TrimStart(After(t, FirstKwPos(t, "FROM")))) ELSE <<>>

(* The tables named after FROM, then those after JOIN.                     *)
NotATable == {<<kw>> : kw \in {"ON", "WHERE", "HAVING", "GROUP", "ORDER", "LIMIT", "SET",
                               "INNER", "LEFT", "RIGHT", "OUTER", "CROSS", "FULL", "NATURAL"}}

ReferencedTables(t) ==
    LET after(kw) == LET at == Ascending(KeywordAt(t, kw), Len(t))
                     IN [k \in DOMAIN at |-> FirstWord(TrimStart(After(t, at[k])))]
        names == after("FROM") \o after("JOIN")
    IN Kept(names, {k \in DOMAIN names : /\ names[k] \notin NotATable \cup {<<>>}
                                         /\ \A j \in 1 .. k - 1 : names[j] # names[k]})

Stops        == {"WHERE", "GROUP", "ORDER", "HAVING", "LIMIT"}

FromClause(t) ==
    LET rest == After(t, FirstKwPos(t, "FROM"))
    IN Before(rest, Min({FirstKwPos(rest, kw) : kw \in Stops}) - 1)

(* Mutant: the word AS is taken for the table.                             *)
ResolveAliasNoAs(t, alias) ==
    LET words == IdentTokens(FromClause(t))
        found == {i \in 2 .. Len(words) : words[i] = alias}
    IN IF alias = <<>> \/ ~HasKeyword(t, "FROM") THEN <<>>
       ELSE IF found = {} THEN ExtractFromTable(t)
       ELSE IF words[Min(found) - 1] \in JoinKeywords THEN words[Min(found)]
       ELSE words[Min(found) - 1]

(* The table an alias stands for: the first place in the FROM clause, past *)
(* its first word, where the alias is written tells.                       *)
ResolveAlias(t, alias) ==
    LET words == IdentTokens(FromClause(t))
        found == {i \in 2 .. Len(words) : words[i] = alias /\ (words[i - 1] = <<"AS">> => i > 2)}
        i     == Min(found)
    IN CASE alias = <<>> \/ ~HasKeyword(t, "FROM") -> <<>>
         [] OTHER ->
              IF found = {} THEN ExtractFromTable(t)
              ELSE IF words[i - 1] = <<"AS">> THEN words[i - 2]
              ELSE IF words[i - 1] \in JoinKeywords THEN words[i]
              ELSE words[i - 1]

Context(kind)  == [kind |-> kind, table |-> <<>>, tables |-> <<>>]
Column(table)  == [Context("column") EXCEPT !.table = table]

(* What stands between the last keyword kw and the cursor.                 *)
Since(before, kw) == After(before, LastKwPos(before, kw))
EndsBlank(before) == Last(before) \in Blanks

TableContext(before, kw) ==
    IF EndsBlank(before) /\ FirstWord(TrimStart(Since(before, kw))) # <<>>
    THEN Context(IF kw = "JOIN" THEN "join_on" ELSE "next_clause")
    ELSE Context("table")

ConditionContext(t, before, kw) ==
    LET since == TrimEnd(TrimStart(Since(before, kw)))
        table == ExtractFromTable(t)
    IN CASE EndsBlank(before) /\ kw = "ON" /\ since = <<>> /\ ReferencedTables(t) # <<>> ->
              [Context("join_table") EXCEPT !.tables = ReferencedTables(t)]
         [] EndsBlank(before) /\ since # <<>> /\ Last(since) \in {"=", "<", ">"} -> Context("value")
         [] EndsBlank(before) /\ since # <<>> /\ Range(since) \subseteq IdentChars \cup {"."} -> Context("operator")
         [] OTHER -> IF table = <<>> THEN Context("keyword") ELSE Column(table)

ParseContext(t, c) ==
    LET before == Before(t, c)
        solid  == TrimEnd(before)
        kw     == LastTrigger(before)
    IN CASE solid = <<>>       -> Context("none")
         [] At(solid, Len(solid)) = "semicolon" -> Context("none")
         [] At(solid, Len(solid)) = "." -> Column(ResolveAlias(t, LastIdent(Front(solid))))
         [] OTHER ->
              CASE kw \in {"FROM", "JOIN", "INTO"}   -> TableContext(before, kw)
                [] kw \in {"WHERE", "HAVING", "ON"}  -> ConditionContext(t, before, kw)
                [] kw \in {"SELECT", "SET", "BY"}    -> Column(ExtractFromTable(t))
                [] kw = Nothing                         -> Context("keyword")

InSelectList(t, c) ==
    LET before == Before(t, c)
    IN HasKeyword(before, "SELECT") /\ ~HasKeyword(Since(before, "SELECT"), "FROM")

(***************************************************************************)
(* The candidates of a context (engine.rs and candidates.rs)               *)
(***************************************************************************)

(* A candidate: what is put in, how far the cursor then goes (0: past it), *)
(* the table a column is from, and whether its label is what is put in.    *)
ItemTo(insert, offset) == [insert |-> insert, offset |-> offset, table |-> <<>>, plain |-> TRUE]
Item(insert) == ItemTo(insert, 0)
ItemsOf(words) == [k \in DOMAIN words |-> Item(words[k])]

(* What is typed in full already is not offered.                           *)
Unfinished(list, prefix) == Kept(list, {k \in DOMAIN list : ~(list[k].plain /\ list[k].insert = prefix)})

Beginning(words, prefix) == Kept(words, {k \in DOMAIN words : IsPrefix(prefix, words[k])})

KeywordCandidates(prefix) == ItemsOf(Beginning(KeywordList, prefix))
TableCandidates(prefix)   == ItemsOf(Beginning([k \in DOMAIN Tables |-> Tables[k].name], prefix))
NextClauseCandidates == ItemsOf(NextClauses)
JoinOnCandidates     == ItemsOf(<<<<"ON">>>>)
OperatorCandidates   == ItemsOf(Operators)
ValueCandidates == <<ItemTo(<<"'", "'">>, 1), Item(<<"NULL">>)>>

AllColumns == FlattenSeq([k \in DOMAIN Tables |->
    [j \in DOMAIN Tables[k].columns |-> [name |-> Tables[k].columns[j], table |-> Tables[k].name]]])

Ambiguous(col) == Cardinality({k \in DOMAIN AllColumns : AllColumns[k].name = col.name}) > 1

(* A column of several tables may be told apart by the beginning of its    *)
(* table typed after it.                                                   *)
ColumnMatches(col, prefix) ==
    \/ IsPrefix(prefix, col.name)
    \/ /\ Ambiguous(col) /\ prefix # <<>>
       /\ IsPrefix(col.name, prefix)
       /\ IsPrefix(TrimStart(After(prefix, Len(col.name))), col.table)

ColumnCandidates(table, prefix) ==
    LET fits(col) == IF table = <<>> THEN ColumnMatches(col, prefix) ELSE col.table = table /\ IsPrefix(prefix, col.name)
        mine      == Kept(AllColumns, {k \in DOMAIN AllColumns : fits(AllColumns[k])})
    IN [k \in DOMAIN mine |->
           [insert |-> mine[k].name, offset |-> 0, table |-> mine[k].table, plain |-> table # <<>> \/ ~Ambiguous(mine[k])]]

(* Keywords are offered when no name begins like that.                     *)
OrKeywords(list, prefix) ==
    IF list = <<>> /\ prefix # <<>> THEN Unfinished(KeywordCandidates(prefix), prefix) ELSE list

Candidates(context, prefix) ==
    CASE context.kind = "keyword"     -> IF prefix = <<>> THEN <<>> ELSE Unfinished(KeywordCandidates(prefix), prefix)
      [] context.kind = "table"       -> OrKeywords(Unfinished(TableCandidates(prefix), prefix), prefix)
      [] context.kind = "column"      -> OrKeywords(Unfinished(ColumnCandidates(context.table, prefix), prefix), prefix)
      [] context.kind = "next_clause" -> NextClauseCandidates
      [] context.kind = "join_on"     -> JoinOnCandidates
      [] context.kind = "operator"    -> OperatorCandidates
      [] context.kind = "join_table"  -> ItemsOf(Beginning(context.tables, prefix))
      [] context.kind = "value"       -> ValueCandidates
      [] context.kind = "none"        -> <<>>

(* The word before the last one and the last one, for a column and the     *)
(* beginning of its table with a blank between them; <<>> if there is none.*)
ExtractCompoundPrefix(t, c) ==
    LET start == FindPrefixStart(t, c)
        front == TrimEnd(Before(t, start))
        prev  == ExtractPrefix(front, Len(front))
    IN IF \/ At(t, start) # " " \/ prev = <<>> \/ IsSqlKeyword(prev)
          \/ At(front, Len(front) - Len(prev)) = "."
       THEN <<>>
       ELSE prev \o <<" ">> \o SubSeq(t, start + 1, c)

(* A name typed in full is treated as if a blank followed it already.      *)
Complete(t, c) ==
    LET prefix   == ExtractPrefix(t, c)
        context  == ParseContext(t, c)
        next     == ParseContext(Append(Before(t, c), " "), c + 1)
        compound == IF context = Column(<<>>) THEN ExtractCompoundPrefix(t, c) ELSE <<>>
        both     == IF compound = <<>> THEN <<>> ELSE Candidates(context, compound)
    IN CASE /\ context.kind = "table" /\ prefix # <<>>
            /\ \E k \in DOMAIN Tables : Tables[k].name = prefix
            /\ next.kind \in {"next_clause", "join_on"} -> Candidates(next, <<>>)
         [] /\ context.kind = "column" /\ prefix # <<>>
            /\ \E k \in DOMAIN AllColumns :
                 AllColumns[k].name = prefix /\ context.table \in {<<>>, AllColumns[k].table}
            /\ next.kind = "operator" -> Candidates(next, <<>>)
         [] OTHER -> IF both # <<>> THEN both ELSE Candidates(context, prefix)

(***************************************************************************)
(* Putting a candidate in (on_accept_completion)                           *)
(***************************************************************************)

(* Mutant: the name before may be the end of a longer one.                 *)
ReplacedFromAnywhere(t, c, item) ==
    LET start == FindPrefixStart(t, c)
        wider == start - Len(item.insert) - 1
    IN IF item.table # <<>> /\ wider >= 0 /\ SubSeq(t, wider + 1, start) = item.insert \o <<" ">> THEN wider ELSE start

(* What it replaces begins here: the word before the cursor, and the name  *)
(* of the column before that when the table was typed to tell it apart.    *)
ReplacedFrom(t, c, item) ==
    LET start == FindPrefixStart(t, c)
        wider == start - Len(item.insert) - 1
    IN IF /\ item.table # <<>> /\ wider >= 0
          /\ SubSeq(t, wider + 1, start) = item.insert \o <<" ">>
          /\ wider = 0 \/ t[wider] = " "
       THEN wider ELSE start

Put(left, insert, right, cur) == [text |-> left \o insert \o right, cursor |-> cur]

(* In a select list a comma is put after what is there.                    *)
PutInList(t, c, item, start) ==
    LET left  == TrimEnd(Before(t, start))
        comma == /\ left # <<>> /\ Last(left) \notin {",", "("}
                 /\ ExtractPrefix(left, Len(left)) \notin {<<"SELECT">>, <<"DISTINCT">>}
        front == IF comma THEN left \o <<",", " ">> ELSE Before(t, start)
    IN Put(front, item.insert, After(t, c), Len(front) + Len(item.insert))

(* Elsewhere a word that does not begin the candidate stays.               *)
PutElsewhere(t, c, item, start) ==
    LET word  == SubSeq(t, start + 1, c)
        front == IF IsPrefix(word, item.insert) THEN Before(t, start)
                 ELSE Before(t, c) \o (IF At(t, c) \in Blanks THEN <<>> ELSE <<" ">>)
    IN Put(front, item.insert, After(t, c), Len(front) + (IF item.offset > 0 THEN item.offset ELSE Len(item.insert)))

SqlHasFrom(t) ==
    \E i \in KeywordAt(t, "FROM") : (i = 1 \/ t[i - 1] = " ") /\ At(t, i + 1) = " "

(* A column of a known table brings the FROM clause that is missing.       *)
AcceptCompletion(t, c, item) ==
    LET list == ~IsSqlKeyword(item.insert) /\ InSelectList(t, c)
        from == ReplacedFrom(t, c, item)
        put  == IF list THEN PutInList(t, c, item, from) ELSE PutElsewhere(t, c, item, from)
        full == TrimEnd(put.text) \o <<" ", "FROM", " ">> \o item.table
    IN IF list /\ item.table # <<>> /\ ~SqlHasFrom(t) THEN [text |-> full, cursor |-> Len(full)] ELSE put

(* After these nothing more is offered by itself.                          *)
IsTerminalExpression(t) ==
    LET solid == TrimEnd(t)
    IN At(solid, Len(solid)) = "'" \/ ExtractPrefix(solid, Len(solid)) \in {<<"NULL">>, <<"TRUE">>, <<"DESC">>}

(***************************************************************************)
(* The editor and the popup                                                *)
(***************************************************************************)

Asking(t, c) == [text |-> t, cursor |-> c]
Room == Cardinality(requests) + Len(answers) < MaxRequests

Asked == {r \in [text : Seq(Symbols), cursor : Nat] : r.cursor <= Len(r.text)}

(* The cursor goes no further than the end of what is put in.              *)
Items == {item \in [insert : Seq(Symbols), offset : Nat, table : Seq(Symbols), plain : BOOLEAN] :
             item.offset <= Len(item.insert)}

CompletionOK ==
    /\ text \in Seq(Symbols) /\ cursor \in 0 .. Len(text)
    /\ timer \in Asked \cup {Nothing} /\ requests \subseteq Asked
    /\ answers \in Seq(Seq(Items)) /\ items \in Seq(Items)
    /\ visible \in BOOLEAN /\ selected \in Nat
    /\ edits \in 0 .. MaxEdits

CompletionInit ==
    /\ text \in Starts /\ cursor = Len(text)
    /\ timer = Nothing /\ requests = {} /\ answers = <<>>
    /\ visible = FALSE /\ items = <<>> /\ selected = 0
    /\ edits = 0

CountEdit == edits < MaxEdits /\ edits' = edits + 1

(* What a keystroke does once the text is changed: the old timer is gone,  *)
(* and with no word before the cursor the popup closes and nothing is      *)
(* asked.                                                                  *)
FetchCompletion(closed) ==
    IF ExtractPrefix(text', cursor') = <<>>
    THEN timer' = Nothing /\ visible' = FALSE
    ELSE timer' = Asking(text', cursor') /\ visible' = (visible /\ ~closed)

(* Some keys close the popup on their way to the text.                     *)
Type(key) ==
    /\ CountEdit
    /\ text' = Before(text, cursor) \o key \o After(text, cursor)
    /\ cursor' = cursor + Len(key)
    /\ FetchCompletion(key \in {<<" ">>, <<",">>, <<"semicolon">>, <<"(">>, <<")">>})
    /\ UNCHANGED <<requests, answers, items, selected>>

Backspace ==
    /\ cursor > 0
    /\ CountEdit
    /\ text' = Before(text, cursor - 1) \o After(text, cursor)
    /\ cursor' = cursor - 1
    /\ FetchCompletion(FALSE)
    /\ UNCHANGED <<requests, answers, items, selected>>

(* By key or mouse; the popup stays.                                       *)
MoveCursor(c) ==
    /\ c # cursor
    /\ CountEdit
    /\ cursor' = c
    /\ UNCHANGED <<text, timer, requests, answers, popup>>

(* By Ctrl+Tab, which closes the popup, or by the mouse, which does not.   *)
SwitchTab(t, byKey) ==
    /\ t # text
    /\ CountEdit
    /\ text' = t
    /\ cursor' \in {0, Len(t)}
    /\ visible' = (visible /\ ~byKey)
    /\ UNCHANGED <<timer, requests, answers, items, selected>>

TimerFires ==
    /\ timer # Nothing
    /\ Room
    /\ requests' = requests \cup {timer}
    /\ timer' = Nothing
    /\ UNCHANGED <<text, cursor, answers, popup, edits>>

(* Ctrl+Space; under an open popup the key is not seen.                    *)
TriggerCompletion ==
    /\ ~visible
    /\ Room
    /\ requests' = requests \cup {Asking(text, cursor)}
    /\ UNCHANGED <<text, cursor, timer, answers, popup, edits>>

(* The commands are sent by tasks: they may be handled in any order.       *)
HandleFetchCompletion(r) ==
    /\ requests' = requests \ {r}
    /\ answers' = Append(answers, Complete(r.text, r.cursor))
    /\ UNCHANGED <<text, cursor, timer, popup, edits>>

(* Mutant: the row that was selected stays selected.                       *)
CompletionReadySelected ==
    /\ answers # <<>>
    /\ answers' = Tail(answers)
    /\ visible' = (Head(answers) # <<>>)
    /\ items' = IF Head(answers) = <<>> THEN items ELSE Head(answers)
    /\ UNCHANGED <<text, cursor, timer, requests, selected, edits>>

CompletionReady ==
    /\ answers # <<>>
    /\ answers' = Tail(answers)
    /\ visible' = (Head(answers) # <<>>)
    /\ IF Head(answers) = <<>> THEN UNCHANGED <<items, selected>>
       ELSE items' = Head(answers) /\ selected' = 0
    /\ UNCHANGED <<text, cursor, timer, requests, edits>>

SelectRow ==
    /\ visible
    /\ \/ selected > 0 /\ selected' = selected - 1
       \/ selected < Len(items) - 1 /\ selected' = selected + 1
    /\ UNCHANGED <<text, cursor, timer, requests, answers, visible, items, edits>>

(* Escape; Tab closes the popup too and then indents.                      *)
ClosePopup ==
    /\ visible
    /\ visible' = FALSE
    /\ UNCHANGED <<text, cursor, timer, requests, answers, items, selected, edits>>

AskedAgain(item, done) ==
    IF item.offset = 0 /\ done.cursor = Len(done.text) /\ ~IsTerminalExpression(done.text)
    THEN {Asking(Append(done.text, " "), done.cursor + 1)} ELSE {}

(* Enter puts the selected candidate in and asks what may follow, as if a  *)
(* blank did.  The timer of a keystroke before goes on.                    *)
Accept ==
    /\ visible
    /\ Room /\ CountEdit
    /\ LET item == items[selected + 1]
           done == AcceptCompletion(text, cursor, item)
       IN /\ text' = done.text
          /\ cursor' = done.cursor
          /\ requests' = requests \cup AskedAgain(item, done)
    /\ visible' = FALSE
    /\ UNCHANGED <<timer, answers, items, selected>>

CompletionNext ==
    \/ \E key \in Keys : Type(key)
    \/ Backspace
    \/ \E c \in 0 .. Len(text) : MoveCursor(c)
    \/ \E t \in Starts, byKey \in BOOLEAN : SwitchTab(t, byKey)
    \/ TimerFires \/ TriggerCompletion
    \/ \E r \in requests : HandleFetchCompletion(r)
    \/ CompletionReady \/ SelectRow \/ ClosePopup \/ Accept

CompletionSpec == CompletionInit /\ [][CompletionNext]_completionVars

(***************************************************************************)
(* Properties                                                              *)
(***************************************************************************)

(* Enter reads the row the popup shows as selected, whatever answers came  *)
(* while the user was choosing: there always is one.                       *)
SelectionInRange == visible => selected \in 0 .. Len(items) - 1

(* A candidate may be put in long after it was computed, at another cursor *)
(* or in another tab.  What stands right of the cursor stays, and so does  *)
(* what stands left of the word before it; a word is replaced whole, never *)
(* from its middle.                                                        *)
AcceptKeepsText ==
    [][Accept =>
         LET item == items[selected + 1]
             full(left, gap) == left \o gap \o item.insert \o After(text, cursor)
         IN \E n \in 0 .. cursor :
              /\ n = cursor \/ At(text, n) \notin IdentChars
              /\ SubSeq(text, n + 1, cursor) \in
                     {<<>>, ExtractPrefix(text, cursor), item.insert \o <<" ">> \o ExtractPrefix(text, cursor)}
              /\ \E left \in {Before(text, n), TrimEnd(Before(text, n))}, gap \in {<<>>, <<" ">>, <<",", " ">>} :
                     text' \in {full(left, gap), TrimEnd(full(left, gap)) \o <<" ", "FROM", " ">> \o item.table}]_completionVars

(* What the FROM or JOIN at i declares: FROM t a or JOIN t AS a.           *)
DeclaredAt(i) ==
    LET rest  == TrimStart(After(text, i))
        table == FirstWord(rest)
        more  == TrimStart(After(rest, Len(table)))
        alias == IF FirstWord(more) = <<"AS">> THEN FirstWord(TrimStart(After(more, 1))) ELSE FirstWord(more)
    IN [table |-> table, alias |-> IF IsSqlKeyword(alias) THEN <<>> ELSE alias]

(* After a dot the columns are those of the table that the alias was       *)
(* declared for, whichever of the joined tables that is.  Stated for       *)
(* clauses that join with JOIN and where no name is used before it is      *)
(* declared: after a comma, and for a table without an alias that an ON    *)
(* names, the word before is taken for the table.                          *)
AliasResolved ==
    \A i \in KeywordAt(text, "FROM") \cup KeywordAt(text, "JOIN") :
        LET d == DeclaredAt(i)
            words == IdentTokens(Before(FromClause(text), i - FirstKwPos(text, "FROM")))
        IN /\ Cardinality(KeywordAt(text, "FROM")) = 1 /\ i >= FirstKwPos(text, "FROM")
           /\ Range(text) \cap (Stops \cup {",", "."}) = {}
           /\ ~IsSqlKeyword(d.table) /\ d.alias # <<>> /\ d.alias \notin Range(words) \cup {d.table}
           => ResolveAlias(text, d.alias) = d.table

=============================================================================
