------------------------------ MODULE GridRows ------------------------------
(***************************************************************************)
(* The rows of a query result: how the grid filters and sorts them, and    *)
(* the texts they are copied and exported as.                              *)
(*                                                                         *)
(* The result is original_data and never changes; the grid shows what the  *)
(* filter leaves of it, sorted by the column last clicked.  A cell is NULL *)
(* or a text, and a text a sequence of characters.  When results arrive,   *)
(* and what is on the screen meanwhile, is in ResultPanel.                 *)
(***************************************************************************)
EXTENDS Lists

CONSTANTS
    Names,      \* the column names
    TableName,  \* the table an INSERT export is written for
    Cells,      \* for every column, the cells it may have
    Typed,      \* what may be typed in the filter field
    Byte,       \* the characters and their bytes, as far as order goes
    Lower,      \* to_ascii_lowercase: the characters it changes
    Number,     \* parse::<f64>: the texts that are numbers
    NULL,
    MaxRows     \* bound on the rows of the result

Texts == Seq(STRING)

ASSUME NamesOk == Names \in Seq(Texts) /\ Names # <<>> /\ TableName \in Texts
ASSUME CellsOk ==
    \A c \in DOMAIN Names : Cells[c] \ {NULL} \subseteq Texts
ASSUME ValuesOk == \A t \in DOMAIN Number : Number[t] \in Int
ASSUME BytesApart ==
    /\ \A x, y \in DOMAIN Byte : Byte[x] \in Nat /\ (Byte[x] = Byte[y] => x = y)
    /\ \A c \in DOMAIN Names : \A t \in Cells[c] \ {NULL} : \A i \in DOMAIN t : t[i] \in DOMAIN Byte
ASSUME MaxRowsNat == MaxRows \in Nat

VARIABLES
    rows,          \* OriginalQueryData.rows
    arriving,      \* the result is still arriving
    active_filter, \* UiState.result-active-filter
    order,         \* OriginalQueryData.sort_col and sort_asc; column 0 is none
    result_rows    \* UiState.result-rows

rowVars == <<rows, arriving, active_filter, order, result_rows>>

Cols == DOMAIN Names

(* A cell in the grid: the text "" and a flag for NULL.                    *)
rows_to_ui(row) == [c \in Cols |->
    [value |-> IF row[c] = NULL THEN <<>> ELSE row[c], is_null |-> row[c] = NULL]]

Joined(texts, between) ==
    FlattenSeq([i \in DOMAIN texts |-> IF i = 1 THEN texts[i] ELSE between \o texts[i]])

(***************************************************************************)
(* Filter                                                                  *)
(***************************************************************************)

Lowered(t) == [i \in DOMAIN t |-> IF t[i] \in DOMAIN Lower THEN Lower[t[i]] ELSE t[i]]

contains_case_insensitive_ascii(hay, needle) ==
    \E i \in 1 .. Len(hay) + 1 - Len(needle) :
        Lowered(SubSeq(hay, i, i + Len(needle) - 1)) = needle

Trim(t) ==
    LET ink == {i \in DOMAIN t : t[i] # " "} IN
    IF ink = {} THEN <<>> ELSE SubSeq(t, Min(ink), Max(ink))

(* col = 'value': the column and the value, or nothing.                    *)
parse_col_eq(query) ==
    LET signs == {i \in DOMAIN query : query[i] = "="}
        rest  == Trim(SubSeq(query, Min(signs) + 1, Len(query))) IN
    IF signs # {} /\ Len(rest) >= 2 /\ rest[1] = "'" /\ rest[Len(rest)] = "'"
    THEN {<<Trim(SubSeq(query, 1, Min(signs) - 1)), SubSeq(rest, 2, Len(rest) - 1)>>}
    ELSE {}

(* NULL equals no value, and is searched as an empty text.                 *)
Matches(row, query) ==
    IF parse_col_eq(query) # {}
    THEN LET eq    == CHOOSE e \in parse_col_eq(query) : TRUE
             named == {c \in Cols : Lowered(Names[c]) = Lowered(eq[1])} IN
         named # {} /\ row[Min(named)] = eq[2]
    ELSE \E c \in Cols :
            contains_case_insensitive_ascii(rows_to_ui(row)[c].value, Lowered(query))

Found(all, query) == {i \in DOMAIN all : Matches(all[i], Trim(query))}

filter_rows(all, query) == Kept(all, Found(all, query))

(***************************************************************************)
(* Sort                                                                    *)
(***************************************************************************)

TextBefore(a, b) ==
    \E k \in DOMAIN b :
        /\ k - 1 <= Len(a)
        /\ \A j \in 1 .. k - 1 : a[j] = b[j]
        /\ k <= Len(a) => Byte[a[k]] < Byte[b[k]]

(* Numbers by value, other texts by their bytes.                           *)
Before(a, b) ==
    IF a \in DOMAIN Number /\ b \in DOMAIN Number THEN Number[a] < Number[b] ELSE TextBefore(a, b)

(* Mutant: NULL is compared like a value, and goes first when the sort is  *)
(* turned round.                                                           *)
LessNullTurned(x, y, asc) ==
    LET Smaller(a, b) == IF a = NULL \/ b = NULL THEN a # NULL /\ b = NULL ELSE Before(a, b)
    IN IF asc THEN Smaller(x, y) ELSE Smaller(y, x)
Less(x, y, asc) ==
    IF x = NULL \/ y = NULL THEN x # NULL /\ y = NULL
    ELSE IF asc THEN Before(x, y) ELSE Before(y, x)

(* The insertion sort that sort_by is for so few rows: a row goes before   *)
(* the rows at the end of what is sorted that it is less than.             *)
sort_rows(all, col, asc) ==
    LET Place(sorted, row) ==
            Max({0} \cup {i \in DOMAIN sorted : ~ Less(row[col], sorted[i][col], asc)})
    IN FoldLeft(LAMBDA sorted, row : InsertAt(sorted, Place(sorted, row) + 1, row), <<>>, all)

(***************************************************************************)
(* Copy                                                                    *)
(***************************************************************************)

cells_to_tsv(texts)  == Joined(texts, <<"\t">>)
result_to_tsv(lines) == Joined(<<cells_to_tsv(Names)>> \o [i \in DOMAIN lines |-> cells_to_tsv(lines[i])], <<"\n">>)

GridText(row) == [c \in Cols |-> row[c].value]

(* Mutant: the rows of the result instead of those shown.                  *)
CopyAll == result_to_tsv([i \in DOMAIN rows |-> GridText(rows_to_ui(rows[i]))])
CopyRow(i) == cells_to_tsv(GridText(result_rows[i]))
CopyTsv    == result_to_tsv([i \in DOMAIN result_rows |-> GridText(result_rows[i])])

(***************************************************************************)
(* Export: the whole result, whatever is filtered                          *)
(***************************************************************************)

(* A tab keeps a spreadsheet from reading a formula.                       *)
sanitize_cell(t) == IF t # <<>> /\ t[1] \in {"=", "+", "-", "@", "\t", "\r"} THEN <<"\t">> \o t ELSE t

Doubled(t, q) == FlattenSeq([i \in DOMAIN t |-> IF t[i] = q THEN <<q, q>> ELSE <<t[i]>>])

Quoted(t, q) == <<q>> \o Doubled(t, q) \o <<q>>

(* csv::Writer: quotes where they are needed; they are around an empty     *)
(* text that is alone in its line, since readers skip a line that is       *)
(* empty.                                                                  *)
CsvField(t, alone) ==
    IF (alone /\ t = <<>>) \/ \E i \in DOMAIN t : t[i] \in {",", "\"", "\n", "\r"}
    THEN Quoted(t, "\"") ELSE t

Record(fields) == Joined(fields, <<",">>) \o <<"\n">>

(* Mutant: the tab outside the quotes.                                     *)
CsvQuotedFirst(all) ==
    LET Field(t) == CsvField(t, Len(Names) = 1)
        Safe(t)  == sanitize_cell(Field(t))
    IN FlattenSeq(<<Record([c \in Cols |-> Field(Names[c])])>>
                  \o [i \in DOMAIN all |-> Record([c \in Cols |-> Safe(GridText(rows_to_ui(all[i]))[c])])])
result_to_csv(all) ==
    LET Line(texts) == Record([c \in Cols |-> CsvField(texts[c], Len(Names) = 1)])
        Safe(row)   == [c \in Cols |-> sanitize_cell(GridText(rows_to_ui(row))[c])]
    IN FlattenSeq(<<Line(Names)>> \o [i \in DOMAIN all |-> Line(Safe(all[i]))])

(* INSERT INTO "table" ("column", ...) VALUES ('value', NULL, ...);        *)
Listed(pieces) == <<"(">> \o Joined(pieces, <<",", " ">>) \o <<")">>
Insert(row) ==
    <<"INSERT", " ">> \o Quoted(TableName, "\"") \o <<" ">>
    \o Listed([c \in Cols |-> Quoted(Names[c], "\"")])
    \o <<" ", "VALUES", " ">>
    \o Listed([c \in Cols |-> IF row[c] = NULL THEN <<"NULL">> ELSE Quoted(row[c], "'")])
    \o <<"semicolon", "\n">>
result_to_insert_sql(all) == FlattenSeq([i \in DOMAIN all |-> Insert(all[i])])

(* What is written is the result, not what the grid shows of it.           *)
ExportCsv       == result_to_csv(rows)
ExportInsertSql == result_to_insert_sql(rows)

-----------------------------------------------------------------------------
RowsInit ==
    /\ rows = <<>> /\ arriving = TRUE
    /\ active_filter = <<>> /\ order = [col |-> 0, asc |-> TRUE]
    /\ result_rows = <<>>

Grid(query, s) ==
    LET kept == filter_rows(rows, query)
        all  == IF s.col = 0 THEN kept ELSE sort_rows(kept, s.col, s.asc)
    IN [i \in DOMAIN all |-> rows_to_ui(all[i])]

(* The result of a query, row by row.                                      *)
Receive ==
    /\ arriving /\ Len(rows) < MaxRows
    /\ \E row \in {r \in [Cols -> UNION {Cells[c] : c \in Cols}] : \A c \in Cols : r[c] \in Cells[c]} :
         rows' = Append(rows, row)
    /\ UNCHANGED <<arriving, active_filter, order, result_rows>>

Show ==
    /\ arriving
    /\ arriving' = FALSE
    /\ result_rows' = Grid(<<>>, order)
    /\ UNCHANGED <<rows, active_filter, order>>

FilterResultRows(query) ==
    /\ ~ arriving
    /\ result_rows' = Grid(query, order) /\ active_filter' = query
    /\ UNCHANGED <<rows, arriving, order>>

SortResultCol(c) ==
    /\ ~ arriving
    /\ order' = [col |-> c, asc |-> IF order.col = c THEN ~ order.asc ELSE TRUE]
    /\ result_rows' = Grid(active_filter, order')
    /\ UNCHANGED <<rows, arriving, active_filter>>

RowsNext ==
    \/ Receive \/ Show
    \/ \E query \in Typed \cup {<<>>} : FilterResultRows(query)
    \/ \E c \in Cols : SortResultCol(c)

RowsSpec == RowsInit /\ [][RowsNext]_rowVars

-----------------------------------------------------------------------------
(* Readers of the three texts, as other programs have them.  after[i] has  *)
(* the one state of a reader after i characters, in a set so that TLC has  *)
(* it before it makes the next.                                            *)

(* Comma separated fields, those that begin with a quote quoted.  An empty *)
(* line is none.                                                           *)
CsvStep(a, x) ==
    LET Blank == x = "\n" /\ a.mode = "start" /\ a.fields = <<>> IN
    CASE a.mode = "quoted" /\ x # "\"" -> [a EXCEPT !.text = Append(@, x)]
      [] a.mode = "quoted" /\ x = "\"" -> [a EXCEPT !.mode = "closing"]
      [] a.mode = "closing" /\ x = "\"" -> [a EXCEPT !.mode = "quoted", !.text = Append(@, x)]
      [] a.mode = "start" /\ x = "\""   -> [a EXCEPT !.mode = "quoted"]
      [] a.mode # "quoted" /\ x = ","  ->
            [a EXCEPT !.mode = "start", !.text = <<>>, !.fields = Append(@, a.text)]
      [] Blank -> a
      [] a.mode # "quoted" /\ x = "\n" /\ ~ Blank ->
            [a EXCEPT !.mode = "start", !.text = <<>>, !.fields = <<>>,
                      !.lines = Append(@, Append(a.fields, a.text))]
      [] OTHER -> [a EXCEPT !.mode = "plain", !.text = Append(@, x)]

ReadCsv(text) ==
    LET after[i \in 0 .. Len(text)] ==
            IF i = 0 THEN {[mode |-> "start", text |-> <<>>, fields |-> <<>>, lines |-> <<>>]}
            ELSE {CsvStep(a, text[i]) : a \in after[i - 1]}
    IN (CHOOSE a \in after[Len(text)] : TRUE).lines

(* Tokens of SQL: quoted texts, and what is outside them without blanks.   *)
(* A quote is half of two, or the end.                                     *)
SqlClose(a) ==
    IF a.quote = "" THEN a
    ELSE [a EXCEPT !.quote = "", !.half = FALSE, !.text = <<>>, !.tokens = Append(@, <<a.quote, a.text>>)]

SqlOutside(a, x) ==
    CASE x \in {"'", "\""} -> [a EXCEPT !.quote = x]
      [] x \in {" ", "\n"} -> a
      [] OTHER             -> [a EXCEPT !.tokens = Append(@, <<x>>)]

SqlStep(a, x) ==
    CASE a.quote = ""                     -> SqlOutside(a, x)
      [] a.quote # "" /\ a.half           -> IF x = a.quote THEN [a EXCEPT !.half = FALSE, !.text = Append(@, x)]
                                             ELSE SqlOutside(SqlClose(a), x)
      [] a.quote # "" /\ ~ a.half         -> IF x = a.quote THEN [a EXCEPT !.half = TRUE]
                                             ELSE [a EXCEPT !.text = Append(@, x)]

ReadSql(text) ==
    LET after[i \in 0 .. Len(text)] ==
            IF i = 0 THEN {[quote |-> "", half |-> FALSE, text |-> <<>>, tokens |-> <<>>]}
            ELSE {SqlStep(a, text[i]) : a \in after[i - 1]}
    IN SqlClose(CHOOSE a \in after[Len(text)] : TRUE).tokens

Split(text, at) ==
    FoldLeft(LAMBDA acc, x : IF x = at THEN Append(acc, <<>>)
                             ELSE [acc EXCEPT ![Len(acc)] = Append(@, x)], <<<<>>>>, text)

-----------------------------------------------------------------------------
(* Properties.                                                             *)

(* After any filters and clicks on headers the grid has every row of the   *)
(* result the filter asks for, as often as the result has it, NULL last in *)
(* both directions, and rows that tie in the order of the result.  The     *)
(* order of the others is right when the values of the column are all      *)
(* numbers or none is: over a mixed column the comparison is no order.     *)
ShownInOrder ==
    LET kept   == Found(rows, active_filter)
        values == IF order.col = 0 THEN {} ELSE {rows[i][order.col] : i \in kept} \ {NULL}
        pure   == values \subseteq DOMAIN Number \/ values \cap DOMAIN Number = {}
        cell(i) == IF order.col = 0 THEN NULL ELSE rows[i][order.col]
        Goes(i, j) ==
            \/ cell(i) # NULL /\ cell(j) = NULL
            \/ cell(i) # NULL /\ cell(j) # NULL /\ (IF order.asc THEN Before(cell(i), cell(j)) ELSE Before(cell(j), cell(i)))
        Follows(i, j) == Goes(i, j) \/ (~ Goes(j, i) /\ i < j)
    IN ~ arriving =>
        /\ Len(result_rows) = Cardinality(kept)
        /\ \A i \in kept : \E k \in DOMAIN result_rows : result_rows[k] = rows_to_ui(rows[i])
        /\ \A k \in DOMAIN result_rows, m \in DOMAIN result_rows :
             k < m /\ order.col # 0 /\ result_rows[k][order.col].is_null => result_rows[m][order.col].is_null
        /\ pure => \A i \in kept :
             result_rows[1 + Cardinality({j \in kept : Follows(j, i)})] = rows_to_ui(rows[i])

(* What is copied is what is shown: when no cell and no name of a column   *)
(* has a tab or a line end the lines copied, header first, are the rows of *)
(* the grid, and a row copied alone is its line.                           *)
CopyIsGrid ==
    LET lines == Split(CopyTsv, "\n")
        Plain(t) == \A i \in DOMAIN t : t[i] \notin {"\t", "\n"}
    IN ~ arriving /\ (\A c \in Cols : Plain(Names[c]) /\ \A i \in DOMAIN result_rows : Plain(result_rows[i][c].value)) =>
        /\ [i \in DOMAIN lines |-> Split(lines[i], "\t")]
             = <<Names>> \o [i \in DOMAIN result_rows |-> GridText(result_rows[i])]
        /\ \A i \in DOMAIN result_rows : CopyRow(i) = lines[i + 1]

(* An export reads back as the result: every row of the CSV file has the   *)
(* texts of its cells, those that a spreadsheet would take for a formula   *)
(* behind a tab; the SQL file has one INSERT a row, in order, and each     *)
(* names the table and the columns and has the values, NULL apart from the *)
(* empty text; whatever quotes, commas and line ends are in them.          *)
ReadBack ==
    LET Safe(row) == [c \in Cols |-> sanitize_cell(GridText(rows_to_ui(row))[c])]
        Group(tokens) ==
            <<<<"(">>>> \o Joined([c \in Cols |-> <<tokens[c]>>], <<<<",">>>>) \o <<<<")">>>>
        Tokens(row) ==
            <<<<"INSERT">>, <<"\"", TableName>>>> \o Group([c \in Cols |-> <<"\"", Names[c]>>])
            \o <<<<"VALUES">>>>
            \o Group([c \in Cols |-> IF row[c] = NULL THEN <<"NULL">> ELSE <<"'", row[c]>>])
            \o <<<<"semicolon">>>>
    IN  /\ ReadCsv(ExportCsv) = <<Names>> \o [i \in DOMAIN rows |-> Safe(rows[i])]
        /\ ReadSql(ExportInsertSql) = FlattenSeq([i \in DOMAIN rows |-> Tokens(rows[i])])

(* The rows change only while they arrive, so this is every result.        *)
ExportsReadBack == arriving => ReadBack
=============================================================================
