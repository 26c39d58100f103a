------------------------------ MODULE SqlText ------------------------------
(***************************************************************************)
(* What wf-query reads in the text of the editor: the colours of the       *)
(* highlighter, the :name parameters, the statements and which of them     *)
(* change data.                                                            *)
(*                                                                         *)
(* A text is a sequence of characters, and a run of letters that never     *)
(* needs to be cut is one character: a keyword, a name, a digit.  Offsets  *)
(* are counted from 1 and an end is the first position after.  Case is     *)
(* left out.  Three functions of the code (tokenize, extract_params,       *)
(* substitute_params) repeat the scan of comments and quotes line by line; *)
(* it is written once here.  What follows it differs, and is written for   *)
(* each.                                                                   *)
(***************************************************************************)
EXTENDS EditorText

CONSTANTS
    Keyboards,  \* sets of keys: what one user types, each key a sequence
    MaxTyped,     \* bound on the length of a text
    Letters,    \* the characters of words that are not digits
    Digits,
    Keywords,   \* KEYWORDS of the highlighter
    WriteWords, \* the words that begin a statement that changes data
    Values      \* what a parameter may be replaced by

ASSUME MaxTypedNat == MaxTyped \in Nat
ASSUME KeysAreTexts == \A keyboard \in Keyboards : keyboard \subseteq Seq(STRING)
ASSUME LettersApart ==
    /\ Letters \cap Digits = {}
    /\ (Letters \cup Digits) \cap
         {"", " ", "\n", "-", "/", "*", "'", "\"", "backtick", "backslash", "$", ":", ".", "+", "semicolon", "(", ")", ",", "="} = {}
ASSUME WriteWordsKnown == WriteWords \subseteq Letters
ASSUME ValuesAreTexts == Values \subseteq Seq(STRING)

VARIABLE keys \* the keyboard of this run

typingVars == <<keys, text>>

WordChars == Letters \cup Digits
Whitespace    == {" ", "\n"}

(* The first position of S, or else the end d.                             *)
FirstOf(S, d) == Min(S \cup {d})

(* The end of the run of characters of C at i.                             *)
RunEnd(t, i, C) == FirstOf({j \in i .. Len(t) : t[j] \notin C}, Len(t) + 1)

(***************************************************************************)
(* Comments and quotes                                                     *)
(***************************************************************************)

LineEnd(t, i)     == FirstOf({j \in i + 2 .. Len(t) : t[j] = "\n"}, Len(t) + 1)
BlockEnd(t, i)    == FirstOf({j + 2 : j \in {k \in i + 2 .. Len(t) - 1 : t[k] = "*" /\ t[k + 1] = "/"}}, Len(t) + 1)
BacktickEnd(t, i) == FirstOf({j + 1 : j \in {k \in i + 1 .. Len(t) : t[k] = "backtick"}}, Len(t) + 1)

(* A doubled quote stays inside; a backslash takes the next character      *)
(* along, in single quotes.                                                *)
QuoteEnd(t, i, q) ==
    LET n == Len(t)
        from[j \in i + 1 .. n + 2] ==
            IF j > n THEN n + 1
            ELSE IF t[j] = q THEN IF At(t, j + 1) = q THEN from[j + 2] ELSE j + 1
            ELSE IF q = "'" /\ t[j] = "backslash" THEN from[j + 2]
            ELSE from[j + 1]
    IN from[i + 1]

(* The end of the opening tag $...$ at i, 0 when there is none.            *)
ScanDollarTag(t, i) ==
    LET j == RunEnd(t, i + 1, WordChars) IN IF At(t, j) = "$" THEN j + 1 ELSE 0

DollarEnd(t, i) ==
    LET body == ScanDollarTag(t, i)
        size == body - i
    IN FirstOf({j + size : j \in {k \in body .. Len(t) - size + 1 : Upto(t, k, k + size) = Upto(t, i, body)}}, Len(t) + 1)

(* The end of the comment or the quoted text that begins at i, i if none.  *)
SkipFrom(t, i) ==
    CASE t[i] = "-" /\ At(t, i + 1) = "-" -> LineEnd(t, i)
      [] t[i] = "/" /\ At(t, i + 1) = "*" -> BlockEnd(t, i)
      [] t[i] \in {"'", "\""}             -> QuoteEnd(t, i, t[i])
      [] t[i] = "backtick"                       -> BacktickEnd(t, i)
      [] t[i] = "$" /\ ScanDollarTag(t, i) # 0 -> DollarEnd(t, i)
      [] OTHER                            -> i

(* A colon and a name; the second colon of a cast begins no name.          *)
ParamAt(t, i) ==
    /\ t[i] = ":"
    /\ At(t, i + 1) \in Letters
    /\ At(t, i - 1) # ":"

(***************************************************************************)
(* Parameters                                                              *)
(***************************************************************************)

(* The parameters of the text from left to right, as <<start, end>>.       *)
Placeholders(t) ==
    LET n == Len(t)
        from[i \in 1 .. n + 1] ==
            IF i = n + 1 THEN <<>>
            ELSE LET end == RunEnd(t, i + 1, WordChars) IN
                 CASE SkipFrom(t, i) # i -> from[SkipFrom(t, i)]
                   [] ParamAt(t, i)      -> <<<<i, end>>>> \o from[end]
                   [] OTHER              -> from[i + 1]
    IN from[1]

(* The replacements are made from the last one to the first, so that the   *)
(* offsets of those that remain are right.  The dialog has a value for     *)
(* every name; here they all have the same.                                *)
Replaced(t, where, value) == Upto(t, 1, where[1]) \o value \o Upto(t, where[2], Len(t) + 1)
(* Mutant: from the first one to the last.                                 *)
SubstituteFromFirst(t, value) == FoldLeft(LAMBDA acc, p : Replaced(acc, p, value), t, Placeholders(t))
SubstituteParams(t, value)    == FoldLeft(LAMBDA acc, p : Replaced(acc, p, value), t, Reverse(Placeholders(t)))

(***************************************************************************)
(* The highlighter                                                         *)
(***************************************************************************)

(* Mutant: a sign is taken along without an exponent.                      *)
NumberEndSigned(t, i) == LET end == RunEnd(t, i, Digits) IN IF At(t, end) \in {"+", "-"} THEN end + 1 ELSE end

(* Digits, a point and digits, then an exponent with its sign.  What may   *)
(* follow 0x is letters and digits: it is left to the word after.          *)
NumberEnd(t, i) ==
    LET whole == RunEnd(t, i, Digits)
        point == IF At(t, whole) = "." THEN RunEnd(t, whole + 1, Digits) ELSE whole
        sign  == IF At(t, point + 1) \in {"+", "-"} THEN point + 2 ELSE point + 1
    IN IF At(t, point) = "e" THEN RunEnd(t, sign, Digits) ELSE point

NumberAt(t, i) == t[i] \in Digits \/ (t[i] = "." /\ At(t, i + 1) \in Digits)

Token(i, end, kind) == <<[from |-> i, end |-> end, kind |-> kind]>>

IsKeyword(word) == Len(word) = 1 /\ word[1] \in Keywords

(* A word that is no keyword gives no token: FillLine draws it.            *)
KeywordToken(t, i, end) == IF IsKeyword(Upto(t, i, end)) THEN Token(i, end, "keyword") ELSE <<>>
ParamToken(i, end)      == Token(i, end, "param")

Tokenize(t) ==
    LET n == Len(t)
        from[i \in 1 .. n + 1] ==
            IF i = n + 1 THEN <<>>
            ELSE LET skip == SkipFrom(t, i)
                     word == RunEnd(t, i, WordChars)
                     name == RunEnd(t, i + 1, WordChars)
                 IN CASE skip # i ->
                           Token(i, skip, IF t[i] \in {"-", "/"} THEN "comment" ELSE "string") \o from[skip]
                      [] skip = i /\ NumberAt(t, i) ->
                           Token(i, NumberEnd(t, i), "number") \o from[NumberEnd(t, i)]
                      [] t[i] \in Letters -> KeywordToken(t, i, word) \o from[word]
                      [] ParamAt(t, i)    -> ParamToken(i, name) \o from[name]
                      [] OTHER -> from[i + 1]
    IN from[1]

(* Where each line begins, from line 1, and the line of a position.        *)
LineStarts(t) == Ascending({i \in 1 .. Len(t) + 1 : i = 1 \/ t[i - 1] = "\n"}, Len(t) + 1)
FindLine(starts, i) == Max({l \in DOMAIN starts : starts[l] <= i})
LineText(t, starts, l) == Upto(t, starts[l], IF l < Len(starts) THEN starts[l + 1] - 1 ELSE Len(t) + 1)

Span(line, col, body, kind) ==
    IF body = <<>> THEN <<>> ELSE <<[line |-> line, col |-> col, body |-> body, kind |-> kind]>>

(* A token gives one span for each of its lines.                           *)
EmitSpans(t, starts, tok) ==
    LET first == FindLine(starts, tok.from)
        last  == FindLine(starts, tok.end - 1)
        from(l) == IF l = first THEN tok.from ELSE starts[l]
        end(l)  == IF l = last THEN tok.end ELSE starts[l + 1] - 1
    IN FlattenSeq([k \in 1 .. last - first + 1 |->
           LET l == first + k - 1
           IN Span(l, from(l) - starts[l], Upto(t, from(l), end(l)), tok.kind)])

OnLine(spans, l) == Kept(spans, {k \in DOMAIN spans : spans[k].line = l})

(* The plain text of a line after its k-th span and before end.            *)
Gap(line, body, spans, k, end) ==
    LET cursor == IF k = 0 THEN 0 ELSE spans[k].col + Len(spans[k].body)
    IN Span(line, cursor, SubSeq(body, cursor + 1, end), "identifier")

(* Mutant: the text after the last span is not drawn.                      *)
FillLineNoTail(line, body, spans) ==
    FlattenSeq([k \in DOMAIN spans |-> Gap(line, body, spans, k - 1, spans[k].col) \o <<spans[k]>>])

(* Each span with the plain text before it, and what is after the last.    *)
(* The spans come in order and stay in their line, so that the sort and    *)
(* the clamps of fill_gaps change nothing (PlacedLined proves it).         *)
FillLine(line, body, spans) ==
    FlattenSeq([k \in DOMAIN spans |-> Gap(line, body, spans, k - 1, spans[k].col) \o <<spans[k]>>])
        \o Gap(line, body, spans, Len(spans), Len(body))

FillGaps(t, starts, spans) ==
    FlattenSeq([l \in DOMAIN starts |-> FillLine(l, LineText(t, starts, l), OnLine(spans, l))])

Highlight(t) ==
    LET toks   == Tokenize(t)
        starts == LineStarts(t)
    IN FillGaps(t, starts, FlattenSeq([k \in DOMAIN toks |-> EmitSpans(t, starts, toks[k])]))

(***************************************************************************)
(* Statements                                                              *)
(***************************************************************************)

Trim(s) ==
    LET solid == {i \in DOMAIN s : s[i] \notin Whitespace}
    IN IF solid = {} THEN <<>> ELSE SubSeq(s, Min(solid), Max(solid))

(* Comments in front of a statement, and what is blank between them.       *)
StripLeadingComments(s) ==
    LET from[i \in 1 .. Len(s) + 1] ==
            CASE At(s, i) = "-" /\ At(s, i + 1) = "-" -> from[RunEnd(s, LineEnd(s, i), Whitespace)]
              [] At(s, i) = "/" /\ At(s, i + 1) = "*" -> from[RunEnd(s, BlockEnd(s, i), Whitespace)]
              [] OTHER -> Upto(s, i, Len(s) + 1)
    IN from[1]

(* Every semicolon cuts, in a comment or in quotes too.  offset counts the *)
(* characters before the segment.                                          *)
Segments(t) ==
    LET cuts == <<0>> \o Ascending({i \in DOMAIN t : t[i] = "semicolon"}, Len(t)) \o <<Len(t) + 1>>
    IN [k \in 1 .. Len(cuts) - 1 |-> [offset |-> cuts[k], body |-> Upto(t, cuts[k] + 1, cuts[k + 1])]]

ExtractAllStatements(t) ==
    LET segs  == Segments(t)
        parts == [k \in DOMAIN segs |-> Trim(segs[k].body)]
    IN Kept(parts, {k \in DOMAIN parts : parts[k] # <<>>})

(* The statement for a cursor with c characters before it.  A segment that *)
(* has only just begun on a new line is not yet it: the one before is.     *)
StatementIn(segs, k, c) ==
    LET body  == segs[k].body
        lead  == RunEnd(body, 1, Whitespace) - 1
        code(j) == StripLeadingComments(Trim(segs[j].body))
        earlier == {j \in 1 .. k - 1 : code(j) # <<>>}
    IN IF Trim(body) = <<>> \/ (c < segs[k].offset + lead /\ "\n" \in Range(SubSeq(body, 1, lead)))
       THEN IF earlier = {} THEN <<>> ELSE code(Max(earlier))
       ELSE code(k)

(* Mutant: a cursor on the semicolon is in the statement after it.         *)
ExtractStatementAfter(t, c) ==
    LET segs == Segments(t)
        here == {k \in DOMAIN segs : c < segs[k].offset + Len(segs[k].body)}
    IN StatementIn(segs, IF here = {} THEN Len(segs) ELSE Min(here), c)

ExtractStatementAt(t, c) ==
    LET segs == Segments(t)
    IN StatementIn(segs, Min({k \in DOMAIN segs : c <= segs[k].offset + Len(segs[k].body)}), c)

HasDangerousDml(t) ==
    \E stmt \in Range(ExtractAllStatements(t)) :
        LET s == StripLeadingComments(stmt)
        IN /\ At(s, 1) \in {"UPDATE", "DELETE"} /\ At(s, 2) = " "
           /\ ~ \E i \in DOMAIN s : Upto(s, i, FirstOf({i + 3}, Len(s) + 1)) = <<" ", "WHERE", " ">>

IsWriteStatement(t) ==
    \E stmt \in Range(ExtractAllStatements(t)) :
        LET s == StripLeadingComments(stmt)
        IN At(s, 1) \in WriteWords /\ At(s, 2) \notin WordChars

(***************************************************************************)
(* Typing                                                                  *)
(***************************************************************************)

TypingInit == keys \in Keyboards /\ text = <<>>

Press(key) ==
    /\ Len(text) + Len(key) <= MaxTyped
    /\ text' = text \o key
    /\ UNCHANGED keys

Clear ==
    /\ text # <<>>
    /\ text' = <<>>
    /\ UNCHANGED keys

TypingNext == (\E key \in keys : Press(key)) \/ Clear

TypingSpec == TypingInit /\ [][TypingNext]_typingVars

(***************************************************************************)
(* Properties                                                              *)
(***************************************************************************)

TypedOK == keys \in Keyboards /\ text \in Seq(STRING) /\ Len(text) <= MaxTyped

(* The editor draws its text through the spans of the highlighter only     *)
(* (the input itself is transparent), so every character of every line     *)
(* must be in exactly one span, at its column.  A quote or a comment left  *)
(* open at the end of the text may carry the last newline along.           *)
HighlightCovers ==
    LET spans  == Highlight(text)
        starts == LineStarts(text)
    IN \A l \in DOMAIN starts :
         LET of    == OnLine(spans, l)
             drawn == FlattenSeq([k \in DOMAIN of |-> of[k].body])
         IN /\ drawn \in {LineText(text, starts, l), LineText(text, starts, l) \o <<"\n">>}
            /\ \A k \in DOMAIN of : of[k].col = Len(FlattenSeq([j \in 1 .. k - 1 |-> of[j].body]))

(* 1e-- is the one text the two scans read differently: an exponent and a  *)
(* minus to the highlighter, the end of the code to the others.            *)
SignedExponent == \E i \in DOMAIN text : text[i] = "e" /\ At(text, i - 1) \in Digits \cup {"."} /\ At(text, i + 1) = "-"

(* What is coloured as a parameter is what the dialog asks a value for,    *)
(* whatever comments, quotes, casts and numbers stand around it.  (The     *)
(* dialog then asks for each name once.)                                   *)
ParamsHighlighted ==
    LET tokens   == Tokenize(text)
        coloured == Kept(tokens, {k \in DOMAIN tokens : tokens[k].kind = "param"})
    IN SignedExponent \/ Placeholders(text) = [k \in DOMAIN coloured |-> <<coloured[k].from, coloured[k].end>>]

(* A closed value leaves no quote or comment open to take in a blank       *)
(* behind it; a parameter stands apart from what its value could run into. *)
Closed(value) == Tokenize(value \o <<" ">>) = Tokenize(value)
Separators  == Whitespace \cup {"(", ")", ",", "="}
Apart(t, p) == {At(t, p[1] - 1), At(t, p[2])} \subseteq Separators \cup {""}

Pieces(t) == LET toks == Tokenize(t) IN [k \in DOMAIN toks |-> <<toks[k].kind, Upto(t, toks[k].from, toks[k].end)>>]

(* The text that runs has the tokens of the text typed, each parameter     *)
(* replaced by those of its value.  No quote is opened or closed, no       *)
(* comment begins, nothing in quotes is touched.  Stated for closed values *)
(* and for parameters that stand apart: a value put next to a quote, a     *)
(* minus or a dollar runs into it.                                         *)
ValuesConfined ==
    \A value \in Values :
        LET typed == Pieces(text)
        IN Closed(value) /\ (\A p \in Range(Placeholders(text)) : Apart(text, p)) /\ ~SignedExponent
           => Pieces(SubstituteParams(text, value))
                = FlattenSeq([k \in DOMAIN typed |-> IF typed[k][1] = "param" THEN Pieces(value) ELSE <<typed[k]>>])

(* Run at the cursor and Run All agree on what the statements are: the     *)
(* cursor runs the one it stands in or right after, and never anything     *)
(* that Run All would not run.  So the two checks give the whole text the  *)
(* verdict of its statements: nothing that a cursor can run is a write, or *)
(* dangerous, unnoticed.                                                   *)
StatementsFound ==
    LET segs  == Segments(text)
        all   == {StripLeadingComments(s) : s \in Range(ExtractAllStatements(text))}
        found == {ExtractStatementAt(text, c) : c \in 0 .. Len(text)}
    IN /\ found \subseteq all \cup {<<>>}
       /\ \A k \in {j \in DOMAIN segs : Trim(segs[j].body) # <<>>} :
            \A c \in RunEnd(segs[k].body, 1, Whitespace) - 1 .. Len(segs[k].body) :
                ExtractStatementAt(text, segs[k].offset + c) = StripLeadingComments(Trim(segs[k].body))
       /\ IsWriteStatement(text) <=> \E s \in found : IsWriteStatement(s)
       /\ HasDangerousDml(text) <=> \E s \in found : HasDangerousDml(s)

============================================================================
