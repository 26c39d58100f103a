------------------------------ MODULE FindBar ------------------------------
(***************************************************************************)
(* The find and replace bar of the editor.                                 *)
(*                                                                         *)
(* FindState caches the matches of the last search; every button and key   *)
(* brings it up to date first.  The terms searched for are kept in a       *)
(* snapshot that ArrowUp and ArrowDown browse by index and that two kinds  *)
(* of tokio tasks touch: a load at each opening of the bar, which replaces *)
(* it by the rows of SQLite, and a save of each term.  The text belongs to *)
(* the editor, which may change it at any time.                            *)
(*                                                                         *)
(* A text is a sequence of letters and a match the position of its first   *)
(* letter, from 1, with its length.  The case and regex flags are part of  *)
(* the query: a toggle runs the same handler as typing.  The terms of the  *)
(* replace field are kept and browsed as those of the find field are, with *)
(* no search; they are left out.                                           *)
(***************************************************************************)
EXTENDS EditorText

CONSTANTS
    Texts,        \* what the user may make of the text
    Queries,      \* what may be typed in the find field, with <<>>
    Replacements, \* what the replace field may hold
    MaxLen,       \* bound on the length of the text
    MaxTerms,     \* terms kept, 30 in the code
    MaxLoads,     \* bound on the load tasks at a time
    None          \* not browsing, nothing highlighted, nothing read

Chars == UNION {ToSet(t) : t \in Texts \cup Queries \cup Replacements}

ASSUME EmptyQuery == <<>> \in Queries
ASSUME SeqsOk     == Texts \cup Queries \cup Replacements \subseteq Seq(Chars)
ASSUME TextsFit   == \A t \in Texts : Len(t) <= MaxLen
ASSUME BoundsNat  == MaxLen \in Nat /\ MaxTerms \in Nat \ {0} /\ MaxLoads \in Nat
ASSUME NoneIsNone == None \notin Int /\ None \notin Seq(Queries)

VARIABLES
    query,   \* UiState.find-query
    shown,   \* UiState.find-current-match, -total-matches and -sel-start
    cache,   \* FindState: last_text, last_query, matches, current
    browse,  \* FindState.find_hist_idx
    draft,   \* FindState.find_draft
    snap,    \* HistorySnapshot.find, the newest term first
    table,   \* the rows of find_history, the newest first
    loads,   \* load tasks: what they have read so far
    saves,   \* terms whose save task has not run
    raced    \* a load has replaced the snapshot while it is browsed

findVars == <<text, query, shown, cache>>
histVars == <<browse, draft, snap, table, loads, saves, raced>>
vars     == <<findVars, histVars>>

(***************************************************************************)
(* Matching                                                                *)
(***************************************************************************)

MatchesAt(t, q, i) ==
    /\ i + Len(q) - 1 <= Len(t)
    /\ SubSeq(t, i, i + Len(q) - 1) = q

(* The leftmost matches that do not overlap, from the left.                *)
ComputeMatches(t, q) ==
    IF q = <<>> THEN <<>>
    ELSE LET from[i \in 1 .. Len(t) + Len(q)] ==
               IF i > Len(t) THEN <<>>
               ELSE IF MatchesAt(t, q, i)
                    THEN <<[at |-> i, len |-> Len(q)]>> \o from[i + Len(q)]
               ELSE from[i + 1]
         IN  from[1]

Splice(t, m, by) == SubSeq(t, 1, m.at - 1) \o by \o SubSeq(t, m.at + m.len, Len(t))

(* The matches are replaced from the last to the first, so that those      *)
(* before keep their place.                                                *)
ReplaceMatches(t, ms, by) ==
    LET upto[k \in 0 .. Len(ms)] ==
          IF k = 0 THEN t ELSE Splice(upto[k - 1], ms[Len(ms) - k + 1], by)
    IN  upto[Len(ms)]

NothingShown == [current |-> 0, total |-> 0, start |-> None]
Current(c)   == c.matches[c.current + 1]
ShownOf(c)   == IF c.matches = <<>> THEN NothingShown
                ELSE [current |-> c.current + 1, total |-> Len(c.matches), start |-> Current(c).at]

(* Mutant: the matches are those of the query, whatever the text is now.   *)
FreshQuery(c, t, q) == c.query = q

(* FindState.update.                                                       *)
Fresh(c, t, q) == c.text = t /\ c.query = q
Update(c, t, q) ==
    IF Fresh(c, t, q) THEN c
    ELSE LET ms == ComputeMatches(t, q)
         IN  [text |-> t, query |-> q, matches |-> ms,
              current |-> IF ms = <<>> THEN 0
                          ELSE IF c.current < Len(ms) THEN c.current ELSE Len(ms) - 1]

(* find-search: last_query is emptied first, to force a new search.        *)
Search(c, t, q) == [Update([c EXCEPT !.query = <<>>], t, q) EXCEPT !.current = 0]

(***************************************************************************)
(* State                                                                   *)
(***************************************************************************)

TypeOK ==
    /\ text \in Seq(Chars) /\ Len(text) <= MaxLen
    /\ query \in Queries /\ draft \in Queries
    /\ snap \in Seq(Queries \ {<<>>}) /\ Len(snap) <= MaxTerms
    /\ browse \in {None} \cup 0 .. MaxTerms - 1
    /\ saves \subseteq Queries \ {<<>>}
    /\ cache.matches # <<>> => cache.current \in 0 .. Len(cache.matches) - 1

Init ==
    /\ text \in Texts
    /\ query = <<>> /\ shown = NothingShown
    /\ cache = [text |-> <<>>, query |-> <<>>, matches |-> <<>>, current |-> 0]
    /\ browse = None /\ draft = <<>> /\ snap = <<>> /\ table = <<>>
    /\ loads = {} /\ saves = {} /\ raced = FALSE

Newest(terms) == SubSeq(terms, 1, IF Len(terms) < MaxTerms THEN Len(terms) ELSE MaxTerms)

(* Mutant: a term goes in front however often it is searched for.          *)
RememberAgain(term) ==
    /\ snap' = <<term>> \o snap
    /\ saves' = saves \cup {term}

(* A term the snapshot does not hold yet comes first; it is saved always.  *)
Remember(term) ==
    /\ snap' = IF Contains(snap, term) THEN snap ELSE Newest(<<term>> \o snap)
    /\ saves' = saves \cup {term}

StopBrowsing == browse' = None /\ raced' = FALSE

(***************************************************************************)
(* Searching                                                               *)
(***************************************************************************)

(* Typing, undo, another tab: the bar is not told.                         *)
EditText(t) ==
    /\ t # text
    /\ text' = t
    /\ UNCHANGED <<query, shown, cache, histVars>>

Searched(q) ==
    /\ query' = q
    /\ cache' = Search(cache, text, q)
    /\ shown' = ShownOf(cache')

(* Mutant: typing leaves the index of the browsing where it is.            *)
TypeQueryBrowsing(q) ==
    /\ Searched(q)
    /\ UNCHANGED <<text, histVars>>

TypeQuery(q) ==
    /\ Searched(q)
    /\ StopBrowsing
    /\ UNCHANGED <<text, draft, snap, table, loads, saves>>

Stepped(c, forward) ==
    LET n == Len(c.matches)
    IN  [c EXCEPT !.current = IF forward THEN (@ + 1) % n ELSE IF @ = 0 THEN n - 1 ELSE @ - 1]

(* A next whose query has changed stays at the match it is at.             *)
Navigated(forward) ==
    LET c == Update(cache, text, query)
    IN  /\ cache' = IF c.matches = <<>> \/ (forward /\ cache.query # query) THEN c
                    ELSE Stepped(c, forward)
        /\ shown' = ShownOf(cache')

(* find-next and find-prev.                                                *)
Step(forward) ==
    /\ Navigated(forward)
    /\ IF cache'.matches # <<>> /\ query # <<>> THEN Remember(query) ELSE UNCHANGED <<snap, saves>>
    /\ UNCHANGED <<text, query, browse, draft, table, loads, raced>>

(* Enter: commit-search, then find-next.                                   *)
Enter ==
    /\ query # <<>>
    /\ StopBrowsing
    /\ draft' = <<>>
    /\ Remember(query)
    /\ Navigated(TRUE)
    /\ UNCHANGED <<text, query, table, loads>>

(***************************************************************************)
(* Replacing                                                               *)
(***************************************************************************)

(* When nothing matches any more, what is shown stays.                     *)
ReplaceOneMatch(by) ==
    LET c == Update(cache, text, query) IN
    /\ IF c.matches = <<>> THEN cache' = c /\ UNCHANGED <<text, shown>>
       ELSE /\ text' = Splice(text, Current(c), by)
            /\ Len(text') <= MaxLen
            /\ cache' = Update([c EXCEPT !.query = <<>>], text', query)
            /\ shown' = ShownOf(cache')
    /\ UNCHANGED <<query, histVars>>

ReplaceAllMatches(by) ==
    LET ms == ComputeMatches(text, query) IN
    /\ ms # <<>>
    /\ text' = ReplaceMatches(text, ms, by)
    /\ Len(text') <= MaxLen
    /\ shown' = NothingShown
    /\ UNCHANGED <<query, cache, histVars>>

(***************************************************************************)
(* The terms of before                                                     *)
(***************************************************************************)

(* The bar opens: the browsing starts anew and a task is spawned to load.  *)
Open ==
    /\ Cardinality(loads) < MaxLoads
    /\ StopBrowsing
    /\ loads' = loads \cup {None}
    /\ UNCHANGED <<findVars, draft, snap, table, saves>>

Close ==
    /\ shown' = [shown EXCEPT !.start = None]
    /\ UNCHANGED <<text, query, cache, histVars>>

ArrowUp ==
    /\ snap # <<>>
    /\ browse' = IF browse = None THEN 0
                 ELSE IF browse + 1 < Len(snap) THEN browse + 1 ELSE Len(snap) - 1
    /\ draft' = IF browse = None THEN query ELSE draft
    /\ Searched(snap[browse' + 1])
    /\ UNCHANGED <<text, snap, table, loads, saves, raced>>

(* Back to the draft, or to a newer term.  The code indexes the snapshot   *)
(* without a look at its length: past its end, the program ends.           *)
ArrowDown ==
    /\ browse # None
    /\ IF browse = 0 THEN StopBrowsing /\ Searched(draft)
       ELSE /\ browse <= Len(snap)
            /\ browse' = browse - 1
            /\ Searched(snap[browse])
            /\ UNCHANGED raced
    /\ UNCHANGED <<text, draft, snap, table, loads, saves>>

(* INSERT OR IGNORE: a term that is there keeps its place.  The write may  *)
(* fail, which is only logged.                                             *)
Save(term) ==
    /\ saves' = saves \ {term}
    /\ \/ UNCHANGED table
       \/ ~ Contains(table, term) /\ table' = <<term>> \o table
    /\ UNCHANGED <<findVars, browse, draft, snap, loads, raced>>

(* A SELECT that fails counts as no rows.                                  *)
LoadRead ==
    /\ None \in loads
    /\ \E rows \in {<<>>, Newest(table)} : loads' = (loads \ {None}) \cup {rows}
    /\ UNCHANGED <<findVars, browse, draft, snap, table, saves, raced>>

LoadDone(rows) ==
    /\ rows # None
    /\ loads' = loads \ {rows}
    /\ snap' = rows
    /\ raced' = (raced \/ browse # None)
    /\ UNCHANGED <<findVars, browse, draft, table, saves>>

Next ==
    \/ \E t \in Texts : EditText(t)
    \/ \E q \in Queries : TypeQuery(q)
    \/ Step(TRUE) \/ Step(FALSE) \/ Enter
    \/ \E by \in Replacements : ReplaceOneMatch(by) \/ ReplaceAllMatches(by)
    \/ Open \/ Close \/ ArrowUp \/ ArrowDown
    \/ \E term \in saves : Save(term)
    \/ LoadRead \/ \E rows \in loads : LoadDone(rows)

Spec == Init /\ [][Next]_vars

(***************************************************************************)
(* Properties                                                              *)
(***************************************************************************)

(* What replacing every match means, letter by letter.                     *)
Substituted(t, q, by) ==
    LET from[i \in 1 .. Len(t) + Len(q)] ==
          IF i > Len(t) THEN <<>>
          ELSE IF MatchesAt(t, q, i) THEN by \o from[i + Len(q)]
          ELSE <<t[i]>> \o from[i + 1]
    IN  from[1]

(* A replacement changes one match of the query in the text as it is now,  *)
(* whatever was typed since the search, and the highlighted one if nothing *)
(* was; Replace All changes exactly the matches.                           *)
ReplaceExact ==
    [][\A by \in Replacements : query # <<>> =>
       /\ ReplaceOneMatch(by) /\ text' # text =>
             \E i \in 1 .. Len(text) :
                 /\ MatchesAt(text, query, i)
                 /\ text' = Splice(text, [at |-> i, len |-> Len(query)], by)
                 /\ Fresh(cache, text, query) => shown.start \in {i, None}
       /\ ReplaceAllMatches(by) => text' = Substituted(text, query, by)]_vars

(* However loads, saves and searches follow each other, no term is listed  *)
(* or stored twice, and the list keeps to its limit.                       *)
TermsOnce ==
    /\ Len(snap) <= MaxTerms
    /\ \A terms \in {snap, table} : \A i, j \in DOMAIN terms : terms[i] = terms[j] => i = j

(* While the terms of before are browsed, the index is a position of the   *)
(* list and the term at that position is what the field holds - unless the *)
(* list was loaded anew meanwhile.                                         *)
BrowsingShowsEntry ==
    browse # None /\ ~ raced => browse < Len(snap) /\ query = snap[browse + 1]
=============================================================================
