---------------------------- MODULE EditorProofs ----------------------------
(***************************************************************************)
(* The tabs of the workspace, for any texts and tables, any number of tabs,*)
(* edits and starts: no text, snapshot or view ends under a tab it does not*)
(* belong to, and a start shows the session that was saved.                *)
(***************************************************************************)
EXTENDS Editor, FiniteSetTheorems, TLAPS

TabRec == [id : Ids, kind : {"sql", "table"}, text : Texts, table : Tables \cup {None}]
Stack  == [undo : Seq(Texts), redo : Seq(Texts)]
Saying == [tab : Ids, text : Texts]

-----------------------------------------------------------------------------
(* The inductive invariant.                                                *)

IdsOf(ts) == {ts[i].id : i \in DOMAIN ts}

(* No two tabs have an identifier in common, there is an SQL tab, and only *)
(* table views have a table.                                               *)
WellTabbed(ts) ==
    /\ \A i, j \in DOMAIN ts : ts[i].id = ts[j].id => i = j
    /\ \E i \in DOMAIN ts : ts[i].kind = "sql"
    /\ \A i \in DOMAIN ts : ts[i].kind = "sql" => ts[i].table = None

TypeTabs ==
    /\ tabs \in Seq(TabRec) /\ active \in DOMAIN tabs
    /\ WellTabbed(tabs) /\ fresh \in 1 .. MaxTabs + 1

TypeRun ==
    /\ run \in {"up", "tabs", "query", "down"}
    /\ starts \in 0 .. MaxStarts /\ edits \in 0 .. MaxEdits

TypeEditor ==
    /\ lastKnown \in Texts /\ burst \in Saying \cup {None} /\ timer \in BOOLEAN
    /\ uiText \in Texts /\ uiTab \in Ids /\ uiSql \in BOOLEAN
    /\ format \in Saying \cup {None}
    /\ content \in [Ids -> Texts] /\ seen \in [Ids -> SUBSET Texts]

TypeDisk == disk \in [active : Nat, entries : Seq(Saved)] /\ lastQuery \in Texts

(* Identifiers are not used twice, and the editor is under an open tab.    *)
Numbered ==
    run # "down" => /\ \A i \in DOMAIN tabs : tabs[i].id < fresh
                    /\ uiTab \in IdsOf(tabs)

TextsOf(st) == Range(st.undo) \cup Range(st.redo)

(* Stacks within their cap, of tabs that are open, with texts seen there.  *)
Sound(sts, sn, open) ==
    /\ sts \in [Ids -> Stack]
    /\ \A id \in Ids : /\ Len(sts[id].undo) <= UndoMax /\ Len(sts[id].redo) <= UndoMax
                       /\ TextsOf(sts[id]) \subseteq sn[id]
                       /\ sts[id] # NoStack => id \in open

BurstSound ==
    burst # None => burst.tab \in IdsOf(tabs) /\ burst.text \in seen[burst.tab]

EditorSeen ==
    run # "down" => uiText \in seen[uiTab] /\ (uiSql => lastKnown \in seen[uiTab])

ShownInRun ==
    run # "down" => /\ uiSql <=> IsSql(active)
                    /\ uiSql => uiTab = Here.id

(* Once the close handler has begun, the tabs have all texts.              *)
TextInRun ==
    run # "down" => \A i \in DOMAIN tabs : IsSql(i) =>
        /\ content[tabs[i].id] = IF i = active THEN uiText ELSE tabs[i].text
        /\ run = "tabs" => content[tabs[i].id] = tabs[i].text

(* The session on disk is the one the user saw last.                       *)
SessionSaved ==
    /\ \A i, j \in DOMAIN disk.entries : disk.entries[i].id = disk.entries[j].id => i = j
    /\ \A i \in DOMAIN disk.entries : disk.entries[i].id < fresh
    /\ disk.entries # <<>> => disk.active \in DOMAIN disk.entries
    /\ goodbye # None =>
          /\ disk.entries # <<>>
          /\ goodbye = [active |-> disk.entries[disk.active].id, tabs |-> disk.entries]

IInv ==
    /\ TypeRun /\ TypeTabs /\ TypeEditor /\ TypeDisk /\ Numbered
    /\ Sound(stacks, seen, IdsOf(tabs)) /\ BurstSound /\ EditorSeen
    /\ ShownInRun /\ TextInRun /\ SessionSaved

-----------------------------------------------------------------------------
(* The SQL tabs among the tabs.                                            *)

SqlSet(ts, i) == {j \in 1 .. i : ts[j].kind = "sql"}

LEMMA SqlSets ==
    ASSUME NEW ts \in Seq(TabRec), NEW i \in Nat
    PROVE  /\ IsFiniteSet(SqlSet(ts, i)) /\ SqlUpTo(ts, i) = Cardinality(SqlSet(ts, i))
           /\ SqlUpTo(ts, i) \in 0 .. i
<1>1. IsFiniteSet(1 .. i) /\ Cardinality(1 .. i) = i
  BY FS_Interval
<1>2. SqlSet(ts, i) \in SUBSET (1 .. i)
  BY DEF SqlSet
<1>3. SqlUpTo(ts, i) = Cardinality(SqlSet(ts, i))
  BY DEF SqlUpTo, SqlSet
<1>4. IsFiniteSet(SqlSet(ts, i)) /\ Cardinality(SqlSet(ts, i)) <= i
  BY <1>1, <1>2, FS_Subset
<1> QED
  BY <1>3, <1>4, FS_CardinalityType

(* There are more of them up to an SQL tab than before it.                 *)
LEMMA SqlGrows ==
    ASSUME NEW ts \in Seq(TabRec), NEW i \in Nat, NEW j \in Nat, i < j
    PROVE  /\ SqlUpTo(ts, i) <= SqlUpTo(ts, j)
           /\ ts[j].kind = "sql" => SqlUpTo(ts, i) < SqlUpTo(ts, j)
<1>1. SqlSet(ts, i) \in SUBSET SqlSet(ts, j)
  BY DEF SqlSet
<1>2. /\ Cardinality(SqlSet(ts, i)) <= Cardinality(SqlSet(ts, j))
      /\ Cardinality(SqlSet(ts, i)) = Cardinality(SqlSet(ts, j)) => SqlSet(ts, i) = SqlSet(ts, j)
  BY <1>1, SqlSets, FS_Subset
<1>3. ts[j].kind = "sql" => j \in SqlSet(ts, j) /\ j \notin SqlSet(ts, i)
  BY DEF SqlSet
<1> QED
  BY <1>2, <1>3, SqlSets

(* Every rank is that of an SQL tab: ranks are as many as SQL tabs, and    *)
(* different tabs have different ones.                                     *)
LEMMA SqlRanked ==
    ASSUME NEW ts \in Seq(TabRec), NEW k \in 1 .. SqlUpTo(ts, Len(ts))
    PROVE  \E i \in DOMAIN ts : ts[i].kind = "sql" /\ SqlUpTo(ts, i) = k
<1> DEFINE S == SqlSet(ts, Len(ts))
           n == SqlUpTo(ts, Len(ts))
           rank == [i \in S |-> SqlUpTo(ts, i)]
<1>1. /\ IsFiniteSet(S) /\ n = Cardinality(S) /\ n \in Nat
      /\ S \subseteq DOMAIN ts /\ \A i \in S : ts[i].kind = "sql" /\ i \in Nat /\ i <= Len(ts)
  <2>1. Len(ts) \in Nat
    OBVIOUS
  <2>2. IsFiniteSet(S) /\ n = Cardinality(S) /\ n \in Nat
    BY <2>1, SqlSets
  <2>3. S \subseteq DOMAIN ts /\ \A i \in S : ts[i].kind = "sql" /\ i \in Nat /\ i <= Len(ts)
    BY DEF SqlSet
  <2> QED
    BY <2>2, <2>3
<1>2. \A i \in S : SqlUpTo(ts, i) \in 1 .. n
  <2> SUFFICES ASSUME NEW i \in S PROVE SqlUpTo(ts, i) \in 1 .. n
    OBVIOUS
  <2>1. i \in Nat /\ i > 0 /\ i <= Len(ts) /\ ts[i].kind = "sql"
    BY DEF SqlSet
  <2>2. SqlUpTo(ts, i) \in Nat /\ SqlUpTo(ts, 0) \in Nat
    BY <2>1, SqlSets
  <2>3. SqlUpTo(ts, 0) < SqlUpTo(ts, i)
    BY <2>1, SqlGrows
  <2>4. SqlUpTo(ts, i) <= n
    <3>1. CASE i = Len(ts)
      BY <3>1, <2>2
    <3>2. CASE i # Len(ts)
      BY <3>2, <2>1, SqlGrows
    <3> QED
      BY <3>1, <3>2
  <2>5. n \in Nat
    BY <1>1
  <2> HIDE DEF n
  <2> QED
    BY <2>2, <2>3, <2>4, <2>5
<1>3. rank \in Injection(S, 1 .. n)
  <2>1. rank \in [S -> 1 .. n]
    BY <1>2
  <2>2. ASSUME NEW i \in S, NEW j \in S, rank[i] = rank[j] PROVE i = j
    <3>1. SqlUpTo(ts, i) = SqlUpTo(ts, j)
      BY <2>2
    <3>2. SqlUpTo(ts, i) \in Nat /\ i \in Nat /\ j \in Nat
      BY <1>1, SqlSets
    <3>3. i < j => SqlUpTo(ts, i) < SqlUpTo(ts, j)
      BY <1>1, SqlGrows
    <3>4. j < i => SqlUpTo(ts, j) < SqlUpTo(ts, i)
      BY <1>1, SqlGrows
    <3> QED
      BY <3>1, <3>2, <3>3, <3>4
  <2> QED
    BY <2>1, <2>2 DEF Injection, IsInjective
<1>4. IsFiniteSet(1 .. n) /\ Cardinality(1 .. n) = n
  BY <1>1, FS_Interval
<1>5. rank \in Surjection(S, 1 .. n)
  <2> HIDE DEF rank, S, n
  <2> QED
    BY <1>1, <1>3, <1>4, FS_Injection
<1>6. PICK i \in S : rank[i] = k
  BY <1>5 DEF Surjection
<1>7. SqlUpTo(ts, i) = k
  BY <1>6
<1>8. i \in DOMAIN ts /\ ts[i].kind = "sql"
  BY <1>1
<1> QED
  BY <1>7, <1>8

LEMMA SqlAtRank ==
    ASSUME NEW ts \in Seq(TabRec), NEW k \in 1 .. SqlUpTo(ts, Len(ts))
    PROVE  /\ SqlAt(ts, k) \in DOMAIN ts /\ ts[SqlAt(ts, k)].kind = "sql"
           /\ SqlUpTo(ts, SqlAt(ts, k)) = k
BY SqlRanked DEF SqlAt

(* And an SQL tab is found at its rank.                                    *)
LEMMA RankOfSql ==
    ASSUME NEW ts \in Seq(TabRec), NEW i \in DOMAIN ts, ts[i].kind = "sql"
    PROVE  /\ SqlUpTo(ts, i) \in 1 .. SqlUpTo(ts, Len(ts))
           /\ SqlAt(ts, SqlUpTo(ts, i)) = i
<1>1. i \in Nat /\ 0 < i /\ i <= Len(ts) /\ Len(ts) \in Nat
  OBVIOUS
<1>2. SqlUpTo(ts, 0) < SqlUpTo(ts, i)
  BY <1>1, SqlGrows
<1>3. i = Len(ts) \/ SqlUpTo(ts, i) <= SqlUpTo(ts, Len(ts))
  BY <1>1, SqlGrows
<1>4. SqlUpTo(ts, i) \in 1 .. SqlUpTo(ts, Len(ts))
  BY <1>1, <1>2, <1>3, SqlSets
<1>5. PICK j : j = SqlAt(ts, SqlUpTo(ts, i))
  OBVIOUS
<1>6. j \in DOMAIN ts /\ ts[j].kind = "sql" /\ SqlUpTo(ts, j) = SqlUpTo(ts, i)
  BY <1>4, <1>5, SqlAtRank
<1>7. ~ (i < j) /\ ~ (j < i)
  BY <1>1, <1>6, SqlGrows, SqlSets
<1> QED
  BY <1>1, <1>4, <1>5, <1>6, <1>7

(* A second SQL tab, as CanClose asks for.                                 *)
LEMMA AnotherSql ==
    ASSUME NEW ts \in Seq(TabRec), NEW i \in DOMAIN ts, SqlUpTo(ts, Len(ts)) > 1
    PROVE  \E j \in DOMAIN ts : j # i /\ ts[j].kind = "sql"
<1>1. 1 \in 1 .. SqlUpTo(ts, Len(ts)) /\ 2 \in 1 .. SqlUpTo(ts, Len(ts))
  BY SqlSets
<1>2. PICK j \in DOMAIN ts : ts[j].kind = "sql" /\ SqlUpTo(ts, j) = 1
  BY <1>1, SqlRanked
<1>3. PICK k \in DOMAIN ts : ts[k].kind = "sql" /\ SqlUpTo(ts, k) = 2
  BY <1>1, SqlRanked
<1> QED
  BY <1>2, <1>3

(* Where all tabs are SQL tabs, nothing is left out.                       *)
LEMMA AllSql ==
    ASSUME NEW ts \in Seq(TabRec), \A i \in DOMAIN ts : ts[i].kind = "sql"
    PROVE  SqlTabs(ts) = ts /\ \A i \in DOMAIN ts : SqlUpTo(ts, i) = i
<1>1. ASSUME NEW i \in DOMAIN ts PROVE SqlUpTo(ts, i) = i
  <2>1. SqlSet(ts, i) = 1 .. i /\ i \in Nat
    BY DEF SqlSet
  <2>2. SqlUpTo(ts, i) = Cardinality(1 .. i)
    BY <2>1, SqlSets
  <2> QED
    BY <2>1, <2>2, FS_Interval
<1>2. SqlUpTo(ts, Len(ts)) = Len(ts)
  <2> DEFINE n == Len(ts)
  <2>0. n \in Nat /\ (n # 0 => n \in DOMAIN ts)
    OBVIOUS
  <2> HIDE DEF n
  <2>3. SqlUpTo(ts, n) = n
    <3>0. SqlUpTo(ts, n) \in 0 .. n
      BY <2>0, SqlSets
    <3>1. CASE n = 0
      BY <3>0, <3>1
    <3>2. CASE n # 0
      BY <2>0, <3>2, <1>1
    <3> QED
      BY <3>1, <3>2
  <2> QED
    BY <2>3 DEF n
<1>3. \A k \in 1 .. Len(ts) : SqlAt(ts, k) = k
  <2> SUFFICES ASSUME NEW k \in 1 .. Len(ts) PROVE SqlAt(ts, k) = k
    OBVIOUS
  <2>1. k \in DOMAIN ts /\ SqlUpTo(ts, k) = k
    BY <1>1
  <2> QED
    BY <2>1, RankOfSql
<1>4. SqlTabs(ts) = [k \in 1 .. Len(ts) |-> ts[k]]
  BY <1>2, <1>3 DEF SqlTabs
<1>5. ts = [k \in 1 .. Len(ts) |-> ts[k]]
  OBVIOUS
<1> QED
  BY Zenon, <1>1, <1>4, <1>5

(* The SQL tabs, as the session saves them.                                *)
LEMMA SqlTabsEach ==
    ASSUME NEW ts \in Seq(TabRec)
    PROVE  /\ SqlTabs(ts) \in Seq(TabRec) /\ Len(SqlTabs(ts)) = SqlUpTo(ts, Len(ts))
           /\ \A k \in DOMAIN SqlTabs(ts) :
                 \E i \in DOMAIN ts : /\ SqlTabs(ts)[k] = ts[i] /\ ts[i].kind = "sql"
                                      /\ SqlUpTo(ts, i) = k
           /\ \A i \in DOMAIN ts : ts[i].kind = "sql" =>
                 /\ SqlUpTo(ts, i) \in DOMAIN SqlTabs(ts)
                 /\ SqlTabs(ts)[SqlUpTo(ts, i)] = ts[i]
<1> DEFINE n == SqlUpTo(ts, Len(ts))
<1>1. n \in Nat
  BY SqlSets
<1>2. \A k \in 1 .. n : ts[SqlAt(ts, k)] \in TabRec
  BY SqlAtRank
<1>3. SqlTabs(ts) = [k \in 1 .. n |-> ts[SqlAt(ts, k)]]
  BY DEF SqlTabs
<1> HIDE DEF n
<1>4. SqlTabs(ts) \in Seq(TabRec) /\ Len(SqlTabs(ts)) = n /\ DOMAIN SqlTabs(ts) = 1 .. n
  BY <1>1, <1>2, <1>3
<1>5. \A k \in 1 .. n : SqlTabs(ts)[k] = ts[SqlAt(ts, k)]
  BY <1>3
<1> USE DEF n
<1> QED
  BY <1>4, <1>5, SqlAtRank, RankOfSql
-----------------------------------------------------------------------------
(* What is done to the tabs.                                               *)

LEMMA SaveEach ==
    ASSUME NEW ts \in Seq(TabRec), NEW text \in Texts, active \in DOMAIN ts
    PROVE  LET saved == save_current_text(ts, text) IN
           /\ saved \in Seq(TabRec) /\ DOMAIN saved = DOMAIN ts /\ Len(saved) = Len(ts)
           /\ \A i \in DOMAIN ts :
                 /\ saved[i].id = ts[i].id /\ saved[i].kind = ts[i].kind
                 /\ saved[i].table = ts[i].table
                 /\ saved[i].text = IF i = active /\ ts[i].kind = "sql" THEN text ELSE ts[i].text
<1> DEFINE new == [ts[active] EXCEPT !.text = text]
<1>1. CASE ts[active].kind = "sql"
  <2>1. save_current_text(ts, text) = [ts EXCEPT ![active] = new]
    BY <1>1 DEF save_current_text
  <2>2. ts[active] \in TabRec
    OBVIOUS
  <2>3. /\ new \in TabRec /\ new.id = ts[active].id /\ new.kind = ts[active].kind
        /\ new.table = ts[active].table /\ new.text = text
    BY <2>2 DEF TabRec
  <2> HIDE DEF new
  <2> QED
    BY <1>1, <2>1, <2>3
<1>2. CASE ts[active].kind # "sql"
  BY <1>2 DEF save_current_text
<1> QED
  BY <1>1, <1>2

(* Tabs that differ in their texts only.                                   *)
LEMMA WellKept ==
    ASSUME NEW ts \in Seq(TabRec), NEW us \in Seq(TabRec), WellTabbed(ts),
           DOMAIN us = DOMAIN ts,
           \A i \in DOMAIN ts : /\ us[i].id = ts[i].id /\ us[i].kind = ts[i].kind
                                /\ us[i].table = ts[i].table
    PROVE  WellTabbed(us) /\ IdsOf(us) = IdsOf(ts)
BY DEF WellTabbed, IdsOf

LEMMA AppendTab ==
    ASSUME NEW ts \in Seq(TabRec), WellTabbed(ts), NEW n \in Ids,
           \A i \in DOMAIN ts : ts[i].id < n,
           NEW kind \in {"sql", "table"}, NEW text \in Texts, NEW tb \in Tables \cup {None},
           kind = "sql" => tb = None
    PROVE  LET us == Append(ts, Tab(n, kind, text, tb)) IN
           /\ us \in Seq(TabRec) /\ WellTabbed(us)
           /\ Len(us) = Len(ts) + 1 /\ DOMAIN us = DOMAIN ts \cup {Len(ts) + 1}
           /\ \A i \in DOMAIN ts : us[i] = ts[i]
           /\ us[Len(us)] = Tab(n, kind, text, tb)
           /\ IdsOf(us) = IdsOf(ts) \cup {n}
           /\ \A i \in DOMAIN us : us[i].id < n + 1
<1> DEFINE t == Tab(n, kind, text, tb)
           us == Append(ts, t)
<1>1. /\ t \in TabRec /\ t.id = n /\ t.kind = kind /\ t.table = tb
  BY DEF Tab, TabRec
<1>2. n \in Nat /\ \A i \in DOMAIN ts : ts[i].id \in Nat
  <2>1. \A i \in DOMAIN ts : ts[i] \in TabRec
    OBVIOUS
  <2>2. \A i \in DOMAIN ts : ts[i].id \in Ids
    BY <2>1 DEF TabRec
  <2> QED
    BY <2>2 DEF Ids
<1> HIDE DEF t
<1>3. /\ us \in Seq(TabRec) /\ Len(us) = Len(ts) + 1 /\ DOMAIN us = DOMAIN ts \cup {Len(ts) + 1}
      /\ \A i \in DOMAIN ts : us[i] = ts[i]
      /\ us[Len(us)] = t /\ Len(us) = Len(ts) + 1
  BY <1>1
<1> HIDE DEF us
<1>4. WellTabbed(us)
  <2>1. ASSUME NEW i \in DOMAIN us, NEW j \in DOMAIN us, us[i].id = us[j].id PROVE i = j
    BY <1>1, <1>2, <1>3, <2>1 DEF WellTabbed
  <2>2. \E i \in DOMAIN us : us[i].kind = "sql"
    BY <1>3 DEF WellTabbed
  <2>3. \A i \in DOMAIN us : us[i].kind = "sql" => us[i].table = None
    BY <1>1, <1>3 DEF WellTabbed
  <2> QED
    BY <2>1, <2>2, <2>3 DEF WellTabbed
<1>5. IdsOf(us) = IdsOf(ts) \cup {n}
  BY <1>1, <1>3 DEF IdsOf
<1>6. \A i \in DOMAIN us : us[i].id < n + 1
  <2> SUFFICES ASSUME NEW i \in DOMAIN us PROVE us[i].id < n + 1
    OBVIOUS
  <2>1. CASE i \in DOMAIN ts
    BY <1>2, <1>3, <2>1
  <2>2. CASE i \notin DOMAIN ts
    <3>1. us[i] = t
      BY <1>3, <2>2
    <3> QED
      BY <1>1, <1>2, <3>1
  <2> QED
    BY <2>1, <2>2
<1> QED
  BY <1>3, <1>4, <1>5, <1>6 DEF us, t

LEMMA ConcatEach ==
    ASSUME NEW S, NEW a \in Seq(S), NEW b \in Seq(S)
    PROVE  /\ a \o b \in Seq(S) /\ Len(a \o b) = Len(a) + Len(b)
           /\ \A i \in 1 .. Len(a) + Len(b) : i <= Len(a) => (a \o b)[i] = a[i]
           /\ \A i \in 1 .. Len(a) + Len(b) : ~ (i <= Len(a)) => (a \o b)[i] = b[i - Len(a)]
<1>1. a \o b \in Seq(S)
  OBVIOUS
<1>2. Len(a \o b) = Len(a) + Len(b)
  OBVIOUS
<1>3. \A i \in 1 .. Len(a) + Len(b) : i <= Len(a) => (a \o b)[i] = a[i]
  OBVIOUS
<1>4. \A i \in 1 .. Len(a) + Len(b) : ~ (i <= Len(a)) => (a \o b)[i] = b[i - Len(a)]
  OBVIOUS
<1> QED
  BY <1>1, <1>2, <1>3, <1>4

LEMMA RemoveEach ==
    ASSUME NEW S, NEW s \in Seq(S), NEW k \in DOMAIN s
    PROVE  /\ RemoveAt(s, k) \in Seq(S)
           /\ Len(RemoveAt(s, k)) = Len(s) - 1
           /\ \A i \in 1 .. (Len(s) - 1) :
                 RemoveAt(s, k)[i] = IF i < k THEN s[i] ELSE s[i + 1]
<1>1. Len(s) \in Nat /\ k \in 1 .. Len(s)
  OBVIOUS
<1>2. PICK a, b : a = SubSeq(s, 1, k - 1) /\ b = SubSeq(s, k + 1, Len(s))
  OBVIOUS
<1>3. a \in Seq(S) /\ Len(a) = k - 1 /\ \A i \in 1 .. k - 1 : a[i] = s[i]
  BY <1>1, <1>2
<1>4. b \in Seq(S) /\ Len(b) = Len(s) - k /\ \A i \in 1 .. Len(s) - k : b[i] = s[i + k]
  BY <1>1, <1>2
<1>5. PICK t : t = a \o b
  OBVIOUS
<1>6. /\ t \in Seq(S) /\ Len(t) = Len(a) + Len(b)
      /\ \A i \in 1 .. Len(a) + Len(b) : i <= Len(a) => t[i] = a[i]
      /\ \A i \in 1 .. Len(a) + Len(b) : ~ (i <= Len(a)) => t[i] = b[i - Len(a)]
  <2>1. a \in Seq(S) /\ b \in Seq(S)
    BY <1>3, <1>4
  <2>2. /\ a \o b \in Seq(S) /\ Len(a \o b) = Len(a) + Len(b)
        /\ \A i \in 1 .. Len(a) + Len(b) : i <= Len(a) => (a \o b)[i] = a[i]
        /\ \A i \in 1 .. Len(a) + Len(b) : ~ (i <= Len(a)) => (a \o b)[i] = b[i - Len(a)]
    BY ONLY <2>1, ConcatEach, Zenon
  <2> QED
    BY ONLY <1>5, <2>2, Zenon
<1>7. Len(t) = Len(s) - 1
  BY <1>1, <1>3, <1>4, <1>6
<1>8. ASSUME NEW i \in 1 .. Len(s) - 1, i < k
      PROVE  t[i] = s[i]
  <2>1. i \in 1 .. k - 1 /\ i \in 1 .. Len(a) + Len(b) /\ i <= Len(a)
    BY <1>1, <1>3, <1>4, <1>8
  <2>2. t[i] = a[i]
    BY <1>6, <2>1
  <2>3. a[i] = s[i]
    BY <1>3, <2>1
  <2> QED
    BY <2>2, <2>3
<1>9. ASSUME NEW i \in 1 .. Len(s) - 1, ~ (i < k)
      PROVE  t[i] = s[i + 1]
  <2>1. PICK j : j = i - Len(a)
    OBVIOUS
  <2>2. /\ i \in 1 .. Len(a) + Len(b) /\ ~ (i <= Len(a))
        /\ j \in 1 .. Len(s) - k /\ j + k = i + 1
    BY <1>1, <1>3, <1>4, <1>9, <2>1
  <2>3. t[i] = b[j]
    BY <1>6, <2>1, <2>2
  <2>4. b[j] = s[j + k]
    BY <1>4, <2>2
  <2> QED
    BY <2>2, <2>3, <2>4
<1>10. RemoveAt(s, k) = t
  BY <1>2, <1>5 DEF RemoveAt
<1>11. \A i \in 1 .. (Len(s) - 1) : t[i] = IF i < k THEN s[i] ELSE s[i + 1]
  BY <1>8, <1>9
<1>12. t \in Seq(S) /\ Len(t) = Len(s) - 1
  BY <1>6, <1>7
<1> QED
  BY ONLY <1>10, <1>11, <1>12

(* Closing: the others stay in their order, and one of them is active.     *)
LEMMA CloseEach ==
    ASSUME NEW ts \in Seq(TabRec), WellTabbed(ts), NEW i \in DOMAIN ts, CanClose(ts, i),
           active \in DOMAIN ts
    PROVE  LET now == Closed(ts, i) IN
           /\ now.tabs \in Seq(TabRec) /\ WellTabbed(now.tabs) /\ now.active \in DOMAIN now.tabs
           /\ \A j \in DOMAIN now.tabs : \E k \in DOMAIN ts : k # i /\ now.tabs[j] = ts[k]
           /\ IdsOf(now.tabs) = IdsOf(ts) \ {ts[i].id}
<1> DEFINE left == RemoveAt(ts, i)
           n == Len(ts)
<1>1. n \in Nat /\ i \in 1 .. n /\ active \in 1 .. n
  OBVIOUS
<1>3. /\ left \in Seq(TabRec) /\ Len(left) = n - 1
      /\ \A j \in 1 .. (n - 1) : left[j] = IF j < i THEN ts[j] ELSE ts[j + 1]
  BY RemoveEach
<1>4. PICK k \in DOMAIN ts : k # i /\ ts[k].kind = "sql"
  <2>1. CASE ts[i].kind = "sql"
    BY <2>1, AnotherSql DEF CanClose
  <2>2. CASE ts[i].kind # "sql"
    BY <2>2 DEF WellTabbed
  <2> QED
    BY <2>1, <2>2
<1>5. n > 1
  BY <1>1, <1>4
<1> HIDE DEF left
<1>6. /\ Closed(ts, i).tabs = left
      /\ Closed(ts, i).active = IF active > n - 1 THEN n - 1 ELSE active
  BY <1>3 DEF Closed, left
<1>7. \A k2 \in DOMAIN ts : k2 # i => \E j \in DOMAIN left : left[j] = ts[k2]
  <2> SUFFICES ASSUME NEW k2 \in DOMAIN ts, k2 # i PROVE \E j \in DOMAIN left : left[j] = ts[k2]
    OBVIOUS
  <2>1. CASE k2 < i
    BY <1>1, <1>3, <2>1
  <2>2. CASE ~ k2 < i
    <3>1. k2 - 1 \in DOMAIN left /\ left[k2 - 1] = ts[k2]
      BY <1>1, <1>3, <2>2
    <3> QED
      BY <3>1
  <2> QED
    BY <2>1, <2>2
<1>8. \A j \in DOMAIN left : \E k2 \in DOMAIN ts : k2 # i /\ left[j] = ts[k2]
  <2> SUFFICES ASSUME NEW j \in DOMAIN left PROVE \E k2 \in DOMAIN ts : k2 # i /\ left[j] = ts[k2]
    OBVIOUS
  <2>1. CASE j < i
    BY <1>1, <1>3, <2>1
  <2>2. CASE ~ j < i
    <3>1. j + 1 \in DOMAIN ts /\ j + 1 # i /\ left[j] = ts[j + 1]
      BY <1>1, <1>3, <2>2
    <3> QED
      BY <3>1
  <2> QED
    BY <2>1, <2>2
<1>9. WellTabbed(left)
  <2>1. ASSUME NEW j1 \in DOMAIN left, NEW j2 \in DOMAIN left, left[j1].id = left[j2].id PROVE j1 = j2
    <3> DEFINE k1 == IF j1 < i THEN j1 ELSE j1 + 1
               k2 == IF j2 < i THEN j2 ELSE j2 + 1
    <3>0. j1 \in 1 .. (n - 1) /\ j2 \in 1 .. (n - 1)
      BY <1>3
    <3>a. \A j \in 1 .. (n - 1) : IF j < i THEN j \in DOMAIN ts /\ left[j] = ts[j]
                                          ELSE j + 1 \in DOMAIN ts /\ left[j] = ts[j + 1]
      BY <1>1, <1>3
    <3>1. k1 \in DOMAIN ts /\ left[j1] = ts[k1]
      BY <3>a, <3>0
    <3>2. k2 \in DOMAIN ts /\ left[j2] = ts[k2]
      BY <3>a, <3>0
    <3>3. k1 = k2
      <4> HIDE DEF k1, k2
      <4> QED
        BY <2>1, <3>1, <3>2 DEF WellTabbed
    <3> QED
      BY <1>1, <3>0, <3>3
  <2>2. \E j \in DOMAIN left : left[j].kind = "sql"
    BY <1>4, <1>7
  <2>3. \A j \in DOMAIN left : left[j].kind = "sql" => left[j].table = None
    BY <1>8 DEF WellTabbed
  <2> QED
    BY <2>1, <2>2, <2>3 DEF WellTabbed
<1>10. IdsOf(left) = IdsOf(ts) \ {ts[i].id}
  BY <1>7, <1>8 DEF IdsOf, WellTabbed
<1>11. DOMAIN left = 1 .. (n - 1)
  BY <1>3
<1> QED
  BY <1>1, <1>3, <1>5, <1>6, <1>8, <1>9, <1>10, <1>11
-----------------------------------------------------------------------------
(* What is done to the stacks.                                             *)

LEMMA CappedEach ==
    ASSUME NEW s \in Seq(Texts), Len(s) <= UndoMax, NEW text \in Texts
    PROVE  LET t == Capped(Append(s, text)) IN
           /\ t \in Seq(Texts) /\ Len(t) <= UndoMax
           /\ Range(t) \subseteq Range(s) \cup {text}
<1> DEFINE a == Append(s, text)
<1>1. UndoMax \in Nat \ {0}
  BY BoundsOk
<1>2. /\ a \in Seq(Texts) /\ Len(a) = Len(s) + 1 /\ a # <<>>
      /\ \A i \in DOMAIN a : a[i] \in Range(s) \cup {text}
  BY DEF Range
<1> HIDE DEF a
<1>3. /\ Tail(a) \in Seq(Texts) /\ Len(Tail(a)) = Len(s)
      /\ \A i \in DOMAIN Tail(a) : i + 1 \in DOMAIN a /\ Tail(a)[i] = a[i + 1]
  BY <1>2
<1>4. CASE Len(a) > UndoMax
  <2>1. Capped(a) = Tail(a)
    BY <1>4 DEF Capped
  <2>2. Range(Tail(a)) \subseteq Range(s) \cup {text}
    BY <1>2, <1>3 DEF Range
  <2> QED
    BY <1>3, <2>1, <2>2 DEF a
<1>5. CASE ~ Len(a) > UndoMax
  <2>1. Capped(a) = a
    BY <1>5 DEF Capped
  <2>2. Range(a) \subseteq Range(s) \cup {text}
    BY <1>2 DEF Range
  <2>3. Len(a) <= UndoMax
    BY <1>1, <1>2, <1>5
  <2> QED
    BY <1>2, <2>1, <2>2, <2>3 DEF a
<1> QED
  BY <1>4, <1>5

LEMMA FrontEach ==
    ASSUME NEW s \in Seq(Texts), s # <<>>
    PROVE  /\ Front(s) \in Seq(Texts) /\ Len(Front(s)) <= Len(s)
           /\ Range(Front(s)) \subseteq Range(s)
           /\ Last(s) \in Texts /\ Last(s) \in Range(s)
<1>1. Len(s) \in Nat /\ Len(s) > 0 /\ Len(s) \in DOMAIN s
  OBVIOUS
<1>2. Front(s) = SubSeq(s, 1, Len(s) - 1)
  BY DEF Front
<1>3. /\ Front(s) \in Seq(Texts) /\ Len(Front(s)) = Len(s) - 1
      /\ \A i \in DOMAIN Front(s) : i \in DOMAIN s /\ Front(s)[i] = s[i]
  <2> DEFINE n == Len(s) - 1
  <2>1. n \in Nat /\ n < Len(s) /\ Len(s) = n + 1
    BY <1>1
  <2>2. \A i \in 1 .. n : i \in DOMAIN s /\ s[i] \in Texts
    BY <2>1
  <2> HIDE DEF n
  <2>3. SubSeq(s, 1, n) = [i \in 1 .. n |-> s[i]]
    BY <2>1
  <2>4. PICK f : f = [i \in 1 .. n |-> s[i]]
    OBVIOUS
  <2>5. f \in Seq(Texts) /\ Len(f) = n /\ DOMAIN f = 1 .. n /\ \A i \in 1 .. n : f[i] = s[i]
    BY <2>1, <2>2, <2>4
  <2>6. Front(s) = f
    BY <1>2, <2>3, <2>4 DEF n
  <2> QED
    BY <2>1, <2>2, <2>5, <2>6
<1> QED
  BY <1>1, <1>3 DEF Range, Last

(* One stack of several is replaced by a sound one.                        *)
LEMMA SoundExcept ==
    ASSUME NEW sts, NEW sn, NEW open, Sound(sts, sn, open),
           NEW id \in Ids, id \in open, NEW st \in Stack,
           Len(st.undo) <= UndoMax, Len(st.redo) <= UndoMax, TextsOf(st) \subseteq sn[id]
    PROVE  Sound([sts EXCEPT ![id] = st], sn, open)
<1>1. PICK new : new = [sts EXCEPT ![id] = st]
  OBVIOUS
<1>2. new \in [Ids -> Stack] /\ new[id] = st /\ \A j \in Ids : j # id => new[j] = sts[j]
  BY <1>1 DEF Sound
<1>3. Sound(new, sn, open)
  BY <1>2 DEF Sound
<1> QED
  BY <1>1, <1>3

LEMMA StackOfSound ==
    ASSUME NEW sts, NEW sn, NEW open, Sound(sts, sn, open), NEW id \in Ids
    PROVE  /\ sts[id] \in Stack /\ sts[id].undo \in Seq(Texts) /\ sts[id].redo \in Seq(Texts)
           /\ Len(sts[id].undo) <= UndoMax /\ Len(sts[id].redo) <= UndoMax
           /\ Range(sts[id].undo) \subseteq sn[id] /\ Range(sts[id].redo) \subseteq sn[id]
BY DEF Sound, Stack, TextsOf

LEMMA StackParts ==
    ASSUME NEW u \in Seq(Texts), NEW r \in Seq(Texts)
    PROVE  LET st == [undo |-> u, redo |-> r] IN
           /\ st \in Stack /\ st.undo = u /\ st.redo = r
           /\ TextsOf(st) = Range(u) \cup Range(r)
BY DEF Stack, TextsOf

LEMMA PushSound ==
    ASSUME NEW sts, NEW sn, NEW open, Sound(sts, sn, open),
           NEW id \in Ids, id \in open, NEW text \in Texts, text \in sn[id]
    PROVE  Sound([sts EXCEPT ![id] = Push(@, text)], sn, open)
<1>1. PICK st : st = sts[id]
  OBVIOUS
<1>2. /\ st \in Stack /\ st.undo \in Seq(Texts) /\ st.redo \in Seq(Texts)
      /\ Len(st.undo) <= UndoMax /\ Len(st.redo) <= UndoMax
      /\ Range(st.undo) \subseteq sn[id] /\ Range(st.redo) \subseteq sn[id]
  BY <1>1, StackOfSound
<1>3. Sound([sts EXCEPT ![id] = Push(st, text)], sn, open)
  <2>1. CASE st.undo # <<>> /\ Last(st.undo) = text
    <3>1. Push(st, text) = st
      BY <2>1 DEF Push
    <3>2. TextsOf(st) \subseteq sn[id]
      BY <1>2 DEF TextsOf
    <3> QED
      BY <1>2, <3>1, <3>2, SoundExcept
  <2>2. CASE ~ (st.undo # <<>> /\ Last(st.undo) = text)
    <3>1. Push(st, text) = [undo |-> Capped(Append(st.undo, text)), redo |-> <<>>]
      BY <2>2 DEF Push
    <3>2. PICK u : u = Capped(Append(st.undo, text))
      OBVIOUS
    <3>3. u \in Seq(Texts) /\ Len(u) <= UndoMax /\ Range(u) \subseteq sn[id]
      BY <1>2, <3>2, CappedEach
    <3>4. /\ <<>> \in Seq(Texts) /\ Len(<<>>) = 0 /\ Range(<<>>) = {}
      BY DEF Range
    <3>5. UndoMax \in Nat
      BY BoundsOk
    <3>6. PICK new : new = [undo |-> u, redo |-> <<>>]
      OBVIOUS
    <3>7. /\ new \in Stack /\ new.undo = u /\ new.redo = <<>>
          /\ TextsOf(new) = Range(u) \cup Range(<<>>)
      BY <3>3, <3>4, <3>6, StackParts
    <3>8. Len(new.redo) <= UndoMax /\ TextsOf(new) \subseteq sn[id] /\ Len(new.undo) <= UndoMax
      BY <3>3, <3>4, <3>5, <3>7
    <3>9. Push(st, text) = new
      BY <3>1, <3>2, <3>6
    <3> QED
      BY <3>7, <3>8, <3>9, SoundExcept
  <2> QED
    BY <2>1, <2>2
<1> QED
  BY <1>1, <1>3

LEMMA UndoneSound ==
    ASSUME NEW sts, NEW sn, NEW open, Sound(sts, sn, open),
           NEW id \in Ids, id \in open, NEW text \in Texts, text \in sn[id]
    PROVE  /\ sts[id].undo # <<>> =>
                 /\ Sound([sts EXCEPT ![id] = Undone(@, text)], sn, open)
                 /\ Last(sts[id].undo) \in Texts /\ Last(sts[id].undo) \in sn[id]
           /\ sts[id].redo # <<>> =>
                 /\ Sound([sts EXCEPT ![id] = Redone(@, text)], sn, open)
                 /\ Last(sts[id].redo) \in Texts /\ Last(sts[id].redo) \in sn[id]
<1>1. PICK st : st = sts[id]
  OBVIOUS
<1>2. /\ st \in Stack /\ st.undo \in Seq(Texts) /\ st.redo \in Seq(Texts)
      /\ Len(st.undo) <= UndoMax /\ Len(st.redo) <= UndoMax
      /\ Range(st.undo) \subseteq sn[id] /\ Range(st.redo) \subseteq sn[id]
  BY <1>1, StackOfSound
<1>3. UndoMax \in Nat
  BY BoundsOk
<1>4. ASSUME st.undo # <<>>
      PROVE  /\ Sound([sts EXCEPT ![id] = Undone(st, text)], sn, open)
             /\ Last(st.undo) \in Texts /\ Last(st.undo) \in sn[id]
  <2>1. PICK u, r : u = Front(st.undo) /\ r = Capped(Append(st.redo, text))
    OBVIOUS
  <2>2. u \in Seq(Texts) /\ Len(u) <= UndoMax /\ Range(u) \subseteq sn[id]
    BY <1>2, <1>3, <1>4, <2>1, FrontEach
  <2>3. r \in Seq(Texts) /\ Len(r) <= UndoMax /\ Range(r) \subseteq sn[id]
    BY <1>2, <2>1, CappedEach
  <2>4. Undone(st, text) = [undo |-> u, redo |-> r]
    BY <2>1 DEF Undone
  <2> QED
    BY <1>2, <1>4, <2>2, <2>3, <2>4, StackParts, SoundExcept, FrontEach
<1>5. ASSUME st.redo # <<>>
      PROVE  /\ Sound([sts EXCEPT ![id] = Redone(st, text)], sn, open)
             /\ Last(st.redo) \in Texts /\ Last(st.redo) \in sn[id]
  <2>1. PICK u, r : r = Front(st.redo) /\ u = Capped(Append(st.undo, text))
    OBVIOUS
  <2>2. r \in Seq(Texts) /\ Len(r) <= UndoMax /\ Range(r) \subseteq sn[id]
    BY <1>2, <1>3, <1>5, <2>1, FrontEach
  <2>3. u \in Seq(Texts) /\ Len(u) <= UndoMax /\ Range(u) \subseteq sn[id]
    BY <1>2, <2>1, CappedEach
  <2>4. Redone(st, text) = [undo |-> u, redo |-> r]
    BY <2>1 DEF Redone
  <2> QED
    BY <1>2, <1>5, <2>2, <2>3, <2>4, StackParts, SoundExcept, FrontEach
<1> QED
  BY <1>1, <1>4, <1>5

(* More texts seen and more tabs open do no harm.                          *)
LEMMA SoundGrows ==
    ASSUME NEW sts, NEW sn, NEW open, Sound(sts, sn, open), NEW sn2, NEW open2,
           \A id \in Ids : sn[id] \subseteq sn2[id], open \subseteq open2
    PROVE  Sound(sts, sn2, open2)
BY DEF Sound

LEMMA NothingSound ==
    ASSUME NEW sn, NEW open, NEW sts, sts = [id \in Ids |-> NoStack]
    PROVE  Sound(sts, sn, open)
<1>1. NoStack \in Stack /\ NoStack.undo = <<>> /\ NoStack.redo = <<>> /\ Range(<<>>) = {}
  BY DEF NoStack, Stack, Range
<1>2. UndoMax \in Nat /\ Len(<<>>) = 0
  BY BoundsOk
<1>3. TextsOf(NoStack) = {}
  BY <1>1 DEF TextsOf
<1>4. sts \in [Ids -> Stack] /\ \A id \in Ids : sts[id] = NoStack
  BY <1>1
<1> QED
  BY <1>1, <1>2, <1>3, <1>4 DEF Sound
-----------------------------------------------------------------------------
(* Editing.                                                                *)

(* The tabs stay; the text under the editor changes, for the user too, or  *)
(* nothing does.                                                           *)
Editing ==
    /\ run = "up" /\ UNCHANGED <<run, starts, tabs, active, fresh, uiTab, uiSql, disk, lastQuery, goodbye>>
    /\ edits' \in 0 .. MaxEdits
    /\ \/ \E t \in Texts : SetText(t)
       \/ UNCHANGED <<uiText, content, seen>>

EditGood ==
    /\ Editing
    /\ lastKnown' \in Texts /\ timer' \in BOOLEAN
    /\ format' \in Saying \cup {None}
    /\ burst' \in Saying \cup {None}
    /\ burst' # None => burst'.tab \in IdsOf(tabs) /\ burst'.text \in seen'[burst'.tab]
    /\ Sound(stacks', seen', IdsOf(tabs))
    /\ uiText' \in seen'[uiTab] /\ (uiSql => lastKnown' \in seen'[uiTab])

LEMMA SetTextSees ==
    ASSUME IInv, NEW t \in Texts, SetText(t)
    PROVE  /\ uiText' = t
           /\ content' \in [Ids -> Texts] /\ seen' \in [Ids -> SUBSET Texts]
           /\ \A id \in Ids : seen[id] \subseteq seen'[id]
           /\ t \in seen'[uiTab] /\ uiTab \in Ids /\ Here.id \in Ids
<1>1. /\ uiTab \in Ids /\ content \in [Ids -> Texts] /\ seen \in [Ids -> SUBSET Texts]
  BY DEF IInv, TypeEditor
<1>2. Here \in TabRec
  BY DEF IInv, TypeTabs, Here
<1>3. Here.id \in Ids
  BY <1>2 DEF TabRec
<1>4. PICK now : now = seen[uiTab] \cup {t}
  OBVIOUS
<1>5. now \in SUBSET Texts /\ seen[uiTab] \subseteq now /\ t \in now
  BY <1>1, <1>4
<1>6. seen' = [seen EXCEPT ![uiTab] = now]
  BY <1>4 DEF SetText, Shows
<1>7. content' = IF uiSql THEN [content EXCEPT ![Here.id] = t] ELSE content
  BY DEF SetText
<1>8. content' \in [Ids -> Texts]
  BY <1>1, <1>7
<1>9. uiText' = t
  BY DEF SetText
<1> QED
  BY <1>1, <1>3, <1>5, <1>6, <1>8, <1>9

(* The text of each SQL tab is where it should be after the step.          *)
TextGood ==
    /\ uiText' \in Texts /\ content' \in [Ids -> Texts] /\ seen' \in [Ids -> SUBSET Texts]
    /\ \A i \in DOMAIN tabs : IsSql(i) =>
          content'[tabs[i].id] = IF i = active THEN uiText' ELSE tabs[i].text

LEMMA EditKeeps ==
    ASSUME IInv, EditGood
    PROVE  IInv'
<1>1. /\ run = "up" /\ run' = run /\ starts' = starts /\ tabs' = tabs /\ active' = active
      /\ fresh' = fresh /\ uiTab' = uiTab /\ uiSql' = uiSql /\ disk' = disk
      /\ lastQuery' = lastQuery /\ goodbye' = goodbye /\ edits' \in 0 .. MaxEdits
  BY DEF EditGood, Editing
<1>2. TextGood
  <2>0. \A i \in DOMAIN tabs : IsSql(i) =>
            content[tabs[i].id] = IF i = active THEN uiText ELSE tabs[i].text
    BY <1>1 DEF IInv, TextInRun
  <2>1. ASSUME NEW t \in Texts, SetText(t) PROVE TextGood
    <3>1. /\ uiText' = t /\ content' \in [Ids -> Texts] /\ seen' \in [Ids -> SUBSET Texts]
          /\ Here.id \in Ids /\ content \in [Ids -> Texts]
      BY <2>1, SetTextSees DEF IInv, TypeEditor
    <3>2. content' = IF uiSql THEN [content EXCEPT ![Here.id] = t] ELSE content
      BY <2>1 DEF SetText
    <3>3. uiSql <=> IsSql(active)
      BY <1>1 DEF IInv, ShownInRun
    <3>4. active \in DOMAIN tabs /\ \A i \in DOMAIN tabs : tabs[i].id = tabs[active].id => i = active
      BY DEF IInv, TypeTabs, WellTabbed
    <3>5. ASSUME NEW i \in DOMAIN tabs, IsSql(i)
          PROVE  content'[tabs[i].id] = IF i = active THEN uiText' ELSE tabs[i].text
      <4>0. tabs[i].id \in Ids
        <5>1. tabs[i] \in TabRec
          BY DEF IInv, TypeTabs
        <5> QED
          BY <5>1 DEF TabRec
      <4>1. CASE i = active
        <5>1. uiSql /\ Here.id = tabs[i].id
          BY <3>3, <3>5, <4>1 DEF Here
        <5> QED
          BY <3>1, <3>2, <4>1, <5>1
      <4>2. CASE i # active
        <5>1. tabs[i].id # Here.id
          BY <3>4, <4>2 DEF Here
        <5> QED
          BY <2>0, <3>1, <3>2, <3>5, <4>0, <4>2, <5>1
      <4> QED
        BY <4>1, <4>2
    <3> QED
      BY <3>1, <3>5 DEF TextGood
  <2>2. ASSUME UNCHANGED <<uiText, content, seen>> PROVE TextGood
    BY <2>0, <2>2 DEF IInv, TypeEditor, TextGood
  <2> QED
    BY <2>1, <2>2 DEF EditGood, Editing
<1>3. TypeRun' /\ TypeTabs' /\ TypeDisk' /\ Numbered'
  BY <1>1 DEF IInv, TypeRun, TypeTabs, TypeDisk, Numbered
<1>4. TypeEditor'
  BY <1>1, <1>2 DEF IInv, TypeEditor, EditGood, TextGood
<1>5. Sound(stacks, seen, IdsOf(tabs))'
  BY <1>1 DEF EditGood
<1>6. BurstSound' /\ EditorSeen'
  BY <1>1 DEF EditGood, BurstSound, EditorSeen
<1>7. ShownInRun'
  BY <1>1 DEF IInv, ShownInRun, IsSql, Here
<1>8. TextInRun'
  BY <1>1, <1>2 DEF TextInRun, TextGood, IsSql
<1>9. SessionSaved'
  BY <1>1 DEF IInv, SessionSaved
<1> QED
  BY <1>3, <1>4, <1>5, <1>6, <1>7, <1>8, <1>9 DEF IInv

(* What an edit starts from.                                               *)
LEMMA InRun ==
    ASSUME IInv, run = "up"
    PROVE  /\ Sound(stacks, seen, IdsOf(tabs))
           /\ uiTab \in Ids /\ uiTab \in IdsOf(tabs) /\ uiText \in Texts /\ uiText \in seen[uiTab]
           /\ lastKnown \in Texts /\ (uiSql => lastKnown \in seen[uiTab])
           /\ burst \in Saying \cup {None} /\ timer \in BOOLEAN
           /\ burst # None => /\ burst.tab \in Ids /\ burst.text \in Texts
                              /\ burst.tab \in IdsOf(tabs) /\ burst.text \in seen[burst.tab]
           /\ format \in Saying \cup {None} /\ edits \in 0 .. MaxEdits
           /\ seen \in [Ids -> SUBSET Texts]
<1>1. /\ uiTab \in IdsOf(tabs) /\ uiText \in seen[uiTab] /\ (uiSql => lastKnown \in seen[uiTab])
  BY DEF IInv, Numbered, EditorSeen
<1>2. burst # None => /\ burst.tab \in Ids /\ burst.text \in Texts
                      /\ burst.tab \in IdsOf(tabs) /\ burst.text \in seen[burst.tab]
  BY DEF IInv, BurstSound, TypeEditor, Saying
<1> QED
  BY <1>1, <1>2 DEF IInv, TypeEditor, TypeRun

LEMMA BurstPushed ==
    ASSUME IInv, run = "up"
    PROVE  Sound(PushBurst(stacks), seen, IdsOf(tabs))
<1>1. CASE burst = None
  BY <1>1, InRun DEF PushBurst
<1>2. CASE burst # None
  <2>1. PushBurst(stacks) = [stacks EXCEPT ![burst.tab] = Push(@, burst.text)]
    BY <1>2 DEF PushBurst
  <2>2. /\ burst.tab \in Ids /\ burst.tab \in IdsOf(tabs) /\ burst.text \in Texts
        /\ burst.text \in seen[burst.tab] /\ Sound(stacks, seen, IdsOf(tabs))
    BY <1>2, InRun
  <2>3. Sound([stacks EXCEPT ![burst.tab] = Push(@, burst.text)], seen, IdsOf(tabs))
    BY <2>2, PushSound
  <2> QED
    BY <2>1, <2>3
<1> QED
  BY <1>1, <1>2

LEMMA EditsCounted ==
    ASSUME IInv, Edits
    PROVE  edits' \in 0 .. MaxEdits
BY BoundsOk DEF IInv, TypeRun, Edits

(* The text seen grows, so what was sound stays so.                        *)
LEMMA SoundSeen ==
    ASSUME IInv, NEW t \in Texts, SetText(t), NEW sts, Sound(sts, seen, IdsOf(tabs))
    PROVE  Sound(sts, seen', IdsOf(tabs))
BY SetTextSees, SoundGrows

LEMMA TypeStep ==
    ASSUME IInv, NEW t \in Texts, Type(t)
    PROVE  EditGood
<1>1. /\ run = "up" /\ uiSql /\ Edits /\ SetText(t) /\ stacks' = stacks /\ format' = format
      /\ timer' = TRUE /\ lastKnown' = t
      /\ UNCHANGED <<run, starts, tabs, active, fresh, uiTab, uiSql, disk, lastQuery, goodbye>>
  BY DEF Type, Up, EditUnchanged, tabVars, diskVars
<1>2. burst' = IF timer THEN burst ELSE [tab |-> uiTab, text |-> lastKnown]
  BY DEF Type
<1>3. /\ uiText' = t /\ t \in seen'[uiTab] /\ \A id \in Ids : seen[id] \subseteq seen'[id]
  BY <1>1, SetTextSees
<1>4. Editing
  BY <1>1, EditsCounted DEF Editing
<1>5. Sound(stacks', seen', IdsOf(tabs))
  BY <1>1, InRun, SoundSeen
<1>6. /\ burst' \in Saying \cup {None}
      /\ burst' # None => burst'.tab \in IdsOf(tabs) /\ burst'.text \in seen'[burst'.tab]
  <2>1. CASE timer
    <3>1. burst' = burst
      BY <1>2, <2>1
    <3> QED
      BY <1>1, <1>3, <3>1, InRun
  <2>2. CASE ~ timer
    <3>1. PICK b : b = [tab |-> uiTab, text |-> lastKnown]
      OBVIOUS
    <3>2. b \in Saying /\ b.tab = uiTab /\ b.text = lastKnown /\ burst' = b
      BY <1>1, <1>2, <2>2, <3>1, InRun DEF Saying
    <3> QED
      BY <1>1, <1>3, <3>2, InRun
  <2> QED
    BY <2>1, <2>2
<1> QED
  BY <1>1, <1>3, <1>4, <1>5, <1>6, InRun DEF EditGood

LEMMA Snapshots ==
    ASSUME IInv, run = "up", Snapshot
    PROVE  Sound(stacks', seen, IdsOf(tabs)) /\ burst' = None /\ timer' = FALSE
<1>1. PICK sts : sts = PushBurst(stacks)
  OBVIOUS
<1>2. Sound(sts, seen, IdsOf(tabs))
  BY <1>1, BurstPushed
<1>3. stacks' = [sts EXCEPT ![uiTab] = Push(@, uiText)]
  BY <1>1 DEF Snapshot
<1>4. /\ uiTab \in Ids /\ uiTab \in IdsOf(tabs) /\ uiText \in Texts /\ uiText \in seen[uiTab]
  BY InRun
<1>5. Sound([sts EXCEPT ![uiTab] = Push(@, uiText)], seen, IdsOf(tabs))
  BY <1>2, <1>4, PushSound
<1> QED
  BY <1>3, <1>5 DEF Snapshot, EndBurst

LEMMA InsertStep ==
    ASSUME IInv, NEW t \in Texts, Insert(t)
    PROVE  EditGood
<1>1. /\ run = "up" /\ Edits /\ Snapshot /\ SetText(t) /\ lastKnown' = t /\ format' = format
      /\ UNCHANGED <<run, starts, tabs, active, fresh, uiTab, uiSql, disk, lastQuery, goodbye>>
  BY DEF Insert, Up, EditUnchanged, tabVars, diskVars
<1>2. /\ uiText' = t /\ t \in seen'[uiTab]
  BY <1>1, SetTextSees
<1>3. Editing
  BY <1>1, EditsCounted DEF Editing
<1>4. Sound(stacks', seen', IdsOf(tabs)) /\ burst' = None /\ timer' = FALSE
  BY <1>1, Snapshots, SoundSeen
<1> QED
  BY <1>1, <1>2, <1>3, <1>4, InRun DEF EditGood

LEMMA OverwriteStep ==
    ASSUME IInv, NEW t \in Texts, Overwrite(t)
    PROVE  EditGood
<1>1. /\ run = "up" /\ uiSql /\ Edits /\ SetText(t) /\ lastKnown' = lastKnown /\ format' = format
      /\ stacks' = stacks /\ burst' = burst /\ timer' = timer
      /\ UNCHANGED <<run, starts, tabs, active, fresh, uiTab, uiSql, disk, lastQuery, goodbye>>
  BY DEF Overwrite, Up, EditUnchanged, tabVars, diskVars, undoVars
<1>2. /\ uiText' = t /\ t \in seen'[uiTab] /\ uiTab \in Ids
      /\ \A id \in Ids : seen[id] \subseteq seen'[id]
  BY <1>1, SetTextSees
<1>3. Editing
  BY <1>1, EditsCounted DEF Editing
<1>4. Sound(stacks', seen', IdsOf(tabs))
  BY <1>1, InRun, SoundSeen
<1> QED
  BY <1>1, <1>2, <1>3, <1>4, InRun DEF EditGood

LEMMA FormatSqlCompleteStep ==
    ASSUME IInv, NEW t \in Texts, FormatSqlComplete(t)
    PROVE  EditGood
<1>1. /\ run = "up" /\ format' = None
      /\ stacks' = stacks /\ burst' = burst /\ timer' = timer
      /\ UNCHANGED <<run, starts, tabs, active, fresh, uiTab, uiSql, disk, lastQuery, goodbye>>
      /\ \/ Edits /\ lastKnown' = t /\ SetText(t)
         \/ UNCHANGED <<lastKnown, uiText, content, seen, edits>>
  BY DEF FormatSqlComplete, Up, EditUnchanged, tabVars, diskVars, ghostVars
<1>2. CASE Edits /\ lastKnown' = t /\ SetText(t)
  <2>1. /\ uiText' = t /\ t \in seen'[uiTab] /\ uiTab \in Ids
        /\ \A id \in Ids : seen[id] \subseteq seen'[id]
    BY <1>2, SetTextSees
  <2>2. Editing
    BY <1>1, <1>2, EditsCounted DEF Editing
  <2>3. Sound(stacks', seen', IdsOf(tabs))
    BY <1>1, <1>2, InRun, SoundSeen
  <2> QED
    BY <1>1, <1>2, <2>1, <2>2, <2>3, InRun DEF EditGood
<1>3. CASE UNCHANGED <<lastKnown, uiText, content, seen, edits>>
  <2>1. Editing
    BY <1>1, <1>3, InRun DEF Editing
  <2> QED
    BY <1>1, <1>3, <2>1, InRun DEF EditGood
<1> QED
  BY <1>1, <1>2, <1>3

LEMMA TimerFiresStep ==
    ASSUME IInv, TimerFires
    PROVE  EditGood
<1>1. /\ run = "up" /\ format' = format /\ lastKnown' = lastKnown
      /\ UNCHANGED <<run, starts, tabs, active, fresh, uiTab, uiSql, disk, lastQuery, goodbye>>
      /\ UNCHANGED <<uiText, content, seen, edits>>
      /\ \/ stacks' = stacks /\ burst' = burst /\ timer' = timer
         \/ stacks' = PushBurst(stacks) /\ burst' = None /\ timer' = FALSE
  BY DEF TimerFires, Up, tabVars, diskVars, ghostVars, uiVars
<1>2. Editing
  BY <1>1, InRun DEF Editing
<1>3. Sound(stacks', seen', IdsOf(tabs))
  BY <1>1, InRun, BurstPushed
<1> QED
  BY <1>1, <1>2, <1>3, InRun DEF EditGood

LEMMA EditorUndoStep ==
    ASSUME IInv, EditorUndo
    PROVE  EditGood
<1>1. /\ run = "up" /\ uiSql /\ format' = format /\ edits' = edits /\ burst' = None /\ timer' = FALSE
      /\ UNCHANGED <<run, starts, tabs, active, fresh, uiTab, uiSql, disk, lastQuery, goodbye>>
  BY DEF EditorUndo, Up, EditUnchanged, EndBurst, tabVars, diskVars
<1>2. PICK flushed : flushed = PushBurst(stacks)
  OBVIOUS
<1>3. Sound(flushed, seen, IdsOf(tabs))
  BY <1>1, <1>2, BurstPushed
<1>4. CASE flushed[uiTab].undo = <<>>
  <2>1. stacks' = flushed /\ UNCHANGED <<lastKnown, uiText, content, seen>>
    BY <1>2, <1>4 DEF EditorUndo, ghostVars
  <2>2. Editing
    BY <1>1, <2>1, InRun DEF Editing
  <2> QED
    BY <1>1, <1>3, <2>1, <2>2, InRun DEF EditGood
<1>5. CASE flushed[uiTab].undo # <<>>
  <2>1. PICK t : t = Last(flushed[uiTab].undo)
    OBVIOUS
  <2>2. /\ stacks' = [flushed EXCEPT ![uiTab] = Undone(@, uiText)] /\ lastKnown' = t /\ SetText(t)
    BY <1>2, <1>5, <2>1 DEF EditorUndo
  <2>3. Sound(stacks', seen, IdsOf(tabs)) /\ t \in Texts
    BY <1>1, <1>3, <1>5, <2>1, <2>2, InRun, UndoneSound
  <2>4. Sound(stacks', seen', IdsOf(tabs)) /\ uiText' = t /\ t \in seen'[uiTab]
    BY <2>2, <2>3, SetTextSees, SoundSeen
  <2>5. Editing
    BY <1>1, <2>2, <2>3, InRun DEF Editing
  <2> QED
    BY <1>1, <2>2, <2>3, <2>4, <2>5, InRun DEF EditGood
<1> QED
  BY <1>4, <1>5

LEMMA EditorRedoStep ==
    ASSUME IInv, EditorRedo
    PROVE  EditGood
<1>1. /\ run = "up" /\ uiSql /\ format' = format /\ edits' = edits /\ burst' = None /\ timer' = FALSE
      /\ UNCHANGED <<run, starts, tabs, active, fresh, uiTab, uiSql, disk, lastQuery, goodbye>>
  BY DEF EditorRedo, Up, EditUnchanged, EndBurst, tabVars, diskVars
<1>2. Sound(stacks, seen, IdsOf(tabs))
  BY <1>1, InRun
<1>3. CASE stacks[uiTab].redo = <<>>
  <2>1. stacks' = stacks /\ UNCHANGED <<lastKnown, uiText, content, seen>>
    BY <1>3 DEF EditorRedo, ghostVars
  <2>2. Editing
    BY <1>1, <2>1, InRun DEF Editing
  <2> QED
    BY <1>1, <1>2, <2>1, <2>2, InRun DEF EditGood
<1>4. CASE stacks[uiTab].redo # <<>>
  <2>1. PICK t : t = Last(stacks[uiTab].redo)
    OBVIOUS
  <2>2. /\ stacks' = [stacks EXCEPT ![uiTab] = Redone(@, uiText)] /\ lastKnown' = t /\ SetText(t)
    BY <1>4, <2>1 DEF EditorRedo
  <2>3. Sound(stacks', seen, IdsOf(tabs)) /\ t \in Texts
    BY <1>1, <1>2, <1>4, <2>1, <2>2, InRun, UndoneSound
  <2>4. Sound(stacks', seen', IdsOf(tabs)) /\ uiText' = t /\ t \in seen'[uiTab]
    BY <2>2, <2>3, SetTextSees, SoundSeen
  <2>5. Editing
    BY <1>1, <2>2, <2>3, InRun DEF Editing
  <2> QED
    BY <1>1, <2>2, <2>3, <2>4, <2>5, InRun DEF EditGood
<1> QED
  BY <1>3, <1>4

LEMMA FormatSqlStep ==
    ASSUME IInv, FormatSql
    PROVE  EditGood
<1>1. /\ run = "up" /\ uiSql /\ Snapshot /\ UNCHANGED <<lastKnown, uiText, content, seen, edits>>
      /\ UNCHANGED <<run, starts, tabs, active, fresh, uiTab, uiSql, disk, lastQuery, goodbye>>
  BY DEF FormatSql, Up, EditUnchanged, tabVars, diskVars, ghostVars
<1>2. format' = [tab |-> uiTab, text |-> uiText]
  BY DEF FormatSql
<1>3. format' \in Saying
  BY <1>1, <1>2, InRun DEF Saying
<1>4. Sound(stacks', seen', IdsOf(tabs)) /\ burst' = None /\ timer' = FALSE
  BY <1>1, Snapshots
<1>5. Editing
  BY <1>1, InRun DEF Editing
<1> QED
  BY <1>1, <1>3, <1>4, <1>5, InRun DEF EditGood
-----------------------------------------------------------------------------
(* Tabs.                                                                   *)

(* The tabs with the text of the editor saved, and every text is there.    *)
LEMMA SavedTabs ==
    ASSUME IInv, run # "down", NEW ts, ts = save_current_text(tabs, uiText)
    PROVE  /\ ts \in Seq(TabRec) /\ DOMAIN ts = DOMAIN tabs /\ Len(ts) = Len(tabs)
           /\ WellTabbed(ts) /\ IdsOf(ts) = IdsOf(tabs)
           /\ \A i \in DOMAIN ts : /\ ts[i].id = tabs[i].id /\ ts[i].kind = tabs[i].kind
                                   /\ ts[i].table = tabs[i].table
                                   /\ ts[i].id < fresh
                                   /\ ts[i].kind = "sql" => ts[i].text = content[ts[i].id]
           /\ active \in DOMAIN ts
<1>1. tabs \in Seq(TabRec) /\ WellTabbed(tabs) /\ active \in DOMAIN tabs /\ uiText \in Texts
  BY DEF IInv, TypeTabs, TypeEditor
<1>2. /\ ts \in Seq(TabRec) /\ DOMAIN ts = DOMAIN tabs /\ Len(ts) = Len(tabs)
      /\ \A i \in DOMAIN tabs :
            /\ ts[i].id = tabs[i].id /\ ts[i].kind = tabs[i].kind /\ ts[i].table = tabs[i].table
            /\ ts[i].text = IF i = active /\ tabs[i].kind = "sql" THEN uiText ELSE tabs[i].text
  BY <1>1, SaveEach
<1>3. WellTabbed(ts) /\ IdsOf(ts) = IdsOf(tabs)
  BY <1>1, <1>2, WellKept
<1>4. \A i \in DOMAIN tabs : tabs[i].id < fresh
  BY DEF IInv, Numbered
<1>5. \A i \in DOMAIN tabs : tabs[i].kind = "sql" =>
         content[tabs[i].id] = IF i = active THEN uiText ELSE tabs[i].text
  BY DEF IInv, TextInRun, IsSql
<1> QED
  BY <1>1, <1>2, <1>3, <1>4, <1>5

(* The tabs are ts from now on and the one at i is shown; each has the     *)
(* text the user left in it, and the stacks are theirs.                    *)
LEMMA EnterKeeps ==
    ASSUME IInv, run = "up",
           NEW ts \in Seq(TabRec), WellTabbed(ts), NEW i \in DOMAIN ts,
           Enter(ts, i), lastKnown' = KnownAfter(ts[i]),
           fresh' \in 1 .. MaxTabs + 1, fresh <= fresh',
           content' \in [Ids -> Texts],
           \A j \in DOMAIN ts : /\ ts[j].id < fresh'
                                /\ ts[j].kind = "sql" => ts[j].text = content'[ts[j].id],
           Sound(stacks', seen, IdsOf(ts))
    PROVE  IInv'
<1>0. /\ tabs' = ts /\ active' = i /\ uiTab' = ts[i].id /\ uiSql' = ShownKind(ts[i])
      /\ uiText' = IF ts[i].kind = "sql" THEN ts[i].text ELSE uiText
      /\ seen' = [seen EXCEPT ![ts[i].id] = @ \cup {uiText'}]
      /\ burst' = None /\ timer' = FALSE
      /\ UNCHANGED <<run, starts, format, disk, lastQuery, goodbye, edits>>
  BY DEF Enter, Shows, EndBurst, diskVars
<1>1. ts[i] \in TabRec
  OBVIOUS
<1>2. ts[i].id \in Ids /\ ts[i].text \in Texts
  BY <1>1 DEF TabRec
<1>3. uiText' \in Texts
  BY <1>0, <1>2 DEF IInv, TypeEditor
<1>4. PICK now : now = seen[ts[i].id] \cup {uiText'}
  OBVIOUS
<1>5. /\ now \in SUBSET Texts /\ seen[ts[i].id] \subseteq now /\ uiText' \in now
  BY <1>2, <1>3, <1>4 DEF IInv, TypeEditor
<1>6. seen' = [seen EXCEPT ![ts[i].id] = now]
  BY <1>0, <1>4
<1>7. /\ seen' \in [Ids -> SUBSET Texts] /\ seen'[ts[i].id] = now
      /\ \A id \in Ids : seen[id] \subseteq seen'[id]
  BY <1>2, <1>5, <1>6 DEF IInv, TypeEditor
<1>8. uiSql' = (ts[i].kind = "sql")
  BY <1>0 DEF ShownKind
<1>9. lastKnown' \in Texts /\ (uiSql' => lastKnown' = uiText')
  BY <1>0, <1>2, <1>8, EmptyIsText DEF KnownAfter
<1>10. TypeRun' /\ TypeTabs' /\ TypeDisk'
  BY <1>0 DEF IInv, TypeRun, TypeTabs, TypeDisk
<1>11. TypeEditor'
  BY <1>0, <1>2, <1>3, <1>7, <1>8, <1>9 DEF IInv, TypeEditor
<1>12. Numbered'
  BY <1>0 DEF Numbered, IdsOf
<1>13. Sound(stacks, seen, IdsOf(tabs))'
  <2>1. Sound(stacks', seen', IdsOf(ts))
    BY <1>7, SoundGrows
  <2> QED
    BY <1>0, <2>1
<1>14. BurstSound' /\ EditorSeen'
  BY <1>0, <1>5, <1>7, <1>9 DEF BurstSound, EditorSeen
<1>15. ShownInRun'
  BY <1>0, <1>8 DEF ShownInRun, IsSql, Here
<1>16. TextInRun'
  BY <1>0 DEF TextInRun, IsSql
<1>17. SessionSaved'
  <2>1. fresh \in Nat /\ fresh' \in Nat
    BY <1>10 DEF IInv, TypeTabs
  <2>2. \A k \in DOMAIN disk.entries : disk.entries[k].id \in Nat
    <3>1. \A k \in DOMAIN disk.entries : disk.entries[k] \in Saved
      BY DEF IInv, TypeDisk
    <3> QED
      BY <3>1 DEF Saved, Ids
  <2>3. \A k \in DOMAIN disk.entries : disk.entries[k].id < fresh'
    BY <2>1, <2>2 DEF IInv, SessionSaved
  <2> QED
    BY <1>0, <2>3 DEF IInv, SessionSaved
<1> QED
  BY <1>10, <1>11, <1>12, <1>13, <1>14, <1>15, <1>16, <1>17 DEF IInv

LEMMA NewTabStep ==
    ASSUME IInv, NewTab
    PROVE  IInv'
<1>1. PICK ts : ts = save_current_text(tabs, uiText)
  OBVIOUS
<1>2. /\ run = "up" /\ fresh <= MaxTabs /\ fresh' = fresh + 1 /\ stacks' = stacks
      /\ content' = [content EXCEPT ![fresh] = Empty]
  BY DEF NewTab, Up
<1>3. PICK us : us = Append(ts, Tab(fresh, "sql", Empty, None))
  OBVIOUS
<1>4. Enter(us, Len(us)) /\ lastKnown' = KnownAfter(us[Len(us)])
  BY <1>1, <1>3 DEF NewTab, add_sql_editor, SqlTab, Last
<1>5. fresh \in Ids /\ fresh + 1 \in 1 .. MaxTabs + 1 /\ fresh \in Nat
  BY <1>2, BoundsOk DEF IInv, TypeTabs, Ids
<1>6. /\ ts \in Seq(TabRec) /\ WellTabbed(ts) /\ IdsOf(ts) = IdsOf(tabs)
      /\ \A i \in DOMAIN ts : /\ ts[i].id < fresh
                              /\ ts[i].kind = "sql" => ts[i].text = content[ts[i].id]
  BY <1>1, <1>2, SavedTabs
<1>7. PICK t : t = Tab(fresh, "sql", Empty, None)
  OBVIOUS
<1>8. t.id = fresh /\ t.kind = "sql" /\ t.text = Empty
  BY <1>7 DEF Tab
<1>9. /\ us \in Seq(TabRec) /\ WellTabbed(us)
      /\ Len(us) = Len(ts) + 1 /\ DOMAIN us = DOMAIN ts \cup {Len(ts) + 1}
      /\ \A i \in DOMAIN ts : us[i] = ts[i]
      /\ us[Len(us)] = t /\ IdsOf(us) = IdsOf(ts) \cup {fresh}
      /\ \A i \in DOMAIN us : us[i].id < fresh + 1
  BY <1>3, <1>5, <1>6, <1>7, AppendTab, EmptyIsText
<1>10. Len(us) \in DOMAIN us
  BY <1>9
<1>11. content \in [Ids -> Texts] /\ content' \in [Ids -> Texts] /\ content'[fresh] = Empty
       /\ \A id \in Ids : id # fresh => content'[id] = content[id]
  BY <1>2, <1>5, EmptyIsText DEF IInv, TypeEditor
<1>12. ASSUME NEW j \in DOMAIN us, us[j].kind = "sql" PROVE us[j].text = content'[us[j].id]
  <2>1. CASE j \in DOMAIN ts
    <3>1. ts[j] \in TabRec
      BY <1>6, <2>1
    <3>2. us[j] = ts[j] /\ ts[j].id \in Ids /\ ts[j].id # fresh /\ ts[j].text = content[ts[j].id]
      BY <1>5, <1>6, <1>9, <1>12, <2>1, <3>1 DEF TabRec
    <3> QED
      BY <1>11, <3>2
  <2>2. CASE j \notin DOMAIN ts
    <3>1. us[j] = t
      BY <1>9, <2>2
    <3> QED
      BY <1>8, <1>11, <3>1
  <2> QED
    BY <2>1, <2>2
<1>13. Sound(stacks', seen, IdsOf(us))
  <2>1. Sound(stacks, seen, IdsOf(tabs))
    BY DEF IInv
  <2> QED
    BY <1>2, <1>6, <1>9, <2>1, SoundGrows
<1>14. fresh' \in 1 .. MaxTabs + 1 /\ fresh <= fresh' /\ \A j \in DOMAIN us : us[j].id < fresh'
  BY <1>2, <1>5, <1>9
<1> QED
  BY <1>2, <1>4, <1>9, <1>10, <1>11, <1>12, <1>13, <1>14, EnterKeeps

LEMMA SwitchTabStep ==
    ASSUME IInv, NEW i \in DOMAIN tabs, SwitchTab(i)
    PROVE  IInv'
<1>1. PICK ts : ts = save_current_text(tabs, uiText)
  OBVIOUS
<1>2. /\ run = "up" /\ fresh' = fresh /\ stacks' = stacks /\ content' = content
      /\ Enter(ts, i) /\ lastKnown' = KnownAfter(ts[i])
  BY <1>1 DEF SwitchTab, Up
<1>3. /\ ts \in Seq(TabRec) /\ WellTabbed(ts) /\ IdsOf(ts) = IdsOf(tabs) /\ i \in DOMAIN ts
      /\ \A j \in DOMAIN ts : /\ ts[j].id < fresh
                              /\ ts[j].kind = "sql" => ts[j].text = content[ts[j].id]
  BY <1>1, <1>2, SavedTabs
<1>4. Sound(stacks, seen, IdsOf(tabs)) /\ content \in [Ids -> Texts] /\ fresh \in 1 .. MaxTabs + 1
  BY DEF IInv, TypeEditor, TypeTabs
<1> QED
  BY <1>2, <1>3, <1>4, EnterKeeps

(* Texts may be saved without anything else.                               *)
LEMMA SavingKeeps ==
    ASSUME IInv, run = "up", run' \in {"up", "tabs"},
           tabs' \in {tabs, save_current_text(tabs, uiText)},
           run' = "tabs" => tabs' = save_current_text(tabs, uiText),
           UNCHANGED <<starts, active, fresh, undoVars, uiVars, format, diskVars, ghostVars, edits>>
    PROVE  IInv'
<1>0. UNCHANGED <<starts, active, fresh, stacks, lastKnown, burst, timer, uiText, uiTab, uiSql,
                  format, disk, lastQuery, goodbye, content, seen, edits>>
  BY DEF undoVars, uiVars, diskVars, ghostVars
<1>1. PICK ts : ts = save_current_text(tabs, uiText)
  OBVIOUS
<1>2. /\ ts \in Seq(TabRec) /\ DOMAIN ts = DOMAIN tabs /\ WellTabbed(ts) /\ IdsOf(ts) = IdsOf(tabs)
      /\ \A i \in DOMAIN ts : /\ ts[i].id = tabs[i].id /\ ts[i].kind = tabs[i].kind
                              /\ ts[i].id < fresh
                              /\ ts[i].kind = "sql" => ts[i].text = content[ts[i].id]
  BY <1>1, SavedTabs
<1>3. /\ tabs \in Seq(TabRec) /\ WellTabbed(tabs) /\ active \in DOMAIN tabs
      /\ \A i \in DOMAIN tabs : tabs[i].id < fresh
      /\ \A i \in DOMAIN tabs : tabs[i].kind = "sql" =>
            content[tabs[i].id] = IF i = active THEN uiText ELSE tabs[i].text
  BY DEF IInv, TypeTabs, Numbered, TextInRun, IsSql
<1>4. /\ tabs' \in Seq(TabRec) /\ DOMAIN tabs' = DOMAIN tabs /\ WellTabbed(tabs')
      /\ IdsOf(tabs') = IdsOf(tabs)
      /\ \A i \in DOMAIN tabs : /\ tabs'[i].id = tabs[i].id /\ tabs'[i].kind = tabs[i].kind
                                /\ tabs'[i].id < fresh
  BY <1>1, <1>2, <1>3
<1>5. TypeRun' /\ TypeDisk' /\ TypeEditor'
  BY <1>0 DEF IInv, TypeRun, TypeDisk, TypeEditor
<1>6. TypeTabs'
  BY <1>0, <1>3, <1>4 DEF IInv, TypeTabs
<1>7. Numbered'
  BY <1>0, <1>4 DEF IInv, Numbered
<1>8. Sound(stacks, seen, IdsOf(tabs))' /\ BurstSound' /\ EditorSeen'
  BY <1>0, <1>4 DEF IInv, BurstSound, EditorSeen
<1>9. ShownInRun'
  BY <1>0, <1>3, <1>4 DEF IInv, ShownInRun, IsSql, Here
<1>10. TextInRun'
  <2>1. ASSUME NEW i \in DOMAIN tabs, tabs[i].kind = "sql", i = active, uiText # content[tabs[i].id]
        PROVE FALSE
    BY <1>3, <2>1
  <2>2. ASSUME NEW i \in DOMAIN tabs, tabs'[i].kind = "sql"
        PROVE  /\ content[tabs[i].id] = IF i = active THEN uiText ELSE tabs'[i].text
               /\ run' = "tabs" => content[tabs[i].id] = tabs'[i].text
    <3>1. CASE tabs' = tabs /\ run' = "up"
      BY <1>3, <2>2, <3>1
    <3>2. CASE tabs' = ts
      BY <1>2, <1>3, <2>1, <2>2, <3>2
    <3> QED
      BY <1>1, <3>1, <3>2
  <2> QED
    BY <1>0, <1>4, <2>2 DEF TextInRun, IsSql
<1>11. SessionSaved'
  BY <1>0 DEF IInv, SessionSaved
<1> QED
  BY <1>5, <1>6, <1>7, <1>8, <1>9, <1>10, <1>11 DEF IInv

LEMMA CloseTabStep ==
    ASSUME IInv, NEW i \in DOMAIN tabs, CloseTab(i)
    PROVE  IInv'
<1>1. PICK ts : ts = IF active = i THEN tabs ELSE save_current_text(tabs, uiText)
  OBVIOUS
<1>2. run = "up" /\ fresh' = fresh /\ content' = content
  BY DEF CloseTab, Up
<1>3. /\ tabs \in Seq(TabRec) /\ WellTabbed(tabs) /\ active \in DOMAIN tabs
      /\ \A j \in DOMAIN tabs : tabs[j].id < fresh
      /\ \A j \in DOMAIN tabs : tabs[j].kind = "sql" =>
            content[tabs[j].id] = IF j = active THEN uiText ELSE tabs[j].text
  BY <1>2 DEF IInv, TypeTabs, Numbered, TextInRun, IsSql
<1>4. /\ ts \in Seq(TabRec) /\ DOMAIN ts = DOMAIN tabs /\ WellTabbed(ts) /\ IdsOf(ts) = IdsOf(tabs)
      /\ \A j \in DOMAIN ts : /\ ts[j].id < fresh
                              /\ ts[j].kind = "sql" /\ j # i => ts[j].text = content[ts[j].id]
  <2>1. CASE active = i
    BY <1>1, <1>3, <2>1
  <2>2. CASE active # i
    BY <1>1, <1>2, <2>2, SavedTabs
  <2> QED
    BY <2>1, <2>2
<1>5. CASE CanClose(ts, i)
  <2>1. PICK us, k : us = Closed(ts, i).tabs /\ k = Closed(ts, i).active
    OBVIOUS
  <2>2. /\ us \in Seq(TabRec) /\ WellTabbed(us) /\ k \in DOMAIN us
        /\ \A j \in DOMAIN us : \E m \in DOMAIN ts : m # i /\ us[j] = ts[m]
        /\ IdsOf(us) = IdsOf(ts) \ {ts[i].id}
    BY <1>3, <1>4, <1>5, <2>1, CloseEach
  <2>3. /\ Enter(us, k) /\ lastKnown' = KnownAfter(us[k])
        /\ stacks' = [stacks EXCEPT ![ts[i].id] = NoStack]
    BY <1>1, <1>5, <2>1 DEF CloseTab
  <2>4. Sound(stacks', seen, IdsOf(us))
    <3>1. Sound(stacks, seen, IdsOf(ts))
      BY <1>4 DEF IInv
    <3>2. Sound([id \in Ids |-> NoStack], seen, {}) /\ NoStack \in Stack /\ ts[i] \in TabRec
      BY <1>4, NothingSound DEF NoStack, Stack
    <3>3. ts[i].id \in Ids
      BY <3>2 DEF TabRec
    <3>4. /\ stacks' \in [Ids -> Stack] /\ stacks'[ts[i].id] = NoStack
          /\ \A id \in Ids : id # ts[i].id => stacks'[id] = stacks[id]
      BY <2>3, <3>1, <3>2, <3>3 DEF Sound
    <3>5. /\ Len(NoStack.undo) <= UndoMax /\ Len(NoStack.redo) <= UndoMax
          /\ \A id \in Ids : TextsOf(NoStack) \subseteq seen[id]
      BY <3>2, <3>3 DEF Sound
    <3> QED
      BY <2>2, <3>1, <3>4, <3>5 DEF Sound
  <2>5. \A j \in DOMAIN us : us[j].id < fresh' /\ (us[j].kind = "sql" => us[j].text = content'[us[j].id])
    BY <1>2, <1>4, <2>2
  <2>6. content' \in [Ids -> Texts] /\ fresh' \in 1 .. MaxTabs + 1 /\ fresh <= fresh'
    BY <1>2 DEF IInv, TypeEditor, TypeTabs
  <2> QED
    BY <1>2, <2>2, <2>3, <2>4, <2>5, <2>6, EnterKeeps
<1>6. CASE ~ CanClose(ts, i)
  <2>1. /\ tabs' = ts
        /\ UNCHANGED <<run, starts, active, undoVars, uiVars, format, diskVars, seen, edits>>
    BY <1>1, <1>6 DEF CloseTab
  <2> QED
    BY <1>1, <1>2, <2>1, SavingKeeps DEF ghostVars
<1> QED
  BY <1>5, <1>6

LEMMA OpenTableStep ==
    ASSUME IInv, NEW tb \in Tables, OpenTable(tb)
    PROVE  IInv'
<1>0. /\ run = "up" /\ uiSql' = FALSE
      /\ UNCHANGED <<run, starts, stacks, lastKnown, burst, timer, uiText, uiTab, format,
                     disk, lastQuery, goodbye, content, seen, edits>>
  BY DEF OpenTable, Up, undoVars, diskVars, ghostVars
<1>1. PICK ts : ts = save_current_text(tabs, uiText)
  OBVIOUS
<1>2. /\ ts \in Seq(TabRec) /\ WellTabbed(ts) /\ IdsOf(ts) = IdsOf(tabs)
      /\ \A j \in DOMAIN ts : /\ ts[j].id < fresh
                              /\ ts[j].kind = "sql" => ts[j].text = content[ts[j].id]
  BY <1>0, <1>1, SavedTabs
<1>3. fresh \in 1 .. MaxTabs + 1 /\ fresh \in Nat
  BY DEF IInv, TypeTabs
<1>4. /\ tabs' \in Seq(TabRec) /\ WellTabbed(tabs') /\ active' \in DOMAIN tabs'
      /\ IdsOf(tabs) \subseteq IdsOf(tabs')
      /\ fresh' \in 1 .. MaxTabs + 1 /\ fresh <= fresh'
      /\ tabs'[active'].kind # "sql"
      /\ \A j \in DOMAIN tabs' : /\ tabs'[j].id < fresh'
                                 /\ tabs'[j].kind = "sql" => tabs'[j].text = content[tabs'[j].id]
  <2>1. CASE find_table_view(ts, tb) # {}
    <3>1. tabs' = ts /\ active' \in find_table_view(ts, tb) /\ fresh' = fresh
      BY <1>1, <2>1 DEF OpenTable, open_table_view
    <3>2. active' \in DOMAIN ts /\ ts[active'].table = tb /\ tb # None
      BY <3>1, NoneIsNone DEF find_table_view
    <3>3. ts[active'].kind # "sql"
      BY <1>2, <3>2 DEF WellTabbed
    <3> QED
      BY <1>2, <1>3, <3>1, <3>2, <3>3
  <2>2. CASE find_table_view(ts, tb) = {}
    <3>1. PICK t : t = Tab(fresh, "table", Empty, tb)
      OBVIOUS
    <3>2. /\ fresh <= MaxTabs /\ tabs' = Append(ts, t) /\ active' = Len(tabs') /\ fresh' = fresh + 1
      BY <1>1, <2>2, <3>1 DEF OpenTable, open_table_view
    <3>3. fresh \in Ids /\ fresh + 1 \in 1 .. MaxTabs + 1
      BY <1>3, <3>2, BoundsOk DEF Ids
    <3>4. PICK us : us = Append(ts, t)
      OBVIOUS
    <3>5. /\ us \in Seq(TabRec) /\ WellTabbed(us)
          /\ Len(us) = Len(ts) + 1 /\ DOMAIN us = DOMAIN ts \cup {Len(ts) + 1}
          /\ \A j \in DOMAIN ts : us[j] = ts[j]
          /\ us[Len(us)] = t /\ IdsOf(us) = IdsOf(ts) \cup {fresh}
          /\ \A j \in DOMAIN us : us[j].id < fresh + 1
      BY <1>2, <3>1, <3>3, <3>4, AppendTab, EmptyIsText
    <3>6. t.kind = "table"
      BY <3>1 DEF Tab
    <3>7. \A j \in DOMAIN us : us[j].kind = "sql" => us[j].text = content[us[j].id]
      BY <1>2, <3>5, <3>6
    <3> QED
      BY <1>2, <1>3, <3>2, <3>3, <3>4, <3>5, <3>6, <3>7
  <2> QED
    BY <2>1, <2>2
<1>5. TypeRun' /\ TypeTabs' /\ TypeDisk' /\ TypeEditor'
  BY <1>0, <1>4 DEF IInv, TypeRun, TypeTabs, TypeDisk, TypeEditor
<1>6. Numbered'
  BY <1>0, <1>4 DEF IInv, Numbered
<1>7. Sound(stacks, seen, IdsOf(tabs))'
  <2>1. Sound(stacks, seen, IdsOf(tabs'))
    BY <1>4, SoundGrows DEF IInv
  <2> QED
    BY <1>0, <2>1
<1>8. BurstSound' /\ EditorSeen'
  BY <1>0, <1>4 DEF IInv, BurstSound, EditorSeen
<1>9. ShownInRun'
  BY <1>0, <1>4 DEF ShownInRun, IsSql
<1>10. TextInRun'
  BY <1>0, <1>4 DEF TextInRun, IsSql
<1>11. SessionSaved'
  <2>1. \A k \in DOMAIN disk.entries : disk.entries[k] \in Saved
    BY DEF IInv, TypeDisk
  <2>2. \A k \in DOMAIN disk.entries : disk.entries[k].id \in Nat
    BY <2>1 DEF Saved, Ids
  <2>3. \A k \in DOMAIN disk.entries : disk.entries[k].id < fresh'
    BY <1>3, <1>4, <2>2 DEF IInv, SessionSaved
  <2> QED
    BY <1>0, <2>3 DEF IInv, SessionSaved
<1> QED
  BY <1>5, <1>6, <1>7, <1>8, <1>9, <1>10, <1>11 DEF IInv
-----------------------------------------------------------------------------
(* The end of the process, and the next start.                             *)

LEMMA CloseWindowStep ==
    ASSUME IInv, CloseWindow
    PROVE  IInv'
BY SavingKeeps DEF CloseWindow, SavingUnchanged, Up

(* What is saved is what is seen.                                          *)
LEMMA SaveTabsStep ==
    ASSUME IInv, SaveTabs
    PROVE  IInv'
<1>0. /\ run = "tabs" /\ run' = "query"
      /\ UNCHANGED <<starts, tabs, active, fresh, stacks, lastKnown, burst, timer, uiText, uiTab,
                     uiSql, format, lastQuery, content, seen, edits>>
      /\ \/ disk' = session_entries /\ goodbye' = AsSeen
         \/ UNCHANGED <<disk, goodbye>>
  BY DEF SaveTabs, SavingUnchanged, undoVars, uiVars, ghostVars
<1>1. /\ tabs \in Seq(TabRec) /\ WellTabbed(tabs) /\ active \in DOMAIN tabs
      /\ \A i \in DOMAIN tabs : tabs[i].id < fresh
      /\ \A i \in DOMAIN tabs : tabs[i].kind = "sql" => content[tabs[i].id] = tabs[i].text
  BY <1>0 DEF IInv, TypeTabs, Numbered, TextInRun, IsSql
<1>2. TypeRun' /\ TypeTabs' /\ TypeEditor' /\ Numbered'
  BY <1>0 DEF IInv, TypeRun, TypeTabs, TypeEditor, Numbered
<1>3. Sound(stacks, seen, IdsOf(tabs))' /\ BurstSound' /\ EditorSeen' /\ ShownInRun' /\ TextInRun'
  BY <1>0 DEF IInv, BurstSound, EditorSeen, ShownInRun, TextInRun, IsSql, Here
<1>4. CASE UNCHANGED <<disk, goodbye>>
  <2>1. TypeDisk' /\ SessionSaved'
    BY <1>0, <1>4 DEF IInv, TypeDisk, SessionSaved
  <2> QED
    BY <1>2, <1>3, <2>1 DEF IInv
<1>5. CASE disk' = session_entries /\ goodbye' = AsSeen
  <2> DEFINE S == SqlTabs(tabs)
             E == [k \in DOMAIN S |-> [id |-> S[k].id, text |-> S[k].text]]
  <2>1. /\ S \in Seq(TabRec)
        /\ \A k \in DOMAIN S : \E i \in DOMAIN tabs : /\ S[k] = tabs[i] /\ tabs[i].kind = "sql"
                                                      /\ SqlUpTo(tabs, i) = k
        /\ \A i \in DOMAIN tabs : tabs[i].kind = "sql" =>
              SqlUpTo(tabs, i) \in DOMAIN S /\ S[SqlUpTo(tabs, i)] = tabs[i]
    BY <1>1, SqlTabsEach
  <2>2. disk' = [active |-> ActiveSql, entries |-> E]
    BY <1>5 DEF session_entries
  <2>3. goodbye' = [active |-> IF IsSql(active) THEN Here.id ELSE S[1].id,
                    tabs   |-> [k \in DOMAIN S |-> [id |-> S[k].id, text |-> content[S[k].id]]]]
    BY <1>5 DEF AsSeen
  <2> HIDE DEF S
  <2>4. \A k \in DOMAIN S : S[k] \in TabRec /\ S[k].text = content[S[k].id]
    BY <1>1, <2>1
  <2>5. \A k \in DOMAIN S : [id |-> S[k].id, text |-> S[k].text] \in Saved
    BY <2>4 DEF TabRec, Saved
  <2>6. E \in Seq(Saved) /\ DOMAIN E = DOMAIN S /\ \A k \in DOMAIN S : E[k].id = S[k].id
    BY <2>1, <2>5
  <2>7. goodbye'.tabs = E
    BY <2>3, <2>4
  <2>8. goodbye' = [active |-> IF IsSql(active) THEN Here.id ELSE S[1].id, tabs |-> E]
    BY <2>3, <2>7
  <2> HIDE DEF E
  <2>9. PICK i \in DOMAIN tabs : tabs[i].kind = "sql"
    BY <1>1 DEF WellTabbed
  <2>10. SqlUpTo(tabs, i) \in DOMAIN S
    BY <2>1, <2>9
  <2>11. 1 \in DOMAIN S /\ S # <<>>
    BY <2>1, <2>10
  <2>12. ActiveSql \in DOMAIN S /\ (IsSql(active) => S[ActiveSql] = Here)
                               /\ (~ IsSql(active) => ActiveSql = 1)
    BY <1>1, <2>1, <2>11 DEF ActiveSql, IsSql, Here
  <2>13. ActiveSql \in Nat /\ E # <<>>
    BY <2>1, <2>6, <2>11, <2>12
  <2>14. disk'.active = ActiveSql /\ disk'.entries = E
    BY <2>2
  <2>15. TypeDisk'
    BY <1>0, <2>2, <2>6, <2>13 DEF IInv, TypeDisk
  <2>16. goodbye' = [active |-> E[ActiveSql].id, tabs |-> E]
    BY <2>6, <2>8, <2>12
  <2>17. ASSUME NEW j \in DOMAIN E, NEW k \in DOMAIN E, E[j].id = E[k].id PROVE j = k
    <3>1. PICK m \in DOMAIN tabs : S[j] = tabs[m] /\ SqlUpTo(tabs, m) = j
      BY <2>1, <2>6
    <3>2. PICK n \in DOMAIN tabs : S[k] = tabs[n] /\ SqlUpTo(tabs, n) = k
      BY <2>1, <2>6
    <3>3. m = n
      BY <1>1, <2>6, <2>17, <3>1, <3>2 DEF WellTabbed
    <3> QED
      BY <3>1, <3>2, <3>3
  <2>18. \A k \in DOMAIN E : E[k].id < fresh'
    BY <1>0, <1>1, <2>1, <2>6
  <2>19. SessionSaved'
    BY <2>6, <2>12, <2>13, <2>14, <2>16, <2>17, <2>18 DEF SessionSaved
  <2> QED
    BY <1>2, <1>3, <2>15, <2>19 DEF IInv
<1> QED
  BY <1>0, <1>4, <1>5

(* A process that is gone.                                                 *)
LEMMA NoMemorySound ==
    ASSUME NEW ts, ts = NoMemory.tabs
    PROVE  /\ ts \in Seq(TabRec) /\ WellTabbed(ts) /\ DOMAIN ts = {1}
           /\ NoMemory.content \in [Ids -> Texts] /\ NoMemory.seen \in [Ids -> SUBSET Texts]
           /\ Sound(NoMemory.stacks, NoMemory.seen, IdsOf(ts))
           /\ 1 \in Ids
<1>1. PICK t : t = SqlTab(1, Empty)
  OBVIOUS
<1>2. 1 \in Ids
  BY BoundsOk DEF Ids
<1>3. t \in TabRec /\ t.id = 1 /\ t.kind = "sql" /\ t.table = None
  BY <1>1, <1>2, EmptyIsText DEF SqlTab, Tab, TabRec
<1>4. ts = <<t>>
  BY <1>1 DEF NoMemory
<1>5. ts \in Seq(TabRec) /\ DOMAIN ts = {1} /\ ts[1] = t
  BY <1>3, <1>4
<1>6. WellTabbed(ts)
  BY <1>3, <1>5 DEF WellTabbed
<1>7. NoMemory.content \in [Ids -> Texts] /\ NoMemory.seen \in [Ids -> SUBSET Texts]
  BY EmptyIsText DEF NoMemory
<1>8. NoMemory.stacks = [id \in Ids |-> NoStack]
  BY DEF NoMemory
<1> QED
  BY <1>2, <1>5, <1>6, <1>7, <1>8, NothingSound

LEMMA DieStep ==
    ASSUME IInv, Die, TypeDisk', UNCHANGED <<disk, goodbye>>
    PROVE  IInv'
<1>0. /\ run' = "down" /\ tabs' = NoMemory.tabs /\ active' = 1 /\ stacks' = NoMemory.stacks
      /\ lastKnown' = Empty /\ burst' = None /\ timer' = FALSE
      /\ uiText' = Empty /\ uiTab' = 1 /\ uiSql' = TRUE /\ format' = None
      /\ content' = NoMemory.content /\ seen' = NoMemory.seen
      /\ UNCHANGED <<fresh, starts, edits>>
  BY DEF Die
<1>1. /\ tabs' \in Seq(TabRec) /\ WellTabbed(tabs') /\ DOMAIN tabs' = {1}
      /\ content' \in [Ids -> Texts] /\ seen' \in [Ids -> SUBSET Texts]
      /\ Sound(stacks', seen', IdsOf(tabs')) /\ 1 \in Ids
  BY <1>0, NoMemorySound
<1>2. TypeRun' /\ TypeTabs'
  BY <1>0, <1>1 DEF IInv, TypeRun, TypeTabs
<1>3. TypeEditor'
  BY <1>0, <1>1, EmptyIsText DEF TypeEditor
<1>4. Numbered' /\ BurstSound' /\ EditorSeen' /\ ShownInRun' /\ TextInRun'
  BY <1>0 DEF Numbered, BurstSound, EditorSeen, ShownInRun, TextInRun
<1>5. Sound(stacks, seen, IdsOf(tabs))'
  BY <1>1
<1>6. SessionSaved'
  BY <1>0 DEF IInv, SessionSaved
<1> QED
  BY <1>2, <1>3, <1>4, <1>5, <1>6 DEF IInv

LEMMA SaveLastQueryStep ==
    ASSUME IInv, SaveLastQuery
    PROVE  IInv'
<1>1. Die /\ disk' = disk /\ goodbye' = goodbye /\ lastQuery' \in {uiText, lastQuery}
  BY DEF SaveLastQuery
<1>2. TypeDisk'
  BY <1>1 DEF IInv, TypeDisk, TypeEditor
<1> QED
  BY <1>1, <1>2, DieStep

LEMMA QuitStep ==
    ASSUME IInv, Quit
    PROVE  IInv'
<1>1. Die /\ disk' = disk /\ goodbye' = goodbye /\ lastQuery' = lastQuery
  BY DEF Quit, diskVars
<1>2. TypeDisk'
  BY <1>1 DEF IInv, TypeDisk
<1> QED
  BY <1>1, <1>2, DieStep

(* What a start has in its tabs: the saved ones if it is from the session, *)
(* else one new tab.                                                       *)
WellRestored(ts, k, from) ==
    /\ ts \in Seq(TabRec) /\ k \in DOMAIN ts
    /\ \A i \in DOMAIN ts : ts[i].kind = "sql" /\ ts[i].table = None
    /\ \A i, j \in DOMAIN ts : ts[i].id = ts[j].id => i = j
    /\ ~from => DOMAIN ts = {1} /\ ts[1].id = fresh
    /\ from => /\ k = disk.active /\ DOMAIN ts = DOMAIN disk.entries
               /\ \A i \in DOMAIN ts : /\ ts[i].id = disk.entries[i].id /\ ts[i].id < fresh
                                       /\ ts[i].text = disk.entries[i].text

(* A start brings such tabs back (from_session).                           *)
LEMMA RestoredTabs ==
    ASSUME IInv, NEW from \in BOOLEAN, NEW query \in Texts, from => disk.entries # <<>>,
           from \/ fresh <= MaxTabs
    PROVE  WellRestored(Restored(from, query).tabs, Restored(from, query).active, from)
<1> SUFFICES ASSUME NEW ts, NEW k,
                    ts = Restored(from, query).tabs, k = Restored(from, query).active
             PROVE  WellRestored(ts, k, from)
  OBVIOUS
<1>0. /\ disk.entries \in Seq(Saved) /\ disk.active \in Nat
      /\ \A i, j \in DOMAIN disk.entries : disk.entries[i].id = disk.entries[j].id => i = j
      /\ \A i \in DOMAIN disk.entries : disk.entries[i].id < fresh
      /\ disk.entries # <<>> => disk.active \in DOMAIN disk.entries
      /\ fresh \in 1 .. MaxTabs + 1
  BY DEF IInv, TypeDisk, SessionSaved, TypeTabs
<1>1. CASE ~from
  <2>1. PICK t : t = SqlTab(fresh, query)
    OBVIOUS
  <2>2. ts = <<t>> /\ k = 1
    BY <1>1, <2>1 DEF Restored
  <2>3. fresh \in Ids
    BY <1>0, <1>1, BoundsOk DEF Ids
  <2>4. t \in TabRec /\ t.id = fresh /\ t.kind = "sql" /\ t.table = None
    BY <1>0, <2>1, <2>3 DEF SqlTab, Tab, TabRec
  <2>5. ts \in Seq(TabRec) /\ DOMAIN ts = {1} /\ ts[1] = t
    BY <2>2, <2>4
  <2> QED
    BY <1>1, <2>2, <2>4, <2>5 DEF WellRestored
<1>2. CASE from
  <2> DEFINE e == disk.entries
  <2>1. ts = [i \in DOMAIN e |-> SqlTab(e[i].id, e[i].text)]
    BY <1>2 DEF Restored, restore_tabs
  <2>2. k = disk.active
    <3>1. disk.active \in DOMAIN e /\ e \in Seq(Saved)
      BY <1>0, <1>2
    <3>2. disk.active <= Len(e)
      BY <3>1
    <3>3. Restored(from, query) = [restore_tabs EXCEPT !.active = IF @ <= Len(e) THEN @ ELSE Len(e)]
      BY <1>2 DEF Restored
    <3>4. restore_tabs.active = disk.active
      BY DEF restore_tabs
    <3> QED
      BY <3>2, <3>3, <3>4 DEF restore_tabs
  <2> HIDE DEF e
  <2>3. e \in Seq(Saved)
    BY <1>0 DEF e
  <2>4. \A i \in DOMAIN e : e[i] \in Saved
    BY <2>3
  <2>5. ASSUME NEW i \in DOMAIN e
        PROVE  LET t == SqlTab(e[i].id, e[i].text) IN
               t \in TabRec /\ t.id = e[i].id /\ t.kind = "sql" /\ t.table = None /\ t.text = e[i].text
    <3>1. e[i].id \in Ids /\ e[i].text \in Texts
      BY <2>4 DEF Saved
    <3> QED
      BY <3>1 DEF SqlTab, Tab, TabRec
  <2>6. /\ ts \in Seq(TabRec) /\ DOMAIN ts = DOMAIN e
        /\ \A i \in DOMAIN e : ts[i] = SqlTab(e[i].id, e[i].text)
    BY <2>1, <2>3, <2>5
  <2>7. \A i \in DOMAIN e : /\ ts[i].id = e[i].id /\ ts[i].kind = "sql" /\ ts[i].table = None
                            /\ ts[i].text = e[i].text
    BY <2>5, <2>6
  <2>8. /\ disk.active \in DOMAIN e
        /\ \A i, j \in DOMAIN e : e[i].id = e[j].id => i = j
        /\ \A i \in DOMAIN e : e[i].id < fresh
    BY <1>0, <1>2 DEF e
  <2>9. /\ ts \in Seq(TabRec) /\ k \in DOMAIN ts
        /\ \A i \in DOMAIN ts : ts[i].kind = "sql" /\ ts[i].table = None
        /\ \A i, j \in DOMAIN ts : ts[i].id = ts[j].id => i = j
        /\ k = disk.active /\ DOMAIN ts = DOMAIN disk.entries
        /\ \A i \in DOMAIN ts : /\ ts[i].id = disk.entries[i].id /\ ts[i].id < fresh
                                /\ ts[i].text = disk.entries[i].text
    BY <2>2, <2>6, <2>7, <2>8 DEF e
  <2> QED
    BY Zenon, <1>2, <2>9 DEF WellRestored
<1> QED
  BY <1>1, <1>2

(* Each tab has the text of its own in content.                            *)
LEMMA StartContent ==
    ASSUME IInv, NEW from \in BOOLEAN, NEW query \in Texts, from => disk.entries # <<>>,
           StartFrom(from, query), NEW ts, ts = Restored(from, query).tabs
    PROVE  /\ content' \in [Ids -> Texts]
           /\ \A i \in DOMAIN ts : ts[i].id \in Ids /\ content'[ts[i].id] = ts[i].text
<1>1. from \/ fresh <= MaxTabs
  BY DEF StartFrom
<1>2. /\ ts \in Seq(TabRec) /\ \A i, j \in DOMAIN ts : ts[i].id = ts[j].id => i = j
  <2>1. WellRestored(ts, Restored(from, query).active, from)
    BY Zenon, <1>1, RestoredTabs
  <2> QED
    BY Zenon, <2>1 DEF WellRestored
<1>3. content' = [id \in Ids |-> IF \E i \in DOMAIN ts : ts[i].id = id
                                 THEN (CHOOSE t \in Range(ts) : t.id = id).text
                                 ELSE Empty]
  BY DEF StartFrom
<1>4. ASSUME NEW i \in DOMAIN ts
      PROVE  (CHOOSE t \in Range(ts) : t.id = ts[i].id) = ts[i]
  <2>1. ts[i] \in Range(ts) /\ \A t \in Range(ts) : t.id = ts[i].id => t = ts[i]
    BY <1>2 DEF Range
  <2> QED
    BY <2>1
<1>5. \A i \in DOMAIN ts : ts[i] \in TabRec
  BY <1>2
<1>6. \A i \in DOMAIN ts : ts[i].id \in Ids /\ ts[i].text \in Texts
  BY <1>5 DEF TabRec
<1>7. \A i \in DOMAIN ts : content'[ts[i].id] = ts[i].text
  BY <1>3, <1>4, <1>6
<1>8. ASSUME NEW id \in Ids PROVE content'[id] \in Texts
  <2>1. CASE \E i \in DOMAIN ts : ts[i].id = id
    BY <1>6, <1>7, <2>1
  <2>2. CASE ~ \E i \in DOMAIN ts : ts[i].id = id
    BY <1>3, <2>2, EmptyIsText
  <2> QED
    BY <2>1, <2>2
<1>9. content' \in [Ids -> Texts]
  BY <1>3, <1>8
<1> QED
  BY <1>6, <1>7, <1>9

(* A start from the session shows what was saved.                          *)
LEMMA StartFromStep ==
    ASSUME IInv, NEW from \in BOOLEAN, NEW query \in Texts, from => disk.entries # <<>>,
           StartFrom(from, query)
    PROVE  IInv' /\ (from /\ goodbye # None => (AsSeen)' = goodbye)
<1>0. /\ run' = "up" /\ starts' \in 0 .. MaxStarts
      /\ (from \/ fresh <= MaxTabs)
      /\ fresh' = IF from THEN fresh ELSE fresh + 1
      /\ stacks' = [id \in Ids |-> NoStack] /\ burst' = None /\ timer' = FALSE /\ format' = None
      /\ UNCHANGED <<disk, lastQuery, goodbye, edits>>
  BY BoundsOk DEF StartFrom, diskVars, IInv, TypeRun
<1>1. PICK ts, k : ts = Restored(from, query).tabs /\ k = Restored(from, query).active
  OBVIOUS
<1>2. /\ ts \in Seq(TabRec) /\ k \in DOMAIN ts
      /\ \A i \in DOMAIN ts : ts[i].kind = "sql" /\ ts[i].table = None
      /\ \A i, j \in DOMAIN ts : ts[i].id = ts[j].id => i = j
      /\ ~from => DOMAIN ts = {1} /\ ts[1].id = fresh
      /\ from =>
            /\ k = disk.active /\ DOMAIN ts = DOMAIN disk.entries
            /\ \A i \in DOMAIN ts : /\ ts[i].id = disk.entries[i].id /\ ts[i].id < fresh
                                    /\ ts[i].text = disk.entries[i].text
  <2>1. from \/ fresh <= MaxTabs
    BY <1>0
  <2>2. WellRestored(ts, k, from)
    BY Zenon, <1>1, <2>1, RestoredTabs
  <2> QED
    BY Zenon, <2>2 DEF WellRestored
<1>3. /\ tabs' = ts /\ active' = k /\ uiText' = ts[k].text /\ uiTab' = ts[k].id /\ uiSql' = TRUE
      /\ lastKnown' = IF from THEN uiText' ELSE Empty
      /\ seen' = [id \in Ids |-> {content'[id]} \cup IF id = fresh THEN {Empty} ELSE {}]
  BY <1>1 DEF StartFrom, ShowRestored
<1>4. /\ content' \in [Ids -> Texts]
      /\ \A i \in DOMAIN ts : ts[i].id \in Ids /\ content'[ts[i].id] = ts[i].text
  BY <1>1, StartContent
<1>5. fresh' \in 1 .. MaxTabs + 1 /\ fresh <= fresh' /\ fresh \in Nat /\ fresh' \in Nat
  BY <1>0, BoundsOk DEF IInv, TypeTabs
<1>6. WellTabbed(ts)
  BY <1>2 DEF WellTabbed
<1>7. uiText' \in Texts /\ uiText' = content'[uiTab'] /\ uiTab' \in Ids
  BY <1>2, <1>3, <1>4
<1>8. /\ seen' \in [Ids -> SUBSET Texts] /\ uiText' \in seen'[uiTab']
  <2>1. \A id \in Ids : content'[id] \in Texts
    BY <1>4
  <2> QED
    BY <1>3, <1>7, <2>1, EmptyIsText
<1>9. lastKnown' \in Texts /\ lastKnown' \in seen'[uiTab']
  <2>1. CASE ~from
    <3>1. uiTab' = fresh /\ lastKnown' = Empty
      BY <1>2, <1>3, <2>1
    <3> QED
      BY <1>3, <1>7, <3>1, EmptyIsText
  <2>2. CASE from
    BY <1>3, <1>7, <1>8, <2>2
  <2> QED
    BY <2>1, <2>2
<1>10. TypeRun' /\ TypeTabs' /\ TypeDisk'
  BY <1>0, <1>2, <1>3, <1>5, <1>6 DEF IInv, TypeRun, TypeTabs, TypeDisk
<1>11. TypeEditor'
  BY <1>0, <1>3, <1>4, <1>7, <1>8, <1>9 DEF TypeEditor
<1>12. Numbered'
  <2>1. \A i \in DOMAIN ts : ts[i].id < fresh'
    BY <1>0, <1>2, <1>5
  <2> QED
    BY <1>2, <1>3, <2>1 DEF Numbered, IdsOf
<1>13. Sound(stacks, seen, IdsOf(tabs))'
  BY <1>0, NothingSound
<1>14. BurstSound' /\ EditorSeen'
  BY <1>0, <1>8, <1>9 DEF BurstSound, EditorSeen
<1>15. ShownInRun'
  BY <1>2, <1>3 DEF ShownInRun, IsSql, Here
<1>16. TextInRun'
  BY <1>0, <1>2, <1>3, <1>4 DEF TextInRun, IsSql
<1>17. SessionSaved'
  <2>1. \A i \in DOMAIN disk.entries : disk.entries[i] \in Saved
    BY DEF IInv, TypeDisk
  <2>2. \A i \in DOMAIN disk.entries : disk.entries[i].id \in Nat
    BY <2>1 DEF Saved, Ids
  <2>3. \A i \in DOMAIN disk.entries : disk.entries[i].id < fresh'
    BY <1>5, <2>2 DEF IInv, SessionSaved
  <2> QED
    BY <1>0, <2>3 DEF IInv, SessionSaved
<1>18. ASSUME from, goodbye # None PROVE (AsSeen)' = goodbye
  <2>0. /\ k = disk.active /\ DOMAIN ts = DOMAIN disk.entries
        /\ \A i \in DOMAIN ts : ts[i].id = disk.entries[i].id /\ ts[i].text = disk.entries[i].text
    BY Zenon, <1>2, <1>18
  <2>1. /\ disk.entries # <<>>
        /\ goodbye = [active |-> disk.entries[disk.active].id, tabs |-> disk.entries]
    BY <1>18 DEF IInv, SessionSaved
  <2>2. SqlTabs(ts) = ts
    BY <1>2, AllSql
  <2>3. AsSeen' = [active |-> ts[k].id,
                   tabs   |-> [i \in DOMAIN ts |-> [id |-> ts[i].id, text |-> content'[ts[i].id]]]]
    BY <1>2, <1>3, <2>2 DEF AsSeen, IsSql, Here
  <2>4. \A i \in DOMAIN ts : /\ ts[i].id = disk.entries[i].id
                             /\ content'[ts[i].id] = disk.entries[i].text
    BY <1>4, <2>0
  <2>5. disk.entries \in Seq(Saved) /\ \A i \in DOMAIN disk.entries : disk.entries[i] \in Saved
    BY DEF IInv, TypeDisk
  <2>6. \A i \in DOMAIN disk.entries :
           disk.entries[i] = [id |-> disk.entries[i].id, text |-> disk.entries[i].text]
    BY <2>5 DEF Saved
  <2>7. [i \in DOMAIN ts |-> [id |-> ts[i].id, text |-> content'[ts[i].id]]] = disk.entries
    <3>1. disk.entries = [i \in DOMAIN disk.entries |-> disk.entries[i]]
      BY <2>5
    <3>2. ASSUME NEW i \in DOMAIN ts
          PROVE  [id |-> ts[i].id, text |-> content'[ts[i].id]] = disk.entries[i]
      <4>1. PICK n, x : n = ts[i].id /\ x = content'[ts[i].id]
        OBVIOUS
      <4>2. n = disk.entries[i].id /\ x = disk.entries[i].text /\ i \in DOMAIN disk.entries
        BY <2>0, <2>4, <4>1
      <4>3. disk.entries[i] = [id |-> n, text |-> x]
        BY <2>6, <4>2
      <4> QED
        BY <4>1, <4>3
    <3>3. DOMAIN ts = DOMAIN disk.entries
      BY <2>0
    <3>4. PICK d, e : d = DOMAIN disk.entries /\ e = disk.entries
      OBVIOUS
    <3>5. \A i \in d : [id |-> ts[i].id, text |-> content'[ts[i].id]] = e[i]
      BY <3>2, <3>3, <3>4
    <3>6. [i \in d |-> [id |-> ts[i].id, text |-> content'[ts[i].id]]] = [i \in d |-> e[i]]
      BY <3>5
    <3> QED
      BY <3>1, <3>3, <3>4, <3>6
  <2>8. ts[k].id = disk.entries[disk.active].id
    BY <1>2, <2>0
  <2> QED
    BY <2>1, <2>3, <2>7, <2>8
<1> QED
  BY <1>10, <1>11, <1>12, <1>13, <1>14, <1>15, <1>16, <1>17, <1>18 DEF IInv

(* A session that was saved has tabs, so that a start which can read them  *)
(* brings them back.                                                       *)
LEMMA StartStep ==
    ASSUME IInv, NEW tabsRead \in BOOLEAN, Start(tabsRead)
    PROVE  IInv' /\ (goodbye # None => (AsSeen)' = goodbye \/ Start(FALSE))
<1>1. PICK query \in {restore_last_query, Empty} : StartFrom(tabs_from_session(tabsRead), query)
  BY DEF Start
<1>2. PICK from : from = tabs_from_session(tabsRead)
  OBVIOUS
<1>3. from \in BOOLEAN /\ query \in Texts /\ (from => disk.entries # <<>>)
  BY <1>1, <1>2, EmptyIsText DEF tabs_from_session, restore_last_query, IInv, TypeDisk
<1>4. IInv' /\ (from /\ goodbye # None => (AsSeen)' = goodbye)
  BY Zenon, <1>1, <1>2, <1>3, StartFromStep
<1>5. ASSUME tabsRead, goodbye # None PROVE from
  BY <1>2, <1>5 DEF tabs_from_session, IInv, SessionSaved
<1>6. ASSUME ~tabsRead PROVE Start(FALSE)
  <2>1. tabsRead = FALSE
    BY <1>6
  <2> QED
    BY <2>1
<1> QED
  BY Zenon, <1>4, <1>5, <1>6
-----------------------------------------------------------------------------
(* The theorems.                                                           *)

LEMMA InitGood == Init => IInv
<1> SUFFICES ASSUME Init PROVE IInv
    OBVIOUS
<1>0. /\ run = "down" /\ starts = 0 /\ tabs = NoMemory.tabs /\ active = 1 /\ fresh = 1
      /\ stacks = NoMemory.stacks /\ lastKnown = Empty /\ burst = None /\ timer = FALSE
      /\ uiText = Empty /\ uiTab = 1 /\ uiSql = TRUE /\ format = None
      /\ disk = [active |-> 1, entries |-> <<>>] /\ lastQuery = Empty /\ goodbye = None
      /\ content = NoMemory.content /\ seen = NoMemory.seen /\ edits = 0
  BY Zenon DEF Init
<1>1. /\ tabs \in Seq(TabRec) /\ WellTabbed(tabs) /\ DOMAIN tabs = {1}
      /\ content \in [Ids -> Texts] /\ seen \in [Ids -> SUBSET Texts]
      /\ Sound(stacks, seen, IdsOf(tabs)) /\ 1 \in Ids
  BY <1>0, NoMemorySound
<1>2. TypeRun /\ TypeTabs
  BY <1>0, <1>1, BoundsOk DEF TypeRun, TypeTabs
<1>3. TypeEditor
  BY <1>0, <1>1, EmptyIsText DEF TypeEditor
<1>7. TypeDisk
  <2>1. <<>> \in Seq(Saved) /\ 1 \in Nat
    OBVIOUS
  <2> QED
    BY <1>0, <2>1, EmptyIsText DEF TypeDisk
<1>4. Numbered /\ BurstSound /\ EditorSeen /\ ShownInRun /\ TextInRun
  BY <1>0 DEF Numbered, BurstSound, EditorSeen, ShownInRun, TextInRun
<1>5. disk.entries = <<>> /\ DOMAIN disk.entries = {}
  BY <1>0
<1>6. SessionSaved
  BY <1>0, <1>5 DEF SessionSaved
<1> QED
  BY <1>1, <1>2, <1>3, <1>4, <1>6, <1>7 DEF IInv

LEMMA StutterGood == IInv /\ UNCHANGED vars => IInv'
<1> SUFFICES ASSUME IInv, UNCHANGED vars PROVE IInv'
    OBVIOUS
<1>0. UNCHANGED <<run, starts, tabs, active, fresh, stacks, lastKnown, burst, timer, uiText, uiTab,
                  uiSql, format, disk, lastQuery, goodbye, content, seen, edits>>
  BY DEF vars, tabVars, undoVars, uiVars, diskVars, ghostVars
<1>1. TypeRun' /\ TypeTabs' /\ TypeEditor' /\ TypeDisk' /\ Numbered'
  BY <1>0 DEF IInv, TypeRun, TypeTabs, TypeEditor, TypeDisk, Numbered
<1>2. Sound(stacks, seen, IdsOf(tabs))' /\ BurstSound' /\ EditorSeen'
  BY <1>0 DEF IInv, BurstSound, EditorSeen
<1>3. ShownInRun' /\ TextInRun' /\ SessionSaved'
  BY <1>0 DEF IInv, ShownInRun, TextInRun, SessionSaved, IsSql, Here
<1> QED
  BY <1>1, <1>2, <1>3 DEF IInv

(* A start that reads the tabs shows what was saved; nothing else brings   *)
(* the process up.                                                         *)
LEMMA NextGood ==
    ASSUME IInv, Next
    PROVE  IInv' /\ (run = "down" /\ run' = "up" /\ goodbye # None => (AsSeen)' = goodbye \/ Start(FALSE))
<1> DEFINE Goal == IInv' /\ (run = "down" /\ run' = "up" /\ goodbye # None => (AsSeen)' = goodbye \/ Start(FALSE))
<1>0. ASSUME IInv', run # "down" \/ run' = "down" PROVE Goal
  BY <1>0
<1>1. ASSUME NEW tabsRead \in BOOLEAN, Start(tabsRead) PROVE Goal
  BY Zenon, <1>1, StartStep
<1>2. EditGood => Goal
  BY <1>0, EditKeeps DEF EditGood, Editing
<1>3. ASSUME NEW t \in Texts, Type(t) \/ Insert(t) \/ Overwrite(t) \/ FormatSqlComplete(t) PROVE Goal
  BY Zenon, <1>2, <1>3, TypeStep, InsertStep, OverwriteStep, FormatSqlCompleteStep
<1>4. TimerFires \/ EditorUndo \/ EditorRedo \/ FormatSql => Goal
  BY Zenon, <1>2, TimerFiresStep, EditorUndoStep, EditorRedoStep, FormatSqlStep
<1>5. NewTab => Goal
  BY <1>0, NewTabStep DEF NewTab, Up
<1>6. ASSUME NEW i \in DOMAIN tabs, SwitchTab(i) PROVE Goal
  BY <1>0, <1>6, SwitchTabStep DEF SwitchTab, Up
<1>7. ASSUME NEW i \in DOMAIN tabs, CloseTab(i) PROVE Goal
  BY <1>0, <1>7, CloseTabStep DEF CloseTab, Up
<1>8. ASSUME NEW tb \in Tables, OpenTable(tb) PROVE Goal
  BY <1>0, <1>8, OpenTableStep DEF OpenTable, Up
<1>9. CloseWindow => Goal
  BY <1>0, CloseWindowStep DEF CloseWindow, Up
<1>10. SaveTabs => Goal
  BY <1>0, SaveTabsStep DEF SaveTabs
<1>11. SaveLastQuery => Goal
  BY <1>0, SaveLastQueryStep DEF SaveLastQuery, Die
<1>12. Quit => Goal
  BY <1>0, QuitStep DEF Quit, Die
<1> HIDE DEF Goal
<1>13. Goal
  BY Zenon, <1>1, <1>3, <1>4, <1>5, <1>6, <1>7, <1>8, <1>9, <1>10, <1>11, <1>12 DEF Next, Edit
<1> QED
  BY <1>13 DEF Goal

(* The invariant holds in every state.                                     *)
THEOREM Inductive == Spec => []IInv
<1>1. IInv /\ [Next]_vars => IInv'
  BY Zenon, NextGood, StutterGood
<1> QED
  BY InitGood, <1>1, PTL DEF Spec

LEMMA IInvTypes == IInv => TypeOK
<1> SUFFICES ASSUME IInv PROVE TypeOK
    OBVIOUS
<1>1. TabRec = [id : Ids, kind : {"sql", "table"}, text : Texts, table : Tables \cup {None}]
  BY DEF TabRec
<1>2. Saying = [tab : Ids, text : Texts] /\ Stack = [undo : Seq(Texts), redo : Seq(Texts)]
  BY DEF Saying, Stack
<1>3. /\ tabs \in Seq(TabRec) /\ active \in DOMAIN tabs /\ fresh \in 1 .. MaxTabs + 1
      /\ \A i, j \in DOMAIN tabs : tabs[i].id = tabs[j].id => i = j
      /\ \E i \in DOMAIN tabs : tabs[i].kind = "sql"
  BY DEF IInv, TypeTabs, WellTabbed
<1>4. /\ stacks \in [Ids -> Stack]
      /\ \A id \in Ids : Len(stacks[id].undo) <= UndoMax /\ Len(stacks[id].redo) <= UndoMax
  BY DEF IInv, Sound
<1> QED
  BY Zenon, <1>1, <1>2, <1>3, <1>4 DEF IInv, TypeRun, TypeEditor, TypeDisk, TypeOK

(* Every variable keeps its type: tabs have identifiers of their own, an   *)
(* SQL tab is always left, the active position is one of the tabs, and no  *)
(* undo stack outgrows its cap (TabsState, TextUndoStack).                 *)
THEOREM TypeCorrect == Spec => []TypeOK
BY Inductive, IInvTypes, PTL

(* The one text widget never mixes up the tabs, whatever is switched,      *)
(* opened, closed, formatted or inserted in between (save_current_text).   *)
THEOREM TextsKept == Spec => []TextKept
<1>1. IInv => TextKept
  BY DEF IInv, TextInRun, TextKept
<1> QED
  BY Inductive, <1>1, PTL

(* Undo never brings in a text of another tab (TextUndoState).             *)
THEOREM UndoOwn == Spec => []UndoOwnText
<1>1. IInv => UndoOwnText
  <2> SUFFICES ASSUME IInv, NEW i \in DOMAIN tabs
               PROVE  Range(stacks[tabs[i].id].undo) \cup Range(stacks[tabs[i].id].redo)
                         \subseteq seen[tabs[i].id]
    BY DEF UndoOwnText
  <2>1. tabs[i] \in TabRec
    BY DEF IInv, TypeTabs
  <2>2. tabs[i].id \in Ids
    BY <2>1 DEF TabRec
  <2> QED
    BY <2>2 DEF IInv, Sound, TextsOf
<1> QED
  BY Inductive, <1>1, PTL

(* A closed tab leaves no snapshot and no burst behind (TabsState.close,   *)
(* on_close_tab).                                                          *)
THEOREM NothingOfClosed == Spec => []StacksOfTabs
<1>1. IInv => StacksOfTabs
  BY DEF IInv, Sound, BurstSound, IdsOf, StacksOfTabs
<1> QED
  BY Inductive, <1>1, PTL

(* The editor is shown for an SQL tab only, under its identifier.          *)
THEOREM ShownIsActive == Spec => []ShownTabIsActive
<1>1. IInv => ShownTabIsActive
  BY DEF IInv, ShownInRun, ShownTabIsActive
<1> QED
  BY Inductive, <1>1, PTL

(* A start that can read the tabs shows the session saved last, however    *)
(* many failed writes, crashes and starts that could not read them lie in  *)
(* between (save_tabs, from_session); one that cannot takes itself for the *)
(* first (UI::new).                                                        *)
THEOREM SessionRestored == Spec => RestoreFaithful
<1>1. IInv /\ [Next]_vars =>
         [run = "down" /\ run' = "up" /\ goodbye # None => (AsSeen)' = goodbye \/ Start(FALSE)]_vars
  BY Zenon, NextGood
<1> QED
  BY Inductive, <1>1, PTL DEF Spec, RestoreFaithful
=============================================================================
