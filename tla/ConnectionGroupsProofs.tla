----------------------- MODULE ConnectionGroupsProofs -----------------------
(***************************************************************************)
(* What ConnectionGroups guarantees for any connections, groups, size of   *)
(* the stack and bounds: its types, the bound on the stack, that undo and  *)
(* redo keep the promise of UndoHistory, and that the sidebar catches up   *)
(* with the tables.                                                        *)
(***************************************************************************)
EXTENDS ConnectionGroups, SequenceTheorems, TLAPS

(* Connections without a row are in no group, and groups never created are *)
(* nowhere: that is why restoring the members with rows restores them all, *)
(* and why deleting a group just created brings back what was before.      *)
Clean(s, L, M) ==
    /\ \A c \in Conns \ L : s.member[c] = NoGroup
    /\ \A g \in GroupIds \ M : s.group[g] = NoRow /\ \A c \in Conns : s.member[c] # g

-----------------------------------------------------------------------------
(* States and operations.                                                  *)

LEMMA StateValues ==
  /\ \A g \in [GroupIds -> Row], m \in [Conns -> GroupIds \cup {NoGroup}] :
        StateOf(g, m) \in State /\ StateOf(g, m).group = g /\ StateOf(g, m).member = m
  /\ \A s \in State : /\ s.group \in [GroupIds -> Row]
                      /\ s.member \in [Conns -> GroupIds \cup {NoGroup}]
                      /\ s = StateOf(s.group, s.member)
  BY DEF State, StateOf

LEMMA RowValues ==
  /\ \A n \in Names, c \in Colors :
        RowOf(n, c) \in Row /\ RowOf(n, c).exists /\ RowOf(n, c).name = n /\ RowOf(n, c).color = c
  /\ NoRow \in Row /\ ~NoRow.exists
  /\ \A r \in Row : /\ r.exists \in BOOLEAN /\ r.name \in Names /\ r.color \in Colors
                    /\ IF r.exists THEN r = RowOf(r.name, r.color) ELSE r = NoRow
<1>1. \A n \in Names, c \in Colors :
        RowOf(n, c) \in Row /\ RowOf(n, c).exists /\ RowOf(n, c).name = n /\ RowOf(n, c).color = c
  <2>1. \A n \in Names, c \in Colors : RowOf(n, c) \in Row
    BY DEF Row
  <2>2. \A n \in Names, c \in Colors :
          RowOf(n, c).exists /\ RowOf(n, c).name = n /\ RowOf(n, c).color = c
    BY DEF RowOf
  <2> QED BY <2>1, <2>2
<1>2. NoRow \in Row /\ ~NoRow.exists
  BY GroupSets DEF NoRow, Row
<1>3. ASSUME NEW r \in Row
      PROVE  /\ r.exists \in BOOLEAN /\ r.name \in Names /\ r.color \in Colors
             /\ IF r.exists THEN r = RowOf(r.name, r.color) ELSE r = NoRow
  <2>1. CASE r = NoRow
    BY <2>1, GroupSets DEF NoRow
  <2>2. CASE r \in {RowOf(n, c) : n \in Names, c \in Colors}
    <3>1. PICK n \in Names, c \in Colors : r = RowOf(n, c)
      BY <2>2
    <3> QED BY <3>1 DEF RowOf
  <2> QED BY <2>1, <2>2 DEF Row
<1> QED BY <1>1, <1>2, <1>3

LEMMA Changed ==
  ASSUME NEW s \in State, NEW g \in GroupIds \cup {NoGroup}, NEW row \in Row, NEW S
  PROVE  Put(s, g, row) \in State /\ Joined(s, g, S) \in State /\ Deleted(s, g) \in State
<1>1. [s.group EXCEPT ![g] = row] \in [GroupIds -> Row]
  BY StateValues
<1>2. [s.group EXCEPT ![g] = NoRow] \in [GroupIds -> Row]
  BY StateValues, RowValues
<1>3. [c \in Conns |-> IF c \in S THEN g ELSE s.member[c]] \in [Conns -> GroupIds \cup {NoGroup}]
  BY StateValues
<1>4. [c \in Conns |-> IF s.member[c] = g THEN NoGroup ELSE s.member[c]]
        \in [Conns -> GroupIds \cup {NoGroup}]
  BY StateValues
<1> QED BY <1>1, <1>2, <1>3, <1>4, StateValues DEF Put, Joined, Deleted

LEMMA CleanKept ==
  ASSUME NEW s \in State, NEW L, NEW M, Clean(s, L, M),
         NEW g \in M \cup {NoGroup}, g \in GroupIds \cup {NoGroup}, NEW row \in Row,
         NEW S \in SUBSET L
  PROVE  /\ Clean(Put(s, g, row), L, M)
         /\ Clean(Joined(s, g, S), L, M)
         /\ Clean(Deleted(s, g), L, M)
<1>0. NoGroup \notin GroupIds
  BY GroupSets
<1>1. Clean(Put(s, g, row), L, M)
  BY <1>0, StateValues DEF Put, Clean, StateOf
<1>2. Clean(Joined(s, g, S), L, M)
  BY <1>0, StateValues DEF Joined, Clean, StateOf
<1>3. Clean(Deleted(s, g), L, M)
  BY <1>0, StateValues DEF Deleted, Clean, StateOf
<1> QED BY <1>1, <1>2, <1>3

LEMMA OpValues ==
  /\ \A op \in Op : /\ op.kind \in OpKinds /\ op.id \in GroupIds \cup {NoGroup} /\ op.row \in Row
                    /\ op.conn \in Conns \cup {NoConn} /\ op.members \subseteq Conns
  /\ \A k \in OpKinds, i \in GroupIds \cup {NoGroup}, c \in Conns \cup {NoConn}, r \in Row,
        S \in SUBSET Conns :
        /\ OpOf(k, i, c, r, S) \in Op
        /\ OpOf(k, i, c, r, S).kind = k /\ OpOf(k, i, c, r, S).id = i
        /\ OpOf(k, i, c, r, S).conn = c /\ OpOf(k, i, c, r, S).row = r
        /\ OpOf(k, i, c, r, S).members = S
  BY DEF Op, OpOf

(* An operation leaves clean tables clean.                                 *)
LEMMA EffectClean ==
  ASSUME NEW s \in State, NEW L, NEW M, Clean(s, L, M),
         NEW op \in Op, op.id \in M \cup {NoGroup}, NEW t \in State, Effect(op, s, L, t)
  PROVE  Clean(t, L, M)
<1>1. op.id \in GroupIds \cup {NoGroup} /\ op.row \in Row
  BY OpValues
<1>2. CASE op.kind = "create" /\ t = Put(s, op.id, op.row)
  BY <1>1, <1>2, CleanKept
<1>3. CASE op.kind = "restore" /\ t = Joined(Put(s, op.id, op.row), op.id, op.members \cap L)
  <2>1. Put(s, op.id, op.row) \in State /\ Clean(Put(s, op.id, op.row), L, M)
    BY <1>1, CleanKept, Changed
  <2> QED BY <1>1, <1>3, <2>1, CleanKept
<1>4. CASE op.kind = "delete" /\ t = Deleted(s, op.id)
  BY <1>1, <1>4, CleanKept
<1>5. ASSUME NEW row, t = Put(s, op.id, row), op.id \in GroupIds => row \in Row
      PROVE  Clean(t, L, M)
  <2>1. CASE op.id \in GroupIds
    BY <1>1, <1>5, <2>1, CleanKept
  <2>2. CASE op.id \notin GroupIds
    BY <1>5, <2>2, StateValues DEF Put
  <2> QED BY <2>1, <2>2
<1>8. CASE op.kind = "rename" /\ t = Put(s, op.id, RowOf(op.row.name, s.group[op.id].color))
  BY <1>1, <1>5, <1>8, StateValues, RowValues
<1>9. CASE op.kind = "color" /\ t = Put(s, op.id, RowOf(s.group[op.id].name, op.row.color))
  BY <1>1, <1>5, <1>9, StateValues, RowValues
<1>6. CASE t = s
  BY <1>6
<1>7. CASE op.kind = "move" /\ t = Joined(s, op.id, {op.conn} \cap L)
  BY <1>1, <1>7, CleanKept
<1> QED BY <1>2, <1>3, <1>4, <1>6, <1>7, <1>8, <1>9 DEF Effect

-----------------------------------------------------------------------------
(* Entries.                                                                *)

Ready(op, L) == op.members \subseteq L /\ (op.kind = "move" => op.conn \in L)

(* Entry e leads from s to t and back, when the connections L have rows.   *)
Leads(e, s, t, L) ==
    /\ Effect(e.forward, s, L, t) /\ Ready(e.forward, L)
    /\ Effect(e.reverse, t, L, s) /\ Ready(e.reverse, L)

EntryOf(r, f) == [reverse |-> r, forward |-> f]

LEMMA EffectOne ==
  ASSUME NEW op, NEW s, NEW L, NEW t, NEW u, Effect(op, s, L, t), Effect(op, s, L, u)
  PROVE  t = u
<1>1. CASE op.kind = "create"
  BY <1>1 DEF Effect
<1>2. CASE op.kind = "restore"
  BY <1>2 DEF Effect
<1>3. CASE op.kind = "delete"
  BY <1>3 DEF Effect
<1>4. CASE op.kind = "rename"
  BY <1>4 DEF Effect
<1>5. CASE op.kind = "color"
  BY <1>5 DEF Effect
<1>6. CASE op.kind = "move"
  BY <1>6 DEF Effect
<1> QED BY <1>1, <1>2, <1>3, <1>4, <1>5, <1>6 DEF Effect

(* New connections make no difference to operations that know none.        *)
LEMMA LeadsMore ==
  ASSUME NEW e, NEW s, NEW t, NEW L, NEW K, L \subseteq K, Leads(e, s, t, L)
  PROVE  Leads(e, s, t, K)
<1>1. ASSUME NEW op, NEW x, NEW y, Effect(op, x, L, y), Ready(op, L)
      PROVE  Effect(op, x, K, y) /\ Ready(op, K)
  <2>1. op.members \cap K = op.members \cap L
    BY <1>1 DEF Ready
  <2>2. op.kind = "move" => {op.conn} \cap K = {op.conn} \cap L
    BY <1>1 DEF Ready
  <2> QED BY <1>1, <2>1, <2>2 DEF Effect, Ready
<1> QED BY <1>1 DEF Leads

(* Each command records a pair that leads from what it found to what it    *)
(* left, and back.                                                         *)
LEMMA CreateLeads ==
  ASSUME NEW s \in State, NEW L, NEW g \in GroupIds, NEW row \in Row,
         s.group[g] = NoRow, \A c \in Conns : s.member[c] # g
  PROVE  Leads(EntryOf(DeleteOp(g), OpOf("create", g, NoConn, row, {})), s, Put(s, g, row), L)
<1> DEFINE t == Put(s, g, row)
<1>1. Deleted(t, g) = s
  <2>1. [t.group EXCEPT ![g] = NoRow] = s.group
    BY StateValues DEF Put, StateOf
  <2>2. [c \in Conns |-> IF t.member[c] = g THEN NoGroup ELSE t.member[c]] = s.member
    BY StateValues DEF Put, StateOf
  <2> QED BY <2>1, <2>2, StateValues DEF Deleted
<1> QED BY <1>1 DEF Leads, EntryOf, Effect, Ready, DeleteOp, OpOf

LEMMA RenameLeads ==
  ASSUME NEW s \in State, NEW L, NEW g \in GroupIds, NEW n \in Names, s.group[g].exists
  PROVE  Leads(EntryOf(NamedOp("rename", g, s.group[g].name, DefaultColor),
                       NamedOp("rename", g, n, DefaultColor)),
               s, Put(s, g, RowOf(n, s.group[g].color)), L)
<1> DEFINE t == Put(s, g, RowOf(n, s.group[g].color))
<1>1. s.group[g] \in Row
  BY StateValues
<1>2. t.group[g] = RowOf(n, s.group[g].color) /\ t.group[g].exists
      /\ t.group[g].color = s.group[g].color
  BY <1>1, StateValues, RowValues DEF Put, StateOf
<1>3. RowOf(s.group[g].name, t.group[g].color) = s.group[g]
  BY <1>1, <1>2, RowValues
<1>4. Put(t, g, s.group[g]) = s
  <2>1. [t.group EXCEPT ![g] = s.group[g]] = s.group
    BY StateValues DEF Put, StateOf
  <2>2. t.member = s.member
    BY DEF Put, StateOf
  <2> QED BY <2>1, <2>2, StateValues DEF Put
<1>5. RowOf(s.group[g].name, DefaultColor).name = s.group[g].name /\ RowOf(n, DefaultColor).name = n
  BY DEF RowOf
<1> QED BY <1>2, <1>3, <1>4, <1>5 DEF Leads, EntryOf, Effect, Ready, NamedOp, OpOf

LEMMA ColorLeads ==
  ASSUME NEW s \in State, NEW L, NEW g \in GroupIds, NEW o \in Colors, s.group[g].exists
  PROVE  Leads(EntryOf(NamedOp("color", g, DefaultName, s.group[g].color),
                       NamedOp("color", g, DefaultName, o)),
               s, Put(s, g, RowOf(s.group[g].name, o)), L)
<1> DEFINE t == Put(s, g, RowOf(s.group[g].name, o))
<1>1. s.group[g] \in Row
  BY StateValues
<1>2. t.group[g] = RowOf(s.group[g].name, o) /\ t.group[g].exists
      /\ t.group[g].name = s.group[g].name
  BY <1>1, StateValues, RowValues DEF Put, StateOf
<1>3. RowOf(t.group[g].name, s.group[g].color) = s.group[g]
  BY <1>1, <1>2, RowValues
<1>4. Put(t, g, s.group[g]) = s
  <2>1. [t.group EXCEPT ![g] = s.group[g]] = s.group
    BY StateValues DEF Put, StateOf
  <2>2. t.member = s.member
    BY DEF Put, StateOf
  <2> QED BY <2>1, <2>2, StateValues DEF Put
<1>5. RowOf(DefaultName, s.group[g].color).color = s.group[g].color /\ RowOf(DefaultName, o).color = o
  BY DEF RowOf
<1> QED BY <1>2, <1>3, <1>4, <1>5 DEF Leads, EntryOf, Effect, Ready, NamedOp, OpOf

LEMMA MoveLeads ==
  ASSUME NEW s \in State, NEW L, NEW c \in Conns, c \in L, NEW g
  PROVE  Leads(EntryOf(MoveOp(c, s.member[c]), MoveOp(c, g)), s, Joined(s, g, {c}), L)
<1> DEFINE t == Joined(s, g, {c})
<1>1. {c} \cap L = {c}
  OBVIOUS
<1>2. Joined(t, s.member[c], {c}) = s
  <2>1. t.group = s.group
    BY DEF Joined, StateOf
  <2>2. [d \in Conns |-> IF d \in {c} THEN s.member[c] ELSE t.member[d]] = s.member
    BY StateValues DEF Joined, StateOf
  <2> QED BY <2>1, <2>2, StateValues DEF Joined
<1> QED BY <1>1, <1>2 DEF Leads, EntryOf, Effect, Ready, MoveOp, OpOf

LEMMA DeleteLeads ==
  ASSUME NEW s \in State, NEW L \in SUBSET Conns, NEW g \in GroupIds,
         \A c \in Conns \ L : s.member[c] = NoGroup
  PROVE  Leads(EntryOf(RestoreOp(g, s.group[g], {c \in L : s.member[c] = g}), DeleteOp(g)),
               s, Deleted(s, g), L)
<1> DEFINE t == Deleted(s, g)
           S == {c \in L : s.member[c] = g}
           u == Put(t, g, s.group[g])
<1>1. S \cap L = S
  OBVIOUS
<1>2. u.group = s.group
  BY StateValues DEF Put, Deleted, StateOf
<1>3. [c \in Conns |-> IF c \in S THEN g ELSE u.member[c]] = s.member
  <2>1. \A c \in Conns : c \in S <=> s.member[c] = g
    BY GroupSets
  <2>2. \A c \in Conns : u.member[c] = IF s.member[c] = g THEN NoGroup ELSE s.member[c]
    BY DEF Put, Deleted, StateOf
  <2> HIDE DEF S, u
  <2> QED BY <2>1, <2>2, StateValues
<1>4. Joined(u, g, S) = s
  BY <1>2, <1>3, StateValues DEF Joined
<1> QED BY <1>1, <1>4 DEF Leads, EntryOf, Effect, Ready, RestoreOp, DeleteOp, OpOf

-----------------------------------------------------------------------------
(* Sequences.                                                              *)

LEMMA Fronts ==
  ASSUME NEW S, NEW s \in Seq(S), s # <<>>
  PROVE  /\ FrontOf(s) \in Seq(S) /\ LastOf(s) \in S
         /\ Len(s) \in Nat \ {0} /\ Len(FrontOf(s)) = Len(s) - 1
         /\ \A i \in 1 .. Len(s) - 1 : FrontOf(s)[i] = s[i]
<1>1. Len(s) \in Nat \ {0}
  BY EmptySeq, LenProperties
<1>2. /\ FrontOf(s) \in Seq(S) /\ Len(FrontOf(s)) = Len(s) - 1
      /\ \A i \in 1 .. Len(s) - 1 : FrontOf(s)[i] = s[i]
  <2> DEFINE n == Len(s) - 1
  <2>1. n \in Int /\ \A i \in 1 .. n : i \in 1 .. Len(s)
    BY <1>1
  <2>2. \A i \in 1 .. n : s[i] \in S
    BY <2>1, ElementOfSeq
  <2> HIDE DEF n
  <2>3. /\ SubSeq(s, 1, n) \in Seq(S)
        /\ Len(SubSeq(s, 1, n)) = IF 1 <= n THEN n - 1 + 1 ELSE 0
        /\ \A i \in 1 .. n - 1 + 1 : SubSeq(s, 1, n)[i] = s[1 + i - 1]
    BY <2>1, <2>2, SubSeqProperties
  <2>4. n \in Nat
    BY <1>1 DEF n
  <2>6. (1 <= n \/ n = 0) /\ n - 1 + 1 = n /\ \A i \in 1 .. n : 1 + i - 1 = i
    BY <2>4
  <2>5. Len(SubSeq(s, 1, n)) = n /\ \A i \in 1 .. n : SubSeq(s, 1, n)[i] = s[i]
    BY <2>3, <2>4, <2>6
  <2> QED BY <2>3, <2>5 DEF FrontOf, n
<1>3. LastOf(s) \in S
  BY <1>1, ElementOfSeq DEF LastOf
<1> QED BY <1>1, <1>2, <1>3

LEMMA Appended ==
  ASSUME NEW S, NEW s \in Seq(S), NEW x \in S
  PROVE  /\ Append(s, x) \in Seq(S) /\ Len(s) \in Nat /\ Len(Append(s, x)) = Len(s) + 1
         /\ \A i \in 1 .. Len(s) : Append(s, x)[i] = s[i]
         /\ Append(s, x)[Len(s) + 1] = x
  BY AppendProperties, LenProperties

LEMMA CappedSeq ==
  ASSUME NEW S, NEW s \in Seq(S), Len(s) <= UndoMax + 1
  PROVE  /\ Capped(s) \in Seq(S) /\ Len(Capped(s)) \in Nat /\ Len(Capped(s)) <= UndoMax
         /\ Len(s) <= UndoMax => Capped(s) = s
         /\ Len(s) > UndoMax => /\ Len(Capped(s)) = UndoMax /\ Len(s) = UndoMax + 1
                                /\ \A i \in 1 .. UndoMax : Capped(s)[i] = s[i + 1]
<1>1. UndoMax \in Nat \ {0} /\ Len(s) \in Nat
  BY GroupBounds, LenProperties
<1>2. CASE Len(s) <= UndoMax
  BY <1>1, <1>2 DEF Capped
<1>3. CASE Len(s) > UndoMax
  <2>1. s # <<>> /\ Len(s) = UndoMax + 1
    BY <1>1, <1>3, EmptySeq
  <2>2. Tail(s) \in Seq(S) /\ Len(Tail(s)) = UndoMax
        /\ \A i \in 1 .. UndoMax : Tail(s)[i] = s[i + 1]
    BY <1>1, <2>1, HeadTailProperties
  <2> QED BY <1>1, <1>3, <2>1, <2>2 DEF Capped
<1> QED BY <1>1, <1>2, <1>3

-----------------------------------------------------------------------------
(* The line of states an intact stack stands for: p behind, f ahead of s,  *)
(* one entry of u or r between each state and the next one towards s.      *)

Towards(q, s, i) == IF i < Len(q) THEN q[i + 1] ELSE s

(* Entry e links state x to y, which is one nearer to the present.         *)
Link(back, e, x, y, L) == IF back THEN Leads(e, x, y, L) ELSE Leads(e, y, x, L)

Side(back, u, q, s, L) ==
    Len(q) = Len(u) /\ \A i \in 1 .. Len(u) : Link(back, u[i], q[i], Towards(q, s, i), L)

Chain(u, p, r, f, s, L) == Side(TRUE, u, p, s, L) /\ Side(FALSE, r, f, s, L)

LEMMA SideMore ==
  ASSUME NEW back, NEW u, NEW q, NEW s, NEW L, NEW K, L \subseteq K, Side(back, u, q, s, L)
  PROVE  Side(back, u, q, s, K)
  BY LeadsMore DEF Side, Link

LEMMA SideEmpty ==
  ASSUME NEW back, NEW s, NEW L
  PROVE  Side(back, <<>>, <<>>, s, L)
  BY EmptySeq DEF Side

(* The present moves on to x, and s joins the side it is seen from.        *)
LEMMA SideAppend ==
  ASSUME NEW back \in BOOLEAN, NEW u \in Seq(Entry), NEW q \in Seq(State), NEW s \in State,
         NEW x, NEW L, NEW e \in Entry, Side(back, u, q, s, L), Link(back, e, s, x, L)
  PROVE  Side(back, Append(u, e), Append(q, s), x, L)
<1> DEFINE v == Append(u, e)
           w == Append(q, s)
<1>0. Len(u) \in Nat /\ Len(q) = Len(u)
  BY LenProperties DEF Side
<1>1. /\ Len(v) = Len(u) + 1 /\ v[Len(u) + 1] = e /\ \A i \in 1 .. Len(u) : v[i] = u[i]
      /\ Len(w) = Len(u) + 1 /\ w[Len(u) + 1] = s /\ \A i \in 1 .. Len(u) : w[i] = q[i]
  BY <1>0, Appended
<1>2. ASSUME NEW i \in 1 .. Len(v) PROVE Link(back, v[i], w[i], Towards(w, x, i), L)
  <2>1. CASE i = Len(u) + 1
    <3>1. ~(i < Len(w))
      BY <1>0, <1>1, <2>1
    <3> QED BY <1>1, <2>1, <3>1 DEF Towards
  <2>2. CASE i = Len(u)
    <3>1. i \in 1 .. Len(u) /\ ~(i < Len(q)) /\ i < Len(w) /\ w[i + 1] = s
      BY <1>0, <1>1, <2>2
    <3>2. Link(back, u[i], q[i], s, L)
      BY <3>1 DEF Side, Towards
    <3> QED BY <1>1, <3>1, <3>2 DEF Towards
  <2>3. CASE i < Len(u)
    <3>1. i \in 1 .. Len(u) /\ i + 1 \in 1 .. Len(u) /\ i < Len(q) /\ i < Len(w)
      BY <1>0, <1>1, <2>3
    <3>2. Link(back, u[i], q[i], q[i + 1], L)
      BY <3>1 DEF Side, Towards
    <3> QED BY <1>1, <3>1, <3>2 DEF Towards
  <2> QED BY <1>0, <1>1, <2>1, <2>2, <2>3
<1> QED BY <1>1, <1>2 DEF Side

(* The present moves to the nearest state of a side, which leaves it.      *)
LEMMA SideFront ==
  ASSUME NEW back \in BOOLEAN, NEW u \in Seq(Entry), NEW q \in Seq(State), NEW s, NEW L,
         u # <<>>, Side(back, u, q, s, L)
  PROVE  /\ q # <<>> /\ Link(back, LastOf(u), LastOf(q), s, L)
         /\ Side(back, FrontOf(u), FrontOf(q), LastOf(q), L)
<1>0. Len(q) = Len(u) /\ Len(u) \in Nat \ {0}
  BY Fronts DEF Side
<1>1. q # <<>>
  BY <1>0, EmptySeq
<1>2. /\ LastOf(u) = u[Len(u)] /\ LastOf(q) = q[Len(u)]
      /\ Len(FrontOf(u)) = Len(u) - 1 /\ Len(FrontOf(q)) = Len(u) - 1
      /\ \A i \in 1 .. Len(u) - 1 : FrontOf(u)[i] = u[i] /\ FrontOf(q)[i] = q[i]
  BY <1>0, <1>1, Fronts DEF LastOf
<1>3. Link(back, LastOf(u), LastOf(q), s, L)
  <2>1. Len(u) \in 1 .. Len(u) /\ ~(Len(u) < Len(q))
    BY <1>0
  <2> QED BY <1>2, <2>1 DEF Side, Towards
<1>4. ASSUME NEW i \in 1 .. Len(FrontOf(u))
      PROVE  Link(back, FrontOf(u)[i], FrontOf(q)[i], Towards(FrontOf(q), LastOf(q), i), L)
  <2>1. i \in 1 .. Len(u) /\ i \in 1 .. Len(u) - 1 /\ i < Len(q)
    BY <1>0, <1>2
  <2>2. Link(back, u[i], q[i], q[i + 1], L)
    BY <2>1 DEF Side, Towards
  <2>3. Towards(FrontOf(q), LastOf(q), i) = q[i + 1]
    <3>1. CASE i < Len(u) - 1
      <4>1. i + 1 \in 1 .. Len(u) - 1
        BY <1>0, <2>1, <3>1
      <4> QED BY <1>2, <3>1, <4>1 DEF Towards
    <3>2. CASE i = Len(u) - 1
      <4>1. i + 1 = Len(u) /\ ~(i < Len(FrontOf(q)))
        BY <1>0, <1>2, <3>2
      <4> QED BY <1>2, <4>1 DEF Towards
    <3> QED BY <1>0, <2>1, <3>1, <3>2
  <2> QED BY <1>2, <2>1, <2>2, <2>3
<1> QED BY <1>0, <1>1, <1>2, <1>3, <1>4 DEF Side

(* The cap drops an entry and its state from the same end.                 *)
LEMMA SideCapped ==
  ASSUME NEW back, NEW u \in Seq(Entry), NEW q \in Seq(State), NEW s, NEW L,
         Len(u) <= UndoMax + 1, Side(back, u, q, s, L)
  PROVE  Side(back, Capped(u), Capped(q), s, L)
<1>0. UndoMax \in Nat \ {0} /\ Len(u) \in Nat /\ Len(q) = Len(u)
  BY GroupBounds, LenProperties DEF Side
<1>1. CASE Len(u) <= UndoMax
  <2>1. Capped(u) = u /\ Capped(q) = q
    BY <1>0, <1>1 DEF Capped
  <2> QED BY <2>1
<1>2. CASE Len(u) > UndoMax
  <2>1. /\ Len(Capped(u)) = UndoMax /\ Len(Capped(q)) = UndoMax /\ Len(u) = UndoMax + 1
        /\ \A i \in 1 .. UndoMax : Capped(u)[i] = u[i + 1] /\ Capped(q)[i] = q[i + 1]
    BY <1>0, <1>2, CappedSeq
  <2>2. ASSUME NEW i \in 1 .. UndoMax
        PROVE  Link(back, Capped(u)[i], Capped(q)[i], Towards(Capped(q), s, i), L)
    <3>1. i + 1 \in 1 .. Len(u) /\ i \in Nat
      BY <1>0, <2>1
    <3>2. Link(back, u[i + 1], q[i + 1], Towards(q, s, i + 1), L)
      BY <3>1 DEF Side
    <3>3. Towards(Capped(q), s, i) = Towards(q, s, i + 1)
      <4>1. CASE i < UndoMax
        <5>1. i + 1 \in 1 .. UndoMax /\ i + 1 < Len(q)
          BY <1>0, <2>1, <4>1
        <5> QED BY <2>1, <4>1, <5>1 DEF Towards
      <4>2. CASE i = UndoMax
        BY <1>0, <2>1, <4>2 DEF Towards
      <4> QED BY <1>0, <4>1, <4>2
    <3> QED BY <2>1, <3>2, <3>3
  <2> QED BY <2>1, <2>2 DEF Side
<1> QED BY <1>0, <1>1, <1>2

-----------------------------------------------------------------------------
(* Tables, stack and history together.                                     *)

Known(e, M) == e.reverse.id \in M \cup {NoGroup} /\ e.forward.id \in M \cup {NoGroup}

Stack(u, r, M) ==
    /\ u \in Seq(Entry) /\ r \in Seq(Entry) /\ Len(u) + Len(r) <= UndoMax
    /\ \A i \in 1 .. Len(u) : Known(u[i], M)
    /\ \A i \in 1 .. Len(r) : Known(r[i], M)

Tables(s, L, M) ==
    /\ s \in State /\ L \subseteq Conns /\ M \subseteq GroupIds /\ Clean(s, L, M)

Kept(s, L, u, r, p, f, i) ==
    /\ p \in Seq(State) /\ f \in Seq(State) /\ i \in BOOLEAN
    /\ i => Chain(u, p, r, f, s, L)

LEMMA StackPushed ==
  ASSUME NEW u, NEW r, NEW M, NEW N, M \subseteq N, Stack(u, r, M), NEW e \in Entry, Known(e, N)
  PROVE  Stack(Capped(Append(u, e)), <<>>, N) /\ Len(u) <= UndoMax
<1> DEFINE v == Append(u, e)
<1>0. UndoMax \in Nat \ {0} /\ Len(u) \in Nat /\ Len(r) \in Nat /\ Len(u) <= UndoMax
  BY GroupBounds, LenProperties DEF Stack
<1>1. /\ v \in Seq(Entry) /\ Len(v) = Len(u) + 1 /\ v[Len(u) + 1] = e
      /\ \A i \in 1 .. Len(u) : v[i] = u[i]
  BY Appended DEF Stack
<1>2. \A i \in 1 .. Len(v) : Known(v[i], N)
  <2>1. \A i \in 1 .. Len(u) : Known(u[i], N)
    BY DEF Stack, Known
  <2>2. \A i \in 1 .. Len(v) : i \in 1 .. Len(u) \/ i = Len(u) + 1
    BY <1>0, <1>1
  <2> QED BY <1>1, <2>1, <2>2
<1> HIDE DEF v
<1>3. <<>> \in Seq(Entry) /\ Len(<<>>) = 0
  BY EmptySeq
<1>4. Len(v) <= UndoMax + 1
  BY <1>0, <1>1
<1>5. /\ Capped(v) \in Seq(Entry) /\ Len(Capped(v)) \in Nat /\ Len(Capped(v)) <= UndoMax
      /\ Len(v) <= UndoMax => Capped(v) = v
      /\ Len(v) > UndoMax => /\ Len(Capped(v)) = UndoMax /\ Len(v) = UndoMax + 1
                             /\ \A i \in 1 .. UndoMax : Capped(v)[i] = v[i + 1]
  BY <1>1, <1>4, CappedSeq
<1>6. \A i \in 1 .. Len(Capped(v)) : Known(Capped(v)[i], N)
  <2>1. CASE Len(v) <= UndoMax
    BY <1>2, <1>5, <2>1
  <2>2. CASE Len(v) > UndoMax
    <3>1. \A i \in 1 .. UndoMax : i + 1 \in 1 .. Len(v)
      BY <1>0, <1>5, <2>2
    <3> QED BY <1>2, <1>5, <2>2, <3>1
  <2> QED BY <1>0, <1>1, <2>1, <2>2
<1>7. Len(Capped(v)) + Len(<<>>) <= UndoMax
  BY <1>0, <1>3, <1>5
<1> QED BY <1>0, <1>3, <1>5, <1>6, <1>7 DEF Stack, v

(* An entry that changes sides takes no more room than it had.             *)
LEMMA StackTurned ==
  ASSUME NEW u, NEW r, NEW M, u # <<>>, Stack(u, r, M) \/ Stack(r, u, M)
  PROVE  /\ Stack(FrontOf(u), Append(r, LastOf(u)), M) /\ Stack(Append(r, LastOf(u)), FrontOf(u), M)
         /\ Capped(Append(r, LastOf(u))) = Append(r, LastOf(u))
         /\ LastOf(u) \in Entry /\ Known(LastOf(u), M)
<1>0. /\ UndoMax \in Nat \ {0} /\ Len(r) \in Nat /\ Len(u) \in Nat
      /\ u \in Seq(Entry) /\ r \in Seq(Entry)
      /\ \A i \in 1 .. Len(u) : Known(u[i], M)
      /\ \A i \in 1 .. Len(r) : Known(r[i], M)
  BY GroupBounds, LenProperties DEF Stack
<1>1. Len(u) + Len(r) <= UndoMax
  BY <1>0 DEF Stack
<1>2. /\ FrontOf(u) \in Seq(Entry) /\ LastOf(u) \in Entry /\ Len(u) \in Nat \ {0}
      /\ Len(FrontOf(u)) = Len(u) - 1 /\ \A i \in 1 .. Len(u) - 1 : FrontOf(u)[i] = u[i]
  BY <1>0, Fronts
<1>3. Known(LastOf(u), M)
  <2>1. Len(u) \in 1 .. Len(u)
    BY <1>2
  <2> QED BY <1>0, <2>1 DEF LastOf
<1> DEFINE v == Append(r, LastOf(u))
<1>4. /\ v \in Seq(Entry) /\ Len(v) = Len(r) + 1 /\ v[Len(r) + 1] = LastOf(u)
      /\ \A i \in 1 .. Len(r) : v[i] = r[i]
  BY <1>0, <1>2, Appended
<1> HIDE DEF v
<1>5. \A i \in 1 .. Len(v) : Known(v[i], M)
  <2>1. \A i \in 1 .. Len(v) : i \in 1 .. Len(r) \/ i = Len(r) + 1
    BY <1>0, <1>4
  <2> QED BY <1>0, <1>3, <1>4, <2>1
<1>6. \A i \in 1 .. Len(FrontOf(u)) : Known(FrontOf(u)[i], M)
  <2>1. \A i \in 1 .. Len(u) - 1 : i \in 1 .. Len(u)
    BY <1>0
  <2> QED BY <1>0, <1>2, <2>1
<1>7. Len(FrontOf(u)) + Len(v) <= UndoMax /\ Len(v) + Len(FrontOf(u)) <= UndoMax /\ Len(v) <= UndoMax
  BY <1>0, <1>1, <1>2, <1>4
<1>8. Capped(v) = v
  BY <1>0, <1>4, <1>7 DEF Capped
<1> QED BY <1>2, <1>3, <1>4, <1>5, <1>6, <1>7, <1>8 DEF Stack, v

LEMMA KeptActed ==
  ASSUME NEW s, NEW L, NEW M, NEW u, NEW r, NEW p, NEW f, NEW i,
         Tables(s, L, M), Stack(u, r, M), Kept(s, L, u, r, p, f, i),
         NEW e \in Entry, NEW t, Leads(e, s, t, L)
  PROVE  Kept(t, L, Capped(Append(u, e)), <<>>,
              IF i THEN Capped(Append(p, s)) ELSE <<>>, <<>>, i)
<1>0. /\ s \in State /\ u \in Seq(Entry) /\ p \in Seq(State) /\ i \in BOOLEAN
      /\ <<>> \in Seq(State)
  BY EmptySeq DEF Tables, Stack, Kept
<1>1. CASE ~i
  BY <1>0, <1>1 DEF Kept
<1>2. CASE i
  <2>1. Len(u) \in Nat /\ Len(r) \in Nat /\ Len(u) <= UndoMax /\ UndoMax \in Nat /\ Len(p) = Len(u)
    BY <1>2, GroupBounds, LenProperties DEF Stack, Kept, Chain, Side
  <2>2. Side(TRUE, Append(u, e), Append(p, s), t, L)
    BY <1>0, <1>2, SideAppend DEF Kept, Chain, Link
  <2>3. /\ Append(u, e) \in Seq(Entry) /\ Len(Append(u, e)) = Len(u) + 1
        /\ Append(p, s) \in Seq(State) /\ Len(Append(p, s)) = Len(p) + 1
    BY <1>0, Appended
  <2>4. Len(Append(u, e)) <= UndoMax + 1 /\ Len(Append(p, s)) <= UndoMax + 1
    BY <2>1, <2>3
  <2>5. Side(TRUE, Capped(Append(u, e)), Capped(Append(p, s)), t, L)
    BY <2>2, <2>3, <2>4, SideCapped
  <2>6. Capped(Append(p, s)) \in Seq(State)
    BY <2>3, <2>4, CappedSeq
  <2> QED BY <1>0, <1>2, <2>5, <2>6, SideEmpty DEF Kept, Chain
<1> QED BY <1>0, <1>1, <1>2

LEMMA KeptUndone ==
  ASSUME NEW s, NEW L, NEW M, NEW u, NEW r, NEW p, NEW f, NEW i, u # <<>>,
         Tables(s, L, M), Stack(u, r, M), Kept(s, L, u, r, p, f, i),
         NEW t, Effect(LastOf(u).reverse, s, L, t)
  PROVE  /\ i => p # <<>> /\ t = LastOf(p)
         /\ Kept(t, L, FrontOf(u), Append(r, LastOf(u)),
                 IF i THEN FrontOf(p) ELSE <<>>, IF i THEN Append(f, s) ELSE <<>>, i)
<1>0. /\ s \in State /\ u \in Seq(Entry) /\ r \in Seq(Entry) /\ i \in BOOLEAN
      /\ p \in Seq(State) /\ f \in Seq(State) /\ <<>> \in Seq(State) /\ LastOf(u) \in Entry
  BY EmptySeq, Fronts DEF Tables, Stack, Kept
<1>1. CASE ~i
  BY <1>0, <1>1 DEF Kept
<1>2. CASE i
  <2>1. /\ p # <<>> /\ Leads(LastOf(u), LastOf(p), s, L)
        /\ Side(TRUE, FrontOf(u), FrontOf(p), LastOf(p), L)
    BY <1>0, <1>2, SideFront DEF Kept, Chain, Link
  <2>2. t = LastOf(p)
    BY <2>1, EffectOne DEF Leads
  <2>3. Side(FALSE, Append(r, LastOf(u)), Append(f, s), t, L)
    BY <1>0, <1>2, <2>1, <2>2, SideAppend DEF Kept, Chain, Link
  <2>4. FrontOf(p) \in Seq(State) /\ Append(f, s) \in Seq(State)
    BY <1>0, <2>1, Fronts, Appended
  <2> QED BY <1>0, <1>2, <2>1, <2>2, <2>3, <2>4 DEF Kept, Chain
<1> QED BY <1>0, <1>1, <1>2

LEMMA KeptRedone ==
  ASSUME NEW s, NEW L, NEW M, NEW u, NEW r, NEW p, NEW f, NEW i, r # <<>>,
         Tables(s, L, M), Stack(u, r, M), Kept(s, L, u, r, p, f, i),
         NEW t, Effect(LastOf(r).forward, s, L, t)
  PROVE  /\ i => f # <<>> /\ t = LastOf(f)
         /\ Kept(t, L, Append(u, LastOf(r)), FrontOf(r),
                 IF i THEN Append(p, s) ELSE <<>>, IF i THEN FrontOf(f) ELSE <<>>, i)
<1>0. /\ s \in State /\ u \in Seq(Entry) /\ r \in Seq(Entry) /\ i \in BOOLEAN
      /\ p \in Seq(State) /\ f \in Seq(State) /\ <<>> \in Seq(State) /\ LastOf(r) \in Entry
  BY EmptySeq, Fronts DEF Tables, Stack, Kept
<1>1. CASE ~i
  BY <1>0, <1>1 DEF Kept
<1>2. CASE i
  <2>1. /\ f # <<>> /\ Leads(LastOf(r), s, LastOf(f), L)
        /\ Side(FALSE, FrontOf(r), FrontOf(f), LastOf(f), L)
    BY <1>0, <1>2, SideFront DEF Kept, Chain, Link
  <2>2. t = LastOf(f)
    BY <2>1, EffectOne DEF Leads
  <2>3. Side(TRUE, Append(u, LastOf(r)), Append(p, s), t, L)
    BY <1>0, <1>2, <2>1, <2>2, SideAppend DEF Kept, Chain, Link
  <2>4. FrontOf(f) \in Seq(State) /\ Append(p, s) \in Seq(State)
    BY <1>0, <2>1, Fronts, Appended
  <2> QED BY <1>0, <1>2, <2>1, <2>2, <2>3, <2>4 DEF Kept, Chain
<1> QED BY <1>0, <1>1, <1>2

LEMMA KeptMore ==
  ASSUME NEW s, NEW L, NEW K, L \subseteq K, NEW u, NEW r, NEW p, NEW f, NEW i,
         Kept(s, L, u, r, p, f, i)
  PROVE  Kept(s, K, u, r, p, f, i)
  BY SideMore DEF Kept, Chain

-----------------------------------------------------------------------------
(* Commands and events: no command is about a group never created, and no  *)
(* list shows one.                                                         *)

Fit(v, M) == v \in View /\ \A g \in GroupIds : v.group[g].exists => g \in M

Sensible(m, M) ==
    /\ m \in Command /\ m.id \in M \cup {NoGroup}
    /\ m.kind \in {"rename", "color", "delete"} => m.id \in M
    /\ m.kind \in {"move", "connect", "remove"} => m.conn \in Conns

Letters(in, M) == \A m \in in : Sensible(m, M)

Posts(q, M) ==
    q \in Seq(Event) /\ Len(q) <= EventCap /\ \A i \in 1 .. Len(q) : Fit(q[i].view, M)

Core ==
    /\ Tables(present, listed, minted)
    /\ Stack(undo, redo, minted)
    /\ Kept(present, listed, undo, redo, past, future, intact)

Mail == Letters(inbox, minted) /\ Posts(events, minted) /\ Fit(view, minted)

Counted == sent \in 0 .. MaxCommands /\ mishaps \in 0 .. MaxMishaps

IInv == Core /\ Mail /\ Counted

(* What a step must keep and do.                                           *)
Good == IInv' /\ [History!Next]_(History!line)

LEMMA ViewValues ==
  ASSUME NEW s, NEW L, NEW M, Tables(s, L, M), NEW K \in SUBSET Conns
  PROVE  /\ Fit(ViewOf(s.group, s.member, K), M)
         /\ Fit(ViewOf([g \in GroupIds |-> NoRow], s.member, K), M)
<1>1. s.group \in [GroupIds -> Row] /\ s.member \in [Conns -> GroupIds \cup {NoGroup}]
  BY StateValues DEF Tables
<1>2. [g \in GroupIds |-> NoRow] \in [GroupIds -> Row]
  BY RowValues
<1>3. \A g \in GroupIds : s.group[g].exists => g \in M
  BY RowValues DEF Tables, Clean
<1>4. ASSUME NEW h \in [GroupIds -> Row], \A g \in GroupIds : h[g].exists => g \in M
      PROVE  Fit(ViewOf(h, s.member, K), M)
  BY <1>1, <1>4 DEF ViewOf, View, Fit
<1>5. \A g \in GroupIds : [h \in GroupIds |-> NoRow][g].exists => g \in M
  BY RowValues
<1> QED BY <1>1, <1>2, <1>3, <1>4, <1>5

LEMMA PostsSent ==
  ASSUME NEW M, NEW N, M \subseteq N, Posts(events, M),
         NEW type \in {"groups", "connected", "removed"}, NEW c \in Conns \cup {NoConn},
         NEW v, Fit(v, N), Sent(type, c, v)
  PROVE  Posts(events', N)
<1> DEFINE e == [type |-> type, conn |-> c, view |-> v]
<1>1. e \in Event /\ e.view = v
  BY DEF Event, Fit
<1>2. events' = Append(events, e) /\ Len(events) < EventCap /\ events \in Seq(Event)
  BY DEF Sent, Posts
<1>3. \A i \in 1 .. Len(events) : Fit(events[i].view, N)
  BY DEF Posts, Fit
<1> HIDE DEF e
<1>4. /\ events' \in Seq(Event) /\ Len(events) \in Nat /\ Len(events') = Len(events) + 1
      /\ \A i \in 1 .. Len(events) : events'[i] = events[i]
      /\ events'[Len(events) + 1] = e
  BY <1>1, <1>2, Appended
<1>5. Len(events') <= EventCap
  BY <1>2, <1>4, GroupBounds
<1>6. \A i \in 1 .. Len(events') : i \in 1 .. Len(events) \/ i = Len(events) + 1
  BY <1>4
<1> QED BY <1>1, <1>3, <1>4, <1>5, <1>6 DEF Posts

LEMMA PostsMore ==
  ASSUME NEW q, NEW M, NEW N, M \subseteq N, Posts(q, M)
  PROVE  Posts(q, N)
  BY DEF Posts, Fit

LEMMA PostsTaken ==
  ASSUME NEW M, Posts(events, M), events # <<>>
  PROVE  Posts(Tail(events), M) /\ Head(events) \in Event /\ Fit(Head(events).view, M)
<1>1. events \in Seq(Event) /\ Len(events) \in Nat \ {0} /\ EventCap \in Nat
  BY EmptySeq, LenProperties, GroupBounds DEF Posts
<1>2. /\ Head(events) = events[1] /\ Head(events) \in Event
      /\ Tail(events) \in Seq(Event) /\ Len(Tail(events)) = Len(events) - 1
      /\ \A i \in 1 .. Len(Tail(events)) : Tail(events)[i] = events[i + 1]
  BY <1>1, HeadTailProperties
<1>3. \A i \in 1 .. Len(Tail(events)) : i + 1 \in 1 .. Len(events)
  BY <1>1, <1>2
<1>4. 1 \in 1 .. Len(events) /\ Len(events) <= EventCap
  BY <1>1 DEF Posts
<1>5. Len(Tail(events)) <= EventCap
  BY <1>1, <1>2, <1>4
<1> QED BY <1>2, <1>3, <1>4, <1>5 DEF Posts

LEMMA Became ==
  ASSUME NEW t \in State, Become(t)
  PROVE  present' = t /\ group' = t.group /\ member' = t.member
  BY StateValues DEF Become, present

(* Everything known stays known when more groups are created.              *)
LEMMA TablesMore ==
  ASSUME NEW s, NEW L, NEW M, NEW N \in SUBSET GroupIds, M \subseteq N, Tables(s, L, M)
  PROVE  Tables(s, L, N)
  BY DEF Tables, Clean

LEMMA ListsSent ==
  ASSUME Mail, NEW t, Tables(t, listed, minted'), Become(t), minted \subseteq minted',
         SendLists \/ SendShortLists
  PROVE  Posts(events', minted')
<1>1. group' = t.group /\ member' = t.member
  BY DEF Become
<1>2. /\ Fit(ViewOf(group', member', listed), minted')
      /\ Fit(ViewOf([g \in GroupIds |-> NoRow], member', listed), minted')
      /\ Fit(ViewOf(group', member', {}), minted')
  BY <1>1, ViewValues DEF Tables
<1>3. Posts(events, minted) /\ NoConn \in Conns \cup {NoConn}
      /\ "groups" \in {"groups", "connected", "removed"}
  BY DEF Mail
<1>4. CASE SendLists
  BY <1>2, <1>3, <1>4, PostsSent DEF SendLists
<1>5. CASE SendShortLists
  BY <1>2, <1>3, <1>5, PostsSent DEF SendShortLists
<1> QED BY <1>4, <1>5

LEMMA LettersTaken ==
  ASSUME Mail, NEW m, NEW kind, Take(m, kind), minted \subseteq minted'
  PROVE  Letters(inbox', minted') /\ Sensible(m, minted) /\ m.kind = kind
  BY DEF Mail, Letters, Sensible, Take

(* Nothing is promised of tables changed behind the stack's back.          *)
LEMMA KeptNot ==
  ASSUME NEW s, NEW L, NEW u, NEW r
  PROVE  Kept(s, L, u, r, <<>>, <<>>, FALSE)
  BY EmptySeq DEF Kept

-----------------------------------------------------------------------------
(* The steps.                                                              *)

LEMMA HistoryStep ==
  ASSUME History!Next \/ UNCHANGED <<past, present, future, intact>>
  PROVE  [History!Next]_(History!line)
  BY DEF History!line

(* A step that is part of no promise: the tables are disturbed.            *)
LEMMA DisturbedGood ==
  ASSUME NEW t, Tables(t, listed', minted'), Become(t), Disturbed,
         Stack(undo', redo', minted'), Mail', Counted'
  PROVE  Good
<1>1. present' = t
  BY Became DEF Tables
<1>2. Kept(t, listed', undo', redo', past', future', intact')
  BY KeptNot DEF Disturbed
<1>3. History!Next
  BY DEF Disturbed, History!Next, History!Disturb
<1> QED BY <1>1, <1>2, <1>3, HistoryStep DEF Good, IInv, Core

(* A step that leaves tables, stack and history as they are.               *)
LEMMA NothingGood ==
  ASSUME IInv, UNCHANGED <<tables, stack, history, minted>>, Mail', Counted'
  PROVE  Good
<1>1. present' = present /\ listed' = listed
  BY DEF tables, present
<1>2. UNCHANGED <<undo, redo, past, future, intact, minted>>
  BY DEF stack, history
<1>3. Core'
  BY <1>1, <1>2 DEF IInv, Core
<1>4. UNCHANGED <<past, present, future, intact>>
  BY <1>1, <1>2
<1> QED BY <1>3, <1>4, HistoryStep DEF Good, IInv

LEMMA StorageCounted ==
  ASSUME Counted, StorageWorks \/ StorageFails, UNCHANGED sent
  PROVE  Counted'
<1>1. mishaps \in 0 .. MaxMishaps /\ MaxMishaps \in Nat
  BY GroupBounds DEF Counted
<1>2. mishaps' \in 0 .. MaxMishaps
  BY <1>1 DEF StorageWorks, StorageFails
<1> QED BY <1>2 DEF Counted

(* An action done and recorded.                                            *)
LEMMA DoneGood ==
  ASSUME IInv, NEW m, NEW kind, Take(m, kind),
         NEW t \in State, NEW r, NEW f, Done(t, r, f), UNCHANGED <<view, sent>>,
         minted \subseteq minted', minted' \subseteq GroupIds, Clean(t, listed, minted'),
         EntryOf(r, f) \in Entry, Known(EntryOf(r, f), minted'),
         Leads(EntryOf(r, f), present, t, listed)
  PROVE  Good
<1> DEFINE e == EntryOf(r, f)
<1>1. /\ undo' = Capped(Append(undo, e)) /\ redo' = <<>> /\ listed' = listed
      /\ Become(t) /\ (SendLists \/ SendShortLists) /\ (StorageWorks \/ StorageFails)
      /\ intact' = intact
      /\ past' = (IF intact THEN Capped(Append(past, present)) ELSE <<>>)
      /\ future' = (IF intact THEN <<>> ELSE <<>>)
  BY DEF Done, Push, EntryOf, Undisturbed
<1>2. Tables(t, listed, minted') /\ present' = t
  BY <1>1, Became DEF IInv, Core, Tables
<1>3. Stack(undo', redo', minted')
  BY <1>1, StackPushed DEF IInv, Core
<1>4. Kept(t, listed, undo', redo', past', future', intact')
  <2>1. Kept(t, listed, Capped(Append(undo, e)), <<>>,
             IF intact THEN Capped(Append(past, present)) ELSE <<>>, <<>>, intact)
    BY KeptActed DEF IInv, Core
  <2> QED BY <1>1, <2>1
<1>5. Mail'
  <2>1. Posts(events', minted')
    BY <1>1, <1>2, ListsSent DEF IInv
  <2>2. Letters(inbox', minted')
    BY LettersTaken DEF IInv
  <2>3. Fit(view', minted')
    BY DEF IInv, Mail, Fit
  <2> QED BY <2>1, <2>2, <2>3 DEF Mail
<1>6. Counted'
  BY <1>1, StorageCounted DEF IInv
<1>7. History!Next
  <2>1. CASE intact
    <3>1. History!Act
      BY <1>1, <1>2, <2>1 DEF History!Act, History!Capped, Capped
    <3> QED BY <3>1 DEF History!Next
  <2>2. CASE ~intact
    BY <1>1, <2>2 DEF History!Next, History!Disturb
  <2> QED BY <2>1, <2>2
<1> QED BY <1>1, <1>2, <1>3, <1>4, <1>5, <1>6, <1>7, HistoryStep DEF Good, IInv, Core

(* A command that comes to nothing.                                        *)
LEMMA NothingDone ==
  ASSUME IInv, NEW m, NEW kind, Take(m, kind), Nothing, StorageWorks \/ StorageFails,
         UNCHANGED <<minted, view, sent>>
  PROVE  Good
<1>1. UNCHANGED <<tables, stack, history, events>>
  BY DEF Nothing
<1>2. Letters(inbox', minted')
  BY LettersTaken DEF IInv
<1>3. Mail'
  BY <1>1, <1>2 DEF IInv, Mail
<1>4. Counted'
  BY StorageCounted DEF IInv
<1> QED BY <1>1, <1>3, <1>4, NothingGood

LEMMA EntryValues ==
  ASSUME NEW r \in Op, NEW f \in Op
  PROVE  EntryOf(r, f) \in Entry /\ EntryOf(r, f).reverse = r /\ EntryOf(r, f).forward = f
  BY DEF EntryOf, Entry

(* The operations the commands record are of the group they are about.     *)
LEMMA OpsMade ==
  ASSUME NEW g \in GroupIds \cup {NoGroup}
  PROVE  /\ DeleteOp(g) \in Op /\ DeleteOp(g).id = g
         /\ \A row \in Row : /\ OpOf("create", g, NoConn, row, {}) \in Op
                             /\ OpOf("create", g, NoConn, row, {}).id = g
         /\ \A row \in Row, S \in SUBSET Conns :
               RestoreOp(g, row, S) \in Op /\ RestoreOp(g, row, S).id = g
         /\ \A c \in Conns : MoveOp(c, g) \in Op /\ MoveOp(c, g).id = g
         /\ \A k \in {"rename", "color"}, n \in Names, o \in Colors :
               NamedOp(k, g, n, o) \in Op /\ NamedOp(k, g, n, o).id = g
<1>1. \A k \in OpKinds, d \in Conns \cup {NoConn}, x \in Row, T \in SUBSET Conns :
        OpOf(k, g, d, x, T) \in Op /\ OpOf(k, g, d, x, T).id = g
  BY OpValues
<1>2. NoConn \in Conns \cup {NoConn} /\ {} \in SUBSET Conns /\ NoRow \in Row
  BY RowValues
<1>3. DeleteOp(g) \in Op /\ DeleteOp(g).id = g
  <2>1. "delete" \in OpKinds
    BY DEF OpKinds
  <2> QED BY <1>1, <1>2, <2>1 DEF DeleteOp
<1>4. \A row \in Row : /\ OpOf("create", g, NoConn, row, {}) \in Op
                      /\ OpOf("create", g, NoConn, row, {}).id = g
  <2>1. "create" \in OpKinds
    BY DEF OpKinds
  <2> QED BY <1>1, <1>2, <2>1
<1>5. \A row \in Row, S \in SUBSET Conns :
        RestoreOp(g, row, S) \in Op /\ RestoreOp(g, row, S).id = g
  <2>1. "restore" \in OpKinds
    BY DEF OpKinds
  <2> QED BY <1>1, <1>2, <2>1 DEF RestoreOp
<1>6. \A c \in Conns : MoveOp(c, g) \in Op /\ MoveOp(c, g).id = g
  <2>1. "move" \in OpKinds
    BY DEF OpKinds
  <2> QED BY <1>1, <1>2, <2>1 DEF MoveOp
<1>7. \A k \in {"rename", "color"}, n \in Names, o \in Colors :
        NamedOp(k, g, n, o) \in Op /\ NamedOp(k, g, n, o).id = g
  <2>1. "rename" \in OpKinds /\ "color" \in OpKinds
    BY DEF OpKinds
  <2>2. \A n \in Names, o \in Colors : RowOf(n, o) \in Row
    BY RowValues
  <2> QED BY <1>1, <1>2, <2>1, <2>2 DEF NamedOp
<1> QED BY <1>3, <1>4, <1>5, <1>6, <1>7

LEMMA CreateGood == ASSUME IInv, NEW m \in inbox, HandleCreateGroup(m) PROVE Good
<1>1. Take(m, "create") /\ UNCHANGED <<view, sent>>
  BY DEF HandleCreateGroup
<1>2. CASE StorageFails /\ Nothing /\ UNCHANGED minted
  BY <1>1, <1>2, NothingDone
<1>3. CASE \E g \in GroupIds \ minted :
             LET row == RowOf(m.name, DefaultColor) IN
             /\ minted' = minted \cup {g}
             /\ Done(Put(present, g, row), DeleteOp(g), OpOf("create", g, NoConn, row, {}))
  <2>1. PICK g \in GroupIds \ minted :
             /\ minted' = minted \cup {g}
             /\ Done(Put(present, g, RowOf(m.name, DefaultColor)), DeleteOp(g),
                     OpOf("create", g, NoConn, RowOf(m.name, DefaultColor), {}))
    BY <1>3
  <2> DEFINE row == RowOf(m.name, DefaultColor)
             r == DeleteOp(g)
             f == OpOf("create", g, NoConn, row, {})
  <2>2. m.name \in Names
    BY <1>1, LettersTaken, <2>1 DEF IInv, Sensible, Command, Take, Mail, Letters
  <2>3. row \in Row
    BY <2>2, RowValues, GroupSets
  <2>4. present \in State /\ Clean(present, listed, minted) /\ minted \subseteq GroupIds
        /\ Tables(present, listed, minted)
    BY DEF IInv, Core, Tables
  <2>5. Clean(present, listed, minted')
    BY <2>1, <2>4 DEF Clean
  <2>6. r \in Op /\ f \in Op /\ r.id = g /\ f.id = g
    <3>1. DeleteOp(g) \in Op /\ DeleteOp(g).id = g
      BY <2>1, OpsMade
    <3>2. OpOf("create", g, NoConn, row, {}) \in Op /\ OpOf("create", g, NoConn, row, {}).id = g
      BY <2>1, <2>3, OpsMade
    <3> QED BY <3>1, <3>2
  <2> HIDE DEF row, r, f
  <2>7. EntryOf(r, f) \in Entry /\ Known(EntryOf(r, f), minted')
    BY <2>1, <2>6, EntryValues DEF Known
  <2>8. Put(present, g, row) \in State /\ Clean(Put(present, g, row), listed, minted')
    BY <2>1, <2>3, <2>4, <2>5, Changed, CleanKept
  <2>9. Leads(EntryOf(r, f), present, Put(present, g, row), listed)
    BY <2>3, <2>4, CreateLeads DEF Clean, r, f
  <2>10. minted \subseteq minted' /\ minted' \subseteq GroupIds
    BY <2>1, <2>4
  <2> QED BY <1>1, <2>1, <2>7, <2>8, <2>9, <2>10, DoneGood DEF r, f, row
<1> QED BY <1>2, <1>3 DEF HandleCreateGroup

LEMMA RenameGood == ASSUME IInv, NEW m \in inbox, HandleRenameGroup(m) PROVE Good
<1>1. Take(m, "rename") /\ UNCHANGED <<minted, view, sent>>
  BY DEF HandleRenameGroup
<1>2. CASE Nothing /\ (StorageWorks \/ StorageFails)
  BY <1>1, <1>2, NothingDone
<1> DEFINE g == m.id
           old == group[g]
           row == RowOf(m.name, old.color)
           r == NamedOp("rename", g, old.name, DefaultColor)
           f == NamedOp("rename", g, m.name, DefaultColor)
<1>3. CASE old.exists /\ Done(Put(present, g, row), r, f)
  <2>1. Sensible(m, minted) /\ m.kind = "rename"
    BY <1>1, LettersTaken DEF IInv
  <2>2. g \in minted /\ m.name \in Names /\ minted \subseteq GroupIds
    BY <2>1 DEF Sensible, Command, IInv, Core, Tables
  <2>3. present \in State /\ Clean(present, listed, minted) /\ present.group = group
    BY StateValues DEF IInv, Core, Tables, present, StateOf
  <2>4. old \in Row
    BY <2>2, <2>3, StateValues
  <2>5. row \in Row
    BY <2>2, <2>4, RowValues
  <2>6. r \in Op /\ f \in Op /\ r.id = g /\ f.id = g
    BY <2>2, <2>4, RowValues, GroupSets, OpsMade
  <2>7. Leads(EntryOf(r, f), present, Put(present, g, row), listed)
    BY <1>3, <2>2, <2>3, RenameLeads
  <2> HIDE DEF g, old, row, r, f
  <2>8. EntryOf(r, f) \in Entry /\ Known(EntryOf(r, f), minted')
    BY <1>1, <2>2, <2>6, EntryValues DEF Known
  <2>9. Put(present, g, row) \in State /\ Clean(Put(present, g, row), listed, minted')
    BY <1>1, <2>2, <2>3, <2>5, Changed, CleanKept
  <2> QED BY <1>1, <1>3, <2>2, <2>7, <2>8, <2>9, DoneGood
<1> QED BY <1>1, <1>2, <1>3 DEF HandleRenameGroup

LEMMA ColorGood == ASSUME IInv, NEW m \in inbox, HandleSetGroupColor(m) PROVE Good
<1>1. Take(m, "color") /\ UNCHANGED <<minted, view, sent>>
  BY DEF HandleSetGroupColor
<1>2. CASE Nothing /\ (StorageWorks \/ StorageFails)
  BY <1>1, <1>2, NothingDone
<1> DEFINE g == m.id
           old == group[g]
           row == RowOf(old.name, m.color)
           r == NamedOp("color", g, DefaultName, old.color)
           f == NamedOp("color", g, DefaultName, m.color)
<1>3. CASE old.exists /\ Done(Put(present, g, row), r, f)
  <2>1. Sensible(m, minted) /\ m.kind = "color"
    BY <1>1, LettersTaken DEF IInv
  <2>2. g \in minted /\ m.color \in Colors /\ minted \subseteq GroupIds
    BY <2>1 DEF Sensible, Command, IInv, Core, Tables
  <2>3. present \in State /\ Clean(present, listed, minted) /\ present.group = group
    BY StateValues DEF IInv, Core, Tables, present, StateOf
  <2>4. old \in Row
    BY <2>2, <2>3, StateValues
  <2>5. row \in Row
    BY <2>2, <2>4, RowValues
  <2>6. r \in Op /\ f \in Op /\ r.id = g /\ f.id = g
    BY <2>2, <2>4, RowValues, GroupSets, OpsMade
  <2>7. Leads(EntryOf(r, f), present, Put(present, g, row), listed)
    BY <1>3, <2>2, <2>3, ColorLeads
  <2> HIDE DEF g, old, row, r, f
  <2>8. EntryOf(r, f) \in Entry /\ Known(EntryOf(r, f), minted')
    BY <1>1, <2>2, <2>6, EntryValues DEF Known
  <2>9. Put(present, g, row) \in State /\ Clean(Put(present, g, row), listed, minted')
    BY <1>1, <2>2, <2>3, <2>5, Changed, CleanKept
  <2> QED BY <1>1, <1>3, <2>2, <2>7, <2>8, <2>9, DoneGood
<1> QED BY <1>1, <1>2, <1>3 DEF HandleSetGroupColor

LEMMA MoveGood == ASSUME IInv, NEW m \in inbox, HandleMoveConnectionToGroup(m) PROVE Good
<1>1. Take(m, "move") /\ UNCHANGED <<minted, view, sent>>
  BY DEF HandleMoveConnectionToGroup
<1>2. CASE Nothing /\ (StorageWorks \/ StorageFails)
  BY <1>1, <1>2, NothingDone
<1> DEFINE g == m.id
           c == m.conn
           r == MoveOp(c, member[c])
           f == MoveOp(c, g)
<1>3. CASE c \in listed /\ Done(Joined(present, g, {c}), r, f)
  <2>1. Sensible(m, minted)
    BY <1>1, LettersTaken DEF IInv
  <2>2. /\ g \in minted \cup {NoGroup} /\ c \in Conns /\ minted \subseteq GroupIds
        /\ g \in GroupIds \cup {NoGroup} /\ {c} \in SUBSET listed
    BY <1>3, <2>1 DEF Sensible, Command, IInv, Core, Tables
  <2>3. /\ present \in State /\ Clean(present, listed, minted)
        /\ present.group = group /\ present.member = member
    BY StateValues DEF IInv, Core, Tables, present, StateOf
  <2>4. member[c] \in GroupIds \cup {NoGroup} /\ member[c] \in minted \cup {NoGroup}
    BY <2>2, <2>3, StateValues DEF Clean
  <2>5. r \in Op /\ r.id = member[c] /\ f \in Op /\ f.id = g
    BY <2>2, <2>4, OpsMade
  <2>6. Leads(EntryOf(r, f), present, Joined(present, g, {c}), listed)
    BY <1>3, <2>2, <2>3, MoveLeads
  <2> HIDE DEF g, c, r, f
  <2>7. EntryOf(r, f) \in Entry /\ Known(EntryOf(r, f), minted')
    BY <1>1, <2>2, <2>4, <2>5, EntryValues DEF Known
  <2>8. Joined(present, g, {c}) \in State
    BY <2>2, <2>3, Changed, RowValues
  <2>9. Clean(Joined(present, g, {c}), listed, minted')
    BY <1>1, <2>2, <2>3, RowValues, CleanKept
  <2> QED BY <1>1, <1>3, <2>2, <2>6, <2>7, <2>8, <2>9, DoneGood
<1> QED BY <1>1, <1>2, <1>3 DEF HandleMoveConnectionToGroup

(* A command that changes the tables without the stack knowing how.        *)
LEMMA DisturbedCommand ==
  ASSUME IInv, NEW m, NEW kind, Take(m, kind), UNCHANGED <<listed, minted, view, sent>>,
         StorageWorks \/ StorageFails,
         NEW t \in State, Clean(t, listed, minted), Become(t), Disturbed,
         Stack(undo', redo', minted),
         SendLists \/ SendShortLists \/ UNCHANGED events
  PROVE  Good
<1>1. Tables(t, listed, minted') /\ Tables(t, listed', minted')
  BY DEF IInv, Core, Tables
<1>2. Letters(inbox', minted')
  BY LettersTaken DEF IInv
<1>3. Posts(events', minted')
  <2>1. CASE UNCHANGED events
    BY <2>1 DEF IInv, Mail
  <2>2. CASE SendLists \/ SendShortLists
    BY <1>1, <2>2, ListsSent DEF IInv
  <2> QED BY <2>1, <2>2
<1>4. Mail'
  BY <1>2, <1>3 DEF IInv, Mail
<1>5. Counted'
  BY StorageCounted DEF IInv
<1> QED BY <1>1, <1>4, <1>5, DisturbedGood

LEMMA PresentValues ==
  ASSUME IInv
  PROVE  /\ present \in State /\ present.group = group /\ present.member = member
         /\ Clean(present, listed, minted) /\ listed \subseteq Conns
         /\ minted \subseteq GroupIds
  BY StateValues DEF IInv, Core, Tables, present, StateOf

LEMMA DeleteBadlyGood ==
  ASSUME IInv, NEW m, Take(m, "delete"), UNCHANGED <<minted, view, sent>>, DeleteBadly(m.id)
  PROVE  Good
<1> DEFINE g == m.id
<1>1. g \in minted /\ g \in GroupIds
  BY LettersTaken DEF IInv, Sensible, Core, Tables
<1>2. /\ StorageFails /\ Disturbed /\ listed' = listed
      /\ \/ Become(Deleted(present, g)) /\ SendLists /\ UNCHANGED stack
         \/ \E S \in SUBSET Members(g), R \in {{}, Members(g)} :
               /\ Become(Joined(Deleted(present, g), g, S)) /\ SendLists
               /\ undo' = IF group[g].exists
                          THEN Capped(Append(undo, [reverse |-> RestoreOp(g, group[g], R),
                                                    forward |-> DeleteOp(g)]))
                          ELSE undo
               /\ redo' = IF group[g].exists THEN <<>> ELSE redo
         \/ Become(Joined(present, NoGroup, Members(g))) /\ UNCHANGED <<stack, events>>
  BY DEF DeleteBadly
<1>3. Stack(undo, redo, minted) /\ NoRow \in Row
  BY RowValues DEF IInv, Core
<1>4. Deleted(present, g) \in State /\ Clean(Deleted(present, g), listed, minted)
  <2>1. {} \in SUBSET listed
    OBVIOUS
  <2> QED BY <1>1, <1>3, <2>1, PresentValues, Changed, CleanKept
<1>5. CASE Become(Deleted(present, g)) /\ SendLists /\ UNCHANGED stack
  <2>1. undo' = undo /\ redo' = redo
    BY <1>5 DEF stack
  <2> QED BY <1>2, <1>3, <1>4, <1>5, <2>1, DisturbedCommand
<1>6. ASSUME NEW S \in SUBSET Members(g), NEW R \in {{}, Members(g)},
             Become(Joined(Deleted(present, g), g, S)), SendLists,
             undo' = IF group[g].exists
                     THEN Capped(Append(undo, [reverse |-> RestoreOp(g, group[g], R),
                                               forward |-> DeleteOp(g)]))
                     ELSE undo,
             redo' = IF group[g].exists THEN <<>> ELSE redo
      PROVE  Good
  <2>1. S \in SUBSET listed /\ R \in SUBSET Conns
    BY PresentValues DEF Members
  <2>2. Joined(Deleted(present, g), g, S) \in State
        /\ Clean(Joined(Deleted(present, g), g, S), listed, minted)
    BY <1>1, <1>3, <1>4, <2>1, Changed, CleanKept
  <2>3. Stack(undo', redo', minted)
    <3>1. CASE group[g].exists
      <4> DEFINE r == RestoreOp(g, group[g], R)
                 f == DeleteOp(g)
      <4>1. group[g] \in Row
        BY <1>1, PresentValues, StateValues
      <4>2. r \in Op /\ r.id = g /\ f \in Op /\ f.id = g
        BY <1>1, <2>1, <4>1, OpsMade
      <4> HIDE DEF r, f
      <4>3. EntryOf(r, f) \in Entry /\ Known(EntryOf(r, f), minted)
        BY <1>1, <4>2, EntryValues DEF Known
      <4>4. undo' = Capped(Append(undo, EntryOf(r, f))) /\ redo' = <<>>
        BY <1>6, <3>1 DEF EntryOf, r, f
      <4> QED BY <1>3, <4>3, <4>4, StackPushed
    <3>2. CASE ~group[g].exists
      BY <1>3, <1>6, <3>2
    <3> QED BY <3>1, <3>2
  <2> QED BY <1>2, <1>6, <2>2, <2>3, DisturbedCommand
<1>7. CASE Become(Joined(present, NoGroup, Members(g))) /\ UNCHANGED <<stack, events>>
  <2>1. Members(g) \in SUBSET listed
    BY DEF Members
  <2>2. Joined(present, NoGroup, Members(g)) \in State
        /\ Clean(Joined(present, NoGroup, Members(g)), listed, minted)
    BY <1>3, <2>1, PresentValues, Changed, CleanKept
  <2>3. undo' = undo /\ redo' = redo
    BY <1>7 DEF stack
  <2> QED BY <1>2, <1>3, <1>7, <2>2, <2>3, DisturbedCommand
<1> QED BY <1>2, <1>5, <1>6, <1>7

LEMMA DeleteGood == ASSUME IInv, NEW m \in inbox, HandleDeleteGroup(m) PROVE Good
<1>1. Take(m, "delete") /\ UNCHANGED <<minted, view, sent>>
  BY DEF HandleDeleteGroup
<1> DEFINE g == m.id
<1>2. g \in minted /\ g \in GroupIds
  BY <1>1, LettersTaken DEF IInv, Sensible, Core, Tables
<1>3. /\ present \in State /\ present.group = group /\ present.member = member
      /\ Clean(present, listed, minted) /\ listed \in SUBSET Conns
      /\ minted \subseteq GroupIds /\ group[g] \in Row /\ NoRow \in Row /\ {} \in SUBSET listed
  BY <1>2, PresentValues, StateValues, RowValues
<1>4. Deleted(present, g) \in State /\ Clean(Deleted(present, g), listed, minted)
  BY <1>2, <1>3, Changed, CleanKept
<1>5. CASE DeleteBadly(g)
  BY <1>1, <1>5, DeleteBadlyGood
<1>6. CASE /\ group[g].exists
           /\ Done(Deleted(present, g), RestoreOp(g, group[g], Members(g)), DeleteOp(g))
  <2> DEFINE r == RestoreOp(g, group[g], Members(g))
             f == DeleteOp(g)
  <2>1. Members(g) \in SUBSET Conns
    BY <1>3 DEF Members
  <2>2. r \in Op /\ r.id = g /\ f \in Op /\ f.id = g
    BY <1>2, <1>3, <2>1, OpsMade
  <2>3. Leads(EntryOf(r, f), present, Deleted(present, g), listed)
    BY <1>2, <1>3, DeleteLeads DEF Members, Clean
  <2> HIDE DEF r, f
  <2>4. EntryOf(r, f) \in Entry /\ Known(EntryOf(r, f), minted')
    BY <1>1, <1>2, <2>2, EntryValues DEF Known
  <2>5. Done(Deleted(present, g), r, f)
    BY <1>6 DEF r, f
  <2> QED BY <1>1, <1>3, <1>4, <2>3, <2>4, <2>5, DoneGood
<1>7. CASE /\ ~group[g].exists
           /\ Become(Deleted(present, g)) /\ UNCHANGED <<listed, stack>>
           /\ IF Members(g) = {} THEN UNCHANGED history ELSE Disturbed
           /\ StorageWorks /\ SendLists
  <2>1. undo' = undo /\ redo' = redo /\ listed' = listed
    BY <1>7 DEF stack
  <2>2. Stack(undo', redo', minted)
    BY <2>1 DEF IInv, Core
  <2>3. CASE Disturbed
    BY <1>1, <1>4, <1>7, <2>1, <2>2, <2>3, DisturbedCommand
  <2>4. CASE Members(g) = {} /\ UNCHANGED history
    <3>1. group[g] = NoRow
      BY <1>3, <1>7, RowValues
    <3>2. \A c \in Conns : member[c] # g
      <4>1. \A c \in Conns \ listed : member[c] = NoGroup
        BY <1>3 DEF Clean
      <4>2. \A c \in listed : member[c] # g
        BY <2>4 DEF Members
      <4> QED BY <1>2, <4>1, <4>2, GroupSets
    <3>3. Deleted(present, g) = present
      <4>1. [present.group EXCEPT ![g] = NoRow] = present.group
        BY <1>3, <3>1, StateValues
      <4>2. [c \in Conns |-> IF present.member[c] = g THEN NoGroup ELSE present.member[c]]
              = present.member
        BY <1>3, <3>2, StateValues
      <4> QED BY <1>3, <4>1, <4>2, StateValues DEF Deleted
    <3>4. group' = group /\ member' = member
      BY <1>3, <1>7, <3>3 DEF Become
    <3>5. UNCHANGED tables
      BY <2>1, <3>4 DEF tables
    <3>6. Tables(present, listed, minted')
      BY <1>1, <1>3 DEF Tables
    <3>7. Posts(events', minted')
      BY <1>1, <1>7, <3>3, <3>6, ListsSent DEF IInv
    <3>8. Mail'
      BY <1>1, <3>7, LettersTaken DEF IInv, Mail
    <3>9. Counted'
      BY <1>1, <1>7, StorageCounted DEF IInv
    <3> QED BY <1>1, <1>7, <2>4, <3>5, <3>8, <3>9, NothingGood
  <2> QED BY <1>7, <2>3, <2>4
<1> QED BY <1>5, <1>6, <1>7 DEF HandleDeleteGroup

LEMMA Applied ==
  ASSUME IInv, NEW op \in Op, op.id \in minted \cup {NoGroup}, Apply(op)
  PROVE  \E t \in State : Effect(op, present, listed, t) /\ Become(t) /\ Clean(t, listed, minted)
<1>1. PICK t \in State : Effect(op, present, listed, t) /\ Become(t)
  BY DEF Apply
<1>2. Clean(t, listed, minted)
  BY <1>1, PresentValues, EffectClean
<1> QED BY <1>1, <1>2

LEMMA ExecuteBadlyGood ==
  ASSUME IInv, NEW m, NEW kind, Take(m, kind), UNCHANGED <<minted, view, sent>>,
         NEW op \in Op, op.id \in minted \cup {NoGroup}, ExecuteBadly(op),
         Stack(undo', redo', minted)
  PROVE  Good
<1> DEFINE g == op.id
<1>0. g \in GroupIds \cup {NoGroup} /\ NoRow \in Row /\ op.row \in Row
  BY OpValues, RowValues
<1>1. /\ StorageFails /\ Disturbed /\ listed' = listed
      /\ \/ UNCHANGED <<group, member>> /\ (UNCHANGED events \/ SendLists)
         \/ \E S \in SUBSET Members(g) : Become(Joined(Deleted(present, g), g, S)) /\ SendLists
         \/ Become(Joined(present, NoGroup, Members(g))) /\ UNCHANGED events
         \/ \E S \in SUBSET op.members : Apply(RestoreOp(g, op.row, S)) /\ SendLists
         \/ Apply(op) /\ SendShortLists
  BY DEF ExecuteBadly
<1>2. ASSUME NEW t \in State, Clean(t, listed, minted), Become(t),
             SendLists \/ SendShortLists \/ UNCHANGED events
      PROVE  Good
  BY <1>1, <1>2, DisturbedCommand
<1>3. CASE UNCHANGED <<group, member>> /\ (UNCHANGED events \/ SendLists)
  <2>1. present \in State /\ Clean(present, listed, minted) /\ Become(present)
    BY <1>3, PresentValues DEF Become
  <2> QED BY <1>2, <1>3, <2>1
<1>4. ASSUME NEW S \in SUBSET Members(g), Become(Joined(Deleted(present, g), g, S)), SendLists
      PROVE  Good
  <2>1. S \in SUBSET listed
    BY DEF Members
  <2>2. Deleted(present, g) \in State /\ Clean(Deleted(present, g), listed, minted)
    BY <1>0, <2>1, PresentValues, Changed, CleanKept
  <2>3. Joined(Deleted(present, g), g, S) \in State
        /\ Clean(Joined(Deleted(present, g), g, S), listed, minted)
    BY <1>0, <2>1, <2>2, Changed, CleanKept
  <2> QED BY <1>2, <1>4, <2>3
<1>5. CASE Become(Joined(present, NoGroup, Members(g))) /\ UNCHANGED events
  <2>1. Members(g) \in SUBSET listed
    BY DEF Members
  <2>2. Joined(present, NoGroup, Members(g)) \in State
        /\ Clean(Joined(present, NoGroup, Members(g)), listed, minted)
    BY <1>0, <2>1, PresentValues, Changed, CleanKept
  <2> QED BY <1>2, <1>5, <2>2
<1>6. ASSUME NEW S \in SUBSET op.members, Apply(RestoreOp(g, op.row, S)), SendLists
      PROVE  Good
  <2>1. S \in SUBSET Conns
    BY OpValues
  <2>2. RestoreOp(g, op.row, S) \in Op /\ RestoreOp(g, op.row, S).id = g
    BY <1>0, <2>1, OpsMade
  <2>3. PICK t \in State : Become(t) /\ Clean(t, listed, minted)
    BY <1>6, <2>2, Applied
  <2> QED BY <1>2, <1>6, <2>3
<1>7. CASE Apply(op) /\ SendShortLists
  <2>1. PICK t \in State : Become(t) /\ Clean(t, listed, minted)
    BY <1>7, Applied
  <2> QED BY <1>2, <1>7, <2>1
<1> QED BY <1>1, <1>3, <1>4, <1>5, <1>6, <1>7

(* An entry turned: an operation executed without errors.                  *)
LEMMA ExecutedGood ==
  ASSUME IInv, NEW m, NEW kind, Take(m, kind), UNCHANGED <<minted, view, sent>>,
         UNCHANGED listed, StorageWorks, SendLists,
         NEW t \in State, Clean(t, listed, minted), Become(t),
         Stack(undo', redo', minted),
         Kept(t, listed, undo', redo', past', future', intact'),
         History!Next
  PROVE  Good
<1>1. Tables(t, listed, minted') /\ present' = t
  BY Became, PresentValues DEF Tables
<1>2. Core'
  BY <1>1 DEF Core
<1>3. Mail'
  <2>1. Posts(events', minted')
    BY <1>1, ListsSent DEF IInv
  <2> QED BY <2>1, LettersTaken DEF IInv, Mail
<1>4. Counted'
  BY StorageCounted DEF IInv
<1> QED BY <1>2, <1>3, <1>4, HistoryStep DEF Good, IInv

LEMMA UndoGood == ASSUME IInv, NEW m \in inbox, HandleUndoGroupAction(m) PROVE Good
<1>1. Take(m, "undo") /\ UNCHANGED <<minted, view, sent>>
  BY DEF HandleUndoGroupAction
<1>2. CASE undo = <<>> /\ Nothing /\ StorageWorks
  BY <1>1, <1>2, NothingDone
<1> DEFINE e == LastOf(undo)
<1>3. CASE PopUndo /\ Execute(e.reverse, FrontOf(past), Append(future, present))
  <2>1. undo # <<>> /\ undo' = FrontOf(undo) /\ redo' = Capped(Append(redo, e))
    BY <1>3 DEF PopUndo
  <2>2. /\ Stack(FrontOf(undo), Append(redo, e), minted)
        /\ Capped(Append(redo, e)) = Append(redo, e) /\ e \in Entry /\ Known(e, minted)
    BY <2>1, StackTurned DEF IInv, Core
  <2>3. redo' = Append(redo, e) /\ Stack(undo', redo', minted)
    BY <2>1, <2>2
  <2>4. e.reverse \in Op /\ e.reverse.id \in minted \cup {NoGroup}
    BY <2>2 DEF Entry, Known
  <2>5. CASE ExecuteBadly(e.reverse)
    BY <1>1, <2>3, <2>4, <2>5, ExecuteBadlyGood
  <2>6. CASE /\ Apply(e.reverse) /\ UNCHANGED listed /\ StorageWorks /\ SendLists
             /\ Undisturbed(FrontOf(past), Append(future, present))
    <3>1. PICK t \in State : /\ Effect(e.reverse, present, listed, t) /\ Become(t)
                             /\ Clean(t, listed, minted)
      BY <2>4, <2>6, Applied
    <3>2. present' = t
      BY <3>1, Became
    <3>3. /\ intact => past # <<>> /\ t = LastOf(past)
          /\ Kept(t, listed, FrontOf(undo), Append(redo, e),
                  IF intact THEN FrontOf(past) ELSE <<>>,
                  IF intact THEN Append(future, present) ELSE <<>>, intact)
      BY <2>1, <3>1, KeptUndone DEF IInv, Core
    <3>4. /\ intact' = intact /\ past' = (IF intact THEN FrontOf(past) ELSE <<>>)
          /\ future' = (IF intact THEN Append(future, present) ELSE <<>>)
      BY <2>6 DEF Undisturbed
    <3>5. Kept(t, listed, undo', redo', past', future', intact')
      BY <2>1, <2>3, <3>3, <3>4
    <3>6. History!Next
      <4>1. CASE intact
        <5>1. History!Undo
          BY <3>2, <3>3, <3>4, <4>1 DEF History!Undo, History!Last, History!Front, LastOf, FrontOf
        <5> QED BY <5>1 DEF History!Next
      <4>2. CASE ~intact
        BY <3>4, <4>2 DEF History!Next, History!Disturb
      <4> QED BY <4>1, <4>2
    <3> QED BY <1>1, <2>3, <2>6, <3>1, <3>5, <3>6, ExecutedGood
  <2> QED BY <1>3, <2>5, <2>6 DEF Execute
<1> QED BY <1>2, <1>3 DEF HandleUndoGroupAction

LEMMA RedoGood == ASSUME IInv, NEW m \in inbox, HandleRedoGroupAction(m) PROVE Good
<1>1. Take(m, "redo") /\ UNCHANGED <<minted, view, sent>>
  BY DEF HandleRedoGroupAction
<1>2. CASE redo = <<>> /\ Nothing /\ StorageWorks
  BY <1>1, <1>2, NothingDone
<1> DEFINE e == LastOf(redo)
<1>3. CASE PopRedo /\ Execute(e.forward, Append(past, present), FrontOf(future))
  <2>1. redo # <<>> /\ redo' = FrontOf(redo) /\ undo' = Capped(Append(undo, e))
    BY <1>3 DEF PopRedo
  <2>2. /\ Stack(Append(undo, e), FrontOf(redo), minted)
        /\ Capped(Append(undo, e)) = Append(undo, e) /\ e \in Entry /\ Known(e, minted)
    BY <2>1, StackTurned DEF IInv, Core
  <2>3. undo' = Append(undo, e) /\ Stack(undo', redo', minted)
    BY <2>1, <2>2
  <2>4. e.forward \in Op /\ e.forward.id \in minted \cup {NoGroup}
    BY <2>2 DEF Entry, Known
  <2>5. CASE ExecuteBadly(e.forward)
    BY <1>1, <2>3, <2>4, <2>5, ExecuteBadlyGood
  <2>6. CASE /\ Apply(e.forward) /\ UNCHANGED listed /\ StorageWorks /\ SendLists
             /\ Undisturbed(Append(past, present), FrontOf(future))
    <3>1. PICK t \in State : /\ Effect(e.forward, present, listed, t) /\ Become(t)
                             /\ Clean(t, listed, minted)
      BY <2>4, <2>6, Applied
    <3>2. present' = t
      BY <3>1, Became
    <3>3. /\ intact => future # <<>> /\ t = LastOf(future)
          /\ Kept(t, listed, Append(undo, e), FrontOf(redo),
                  IF intact THEN Append(past, present) ELSE <<>>,
                  IF intact THEN FrontOf(future) ELSE <<>>, intact)
      BY <2>1, <3>1, KeptRedone DEF IInv, Core
    <3>4. /\ intact' = intact /\ past' = (IF intact THEN Append(past, present) ELSE <<>>)
          /\ future' = (IF intact THEN FrontOf(future) ELSE <<>>)
      BY <2>6 DEF Undisturbed
    <3>5. Kept(t, listed, undo', redo', past', future', intact')
      BY <2>1, <2>3, <3>3, <3>4
    <3>6. History!Next
      <4>1. CASE intact
        <5>1. History!Redo
          BY <3>2, <3>3, <3>4, <4>1 DEF History!Redo, History!Last, History!Front, LastOf, FrontOf
        <5> QED BY <5>1 DEF History!Next
      <4>2. CASE ~intact
        BY <3>4, <4>2 DEF History!Next, History!Disturb
      <4> QED BY <4>1, <4>2
    <3> QED BY <1>1, <2>3, <2>6, <3>1, <3>5, <3>6, ExecutedGood
  <2> QED BY <1>3, <2>5, <2>6 DEF Execute
<1> QED BY <1>2, <1>3 DEF HandleRedoGroupAction

LEMMA ConnectGood == ASSUME IInv, NEW m \in inbox, HandleConnect(m) PROVE Good
<1> DEFINE c == m.conn
           t == StateOf(group, [member EXCEPT ![c] = NoGroup])
<1>1. /\ Take(m, "connect") /\ UNCHANGED <<group, stack, view, minted, sent>>
      /\ undo' = undo /\ redo' = redo /\ Stack(undo', redo', minted')
  BY DEF HandleConnect, stack, IInv, Core
<1>2. /\ c \in Conns /\ Letters(inbox', minted') /\ Posts(events, minted) /\ Fit(view', minted')
      /\ "connected" \in {"groups", "connected", "removed"}
  <2>1. c \in Conns /\ Letters(inbox', minted')
    BY <1>1, LettersTaken DEF IInv, Sensible
  <2> QED BY <1>1, <2>1 DEF IInv, Mail
<1>3. /\ group \in [GroupIds -> Row] /\ member \in [Conns -> GroupIds \cup {NoGroup}]
      /\ present \in State /\ present = StateOf(group, member)
  BY PresentValues, StateValues DEF present
<1>4. CASE /\ Written(c)
           /\ \/ StorageWorks /\ Sent("connected", c, ViewOf(group, member', listed'))
              \/ StorageFails /\ Sent("connected", c, ViewOf(group, member', {}))
           /\ IF member[c] = NoGroup THEN UNCHANGED history ELSE Disturbed
  <2>1. /\ member' = [member EXCEPT ![c] = NoGroup] /\ listed' = listed \cup {c}
        /\ group' = group /\ Become(t)
    BY <1>1, <1>4 DEF Written, Become, StateOf
  <2>2. [member EXCEPT ![c] = NoGroup] \in [Conns -> GroupIds \cup {NoGroup}]
    BY <1>3
  <2>3. t \in State /\ t.group = group /\ t.member = [member EXCEPT ![c] = NoGroup]
    BY <1>3, <2>2, StateValues
  <2>4. Clean(t, listed', minted')
    <3>1. \A d \in Conns \ listed' : t.member[d] = NoGroup
      <4>1. \A d \in Conns \ listed : member[d] = NoGroup
        BY PresentValues DEF Clean
      <4>2. \A d \in Conns \ listed' : d \notin listed /\ d # c
        BY <2>1
      <4> QED BY <1>3, <2>3, <4>1, <4>2
    <3>2. \A g \in GroupIds \ minted : group[g] = NoRow /\ \A d \in Conns : member[d] # g
      BY PresentValues DEF Clean
    <3>3. \A g \in GroupIds, d \in Conns : member[d] # g => t.member[d] # g
      BY <1>3, <2>3, GroupSets
    <3> QED BY <1>1, <2>3, <3>1, <3>2, <3>3 DEF Clean
  <2> HIDE DEF t, c
  <2>5. Tables(t, listed', minted')
    BY <1>1, <1>2, <2>1, <2>3, <2>4, PresentValues DEF Tables
  <2>6. Fit(ViewOf(group, member', listed'), minted') /\ Fit(ViewOf(group, member', {}), minted')
    BY <2>1, <2>3, <2>5, ViewValues DEF Tables
  <2>7. Mail'
    BY <1>1, <1>2, <1>4, <2>6, PostsSent DEF Mail
  <2>8. Counted'
    BY <1>1, <1>4, StorageCounted DEF IInv
  <2>9. CASE Disturbed
    BY <1>1, <2>1, <2>5, <2>7, <2>8, <2>9, DisturbedGood
  <2>10. CASE member[c] = NoGroup /\ UNCHANGED history
    <3>1. [member EXCEPT ![c] = NoGroup] = member
      BY <1>2, <1>3, <2>10
    <3>2. present' = present /\ t = present
      BY <1>3, <2>1, <3>1 DEF present, t
    <3>3. UNCHANGED <<past, future, intact>>
      BY <2>10 DEF history
    <3>4. Kept(present, listed, undo, redo, past, future, intact) /\ listed \subseteq listed'
      BY <2>1 DEF IInv, Core
    <3>5. Kept(present, listed', undo, redo, past, future, intact)
      BY <3>4, KeptMore
    <3>6. Core'
      BY <1>1, <2>5, <3>2, <3>3, <3>5 DEF Core
    <3> QED BY <2>7, <2>8, <3>2, <3>3, <3>6, HistoryStep DEF Good, IInv
  <2> QED BY <1>4, <2>9, <2>10
<1>5. CASE /\ StorageFails /\ UNCHANGED <<member, listed, history>>
           /\ Sent("connected", c, ViewOf(group, member, listed))
  <2>1. Fit(ViewOf(group, member, listed), minted)
    BY PresentValues, ViewValues DEF IInv, Core, Tables
  <2>2. Mail'
    BY <1>1, <1>2, <1>5, <2>1, PostsSent DEF Mail
  <2>3. Counted'
    BY <1>1, <1>5, StorageCounted DEF IInv
  <2> QED BY <1>1, <1>5, <2>2, <2>3, NothingGood DEF tables, stack
<1>6. CASE StorageWorks /\ UNCHANGED <<member, listed, events, history>>
  <2>1. Mail'
    BY <1>1, <1>2, <1>6 DEF Mail
  <2>2. Counted'
    BY <1>1, <1>6, StorageCounted DEF IInv
  <2> QED BY <1>1, <1>6, <2>1, <2>2, NothingGood DEF tables, stack
<1> QED BY <1>4, <1>5, <1>6 DEF HandleConnect

LEMMA RemoveGood == ASSUME IInv, NEW m \in inbox, HandleRemoveConnection(m) PROVE Good
<1> DEFINE c == m.conn
           t == StateOf(group, [member EXCEPT ![c] = NoGroup])
<1>1. /\ Take(m, "remove") /\ UNCHANGED <<group, stack, view, minted, sent>>
      /\ Sent("removed", c, view)
      /\ undo' = undo /\ redo' = redo /\ Stack(undo', redo', minted')
  BY DEF HandleRemoveConnection, stack, IInv, Core
<1>2. /\ c \in Conns /\ Letters(inbox', minted') /\ Posts(events, minted)
      /\ Fit(view, minted) /\ "removed" \in {"groups", "connected", "removed"}
  <2>1. c \in Conns /\ Letters(inbox', minted')
    BY <1>1, LettersTaken DEF IInv, Sensible
  <2> QED BY <2>1 DEF IInv, Mail
<1>3. Mail'
  <2>1. Posts(events', minted')
    BY <1>1, <1>2, PostsSent
  <2> QED BY <1>1, <1>2, <2>1 DEF Mail
<1>4. CASE StorageFails /\ UNCHANGED <<member, listed, history>>
  <2>1. Counted'
    BY <1>1, <1>4, StorageCounted DEF IInv
  <2> QED BY <1>1, <1>3, <1>4, <2>1, NothingGood DEF tables, stack
<1>5. CASE /\ StorageWorks /\ Disturbed
           /\ member' = [member EXCEPT ![c] = NoGroup] /\ listed' = listed \ {c}
  <2>1. group \in [GroupIds -> Row] /\ member \in [Conns -> GroupIds \cup {NoGroup}]
    BY PresentValues, StateValues
  <2>2. Become(t)
    BY <1>1, <1>5 DEF Become, StateOf
  <2>3. [member EXCEPT ![c] = NoGroup] \in [Conns -> GroupIds \cup {NoGroup}]
    BY <2>1
  <2>4. t \in State /\ t.group = group /\ t.member = [member EXCEPT ![c] = NoGroup]
    BY <2>1, <2>3, StateValues
  <2>5. Clean(t, listed', minted')
    <3>1. \A d \in Conns \ listed' : t.member[d] = NoGroup
      BY <1>5, <2>1, <2>4, PresentValues DEF Clean
    <3>2. \A g \in GroupIds \ minted : group[g] = NoRow /\ \A d \in Conns : member[d] # g
      BY PresentValues DEF Clean
    <3>3. \A g \in GroupIds, d \in Conns : member[d] # g => t.member[d] # g
      BY <2>1, <2>4, GroupSets
    <3> QED BY <1>1, <2>4, <3>1, <3>2, <3>3 DEF Clean
  <2> HIDE DEF t, c
  <2>6. Tables(t, listed', minted')
    BY <1>1, <1>5, <2>4, <2>5, PresentValues DEF Tables
  <2>7. Counted'
    BY <1>1, <1>5, StorageCounted DEF IInv
  <2> QED BY <1>1, <1>3, <1>5, <2>2, <2>6, <2>7, DisturbedGood
<1> QED BY <1>4, <1>5 DEF HandleRemoveConnection

LEMMA UiGood == ASSUME IInv, UiGroups \/ UiConnected \/ UiRemoved PROVE Good
<1> DEFINE v == Head(events).view
<1>1. /\ events # <<>> /\ events' = Tail(events) /\ minted' = minted
      /\ UNCHANGED <<tables, stack, inbox, sent, mishaps, history>>
  BY DEF UiGroups, UiConnected, UiRemoved, UiTake, UiUnchanged, counters
<1>2. /\ Posts(events', minted') /\ Fit(v, minted') /\ Fit(view, minted')
      /\ Letters(inbox', minted')
  BY <1>1, PostsTaken DEF IInv, Mail
<1> HIDE DEF v
<1>3. /\ v.group \in [GroupIds -> Row] /\ v.member \in [Conns -> GroupIds \cup {NoGroup}]
      /\ v.listed \subseteq Conns
      /\ view.group \in [GroupIds -> Row] /\ view.member \in [Conns -> GroupIds \cup {NoGroup}]
      /\ view.listed \subseteq Conns
  BY <1>2 DEF Fit, View
<1>4. \A n \in [Conns -> GroupIds \cup {NoGroup}], L \in SUBSET Conns :
        Fit(ViewOf(view.group, n, L), minted')
  BY <1>2, <1>3 DEF Fit, View, ViewOf
<1>5. Fit(view', minted')
  <2>1. CASE UiGroups
    BY <1>2, <2>1 DEF UiGroups, v
  <2>2. CASE UiConnected
    BY <1>3, <1>4, <2>2 DEF UiConnected, v
  <2>3. CASE UiRemoved
    <3>1. [view.member EXCEPT ![Head(events).conn] = NoGroup]
            \in [Conns -> GroupIds \cup {NoGroup}]
      BY <1>3
    <3>2. view.listed \ {Head(events).conn} \in SUBSET Conns
      BY <1>3
    <3> QED BY <1>4, <2>3, <3>1, <3>2 DEF UiRemoved
  <2> QED BY <2>1, <2>2, <2>3
<1>6. Mail' /\ Counted'
  BY <1>1, <1>2, <1>5 DEF Mail, Counted, IInv
<1> QED BY <1>1, <1>6, NothingGood

(* The user only names groups and connections that are shown.              *)
LEMMA CommandValues ==
  ASSUME Fit(view, minted), minted \subseteq GroupIds, NEW m \in Commands
  PROVE  Sensible(m, minted)
<1>0. DefaultName \in Names /\ DefaultColor \in Colors /\ ShownGroups \subseteq minted
      /\ ShownGroups \subseteq GroupIds
  BY GroupSets DEF ShownGroups, Fit
<1>1. ASSUME NEW k \in {"create", "undo", "redo", "connect", "remove", "move"},
             NEW g \in minted \cup {NoGroup}, NEW c \in Conns \cup {NoConn},
             k \in {"connect", "remove", "move"} => c \in Conns
      PROVE  Sensible(Cmd(k, g, c, DefaultName, DefaultColor), minted)
  BY <1>0, <1>1 DEF Cmd, Sensible, Command, CommandKinds
<1>2. ASSUME NEW k \in {"delete", "rename", "color"}, NEW g \in minted, NEW n \in Names,
             NEW o \in Colors
      PROVE  Sensible(Cmd(k, g, NoConn, n, o), minted)
  BY <1>2 DEF Cmd, Sensible, Command, CommandKinds
<1>3. CASE m \in {Cmd("create", NoGroup, NoConn, DefaultName, DefaultColor),
                 Cmd("undo", NoGroup, NoConn, DefaultName, DefaultColor),
                 Cmd("redo", NoGroup, NoConn, DefaultName, DefaultColor)}
  BY <1>1, <1>3
<1>4. CASE m \in {Cmd("delete", g, NoConn, DefaultName, DefaultColor) : g \in ShownGroups}
  BY <1>0, <1>2, <1>4
<1>5. CASE m \in {Cmd("rename", g, NoConn, n, DefaultColor) : g \in ShownGroups, n \in Names}
  BY <1>0, <1>2, <1>5
<1>6. CASE m \in {Cmd("color", g, NoConn, DefaultName, o) : g \in ShownGroups, o \in Colors}
  BY <1>0, <1>2, <1>6
<1>7. CASE m \in {Cmd("move", g, c, DefaultName, DefaultColor) :
                   g \in ShownGroups \cup {NoGroup}, c \in {d \in Conns : Shown(d)}}
  <2>1. PICK g \in ShownGroups \cup {NoGroup}, c \in Conns :
               m = Cmd("move", g, c, DefaultName, DefaultColor)
    BY <1>7
  <2> QED BY <1>0, <1>1, <2>1
<1>8. CASE m \in {Cmd("remove", NoGroup, c, DefaultName, DefaultColor) :
                   c \in {d \in Conns : Shown(d)}}
  BY <1>1, <1>8
<1>9. CASE m \in {Cmd("connect", NoGroup, c, DefaultName, DefaultColor) : c \in Conns}
  BY <1>1, <1>9
<1> QED BY <1>3, <1>4, <1>5, <1>6, <1>7, <1>8, <1>9 DEF Commands

LEMMA UserGood == ASSUME IInv, UserSends PROVE Good
<1>1. PICK m \in Commands : inbox' = inbox \cup {m}
  BY DEF UserSends
<1>2. UNCHANGED <<tables, stack, history, minted, events, view, mishaps>>
  BY DEF UserSends
<1>3. Sensible(m, minted)
  BY PresentValues, CommandValues DEF IInv, Mail
<1>4. Mail'
  BY <1>1, <1>2, <1>3 DEF IInv, Mail, Letters
<1>5. Counted'
  <2>1. sent \in 0 .. MaxCommands /\ MaxCommands \in Nat /\ sent < MaxCommands /\ sent' = sent + 1
    BY GroupBounds DEF IInv, Counted, UserSends
  <2>2. sent' \in 0 .. MaxCommands
    BY <2>1
  <2> QED BY <1>2, <2>2 DEF IInv, Counted
<1> QED BY <1>2, <1>4, <1>5, NothingGood

LEMMA Beginning ==
  ASSUME NEW s, NEW L, NEW M, Tables(s, L, M)
  PROVE  /\ Stack(<<>>, <<>>, M) /\ Kept(s, L, <<>>, <<>>, <<>>, <<>>, TRUE)
         /\ Letters({}, M) /\ Posts(<<>>, M)
<1>1. /\ \A S : <<>> \in Seq(S)
      /\ Len(<<>>) = 0 /\ 0 + 0 <= UndoMax /\ 0 <= EventCap /\ 1 .. 0 = {}
  BY EmptySeq, GroupBounds
<1>2. Stack(<<>>, <<>>, M)
  BY <1>1 DEF Stack
<1>3. Kept(s, L, <<>>, <<>>, <<>>, <<>>, TRUE)
  BY <1>1, SideEmpty DEF Kept, Chain
<1>4. Letters({}, M) /\ Posts(<<>>, M)
  BY <1>1 DEF Letters, Posts
<1> QED BY <1>2, <1>3, <1>4

LEMMA RestartGood == ASSUME IInv, Restart PROVE Good
<1>1. /\ UNCHANGED <<group, member, listed, minted, sent>>
      /\ undo' = <<>> /\ redo' = <<>> /\ inbox' = {} /\ events' = <<>>
      /\ view' = ViewOf(group, member, listed)
      /\ past' = <<>> /\ future' = <<>> /\ intact' = TRUE
      /\ mishaps < MaxMishaps /\ mishaps' = mishaps + 1
  BY DEF Restart, tables
<1>2. present' = present /\ Tables(present, listed, minted)
  BY <1>1 DEF present, IInv, Core
<1>3. Core'
  BY <1>1, <1>2, Beginning DEF Core
<1>4. Mail'
  <2>1. Fit(ViewOf(group, member, listed), minted)
    BY <1>2, PresentValues, ViewValues
  <2> QED BY <1>1, <1>2, <2>1, Beginning DEF Mail
<1>5. Counted'
  <2>1. mishaps \in 0 .. MaxMishaps /\ MaxMishaps \in Nat /\ sent \in 0 .. MaxCommands
    BY GroupBounds DEF IInv, Counted
  <2>2. mishaps' \in 0 .. MaxMishaps
    BY <1>1, <2>1
  <2> QED BY <1>1, <2>1, <2>2 DEF Counted
<1>6. History!Next
  BY <1>1, <1>2 DEF History!Next, History!StartAnew
<1> QED BY <1>3, <1>4, <1>5, <1>6, HistoryStep DEF Good, IInv

LEMMA AtInit == Init => IInv /\ History!Init
<1> SUFFICES ASSUME Init PROVE IInv /\ History!Init
  OBVIOUS
<1>1. /\ group \in [GroupIds -> {NoRow, RowOf(DefaultName, DefaultColor)}]
      /\ listed \in SUBSET Conns /\ member \in [Conns -> GroupIds \cup {NoGroup}]
      /\ \A c \in Conns : member[c] # NoGroup => c \in listed /\ group[member[c]].exists
      /\ minted = {g \in GroupIds : group[g].exists}
  BY DEF Init
<1>2. /\ undo = <<>> /\ redo = <<>> /\ inbox = {} /\ events = <<>>
      /\ view = ViewOf(group, member, listed) /\ sent = 0 /\ mishaps = 0
      /\ past = <<>> /\ future = <<>> /\ intact = TRUE
  BY Zenon DEF Init
<1>3. group \in [GroupIds -> Row]
  BY <1>1, RowValues, GroupSets
<1>4. present \in State /\ present.group = group /\ present.member = member
  BY <1>1, <1>3, StateValues DEF present
<1>5. Clean(present, listed, minted)
  <2>1. \A g \in GroupIds \ minted : group[g] = NoRow
    BY <1>1, <1>3, RowValues
  <2>2. \A g \in GroupIds \ minted, c \in Conns : member[c] # g
    BY <1>1, GroupSets
  <2> QED BY <1>1, <1>4, <2>1, <2>2 DEF Clean
<1>6. Tables(present, listed, minted)
  BY <1>1, <1>4, <1>5 DEF Tables
<1>7. Core
  BY <1>2, <1>6, Beginning DEF Core
<1>8. Fit(view, minted)
  BY <1>1, <1>2, <1>4, <1>6, ViewValues
<1>9. Mail /\ Counted
  <2>1. Letters(inbox, minted) /\ Posts(events, minted)
    BY <1>2, <1>6, Beginning
  <2>2. sent \in 0 .. MaxCommands /\ mishaps \in 0 .. MaxMishaps
    BY <1>2, GroupBounds
  <2> QED BY <1>8, <2>1, <2>2 DEF Mail, Counted
<1>10. History!Init
  BY <1>2, <1>4 DEF History!Init
<1> QED BY <1>7, <1>9, <1>10 DEF IInv

LEMMA StepGood == IInv /\ [Next]_vars => Good
<1> SUFFICES ASSUME IInv, [Next]_vars PROVE Good
  OBVIOUS
<1>1. CASE UNCHANGED vars
  <2>1. UNCHANGED <<tables, stack, history, minted, inbox, events, view, sent, mishaps>>
    BY <1>1 DEF vars, counters
  <2>2. Mail' /\ Counted'
    BY <2>1 DEF IInv, Mail, Counted
  <2> QED BY <2>1, <2>2, NothingGood
<1>2. ASSUME NEW m \in inbox,
             \/ HandleCreateGroup(m) \/ HandleRenameGroup(m) \/ HandleSetGroupColor(m)
             \/ HandleMoveConnectionToGroup(m) \/ HandleDeleteGroup(m)
             \/ HandleUndoGroupAction(m) \/ HandleRedoGroupAction(m)
             \/ HandleConnect(m) \/ HandleRemoveConnection(m)
      PROVE  Good
  BY <1>2, CreateGood, RenameGood, ColorGood, MoveGood, DeleteGood, UndoGood, RedoGood,
     ConnectGood, RemoveGood
<1> QED BY <1>1, <1>2, UiGood, UserGood, RestartGood DEF Next, Controller

LEMMA Typed == IInv => TypeOK
<1> SUFFICES ASSUME IInv PROVE TypeOK
  OBVIOUS
<1>1. group \in [GroupIds -> Row] /\ member \in [Conns -> GroupIds \cup {NoGroup}]
  BY PresentValues, StateValues
<1>2. /\ listed \subseteq Conns /\ minted \subseteq GroupIds
      /\ undo \in Seq(Entry) /\ redo \in Seq(Entry)
      /\ past \in Seq(State) /\ future \in Seq(State) /\ intact \in BOOLEAN
  BY DEF IInv, Core, Tables, Stack, Kept
<1>3. /\ inbox \subseteq Command /\ events \in Seq(Event) /\ Len(events) <= EventCap
      /\ view \in View
  BY DEF IInv, Mail, Letters, Sensible, Posts, Fit
<1>4. sent \in 0 .. MaxCommands /\ mishaps \in 0 .. MaxMishaps
  BY DEF IInv, Counted
<1> QED BY <1>1, <1>2, <1>3, <1>4 DEF TypeOK

-----------------------------------------------------------------------------
(* What the sidebar will hold once it has taken every event: of the groups *)
(* what the last list of them says, of a connection what the last event    *)
(* that tells of it says.                                                  *)

GroupsArrive(es, v, g) ==
    \/ v.group = g /\ \A i \in DOMAIN es : es[i].type # "groups"
    \/ \E i \in DOMAIN es :
          /\ es[i].type = "groups" /\ es[i].view.group = g
          /\ \A j \in DOMAIN es : i < j => es[j].type # "groups"

Tells(e, c) == e.type # "removed" \/ e.conn = c

Says(e, c, m, l) ==
    IF e.type = "removed" THEN m[c] = NoGroup /\ c \notin l
    ELSE e.view.member[c] = m[c] /\ (c \in e.view.listed <=> c \in l)

ConnArrives(es, v, c, m, l) ==
    \/ /\ v.member[c] = m[c] /\ (c \in v.listed <=> c \in l)
       /\ \A i \in DOMAIN es : ~ Tells(es[i], c)
    \/ \E i \in DOMAIN es :
          /\ Tells(es[i], c) /\ Says(es[i], c, m, l)
          /\ \A j \in DOMAIN es : i < j => ~ Tells(es[j], c)

Arriving ==
    mishaps = 0 => /\ GroupsArrive(events, view, group)
                   /\ \A c \in Conns : ConnArrives(events, view, c, member, listed)

LEMMA OneMore ==
  ASSUME NEW S, NEW es \in Seq(S), NEW e \in S, NEW fs, fs = Append(es, e)
  PROVE  /\ Len(es) \in Nat /\ DOMAIN es = 1 .. Len(es)
         /\ DOMAIN fs = 1 .. Len(es) + 1 /\ fs[Len(es) + 1] = e
         /\ \A i \in DOMAIN es : fs[i] = es[i]
OBVIOUS

LEMMA OneLess ==
  ASSUME NEW S, NEW es \in Seq(S), es # <<>>, NEW fs, fs = Tail(es)
  PROVE  /\ fs \in Seq(S) /\ Len(es) \in Nat /\ DOMAIN es = 1 .. Len(es) /\ 1 \in DOMAIN es
         /\ DOMAIN fs = 1 .. Len(es) - 1 /\ Head(es) = es[1]
         /\ \A i \in DOMAIN fs : i + 1 \in DOMAIN es /\ fs[i] = es[i + 1]
         /\ \A i \in DOMAIN es : i # 1 => i - 1 \in DOMAIN fs /\ fs[i - 1] = es[i]
OBVIOUS

LEMMA GroupsAppended ==
  ASSUME NEW es \in Seq(Event), NEW e \in Event, NEW v, NEW g, NEW h, NEW fs, fs = Append(es, e),
         \/ e.type = "groups" /\ e.view.group = h
         \/ e.type # "groups" /\ h = g /\ GroupsArrive(es, v, g)
  PROVE  GroupsArrive(fs, v, h)
<1>1. /\ Len(es) \in Nat /\ DOMAIN es = 1 .. Len(es)
      /\ DOMAIN fs = 1 .. Len(es) + 1 /\ fs[Len(es) + 1] = e
      /\ \A i \in DOMAIN es : fs[i] = es[i]
  BY OneMore
<1>2. CASE e.type = "groups" /\ e.view.group = h
  <2>1. Len(es) + 1 \in DOMAIN fs /\ \A j \in DOMAIN fs : ~ (Len(es) + 1 < j)
    BY <1>1
  <2> QED BY <1>1, <1>2, <2>1 DEF GroupsArrive
<1>3. CASE e.type # "groups" /\ h = g /\ GroupsArrive(es, v, g)
  <2>1. CASE v.group = g /\ \A i \in DOMAIN es : es[i].type # "groups"
    BY <1>1, <1>3, <2>1 DEF GroupsArrive
  <2>2. ASSUME NEW i \in DOMAIN es, es[i].type = "groups", es[i].view.group = g,
               \A j \in DOMAIN es : i < j => es[j].type # "groups"
        PROVE  GroupsArrive(fs, v, h)
    <3>1. i \in DOMAIN fs /\ fs[i] = es[i]
      BY <1>1
    <3>2. \A j \in DOMAIN fs : i < j => fs[j].type # "groups"
      BY <1>1, <1>3, <2>2
    <3> QED BY <1>3, <2>2, <3>1, <3>2 DEF GroupsArrive
  <2> QED BY <1>3, <2>1, <2>2 DEF GroupsArrive
<1> QED BY <1>2, <1>3

LEMMA ConnAppended ==
  ASSUME NEW es \in Seq(Event), NEW e \in Event, NEW v, NEW c, NEW fs, fs = Append(es, e),
         NEW m, NEW l, NEW n, NEW k,
         \/ Tells(e, c) /\ Says(e, c, n, k)
         \/ ~ Tells(e, c) /\ n[c] = m[c] /\ (c \in k <=> c \in l) /\ ConnArrives(es, v, c, m, l)
  PROVE  ConnArrives(fs, v, c, n, k)
<1>1. /\ Len(es) \in Nat /\ DOMAIN es = 1 .. Len(es)
      /\ DOMAIN fs = 1 .. Len(es) + 1 /\ fs[Len(es) + 1] = e
      /\ \A i \in DOMAIN es : fs[i] = es[i]
  BY OneMore
<1>2. CASE Tells(e, c) /\ Says(e, c, n, k)
  <2>1. Len(es) + 1 \in DOMAIN fs /\ \A j \in DOMAIN fs : ~ (Len(es) + 1 < j)
    BY <1>1
  <2> QED BY <1>1, <1>2, <2>1 DEF ConnArrives
<1>3. CASE ~ Tells(e, c) /\ n[c] = m[c] /\ (c \in k <=> c \in l) /\ ConnArrives(es, v, c, m, l)
  <2>1. CASE /\ v.member[c] = m[c] /\ (c \in v.listed <=> c \in l)
             /\ \A i \in DOMAIN es : ~ Tells(es[i], c)
    <3>1. \A i \in DOMAIN fs : ~ Tells(fs[i], c)
      BY <1>1, <1>3, <2>1
    <3> QED BY <1>3, <2>1, <3>1 DEF ConnArrives
  <2>2. ASSUME NEW i \in DOMAIN es, Tells(es[i], c), Says(es[i], c, m, l),
               \A j \in DOMAIN es : i < j => ~ Tells(es[j], c)
        PROVE  ConnArrives(fs, v, c, n, k)
    <3>1. i \in DOMAIN fs /\ fs[i] = es[i]
      BY <1>1
    <3>2. \A j \in DOMAIN fs : i < j => ~ Tells(fs[j], c)
      BY <1>1, <1>3, <2>2
    <3>3. Says(es[i], c, n, k)
      BY <1>3, <2>2 DEF Says
    <3> QED BY <2>2, <3>1, <3>2, <3>3 DEF ConnArrives
  <2> QED BY <1>3, <2>1, <2>2 DEF ConnArrives
<1> QED BY <1>2, <1>3

(* Taking the first event: the sidebar holds what it said.                 *)
LEMMA GroupsTaken ==
  ASSUME NEW es \in Seq(Event), es # <<>>, NEW v, NEW w, NEW g, NEW fs, fs = Tail(es),
         GroupsArrive(es, v, g),
         w.group = IF Head(es).type = "groups" THEN Head(es).view.group ELSE v.group
  PROVE  GroupsArrive(fs, w, g)
<1>1. /\ Len(es) \in Nat /\ DOMAIN es = 1 .. Len(es) /\ 1 \in DOMAIN es
      /\ DOMAIN fs = 1 .. Len(es) - 1 /\ Head(es) = es[1]
      /\ \A i \in DOMAIN fs : i + 1 \in DOMAIN es /\ fs[i] = es[i + 1]
      /\ \A i \in DOMAIN es : i # 1 => i - 1 \in DOMAIN fs /\ fs[i - 1] = es[i]
  BY OneLess
<1>2. CASE v.group = g /\ \A i \in DOMAIN es : es[i].type # "groups"
  BY <1>1, <1>2 DEF GroupsArrive
<1>3. ASSUME NEW i \in DOMAIN es, es[i].type = "groups", es[i].view.group = g,
             \A j \in DOMAIN es : i < j => es[j].type # "groups"
      PROVE  GroupsArrive(fs, w, g)
  <2>1. CASE i = 1
    <3>1. \A j \in DOMAIN fs : fs[j].type # "groups"
      BY <1>1, <1>3, <2>1
    <3>2. w.group = g
      BY <1>1, <1>3, <2>1
    <3> QED BY <3>1, <3>2 DEF GroupsArrive
  <2>2. CASE i # 1
    <3>1. i - 1 \in DOMAIN fs /\ fs[i - 1] = es[i]
      BY <1>1, <2>2
    <3>2. \A j \in DOMAIN fs : i - 1 < j => fs[j].type # "groups"
      BY <1>1, <1>3
    <3> QED BY <1>3, <3>1, <3>2 DEF GroupsArrive
  <2> QED BY <2>1, <2>2
<1> QED BY <1>2, <1>3 DEF GroupsArrive

LEMMA ConnTaken ==
  ASSUME NEW es \in Seq(Event), es # <<>>, NEW v, NEW w, NEW c, NEW m, NEW l, NEW fs, fs = Tail(es),
         ConnArrives(es, v, c, m, l),
         IF Tells(Head(es), c) THEN Says(Head(es), c, w.member, w.listed)
         ELSE w.member[c] = v.member[c] /\ (c \in w.listed <=> c \in v.listed)
  PROVE  ConnArrives(fs, w, c, m, l)
<1>0. es \in Seq(Event) /\ es # <<>> /\ fs = Tail(es)
  OBVIOUS
<1>1. /\ Len(es) \in Nat /\ DOMAIN es = 1 .. Len(es) /\ 1 \in DOMAIN es
      /\ DOMAIN fs = 1 .. Len(es) - 1 /\ Head(es) = es[1]
      /\ \A i \in DOMAIN fs : i + 1 \in DOMAIN es /\ fs[i] = es[i + 1]
      /\ \A i \in DOMAIN es : i # 1 => i - 1 \in DOMAIN fs /\ fs[i - 1] = es[i]
  BY ONLY <1>0, OneLess
<1>2. CASE /\ v.member[c] = m[c] /\ (c \in v.listed <=> c \in l)
           /\ \A i \in DOMAIN es : ~ Tells(es[i], c)
  <2>1. ~ Tells(Head(es), c)
    BY <1>1, <1>2
  <2>2. w.member[c] = m[c] /\ (c \in w.listed <=> c \in l)
    BY <1>2, <2>1
  <2>3. \A i \in DOMAIN fs : ~ Tells(fs[i], c)
    BY <1>1, <1>2
  <2> QED BY <2>2, <2>3 DEF ConnArrives
<1>3. ASSUME NEW i \in DOMAIN es, Tells(es[i], c), Says(es[i], c, m, l),
             \A j \in DOMAIN es : i < j => ~ Tells(es[j], c)
      PROVE  ConnArrives(fs, w, c, m, l)
  <2>1. CASE i = 1
    <3>1. \A j \in DOMAIN fs : ~ Tells(fs[j], c)
      BY <1>1, <1>3, <2>1
    <3>2. Says(es[1], c, w.member, w.listed) /\ Says(es[1], c, m, l)
      BY <1>1, <1>3, <2>1
    <3>3. w.member[c] = m[c] /\ (c \in w.listed <=> c \in l)
      BY <3>2 DEF Says
    <3> QED BY <3>1, <3>3 DEF ConnArrives
  <2>2. CASE i # 1
    <3>1. i - 1 \in DOMAIN fs /\ fs[i - 1] = es[i]
      BY <1>1, <2>2
    <3>2. \A j \in DOMAIN fs : i - 1 < j => ~ Tells(fs[j], c)
      BY <1>1, <1>3
    <3> QED BY <1>3, <3>1, <3>2 DEF ConnArrives
  <2> QED BY <2>1, <2>2
<1> QED BY <1>2, <1>3 DEF ConnArrives

(* What the controller does to the tables, and tells, when nothing fails.  *)
Told ==
    /\ view' = view
    /\ \/ UNCHANGED <<group, member, listed, events>>
       \/ listed' = listed /\ SendLists
       \/ \E c \in Conns \cup {NoConn} :
             group' = group /\ Sent("connected", c, ViewOf(group, member', listed'))
       \/ \E c \in Conns \cup {NoConn} :
             /\ group' = group /\ member' = [member EXCEPT ![c] = NoGroup]
             /\ listed' = listed \ {c} /\ Sent("removed", c, view)

LEMMA DoneTold ==
  ASSUME TypeOK, mishaps' = 0, view' = view, NEW t, NEW a, NEW b, Done(t, a, b)
  PROVE  Told
BY DEF Done, StorageFails, Told, TypeOK

LEMMA ExecuteTold ==
  ASSUME TypeOK, mishaps' = 0, view' = view, NEW op, NEW p, NEW f, Execute(op, p, f)
  PROVE  Told
BY DEF Execute, ExecuteBadly, StorageFails, Told, TypeOK

LEMMA HandlerTold ==
  ASSUME TypeOK, mishaps' = 0, Controller
  PROVE  Told
<1>0. mishaps \in Nat /\ ~ StorageFails
  BY DEF TypeOK, StorageFails
<1> PICK m \in inbox :
        \/ HandleCreateGroup(m) \/ HandleRenameGroup(m) \/ HandleSetGroupColor(m)
        \/ HandleMoveConnectionToGroup(m) \/ HandleDeleteGroup(m)
        \/ HandleUndoGroupAction(m) \/ HandleRedoGroupAction(m)
        \/ HandleConnect(m) \/ HandleRemoveConnection(m)
  BY DEF Controller
<1>1. m.conn \in Conns \cup {NoConn}
  BY DEF TypeOK, Command
<1>2. Nothing /\ view' = view => Told
  BY DEF Nothing, Told, tables
<1>3. CASE HandleCreateGroup(m)
  BY <1>0, <1>3, DoneTold DEF HandleCreateGroup
<1>4. CASE HandleRenameGroup(m)
  BY <1>0, <1>2, <1>4, DoneTold DEF HandleRenameGroup
<1>5. CASE HandleSetGroupColor(m)
  BY <1>0, <1>2, <1>5, DoneTold DEF HandleSetGroupColor
<1>6. CASE HandleMoveConnectionToGroup(m)
  BY <1>0, <1>2, <1>6, DoneTold DEF HandleMoveConnectionToGroup
<1>7. CASE HandleDeleteGroup(m)
  BY <1>0, <1>7, DoneTold DEF HandleDeleteGroup, DeleteBadly, Told
<1>8. CASE HandleUndoGroupAction(m)
  BY <1>2, <1>8, ExecuteTold DEF HandleUndoGroupAction
<1>9. CASE HandleRedoGroupAction(m)
  BY <1>2, <1>9, ExecuteTold DEF HandleRedoGroupAction
<1>10. CASE HandleConnect(m)
  BY <1>0, <1>1, <1>10 DEF HandleConnect, Told
<1>11. CASE HandleRemoveConnection(m)
  BY <1>0, <1>1, <1>11 DEF HandleRemoveConnection, Told
<1> QED BY <1>3, <1>4, <1>5, <1>6, <1>7, <1>8, <1>9, <1>10, <1>11

LEMMA ToldArrives ==
  ASSUME TypeOK, TypeOK', Told, mishaps = 0, Arriving
  PROVE  Arriving'
<1>0. /\ view' = view /\ events \in Seq(Event)
      /\ GroupsArrive(events, view, group)
      /\ \A c \in Conns : ConnArrives(events, view, c, member, listed)
      /\ member \in [Conns -> GroupIds \cup {NoGroup}]
  BY DEF Told, TypeOK, Arriving
<1> SUFFICES /\ GroupsArrive(events', view, group')
             /\ \A c \in Conns : ConnArrives(events', view, c, member', listed')
  BY <1>0 DEF Arriving
<1>1. CASE UNCHANGED <<group, member, listed, events>>
  BY <1>0, <1>1
<1>2. CASE listed' = listed /\ SendLists
  <2>1. PICK e : e = [type |-> "groups", conn |-> NoConn, view |-> ViewOf(group', member', listed)]
    OBVIOUS
  <2>2. events' = Append(events, e)
    BY <1>2, <2>1 DEF SendLists, Sent
  <2>3. /\ e.type = "groups" /\ e.view.group = group' /\ e.view.member = member'
        /\ e.view.listed = listed'
    BY <1>2, <2>1 DEF ViewOf
  <2>4. e \in Event
    BY <2>1, <1>2 DEF Event, View, ViewOf, TypeOK
  <2>5. \A c \in Conns : Tells(e, c) /\ Says(e, c, member', listed')
    BY <2>3 DEF Tells, Says
  <2>6. GroupsArrive(events', view, group')
    BY <1>0, <2>2, <2>3, <2>4, GroupsAppended
  <2>7. \A c \in Conns : ConnArrives(events', view, c, member', listed')
    BY <1>0, <2>2, <2>4, <2>5, ConnAppended
  <2> QED BY <2>6, <2>7
<1>3. ASSUME NEW c \in Conns \cup {NoConn}, group' = group,
             Sent("connected", c, ViewOf(group, member', listed'))
      PROVE  /\ GroupsArrive(events', view, group')
             /\ \A d \in Conns : ConnArrives(events', view, d, member', listed')
  <2>1. PICK e : e = [type |-> "connected", conn |-> c, view |-> ViewOf(group, member', listed')]
    OBVIOUS
  <2>2. events' = Append(events, e)
    BY <1>3, <2>1 DEF Sent
  <2>3. /\ e.type = "connected" /\ e.view.member = member' /\ e.view.listed = listed'
    BY <2>1 DEF ViewOf
  <2>4. e \in Event
    BY <2>1 DEF Event, View, ViewOf, TypeOK
  <2>5. \A d \in Conns : Tells(e, d) /\ Says(e, d, member', listed')
    BY <2>3 DEF Tells, Says
  <2>6. e.type # "groups" /\ group' = group
    BY <1>3, <2>3
  <2>7. GroupsArrive(events', view, group')
    BY <1>0, <2>2, <2>4, <2>6, GroupsAppended
  <2>8. \A d \in Conns : ConnArrives(events', view, d, member', listed')
    BY <1>0, <2>2, <2>4, <2>5, ConnAppended
  <2> QED BY <2>7, <2>8
<1>4. ASSUME NEW c \in Conns \cup {NoConn}, group' = group,
             member' = [member EXCEPT ![c] = NoGroup], listed' = listed \ {c},
             Sent("removed", c, view)
      PROVE  /\ GroupsArrive(events', view, group')
             /\ \A d \in Conns : ConnArrives(events', view, d, member', listed')
  <2>1. PICK e : e = [type |-> "removed", conn |-> c, view |-> view]
    OBVIOUS
  <2>2. events' = Append(events, e)
    BY <1>4, <2>1 DEF Sent
  <2>3. e.type = "removed" /\ e.conn = c
    BY <2>1
  <2>4. e \in Event
    BY <2>1 DEF Event, TypeOK
  <2>5. GroupsArrive(events', view, group')
    BY <1>0, <1>4, <2>2, <2>3, <2>4, GroupsAppended
  <2>6. ASSUME NEW d \in Conns PROVE ConnArrives(events', view, d, member', listed')
    <3>1. CASE d = c
      <4>1. Tells(e, d) /\ Says(e, d, member', listed')
        BY <1>0, <1>4, <2>3, <3>1 DEF Tells, Says
      <4> QED BY <1>0, <2>2, <2>4, <4>1, ConnAppended
    <3>2. CASE d # c
      <4>1. ~ Tells(e, d) /\ member'[d] = member[d] /\ (d \in listed' <=> d \in listed)
        BY <1>0, <1>4, <2>3, <3>2 DEF Tells
      <4> QED BY <1>0, <2>2, <2>4, <4>1, ConnAppended
    <3> QED BY <3>1, <3>2
  <2> QED BY <2>5, <2>6
<1> QED BY <1>1, <1>2, <1>3, <1>4 DEF Told

LEMMA UiArrives ==
  ASSUME TypeOK, UiGroups \/ UiConnected \/ UiRemoved, mishaps = 0, Arriving
  PROVE  Arriving'
<1>0. /\ events \in Seq(Event) /\ events # <<>> /\ events' = Tail(events)
      /\ UNCHANGED <<group, member, listed, mishaps>>
      /\ GroupsArrive(events, view, group)
      /\ \A c \in Conns : ConnArrives(events, view, c, member, listed)
      /\ view \in View
  BY DEF UiGroups, UiConnected, UiRemoved, UiTake, UiUnchanged, TypeOK, Arriving, tables, counters
<1>1. view.group \in [GroupIds -> Row] /\ view.member \in [Conns -> GroupIds \cup {NoGroup}]
  BY <1>0 DEF View
<1>2. Head(events).type \in {"groups", "connected", "removed"}
  <2>1. Head(events) \in Event
    BY <1>0
  <2> QED BY <2>1 DEF Event
<1>3. /\ view'.group = IF Head(events).type = "groups" THEN Head(events).view.group ELSE view.group
      /\ \A c \in Conns :
            IF Tells(Head(events), c) THEN Says(Head(events), c, view'.member, view'.listed)
            ELSE view'.member[c] = view.member[c] /\ (c \in view'.listed <=> c \in view.listed)
  <2>1. CASE UiGroups
    BY <2>1 DEF UiGroups, UiTake, Tells, Says
  <2>2. CASE UiConnected
    <3>1. /\ Head(events).type = "connected" /\ view'.group = view.group
          /\ view'.member = Head(events).view.member /\ view'.listed = Head(events).view.listed
      BY <2>2 DEF UiConnected, UiTake, ViewOf
    <3> QED BY <3>1 DEF Tells, Says
  <2>3. CASE UiRemoved
    <3>1. /\ Head(events).type = "removed" /\ view'.group = view.group
          /\ view'.member = [view.member EXCEPT ![Head(events).conn] = NoGroup]
          /\ view'.listed = view.listed \ {Head(events).conn}
      BY <2>3 DEF UiRemoved, UiTake, ViewOf
    <3> QED BY <1>1, <3>1 DEF Tells, Says
  <2> QED BY <2>1, <2>2, <2>3
<1>4. GroupsArrive(events', view', group)
  BY <1>0, <1>3, GroupsTaken
<1>5. \A c \in Conns : ConnArrives(events', view', c, member, listed)
  BY <1>0, <1>3, ConnTaken
<1> QED BY <1>0, <1>4, <1>5 DEF Arriving

LEMMA ArrivesAtInit == Init => Arriving
<1> SUFFICES ASSUME Init PROVE Arriving
  OBVIOUS
<1>1. events = <<>> /\ view = ViewOf(group, member, listed)
  BY Zenon DEF Init
<1>2. DOMAIN events = {} /\ view.group = group /\ view.member = member /\ view.listed = listed
  BY <1>1 DEF ViewOf
<1> QED BY <1>2 DEF Arriving, GroupsArrive, ConnArrives

LEMMA StepArrives ==
  ASSUME TypeOK, TypeOK', [Next]_vars, Arriving
  PROVE  Arriving'
<1> SUFFICES ASSUME mishaps' = 0 PROVE Arriving'
  BY DEF Arriving
<1>0. mishaps \in Nat
  BY DEF TypeOK
<1>1. CASE Controller
  <2>1. mishaps = 0
    <3>1. mishaps' = mishaps \/ mishaps' = mishaps + 1
      BY <1>1 DEF Controller, HandleCreateGroup, HandleRenameGroup, HandleSetGroupColor,
         HandleMoveConnectionToGroup, HandleDeleteGroup, HandleUndoGroupAction,
         HandleRedoGroupAction, HandleConnect, HandleRemoveConnection, Done, DeleteBadly, Execute,
         ExecuteBadly, StorageWorks, StorageFails
    <3> QED BY <1>0, <3>1
  <2> QED BY <1>1, <2>1, HandlerTold, ToldArrives
<1>2. CASE UiGroups \/ UiConnected \/ UiRemoved
  <2>1. mishaps' = mishaps
    BY <1>2 DEF UiGroups, UiConnected, UiRemoved, UiUnchanged, counters
  <2> QED BY <1>2, <2>1, UiArrives
<1>3. CASE UserSends \/ UNCHANGED vars
  <2>1. UNCHANGED <<group, member, listed, events, view, mishaps>>
    BY <1>3 DEF UserSends, vars, tables, counters
  <2> QED BY <2>1 DEF Arriving
<1>4. CASE Restart
  BY <1>0, <1>4 DEF Restart
<1> QED BY <1>1, <1>2, <1>3, <1>4 DEF Next

-----------------------------------------------------------------------------
(* Theorems.                                                               *)

(* The strengthened invariant holds always.                                *)
THEOREM Inductive == Spec => []IInv
<1>1. IInv /\ [Next]_vars => IInv'
  BY StepGood DEF Good
<1> QED BY <1>1, AtInit, PTL DEF Spec

(* Every table, list, entry and message has its type.                      *)
THEOREM TypeCorrect == Spec => []TypeOK
<1> QED BY Inductive, Typed, PTL

(* The two sides of GroupUndoStack never hold more than ACTION_UNDO_MAX    *)
(* entries together, whatever is done, undone and redone, so that a redo   *)
(* can always be undone again.                                             *)
THEOREM Bounded == Spec => []StackBounded
<1>1. IInv => StackBounded
  BY DEF IInv, Core, Stack, StackBounded
<1> QED BY <1>1, Inductive, PTL

(* As long as storage works, the sidebar ends with exactly what the tables *)
(* hold, however group commands, connects and removals interleave with the *)
(* events that report them, which are lists read at different moments.     *)
THEOREM SidebarCatchesUp == Spec => []SidebarFresh
<1>1. TypeOK /\ TypeOK' /\ Arriving /\ [Next]_vars => Arriving'
  BY StepArrives
<1>2. Spec => []Arriving
  BY <1>1, ArrivesAtInit, TypeCorrect, PTL DEF Spec
<1>3. TypeOK /\ Arriving => SidebarFresh
  <2> SUFFICES ASSUME TypeOK, Arriving, events = <<>>, mishaps = 0
               PROVE  view = ViewOf(group, member, listed)
    BY DEF SidebarFresh
  <2>1. DOMAIN events = {}
    OBVIOUS
  <2>2. view.group = group /\ \A c \in Conns : /\ view.member[c] = member[c]
                                               /\ c \in view.listed <=> c \in listed
    BY <2>1 DEF Arriving, GroupsArrive, ConnArrives
  <2>3. /\ view \in View /\ member \in [Conns -> GroupIds \cup {NoGroup}] /\ listed \subseteq Conns
    BY DEF TypeOK
  <2>4. /\ view.member \in [Conns -> GroupIds \cup {NoGroup}] /\ view.listed \in SUBSET Conns
        /\ view = [group |-> view.group, member |-> view.member, listed |-> view.listed]
    BY <2>3 DEF View
  <2>5. view.listed = listed
    BY <2>2, <2>3, <2>4
  <2>6. view.member = member
    BY <2>2, <2>3, <2>4
  <2> QED BY <2>2, <2>4, <2>5, <2>6 DEF ViewOf
<1> QED BY <1>2, <1>3, TypeCorrect, PTL

(* UndoGroupAction and RedoGroupAction bring back exactly the tables of    *)
(* groups and members they left, for any number of groups, connections and *)
(* steps, until something else changes them: the promise of UndoHistory.   *)
THEOREM UndoKept == Spec => UndoExact
<1>1. IInv /\ [Next]_vars => [History!Next]_(History!line)
  BY StepGood DEF Good
<1> QED BY <1>1, AtInit, Inductive, PTL DEF Spec, UndoExact, History!Spec
=============================================================================
