-------------------------- MODULE EditorTextProofs --------------------------
(***************************************************************************)
(* What is proved of the text of the editor and of what changes it beside  *)
(* the keys: the find and replace bar (module FindBar), whose matches and  *)
(* replacements are recursions over the text, and the completion popup     *)
(* (module Completion), which reads the text again at each step.           *)
(***************************************************************************)
EXTENDS FindBar, Completion, ListFacts

(***************************************************************************)
(* What ComputeMatches computes: the walk over the text that its recursion *)
(* is, and that every entry is a match of the query.                       *)
(***************************************************************************)

Match(t, q) == {m \in [at : 1 .. Len(t), len : {Len(q)}] : MatchesAt(t, q, m.at)}

MatchesFrom(f, t, q) ==
    \A i \in 1 .. Len(t) + Len(q) :
        f[i] = IF i > Len(t) THEN <<>>
               ELSE IF MatchesAt(t, q, i) THEN <<[at |-> i, len |-> Len(q)]>> \o f[i + Len(q)]
               ELSE f[i + 1]

(* The matches are what the walk over the text says from its first letter. *)
LEMMA MatchesWalk ==
    ASSUME NEW C, NEW t \in Seq(C), NEW q \in Seq(C), q # <<>>
    PROVE  \E f \in [1 .. Len(t) + Len(q) -> Seq(Match(t, q))] :
               ComputeMatches(t, q) = f[1] /\ MatchesFrom(f, t, q)
<1> DEFINE n == Len(t)
           z == Len(q)
           m == n + z
           D == 1 .. n + z
           Here(i) == [at |-> i, len |-> z]
           head == [i \in 1 .. n |-> IF MatchesAt(t, q, i) THEN <<Here(i)>> ELSE <<>>]
           next == [i \in 1 .. n |-> IF MatchesAt(t, q, i) THEN i + z ELSE i + 1]
           From(h) == [i \in D |-> IF i > n THEN <<>>
                                   ELSE IF MatchesAt(t, q, i) THEN <<Here(i)>> \o h[i + z]
                                   ELSE h[i + 1]]
<1>1. n \in Nat /\ z \in Nat \ {0} /\ m \in Nat /\ n <= m
  OBVIOUS
<1>2. ASSUME NEW i \in 1 .. n
      PROVE  head[i] \in Seq(Match(t, q)) /\ next[i] \in i + 1 .. m
  <2>1. next[i] \in i + 1 .. m
    BY <1>1
  <2>2. MatchesAt(t, q, i) => Here(i) \in Match(t, q)
    BY DEF Match
  <2>3. head[i] \in Seq(Match(t, q))
    <3> HIDE DEF Here
    <3> QED BY <2>2
  <2> QED
    BY <2>1, <2>3
<1>3. PICK g \in [1 .. m -> Seq(Match(t, q))] :
          \A i \in 1 .. m : g[i] = IF i > n THEN <<>> ELSE head[i] \o g[next[i]]
  <2>1. Walkable(head, next, n, m, Match(t, q))
    BY <1>1, <1>2 DEF Walkable
  <2>2. PICK g : Walks(g, head, next, n, m, Match(t, q))
    <3> HIDE DEF n, m, head, next
    <3> QED BY <2>1, Walk
  <2> QED
    BY <2>2 DEF Walks
<1>a. /\ \A i \in 1 .. n : g[i] = head[i] \o g[next[i]]
      /\ \A i \in 1 .. m : i > n => g[i] = <<>>
      /\ \A i \in 1 .. m : g[i] \in Seq(Match(t, q))
  <2> HIDE DEF n, m, head, next
  <2>1. \A i \in 1 .. n : i \in 1 .. m /\ ~ (i > n)
    BY <1>1
  <2> QED BY <1>3, <2>1, Zenon
<1>4. MatchesFrom(g, t, q)
  <2> SUFFICES ASSUME NEW i \in D
               PROVE  g[i] = IF i > n THEN <<>>
                             ELSE IF MatchesAt(t, q, i) THEN <<Here(i)>> \o g[i + z]
                             ELSE g[i + 1]
    BY DEF MatchesFrom
  <2>1. CASE i > n
    BY <1>a, <2>1
  <2>2. CASE i \in 1 .. n /\ MatchesAt(t, q, i)
    <3>1. head[i] = <<Here(i)>> /\ next[i] = i + z
      BY <2>2
    <3>2. g[i] = head[i] \o g[next[i]]
      BY <1>a, <2>2
    <3>3. ~ (i > n)
      BY <2>2
    <3> HIDE DEF head, next, Here
    <3> QED
      BY ONLY <2>2, <3>1, <3>2, <3>3
  <2>3. CASE i \in 1 .. n /\ ~ MatchesAt(t, q, i)
    <3>1. head[i] = <<>> /\ next[i] = i + 1 /\ i + 1 \in 1 .. m
      BY <1>1, <2>3
    <3>2. g[i] = head[i] \o g[next[i]] /\ g[i + 1] \in Seq(Match(t, q))
      BY <1>a, <2>3, <3>1
    <3>3. <<>> \o g[i + 1] = g[i + 1]
      BY <3>2, ConcatEmptySeq
    <3> QED
      BY <2>3, <3>1, <3>2, <3>3
  <2> QED
    BY <1>1, <2>1, <2>2, <2>3
<1>5. g = From(g)
  BY <1>3, <1>4 DEF MatchesFrom
<1> DEFINE from == CHOOSE h : h = From(h)
<1>6. from = From(from)
  <2> HIDE DEF From
  <2> QED BY <1>5
<1>7. ComputeMatches(t, q) = from[1]
  BY DEF ComputeMatches
<1>8. \A i \in 1 .. m : (\A j \in i + 1 .. m : from[j] = g[j]) => from[i] = g[i]
  <2> SUFFICES ASSUME NEW i \in 1 .. m, \A j \in i + 1 .. m : from[j] = g[j]
               PROVE  from[i] = g[i]
    OBVIOUS
  <2>1. from[i] = From(from)[i] /\ g[i] = From(g)[i]
    BY <1>5, <1>6
  <2>2. i <= n => i + 1 \in i + 1 .. m /\ i + z \in i + 1 .. m
    BY <1>1
  <2> HIDE DEF from
  <2> QED
    BY <2>1, <2>2
<1>9. \A i \in 1 .. m : from[i] = g[i]
  <2> HIDE DEF from, m
  <2>1. Determined(from, g, m)
    BY <1>1, <1>8 DEF Determined
  <2>2. SameUpTo(from, g, m)
    BY <2>1, Agree
  <2> QED
    BY <2>2 DEF SameUpTo
<1>10. 1 \in 1 .. m
  BY <1>1
<1> HIDE DEF from
<1> QED
  BY <1>3, <1>4, <1>7, <1>9, <1>10

(* The first match of the bar, and every other, is a match.                *)
LEMMA MatchesAreMatches ==
    ASSUME NEW C, NEW t \in Seq(C), NEW q \in Seq(C), q # <<>>
    PROVE  /\ ComputeMatches(t, q) \in Seq(Match(t, q))
           /\ \A m \in Match(t, q) : /\ m.at \in 1 .. Len(t) /\ m.len = Len(q)
                                     /\ m = [at |-> m.at, len |-> Len(q)]
                                     /\ MatchesAt(t, q, m.at)
<1>1. PICK f \in [1 .. Len(t) + Len(q) -> Seq(Match(t, q))] :
          ComputeMatches(t, q) = f[1] /\ MatchesFrom(f, t, q)
  BY MatchesWalk
<1>2. 1 \in 1 .. Len(t) + Len(q)
  OBVIOUS
<1>3. \A m \in Match(t, q) : m = [at |-> m.at, len |-> Len(q)]
  BY DEF Match
<1> QED
  BY <1>1, <1>2, <1>3 DEF Match

(***************************************************************************)
(* What the replacement of all matches means.                              *)
(***************************************************************************)

SubstitutedFrom(f, t, q, by) ==
    \A i \in 1 .. Len(t) + Len(q) :
        f[i] = IF i > Len(t) THEN <<>>
               ELSE IF MatchesAt(t, q, i) THEN by \o f[i + Len(q)]
               ELSE <<t[i]>> \o f[i + 1]

(* So is the text with every match substituted.                            *)
LEMMA SubstitutedWalk ==
    ASSUME NEW C, NEW t \in Seq(C), NEW q \in Seq(C), q # <<>>, NEW by \in Seq(C)
    PROVE  \E f \in [1 .. Len(t) + Len(q) -> Seq(C)] :
               Substituted(t, q, by) = f[1] /\ SubstitutedFrom(f, t, q, by)
<1> DEFINE n == Len(t)
           z == Len(q)
           m == n + z
           D == 1 .. n + z
           head == [i \in 1 .. n |-> IF MatchesAt(t, q, i) THEN by ELSE <<t[i]>>]
           next == [i \in 1 .. n |-> IF MatchesAt(t, q, i) THEN i + z ELSE i + 1]
           From(h) == [i \in D |-> IF i > n THEN <<>>
                                   ELSE IF MatchesAt(t, q, i) THEN by \o h[i + z]
                                   ELSE <<t[i]>> \o h[i + 1]]
<1>1. n \in Nat /\ z \in Nat \ {0} /\ m \in Nat /\ n <= m
  OBVIOUS
<1>2. Walkable(head, next, n, m, C)
  <2>1. \A i \in 1 .. n : head[i] \in Seq(C) /\ next[i] \in i + 1 .. m
    BY <1>1
  <2> QED
    BY <1>1, <2>1 DEF Walkable
<1>3. PICK g : Walks(g, head, next, n, m, C)
  <2> HIDE DEF n, m, head, next
  <2> QED BY <1>2, Walk
<1>4. SubstitutedFrom(g, t, q, by)
  <2> SUFFICES ASSUME NEW i \in D
               PROVE  g[i] = IF i > n THEN <<>>
                             ELSE IF MatchesAt(t, q, i) THEN by \o g[i + z]
                             ELSE <<t[i]>> \o g[i + 1]
    BY DEF SubstitutedFrom
  <2>1. g[i] = IF i > n THEN <<>> ELSE head[i] \o g[next[i]]
    <3> HIDE DEF n, head, next
    <3> QED BY <1>3 DEF Walks
  <2>2. ~ (i > n) => i \in 1 .. n
    BY <1>1
  <2> QED
    BY <2>1, <2>2
<1>5. g = From(g)
  BY <1>3, <1>4 DEF SubstitutedFrom, Walks
<1> DEFINE from == CHOOSE h : h = From(h)
<1>6. from = From(from)
  <2> HIDE DEF From
  <2> QED BY <1>5
<1>7. Substituted(t, q, by) = from[1]
  BY DEF Substituted
<1>8. \A i \in 1 .. m : (\A j \in i + 1 .. m : from[j] = g[j]) => from[i] = g[i]
  <2> SUFFICES ASSUME NEW i \in 1 .. m, \A j \in i + 1 .. m : from[j] = g[j]
               PROVE  from[i] = g[i]
    OBVIOUS
  <2>1. from[i] = From(from)[i] /\ g[i] = From(g)[i]
    BY <1>5, <1>6
  <2>2. i <= n => i + 1 \in i + 1 .. m /\ i + z \in i + 1 .. m
    BY <1>1
  <2> HIDE DEF from
  <2> QED
    BY <2>1, <2>2
<1>9. \A i \in 1 .. m : from[i] = g[i]
  <2> HIDE DEF from, m
  <2>1. Determined(from, g, m)
    BY <1>1, <1>8 DEF Determined
  <2>2. SameUpTo(from, g, m)
    BY <2>1, Agree
  <2> QED
    BY <2>2 DEF SameUpTo
<1>10. 1 \in 1 .. m
  BY <1>1
<1> HIDE DEF from
<1> QED
  BY <1>3, <1>4, <1>7, <1>9, <1>10 DEF Walks

(* f[k] is the text once the last k matches are replaced.                  *)
IsUpto(f, t, ms, by) ==
    f = [k \in 0 .. Len(ms) |-> IF k = 0 THEN t ELSE Splice(f[k - 1], ms[Len(ms) - k + 1], by)]

(* The texts between two replacements exist, the last one is the result.   *)
LEMMA UptoExists ==
    ASSUME NEW M, NEW ms \in Seq(M), NEW t, NEW by
    PROVE  \E f : IsUpto(f, t, ms, by) /\ ReplaceMatches(t, ms, by) = f[Len(ms)]
<1> DEFINE n == Len(ms)
           e(g, k) == IF k = 0 THEN t ELSE Splice(g[k - 1], ms[n - k + 1], by)
           Solves(g, k) == g = [i \in 0 .. k |-> e(g, i)]
           P == {k \in 0 .. n : \E g : Solves(g, k)}
<1>0. n \in Nat
  OBVIOUS
<1>1. 0 \in P
  <2> DEFINE g == [i \in 0 .. 0 |-> t]
  <2>1. \A i \in 0 .. 0 : e(g, i) = t
    OBVIOUS
  <2>2. Solves(g, 0)
    <3> HIDE DEF e
    <3> QED BY <2>1
  <2>3. 0 \in 0 .. n
    BY <1>0
  <2> HIDE DEF Solves, g
  <2> QED
    BY <2>2, <2>3
<1>2. ASSUME NEW k \in 0 .. n - 1, k \in P
      PROVE  k + 1 \in P
  <2>1. PICK g : Solves(g, k)
    <3> HIDE DEF Solves
    <3> QED BY <1>2
  <2> DEFINE h == [i \in 0 .. k + 1 |-> IF i = k + 1 THEN e(g, k + 1) ELSE g[i]]
  <2>2. \A i \in 0 .. k : h[i] = g[i]
    <3> HIDE DEF e
    <3> QED BY <1>0
  <2>3. \A i \in 0 .. k + 1 : e(h, i) = e(g, i)
    <3> SUFFICES ASSUME NEW i \in 0 .. k + 1 PROVE e(h, i) = e(g, i)
      OBVIOUS
    <3>1. i # 0 => i - 1 \in 0 .. k
      BY <1>0
    <3>2. i # 0 => h[i - 1] = g[i - 1]
      BY <2>2, <3>1
    <3> HIDE DEF h
    <3> QED
      BY <3>2
  <2>4. \A i \in 0 .. k : g[i] = e(g, i)
    <3> HIDE DEF e
    <3> QED BY <2>1
  <2>5. \A i \in 0 .. k + 1 : h[i] = e(g, i)
    <3> HIDE DEF e
    <3> QED BY <2>4, <1>0
  <2>6. Solves(h, k + 1)
    <3> HIDE DEF e
    <3> QED BY <2>3, <2>5
  <2>7. k + 1 \in 0 .. n
    BY <1>0
  <2> HIDE DEF Solves, h
  <2> QED
    BY <2>6, <2>7
<1>3. PICK g : Solves(g, n)
  <2> HIDE DEF Solves
  <2>1. \A k \in 0 .. n : k \in P
    <3> HIDE DEF P
    <3> QED BY <1>0, <1>1, <1>2, Upward
  <2>2. n \in P
    BY <1>0, <2>1
  <2> QED BY <2>2
<1> DEFINE f == CHOOSE h : Solves(h, n)
<1>4. Solves(f, n)
  <2> HIDE DEF Solves
  <2> QED BY <1>3
<1>5. ReplaceMatches(t, ms, by) = f[n]
  BY DEF ReplaceMatches
<1>6. IsUpto(f, t, ms, by)
  <2> HIDE DEF f
  <2> QED BY <1>4 DEF IsUpto
<1> HIDE DEF f
<1> QED
  BY <1>5, <1>6

(* Without a match the text stays.                                         *)
LEMMA ReplaceNone ==
    ASSUME NEW t, NEW by
    PROVE  ReplaceMatches(t, <<>>, by) = t
<1>1. <<>> \in Seq({}) /\ Len(<<>>) = 0
  OBVIOUS
<1>2. PICK f : IsUpto(f, t, <<>>, by) /\ ReplaceMatches(t, <<>>, by) = f[Len(<<>>)]
  BY <1>1, UptoExists
<1> QED
  BY <1>1, <1>2 DEF IsUpto

(* The first match is replaced last.                                       *)
LEMMA ReplaceFirst ==
    ASSUME NEW M, NEW m \in M, NEW ms \in Seq(M), NEW t, NEW by
    PROVE  ReplaceMatches(t, <<m>> \o ms, by) = Splice(ReplaceMatches(t, ms, by), m, by)
<1> DEFINE all == <<m>> \o ms
           n == Len(ms)
<1>1. /\ all \in Seq(M) /\ Len(all) = n + 1 /\ n \in Nat /\ all[1] = m
      /\ \A k \in 1 .. n : all[n + 1 - k + 1] = ms[n - k + 1]
  OBVIOUS
<1> HIDE DEF all
<1>2. PICK f : IsUpto(f, t, ms, by) /\ ReplaceMatches(t, ms, by) = f[n]
  BY UptoExists
<1>3. PICK g : IsUpto(g, t, all, by) /\ ReplaceMatches(t, all, by) = g[n + 1]
  BY <1>1, UptoExists
<1> DEFINE P == {k \in 0 .. n : g[k] = f[k]}
<1>4. 0 \in P
  BY <1>1, <1>2, <1>3 DEF IsUpto
<1>5. ASSUME NEW k \in 0 .. n - 1, k \in P
      PROVE  k + 1 \in P
  <2>1. k + 1 \in 1 .. n /\ k + 1 \in 0 .. n /\ k + 1 \in 0 .. n + 1 /\ k + 1 - 1 = k
    BY <1>1
  <2>2. f[k + 1] = Splice(f[k], ms[n - (k + 1) + 1], by)
    BY <1>2, <2>1 DEF IsUpto
  <2>3. g[k + 1] = Splice(g[k], all[n + 1 - (k + 1) + 1], by)
    BY <1>1, <1>3, <2>1 DEF IsUpto
  <2>4. all[n + 1 - (k + 1) + 1] = ms[n - (k + 1) + 1] /\ g[k] = f[k]
    BY <1>1, <1>5, <2>1
  <2> QED
    BY <2>1, <2>2, <2>3, <2>4
<1>6. g[n] = f[n]
  <2>1. \A k \in 0 .. n : k \in P
    <3> HIDE DEF P
    <3> QED BY <1>1, <1>4, <1>5, Upward
  <2> QED
    BY <1>1, <2>1
<1>7. g[n + 1] = Splice(g[n], all[n + 1 - (n + 1) + 1], by)
  <2>1. n + 1 \in 0 .. n + 1 /\ n + 1 # 0 /\ n + 1 - 1 = n
    BY <1>1
  <2> QED
    BY <1>1, <1>3, <2>1 DEF IsUpto
<1>8. n + 1 - (n + 1) + 1 = 1
  BY <1>1
<1> QED
  BY <1>1, <1>2, <1>3, <1>6, <1>7, <1>8 DEF all

(* What two cuts find in p followed by r.                                  *)
LEMMA CutConcat ==
    ASSUME NEW C, NEW p \in Seq(C), NEW r \in Seq(C), NEW k \in 0 .. Len(p)
    PROVE  /\ SubSeq(p \o r, 1, k) = SubSeq(p, 1, k)
           /\ SubSeq(p \o r, Len(p) + 1, Len(p \o r)) = r
<1> DEFINE u == p \o r
<1>1. /\ u \in Seq(C) /\ Len(u) = Len(p) + Len(r)
      /\ \A i \in 1 .. Len(p) : u[i] = p[i]
      /\ \A i \in 1 .. Len(r) : u[Len(p) + i] = r[i]
      /\ Len(p) \in Nat /\ Len(r) \in Nat
  <2>1. /\ u \in Seq(C) /\ Len(u) = Len(p) + Len(r)
        /\ \A i \in 1 .. Len(p) + Len(r) : u[i] = IF i <= Len(p) THEN p[i] ELSE r[i - Len(p)]
    BY ConcatProperties
  <2> HIDE DEF u
  <2>2. \A i \in 1 .. Len(r) : /\ Len(p) + i \in 1 .. Len(p) + Len(r)
                               /\ ~ (Len(p) + i <= Len(p)) /\ Len(p) + i - Len(p) = i
    OBVIOUS
  <2>3. \A i \in 1 .. Len(p) : i \in 1 .. Len(p) + Len(r) /\ i <= Len(p)
    OBVIOUS
  <2> QED
    BY <2>1, <2>2, <2>3
<1> HIDE DEF u
<1>2. SubSeq(u, 1, k) = SubSeq(p, 1, k)
  <2>1. \A i \in 1 .. k : u[i] \in C /\ p[i] \in C /\ u[i] = p[i]
    BY <1>1
  <2> DEFINE a == SubSeq(u, 1, k)
             b == SubSeq(p, 1, k)
  <2>2. /\ a \in Seq(C) /\ Len(a) = k /\ \A i \in 1 .. k : a[i] = u[i]
        /\ b \in Seq(C) /\ Len(b) = k /\ \A i \in 1 .. k : b[i] = p[i]
    BY <1>1, <2>1, SubSeqProperties
  <2> HIDE DEF a, b
  <2>3. a = b
    BY <2>1, <2>2, SeqEqual
  <2> QED
    BY <2>3 DEF a, b
<1>3. SubSeq(u, Len(p) + 1, Len(u)) = r
  <2> DEFINE a == SubSeq(u, Len(p) + 1, Len(u))
  <2>1. \A i \in Len(p) + 1 .. Len(u) : u[i] \in C
    BY <1>1
  <2>2. /\ a \in Seq(C) /\ Len(a) = Len(r)
        /\ \A i \in 1 .. Len(r) : a[i] = u[Len(p) + i]
    BY <1>1, <2>1, SubSeqProperties
  <2> HIDE DEF a
  <2>3. a = r
    BY <1>1, <2>2, SeqEqual
  <2> QED
    BY <2>3 DEF a
<1> QED
  BY <1>2, <1>3 DEF u

(* a is what is before the match m at i, and p what is before j, its end.  *)
Around(t, i, j, m, a, p) ==
    /\ i \in 1 .. Len(t) /\ j \in i + 1 .. Len(t) + 1
    /\ m.at = i /\ m.len = j - i
    /\ a = SubSeq(t, 1, i - 1) /\ p = SubSeq(t, 1, j - 1)

Spliced(p, r, m, by, a) == Splice(p \o r, m, by) = a \o (by \o r)

(* What is cut out of a text that is done behind the match: the text before *)
(* the match, the replacement, and what is done.                           *)
LEMMA SpliceBefore ==
    ASSUME NEW C, NEW t \in Seq(C), NEW by \in Seq(C), NEW r \in Seq(C),
           NEW i, NEW j, NEW m, NEW a, NEW p, Around(t, i, j, m, a, p)
    PROVE  Spliced(p, r, m, by, a)
<1>1. PICK n : n = Len(t) /\ n \in Nat
  OBVIOUS
<1>2. p = SubSeq(t, 1, j - 1)
  BY DEF Around
<1>3. PICK b : b = SubSeq(t, j, n)
  OBVIOUS
<1>4. a = SubSeq(t, 1, i - 1)
  BY DEF Around
<1>5. \A x \in 1 .. n : t[x] \in C
  BY <1>1
<1>6. /\ i \in 1 .. n /\ j \in i + 1 .. n + 1 /\ j - 1 \in 0 .. n /\ i - 1 \in 0 .. n
      /\ i - 1 \in 0 .. j - 1 /\ n \in j - 1 .. n /\ j - 1 + 1 = j
  BY <1>1 DEF Around
<1>7. p \in Seq(C) /\ Len(p) = j - 1
  <2>1. \A x \in 1 .. j - 1 : t[x] \in C
    BY <1>5, <1>6
  <2> QED
    BY <1>2, <1>6, <2>1, SubSeqProperties
<1>8. b \in Seq(C)
  <2>1. \A x \in j .. n : t[x] \in C
    BY <1>5, <1>6
  <2> QED
    BY <1>3, <1>6, <2>1, SubSeqProperties
<1>9. a \in Seq(C)
  <2>1. \A x \in 1 .. i - 1 : t[x] \in C
    BY <1>5, <1>6
  <2> QED
    BY <1>4, <1>6, <2>1, SubSeqProperties
<1>10. t = p \o b
  <2>1. \A x \in j .. n : x \in 1 .. n
    BY <1>6
  <2>2. Len(b) = n - j + 1 /\ \A x \in 1 .. n - j + 1 : b[x] = t[j + x - 1]
    <3>1. \A x \in j .. n : t[x] \in C
      BY <1>5, <1>6
    <3> QED
      BY <1>3, <1>6, <3>1, SubSeqProperties
  <2>3. \A x \in 1 .. j - 1 : p[x] = t[x]
    <3>1. \A x \in 1 .. j - 1 : t[x] \in C
      BY <1>5, <1>6
    <3> QED
      BY <1>2, <1>6, <3>1, SubSeqProperties
  <2>4. PICK u : u = p \o b
    OBVIOUS
  <2>5. /\ u \in Seq(C) /\ Len(u) = n
        /\ \A x \in 1 .. n : u[x] = IF x <= j - 1 THEN p[x] ELSE b[x - (j - 1)]
    <3>1. PICK l : l = Len(b) /\ l = n - j + 1
      BY <2>2
    <3>2. j - 1 + l = n
      BY <1>6, <3>1
    <3>3. /\ u \in Seq(C) /\ Len(u) = Len(p) + Len(b)
          /\ \A x \in 1 .. Len(p) + Len(b) : u[x] = IF x <= Len(p) THEN p[x] ELSE b[x - Len(p)]
      BY <1>7, <1>8, <2>4, ConcatProperties
    <3>4. Len(p) + Len(b) = n
      BY <1>7, <3>1, <3>2
    <3> QED
      BY <1>7, <3>3, <3>4
  <2>6. \A x \in 1 .. n : u[x] = t[x]
    <3> SUFFICES ASSUME NEW x \in 1 .. n PROVE u[x] = t[x]
      OBVIOUS
    <3>1. CASE x <= j - 1
      <4>1. x \in 1 .. j - 1
        BY <1>6, <3>1
      <4> QED
        BY <2>3, <2>5, <3>1, <4>1
    <3>2. CASE ~ (x <= j - 1)
      <4>1. x - (j - 1) \in 1 .. n - j + 1 /\ j + (x - (j - 1)) - 1 = x
        BY <1>6, <3>2
      <4> QED
        BY <2>2, <2>5, <3>2, <4>1
    <3> QED
      BY <3>1, <3>2
  <2> QED
    BY <1>1, <2>4, <2>5, <2>6, SeqEqual
<1>11. SubSeq(p, 1, i - 1) = a
  <2>1. i - 1 \in 0 .. Len(p)
    BY <1>6, <1>7
  <2>2. SubSeq(p \o b, 1, i - 1) = SubSeq(p, 1, i - 1)
    BY <1>7, <1>8, <2>1, CutConcat
  <2> QED
    BY <1>4, <1>10, <2>2
<1>12. PICK u : u = p \o r
  OBVIOUS
<1>13. SubSeq(u, 1, i - 1) = a /\ SubSeq(u, j, Len(u)) = r
  <2>1. i - 1 \in 0 .. Len(p) /\ Len(p) + 1 = j
    BY <1>6, <1>7
  <2>2. /\ SubSeq(p \o r, 1, i - 1) = SubSeq(p, 1, i - 1)
        /\ SubSeq(p \o r, Len(p) + 1, Len(p \o r)) = r
    BY <1>7, <2>1, CutConcat
  <2> QED
    BY <1>11, <1>12, <2>1, <2>2
<1>14. Splice(u, m, by) = SubSeq(u, 1, i - 1) \o by \o SubSeq(u, i + (j - i), Len(u))
  BY DEF Splice, Around
<1>15. i + (j - i) = j
  BY <1>6
<1>16. (a \o by) \o r = a \o (by \o r)
  <2>1. Associates(a, by, r)
    BY ONLY <1>9, by \in Seq(C), r \in Seq(C), Regroup
  <2> QED
    BY ONLY <2>1 DEF Associates
<1> QED
  BY <1>2, <1>4, <1>12, <1>13, <1>14, <1>15, <1>16 DEF Spliced

(* Behind j, the text is done: what the walk says comes after the text.    *)
DoneAt(t, by, f, g, j) == ReplaceMatches(t, f[j], by) = SubSeq(t, 1, j - 1) \o g[j]
DoneFrom(t, by, f, g) == {i \in 1 .. Len(t) + 1 : \A j \in i .. Len(t) + 1 : DoneAt(t, by, f, g, j)}

(* Replacing the matches one by one, the last one first, is replacing them *)
(* all at once: what is before a match is still the text, what is after it *)
(* is done already.                                                        *)
THEOREM ReplaceAllSubstitutes ==
    ASSUME NEW C, NEW t \in Seq(C), NEW q \in Seq(C), q # <<>>, NEW by \in Seq(C)
    PROVE  ReplaceMatches(t, ComputeMatches(t, q), by) = Substituted(t, q, by)
<1>1. PICK n : n = Len(t) /\ n \in Nat
  OBVIOUS
<1>z. PICK z : z = Len(q) /\ z \in Nat \ {0}
  OBVIOUS
<1>2. PICK f \in [1 .. n + z -> Seq(Match(t, q))] :
          ComputeMatches(t, q) = f[1] /\ MatchesFrom(f, t, q)
  BY <1>1, <1>z, MatchesWalk
<1>3. PICK g \in [1 .. n + z -> Seq(C)] :
          Substituted(t, q, by) = g[1] /\ SubstitutedFrom(g, t, q, by)
  BY <1>1, <1>z, SubstitutedWalk
<1>4. PICK P : P = DoneFrom(t, by, f, g)
  OBVIOUS
<1>a. /\ P \subseteq 1 .. n + 1
      /\ \A i \in P : \A j \in i .. n + 1 : DoneAt(t, by, f, g, j)
  BY <1>1, <1>4 DEF DoneFrom
<1>b. ASSUME NEW i \in 1 .. n + 1,
             \A j \in i + 1 .. n + 1 : DoneAt(t, by, f, g, j),
             DoneAt(t, by, f, g, i)
      PROVE  i \in P
  <2>1. \A j \in i .. n + 1 : j = i \/ j \in i + 1 .. n + 1
    BY <1>1
  <2>2. \A j \in i .. n + 1 : DoneAt(t, by, f, g, j)
    BY <1>b, <2>1
  <2> QED
    BY <1>1, <1>4, <2>2 DEF DoneFrom
<1>5. n + 1 \in P
  <2>1. PICK e : e = n + 1 /\ e \in Nat
    BY <1>1
  <2>2. e \in 1 .. n + z /\ e > n /\ e \in 1 .. n + 1 /\ e - 1 = n /\ e + 1 .. n + 1 = {}
    BY <1>1, <1>z, <2>1
  <2>3. f[e] = <<>>
    BY <1>1, <1>z, <1>2, <2>2 DEF MatchesFrom
  <2>4. g[e] = <<>>
    BY <1>1, <1>z, <1>3, <2>2 DEF SubstitutedFrom
  <2>5. SubSeq(t, 1, n) = t /\ t \o <<>> = t
    BY <1>1, SubSeqFull, ConcatEmptySeq
  <2>6. DoneAt(t, by, f, g, e)
    BY <2>2, <2>3, <2>4, <2>5, ReplaceNone DEF DoneAt
  <2>7. e \in P
    BY <1>b, <2>2, <2>6
  <2> QED
    BY <2>1, <2>7
<1>6. ASSUME NEW i \in 1 .. n, i + 1 \in P
      PROVE  i \in P
  <2>1. \A j \in i + 1 .. n + 1 : DoneAt(t, by, f, g, j)
    BY <1>6, <1>a
  <2>2. t[i] \in C /\ i \in 1 .. n + z /\ ~ (i > n) /\ i \in 1 .. n + 1 /\ i + 1 \in 1 .. n + z
    BY <1>1, <1>z
  <2>3. CASE MatchesAt(t, q, i)
    <3>1. PICK j : j = i + z
      OBVIOUS
    <3>2. j \in i + 1 .. n + 1 /\ j \in 1 .. n + z /\ j - i = z
      BY <1>1, <1>z, <2>3, <3>1 DEF MatchesAt
    <3>3. PICK m : m = [at |-> i, len |-> z]
      OBVIOUS
    <3>4. f[i] = <<m>> \o f[j]
      BY <1>1, <1>z, <1>2, <2>2, <2>3, <3>1, <3>3 DEF MatchesFrom
    <3>5. g[i] = by \o g[j]
      BY <1>1, <1>z, <1>3, <2>2, <2>3, <3>1 DEF SubstitutedFrom
    <3>6. m \in Match(t, q) /\ f[j] \in Seq(Match(t, q)) /\ g[j] \in Seq(C)
      BY <1>1, <1>z, <1>2, <1>3, <2>3, <3>2, <3>3 DEF Match
    <3>7. ReplaceMatches(t, f[i], by) = Splice(ReplaceMatches(t, f[j], by), m, by)
      BY <3>4, <3>6, ReplaceFirst
    <3>8. DoneAt(t, by, f, g, j)
      BY <2>1, <3>2
    <3>9. Splice(SubSeq(t, 1, j - 1) \o g[j], m, by) = SubSeq(t, 1, i - 1) \o (by \o g[j])
      <4>1. PICK p, a : p = SubSeq(t, 1, j - 1) /\ a = SubSeq(t, 1, i - 1)
        OBVIOUS
      <4>2. Around(t, i, j, m, a, p)
        BY <1>1, <3>2, <3>3, <4>1 DEF Around
      <4>3. ASSUME NEW r \in Seq(C)
            PROVE  Splice(p \o r, m, by) = a \o (by \o r)
        <5>1. Spliced(p, r, m, by, a)
          BY <4>2, SpliceBefore
        <5> QED
          BY <5>1 DEF Spliced
      <4> QED
        BY <3>6, <4>1, <4>3
    <3>10. DoneAt(t, by, f, g, i)
      BY <3>2, <3>3, <3>5, <3>7, <3>8, <3>9 DEF DoneAt
    <3> QED
      BY <1>b, <2>1, <2>2, <3>10
  <2>4. CASE ~ MatchesAt(t, q, i)
    <3>0. PICK k : k = i + 1 /\ k \in i + 1 .. n + 1 /\ k - 1 = i /\ k \in 1 .. n + z
      BY <1>1, <1>z
    <3>1. f[i] = f[k]
      BY <1>1, <1>z, <1>2, <2>2, <2>4, <3>0 DEF MatchesFrom
    <3>2. g[i] = <<t[i]>> \o g[k]
      BY <1>1, <1>z, <1>3, <2>2, <2>4, <3>0 DEF SubstitutedFrom
    <3>4. ReplaceMatches(t, f[k], by) = SubSeq(t, 1, i) \o g[k]
      <4>1. DoneAt(t, by, f, g, k)
        BY <2>1, <3>0
      <4> QED
        BY <3>0, <4>1 DEF DoneAt
    <3>5. PICK a : a = SubSeq(t, 1, i - 1)
      OBVIOUS
    <3>6. a \in Seq(C) /\ SubSeq(t, 1, i) = a \o <<t[i]>>
      <4>1. \A x \in 1 .. i : t[x] \in C
        BY <1>1
      <4>2. \A x \in 1 .. i - 1 : t[x] \in C
        BY <4>1
      <4>3. a \in Seq(C)
        BY <3>5, <4>2, SubSeqProperties
      <4>4. SubSeq(t, 1, i) = Append(SubSeq(t, 1, i - 1), t[i])
        BY <4>1, SubSeqRecursiveSecond
      <4> QED
        BY <2>2, <3>5, <4>3, <4>4
    <3>7. <<t[i]>> \in Seq(C) /\ g[k] \in Seq(C)
      BY <1>3, <2>2, <3>0
    <3>8. (a \o <<t[i]>>) \o g[k] = a \o (<<t[i]>> \o g[k])
      <4>1. PICK c, d : c = <<t[i]>> /\ d = g[k]
        OBVIOUS
      <4>2. a \in Seq(C) /\ c \in Seq(C) /\ d \in Seq(C)
        BY <3>6, <3>7, <4>1
      <4>3. (a \o c) \o d = a \o (c \o d)
        <5>1. Associates(a, c, d)
          BY ONLY <4>2, Regroup
        <5> QED
          BY ONLY <5>1 DEF Associates
      <4> QED
        BY <4>1, <4>3
    <3>9. DoneAt(t, by, f, g, i)
      BY <3>1, <3>2, <3>4, <3>5, <3>6, <3>8 DEF DoneAt
    <3> QED
      BY <1>b, <2>1, <2>2, <3>9
  <2> QED
    BY <2>3, <2>4
<1>7. \A i \in 1 .. n + 1 : i \in P
  BY <1>1, <1>5, <1>6, Downward
<1>8. 1 \in P /\ 1 \in 1 .. n + 1 /\ 1 \in 1 .. n + z
  BY <1>1, <1>z, <1>7
<1>9. DoneAt(t, by, f, g, 1)
  BY <1>8, <1>a
<1>10. SubSeq(t, 1, 1 - 1) = <<>> /\ <<>> \o g[1] = g[1]
  <2>1. g[1] \in Seq(C)
    BY <1>3, <1>8
  <2> QED
    BY <2>1, SubSeqEmpty, ConcatEmptySeq
<1> QED
  BY <1>2, <1>3, <1>9, <1>10 DEF DoneAt

(***************************************************************************)
(* The inductive invariant                                                 *)
(***************************************************************************)

Distinct(terms) == \A i, j \in DOMAIN terms : terms[i] = terms[j] => i = j
Terms           == Queries \ {<<>>}

Within(t) == {m \in [at : Nat \ {0}, len : Nat] : m.at + m.len - 1 <= Len(t)}

(* Matches are of the cached text; of the cached query only if there is    *)
(* one, for an emptied query leaves those of the last in the cache.        *)
CacheOk(c) ==
    /\ c = [text |-> c.text, query |-> c.query, matches |-> c.matches, current |-> c.current]
    /\ c.text \in Seq(Chars) /\ c.query \in Queries
    /\ c.matches \in Seq(Within(c.text))
    /\ c.query # <<>> => c.matches = ComputeMatches(c.text, c.query)
    /\ c.current \in Nat
    /\ c.matches # <<>> => c.current < Len(c.matches)

ShownIsCurrent == cache.matches # <<>> => shown.start \in {None, Current(cache).at}

ListOk(terms) == terms \in Seq(Terms) /\ Distinct(terms)
ListsOk ==
    /\ ListOk(snap) /\ ListOk(table)
    /\ \A rows \in loads : rows = None \/ (ListOk(rows) /\ Len(rows) <= MaxTerms)

IInv == TypeOK /\ CacheOk(cache) /\ ShownIsCurrent /\ ListsOk /\ BrowsingShowsEntry

(* The constants are sequences of letters.                                 *)
LEMMA Constants ==
    /\ <<>> \in Queries /\ Texts \subseteq Seq(Chars)
    /\ Queries \subseteq Seq(Chars) /\ Replacements \subseteq Seq(Chars)
    /\ MaxLen \in Nat /\ MaxTerms \in Nat \ {0}
    /\ \A t \in Texts : Len(t) <= MaxLen
BY EmptyQuery, SeqsOk, TextsFit, BoundsNat

(* A match cut out of a text leaves a text.                                *)
LEMMA SpliceType ==
    ASSUME NEW C, NEW t \in Seq(C), NEW m \in Within(t), NEW by \in Seq(C)
    PROVE  Splice(t, m, by) \in Seq(C)
<1>1. PICK i, z, n : /\ i = m.at /\ z = m.len /\ n = Len(t)
                     /\ i \in Nat \ {0} /\ z \in Nat /\ n \in Nat /\ i + z - 1 <= n
  BY DEF Within
<1>2. \A x \in 1 .. n : t[x] \in C
  <2>1. n = Len(t)
    BY <1>1
  <2> QED
    BY ONLY <2>1, t \in Seq(C)
<1>3. i - 1 \in Int /\ i - 1 <= n /\ i + z \in Nat \ {0}
  <2>1. i \in Nat \ {0} /\ z \in Nat /\ n \in Nat /\ i + z - 1 <= n
    BY <1>1
  <2> QED
    BY ONLY <2>1
<1>4. \A x \in 1 .. i - 1 : t[x] \in C
  BY <1>1, <1>2, <1>3
<1>5. \A x \in i + z .. n : t[x] \in C
  BY <1>1, <1>2, <1>3
<1>6. SubSeq(t, 1, i - 1) \in Seq(C)
  BY <1>3, <1>4, SubSeqProperties
<1>7. SubSeq(t, i + z, n) \in Seq(C)
  BY <1>1, <1>3, <1>5, SubSeqProperties
<1> QED
  BY <1>1, <1>6, <1>7 DEF Splice

(* The matches of a text lie within it.                                    *)
LEMMA MatchesWithin ==
    ASSUME NEW C, NEW t \in Seq(C), NEW q \in Seq(C)
    PROVE  /\ ComputeMatches(t, q) \in Seq(Within(t))
           /\ q = <<>> => ComputeMatches(t, q) = <<>>
<1>1. CASE q = <<>>
  BY <1>1 DEF ComputeMatches
<1>2. CASE q # <<>>
  <2>1. \A m \in Match(t, q) : m \in Within(t)
    BY <1>2 DEF Match, Within, MatchesAt
  <2>2. ComputeMatches(t, q) \in Seq(Match(t, q))
    BY <1>2, MatchesAreMatches
  <2> QED
    BY <1>2, <2>1, <2>2
<1> QED
  BY <1>1, <1>2

(* What a cache of these parts must meet.                                  *)
PartsOk(t, q, ms, k) ==
    /\ t \in Seq(Chars) /\ q \in Queries
    /\ ms \in Seq(Within(t))
    /\ q # <<>> => ms = ComputeMatches(t, q)
    /\ k \in Nat /\ (ms # <<>> => k < Len(ms))

CacheOf(t, q, ms, k) == [text |-> t, query |-> q, matches |-> ms, current |-> k]

(* A cache is sound when its parts are.                                    *)
LEMMA Parts ==
    /\ \A t, q, ms, k : PartsOk(t, q, ms, k) => CacheOk(CacheOf(t, q, ms, k))
    /\ \A c : CacheOk(c) => /\ PartsOk(c.text, c.query, c.matches, c.current)
                            /\ c = CacheOf(c.text, c.query, c.matches, c.current)
BY DEF PartsOk, CacheOk, CacheOf

(* The cache with its query emptied, and with its first match current.     *)
LEMMA Changed ==
    ASSUME NEW c, CacheOk(c), NEW k
    PROVE  /\ [c EXCEPT !.query = <<>>] = CacheOf(c.text, <<>>, c.matches, c.current)
           /\ [c EXCEPT !.current = k] = CacheOf(c.text, c.query, c.matches, k)
<1>1. PICK t, q, ms, j : c = CacheOf(t, q, ms, j)
  BY Parts
<1> QED
  BY <1>1 DEF CacheOf

(* FindState.update leaves a cache of the text and the query.              *)
LEMMA UpdateOk ==
    ASSUME NEW c, CacheOk(c), NEW t \in Seq(Chars), NEW q \in Queries
    PROVE  /\ CacheOk(Update(c, t, q))
           /\ Update(c, t, q).text = t /\ Update(c, t, q).query = q
           /\ q # <<>> => Update(c, t, q).matches = ComputeMatches(t, q)
<1>1. CASE Fresh(c, t, q)
  BY <1>1 DEF Fresh, Update, CacheOk
<1>2. CASE ~ Fresh(c, t, q)
  <2>1. PICK ms, k : /\ ms = ComputeMatches(t, q)
                     /\ k = IF ms = <<>> THEN 0
                            ELSE IF c.current < Len(ms) THEN c.current ELSE Len(ms) - 1
    OBVIOUS
  <2>2. Update(c, t, q) = CacheOf(t, q, ms, k)
    BY <1>2, <2>1 DEF Update, CacheOf
  <2>3. ms \in Seq(Within(t)) /\ c.current \in Nat
    BY <2>1, Constants, MatchesWithin, Parts DEF PartsOk
  <2>4. PartsOk(t, q, ms, k)
    <3>1. ms # <<>> => Len(ms) \in Nat \ {0}
      BY <2>3
    <3> QED
      BY <2>1, <2>3, <3>1 DEF PartsOk
  <2> QED
    BY <2>1, <2>2, <2>4, Parts DEF CacheOf
<1> QED
  BY <1>1, <1>2

(* So does a search, at the first match.                                   *)
LEMMA SearchOk ==
    ASSUME NEW c, CacheOk(c), NEW t \in Seq(Chars), NEW q \in Queries
    PROVE  CacheOk(Search(c, t, q))
<1>1. PICK e : e = [c EXCEPT !.query = <<>>]
  OBVIOUS
<1>2. e = CacheOf(c.text, <<>>, c.matches, c.current) /\ PartsOk(c.text, <<>>, c.matches, c.current)
  BY <1>1, Changed, Parts, Constants DEF PartsOk
<1>3. CacheOk(e)
  BY <1>2, Parts
<1>4. PICK u : u = Update(e, t, q)
  OBVIOUS
<1>5. CacheOk(u)
  BY <1>3, <1>4, UpdateOk
<1>6. Search(c, t, q) = CacheOf(u.text, u.query, u.matches, 0)
  <2>1. [u EXCEPT !.current = 0] = CacheOf(u.text, u.query, u.matches, 0)
    BY <1>5, Changed
  <2>2. Search(c, t, q) = [u EXCEPT !.current = 0]
    BY <1>1, <1>4, Zenon DEF Search
  <2> QED
    BY <2>1, <2>2
<1>7. PartsOk(u.text, u.query, u.matches, u.current)
  BY <1>5, Parts
<1>8. u.matches # <<>> => 0 < Len(u.matches)
  BY <1>7 DEF PartsOk
<1>9. PartsOk(u.text, u.query, u.matches, 0)
  BY <1>7, <1>8 DEF PartsOk
<1> QED
  BY <1>6, <1>9, Parts

(* The next and the previous match are matches.                            *)
LEMMA SteppedOk ==
    ASSUME NEW c, CacheOk(c), c.matches # <<>>, NEW forward
    PROVE  CacheOk(Stepped(c, forward))
<1>1. PICK n, i : n = Len(c.matches) /\ i = c.current /\ n \in Nat \ {0} /\ i \in 0 .. n - 1
  BY Parts DEF PartsOk
<1>2. PICK k : k = IF forward THEN (i + 1) % n ELSE IF i = 0 THEN n - 1 ELSE i - 1
  OBVIOUS
<1>3. k \in 0 .. n - 1
  <2>1. (i + 1) % n \in 0 .. n - 1
    BY <1>1
  <2> QED
    BY <1>1, <1>2, <2>1
<1>4. Stepped(c, forward) = CacheOf(c.text, c.query, c.matches, k)
  BY <1>1, <1>2, Changed DEF Stepped
<1>5. PartsOk(c.text, c.query, c.matches, k)
  BY <1>1, <1>3, Parts DEF PartsOk
<1> QED
  BY <1>4, <1>5, Parts

(***************************************************************************)
(* What the parts of an action keep                                        *)
(***************************************************************************)

(* The cache and what is shown of it; the list and its tasks.              *)
SearchState == CacheOk(cache) /\ ShownIsCurrent

(* What is shown from the cache is its current match.                      *)
LEMMA ShownOk ==
    ASSUME shown' = ShownOf(cache')
    PROVE  ShownIsCurrent'
BY DEF ShownIsCurrent, ShownOf, Current

(* A search leaves both sound.                                             *)
LEMMA SearchedOk ==
    ASSUME CacheOk(cache), text \in Seq(Chars), NEW q \in Queries, Searched(q)
    PROVE  SearchState'
<1>1. CacheOk(Search(cache, text, q))
  BY SearchOk
<1>2. cache' = Search(cache, text, q) /\ shown' = ShownOf(cache')
  BY DEF Searched
<1>3. CacheOk(cache')
  BY <1>1, <1>2
<1> QED
  BY <1>2, <1>3, ShownOk DEF SearchState, CacheOk, PartsOk

(* So does a step to the next or the previous match.                       *)
LEMMA NavigatedOk ==
    ASSUME CacheOk(cache), text \in Seq(Chars), query \in Queries, NEW forward, Navigated(forward)
    PROVE  SearchState'
<1>1. PICK c : c = Update(cache, text, query)
  OBVIOUS
<1>2. CacheOk(c)
  BY <1>1, UpdateOk
<1>3. cache' = c \/ (c.matches # <<>> /\ cache' = Stepped(c, forward))
  BY <1>1 DEF Navigated
<1>4. CacheOk(cache')
  BY <1>2, <1>3, SteppedOk
<1>5. shown' = ShownOf(cache')
  BY DEF Navigated
<1> QED
  BY <1>4, <1>5, ShownOk DEF SearchState, CacheOk

(* A list cut to its newest terms.                                         *)
LEMMA NewestOk ==
    ASSUME NEW terms, ListOk(terms)
    PROVE  ListOk(Newest(terms)) /\ Len(Newest(terms)) <= MaxTerms
<1>1. PICK n, k : n = Len(terms) /\ k = IF n < MaxTerms THEN n ELSE MaxTerms
  OBVIOUS
<1>2. n \in Nat /\ k \in 0 .. n /\ k <= MaxTerms /\ terms \in Seq(Terms)
  BY <1>1, Constants DEF ListOk
<1>3. \A x \in 1 .. k : terms[x] \in Terms
  BY <1>1, <1>2
<1>4. PICK new : new = SubSeq(terms, 1, k)
  OBVIOUS
<1>5. new \in Seq(Terms) /\ Len(new) = k /\ \A x \in 1 .. k : new[x] = terms[x]
  BY <1>2, <1>3, <1>4, SubSeqProperties
<1>6. Distinct(new)
  <2>1. \A i, j \in 1 .. n : terms[i] = terms[j] => i = j
    BY <1>1, <1>2 DEF ListOk, Distinct
  <2>2. DOMAIN new = 1 .. k /\ 1 .. k \subseteq 1 .. n
    BY <1>2, <1>5
  <2> QED
    BY <1>5, <2>1, <2>2 DEF Distinct
<1> QED
  BY <1>1, <1>2, <1>4, <1>5, <1>6 DEF Newest, ListOk

(* A list with a new term in front.                                        *)
LEMMA InFrontOk ==
    ASSUME NEW terms, ListOk(terms), NEW term \in Terms, ~ Contains(terms, term)
    PROVE  ListOk(<<term>> \o terms)
<1>1. PICK n : n = Len(terms) /\ n \in Nat /\ terms \in Seq(Terms)
  BY DEF ListOk
<1>2. PICK new : new = <<term>> \o terms
  OBVIOUS
<1>3. /\ new \in Seq(Terms) /\ Len(new) = n + 1 /\ DOMAIN new = 1 .. n + 1
      /\ new[1] = term /\ \A x \in 2 .. n + 1 : new[x] = terms[x - 1]
  BY <1>1, <1>2
<1>4. \A x \in 1 .. n : terms[x] # term
  BY <1>1 DEF Contains
<1>5. \A i, j \in 1 .. n : terms[i] = terms[j] => i = j
  BY <1>1 DEF ListOk, Distinct
<1>6. ASSUME NEW i \in 1 .. n + 1, NEW j \in 1 .. n + 1, new[i] = new[j]
      PROVE  i = j
  <2>1. \A x \in 2 .. n + 1 : x - 1 \in 1 .. n /\ new[x] = terms[x - 1] /\ new[x] # new[1]
    BY <1>1, <1>3, <1>4
  <2>2. CASE i = 1 \/ j = 1
    BY <1>1, <1>6, <2>1, <2>2
  <2>3. CASE i # 1 /\ j # 1
    <3>1. i \in 2 .. n + 1 /\ j \in 2 .. n + 1
      BY <1>1, <2>3
    <3>2. i - 1 \in 1 .. n /\ j - 1 \in 1 .. n /\ terms[i - 1] = terms[j - 1]
      BY <1>6, <2>1, <3>1
    <3>3. i - 1 = j - 1
      BY <1>5, <3>2
    <3> QED
      BY <1>1, <3>3
  <2> QED
    BY <2>2, <2>3
<1> QED
  BY <1>2, <1>3, <1>6 DEF ListOk, Distinct

SnapOk == ListOk(snap) /\ Len(snap) <= MaxTerms /\ saves \subseteq Terms

(* A term remembered is listed once; one that is listed changes nothing.   *)
LEMMA RememberOk ==
    ASSUME SnapOk, NEW term \in Terms, Remember(term)
    PROVE  SnapOk' /\ (Contains(snap, term) => snap' = snap)
<1>1. CASE Contains(snap, term)
  BY <1>1 DEF SnapOk, Remember
<1>2. CASE ~ Contains(snap, term)
  <2>1. PICK all : all = <<term>> \o snap /\ ListOk(all)
    BY <1>2, InFrontOk DEF SnapOk
  <2>2. ListOk(Newest(all)) /\ Len(Newest(all)) <= MaxTerms
    BY <2>1, NewestOk
  <2> QED
    BY <1>2, <2>1, <2>2 DEF SnapOk, Remember
<1> QED
  BY <1>1, <1>2

(* A replacement of one match: the cache is searched anew.                 *)
LEMMA ReplacedOk ==
    ASSUME CacheOk(cache), ShownIsCurrent, text \in Seq(Chars), query \in Queries,
           NEW by \in Replacements, ReplaceOneMatch(by)
    PROVE  SearchState' /\ text' \in Seq(Chars) /\ (text' = text \/ Len(text') <= MaxLen)
<1>1. PICK c : c = Update(cache, text, query)
  OBVIOUS
<1>2. CacheOk(c) /\ c.text = text /\ c.query = query
  BY <1>1, UpdateOk
<1>3. CASE c.matches = <<>>
  BY <1>1, <1>2, <1>3 DEF ReplaceOneMatch, SearchState, ShownIsCurrent, CacheOk
<1>4. CASE c.matches # <<>>
  <2>1. /\ text' = Splice(text, Current(c), by) /\ Len(text') <= MaxLen
        /\ cache' = Update([c EXCEPT !.query = <<>>], text', query)
        /\ shown' = ShownOf(cache')
    BY <1>1, <1>4 DEF ReplaceOneMatch
  <2>2. Current(c) \in Within(text)
    <3>1. c.matches \in Seq(Within(text)) /\ c.current \in Nat /\ c.current < Len(c.matches)
      BY <1>2, <1>4 DEF CacheOk
    <3>2. Len(c.matches) \in Nat
      BY <3>1
    <3>3. c.current + 1 \in 1 .. Len(c.matches)
      BY <3>1, <3>2
    <3> QED
      BY <3>1, <3>3 DEF Current
  <2>3. text' \in Seq(Chars)
    BY <2>1, <2>2, SpliceType, Constants
  <2>4. PICK e : e = [c EXCEPT !.query = <<>>]
    OBVIOUS
  <2>5. e = CacheOf(c.text, <<>>, c.matches, c.current) /\ PartsOk(c.text, <<>>, c.matches, c.current)
    BY <1>2, <2>4, Changed, Parts, Constants DEF PartsOk
  <2>6. CacheOk(e)
    BY <2>5, Parts
  <2>7. CacheOk(Update(e, text', query))
    BY <2>3, <2>6, UpdateOk
  <2>8. CacheOk(cache')
    BY <2>1, <2>4, <2>7
  <2> QED
    BY <2>1, <2>3, <2>8, ShownOk DEF SearchState, CacheOk
<1> QED
  BY <1>3, <1>4

(* A replacement of all leaves the cache.                                  *)
LEMMA AllReplacedOk ==
    ASSUME text \in Seq(Chars), query \in Queries,
           NEW by \in Replacements, ReplaceAllMatches(by)
    PROVE  /\ query # <<>> /\ text' = Substituted(text, query, by)
           /\ text' \in Seq(Chars) /\ Len(text') <= MaxLen
<1>1. query # <<>>
  BY MatchesWithin, Constants DEF ReplaceAllMatches
<1>2. text' = ReplaceMatches(text, ComputeMatches(text, query), by) /\ Len(text') <= MaxLen
  BY DEF ReplaceAllMatches
<1>3. query \in Seq(Chars) /\ by \in Seq(Chars)
  BY Constants
<1>4. ReplaceMatches(text, ComputeMatches(text, query), by) = Substituted(text, query, by)
  BY <1>1, <1>3, ReplaceAllSubstitutes
<1>5. PICK f \in [1 .. Len(text) + Len(query) -> Seq(Chars)] : Substituted(text, query, by) = f[1]
  BY <1>1, <1>3, SubstitutedWalk
<1>6. 1 \in 1 .. Len(text) + Len(query)
  BY <1>1, <1>3
<1> QED
  BY <1>1, <1>2, <1>4, <1>5, <1>6

(***************************************************************************)
(* The invariant is inductive                                              *)
(***************************************************************************)

(* At the start nothing is cached, listed or browsed.                      *)
LEMMA Initially == Init => IInv
<1> SUFFICES ASSUME Init PROVE IInv
  OBVIOUS
<1>1. /\ text \in Texts /\ query = <<>> /\ browse = None /\ draft = <<>> /\ snap = <<>>
      /\ table = <<>> /\ loads = {} /\ saves = {} /\ raced = FALSE
      /\ cache = CacheOf(<<>>, <<>>, <<>>, 0)
  BY Zenon DEF Init, CacheOf
<1>2. TypeOK
  BY <1>1, Constants DEF TypeOK, CacheOf
<1>3. CacheOk(cache)
  <2>1. PartsOk(<<>>, <<>>, <<>>, 0)
    BY Constants DEF PartsOk
  <2> QED
    BY <1>1, <2>1, Parts
<1>4. ShownIsCurrent /\ ListsOk /\ BrowsingShowsEntry
  BY <1>1 DEF ShownIsCurrent, CacheOf, ListsOk, ListOk, Distinct, BrowsingShowsEntry
<1> QED
  BY <1>2, <1>3, <1>4 DEF IInv

(* The invariant by what the actions change together.                      *)
Typed ==
    /\ text \in Seq(Chars) /\ Len(text) <= MaxLen
    /\ query \in Queries /\ draft \in Queries
    /\ browse \in {None} \cup 0 .. MaxTerms - 1

(* The invariant is those groups together.                                 *)
LEMMA Grouped == IInv <=> Typed /\ SearchState /\ SnapOk /\ ListsOk /\ BrowsingShowsEntry
BY DEF IInv, TypeOK, Typed, SearchState, SnapOk, ListsOk, ListOk, CacheOk, Terms

(* What an action has to show, from what it does.                          *)
LEMMA Stutters ==
    ASSUME IInv, UNCHANGED vars
    PROVE  IInv'
<1>1. Typed' /\ SearchState' /\ SnapOk' /\ ListsOk' /\ BrowsingShowsEntry'
  BY Grouped DEF vars, findVars, histVars, Typed, SearchState, CacheOk, ShownIsCurrent, Current,
                 SnapOk, ListsOk, ListOk, BrowsingShowsEntry
<1> QED
  BY <1>1 DEF IInv, TypeOK, Typed, SearchState, SnapOk, ListsOk, ListOk, CacheOk, Terms

(* And so it is after a step.                                              *)
LEMMA GroupedNext == Typed' /\ SearchState' /\ SnapOk' /\ ListsOk' /\ BrowsingShowsEntry' => IInv'
BY DEF IInv, TypeOK, Typed, SearchState, SnapOk, ListsOk, ListOk, CacheOk, Terms

(* Where the field still holds the term of before, it is in the list.      *)
LEMMA BrowsedHeld ==
    ASSUME IInv, browse # None, ~ raced
    PROVE  Contains(snap, query)
<1>1. browse \in Nat /\ browse < Len(snap) /\ query = snap[browse + 1] /\ Len(snap) \in Nat
  BY Grouped DEF IInv, TypeOK, BrowsingShowsEntry
<1>2. browse + 1 \in 1 .. Len(snap)
  BY <1>1
<1> QED
  BY <1>1, <1>2 DEF Contains

(* A term of the list is one to search for.                                *)
LEMMA SnapTerm ==
    ASSUME SnapOk, NEW i \in Int, 0 <= i, i < Len(snap)
    PROVE  snap[i + 1] \in Queries
<1>1. snap \in Seq(Terms) /\ Len(snap) \in Nat
  BY DEF SnapOk, ListOk
<1>2. i + 1 \in 1 .. Len(snap)
  BY <1>1
<1> QED
  BY <1>1, <1>2 DEF Terms

(* An edit leaves the cache, which is of another text now.                 *)
LEMMA EditKeeps ==
    ASSUME IInv, NEW t \in Texts, EditText(t)
    PROVE  IInv'
<1>1. Typed'
  BY Grouped, Constants DEF EditText, histVars, Typed
<1>2. SearchState' /\ SnapOk' /\ ListsOk' /\ BrowsingShowsEntry'
  BY Grouped DEF EditText, histVars, SearchState, CacheOk, ShownIsCurrent, Current,
                 SnapOk, ListsOk, ListOk, BrowsingShowsEntry
<1> QED
  BY <1>1, <1>2, GroupedNext

(* Typing searches anew and ends the browsing.                             *)
LEMMA TypeKeeps ==
    ASSUME IInv, NEW q \in Queries, TypeQuery(q)
    PROVE  IInv'
<1>1. SearchState'
  BY Grouped, SearchedOk DEF TypeQuery, Typed, SearchState
<1>2. Typed' /\ SnapOk' /\ ListsOk' /\ BrowsingShowsEntry'
  BY Grouped DEF TypeQuery, Searched, StopBrowsing, Typed, SnapOk, ListsOk, ListOk, BrowsingShowsEntry
<1> QED
  BY <1>1, <1>2, GroupedNext

(* A step to another match: a browsed term is in the list already.         *)
LEMMA StepKeeps ==
    ASSUME IInv, NEW forward \in BOOLEAN, Step(forward)
    PROVE  IInv'
<1>1. SearchState'
  BY Grouped, NavigatedOk DEF Step, Typed, SearchState
<1>2. Typed'
  BY Grouped DEF Step, Typed
<1>3. SnapOk' /\ (Contains(snap, query) => snap' = snap)
  <2>1. CASE cache'.matches # <<>> /\ query # <<>>
    <3>1. query \in Terms /\ Remember(query)
      BY <2>1, Grouped DEF Step, Typed, Terms
    <3> QED
      BY <3>1, Grouped, RememberOk
  <2>2. CASE ~ (cache'.matches # <<>> /\ query # <<>>)
    BY <2>2, Grouped DEF Step, SnapOk
  <2> QED
    BY <2>1, <2>2
<1>4. ListsOk'
  BY <1>3, Grouped DEF Step, SnapOk, ListsOk, ListOk
<1>5. BrowsingShowsEntry'
  BY <1>3, Grouped, BrowsedHeld DEF Step, BrowsingShowsEntry
<1> QED
  BY <1>1, <1>2, <1>3, <1>4, <1>5, GroupedNext

(* Enter ends the browsing, whatever it puts in front.                     *)
LEMMA EnterKeeps ==
    ASSUME IInv, Enter
    PROVE  IInv'
<1>1. SearchState'
  BY Grouped, NavigatedOk DEF Enter, Typed, SearchState
<1>2. Typed'
  BY Grouped, Constants DEF Enter, StopBrowsing, Typed
<1>3. SnapOk'
  BY Grouped, RememberOk DEF Enter, Typed, Terms
<1>4. ListsOk' /\ BrowsingShowsEntry'
  BY <1>3, Grouped DEF Enter, StopBrowsing, SnapOk, ListsOk, ListOk, BrowsingShowsEntry
<1> QED
  BY <1>1, <1>2, <1>3, <1>4, GroupedNext

(* A replacement leaves the lists.                                         *)
LEMMA ReplaceKeeps ==
    ASSUME IInv, NEW by \in Replacements, ReplaceOneMatch(by) \/ ReplaceAllMatches(by)
    PROVE  IInv'
<1>1. UNCHANGED <<query, histVars>>
  BY DEF ReplaceOneMatch, ReplaceAllMatches
<1>2. SearchState' /\ text' \in Seq(Chars) /\ (text' = text \/ Len(text') <= MaxLen)
  <2>1. CASE ReplaceOneMatch(by)
    BY <2>1, Grouped, ReplacedOk DEF Typed, SearchState
  <2>2. CASE ReplaceAllMatches(by)
    <3>1. cache' = cache /\ shown' = NothingShown
      BY <2>2 DEF ReplaceAllMatches
    <3>2. SearchState'
      BY <3>1, Grouped DEF SearchState, CacheOk, ShownIsCurrent, NothingShown
    <3> QED
      BY <2>2, <3>2, Grouped, AllReplacedOk DEF Typed
  <2> QED
    BY <2>1, <2>2
<1>3. Typed' /\ SnapOk' /\ ListsOk' /\ BrowsingShowsEntry'
  BY <1>1, <1>2, Grouped DEF histVars, Typed, SnapOk, ListsOk, ListOk, BrowsingShowsEntry
<1> QED
  BY <1>2, <1>3, GroupedNext

(* Opening ends the browsing, closing leaves everything but the highlight. *)
LEMMA OpenCloseKeeps ==
    ASSUME IInv, Open \/ Close
    PROVE  IInv'
<1>1. CASE Open
  <2>1. Typed' /\ SearchState' /\ SnapOk' /\ BrowsingShowsEntry'
    BY <1>1, Grouped DEF Open, StopBrowsing, findVars, Typed, SearchState, CacheOk, ShownIsCurrent,
                         Current, SnapOk, ListOk, BrowsingShowsEntry
  <2>2. ListsOk'
    BY <1>1, Grouped DEF Open, ListsOk, ListOk
  <2> QED
    BY <2>1, <2>2, GroupedNext
<1>2. CASE Close
  <2>1. Typed' /\ SnapOk' /\ ListsOk' /\ BrowsingShowsEntry'
    BY <1>2, Grouped DEF Close, histVars, Typed, SnapOk, ListsOk, ListOk, BrowsingShowsEntry
  <2>2. CacheOk(cache) /\ cache' = cache /\ shown' = [shown EXCEPT !.start = None]
    BY <1>2, Grouped DEF Close, SearchState
  <2>3. SearchState'
    BY <2>2 DEF SearchState, CacheOk, ShownIsCurrent
  <2> QED
    BY <2>1, <2>3, GroupedNext
<1> QED
  BY <1>1, <1>2

(* An older term: the index stays within the list.                         *)
LEMMA ArrowUpKeeps ==
    ASSUME IInv, ArrowUp
    PROVE  IInv'
<1>1. PICK n, k : n = Len(snap) /\ k = browse'
  OBVIOUS
<1>2. n \in Nat \ {0} /\ n <= MaxTerms
  <2>1. snap \in Seq(Terms) /\ snap # <<>> /\ Len(snap) <= MaxTerms
    BY Grouped DEF ArrowUp, SnapOk, ListOk
  <2> QED
    BY <1>1, <2>1
<1>3. k \in 0 .. n - 1
  <2>1. browse \in {None} \cup Nat
    BY Grouped DEF Typed
  <2> QED
    BY <1>1, <1>2, <2>1 DEF ArrowUp
<1>4. snap[k + 1] \in Queries
  <2>1. SnapOk /\ k \in Int /\ 0 <= k /\ k < Len(snap)
    BY <1>1, <1>2, <1>3, Grouped
  <2> QED
    BY <2>1, SnapTerm
<1>5. SearchState' /\ query' = snap[k + 1]
  BY <1>1, <1>4, Grouped, SearchedOk DEF ArrowUp, Typed, SearchState, Searched
<1>6. Typed'
  BY <1>1, <1>2, <1>3, <1>4, <1>5, Grouped, Constants DEF ArrowUp, Typed
<1>7. SnapOk' /\ ListsOk'
  BY Grouped DEF ArrowUp, SnapOk, ListsOk, ListOk
<1>8. BrowsingShowsEntry'
  BY <1>1, <1>2, <1>3, <1>5 DEF ArrowUp, BrowsingShowsEntry
<1> QED
  BY <1>5, <1>6, <1>7, <1>8, GroupedNext

(* A newer term, or the draft.                                             *)
LEMMA ArrowDownKeeps ==
    ASSUME IInv, ArrowDown
    PROVE  IInv'
<1>1. UNCHANGED <<text, draft, snap, table, loads, saves>>
  BY DEF ArrowDown
<1>2. SnapOk' /\ ListsOk'
  BY <1>1, Grouped DEF SnapOk, ListsOk, ListOk
<1>3. browse \in 0 .. MaxTerms - 1
  BY Grouped DEF ArrowDown, Typed
<1>4. CASE browse = 0
  <2>1. browse' = None /\ Searched(draft)
    BY <1>4 DEF ArrowDown, StopBrowsing
  <2>2. SearchState' /\ query' = draft
    BY <2>1, Grouped, SearchedOk DEF Typed, SearchState, Searched
  <2>3. Typed' /\ BrowsingShowsEntry'
    BY <1>1, <2>1, <2>2, Grouped DEF Typed, BrowsingShowsEntry
  <2> QED
    BY <1>2, <2>2, <2>3, GroupedNext
<1>5. CASE browse # 0
  <2>1. browse <= Len(snap) /\ browse' = browse - 1 /\ Searched(snap[browse]) /\ raced' = raced
    BY <1>5 DEF ArrowDown
  <2>2. PICK k : k = browse - 1 /\ k \in 0 .. MaxTerms - 1 /\ k + 1 = browse /\ k < Len(snap)
    <3>1. Len(snap) \in Nat /\ MaxTerms \in Nat
      BY Grouped, Constants DEF SnapOk, ListOk
    <3> QED
      BY <1>3, <1>5, <2>1, <3>1
  <2>3. snap[browse] \in Queries
    BY <2>2, Grouped, SnapTerm
  <2>4. SearchState' /\ query' = snap[browse]
    BY <2>1, <2>3, Grouped, SearchedOk DEF Typed, SearchState, Searched
  <2>5. Typed' /\ BrowsingShowsEntry'
    BY <1>1, <2>1, <2>2, <2>3, <2>4, Grouped DEF Typed, BrowsingShowsEntry
  <2> QED
    BY <1>2, <2>4, <2>5, GroupedNext
<1> QED
  BY <1>4, <1>5

(* The tasks: a save into the table, a load that reads and one that ends.  *)
LEMMA TasksKeep ==
    ASSUME IInv, (\E term \in saves : Save(term)) \/ LoadRead \/ (\E rows \in loads : LoadDone(rows))
    PROVE  IInv'
<1>1. UNCHANGED <<findVars, browse, draft>>
  BY DEF Save, LoadRead, LoadDone
<1>2. Typed' /\ SearchState'
  BY <1>1, Grouped DEF findVars, Typed, SearchState, CacheOk, ShownIsCurrent, Current
<1>3. SnapOk' /\ ListsOk' /\ BrowsingShowsEntry'
  <2>1. CASE \E term \in saves : Save(term)
    <3>1. PICK term \in saves : Save(term)
      BY <2>1
    <3>2. term \in Terms
      BY Grouped DEF SnapOk
    <3>3. ListOk(table')
      <4>1. CASE table' = table
        BY <4>1, Grouped DEF ListsOk
      <4>2. CASE ~ Contains(table, term) /\ table' = <<term>> \o table
        BY <3>2, <4>2, Grouped, InFrontOk DEF ListsOk
      <4> QED
        BY <3>1, <4>1, <4>2 DEF Save
    <3> QED
      BY <1>1, <3>1, <3>3, Grouped DEF Save, findVars, SnapOk, ListsOk, ListOk, BrowsingShowsEntry
  <2>2. CASE LoadRead
    <3>1. PICK rows \in {<<>>, Newest(table)} : loads' = (loads \ {None}) \cup {rows}
      BY <2>2 DEF LoadRead
    <3>2. ListOk(<<>>) /\ Len(<<>>) <= MaxTerms
      BY Constants DEF ListOk, Distinct
    <3>3. ListOk(rows) /\ Len(rows) <= MaxTerms
      BY <3>1, <3>2, Grouped, NewestOk DEF ListsOk
    <3>4. ListsOk'
      BY <2>2, <3>1, <3>3, Grouped DEF LoadRead, ListsOk, ListOk
    <3> QED
      BY <1>1, <2>2, <3>4, Grouped DEF LoadRead, findVars, SnapOk, ListOk, BrowsingShowsEntry
  <2>3. CASE \E rows \in loads : LoadDone(rows)
    <3>1. PICK rows \in loads : LoadDone(rows)
      BY <2>3
    <3>2. rows # None /\ ListOk(rows) /\ Len(rows) <= MaxTerms
      BY <3>1, Grouped DEF LoadDone, ListsOk
    <3>3. SnapOk' /\ ListsOk'
      BY <3>1, <3>2, Grouped DEF LoadDone, SnapOk, ListsOk, ListOk
    <3> QED
      BY <1>1, <3>1, <3>3 DEF LoadDone, BrowsingShowsEntry
  <2> QED
    BY <2>1, <2>2, <2>3
<1> QED
  BY <1>2, <1>3, GroupedNext

(* Every step keeps the invariant.                                         *)
LEMMA Inductive == IInv /\ [Next]_vars => IInv'
<1> SUFFICES ASSUME IInv, [Next]_vars PROVE IInv'
  OBVIOUS
<1>1. CASE UNCHANGED vars
  BY <1>1, Stutters
<1>2. CASE Next
  BY <1>2, EditKeeps, TypeKeeps, StepKeeps, EnterKeeps, ReplaceKeeps, OpenCloseKeeps,
     ArrowUpKeeps, ArrowDownKeeps, TasksKeep DEF Next
<1> QED
  BY <1>1, <1>2

(* It holds always.                                                        *)
LEMMA Invariant == Spec => []IInv
BY Initially, Inductive, PTL DEF Spec

(* The text, the field and the lists keep their types, and the current     *)
(* match is one of the matches.                                            *)
THEOREM TypeCorrect == Spec => []TypeOK
<1>1. IInv => TypeOK
  BY DEF IInv
<1> QED
  BY <1>1, Invariant, PTL

(* However loads, saves and searches follow each other, no term is listed  *)
(* or stored twice, and the list keeps to its limit.                       *)
THEOREM TermsKept == Spec => []TermsOnce
<1>1. IInv => TermsOnce
  BY Grouped DEF SnapOk, ListsOk, ListOk, Distinct, TermsOnce
<1> QED
  BY <1>1, Invariant, PTL

(* The index of the browsing stays on the term the field holds.            *)
THEOREM BrowsingShown == Spec => []BrowsingShowsEntry
<1>1. IInv => BrowsingShowsEntry
  BY DEF IInv
<1> QED
  BY <1>1, Invariant, PTL

(* A replacement changes one match of the text as it is, the highlighted   *)
(* one if nothing was typed; Replace All changes exactly the matches.      *)
LEMMA ReplaceSteps ==
    ASSUME IInv, NEW by \in Replacements, query # <<>>
    PROVE  /\ ReplaceOneMatch(by) /\ text' # text =>
                 \E i \in 1 .. Len(text) :
                     /\ MatchesAt(text, query, i)
                     /\ text' = Splice(text, [at |-> i, len |-> Len(query)], by)
                     /\ Fresh(cache, text, query) => shown.start \in {i, None}
           /\ ReplaceAllMatches(by) => text' = Substituted(text, query, by)
<1>1. text \in Seq(Chars) /\ query \in Seq(Chars) /\ query \in Queries /\ SearchState
  BY Grouped, Constants DEF Typed
<1>2. ASSUME ReplaceOneMatch(by), text' # text
      PROVE  \E i \in 1 .. Len(text) :
                 /\ MatchesAt(text, query, i)
                 /\ text' = Splice(text, [at |-> i, len |-> Len(query)], by)
                 /\ Fresh(cache, text, query) => shown.start \in {i, None}
  <2>1. PICK c : c = Update(cache, text, query)
    OBVIOUS
  <2>2. CacheOk(c) /\ c.matches = ComputeMatches(text, query)
    BY <1>1, <2>1, UpdateOk DEF SearchState
  <2>3. c.matches # <<>> /\ text' = Splice(text, Current(c), by)
    BY <1>2, <2>1 DEF ReplaceOneMatch
  <2>4. PICK m : m = Current(c)
    OBVIOUS
  <2>5. m \in Match(text, query)
    <3>1. c.matches \in Seq(Match(text, query)) /\ c.current \in Nat /\ c.current < Len(c.matches)
      BY <1>1, <2>2, <2>3, MatchesAreMatches DEF CacheOk
    <3>2. c.current + 1 \in 1 .. Len(c.matches)
      BY <3>1
    <3> QED
      BY <2>4, <3>1, <3>2 DEF Current
  <2>6. PICK i \in 1 .. Len(text) : /\ MatchesAt(text, query, i) /\ i = m.at
                                    /\ m = [at |-> i, len |-> Len(query)]
    BY <1>1, <2>5, MatchesAreMatches
  <2>7. Fresh(cache, text, query) => shown.start \in {i, None}
    <3> SUFFICES ASSUME Fresh(cache, text, query) PROVE shown.start \in {i, None}
      OBVIOUS
    <3>1. c = cache
      BY <2>1 DEF Update
    <3> QED
      BY <1>1, <2>3, <2>4, <2>6, <3>1 DEF SearchState, ShownIsCurrent
  <2> QED
    BY <2>3, <2>4, <2>6, <2>7
<1>3. ReplaceAllMatches(by) => text' = Substituted(text, query, by)
  BY <1>1, AllReplacedOk
<1> QED
  BY <1>2, <1>3

(* ReplaceExact holds of every step.                                       *)
THEOREM ReplacementsExact == Spec => ReplaceExact
<1>1. IInv /\ [Next]_vars =>
          [\A by \in Replacements : query # <<>> =>
            /\ ReplaceOneMatch(by) /\ text' # text =>
                  \E i \in 1 .. Len(text) :
                      /\ MatchesAt(text, query, i)
                      /\ text' = Splice(text, [at |-> i, len |-> Len(query)], by)
                      /\ Fresh(cache, text, query) => shown.start \in {i, None}
            /\ ReplaceAllMatches(by) => text' = Substituted(text, query, by)]_vars
  BY ReplaceSteps
<1> QED
  BY <1>1, Invariant, PTL DEF Spec, ReplaceExact

(***************************************************************************)
(* Positions and pieces of a text                                          *)
(***************************************************************************)

(* What is before and after a position.                                    *)
LEMMA CutType ==
    ASSUME NEW C, NEW t \in Seq(C), NEW c \in Int, c <= Len(t)
    PROVE  /\ Before(t, c) \in Seq(C)
           /\ c >= 0 => Len(Before(t, c)) = c /\ \A i \in 1 .. c : Before(t, c)[i] = t[i]
           /\ c >= 0 => After(t, c) \in Seq(C) /\ Len(After(t, c)) = Len(t) - c
           /\ c >= 0 => \A i \in 1 .. Len(t) - c : After(t, c)[i] = t[c + i]
<1>1. PICK n : n = Len(t) /\ n \in Nat /\ \A x \in 1 .. n : t[x] \in C
  OBVIOUS
<1>2. \A x \in 1 .. c : t[x] \in C
  BY <1>1
<1>3. PICK a : a = SubSeq(t, 1, c)
  OBVIOUS
<1>4. /\ a \in Seq(C) /\ Len(a) = IF 1 <= c THEN c - 1 + 1 ELSE 0
      /\ \A i \in 1 .. c - 1 + 1 : a[i] = t[1 + i - 1]
  BY <1>2, <1>3, SubSeqProperties
<1>5. c >= 0 => Len(a) = c /\ \A i \in 1 .. c : a[i] = t[i]
  BY <1>4
<1>6. ASSUME c >= 0
      PROVE  After(t, c) \in Seq(C) /\ Len(After(t, c)) = n - c /\ \A i \in 1 .. n - c : After(t, c)[i] = t[c + i]
  <2>1. \A x \in c + 1 .. n : t[x] \in C
    BY <1>1, <1>6
  <2>2. PICK b : b = SubSeq(t, c + 1, n)
    OBVIOUS
  <2>3. c + 1 \in Int /\ n \in Int
    BY <1>1
  <2>4. /\ b \in Seq(C) /\ Len(b) = IF c + 1 <= n THEN n - (c + 1) + 1 ELSE 0
        /\ \A i \in 1 .. n - (c + 1) + 1 : b[i] = t[c + 1 + i - 1]
    BY <2>1, <2>2, <2>3, SubSeqProperties
  <2>5. Len(b) = n - c /\ n - (c + 1) + 1 = n - c
    BY <1>1, <1>6, <2>4
  <2>6. \A i \in 1 .. n - c : c + 1 + i - 1 = c + i
    BY <1>1
  <2>7. \A i \in 1 .. n - c : b[i] = t[c + i]
    BY <2>4, <2>5, <2>6
  <2> QED
    BY <1>1, <2>2, <2>4, <2>5, <2>7 DEF After
<1> QED
  BY <1>1, <1>3, <1>4, <1>5, <1>6 DEF Before

(***************************************************************************)
(* Words and contexts                                                      *)
(***************************************************************************)

(* Trimmed texts are pieces of the text.                                   *)
LEMMA TrimEndType ==
    ASSUME NEW C, NEW t \in Seq(C)
    PROVE  \E n \in 0 .. Len(t) : TrimEnd(t) = Before(t, n) /\ TrimEnd(t) \in Seq(C) /\ Len(TrimEnd(t)) = n
<1> DEFINE solid == {i \in DOMAIN t : t[i] \notin Blanks} \cup {0}
<1>1. PICK n : n = Max(solid)
  OBVIOUS
<1>2. solid \subseteq 0 .. Len(t) /\ solid # {} /\ Len(t) \in Nat
  OBVIOUS
<1>3. n \in 0 .. Len(t)
  <2> HIDE DEF solid
  <2> QED BY <1>1, <1>2, MaxOf
<1>4. TrimEnd(t) = Before(t, n)
  BY <1>1 DEF TrimEnd
<1> QED
  BY <1>3, <1>4, CutType

LEMMA TrimStartType ==
    ASSUME NEW C, NEW t \in Seq(C)
    PROVE  TrimStart(t) \in Seq(C)
<1> DEFINE solid == {i \in DOMAIN t : t[i] \notin Blanks}
<1>1. CASE solid = {}
  BY <1>1 DEF TrimStart
<1>2. CASE solid # {}
  <2>1. PICK n : n = Min(solid)
    OBVIOUS
  <2>2. solid \subseteq Nat /\ solid \subseteq 1 .. Len(t)
    OBVIOUS
  <2>3. n \in 1 .. Len(t)
    <3> HIDE DEF solid
    <3> QED BY <1>2, <2>1, <2>2, MinOf
  <2>4. TrimStart(t) = After(t, n - 1)
    BY <1>2, <2>1 DEF TrimStart
  <2>5. PICK m : m = n - 1 /\ m \in 0 .. Len(t)
    BY <2>3
  <2>6. m \in Int /\ m >= 0 /\ m <= Len(t)
    BY <2>5
  <2>7. After(t, m) \in Seq(C)
    BY <2>6, CutType
  <2> QED
    BY <2>4, <2>5, <2>7
<1> QED
  BY <1>1, <1>2

LEMMA FirstWordType ==
    ASSUME NEW C, NEW t \in Seq(C)
    PROVE  FirstWord(t) \in Seq(C)
<1> DEFINE ends == {i \in DOMAIN t : t[i] \notin IdentChars} \cup {Len(t) + 1}
<1>1. PICK n : n = Min(ends)
  OBVIOUS
<1>2. ends \subseteq 1 .. Len(t) + 1 /\ ends \subseteq Nat /\ ends # {}
  OBVIOUS
<1>3. n \in 1 .. Len(t) + 1
  <2> HIDE DEF ends
  <2> QED BY <1>1, <1>2, MinOf
<1>4. FirstWord(t) = Before(t, n - 1)
  BY <1>1 DEF FirstWord
<1> QED
  BY <1>3, <1>4, CutType

(* The word before the cursor begins where the last character that is not  *)
(* of a word ends, or with the text.                                       *)
LEMMA PrefixStart ==
    ASSUME NEW t, NEW c \in Nat
    PROVE  /\ FindPrefixStart(t, c) \in 0 .. c
           /\ FindPrefixStart(t, c) # 0 => t[FindPrefixStart(t, c)] \notin IdentChars
           /\ \A i \in FindPrefixStart(t, c) + 1 .. c : t[i] \in IdentChars
<1> DEFINE cuts == {i \in 1 .. c : t[i] \notin IdentChars} \cup {0}
<1>1. PICK n : n = Max(cuts)
  OBVIOUS
<1>2. cuts \subseteq 0 .. c /\ cuts # {}
  OBVIOUS
<1>3. n \in cuts /\ \A x \in cuts : x <= n
  <2> HIDE DEF cuts
  <2> QED BY <1>1, <1>2, MaxOf
<1>4. n \in 0 .. c /\ (n # 0 => t[n] \notin IdentChars)
  BY <1>3
<1>5. \A i \in n + 1 .. c : t[i] \in IdentChars
  BY <1>3, <1>4
<1>6. FindPrefixStart(t, c) = n
  BY <1>1 DEF FindPrefixStart
<1> QED
  BY <1>4, <1>5, <1>6

LEMMA PrefixType ==
    ASSUME NEW C, NEW t \in Seq(C), NEW c \in 0 .. Len(t)
    PROVE  ExtractPrefix(t, c) \in Seq(C)
<1>1. PICK n : n = FindPrefixStart(t, c)
  OBVIOUS
<1>2. n \in 0 .. c
  BY <1>1, PrefixStart
<1>3. \A i \in n + 1 .. c : t[i] \in C
  BY <1>2
<1> QED
  BY <1>1, <1>2, <1>3, SubSeqProperties DEF ExtractPrefix

(* The last place of a keyword, or 0.                                      *)
LEMMA LastKwPosType ==
    ASSUME NEW C, NEW t \in Seq(C), NEW kw
    PROVE  /\ LastKwPos(t, kw) \in 0 .. Len(t)
           /\ LastKwPos(t, kw) # 0 => t[LastKwPos(t, kw)] = kw
<1>1. PICK n : n = LastKwPos(t, kw)
  OBVIOUS
<1>2. PICK S : S = KeywordAt(t, kw) \cup {0}
  OBVIOUS
<1>3. S \subseteq 0 .. Len(t) /\ S # {} /\ Len(t) \in Nat /\ \A i \in S : i # 0 => t[i] = kw
  BY <1>2 DEF KeywordAt
<1>4. n = Max(S)
  BY <1>1, <1>2 DEF LastKwPos
<1>5. n \in S
  BY <1>3, <1>4, MaxOf
<1> QED
  BY <1>1, <1>3, <1>5

LEMMA LastTriggerType ==
    ASSUME NEW C, NEW t \in Seq(C)
    PROVE  LastTrigger(t) \in Triggers \cup {Nothing}
<1>1. PICK S : S = {LastKwPos(t, kw) : kw \in Triggers}
  OBVIOUS
<1>2. S \subseteq 0 .. Len(t) /\ Len(t) \in Nat
  BY <1>1, LastKwPosType
<1>3. S # {}
  <2>1. LastKwPos(t, "SELECT") \in S
    BY <1>1 DEF Triggers
  <2> QED BY <2>1
<1>4. PICK last : last = Max(S)
  OBVIOUS
<1>5. last \in S
  BY <1>2, <1>3, <1>4, MaxOf
<1>6. PICK kw \in Triggers : last = LastKwPos(t, kw)
  BY <1>1, <1>5
<1>7. last # 0 => t[last] = kw
  BY <1>6, LastKwPosType
<1>8. LastTrigger(t) = IF last = 0 THEN Nothing ELSE t[last]
  BY <1>1, <1>4 DEF LastTrigger
<1> QED
  BY <1>6, <1>7, <1>8

LEMMA SinceType ==
    ASSUME NEW C, NEW before \in Seq(C), NEW kw
    PROVE  Since(before, kw) \in Seq(C)
<1>1. LastKwPos(before, kw) \in 0 .. Len(before)
  BY LastKwPosType
<1> QED
  BY <1>1, CutType DEF Since

LEMMA ReferencedType ==
    ASSUME NEW C, NEW t \in Seq(C)
    PROVE  ReferencedTables(t) \in Seq(Seq(C))
<1> DEFINE at(kw) == Ascending(KeywordAt(t, kw), Len(t))
           after(kw) == [k \in DOMAIN at(kw) |-> FirstWord(TrimStart(After(t, at(kw)[k])))]
           names == after("FROM") \o after("JOIN")
<1>1. ASSUME NEW kw PROVE after(kw) \in Seq(Seq(C))
  <2>1. PICK a : a = at(kw)
    OBVIOUS
  <2>2. a \in Seq(KeywordAt(t, kw) \cap 1 .. Len(t))
    BY <2>1, AscendingType
  <2>3. ASSUME NEW k \in DOMAIN a PROVE FirstWord(TrimStart(After(t, a[k]))) \in Seq(C)
    <3>1. PICK i : i = a[k] /\ i \in 1 .. Len(t)
      BY <2>2
    <3>2. After(t, i) \in Seq(C)
      BY <3>1, CutType
    <3>3. TrimStart(After(t, i)) \in Seq(C)
      BY <3>2, TrimStartType
    <3> QED
      BY <3>1, <3>3, FirstWordType
  <2>4. [k \in DOMAIN a |-> FirstWord(TrimStart(After(t, a[k])))] \in Seq(Seq(C))
    BY <2>2, <2>3
  <2> QED
    BY <2>1, <2>4
<1>2. after("FROM") \in Seq(Seq(C)) /\ after("JOIN") \in Seq(Seq(C))
  BY <1>1
<1>3. names \in Seq(Seq(C))
  <2> HIDE DEF after
  <2> QED BY <1>2
<1>4. PICK S : S = {k \in DOMAIN names : /\ names[k] \notin NotATable \cup {<<>>}
                                         /\ \A j \in 1 .. k - 1 : names[j] # names[k]}
  OBVIOUS
<1>5. ReferencedTables(t) = Kept(names, S)
  BY <1>4, Zenon DEF ReferencedTables
<1> HIDE DEF names
<1> QED
  BY <1>3, <1>5, KeptType

(* Every context is of a kind that candidates are computed for, and the    *)
(* tables it names are names.                                              *)
Kinds == {"keyword", "table", "column", "next_clause", "join_on", "operator", "join_table", "value", "none"}

IsContext(x) == x.kind \in Kinds /\ x.tables \in Seq(Seq(Symbols))

LEMMA ContextType ==
    ASSUME NEW kind \in Kinds
    PROVE  IsContext(Context(kind))
BY DEF IsContext, Context

LEMMA ColumnType ==
    ASSUME NEW tab
    PROVE  Column(tab) = [kind |-> "column", table |-> tab, tables |-> <<>>] /\ IsContext(Column(tab))
<1>1. Column(tab) = [kind |-> "column", table |-> tab, tables |-> <<>>]
  BY DEF Column, Context
<1> QED
  BY <1>1 DEF IsContext, Kinds

LEMMA TableContextType ==
    ASSUME NEW before, NEW kw
    PROVE  IsContext(TableContext(before, kw))
<1>1. \A kind \in {"join_on", "next_clause", "table"} : IsContext(Context(kind))
  BY ContextType DEF Kinds
<1>2. \E kind \in {"join_on", "next_clause", "table"} : TableContext(before, kw) = Context(kind)
  BY Zenon DEF TableContext
<1> QED
  BY <1>1, <1>2

LEMMA ConditionContextType ==
    ASSUME NEW t \in Seq(Symbols), NEW before, NEW kw
    PROVE  IsContext(ConditionContext(t, before, kw))
<1> DEFINE join == [Context("join_table") EXCEPT !.tables = ReferencedTables(t)]
           tab == ExtractFromTable(t)
           T == {x \in {join, Context("value"), Context("operator"), Context("keyword"), Column(tab)} : IsContext(x)}
<1>1. join \in T
  <2>1. ReferencedTables(t) \in Seq(Seq(Symbols))
    BY ReferencedType
  <2>2. join = [kind |-> "join_table", table |-> <<>>, tables |-> ReferencedTables(t)]
    BY DEF Context
  <2> QED BY <2>1, <2>2 DEF IsContext, Kinds
<1>2. Context("value") \in T /\ Context("operator") \in T /\ Context("keyword") \in T
  BY ContextType DEF Kinds
<1>3. Column(tab) \in T
  BY ColumnType
<1>4. PICK last : last = (IF tab = <<>> THEN Context("keyword") ELSE Column(tab))
  OBVIOUS
<1>5. last \in T
  BY <1>2, <1>3, <1>4
<1>6. ConditionContext(t, before, kw) \in T
  <2> HIDE DEF T
  <2> QED BY <1>1, <1>2, <1>4, <1>5, Zenon DEF ConditionContext
<1> QED
  BY <1>6

LEMMA ParseContextType ==
    ASSUME NEW t \in Seq(Symbols), NEW c \in 0 .. Len(t)
    PROVE  IsContext(ParseContext(t, c))
<1> DEFINE before == Before(t, c)
           solid  == TrimEnd(before)
           kw     == LastTrigger(before)
           alias  == Column(ResolveAlias(t, LastIdent(Front(solid))))
           T == {x \in {Context("none"), Context("keyword"), alias,
                     TableContext(before, kw), ConditionContext(t, before, kw), Column(ExtractFromTable(t))} : IsContext(x)}
<1>1. Context("none") \in T /\ Context("keyword") \in T
  BY ContextType DEF Kinds
<1>2. alias \in T /\ Column(ExtractFromTable(t)) \in T
  BY ColumnType
<1>3. TableContext(before, kw) \in T
  BY TableContextType
<1>4. ConditionContext(t, before, kw) \in T
  BY ConditionContextType
<1>5. before \in Seq(Symbols)
  BY CutType
<1>6. kw \in Triggers \cup {Nothing}
  BY <1>5, LastTriggerType
<1>7. \/ kw \in {"FROM", "JOIN", "INTO"} \/ kw \in {"WHERE", "HAVING", "ON"}
      \/ kw \in {"SELECT", "SET", "BY"} \/ kw = Nothing
  BY <1>6 DEF Triggers
<1>8. PICK inner : inner = CASE kw \in {"FROM", "JOIN", "INTO"}   -> TableContext(before, kw)
                            [] kw \in {"WHERE", "HAVING", "ON"}  -> ConditionContext(t, before, kw)
                            [] kw \in {"SELECT", "SET", "BY"}    -> Column(ExtractFromTable(t))
                            [] kw = Nothing                      -> Context("keyword")
  OBVIOUS
<1>9. inner \in T
  <2> HIDE DEF T, kw, before
  <2>1. kw \in {"FROM", "JOIN", "INTO"} => inner \in T
    BY <1>1, <1>2, <1>3, <1>4, <1>8, Zenon
  <2>2. kw \in {"WHERE", "HAVING", "ON"} => inner \in T
    BY <1>1, <1>2, <1>3, <1>4, <1>8, Zenon
  <2>3. kw \in {"SELECT", "SET", "BY"} => inner \in T
    BY <1>1, <1>2, <1>3, <1>4, <1>8, Zenon
  <2>4. kw = Nothing => inner \in T
    BY <1>1, <1>2, <1>3, <1>4, <1>8, Zenon
  <2> QED BY <1>7, <2>1, <2>2, <2>3, <2>4
<1>10. ParseContext(t, c) \in T
  <2>1. ParseContext(t, c) = CASE solid = <<>>       -> Context("none")
         [] At(solid, Len(solid)) = "semicolon" -> Context("none")
         [] At(solid, Len(solid)) = "." -> alias
         [] OTHER -> inner
    <3> QED BY <1>8, Zenon DEF ParseContext
  <2> HIDE DEF T, solid, alias
  <2> QED BY <2>1, <1>1, <1>2, <1>9, Zenon
<1> QED
  BY <1>10

(***************************************************************************)
(* Candidates                                                              *)
(***************************************************************************)

(* What the constants are made of.                                         *)
TableOf == [name : Seq(Symbols), columns : Seq(Seq(Symbols))]
ColumnOf == [name : Seq(Symbols), table : Seq(Symbols)]

LEMMA Words ==
    /\ KeywordList \in Seq(Seq(Symbols)) /\ NextClauses \in Seq(Seq(Symbols)) /\ Operators \in Seq(Seq(Symbols))
    /\ Tables \in Seq(TableOf)
    /\ "" \notin IdentChars /\ " " \notin IdentChars
BY WordsOk DEF TableOf

LEMMA TypedTexts == (\A t \in Starts : t \in Seq(Symbols)) /\ (\A key \in Keys : key \in Seq(Symbols))
<1>1. Starts \cup Keys \subseteq Seq(Symbols)
  BY WordsOk
<1> QED
  BY <1>1, Zenon

LEMMA LetterSymbols ==
    /\ " " \in Symbols /\ "," \in Symbols /\ "'" \in Symbols
    /\ "FROM" \in Symbols /\ "ON" \in Symbols /\ "NULL" \in Symbols
BY WordsOk

LEMMA ItemType ==
    ASSUME NEW insert \in Seq(Symbols)
    PROVE  Item(insert) \in Items
<1>1. Len(insert) \in Nat /\ <<>> \in Seq(Symbols)
  OBVIOUS
<1> QED
  BY <1>1 DEF Item, ItemTo, Items

LEMMA ItemsOfType ==
    ASSUME NEW words \in Seq(Seq(Symbols))
    PROVE  ItemsOf(words) \in Seq(Items)
<1>1. \A k \in DOMAIN words : Item(words[k]) \in Items
  BY ItemType
<1> QED
  BY <1>1 DEF ItemsOf

LEMMA BeginningType ==
    ASSUME NEW C, NEW words \in Seq(C), NEW prefix
    PROVE  Beginning(words, prefix) \in Seq(C)
BY KeptType DEF Beginning

LEMMA UnfinishedType ==
    ASSUME NEW C, NEW list \in Seq(C), NEW prefix
    PROVE  Unfinished(list, prefix) \in Seq(C)
BY KeptType DEF Unfinished

LEMMA FixedTypes ==
    /\ NextClauseCandidates \in Seq(Items) /\ JoinOnCandidates \in Seq(Items)
    /\ OperatorCandidates \in Seq(Items) /\ ValueCandidates \in Seq(Items)
<1>1. NextClauseCandidates \in Seq(Items) /\ OperatorCandidates \in Seq(Items)
  BY Words, ItemsOfType DEF NextClauseCandidates, OperatorCandidates
<1>2. JoinOnCandidates \in Seq(Items)
  <2>1. <<"ON">> \in Seq(Symbols)
    BY LetterSymbols, ShortLists, Zenon
  <2>2. <<<<"ON">>>> \in Seq(Seq(Symbols))
    BY <2>1, ShortLists, Zenon
  <2> QED BY <2>2, ItemsOfType DEF JoinOnCandidates
<1>3. ValueCandidates \in Seq(Items)
  <2>1. PICK null, quotes : null = <<"NULL">> /\ quotes = <<"'", "'">>
    OBVIOUS
  <2>2. null \in Seq(Symbols) /\ quotes \in Seq(Symbols) /\ Len(quotes) = 2
    BY <2>1, LetterSymbols, ShortLists, Zenon
  <2>3. Item(null) \in Items
    BY <2>2, ItemType
  <2>4. ItemTo(quotes, 1) \in Items
    BY <2>2 DEF ItemTo, Items
  <2>5. <<ItemTo(quotes, 1), Item(null)>> \in Seq(Items)
    BY <2>3, <2>4, ShortLists, Zenon
  <2> QED BY <2>1, <2>5 DEF ValueCandidates
<1> QED
  BY <1>1, <1>2, <1>3

LEMMA KeywordsType ==
    ASSUME NEW prefix
    PROVE  KeywordCandidates(prefix) \in Seq(Items)
<1>1. Beginning(KeywordList, prefix) \in Seq(Seq(Symbols))
  BY Words, BeginningType
<1> QED
  BY <1>1, ItemsOfType DEF KeywordCandidates

LEMMA TablesType ==
    ASSUME NEW prefix
    PROVE  TableCandidates(prefix) \in Seq(Items)
<1>1. PICK names : names = [k \in DOMAIN Tables |-> Tables[k].name]
  OBVIOUS
<1>2. \A k \in DOMAIN Tables : Tables[k].name \in Seq(Symbols)
  <2>1. \A k \in DOMAIN Tables : Tables[k] \in TableOf
    BY Words, EntryOf
  <2> QED BY <2>1 DEF TableOf
<1>3. names \in Seq(Seq(Symbols))
  <2>1. names \in [DOMAIN Tables -> Seq(Symbols)]
    BY <1>1, <1>2
  <2> QED BY <2>1, Words, MadeOf
<1>4. Beginning(names, prefix) \in Seq(Seq(Symbols))
  BY <1>3, BeginningType
<1> QED
  BY <1>1, <1>4, ItemsOfType DEF TableCandidates

LEMMA ColumnsType == AllColumns \in Seq(ColumnOf)
<1> DEFINE columns(k) == [j \in DOMAIN Tables[k].columns |-> [name |-> Tables[k].columns[j], table |-> Tables[k].name]]
<1>1. ASSUME NEW k \in DOMAIN Tables PROVE columns(k) \in Seq(ColumnOf)
  <2>0. Tables[k] \in TableOf
    BY Words, EntryOf
  <2>1. PICK cs, nm : cs = Tables[k].columns /\ nm = Tables[k].name
    OBVIOUS
  <2>2. cs \in Seq(Seq(Symbols)) /\ nm \in Seq(Symbols)
    BY <2>0, <2>1 DEF TableOf
  <2>3. \A j \in DOMAIN cs : cs[j] \in Seq(Symbols)
    BY <2>2, EntryOf
  <2>4. \A j \in DOMAIN cs : [name |-> cs[j], table |-> nm] \in ColumnOf
    BY <2>2, <2>3 DEF ColumnOf
  <2>5. PICK f : f = [j \in DOMAIN cs |-> [name |-> cs[j], table |-> nm]]
    OBVIOUS
  <2>6. f \in [DOMAIN cs -> ColumnOf]
    BY <2>4, <2>5
  <2>7. f \in Seq(ColumnOf)
    BY <2>2, <2>6, MadeOf
  <2> QED BY <2>1, <2>5, <2>7
<1>2. PICK lists : lists = [k \in DOMAIN Tables |-> columns(k)]
  OBVIOUS
<1>3. lists \in Seq(Seq(ColumnOf))
  <2> HIDE DEF columns
  <2>1. lists \in [DOMAIN Tables -> Seq(ColumnOf)]
    BY <1>1, <1>2
  <2> QED BY <2>1, Words, MadeOf
<1>4. FlattenSeq(lists) \in Seq(ColumnOf)
  BY <1>3, FlattenType
<1> QED
  BY <1>2, <1>4 DEF AllColumns

LEMMA ColumnCandidatesType ==
    ASSUME NEW tabs, NEW prefix
    PROVE  ColumnCandidates(tabs, prefix) \in Seq(Items)
<1> DEFINE fits(col) == IF tabs = <<>> THEN ColumnMatches(col, prefix) ELSE col.table = tabs /\ IsPrefix(prefix, col.name)
           S == {k \in DOMAIN AllColumns : fits(AllColumns[k])}
<1>1. PICK mine : mine = Kept(AllColumns, S)
  OBVIOUS
<1>2. mine \in Seq(ColumnOf)
  <2> HIDE DEF S
  <2> QED BY <1>1, ColumnsType, KeptType
<1> DEFINE item(k) == [insert |-> mine[k].name, offset |-> 0, table |-> mine[k].table, plain |-> tabs # <<>> \/ ~Ambiguous(mine[k])]
<1>3. ASSUME NEW k \in DOMAIN mine PROVE item(k) \in Items
  <2>0. mine[k] \in ColumnOf
    BY <1>2, EntryOf
  <2>1. PICK nm, tab : nm = mine[k].name /\ tab = mine[k].table /\ nm \in Seq(Symbols) /\ tab \in Seq(Symbols)
    BY <2>0 DEF ColumnOf
  <2>2. Len(nm) \in Nat
    BY <2>1
  <2>3. PICK p \in BOOLEAN : p = (tabs # <<>> \/ ~Ambiguous(mine[k]))
    OBVIOUS
  <2>4. [insert |-> nm, offset |-> 0, table |-> tab, plain |-> p] \in Items
    BY <2>1, <2>2 DEF Items
  <2> QED BY <2>1, <2>3, <2>4
<1>4. PICK f : f = [k \in DOMAIN mine |-> item(k)]
  OBVIOUS
<1>5. f \in Seq(Items)
  <2> HIDE DEF item
  <2>1. f \in [DOMAIN mine -> Items]
    BY <1>3, <1>4
  <2> QED BY <2>1, <1>2, MadeOf
<1>6. ColumnCandidates(tabs, prefix) = f
  BY <1>1, <1>4 DEF ColumnCandidates
<1> QED
  BY <1>5, <1>6

LEMMA OrKeywordsType ==
    ASSUME NEW list \in Seq(Items), NEW prefix
    PROVE  OrKeywords(list, prefix) \in Seq(Items)
BY KeywordsType, UnfinishedType DEF OrKeywords

LEMMA CandidatesType ==
    ASSUME NEW x, IsContext(x), NEW prefix
    PROVE  Candidates(x, prefix) \in Seq(Items)
<1>1. PICK keywords : keywords = IF prefix = <<>> THEN <<>> ELSE Unfinished(KeywordCandidates(prefix), prefix)
  OBVIOUS
<1>2. keywords \in Seq(Items)
  BY <1>1, KeywordsType, UnfinishedType
<1>3. OrKeywords(Unfinished(TableCandidates(prefix), prefix), prefix) \in Seq(Items)
  BY TablesType, UnfinishedType, OrKeywordsType
<1>4. OrKeywords(Unfinished(ColumnCandidates(x.table, prefix), prefix), prefix) \in Seq(Items)
  BY ColumnCandidatesType, UnfinishedType, OrKeywordsType
<1>5. ItemsOf(Beginning(x.tables, prefix)) \in Seq(Items)
  BY BeginningType, ItemsOfType DEF IsContext
<1>6. <<>> \in Seq(Items)
  OBVIOUS
<1>7. \A kind \in Kinds : x.kind = kind => Candidates(x, prefix) \in Seq(Items)
  <2>1. x.kind = "keyword" => Candidates(x, prefix) \in Seq(Items)
    BY <1>1, <1>2, Zenon DEF Candidates
  <2>2. x.kind = "table" => Candidates(x, prefix) \in Seq(Items)
    BY <1>3, Zenon DEF Candidates
  <2>3. x.kind = "column" => Candidates(x, prefix) \in Seq(Items)
    BY <1>4, Zenon DEF Candidates
  <2>4. x.kind \in {"next_clause", "join_on", "operator", "value"} => Candidates(x, prefix) \in Seq(Items)
    BY FixedTypes, Zenon DEF Candidates
  <2>5. x.kind = "join_table" => Candidates(x, prefix) \in Seq(Items)
    BY <1>5, Zenon DEF Candidates
  <2>6. x.kind = "none" => Candidates(x, prefix) \in Seq(Items)
    BY <1>6, Zenon DEF Candidates
  <2> QED BY <2>1, <2>2, <2>3, <2>4, <2>5, <2>6 DEF Kinds
<1> QED
  BY <1>7 DEF IsContext

LEMMA CompleteType ==
    ASSUME NEW t \in Seq(Symbols), NEW c \in 0 .. Len(t)
    PROVE  Complete(t, c) \in Seq(Items)
<1> DEFINE prefix == ExtractPrefix(t, c)
           context == ParseContext(t, c)
           next == ParseContext(Append(Before(t, c), " "), c + 1)
           compound == IF context = Column(<<>>) THEN ExtractCompoundPrefix(t, c) ELSE <<>>
           both == IF compound = <<>> THEN <<>> ELSE Candidates(context, compound)
<1>1. IsContext(context)
  BY ParseContextType
<1>2. IsContext(next)
  <2>1. PICK b, blank, u : b = Before(t, c) /\ blank = " " /\ u = Append(b, blank)
    OBVIOUS
  <2>0. c \in Nat
    OBVIOUS
  <2>2. b \in Seq(Symbols) /\ Len(b) = c /\ blank \in Symbols
    <3>1. Before(t, c) \in Seq(Symbols) /\ Len(Before(t, c)) = c
      BY CutType
    <3>2. " " \in Symbols
      BY LetterSymbols
    <3> QED BY <2>1, <3>1, <3>2, Zenon
  <2>3. u \in Seq(Symbols) /\ Len(u) = c + 1 /\ c + 1 \in 0 .. c + 1
    <3>1. Append(b, blank) \in Seq(Symbols) /\ Len(Append(b, blank)) = c + 1
      BY <2>0, <2>2, AppendProperties
    <3>2. u \in Seq(Symbols) /\ Len(u) = c + 1
      BY <2>1, <3>1, Zenon
    <3>3. c + 1 \in 0 .. c + 1
      BY <2>0
    <3> QED BY <3>2, <3>3
  <2>4. IsContext(ParseContext(u, c + 1))
    BY <2>3, ParseContextType
  <2> QED BY <2>1, <2>4
<1>3. \A p : Candidates(context, p) \in Seq(Items) /\ Candidates(next, p) \in Seq(Items)
  <2> HIDE DEF context, next
  <2> QED BY <1>1, <1>2, CandidatesType
<1>4. both \in Seq(Items)
  <2>1. <<>> \in Seq(Items)
    OBVIOUS
  <2> HIDE DEF context, compound
  <2> QED BY <1>3, <2>1
<1>5. PICK rest : rest = IF both # <<>> THEN both ELSE Candidates(context, prefix)
  OBVIOUS
<1>6. rest \in Seq(Items)
  <2> HIDE DEF context, prefix, both
  <2> QED BY <1>3, <1>4, <1>5
<1>7. Complete(t, c) = Candidates(next, <<>>) \/ Complete(t, c) = rest
  BY <1>5, Zenon DEF Complete
<1> QED
  BY <1>3, <1>6, <1>7

(***************************************************************************)
(* Putting a candidate in                                                  *)
(***************************************************************************)

(* Words are replaced whole: n is where what is replaced of t begins.      *)
Whole(t, c, item, n) ==
    /\ n \in 0 .. c
    /\ n = c \/ At(t, n) \notin IdentChars
    /\ SubSeq(t, n + 1, c) \in {<<>>, ExtractPrefix(t, c), item.insert \o <<" ">> \o ExtractPrefix(t, c)}

LEMMA FromWhere ==
    ASSUME NEW t \in Seq(Symbols), NEW c \in 0 .. Len(t), NEW item \in Items
    PROVE  Whole(t, c, item, ReplacedFrom(t, c, item))
<1>1. PICK start, len, wider : start = FindPrefixStart(t, c) /\ len = Len(item.insert) /\ wider = start - len - 1
  OBVIOUS
<1>2. c \in Nat /\ c <= Len(t) /\ len \in Nat
  <2>1. item.insert \in Seq(Symbols)
    BY DEF Items
  <2> QED BY <1>1, <2>1
<1>3. start \in 0 .. c /\ (start # 0 => t[start] \notin IdentChars)
  BY <1>1, <1>2, PrefixStart
<1>4. PICK from : from = ReplacedFrom(t, c, item)
  OBVIOUS
<1>5. CASE /\ item.table # <<>> /\ wider >= 0
           /\ SubSeq(t, wider + 1, start) = item.insert \o <<" ">>
           /\ wider = 0 \/ t[wider] = " "
  <2>1. from = wider
    BY <1>1, <1>4, <1>5 DEF ReplacedFrom
  <2>2. wider \in 0 .. start /\ wider \in 0 .. c
    <3>1. wider >= 0 /\ wider = start - len - 1 /\ start \in 0 .. c
      BY <1>1, <1>3, <1>5, Zenon
    <3> QED BY <1>2, <3>1
  <2>3. At(t, wider) \notin IdentChars
    <3>1. wider = 0 => At(t, wider) = ""
      BY DEF At
    <3>2. t[wider] = " " => At(t, wider) \in {"", " "}
      BY DEF At
    <3> QED BY <1>5, <3>1, <3>2, Words
  <2>4. SubSeq(t, wider + 1, c) = SubSeq(t, wider + 1, start) \o SubSeq(t, start + 1, c)
    <3>1. PICK a : a = wider + 1
      OBVIOUS
    <3>2. a \in 1 .. Len(t) + 1 /\ start \in a - 1 .. Len(t) /\ c \in start .. Len(t)
      BY <1>2, <1>3, <2>2, <3>1
    <3> QED BY <3>1, <3>2, ConcatAdjacentSubSeq
  <2>5. SubSeq(t, wider + 1, c) = item.insert \o <<" ">> \o ExtractPrefix(t, c)
    BY <1>1, <1>5, <2>4 DEF ExtractPrefix
  <2> QED
    BY <1>4, <2>1, <2>2, <2>3, <2>5 DEF Whole
<1>6. CASE ~ (/\ item.table # <<>> /\ wider >= 0
              /\ SubSeq(t, wider + 1, start) = item.insert \o <<" ">>
              /\ wider = 0 \/ t[wider] = " ")
  <2>1. from = start
    BY <1>1, <1>4, <1>6 DEF ReplacedFrom
  <2>2. At(t, start) \notin IdentChars
    <3>1. start = 0 => At(t, start) = ""
      BY DEF At
    <3>0. start # 0 => start \in 1 .. Len(t)
      BY <1>2, <1>3
    <3>2. start # 0 => At(t, start) = t[start]
      BY <3>0, Zenon DEF At
    <3> QED BY <1>3, <3>1, <3>2, Words
  <2>3. SubSeq(t, start + 1, c) = ExtractPrefix(t, c)
    BY <1>1 DEF ExtractPrefix
  <2> QED
    BY <1>3, <1>4, <2>1, <2>2, <2>3 DEF Whole
<1> QED
  BY <1>5, <1>6

(* The text and the cursor that a candidate leaves.                        *)
IsPut(put) == put.text \in Seq(Symbols) /\ put.cursor \in 0 .. Len(put.text)

PutsIn(put, front, insert, right) == IsPut(put) /\ put.text = front \o insert \o right

LEMMA PutType ==
    ASSUME NEW front \in Seq(Symbols), NEW insert \in Seq(Symbols), NEW right \in Seq(Symbols),
           NEW cur \in Nat, cur <= Len(front) + Len(insert)
    PROVE  PutsIn(Put(front, insert, right, cur), front, insert, right)
<1>1. PICK put : put = Put(front, insert, right, cur)
  OBVIOUS
<1>2. put.text = front \o insert \o right /\ put.cursor = cur
  BY <1>1 DEF Put
<1>3. put.text \in Seq(Symbols) /\ Len(put.text) = Len(front) + Len(insert) + Len(right)
  BY <1>2
<1> QED
  BY <1>1, <1>2, <1>3 DEF IsPut, PutsIn

(* What is put in stands between what is left of n and what is right of    *)
(* the cursor.                                                             *)
Beside(t, c, item, n, full) ==
    \E left \in {Before(t, n), TrimEnd(Before(t, n))}, gap \in {<<>>, <<" ">>, <<",", " ">>} :
        full = left \o gap \o item.insert \o After(t, c)

PutWhole(t, c, item, put) ==
    IsPut(put) /\ \E n \in 0 .. c : Whole(t, c, item, n) /\ Beside(t, c, item, n, put.text)

LEMMA Gaps == <<>> \in Seq(Symbols) /\ <<" ">> \in Seq(Symbols) /\ <<",", " ">> \in Seq(Symbols)
               /\ <<" ", "FROM", " ">> \in Seq(Symbols)
<1>1. \A x, y \in Symbols : <<>> \in Seq(Symbols) /\ <<x>> \in Seq(Symbols) /\ <<x, y>> \in Seq(Symbols)
                          /\ <<x, y, x>> \in Seq(Symbols)
  OBVIOUS
<1> QED
  BY <1>1, LetterSymbols, Zenon

LEMMA WholeIn ==
    ASSUME NEW t \in Seq(Symbols), NEW c \in 0 .. Len(t), NEW item, NEW n, Whole(t, c, item, n)
    PROVE  n \in 0 .. c /\ n \in Int /\ n <= Len(t) /\ c \in Int /\ c >= 0 /\ c <= Len(t)
<1>1. n \in 0 .. c
  BY Zenon DEF Whole
<1> QED
  BY <1>1

LEMMA Joined ==
    ASSUME NEW S, NEW a \in Seq(S), NEW b \in Seq(S), NEW d, d = a \o b
    PROVE  d \in Seq(S) /\ Len(d) \in Nat
OBVIOUS

LEMMA BesideIs ==
    ASSUME NEW t \in Seq(Symbols), NEW c \in 0 .. Len(t), NEW item \in Items, NEW n, Whole(t, c, item, n),
           NEW left, left \in {Before(t, n), TrimEnd(Before(t, n))},
           NEW gap, gap \in {<<>>, <<" ">>, <<",", " ">>},
           NEW front, front = left \o gap, NEW cur \in Nat, cur <= Len(front) + Len(item.insert)
    PROVE  front \in Seq(Symbols) /\ PutWhole(t, c, item, Put(front, item.insert, After(t, c), cur))
<1>1. n \in 0 .. c /\ n \in Int /\ n <= Len(t) /\ c \in Int /\ c >= 0 /\ c <= Len(t)
  BY WholeIn
<1>2. PICK b : b = Before(t, n)
  OBVIOUS
<1>3. b \in Seq(Symbols)
  BY <1>1, <1>2, CutType
<1>4. left \in Seq(Symbols)
  BY <1>2, <1>3, TrimEndType
<1>5. gap \in Seq(Symbols)
  BY Gaps
<1>6. After(t, c) \in Seq(Symbols) /\ item.insert \in Seq(Symbols)
  BY <1>1, CutType DEF Items
<1>7. front \in Seq(Symbols)
  BY <1>4, <1>5, Joined
<1>8. PICK put : put = Put(front, item.insert, After(t, c), cur)
  OBVIOUS
<1>9. IsPut(put) /\ put.text = front \o item.insert \o After(t, c)
  <2>1. PICK insert, right : insert = item.insert /\ right = After(t, c)
    OBVIOUS
  <2>2. insert \in Seq(Symbols) /\ right \in Seq(Symbols) /\ cur <= Len(front) + Len(insert)
    BY <1>6, <2>1
  <2>3. cur \in Nat
    BY <2>2
  <2>4. PutsIn(Put(front, insert, right, cur), front, insert, right)
    BY <1>7, <2>2, <2>3, PutType
  <2> QED BY <1>8, <2>1, <2>4 DEF PutsIn
<1>10. Beside(t, c, item, n, put.text)
  BY <1>9, Zenon DEF Beside
<1> QED
  BY <1>1, <1>7, <1>8, <1>9, <1>10 DEF PutWhole

LEMMA InListWhole ==
    ASSUME NEW t \in Seq(Symbols), NEW c \in 0 .. Len(t), NEW item \in Items, NEW n, Whole(t, c, item, n)
    PROVE  PutWhole(t, c, item, PutInList(t, c, item, n))
<1> DEFINE put(front) == Put(front, item.insert, After(t, c), Len(front) + Len(item.insert))
<1>1. item.insert \in Seq(Symbols) /\ Len(item.insert) \in Nat
  BY DEF Items
<1>2. Before(t, n) \in Seq(Symbols)
  <2>1. n \in Int /\ n <= Len(t)
    BY WholeIn
  <2> QED BY <2>1, CutType
<1>3. TrimEnd(Before(t, n)) \in Seq(Symbols)
  BY <1>2, TrimEndType
<1>4. ASSUME NEW left, left \in {Before(t, n), TrimEnd(Before(t, n))}, NEW gap, gap \in {<<>>, <<",", " ">>},
             NEW front, front = left \o gap
      PROVE  PutWhole(t, c, item, put(front))
  <2>1. left \in Seq(Symbols)
    BY <1>2, <1>3, <1>4
  <2>2. gap \in Seq(Symbols)
    BY <1>4, Gaps
  <2>3. front \in Seq(Symbols) /\ Len(front) \in Nat
    BY <1>4, <2>1, <2>2, Joined
  <2>4. PICK cur : cur = Len(front) + Len(item.insert)
    OBVIOUS
  <2>5. cur \in Nat /\ cur <= Len(front) + Len(item.insert)
    BY <1>1, <2>3, <2>4
  <2>6. gap \in {<<>>, <<" ">>, <<",", " ">>}
    BY <1>4
  <2> QED BY <1>4, <2>4, <2>5, <2>6, BesideIs
<1>5. PutWhole(t, c, item, put(TrimEnd(Before(t, n)) \o <<",", " ">>))
  <2> HIDE DEF put
  <2> QED BY <1>4
<1>6. PutWhole(t, c, item, put(Before(t, n)))
  <2>1. Before(t, n) = Before(t, n) \o <<>>
    BY <1>2, ConcatEmptySeq
  <2> HIDE DEF put
  <2> QED BY <1>4, <2>1
<1>7. PutInList(t, c, item, n) \in {put(TrimEnd(Before(t, n)) \o <<",", " ">>), put(Before(t, n))}
  BY Zenon DEF PutInList
<1> HIDE DEF put
<1> QED
  BY <1>5, <1>6, <1>7

LEMMA ElsewhereWhole ==
    ASSUME NEW t \in Seq(Symbols), NEW c \in 0 .. Len(t), NEW item \in Items, NEW n, Whole(t, c, item, n)
    PROVE  PutWhole(t, c, item, PutElsewhere(t, c, item, n))
<1>1. PICK step : step = IF item.offset > 0 THEN item.offset ELSE Len(item.insert)
  OBVIOUS
<1>2. step \in Nat /\ step <= Len(item.insert) /\ Len(item.insert) \in Nat
  <2>1. item.insert \in Seq(Symbols) /\ item.offset \in Nat /\ item.offset <= Len(item.insert)
    BY DEF Items
  <2>2. Len(item.insert) \in Nat
    BY <2>1
  <2> QED BY <1>1, <2>1, <2>2
<1> DEFINE put(front) == Put(front, item.insert, After(t, c), Len(front) + step)
<1>3. n \in Int /\ n <= Len(t) /\ c \in Int /\ c <= Len(t) /\ c >= 0
  BY WholeIn
<1>4. ASSUME NEW m, Whole(t, c, item, m), NEW gap, gap \in {<<>>, <<" ">>}, NEW front, front = Before(t, m) \o gap
      PROVE  PutWhole(t, c, item, put(front))
  <2>1. Before(t, m) \in Seq(Symbols)
    <3>1. m \in Int /\ m <= Len(t)
      BY <1>4, WholeIn
    <3> QED BY <3>1, CutType
  <2>2. gap \in Seq(Symbols)
    BY <1>4, Gaps
  <2>3. front \in Seq(Symbols) /\ Len(front) \in Nat
    BY <1>4, <2>1, <2>2, Joined
  <2>4. PICK cur : cur = Len(front) + step
    OBVIOUS
  <2>5. cur \in Nat /\ cur <= Len(front) + Len(item.insert)
    BY <1>2, <2>3, <2>4
  <2>6. gap \in {<<>>, <<" ">>, <<",", " ">>}
    BY <1>4
  <2>7. PICK left : left = Before(t, m) /\ left \in {Before(t, m), TrimEnd(Before(t, m))}
    OBVIOUS
  <2> QED BY <1>4, <2>4, <2>5, <2>6, <2>7, BesideIs
<1>5. PutWhole(t, c, item, put(Before(t, n)))
  <2>1. Before(t, n) = Before(t, n) \o <<>>
    BY <1>3, CutType, ConcatEmptySeq
  <2> HIDE DEF put
  <2> QED BY <1>4, <2>1
<1>6. Whole(t, c, item, c)
  <2>1. SubSeq(t, c + 1, c) = <<>>
    BY <1>3, SubSeqEmpty
  <2>2. c \in 0 .. c
    BY <1>3
  <2> QED BY <2>1, <2>2, Zenon DEF Whole
<1>7. \A gap \in {<<>>, <<" ">>} : PutWhole(t, c, item, put(Before(t, c) \o gap))
  <2> HIDE DEF put
  <2> QED BY <1>4, <1>6
<1>8. PutElsewhere(t, c, item, n) \in {put(Before(t, n)), put(Before(t, c) \o <<>>), put(Before(t, c) \o <<" ">>)}
  BY <1>1, Zenon DEF PutElsewhere
<1> HIDE DEF put
<1> QED
  BY <1>5, <1>7, <1>8

(* A word stays whole, and what stands left and right of it stays.         *)
LEMMA AcceptWhole ==
    ASSUME NEW t \in Seq(Symbols), NEW c \in 0 .. Len(t), NEW item \in Items,
           NEW done, done = AcceptCompletion(t, c, item)
    PROVE  /\ IsPut(done)
           /\ \E put : /\ PutWhole(t, c, item, put)
                       /\ done.text \in {put.text, TrimEnd(put.text) \o <<" ", "FROM", " ">> \o item.table}
<1>1. PICK n : n = ReplacedFrom(t, c, item) /\ Whole(t, c, item, n)
  BY FromWhere
<1>2. PICK put : /\ PutWhole(t, c, item, put)
                 /\ done \in {put, [text |-> TrimEnd(put.text) \o <<" ", "FROM", " ">> \o item.table,
                                    cursor |-> Len(TrimEnd(put.text) \o <<" ", "FROM", " ">> \o item.table)]}
  <2>1. PICK put : /\ put \in {PutInList(t, c, item, n), PutElsewhere(t, c, item, n)}
                   /\ done \in {put, [text |-> TrimEnd(put.text) \o <<" ", "FROM", " ">> \o item.table,
                                      cursor |-> Len(TrimEnd(put.text) \o <<" ", "FROM", " ">> \o item.table)]}
    BY <1>1, Zenon DEF AcceptCompletion
  <2>2. PutWhole(t, c, item, PutInList(t, c, item, n))
    BY <1>1, InListWhole
  <2>3. PutWhole(t, c, item, PutElsewhere(t, c, item, n))
    BY <1>1, ElsewhereWhole
  <2> QED BY <2>1, <2>2, <2>3, Zenon
<1>3. PICK solid, clause, full : /\ solid = TrimEnd(put.text) /\ clause = <<" ", "FROM", " ">>
                                 /\ full = solid \o clause \o item.table
  OBVIOUS
<1>4. solid \in Seq(Symbols) /\ item.table \in Seq(Symbols) /\ clause \in Seq(Symbols)
  <2>1. put.text \in Seq(Symbols)
    BY <1>2 DEF PutWhole, IsPut
  <2>2. solid \in Seq(Symbols)
    BY <1>3, <2>1, TrimEndType
  <2>3. item.table \in Seq(Symbols)
    BY DEF Items
  <2> QED BY <1>3, <2>2, <2>3, Gaps
<1>5. full \in Seq(Symbols) /\ Len(full) \in 0 .. Len(full)
  <2>1. PICK head : head = solid \o clause
    OBVIOUS
  <2>2. head \in Seq(Symbols)
    BY <1>4, <2>1, Joined
  <2>3. full = head \o item.table
    BY <1>3, <2>1
  <2>4. full \in Seq(Symbols) /\ Len(full) \in Nat
    BY <1>4, <2>2, <2>3, Joined
  <2> QED BY <2>4
<1>6. CASE done = put
  BY <1>2, <1>6 DEF PutWhole
<1>7. CASE done = [text |-> full, cursor |-> Len(full)]
  <2>1. done.text = full /\ done.cursor = Len(full)
    BY <1>7
  <2> QED BY <1>2, <1>3, <1>5, <2>1 DEF IsPut
<1> QED
  BY <1>2, <1>3, <1>6, <1>7

(***************************************************************************)
(* The popup                                                               *)
(***************************************************************************)

(* What an action leaves in the editor, and in the popup.                  *)
InText == text \in Seq(Symbols) /\ cursor \in 0 .. Len(text)
OnItsWay == /\ timer \in Asked \cup {Nothing} /\ requests \subseteq Asked
            /\ answers \in Seq(Seq(Items))
InPopup == /\ items \in Seq(Items) /\ visible \in BOOLEAN /\ selected \in Nat
           /\ visible => selected \in 0 .. Len(items) - 1
Counted == edits \in 0 .. MaxEdits

PopupInv == InText /\ OnItsWay /\ InPopup /\ Counted

LEMMA PopupInvIs == PopupInv <=> CompletionOK /\ SelectionInRange
BY DEF PopupInv, InText, OnItsWay, InPopup, Counted, CompletionOK, SelectionInRange

LEMMA AskingType ==
    ASSUME NEW t \in Seq(Symbols), NEW c \in 0 .. Len(t)
    PROVE  Asking(t, c) \in Asked
<1>1. c \in Nat /\ c <= Len(t)
  OBVIOUS
<1> QED
  BY <1>1 DEF Asking, Asked

LEMMA PopupInitially == CompletionInit => PopupInv
<1> SUFFICES ASSUME CompletionInit PROVE PopupInv
  OBVIOUS
<1>1. text \in Seq(Symbols) /\ cursor = Len(text)
  BY TypedTexts, Zenon DEF CompletionInit
<1>2. Len(text) \in 0 .. Len(text)
  BY <1>1
<1>3. OnItsWay
  BY DEF CompletionInit, OnItsWay
<1>4. InPopup
  <2>1. visible = FALSE /\ items = <<>> /\ selected = 0
    BY DEF CompletionInit
  <2>2. items \in Seq(Items) /\ selected \in Nat
    BY <2>1
  <2>3. visible \in BOOLEAN /\ ~visible
    BY <2>1, Zenon
  <2> QED BY <2>2, <2>3 DEF InPopup
<1>5. Counted
  BY CountsNat DEF CompletionInit, Counted
<1> QED
  BY <1>1, <1>2, <1>3, <1>4, <1>5 DEF PopupInv, InText

LEMMA CountedKept == Counted /\ CountEdit => Counted'
BY CountsNat DEF Counted, CountEdit

(* A keystroke that leaves the cursor in the text.                         *)
LEMMA KeystrokeKeeps ==
    ASSUME PopupInv, InText', CountEdit, NEW closed, FetchCompletion(closed),
           UNCHANGED <<requests, answers, items, selected>>
    PROVE  PopupInv'
<1>1. Asking(text', cursor') \in Asked
  BY AskingType DEF InText
<1>2. timer' \in {Nothing, Asking(text', cursor')} /\ visible' \in BOOLEAN /\ (visible' => visible)
  BY DEF FetchCompletion, PopupInv, InPopup
<1>3. OnItsWay'
  BY <1>1, <1>2 DEF PopupInv, OnItsWay
<1>4. InPopup'
  BY <1>2 DEF PopupInv, InPopup
<1>5. Counted'
  BY CountedKept DEF PopupInv
<1> QED
  BY <1>3, <1>4, <1>5 DEF PopupInv

LEMMA CursorCuts ==
    ASSUME InText, NEW c \in 0 .. cursor
    PROVE  /\ Before(text, c) \in Seq(Symbols) /\ Len(Before(text, c)) = c
           /\ After(text, cursor) \in Seq(Symbols) /\ Len(After(text, cursor)) = Len(text) - cursor
           /\ Len(text) - cursor \in Nat /\ cursor \in Nat /\ c \in Nat
<1>1. Len(text) \in Nat
  BY DEF InText
<1>2. c \in Int /\ c >= 0 /\ c <= Len(text) /\ cursor \in Int /\ cursor >= 0 /\ cursor <= Len(text)
  BY <1>1 DEF InText
<1>3. Before(text, c) \in Seq(Symbols) /\ Len(Before(text, c)) = c
  BY <1>2, CutType DEF InText
<1>4. After(text, cursor) \in Seq(Symbols) /\ Len(After(text, cursor)) = Len(text) - cursor
  BY <1>2, CutType DEF InText
<1> QED
  BY <1>1, <1>2, <1>3, <1>4

LEMMA KeyKeeps ==
    ASSUME PopupInv, NEW key \in Keys, Type(key)
    PROVE  PopupInv'
<1>1. key \in Seq(Symbols) /\ Len(key) \in Nat
  BY TypedTexts
<1>2. PICK left, right : left = Before(text, cursor) /\ right = After(text, cursor)
  OBVIOUS
<1>3. left \in Seq(Symbols) /\ Len(left) = cursor /\ right \in Seq(Symbols) /\ Len(right) \in Nat /\ cursor \in Nat
  <2>1. InText /\ cursor \in 0 .. cursor
    BY DEF PopupInv, InText
  <2> QED BY <1>2, <2>1, CursorCuts
<1>4. text' = left \o key \o right /\ cursor' = cursor + Len(key)
  BY <1>2 DEF Type
<1>5. left \o key \o right \in Seq(Symbols) /\ Len(left \o key \o right) = cursor + Len(key) + Len(right)
  BY <1>1, <1>3
<1>6. InText'
  BY <1>1, <1>3, <1>4, <1>5 DEF InText
<1>7. PICK closed : closed = (key \in {<<" ">>, <<",">>, <<"semicolon">>, <<"(">>, <<")">>})
  OBVIOUS
<1>8. CountEdit /\ FetchCompletion(closed) /\ UNCHANGED <<requests, answers, items, selected>>
  BY <1>7, Zenon DEF Type
<1> QED
  BY <1>6, <1>8, KeystrokeKeeps

LEMMA BackspaceKeeps ==
    ASSUME PopupInv, Backspace
    PROVE  PopupInv'
<1>1. PICK left, right : left = Before(text, cursor - 1) /\ right = After(text, cursor)
  OBVIOUS
<1>2. left \in Seq(Symbols) /\ Len(left) = cursor - 1 /\ right \in Seq(Symbols) /\ Len(right) \in Nat /\ cursor - 1 \in Nat
  <2>1. InText
    BY DEF PopupInv
  <2>2. PICK c : c = cursor - 1
    OBVIOUS
  <2>3. c \in 0 .. cursor /\ c \in Nat
    BY <2>1, <2>2 DEF Backspace, InText
  <2> QED BY <1>1, <2>1, <2>2, <2>3, CursorCuts
<1>3. text' = left \o right /\ cursor' = cursor - 1
  BY <1>1 DEF Backspace
<1>4. left \o right \in Seq(Symbols) /\ Len(left \o right) = cursor - 1 + Len(right)
  BY <1>2
<1>5. InText'
  BY <1>2, <1>3, <1>4 DEF InText
<1>6. CountEdit /\ FetchCompletion(FALSE) /\ UNCHANGED <<requests, answers, items, selected>>
  BY DEF Backspace
<1> QED
  BY <1>5, <1>6, KeystrokeKeeps

LEMMA MoveKeeps ==
    ASSUME PopupInv, NEW c \in 0 .. Len(text), MoveCursor(c)
    PROVE  PopupInv'
<1>1. InText'
  BY DEF MoveCursor, PopupInv, InText
<1>2. OnItsWay' /\ InPopup'
  BY DEF MoveCursor, PopupInv, OnItsWay, InPopup, popup
<1>3. Counted'
  BY CountedKept DEF MoveCursor, PopupInv
<1> QED
  BY <1>1, <1>2, <1>3 DEF PopupInv

LEMMA SwitchKeeps ==
    ASSUME PopupInv, NEW t \in Starts, NEW byKey \in BOOLEAN, SwitchTab(t, byKey)
    PROVE  PopupInv'
<1>1. t \in Seq(Symbols) /\ Len(t) \in Nat
  BY TypedTexts
<1>2. InText'
  BY <1>1 DEF SwitchTab, InText
<1>3. OnItsWay' /\ InPopup'
  BY DEF SwitchTab, PopupInv, OnItsWay, InPopup
<1>4. Counted'
  BY CountedKept DEF SwitchTab, PopupInv
<1> QED
  BY <1>2, <1>3, <1>4 DEF PopupInv

LEMMA AskKeeps ==
    ASSUME PopupInv, TimerFires \/ TriggerCompletion
    PROVE  PopupInv'
<1>1. InText' /\ InPopup' /\ Counted'
  BY DEF TimerFires, TriggerCompletion, PopupInv, InText, InPopup, Counted, popup
<1>2. OnItsWay'
  <2>1. Asking(text, cursor) \in Asked
    BY AskingType DEF PopupInv, InText
  <2>2. CASE TimerFires
    BY <2>2 DEF TimerFires, PopupInv, OnItsWay
  <2>3. CASE TriggerCompletion
    BY <2>1, <2>3 DEF TriggerCompletion, PopupInv, OnItsWay
  <2> QED BY <2>2, <2>3
<1> QED
  BY <1>1, <1>2 DEF PopupInv

LEMMA HandleKeeps ==
    ASSUME PopupInv, NEW r \in requests, HandleFetchCompletion(r)
    PROVE  PopupInv'
<1>1. InText' /\ InPopup' /\ Counted'
  BY DEF HandleFetchCompletion, PopupInv, InText, InPopup, Counted, popup
<1>2. Complete(r.text, r.cursor) \in Seq(Items)
  <2>1. r \in Asked
    BY DEF PopupInv, OnItsWay
  <2>2. PICK t, c : t = r.text /\ c = r.cursor
    OBVIOUS
  <2>3. t \in Seq(Symbols) /\ c \in Nat /\ c <= Len(t)
    BY <2>1, <2>2 DEF Asked
  <2>4. c \in 0 .. Len(t)
    BY <2>3
  <2> QED BY <2>2, <2>3, <2>4, CompleteType
<1>3. PICK more : more = Complete(r.text, r.cursor)
  OBVIOUS
<1>4. answers' = Append(answers, more) /\ timer' = timer /\ requests' = requests \ {r}
  BY <1>3 DEF HandleFetchCompletion
<1>5. answers' \in Seq(Seq(Items))
  BY <1>2, <1>3, <1>4, AppendProperties DEF PopupInv, OnItsWay
<1>6. OnItsWay'
  BY <1>4, <1>5 DEF PopupInv, OnItsWay
<1> QED
  BY <1>1, <1>6 DEF PopupInv

(* The answer is shown with its first row selected.                        *)
LEMMA AnswerKeeps ==
    ASSUME PopupInv, CompletionReady
    PROVE  PopupInv'
<1>1. InText' /\ Counted'
  BY DEF CompletionReady, PopupInv, InText, Counted
<1>2. PICK first : first = Head(answers)
  OBVIOUS
<1>3. first \in Seq(Items) /\ Tail(answers) \in Seq(Seq(Items))
  BY <1>2, HeadTailProperties DEF PopupInv, OnItsWay, CompletionReady
<1>4. OnItsWay'
  BY <1>3 DEF CompletionReady, PopupInv, OnItsWay
<1>5. CASE first = <<>>
  <2>1. visible' = FALSE /\ items' = items /\ selected' = selected
    BY <1>2, <1>5 DEF CompletionReady
  <2> QED BY <1>1, <1>4, <2>1 DEF PopupInv, InPopup
<1>6. CASE first # <<>>
  <2>1. visible' = TRUE /\ items' = first /\ selected' = 0
    BY <1>2, <1>6 DEF CompletionReady
  <2>2. Len(first) \in Nat \ {0}
    BY <1>3, <1>6, EmptySeq
  <2> QED BY <1>1, <1>3, <1>4, <2>1, <2>2 DEF PopupInv, InPopup
<1> QED
  BY <1>1, <1>4, <1>5, <1>6 DEF PopupInv

LEMMA RowKeeps ==
    ASSUME PopupInv, SelectRow \/ ClosePopup
    PROVE  PopupInv'
<1>1. InText' /\ OnItsWay' /\ Counted'
  BY DEF SelectRow, ClosePopup, PopupInv, InText, OnItsWay, Counted
<1>2. CASE SelectRow
  <2>1. selected \in 0 .. Len(items) - 1 /\ Len(items) \in Nat
    BY <1>2 DEF SelectRow, PopupInv, InPopup
  <2>2. (selected' = selected - 1 /\ selected > 0) \/ (selected' = selected + 1 /\ selected < Len(items) - 1)
    BY <1>2 DEF SelectRow
  <2>3. selected' \in Nat /\ selected' \in 0 .. Len(items) - 1
    BY <2>1, <2>2
  <2> QED BY <1>1, <1>2, <2>3 DEF SelectRow, PopupInv, InPopup
<1>3. CASE ClosePopup
  BY <1>1, <1>3 DEF ClosePopup, PopupInv, InPopup
<1> QED
  BY <1>2, <1>3

(* The row that Enter reads is a candidate.                                *)
LEMMA ReadsRow ==
    ASSUME PopupInv, visible
    PROVE  items[selected + 1] \in Items
<1>1. selected + 1 \in DOMAIN items /\ items \in Seq(Items)
  <2>1. selected \in 0 .. Len(items) - 1 /\ items \in Seq(Items)
    BY DEF PopupInv, InPopup
  <2>2. DOMAIN items = 1 .. Len(items) /\ Len(items) \in Nat
    BY <2>1
  <2>3. selected + 1 \in 1 .. Len(items)
    BY <2>1, <2>2
  <2> QED BY <2>1, <2>2, <2>3
<1> QED
  BY <1>1, EntryOf

LEMMA AcceptKeeps ==
    ASSUME PopupInv, Accept
    PROVE  PopupInv'
<1>1. PICK item, done : /\ item = items[selected + 1] /\ item \in Items
                        /\ done = AcceptCompletion(text, cursor, item)
  BY ReadsRow DEF Accept
<1>2. IsPut(done)
  <2>1. text \in Seq(Symbols) /\ cursor \in 0 .. Len(text)
    BY DEF PopupInv, InText
  <2> QED BY <1>1, <2>1, AcceptWhole
<1>3. text' = done.text /\ cursor' = done.cursor /\ requests' = requests \cup AskedAgain(item, done)
  BY <1>1 DEF Accept
<1>4. InText'
  BY <1>2, <1>3 DEF IsPut, InText
<1>5. AskedAgain(item, done) \subseteq Asked
  <2>1. PICK s, t, c, blank : s = done.text /\ t = Append(s, blank) /\ c = done.cursor /\ blank = " "
    OBVIOUS
  <2>2. s \in Seq(Symbols) /\ c \in 0 .. Len(s) /\ blank \in Symbols
    BY <1>2, <2>1, LetterSymbols, Zenon DEF IsPut
  <2>3. t \in Seq(Symbols) /\ Len(t) = Len(s) + 1 /\ Len(s) \in Nat
    <3>1. Append(s, blank) \in Seq(Symbols) /\ Len(Append(s, blank)) = Len(s) + 1 /\ Len(s) \in Nat
      BY <2>2, AppendProperties
    <3> QED BY <2>1, <3>1, Zenon
  <2>4. c + 1 \in 0 .. Len(t)
    BY <2>2, <2>3
  <2>5. Asking(t, c + 1) \in Asked
    BY <2>3, <2>4, AskingType
  <2>6. AskedAgain(item, done) \subseteq {Asking(t, c + 1)}
    BY <2>1, Zenon DEF AskedAgain
  <2> QED BY <2>5, <2>6
<1>6. OnItsWay'
  BY <1>3, <1>5 DEF Accept, PopupInv, OnItsWay
<1>7. InPopup'
  BY DEF Accept, PopupInv, InPopup
<1>8. Counted'
  BY CountedKept DEF Accept, PopupInv
<1> QED
  BY <1>4, <1>6, <1>7, <1>8 DEF PopupInv

LEMMA PopupInductive == PopupInv /\ [CompletionNext]_completionVars => PopupInv'
<1> SUFFICES ASSUME PopupInv, [CompletionNext]_completionVars PROVE PopupInv'
  OBVIOUS
<1>1. CASE UNCHANGED completionVars
  BY <1>1 DEF completionVars, popup, PopupInv, InText, OnItsWay, InPopup, Counted
<1>2. CASE \E key \in Keys : Type(key)
  BY <1>2, KeyKeeps
<1>3. CASE Backspace
  BY <1>3, BackspaceKeeps
<1>4. CASE \E c \in 0 .. Len(text) : MoveCursor(c)
  BY <1>4, MoveKeeps
<1>5. CASE \E t \in Starts, byKey \in BOOLEAN : SwitchTab(t, byKey)
  BY <1>5, SwitchKeeps
<1>6. CASE TimerFires \/ TriggerCompletion
  BY <1>6, AskKeeps
<1>7. CASE \E r \in requests : HandleFetchCompletion(r)
  BY <1>7, HandleKeeps
<1>8. CASE CompletionReady
  BY <1>8, AnswerKeeps
<1>9. CASE SelectRow \/ ClosePopup
  BY <1>9, RowKeeps
<1>10. CASE Accept
  BY <1>10, AcceptKeeps
<1> QED
  BY <1>1, <1>2, <1>3, <1>4, <1>5, <1>6, <1>7, <1>8, <1>9, <1>10 DEF CompletionNext

LEMMA PopupInvariant == CompletionSpec => []PopupInv
<1>1. CompletionInit => PopupInv
  BY PopupInitially
<1>2. PopupInv /\ [CompletionNext]_completionVars => PopupInv'
  BY PopupInductive
<1> QED
  BY <1>1, <1>2, PTL DEF CompletionSpec

(* The cursor is in the text, in what a timer carries, in every request    *)
(* and in what a candidate leaves, and every answer is a list of           *)
(* candidates: the code slices the text at these offsets.                  *)
THEOREM CompletionTypeCorrect == CompletionSpec => []CompletionOK
<1>1. PopupInv => CompletionOK
  BY PopupInvIs
<1> QED
  BY <1>1, PopupInvariant, PTL

(* Enter finds the selected row in the list the popup shows, whatever      *)
(* answers came while the user was choosing (SelectionInRange).            *)
THEOREM SelectionValid == CompletionSpec => []SelectionInRange
<1>1. PopupInv => SelectionInRange
  BY PopupInvIs
<1> QED
  BY <1>1, PopupInvariant, PTL

(* Enter replaces a word whole and leaves the rest of the text as it was,  *)
(* wherever the cursor went since the candidate was computed               *)
(* (AcceptKeepsText).                                                      *)
THEOREM AcceptExact == CompletionSpec => AcceptKeepsText
<1>1. ASSUME PopupInv, Accept
      PROVE  LET item == items[selected + 1]
                 full(left, gap) == left \o gap \o item.insert \o After(text, cursor)
             IN \E n \in 0 .. cursor :
                  /\ n = cursor \/ At(text, n) \notin IdentChars
                  /\ SubSeq(text, n + 1, cursor) \in
                         {<<>>, ExtractPrefix(text, cursor), item.insert \o <<" ">> \o ExtractPrefix(text, cursor)}
                  /\ \E left \in {Before(text, n), TrimEnd(Before(text, n))}, gap \in {<<>>, <<" ">>, <<",", " ">>} :
                         text' \in {full(left, gap), TrimEnd(full(left, gap)) \o <<" ", "FROM", " ">> \o item.table}
  <2>1. PICK item, done : /\ item = items[selected + 1] /\ item \in Items
                          /\ done = AcceptCompletion(text, cursor, item) /\ text' = done.text
    BY <1>1, ReadsRow DEF Accept
  <2>2. text \in Seq(Symbols) /\ cursor \in 0 .. Len(text)
    BY <1>1 DEF PopupInv, InText
  <2>3. PICK put : /\ PutWhole(text, cursor, item, put)
                   /\ done.text \in {put.text, TrimEnd(put.text) \o <<" ", "FROM", " ">> \o item.table}
    BY <2>1, <2>2, AcceptWhole
  <2>4. PICK n \in 0 .. cursor : Whole(text, cursor, item, n) /\ Beside(text, cursor, item, n, put.text)
    BY <2>3 DEF PutWhole
  <2>5. PICK left \in {Before(text, n), TrimEnd(Before(text, n))}, gap \in {<<>>, <<" ">>, <<",", " ">>} :
            put.text = left \o gap \o item.insert \o After(text, cursor)
    BY <2>4, Zenon DEF Beside
  <2>6. /\ n = cursor \/ At(text, n) \notin IdentChars
        /\ SubSeq(text, n + 1, cursor) \in
               {<<>>, ExtractPrefix(text, cursor), item.insert \o <<" ">> \o ExtractPrefix(text, cursor)}
    BY <2>4, Zenon DEF Whole
  <2> QED
    BY <2>1, <2>3, <2>5, <2>6, Zenon
<1>2. PopupInv /\ [CompletionNext]_completionVars => [Accept =>
         LET item == items[selected + 1]
             full(left, gap) == left \o gap \o item.insert \o After(text, cursor)
         IN \E n \in 0 .. cursor :
              /\ n = cursor \/ At(text, n) \notin IdentChars
              /\ SubSeq(text, n + 1, cursor) \in
                     {<<>>, ExtractPrefix(text, cursor), item.insert \o <<" ">> \o ExtractPrefix(text, cursor)}
              /\ \E left \in {Before(text, n), TrimEnd(Before(text, n))}, gap \in {<<>>, <<" ">>, <<",", " ">>} :
                     text' \in {full(left, gap), TrimEnd(full(left, gap)) \o <<" ", "FROM", " ">> \o item.table}]_completionVars
  BY <1>1, Zenon
<1> QED
  BY <1>2, PopupInvariant, PTL DEF CompletionSpec, AcceptKeepsText

(***************************************************************************)
(* What an alias stands for                                                *)
(***************************************************************************)

(* From x on, past blanks, the word from q to before e.                    *)
FollowedBy(t, x, q, e) ==
    /\ q \in Nat /\ e \in Nat /\ x <= q /\ q <= e /\ e <= Len(t) + 1
    /\ \A y \in x .. q - 1 : t[y] = " "
    /\ q <= Len(t) => t[q] # " "
    /\ \A y \in q .. e - 1 : t[y] \in IdentChars
    /\ e <= Len(t) => t[e] \notin IdentChars
    /\ TrimStart(After(t, x - 1)) = After(t, q - 1)
    /\ FirstWord(After(t, q - 1)) = Upto(t, q, e)

(* u is what is left of a text after c characters.                         *)
RestOf(u, t, c, D) ==
    /\ u \in Seq(D) /\ Len(u) = Len(t) - c
    /\ \A i \in 1 .. Len(t) - c : u[i] = t[c + i]

(* What After leaves, character by character.                              *)
LEMMA RestIs ==
    ASSUME NEW D, NEW t \in Seq(D), NEW c \in 0 .. Len(t)
    PROVE  RestOf(After(t, c), t, c, D)
<1>1. c \in Int /\ c <= Len(t) /\ c >= 0
  OBVIOUS
<1> QED
  BY <1>1, CutType DEF RestOf

(* What is left of what is left.                                           *)
LEMMA AfterTwice ==
    ASSUME NEW D, NEW t \in Seq(D), NEW a \in 0 .. Len(t), NEW b \in 0 .. Len(t) - a
    PROVE  After(After(t, a), b) = After(t, a + b)
<1>1. PICK n, u, v, w : n = Len(t) /\ u = After(t, a) /\ v = After(u, b) /\ w = After(t, a + b)
  OBVIOUS
<1>2. n \in Nat /\ a \in Int /\ a <= n /\ a >= 0 /\ b \in Int /\ b >= 0 /\ b <= n - a /\ a + b \in Int /\ a + b <= n /\ a + b >= 0
  BY <1>1
<1>3. u \in Seq(D) /\ Len(u) = n - a /\ \A i \in 1 .. n - a : u[i] = t[a + i]
  BY <1>1, RestIs DEF RestOf
<1>4. v \in Seq(D) /\ Len(v) = n - a - b /\ \A i \in 1 .. n - a - b : v[i] = u[b + i]
  <2>1. b \in 0 .. Len(u) /\ u \in Seq(D) /\ v = After(u, b)
    BY <1>1, <1>2, <1>3
  <2>2. v \in Seq(D) /\ Len(v) = Len(u) - b /\ \A i \in 1 .. Len(u) - b : v[i] = u[b + i]
    BY ONLY <2>1, RestIs DEF RestOf
  <2> QED
    BY <1>2, <1>3, <2>2
<1>5. w \in Seq(D) /\ Len(w) = n - (a + b) /\ \A i \in 1 .. n - (a + b) : w[i] = t[(a + b) + i]
  <2>1. a + b \in 0 .. Len(t)
    BY <1>1, <1>2
  <2> QED
    BY <1>1, <2>1, RestIs DEF RestOf
<1>6. \A i \in 1 .. n - a - b : v[i] = w[i]
  <2> TAKE i \in 1 .. n - a - b
  <2>1. b + i \in 1 .. n - a /\ i \in 1 .. n - (a + b) /\ a + (b + i) = (a + b) + i
    BY <1>2
  <2> QED
    BY <1>3, <1>4, <1>5, <2>1
<1>7. v = w
  <2>1. Len(v) = Len(w)
    BY <1>2, <1>4, <1>5
  <2>2. \A i \in 1 .. Len(v) : v[i] = w[i]
    BY <1>4, <1>6
  <2> QED
    BY ONLY <1>4, <1>5, <2>1, <2>2, SeqEqual
<1> QED
  BY <1>1, <1>7

(* Past blanks there is a word, if only an empty one.                      *)
LEMMA WordFollows ==
    ASSUME NEW D, NEW t \in Seq(D), NEW x \in 1 .. Len(t) + 1
    PROVE  \E q, e : FollowedBy(t, x, q, e)
<1>1. PICK n, u : n = Len(t) /\ u = After(t, x - 1)
  OBVIOUS
<1>2. n \in Nat /\ x \in Nat /\ x >= 1 /\ x <= n + 1
  BY <1>1
<1>3. u \in Seq(D) /\ Len(u) = n + 1 - x /\ \A i \in 1 .. n + 1 - x : u[i] = t[(x - 1) + i]
  <2>1. x - 1 \in 0 .. Len(t) /\ Len(t) - (x - 1) = n + 1 - x
    BY <1>1, <1>2
  <2>2. RestOf(u, t, x - 1, D)
    BY <1>1, <2>1, RestIs
  <2> QED
    BY ONLY <2>1, <2>2 DEF RestOf
<1>4. PICK z : z = {i \in DOMAIN u : u[i] \notin Blanks}
  OBVIOUS
<1>5. DOMAIN u = 1 .. n + 1 - x
  BY <1>3, <1>2
<1>6. \E a \in 0 .. n + 1 - x : /\ TrimStart(u) = After(u, a) /\ (\A i \in 1 .. a : u[i] = " ") /\ (a + 1 <= n + 1 - x => u[a + 1] # " ")
  <2>1. CASE z = {}
    <3>1. After(u, n + 1 - x) = <<>>
      <4>1. After(u, n + 1 - x) \in Seq(D) /\ Len(After(u, n + 1 - x)) = 0
        <5>1. n + 1 - x \in 0 .. Len(u) /\ Len(u) - (n + 1 - x) = 0 /\ u \in Seq(D)
          BY <1>2, <1>3
        <5>2. RestOf(After(u, n + 1 - x), u, n + 1 - x, D)
          BY ONLY <5>1, RestIs
        <5> QED
          BY ONLY <5>1, <5>2 DEF RestOf
      <4> QED
        BY <4>1, EmptySeq
    <3>2. TrimStart(u) = <<>>
      BY <1>4, <2>1, Zenon DEF TrimStart
    <3>3. \A i \in 1 .. n + 1 - x : u[i] = " "
      BY <1>4, <1>5, <2>1 DEF Blanks
    <3>4. n + 1 - x \in 0 .. n + 1 - x /\ ~ ((n + 1 - x) + 1 <= n + 1 - x)
      BY <1>2
    <3> QED
      BY <3>1, <3>2, <3>3, <3>4
  <2>2. CASE z # {}
    <3>1. z \subseteq Nat
      BY <1>4, <1>5
    <3>2. Min(z) \in z /\ \A i \in z : Min(z) <= i
      BY <2>2, <3>1, MinOf
    <3>3. PICK m : m = Min(z)
      OBVIOUS
    <3>4. m \in 1 .. n + 1 - x /\ (\A i \in 1 .. m - 1 : u[i] = " ") /\ u[m] # " "
      <4>1. m \in 1 .. n + 1 - x
        BY <1>4, <1>5, <3>2, <3>3
      <4>2. \A i \in 1 .. m - 1 : i \in 1 .. n + 1 - x /\ ~ (m <= i)
        BY <1>2, <4>1
      <4>3. \A i \in 1 .. m - 1 : i \notin z
        BY <3>2, <3>3, <4>2
      <4>4. u[m] # " "
        BY <1>4, <3>2, <3>3 DEF Blanks
      <4> QED
        BY <1>4, <1>5, <4>1, <4>2, <4>3, <4>4 DEF Blanks
    <3>5. TrimStart(u) = After(u, m - 1)
      BY <1>4, <2>2, <3>3, Zenon DEF TrimStart
    <3>6. m - 1 \in 0 .. n + 1 - x /\ (m - 1) + 1 = m
      <4>1. m \in 1 .. n + 1 - x
        BY <3>4
      <4> QED
        BY ONLY <1>2, <4>1
    <3> QED
      BY <3>4, <3>5, <3>6
  <2> QED
    BY <2>1, <2>2
<1>7. PICK a \in 0 .. n + 1 - x : TrimStart(u) = After(u, a) /\ (\A i \in 1 .. a : u[i] = " ") /\ (a + 1 <= n + 1 - x => u[a + 1] # " ")
  BY <1>6
<1>8. PICK q : q = x + a
  OBVIOUS
<1>9. q \in Nat /\ x <= q /\ q <= n + 1 /\ q >= 1
  BY ONLY <1>2, <1>8, a \in 0 .. n + 1 - x
<1>10. TrimStart(After(t, x - 1)) = After(t, q - 1)
  <2>1. x - 1 \in 0 .. Len(t) /\ a \in 0 .. Len(t) - (x - 1) /\ (x - 1) + a = q - 1
    BY ONLY <1>1, <1>2, <1>8, a \in 0 .. n + 1 - x
  <2>2. After(After(t, x - 1), a) = After(t, (x - 1) + a)
    BY <2>1, AfterTwice
  <2> QED
    BY <1>1, <1>7, <2>1, <2>2
<1>11. \A y \in x .. q - 1 : t[y] = " "
  <2> TAKE y \in x .. q - 1
  <2>1. y - x + 1 \in 1 .. a /\ y - x + 1 \in 1 .. n + 1 - x /\ (x - 1) + (y - x + 1) = y
    BY ONLY <1>2, <1>8, <1>9, a \in 0 .. n + 1 - x, y \in x .. q - 1
  <2> QED
    BY <1>3, <1>7, <2>1
<1>b. q <= n => t[q] # " "
  <2> HAVE q <= n
  <2>1. a + 1 \in 1 .. n + 1 - x /\ a + 1 <= n + 1 - x /\ (x - 1) + (a + 1) = q
    BY ONLY <1>2, <1>8, <1>9, a \in 0 .. n + 1 - x, q <= n
  <2>2. u[a + 1] # " " /\ u[a + 1] = t[(x - 1) + (a + 1)]
    BY <1>3, <1>7, <2>1
  <2> QED
    BY ONLY <2>1, <2>2
<1>12. PICK w, m : w = After(t, q - 1) /\ m = n + 1 - q
  OBVIOUS
<1>13. m \in Nat /\ w \in Seq(D) /\ Len(w) = m /\ \A i \in 1 .. m : w[i] = t[(q - 1) + i]
  <2>1. q - 1 \in 0 .. Len(t) /\ Len(t) - (q - 1) = m /\ m \in Nat
    BY ONLY <1>1, <1>2, <1>9, <1>12
  <2>2. RestOf(w, t, q - 1, D)
    BY <1>12, <2>1, RestIs
  <2> QED
    BY ONLY <2>1, <2>2 DEF RestOf
<1>14. PICK c : c = {i \in DOMAIN w : w[i] \notin IdentChars} \cup {Len(w) + 1}
  OBVIOUS
<1>15. c \subseteq 1 .. m + 1 /\ m + 1 \in c /\ c # {} /\ c \subseteq Nat
  BY <1>13, <1>14
<1>16. Min(c) \in c /\ \A i \in c : Min(c) <= i
  BY <1>15, MinOf
<1>17. PICK h : h = Min(c)
  OBVIOUS
<1>18. /\ h \in 1 .. m + 1
       /\ h <= m => w[h] \notin IdentChars
       /\ \A i \in 1 .. h - 1 : i \in 1 .. m /\ w[i] \in IdentChars
  <2>1. h \in 1 .. m + 1
    BY <1>15, <1>16, <1>17
  <2>2. h <= m => w[h] \notin IdentChars
    BY <1>13, <1>14, <1>16, <1>17
  <2>3. \A i \in 1 .. h - 1 : i \in 1 .. m /\ ~ (h <= i)
    BY <1>13, <2>1
  <2>4. \A i \in 1 .. h - 1 : i \notin c
    BY <1>16, <1>17, <2>3
  <2> QED
    BY <1>13, <1>14, <2>1, <2>2, <2>3, <2>4
<1>19. PICK e : e = (q - 1) + h
  OBVIOUS
<1>a. h \in Nat /\ h >= 1 /\ h <= m + 1 /\ m = n + 1 - q /\ m \in Nat
  BY <1>12, <1>13, <1>18
<1>20. e \in Nat /\ q <= e /\ e <= n + 1
  BY ONLY <1>2, <1>9, <1>a, <1>19
<1>21. e <= n => t[e] \notin IdentChars
  <2> HAVE e <= n
  <2>1. h \in 1 .. m
    BY ONLY <1>2, <1>9, <1>a, <1>19, e <= n
  <2> QED
    BY <1>13, <1>18, <1>19, <2>1
<1>22. \A y \in q .. e - 1 : t[y] \in IdentChars
  <2> TAKE y \in q .. e - 1
  <2>1. y - q + 1 \in 1 .. h - 1 /\ (q - 1) + (y - q + 1) = y
    BY ONLY <1>9, <1>a, <1>19, y \in q .. e - 1
  <2> QED
    BY <1>13, <1>18, <2>1
<1>23. FirstWord(After(t, q - 1)) = Upto(t, q, e)
  <2>1. FirstWord(w) = Before(w, h - 1)
    BY <1>14, <1>17, Zenon DEF FirstWord
  <2>2. PICK f, g : f = Before(w, h - 1) /\ g = Upto(t, q, e)
    OBVIOUS
  <2>3. f \in Seq(D) /\ Len(f) = h - 1 /\ \A i \in 1 .. h - 1 : f[i] = w[i]
    <3>1. h - 1 \in Int /\ h - 1 <= Len(w) /\ h - 1 >= 0 /\ w \in Seq(D)
      BY <1>13, <1>a
    <3> QED
      BY ONLY <2>2, <3>1, CutType
  <2>4. g \in Seq(D) /\ Len(g) = h - 1 /\ \A i \in 1 .. h - 1 : g[i] = t[q + i - 1]
    <3>1. q \in 1 .. Len(t) + 1 /\ e \in q .. Len(t) + 1 /\ e - q = h - 1
      BY ONLY <1>1, <1>2, <1>9, <1>a, <1>19, <1>20
    <3>2. PieceOf(g, t, q, e, D)
      BY <2>2, <3>1, PieceIs
    <3> QED
      BY <3>1, <3>2 DEF PieceOf
  <2>5. \A i \in 1 .. h - 1 : f[i] = g[i]
    <3> TAKE i \in 1 .. h - 1
    <3>1. i \in 1 .. m /\ q + i - 1 = (q - 1) + i
      BY <1>9, <1>18
    <3> QED
      BY <1>13, <2>3, <2>4, <3>1
  <2>6. f = g
    <3>1. Len(f) = Len(g) /\ \A i \in 1 .. Len(f) : f[i] = g[i]
      BY <2>3, <2>4, <2>5
    <3> QED
      BY ONLY <2>3, <2>4, <3>1, SeqEqual
  <2> QED
    BY <1>12, <2>1, <2>2, <2>6
<1> QED
  BY <1>1, <1>9, <1>10, <1>11, <1>20, <1>21, <1>22, <1>23, <1>b DEF FollowedBy

(* Where the words of a text begin.                                        *)
Begins(t) == {i \in DOMAIN t : t[i] \in IdentChars /\ At(t, i - 1) \notin IdentChars}

(* b says where the words of t begin, in order.                            *)
BegunBy(t, b) ==
    /\ InOrder(b, Begins(t), 1, Len(t))
    /\ DOMAIN IdentTokens(t) = 1 .. Len(b) /\ Len(IdentTokens(t)) = Len(b)
    /\ \A k \in 1 .. Len(b) : IdentTokens(t)[k] = FirstWord(After(t, b[k] - 1))

(* The words of a text begin somewhere, in order.                          *)
LEMMA WordsBegin ==
    ASSUME NEW D, NEW t \in Seq(D)
    PROVE  \E b : BegunBy(t, b)
<1>1. PICK b : b = Ascending(Begins(t), Len(t))
  OBVIOUS
<1>2. InOrder(b, Begins(t), 1, Len(t))
  BY <1>1, AscendingIs
<1>3. DOMAIN b = 1 .. Len(b)
  BY <1>2 DEF InOrder
<1>4. IdentTokens(t) = [k \in DOMAIN b |-> FirstWord(After(t, b[k] - 1))]
  BY <1>1, Zenon DEF IdentTokens, Begins
<1>5. /\ DOMAIN IdentTokens(t) = 1 .. Len(b)
      /\ \A k \in 1 .. Len(b) : IdentTokens(t)[k] = FirstWord(After(t, b[k] - 1))
  BY <1>3, <1>4, Zenon
<1>6. Len(IdentTokens(t)) = Len(b)
  <2>1. PICK w, S : w = IdentTokens(t) /\ S = {w[k] : k \in DOMAIN w}
    OBVIOUS
  <2>2. b \in Seq(Nat)
    BY <1>2 DEF InOrder
  <2>3. w = [k \in DOMAIN b |-> w[k]]
    BY <1>4, <2>1, Zenon
  <2>4. DOMAIN w = DOMAIN b
    BY <1>4, <2>1, Zenon
  <2>5. \A k \in DOMAIN b : w[k] \in S
    BY <2>1, <2>4, Zenon
  <2>6. w \in [DOMAIN b -> S]
    BY <2>3, <2>5, Zenon
  <2>7. w \in Seq(S)
    BY ONLY <2>2, <2>6, MadeOf
  <2>8. DOMAIN w = 1 .. Len(w) /\ Len(w) \in Nat /\ DOMAIN w = 1 .. Len(b) /\ Len(b) \in Nat
    BY ONLY <2>2, <2>4, <2>7
  <2> QED
    BY ONLY <2>1, <2>8
<1> QED
  BY <1>2, <1>5, <1>6 DEF BegunBy

(* A blank, and what is beyond the end of a text, are not of a word.       *)
LEMMA NoBlankWord == " " \notin IdentChars /\ "" \notin IdentChars
BY Words

(* After the word that begins at q the next one begins past the blanks.    *)
LEMMA NextBegins ==
    ASSUME NEW D, NEW t \in Seq(D), NEW b, BegunBy(t, b), NEW k \in 1 .. Len(b),
           NEW x, NEW e, FollowedBy(t, x, b[k], e), NEW q, NEW f, FollowedBy(t, e, q, f), q < f
    PROVE  k + 1 \in 1 .. Len(b) /\ b[k + 1] = q
<1>1. PICK n, s : n = Len(t) /\ s = Begins(t)
  OBVIOUS
<1>2. /\ n \in Nat /\ b \in Seq(Nat) /\ Len(b) \in Nat
      /\ \A j \in 1 .. Len(b) : b[j] \in s /\ 1 <= b[j] /\ b[j] <= n /\ b[j] \in Nat
      /\ \A y \in 1 .. n : y \in s => \E j \in 1 .. Len(b) : b[j] = y
      /\ \A i, j \in 1 .. Len(b) : i < j => b[i] < b[j]
  <2>1. InOrder(b, s, 1, n)
    BY <1>1 DEF BegunBy
  <2>2. n \in Nat
    BY <1>1
  <2> QED
    BY <2>1, <2>2 DEF InOrder
<1>3. /\ e \in Nat /\ q \in Nat /\ f \in Nat /\ b[k] <= e /\ e <= q /\ q < f /\ f <= n + 1 /\ e <= n + 1
      /\ \A y \in b[k] .. e - 1 : t[y] \in IdentChars
      /\ e <= n => t[e] \notin IdentChars
      /\ \A y \in e .. q - 1 : t[y] = " "
      /\ t[q] \in IdentChars
  <2>1. /\ e \in Nat /\ b[k] <= e /\ e <= n + 1
        /\ \A y \in b[k] .. e - 1 : t[y] \in IdentChars
        /\ e <= n => t[e] \notin IdentChars
    BY <1>1 DEF FollowedBy
  <2>2. /\ q \in Nat /\ f \in Nat /\ e <= q /\ f <= n + 1
        /\ \A y \in e .. q - 1 : t[y] = " "
        /\ \A y \in q .. f - 1 : t[y] \in IdentChars
    BY <1>1 DEF FollowedBy
  <2>3. q \in q .. f - 1
    <3>1. q \in Nat /\ f \in Nat /\ q < f
      BY <2>2
    <3> QED
      BY ONLY <3>1
  <2> QED
    BY <2>1, <2>2, <2>3
<1>a. b[k] \in Nat /\ b[k] >= 1 /\ e \in Nat /\ q \in Nat /\ f \in Nat /\ b[k] <= e /\ e <= q /\ q < f /\ f <= n + 1 /\ n \in Nat
  BY <1>2, <1>3
<1>4. e < q /\ q <= n /\ q - 1 >= 1
  <2>1. e # q
    <3> SUFFICES ASSUME e = q PROVE FALSE
      OBVIOUS
    <3>1. e <= n
      BY ONLY <1>a, e = q
    <3>2. t[e] \notin IdentChars /\ t[q] \in IdentChars
      BY <1>3, <3>1
    <3> QED
      BY ONLY <3>2, e = q
  <2>2. b[k] \in Nat /\ b[k] >= 1
    BY <1>2
  <2>3. e \in Nat /\ q \in Nat /\ f \in Nat /\ b[k] <= e /\ e <= q /\ q < f /\ f <= n + 1 /\ n \in Nat
    BY <1>2, <1>3
  <2> QED
    BY ONLY <2>1, <2>2, <2>3
<1>5. DOMAIN t = 1 .. n
  BY <1>1
<1>6. q \in s
  <2>1. q - 1 \in e .. q - 1 /\ q - 1 \in 1 .. Len(t) /\ q \in 1 .. n
    BY ONLY <1>1, <1>a, <1>4
  <2>2. At(t, q - 1) = " "
    BY <1>3, <2>1 DEF At
  <2> QED
    BY <1>1, <1>3, <1>5, <2>1, <2>2, NoBlankWord DEF Begins
<1>7. PICK m \in 1 .. Len(b) : b[m] = q
  <2>1. q \in 1 .. n
    BY ONLY <1>a, <1>4
  <2> QED
    BY <1>2, <1>6, <2>1
<1>8. k < m
  <2> SUFFICES ASSUME ~ (k < m) PROVE FALSE
    OBVIOUS
  <2>1. m < k \/ m = k
    BY <1>2
  <2>2. b[m] < b[k] \/ b[m] = b[k]
    BY <1>2, <2>1
  <2>3. b[k] \in Nat /\ b[k] <= e /\ e < q /\ e \in Nat /\ q \in Nat
    BY <1>2, <1>3, <1>4
  <2> QED
    BY <1>7, <2>2, <2>3
<1>9. k + 1 \in 1 .. Len(b)
  BY <1>2, <1>8
<1>10. ~ (k + 1 < m)
  <2> SUFFICES ASSUME k + 1 < m PROVE FALSE
    OBVIOUS
  <2>1. PICK y : y = b[k + 1]
    OBVIOUS
  <2>2. y \in s /\ y \in Nat /\ b[k] < y /\ y < q /\ b[k] \in Nat /\ 1 <= b[k] /\ y <= n
    <3>1. k < k + 1
      OBVIOUS
    <3> QED
      BY <1>2, <1>7, <1>9, <2>1, <3>1
  <2>3. t[y] \in IdentChars /\ At(t, y - 1) \notin IdentChars
    BY <1>1, <2>2 DEF Begins
  <2>4. y < e
    <3> SUFFICES ASSUME ~ (y < e) PROVE FALSE
      OBVIOUS
    <3>1. y \in e .. q - 1
      BY ONLY <1>a, <2>2, ~ (y < e)
    <3> QED
      BY <1>3, <2>3, <3>1, NoBlankWord
  <2>5. y - 1 \in b[k] .. e - 1 /\ y - 1 \in 1 .. Len(t)
    <3>1. e \in Nat /\ e <= n + 1 /\ n = Len(t) /\ n \in Nat
      BY <1>1, <1>2, <1>3
    <3> QED
      BY ONLY <2>2, <2>4, <3>1
  <2>6. At(t, y - 1) \in IdentChars
    BY <1>3, <2>5 DEF At
  <2> QED
    BY <2>3, <2>6
<1>11. m = k + 1
  BY <1>2, <1>8, <1>10
<1> QED
  BY <1>7, <1>9, <1>11

(* A word that begins in front of a place that is between words is a word  *)
(* of what stands in front of it.                                          *)
LEMMA WordInFront ==
    ASSUME NEW D, NEW t \in Seq(D), NEW p \in 0 .. Len(t), p + 1 <= Len(t) => t[p + 1] \notin IdentChars,
           NEW i \in Begins(t), i <= p
    PROVE  FirstWord(After(t, i - 1)) \in Range(IdentTokens(Before(t, p)))
<1>1. PICK n, s : n = Len(t) /\ s = Before(t, p)
  OBVIOUS
<1>2. n \in Nat /\ p \in Nat /\ p <= n /\ i \in Nat /\ 1 <= i /\ i <= p
  BY <1>1 DEF Begins
<1>3. s \in Seq(D) /\ Len(s) = p /\ DOMAIN s = 1 .. p /\ \A j \in 1 .. p : s[j] = t[j]
  <2>1. p \in Int /\ p <= Len(t) /\ p >= 0
    BY ONLY <1>1, <1>2
  <2>2. s \in Seq(D) /\ Len(s) = p /\ \A j \in 1 .. p : s[j] = t[j]
    BY <1>1, <2>1, CutType
  <2> QED
    BY <2>2
<1>4. t[i] \in IdentChars /\ At(t, i - 1) \notin IdentChars
  BY DEF Begins
<1>5. i \in 1 .. p /\ s[i] = t[i] /\ At(s, i - 1) = At(t, i - 1)
  <2>1. i \in 1 .. p /\ (i - 1 \in 1 .. p <=> i - 1 \in 1 .. n)
    BY ONLY <1>2
  <2> QED
    BY <1>1, <1>3, <2>1 DEF At
<1>6. i \in Begins(s)
  BY <1>3, <1>4, <1>5 DEF Begins
<1>7. PICK b : BegunBy(s, b)
  BY <1>3, WordsBegin
<1>8. PICK k \in 1 .. Len(b) : b[k] = i
  <2>1. \A y \in 1 .. p : y \in Begins(s) => \E j \in 1 .. Len(b) : b[j] = y
    BY <1>3, <1>7 DEF BegunBy, InOrder
  <2> QED
    BY <1>5, <1>6, <2>1
<1>9. FirstWord(After(s, i - 1)) \in Range(IdentTokens(s))
  <2>1. k \in DOMAIN IdentTokens(s) /\ IdentTokens(s)[k] = FirstWord(After(s, i - 1))
    BY <1>7, <1>8 DEF BegunBy
  <2> QED
    BY <2>1 DEF Range
<1>10. PICK q, e : FollowedBy(s, i, q, e)
  <2>1. i \in 1 .. Len(s) + 1
    BY ONLY <1>2, <1>3
  <2> QED
    BY <1>3, <2>1, WordFollows
<1>11. PICK r, f : FollowedBy(t, i, r, f)
  <2>1. i \in 1 .. Len(t) + 1
    BY ONLY <1>1, <1>2
  <2> QED
    BY <2>1, WordFollows
<1>12. /\ q = i /\ e \in Nat /\ i <= e /\ e <= p + 1
       /\ \A y \in i .. e - 1 : s[y] \in IdentChars
       /\ e <= p => s[e] \notin IdentChars
       /\ FirstWord(After(s, i - 1)) = Upto(s, i, e)
  <2>1. /\ q \in Nat /\ i <= q /\ q <= e /\ e \in Nat /\ e <= p + 1
        /\ \A y \in i .. q - 1 : s[y] = " "
        /\ \A y \in q .. e - 1 : s[y] \in IdentChars
        /\ e <= p => s[e] \notin IdentChars
        /\ FirstWord(After(s, q - 1)) = Upto(s, q, e)
    BY <1>3, <1>10 DEF FollowedBy
  <2>2. q = i
    <3> SUFFICES ASSUME q # i PROVE FALSE
      OBVIOUS
    <3>1. q \in Nat /\ i <= q
      BY <2>1
    <3>2. i \in i .. q - 1
      BY ONLY <1>2, <3>1, q # i
    <3> QED
      BY <1>4, <1>5, <2>1, <3>2, NoBlankWord
  <2> QED
    BY <2>1, <2>2
<1>13. /\ r = i /\ f \in Nat /\ i <= f /\ f <= n + 1
       /\ \A y \in i .. f - 1 : t[y] \in IdentChars
       /\ f <= n => t[f] \notin IdentChars
       /\ FirstWord(After(t, i - 1)) = Upto(t, i, f)
  <2>1. /\ r \in Nat /\ i <= r /\ r <= f /\ f \in Nat /\ f <= n + 1
        /\ \A y \in i .. r - 1 : t[y] = " "
        /\ \A y \in r .. f - 1 : t[y] \in IdentChars
        /\ f <= n => t[f] \notin IdentChars
        /\ FirstWord(After(t, r - 1)) = Upto(t, r, f)
    BY <1>1, <1>11 DEF FollowedBy
  <2>2. r = i
    <3> SUFFICES ASSUME r # i PROVE FALSE
      OBVIOUS
    <3>1. r \in Nat /\ i <= r
      BY <2>1
    <3>2. i \in i .. r - 1
      BY ONLY <1>2, <3>1, r # i
    <3> QED
      BY <1>4, <2>1, <3>2, NoBlankWord
  <2> QED
    BY <2>1, <2>2
<1>b. e \in Nat /\ f \in Nat /\ i <= e /\ e <= p + 1 /\ i <= f /\ f <= n + 1
  BY <1>12, <1>13
<1>14. e <= n => t[e] \notin IdentChars
  <2> HAVE e <= n
  <2>1. CASE e <= p
    <3>1. e \in 1 .. p
      BY ONLY <1>2, <1>b, <2>1
    <3> QED
      BY <1>3, <1>12, <2>1, <3>1
  <2>2. CASE ~ (e <= p)
    <3>1. e = p + 1
      BY ONLY <1>2, <1>b, <2>2
    <3> QED
      BY <1>1, <3>1
  <2> QED
    BY <2>1, <2>2
<1>15. e = f
  <2>1. ~ (e < f)
    <3> SUFFICES ASSUME e < f PROVE FALSE
      OBVIOUS
    <3>1. e \in i .. f - 1 /\ e <= n
      BY ONLY <1>2, <1>b, e < f
    <3> QED
      BY <1>13, <1>14, <3>1
  <2>2. ~ (f < e)
    <3> SUFFICES ASSUME f < e PROVE FALSE
      OBVIOUS
    <3>1. f \in i .. e - 1 /\ f \in 1 .. p /\ f <= n
      BY ONLY <1>2, <1>b, f < e
    <3> QED
      BY <1>3, <1>12, <1>13, <3>1
  <2> QED
    BY <1>b, <2>1, <2>2
<1>16. Upto(s, i, e) = Upto(t, i, e)
  <2>1. PICK u, v : u = Upto(s, i, e) /\ v = Upto(t, i, e)
    OBVIOUS
  <2>2. PieceOf(u, s, i, e, D)
    <3>1. i \in 1 .. Len(s) + 1 /\ e \in i .. Len(s) + 1
      BY ONLY <1>2, <1>3, <1>b
    <3> QED
      BY <1>3, <2>1, <3>1, PieceIs
  <2>3. PieceOf(v, t, i, e, D)
    <3>1. i \in 1 .. Len(t) + 1 /\ e \in i .. Len(t) + 1
      BY ONLY <1>1, <1>2, <1>b
    <3> QED
      BY <2>1, <3>1, PieceIs
  <2>4. /\ u \in Seq(D) /\ v \in Seq(D) /\ Len(u) = e - i /\ Len(v) = e - i
        /\ \A z \in 1 .. e - i : u[z] = s[i + z - 1] /\ v[z] = t[i + z - 1] /\ i + z - 1 \in i .. e - 1
    BY ONLY <2>2, <2>3 DEF PieceOf
  <2>5. \A z \in i .. e - 1 : s[z] = t[z]
    <3> TAKE z \in i .. e - 1
    <3>1. z \in 1 .. p
      BY ONLY <1>2, <1>b, z \in i .. e - 1
    <3> QED
      BY <1>3, <3>1
  <2>6. Len(u) = Len(v) /\ \A z \in 1 .. Len(u) : u[z] = v[z]
    BY ONLY <2>4, <2>5
  <2>7. u = v
    BY ONLY <2>4, <2>6, SeqEqual
  <2> QED
    BY <2>1, <2>7
<1> QED
  BY <1>1, <1>9, <1>12, <1>13, <1>15, <1>16

(* The word past a place between words is one of the text, and those       *)
(* before it are words of what stands in front of that place.              *)
LEMMA WordsAfter ==
    ASSUME NEW D, NEW t \in Seq(D), NEW p \in 0 .. Len(t), p + 1 <= Len(t) => t[p + 1] \notin IdentChars,
           NEW q, NEW e, FollowedBy(t, p + 1, q, e), q < e
    PROVE  \E b : /\ BegunBy(t, b)
                  /\ \E k \in 1 .. Len(b) :
                       /\ b[k] = q
                       /\ \A j \in 1 .. k - 1 : IdentTokens(t)[j] \in Range(IdentTokens(Before(t, p)))
<1>1. PICK n : n = Len(t) /\ n \in Nat /\ p \in Nat /\ p <= n
  OBVIOUS
<1>2. /\ q \in Nat /\ e \in Nat /\ p + 1 <= q /\ q < e /\ e <= n + 1
      /\ \A y \in p + 1 .. q - 1 : t[y] = " "
      /\ \A y \in q .. e - 1 : t[y] \in IdentChars
  BY <1>1 DEF FollowedBy
<1>a. q \in Nat /\ e \in Nat /\ p + 1 <= q /\ q < e /\ e <= n + 1
  BY <1>2
<1>3. t[q] \in IdentChars /\ q \in 1 .. n
  <2>1. q \in q .. e - 1 /\ q \in 1 .. n
    BY ONLY <1>1, <1>a
  <2> QED
    BY <1>2, <2>1
<1>4. q # p + 1
  <2> SUFFICES ASSUME q = p + 1 PROVE FALSE
    OBVIOUS
  <2>1. p + 1 <= Len(t)
    BY ONLY <1>1, <1>a, q = p + 1
  <2> QED
    BY <1>3, <2>1
<1>5. At(t, q - 1) = " "
  <2>1. q - 1 \in p + 1 .. q - 1 /\ q - 1 \in 1 .. Len(t)
    BY ONLY <1>1, <1>a, <1>4
  <2> QED
    BY <1>2, <2>1 DEF At
<1>6. q \in Begins(t)
  <2>1. q \in DOMAIN t
    BY <1>1, <1>3
  <2> QED
    BY <1>3, <1>5, <2>1, NoBlankWord DEF Begins
<1>7. PICK b : BegunBy(t, b)
  BY WordsBegin
<1>8. /\ b \in Seq(Nat) /\ Len(b) \in Nat
      /\ \A j \in 1 .. Len(b) : b[j] \in Begins(t) /\ b[j] \in Nat
      /\ \A y \in 1 .. n : y \in Begins(t) => \E j \in 1 .. Len(b) : b[j] = y
      /\ \A i, j \in 1 .. Len(b) : i < j => b[i] < b[j]
      /\ \A j \in 1 .. Len(b) : IdentTokens(t)[j] = FirstWord(After(t, b[j] - 1))
  BY <1>1, <1>7 DEF BegunBy, InOrder
<1>9. PICK k \in 1 .. Len(b) : b[k] = q
  BY <1>3, <1>6, <1>8
<1>10. ASSUME NEW j \in 1 .. k - 1
       PROVE  IdentTokens(t)[j] \in Range(IdentTokens(Before(t, p)))
  <2>1. j \in 1 .. Len(b) /\ j < k
    BY <1>8
  <2>2. PICK y : y = b[j]
    OBVIOUS
  <2>3. y \in Begins(t) /\ y \in Nat /\ y < q
    BY <1>8, <1>9, <2>1, <2>2
  <2>4. t[y] \in IdentChars
    BY <2>3 DEF Begins
  <2>5. y <= p
    <3> SUFFICES ASSUME ~ (y <= p) PROVE FALSE
      OBVIOUS
    <3>1. y \in p + 1 .. q - 1
      BY ONLY <1>1, <1>a, <2>3, ~ (y <= p)
    <3> QED
      BY <1>2, <2>4, <3>1, NoBlankWord
  <2>6. FirstWord(After(t, y - 1)) \in Range(IdentTokens(Before(t, p)))
    BY <2>3, <2>5, WordInFront
  <2> QED
    BY <1>8, <2>1, <2>2, <2>6
<1> QED
  BY <1>7, <1>9, <1>10

(* The words that are x, the AS of a clause that begins with one left out. *)
Written(w, x) == {j \in 2 .. Len(w) : w[j] = x /\ (w[j - 1] = <<"AS">> => j > 2)}

(* The first word that is x is the first of them.                           *)
LEMMA WrittenFirst ==
    ASSUME NEW w, Len(w) \in Nat, NEW x, NEW m \in 2 .. Len(w), w[m] = x, w[m - 1] = <<"AS">> => m > 2,
           \A j \in 1 .. m - 1 : w[j] # x
    PROVE  Written(w, x) # {} /\ Min(Written(w, x)) = m
<1>1. PICK s, n : s = Written(w, x) /\ n = Len(w)
  OBVIOUS
<1>2. m \in s /\ s \subseteq Nat /\ s \subseteq 2 .. n
  BY <1>1 DEF Written
<1>3. Min(s) \in s /\ \A y \in s : Min(s) <= y
  BY <1>2, MinOf
<1>4. ASSUME NEW y \in s PROVE m <= y
  <2> SUFFICES ASSUME ~ (m <= y) PROVE FALSE
    OBVIOUS
  <2>1. y \in 1 .. m - 1
    BY <1>2, <1>4
  <2> QED
    BY <1>1, <2>1 DEF Written
<1>5. Min(s) <= m /\ m <= Min(s) /\ Min(s) \in Nat /\ m \in Nat
  BY <1>2, <1>3, <1>4
<1> QED
  BY <1>1, <1>2, <1>5

(* An alias that no word before it is written like stands for the word     *)
(* before it, or before the AS in front of it.                             *)
LEMMA AliasStandsFor ==
    ASSUME NEW t, NEW alias, alias # <<>>, HasKeyword(t, "FROM"), ~ IsSqlKeyword(alias),
           NEW w, w = IdentTokens(FromClause(t)), Len(w) \in Nat,
           NEW k \in 1 .. Len(w), ~ IsSqlKeyword(w[k]),
           \A j \in 1 .. k : w[j] # alias,
           \/ k + 1 <= Len(w) /\ w[k + 1] = alias
           \/ k + 2 <= Len(w) /\ w[k + 1] = <<"AS">> /\ w[k + 2] = alias
    PROVE  ResolveAlias(t, alias) = w[k]
<1>1. \A x : ~ IsSqlKeyword(x) => x # <<"AS">> /\ x \notin JoinKeywords
  BY JoinWordsKnown DEF IsSqlKeyword
<1>2. ResolveAlias(t, alias) =
        IF Written(w, alias) = {} THEN ExtractFromTable(t)
        ELSE IF w[Min(Written(w, alias)) - 1] = <<"AS">> THEN w[Min(Written(w, alias)) - 2]
        ELSE IF w[Min(Written(w, alias)) - 1] \in JoinKeywords THEN w[Min(Written(w, alias))]
        ELSE w[Min(Written(w, alias)) - 1]
  BY Zenon DEF ResolveAlias, Written
<1>3. w[k] # <<"AS">> /\ w[k] \notin JoinKeywords /\ alias # <<"AS">>
  BY <1>1
<1>4. PICK n : n = Len(w) /\ n \in Nat /\ k \in 1 .. n
  OBVIOUS
<1>5. CASE k + 1 <= Len(w) /\ w[k + 1] = alias
  <2>1. PICK m : m = k + 1
    OBVIOUS
  <2>2. m \in 2 .. Len(w) /\ m - 1 = k
    BY ONLY <1>4, <1>5, <2>1
  <2>3. w[m] = alias /\ (w[m - 1] = <<"AS">> => m > 2) /\ \A j \in 1 .. m - 1 : w[j] # alias
    BY <1>3, <1>5, <2>1, <2>2
  <2>4. Written(w, alias) # {} /\ Min(Written(w, alias)) = m
    BY <2>2, <2>3, WrittenFirst
  <2> QED
    BY Zenon, <1>2, <1>3, <2>2, <2>4
<1>6. CASE k + 2 <= Len(w) /\ w[k + 1] = <<"AS">> /\ w[k + 2] = alias
  <2>1. PICK m : m = k + 2
    OBVIOUS
  <2>2. m \in 2 .. Len(w) /\ m - 1 = k + 1 /\ m - 2 = k /\ m > 2
    BY ONLY <1>4, <1>6, <2>1
  <2>3. \A j \in 1 .. m - 1 : w[j] # alias
    <3> TAKE j \in 1 .. m - 1
    <3>1. j \in 1 .. k \/ j = k + 1
      BY ONLY <1>4, <2>1, j \in 1 .. m - 1
    <3> QED
      BY <1>3, <1>6, <3>1
  <2>4. Written(w, alias) # {} /\ Min(Written(w, alias)) = m
    <3>1. w[m] = alias /\ (w[m - 1] = <<"AS">> => m > 2)
      BY <1>6, <2>1, <2>2
    <3> QED
      BY <2>2, <2>3, <3>1, WrittenFirst
  <2> QED
    BY Zenon, <1>2, <1>6, <2>2, <2>4
<1> QED
  BY <1>5, <1>6

(* Without a word that ends it, the FROM clause is all that follows FROM.  *)
LEMMA WholeClause ==
    ASSUME NEW D, NEW t \in Seq(D), NEW f \in 1 .. Len(t), f = FirstKwPos(t, "FROM"),
           \A j \in 1 .. Len(t) : t[j] \notin Stops
    PROVE  FromClause(t) = After(t, f)
<1>1. PICK r, n : r = After(t, f) /\ n = Len(t)
  OBVIOUS
<1>2. f \in 0 .. n /\ n \in Nat /\ f \in Nat
  BY <1>1
<1>3. r \in Seq(D) /\ Len(r) = n - f /\ \A i \in 1 .. n - f : r[i] = t[f + i]
  <2>1. RestOf(r, t, f, D)
    BY <1>1, <1>2, RestIs
  <2> QED
    BY ONLY <1>1, <2>1 DEF RestOf
<1>4. \A kw \in Stops : FirstKwPos(r, kw) = Len(r) + 1
  <2> SUFFICES ASSUME NEW kw \in Stops PROVE FirstKwPos(r, kw) = Len(r) + 1
    OBVIOUS
  <2>1. KeywordAt(r, kw) = {}
    <3> SUFFICES ASSUME NEW j \in DOMAIN r, r[j] = kw PROVE FALSE
      BY DEF KeywordAt
    <3>1. j \in 1 .. n - f
      BY <1>2, <1>3
    <3>2. f + j \in 1 .. Len(t)
      BY ONLY <1>1, <1>2, <3>1
    <3> QED
      BY <1>3, <3>1, <3>2
  <2>2. PICK s : s = KeywordAt(r, kw) \cup {Len(r) + 1}
    OBVIOUS
  <2>3. s = {Len(r) + 1} /\ s \subseteq Nat /\ s # {}
    BY <1>2, <1>3, <2>1, <2>2
  <2>4. Min(s) \in s
    BY <2>3, MinOf
  <2> QED
    BY <2>2, <2>3, <2>4, Zenon DEF FirstKwPos
<1>5. PICK s : s = {FirstKwPos(r, kw) : kw \in Stops}
  OBVIOUS
<1>6. s = {Len(r) + 1}
  <2>1. "WHERE" \in Stops
    BY DEF Stops
  <2> HIDE DEF Stops
  <2> QED
    BY <1>4, <1>5, <2>1
<1>7. Min(s) = Len(r) + 1
  <2>1. s \subseteq Nat /\ s # {}
    BY <1>2, <1>3, <1>6
  <2>2. Min(s) \in s
    BY <2>1, MinOf
  <2> QED
    BY <1>6, <2>2
<1>8. FromClause(t) = Before(r, Min(s) - 1)
  BY <1>1, <1>5, Zenon DEF FromClause
<1>9. Min(s) - 1 = Len(r) /\ Len(r) \in Nat
  BY <1>2, <1>3, <1>7
<1>10. Before(r, Len(r)) = r
  <2>1. PICK u : u = Before(r, Len(r))
    OBVIOUS
  <2>a. Len(r) \in Int /\ Len(r) <= Len(r) /\ Len(r) >= 0 /\ r \in Seq(D)
    BY <1>3, <1>9
  <2>2. u \in Seq(D) /\ Len(u) = Len(r) /\ \A i \in 1 .. Len(r) : u[i] = r[i]
    BY ONLY <2>1, <2>a, CutType
  <2>3. Len(u) = Len(r) /\ \A i \in 1 .. Len(u) : u[i] = r[i]
    BY <2>2
  <2>4. u = r
    BY ONLY <1>3, <2>2, <2>3, SeqEqual
  <2> QED
    BY <2>1, <2>4
<1> QED
  BY <1>1, <1>8, <1>9, <1>10

(* What a place between words declares, in the words that follow it.       *)
Declares(t, p, q, e, r, f, u, g) ==
    /\ FollowedBy(t, p + 1, q, e) /\ FollowedBy(t, e, r, f)
    /\ Upto(t, r, f) = <<"AS">> => f = r + 1 /\ FollowedBy(t, f, u, g)

(* Of three words that follow each other the first is where b says so are  *)
(* the others.                                                             *)
LEMMA WordAt ==
    ASSUME NEW t, NEW b, BegunBy(t, b), NEW k \in 1 .. Len(b), NEW x, NEW e, FollowedBy(t, x, b[k], e)
    PROVE  IdentTokens(t)[k] = Upto(t, b[k], e)
BY DEF BegunBy, FollowedBy

(* Among the words w of t: those of a declaration behind p, in a row.      *)
AreWords(w, t, p, q, e, r, f, u, g) ==
    \E k \in 1 .. Len(w) :
        /\ w[k] = Upto(t, q, e)
        /\ \A j \in 1 .. k - 1 : w[j] \in Range(IdentTokens(Before(t, p)))
        /\ k + 1 <= Len(w) /\ w[k + 1] = Upto(t, r, f)
        /\ Upto(t, r, f) = <<"AS">> => k + 2 <= Len(w) /\ w[k + 2] = Upto(t, u, g)

(* The words of a declaration follow each other among those of its clause. *)
LEMMA WordsDeclared ==
    ASSUME NEW D, NEW t \in Seq(D), NEW p \in 0 .. Len(t), p + 1 <= Len(t) => t[p + 1] \notin IdentChars,
           NEW q, NEW e, NEW r, NEW f, NEW u, NEW g, Declares(t, p, q, e, r, f, u, g),
           q < e, r < f, Upto(t, r, f) = <<"AS">> => u < g
    PROVE  AreWords(IdentTokens(t), t, p, q, e, r, f, u, g)
<1>1. /\ FollowedBy(t, p + 1, q, e) /\ FollowedBy(t, e, r, f)
      /\ Upto(t, r, f) = <<"AS">> => FollowedBy(t, f, u, g)
  BY DEF Declares
<1>2. PICK b : /\ BegunBy(t, b)
               /\ \E k \in 1 .. Len(b) :
                    /\ b[k] = q
                    /\ \A j \in 1 .. k - 1 : IdentTokens(t)[j] \in Range(IdentTokens(Before(t, p)))
  BY <1>1, WordsAfter
<1>3. PICK k \in 1 .. Len(b) :
          /\ b[k] = q
          /\ \A j \in 1 .. k - 1 : IdentTokens(t)[j] \in Range(IdentTokens(Before(t, p)))
  BY <1>2
<1>4. PICK w, n : w = IdentTokens(t) /\ n = Len(b)
  OBVIOUS
<1>5. n \in Nat /\ Len(w) = n /\ k \in 1 .. n
  BY <1>2, <1>3, <1>4 DEF BegunBy, InOrder
<1>6. w[k] = Upto(t, q, e)
  <2>1. FollowedBy(t, p + 1, b[k], e)
    BY <1>1, <1>3
  <2>2. IdentTokens(t)[k] = Upto(t, b[k], e)
    BY ONLY <1>2, <2>1, WordAt
  <2> QED
    BY <1>3, <1>4, <2>2
<1>7. k + 1 \in 1 .. n /\ b[k + 1] = r
  BY <1>1, <1>2, <1>3, <1>4, NextBegins
<1>8. w[k + 1] = Upto(t, r, f)
  <2>1. PICK m : m = k + 1
    OBVIOUS
  <2>2. m \in 1 .. Len(b) /\ b[m] = r /\ FollowedBy(t, e, b[m], f)
    BY <1>1, <1>4, <1>7, <2>1
  <2>3. IdentTokens(t)[m] = Upto(t, b[m], f)
    BY ONLY <1>2, <2>2, WordAt
  <2> QED
    BY <1>4, <2>1, <2>2, <2>3
<1>9. ASSUME Upto(t, r, f) = <<"AS">>
      PROVE  k + 2 \in 1 .. n /\ w[k + 2] = Upto(t, u, g)
  <2>1. PICK m : m = k + 1
    OBVIOUS
  <2>2. m \in 1 .. Len(b) /\ b[m] = r /\ m + 1 = k + 2
    BY <1>4, <1>5, <1>7, <2>1
  <2>3. m + 1 \in 1 .. Len(b) /\ b[m + 1] = u
    BY <1>1, <1>2, <1>9, <2>2, NextBegins
  <2>4. w[m + 1] = Upto(t, u, g)
    <3>1. FollowedBy(t, f, b[m + 1], g)
      BY <1>1, <1>9, <2>3
    <3>2. IdentTokens(t)[m + 1] = Upto(t, b[m + 1], g)
      BY ONLY <1>2, <2>3, <3>1, WordAt
    <3> QED
      BY <1>4, <2>3, <3>2
  <2> QED
    BY <1>4, <2>2, <2>3, <2>4
<1>10. k + 1 <= n
  BY ONLY <1>5, <1>7
<1>11. Upto(t, r, f) = <<"AS">> => k + 2 <= n
  BY <1>5, <1>9
<1> QED
  BY <1>3, <1>4, <1>5, <1>6, <1>8, <1>9, <1>10, <1>11 DEF AreWords

(* A declaration that gives an alias, and the words it is read from.       *)
LEMMA DeclaredWords ==
    ASSUME text \in Seq(Symbols), NEW i \in 1 .. Len(text), NEW f \in 1 .. i,
           DeclaredAt(i).alias # <<>>
    PROVE  \E q, e, r, g, u, h :
               /\ Declares(After(text, f), i - f, q, e, r, g, u, h)
               /\ q < e /\ r < g
               /\ DeclaredAt(i).table = Upto(After(text, f), q, e)
               /\ ~ IsSqlKeyword(DeclaredAt(i).alias)
               /\ IF Upto(After(text, f), r, g) = <<"AS">>
                  THEN u < h /\ DeclaredAt(i).alias = Upto(After(text, f), u, h)
                  ELSE DeclaredAt(i).alias = Upto(After(text, f), r, g)
<1>1. PICK t, n, p : t = After(text, f) /\ n = Len(t) /\ p = i - f
  OBVIOUS
<1>2. n \in Nat /\ p \in 0 .. n /\ t \in Seq(Symbols) /\ After(t, p) = After(text, i)
  <2>1. f \in 0 .. Len(text) /\ p \in 0 .. Len(text) - f /\ f + p = i
    BY <1>1
  <2>2. RestOf(t, text, f, Symbols)
    BY <1>1, <2>1, RestIs
  <2>3. t \in Seq(Symbols) /\ Len(t) = Len(text) - f
    BY <2>2 DEF RestOf
  <2>4. After(After(text, f), p) = After(text, f + p)
    BY <2>1, AfterTwice
  <2> QED
    BY <1>1, <2>1, <2>3, <2>4
<1>3. PICK q, e : FollowedBy(t, p + 1, q, e)
  <2>1. p + 1 \in 1 .. Len(t) + 1
    BY ONLY <1>1, <1>2
  <2> QED
    BY <1>2, <2>1, WordFollows
<1>4. /\ q \in Nat /\ e \in Nat /\ p + 1 <= q /\ q <= e /\ e <= n + 1
      /\ q <= n => t[q] # " "
      /\ e <= n => t[e] \notin IdentChars
      /\ TrimStart(After(t, (p + 1) - 1)) = After(t, q - 1) /\ FirstWord(After(t, q - 1)) = Upto(t, q, e)
  BY <1>1, <1>3 DEF FollowedBy
<1>5. PICK r, g : FollowedBy(t, e, r, g)
  <2>1. e \in 1 .. Len(t) + 1
    <3>1. q \in Nat /\ e \in Nat /\ p + 1 <= q /\ q <= e /\ e <= n + 1
      BY <1>4
    <3> QED
      BY ONLY <1>1, <1>2, <3>1
  <2> QED
    BY <1>2, <2>1, WordFollows
<1>6. /\ r \in Nat /\ g \in Nat /\ e <= r /\ r <= g /\ g <= n + 1
      /\ \A y \in e .. r - 1 : t[y] = " "
      /\ \A y \in r .. g - 1 : t[y] \in IdentChars
      /\ TrimStart(After(t, e - 1)) = After(t, r - 1) /\ FirstWord(After(t, r - 1)) = Upto(t, r, g)
  BY <1>1, <1>5 DEF FollowedBy
<1>a. q \in Nat /\ e \in Nat /\ p + 1 <= q /\ q <= e /\ e <= n + 1 /\ r \in Nat /\ g \in Nat /\ e <= r /\ r <= g /\ g <= n + 1 /\ n \in Nat /\ p \in Nat
  <2>1. q \in Nat /\ e \in Nat /\ p + 1 <= q /\ q <= e /\ e <= n + 1
    BY ONLY <1>4
  <2>2. r \in Nat /\ g \in Nat /\ e <= r /\ r <= g /\ g <= n + 1
    BY ONLY <1>6
  <2>3. n \in Nat /\ p \in Nat
    BY ONLY <1>2
  <2> QED
    BY ONLY <2>1, <2>2, <2>3
<1>7. PICK tab, as : tab = Upto(t, q, e) /\ as = Upto(t, r, g)
  OBVIOUS
<1>8. Len(tab) = e - q /\ Len(as) = g - r /\ as \in Seq(Symbols)
  <2>1. q \in 1 .. Len(t) + 1 /\ e \in q .. Len(t) + 1 /\ r \in 1 .. Len(t) + 1 /\ g \in r .. Len(t) + 1
    BY ONLY <1>1, <1>a
  <2>2. PieceOf(tab, t, q, e, Symbols) /\ PieceOf(as, t, r, g, Symbols)
    BY <1>2, <1>7, <2>1, PieceIs
  <2> QED
    BY ONLY <2>2 DEF PieceOf
<1>9. PICK rest, more : rest = After(t, q - 1) /\ more = After(t, r - 1)
  OBVIOUS
<1>10. rest = TrimStart(After(text, i)) /\ tab = FirstWord(rest)
  <2>1. (p + 1) - 1 = p
    BY ONLY <1>a
  <2> QED
    BY <1>2, <1>4, <1>7, <1>9, <2>1
<1>11. more = TrimStart(After(rest, Len(tab))) /\ as = FirstWord(more)
  <2>1. q - 1 \in 0 .. Len(t) /\ e - q \in 0 .. Len(t) - (q - 1) /\ (q - 1) + (e - q) = e - 1
    BY ONLY <1>1, <1>a
  <2>2. After(After(t, q - 1), e - q) = After(t, (q - 1) + (e - q))
    BY <1>2, <2>1, AfterTwice
  <2> QED
    BY <1>6, <1>7, <1>8, <1>9, <2>1, <2>2
<1>12. PICK name : name = IF as = <<"AS">> THEN FirstWord(TrimStart(After(more, 1))) ELSE as
  OBVIOUS
<1>13. DeclaredAt(i) = [table |-> tab, alias |-> IF IsSqlKeyword(name) THEN <<>> ELSE name]
  BY <1>10, <1>11, <1>12, Zenon DEF DeclaredAt
<1>14. ~ IsSqlKeyword(name) /\ DeclaredAt(i).alias = name /\ DeclaredAt(i).table = tab /\ name # <<>>
  BY <1>13
<1>15. r < g
  <2>1. g - r # 0
    <3>1. as # <<>>
      <4>1. CASE as = <<"AS">>
        BY ONLY <4>1
      <4>2. CASE as # <<"AS">>
        BY ONLY <1>12, <1>14, <4>2
      <4> QED
        BY <4>1, <4>2
    <3> QED
      BY ONLY <1>8, <3>1, EmptySeq
  <2> QED
    BY ONLY <1>a, <2>1
<1>16. t[r] \in IdentChars /\ r <= n
  <2>1. r \in r .. g - 1 /\ r <= n
    BY ONLY <1>a, <1>15
  <2> QED
    BY <1>6, <2>1
<1>17. q < e
  <2> SUFFICES ASSUME ~ (q < e) PROVE FALSE
    OBVIOUS
  <2>1. q = e
    BY ONLY <1>a, ~ (q < e)
  <2>2. e # r
    BY <1>4, <1>16
  <2>3. e \in e .. r - 1 /\ q <= n
    BY ONLY <1>a, <1>16, <2>1, <2>2
  <2>4. t[e] = " "
    BY <1>6, <2>3
  <2> QED
    BY <1>4, <2>1, <2>3, <2>4
<1>18. CASE as = <<"AS">>
  <2>1. g = r + 1
    <3>1. Len(as) = 1
      BY <1>18
    <3>2. Len(as) = g - r
      BY ONLY <1>8
    <3>3. g - r = 1
      BY ONLY <3>1, <3>2
    <3>4. r \in Nat /\ g \in Nat
      BY ONLY <1>a
    <3> QED
      BY ONLY <3>3, <3>4
  <2>2. PICK u, h : FollowedBy(t, g, u, h)
    <3>1. g \in 1 .. Len(t) + 1
      BY ONLY <1>1, <1>a
    <3> QED
      BY <1>2, <3>1, WordFollows
  <2>3. /\ u \in Nat /\ h \in Nat /\ u <= h
        /\ g <= u /\ h <= n + 1
        /\ TrimStart(After(t, g - 1)) = After(t, u - 1) /\ FirstWord(After(t, u - 1)) = Upto(t, u, h)
    BY <1>1, <2>2 DEF FollowedBy
  <2>4. After(more, 1) = After(t, g - 1)
    <3>1. r - 1 \in 0 .. Len(t) /\ 1 \in 0 .. Len(t) - (r - 1) /\ (r - 1) + 1 = g - 1
      BY ONLY <1>1, <1>a, <1>16, <2>1
    <3>2. After(After(t, r - 1), 1) = After(t, (r - 1) + 1)
      BY <1>2, <3>1, AfterTwice
    <3> QED
      BY <1>9, <3>1, <3>2
  <2>5. name = Upto(t, u, h)
    BY <1>12, <1>18, <2>3, <2>4
  <2>6. u < h
    <3>1. u \in 1 .. Len(t) + 1 /\ h \in u .. Len(t) + 1
      <4>1. u \in Nat /\ h \in Nat /\ u <= h /\ g <= u /\ h <= n + 1
        BY <2>3
      <4> QED
        BY ONLY <1>1, <1>a, <4>1
    <3>2. PieceOf(name, t, u, h, Symbols)
      BY <1>2, <2>5, <3>1, PieceIs
    <3>3. name \in Seq(Symbols) /\ Len(name) = h - u
      BY <3>2 DEF PieceOf
    <3>4. Len(name) # 0
      BY ONLY <1>14, <3>3, EmptySeq
    <3>5. u \in Nat /\ h \in Nat /\ u <= h
      BY <2>3
    <3> QED
      BY ONLY <3>3, <3>4, <3>5
  <2>7. Declares(t, p, q, e, r, g, u, h)
    BY <1>3, <1>5, <2>1, <2>2 DEF Declares
  <2> QED
    BY <1>1, <1>7, <1>14, <1>15, <1>17, <1>18, <2>5, <2>6, <2>7
<1>19. CASE as # <<"AS">>
  <2>1. Declares(t, p, q, e, r, g, 0, 0)
    BY <1>3, <1>5, <1>7, <1>19 DEF Declares
  <2>2. name = as
    BY <1>12, <1>19
  <2> QED
    BY <1>1, <1>7, <1>14, <1>15, <1>17, <1>19, <2>1, <2>2
<1> QED
  BY <1>18, <1>19

(* The declarations AliasResolved is about.                                *)
Unmistaken(i, d, words) ==
    /\ i \in KeywordAt(text, "FROM") \cup KeywordAt(text, "JOIN")
    /\ Cardinality(KeywordAt(text, "FROM")) = 1 /\ i >= FirstKwPos(text, "FROM")
    /\ Range(text) \cap (Stops \cup {",", "."}) = {}
    /\ ~ IsSqlKeyword(d.table) /\ d.alias # <<>> /\ d.alias \notin Range(words) \cup {d.table}

(* One declaration, whatever else the text says.                           *)
LEMMA DeclarationResolved ==
    ASSUME text \in Seq(Symbols), NEW i, NEW d, d = DeclaredAt(i),
           NEW words, words = IdentTokens(Before(FromClause(text), i - FirstKwPos(text, "FROM"))),
           Unmistaken(i, d, words)
    PROVE  ResolveAlias(text, d.alias) = d.table
<1>1. PICK f, n, s : f = FirstKwPos(text, "FROM") /\ n = Len(text) /\ s = KeywordAt(text, "FROM")
  OBVIOUS
<1>a. /\ i \in KeywordAt(text, "FROM") \/ i \in KeywordAt(text, "JOIN")
      /\ Cardinality(s) = 1 /\ i >= f
      /\ \A x \in Range(text) : x \notin Stops
      /\ ~ IsSqlKeyword(d.table) /\ d.alias # <<>> /\ d.alias \notin Range(words) /\ d.alias # d.table
  BY <1>1 DEF Unmistaken
<1>2. n \in Nat /\ DOMAIN text = 1 .. n
  BY <1>1
<1>3. s # {} /\ s \subseteq 1 .. n
  <2>1. s # {}
    <3>1. Cardinality(s) = 1
      BY <1>a
    <3>2. Cardinality({}) = 0
      BY FS_EmptySet
    <3> QED
      BY ONLY <3>1, <3>2
  <2> QED
    BY <1>1, <1>2, <2>1 DEF KeywordAt
<1>4. f \in 1 .. n
  <2>1. PICK m : m = s \cup {n + 1}
    OBVIOUS
  <2>2. m \subseteq Nat /\ m # {}
    BY ONLY <1>2, <1>3, <2>1
  <2>3. Min(m) \in m /\ \A y \in m : Min(m) <= y
    BY <2>2, MinOf
  <2>4. f = Min(m)
    BY <1>1, <2>1, Zenon DEF FirstKwPos
  <2>5. PICK y : y \in s
    BY <1>3
  <2>6. f \in m /\ f <= y /\ y \in 1 .. n
    BY <1>3, <2>1, <2>3, <2>4, <2>5
  <2> QED
    BY ONLY <1>2, <1>3, <2>1, <2>6
<1>5. i \in 1 .. n /\ At(text, i + 1) \notin IdentChars
  BY <1>2, <1>a DEF KeywordAt
<1>6. f <= i /\ f \in 1 .. i
  <2>1. i >= f
    BY <1>a
  <2> QED
    BY ONLY <1>2, <1>4, <1>5, <2>1
<1>7. PICK t, p : t = After(text, f) /\ p = i - f
  OBVIOUS
<1>8. FromClause(text) = t
  <2>1. \A j \in 1 .. Len(text) : text[j] \notin Stops
    <3> TAKE j \in 1 .. Len(text)
    <3>1. text[j] \in Range(text)
      BY <1>1, <1>2 DEF Range
    <3> QED
      BY <1>a, <3>1
  <2>2. f \in 1 .. Len(text)
    BY <1>1, <1>4
  <2> QED
    BY <1>1, <1>7, <2>1, <2>2, WholeClause
<1>9. t \in Seq(Symbols) /\ Len(t) = n - f /\ \A j \in 1 .. n - f : t[j] = text[f + j]
  <2>1. f \in 0 .. Len(text)
    BY ONLY <1>1, <1>2, <1>4
  <2>2. RestOf(t, text, f, Symbols)
    BY <1>7, <2>1, RestIs
  <2> QED
    BY ONLY <1>1, <2>2 DEF RestOf
<1>10. p \in 0 .. Len(t) /\ (p + 1 <= Len(t) => t[p + 1] \notin IdentChars)
  <2>1. Len(t) = n - f
    BY <1>9
  <2>2. p \in 0 .. Len(t)
    BY ONLY <1>2, <1>5, <1>6, <1>7, <2>1
  <2>3. ASSUME p + 1 <= Len(t) PROVE t[p + 1] \notin IdentChars
    <3>1. p + 1 \in 1 .. n - f /\ f + (p + 1) = i + 1 /\ i + 1 \in 1 .. Len(text)
      <4>1. i \in 1 .. n
        BY <1>5
      <4> QED
        BY ONLY <1>1, <1>2, <1>4, <4>1, <1>7, <2>1, <2>2, <2>3
    <3>2. t[p + 1] = text[i + 1] /\ At(text, i + 1) = text[i + 1]
      BY <1>9, <3>1 DEF At
    <3> QED
      BY <1>5, <3>2
  <2> QED
    BY <2>2, <2>3
<1>11. PICK q, e, r, g, u, h :
          /\ Declares(t, p, q, e, r, g, u, h)
          /\ q < e /\ r < g
          /\ d.table = Upto(t, q, e)
          /\ ~ IsSqlKeyword(d.alias)
          /\ IF Upto(t, r, g) = <<"AS">> THEN u < h /\ d.alias = Upto(t, u, h) ELSE d.alias = Upto(t, r, g)
  <2>1. i \in 1 .. Len(text)
    BY <1>1, <1>5
  <2> QED
    BY <1>6, <1>7, <1>a, <2>1, DeclaredWords
<1>12. PICK w : w = IdentTokens(t)
  OBVIOUS
<1>13. PICK k \in 1 .. Len(w) :
          /\ w[k] = Upto(t, q, e)
          /\ \A j \in 1 .. k - 1 : w[j] \in Range(IdentTokens(Before(t, p)))
          /\ k + 1 <= Len(w) /\ w[k + 1] = Upto(t, r, g)
          /\ Upto(t, r, g) = <<"AS">> => k + 2 <= Len(w) /\ w[k + 2] = Upto(t, u, h)
  <2>1. Upto(t, r, g) = <<"AS">> => u < h
    BY <1>11
  <2>2. Declares(t, p, q, e, r, g, u, h) /\ q < e /\ r < g
    BY <1>11
  <2>3. AreWords(w, t, p, q, e, r, g, u, h)
    BY ONLY <1>9, <1>10, <1>12, <2>1, <2>2, WordsDeclared
  <2> QED
    BY ONLY <2>3, Zenon DEF AreWords
<1>14. Len(w) \in Nat
  <2>1. PICK b : BegunBy(t, b)
    BY <1>9, WordsBegin
  <2>2. Len(w) = Len(b) /\ b \in Seq(Nat)
    BY <1>12, <2>1 DEF BegunBy, InOrder
  <2> QED
    BY ONLY <2>2
<1>15. words = IdentTokens(Before(t, p))
  BY <1>1, <1>7, <1>8
<1>16. \A j \in 1 .. k : w[j] # d.alias
  <2> TAKE j \in 1 .. k
  <2>1. j \in 1 .. k - 1 \/ j = k
    BY ONLY <1>14, k \in 1 .. Len(w), j \in 1 .. k
  <2> QED
    BY <1>11, <1>13, <1>15, <1>a, <2>1
<1>17. HasKeyword(text, "FROM")
  BY <1>1, <1>3 DEF HasKeyword
<1>18. \/ k + 1 <= Len(w) /\ w[k + 1] = d.alias
       \/ k + 2 <= Len(w) /\ w[k + 1] = <<"AS">> /\ w[k + 2] = d.alias
  BY <1>11, <1>13
<1>19. ~ IsSqlKeyword(w[k]) /\ w = IdentTokens(FromClause(text)) /\ ~ IsSqlKeyword(d.alias)
  BY <1>8, <1>11, <1>12, <1>13, <1>a
<1>20. ResolveAlias(text, d.alias) = w[k]
  <2>1. d.alias # <<>> /\ k \in 1 .. Len(w)
    BY <1>a
  <2>2. PICK alias, T : alias = d.alias /\ T = text
    OBVIOUS
  <2> QED
    BY ONLY <1>14, <1>16, <1>17, <1>18, <1>19, <2>1, <2>2, AliasStandsFor
<1> QED
  BY <1>11, <1>13, <1>20

(* After a dot the columns are those of the table the alias was declared   *)
(* for, in every text that is typed, completed or switched to.             *)
THEOREM AliasesResolved == CompletionSpec => []AliasResolved
<1>1. CompletionOK => AliasResolved
  <2> SUFFICES ASSUME CompletionOK PROVE AliasResolved
    OBVIOUS
  <2>1. text \in Seq(Symbols)
    BY DEF CompletionOK
  <2> QED
    BY <2>1, DeclarationResolved, Zenon DEF AliasResolved, Unmistaken
<1> QED
  BY <1>1, CompletionTypeCorrect, PTL

=============================================================================
