------------------------------ MODULE ListFacts -------------------------------
(***************************************************************************)
(* Facts about numbers and lists that the proofs of several modules need.  *)
(*                                                                         *)
(* An induction over the numbers is the choice of a least counterexample:  *)
(* WFMin gives one, from the order of the naturals being well founded.     *)
(***************************************************************************)
EXTENDS Lists, SequenceTheorems, FiniteSetTheorems, WellFoundedInduction, TLAPS

(* The order of the naturals is well founded, in the form WFMin takes.    *)
LEMMA NatOrdered == IsWellFoundedOn({p \in Nat \X Nat : p[1] < p[2]}, Nat)
BY NatLessThanWellFounded, Zenon DEF OpToRel

(* A set of naturals that is not empty has a least element.                *)
LEMMA Least ==
    ASSUME NEW T, T \subseteq Nat, T # {}
    PROVE  \E x \in T : \A y \in T : x <= y
<1> DEFINE R == {p \in Nat \X Nat : p[1] < p[2]}
<1>1. IsWellFoundedOn(R, Nat)
  BY NatOrdered
<1>2. PICK x \in T : \A y \in T : ~ (<<y, x>> \in R)
  <2> HIDE DEF R
  <2> QED BY ONLY <1>1, WFMin, T \subseteq Nat, T # {}
<1>3. \A y \in T : x <= y
  <2> SUFFICES ASSUME NEW y \in T PROVE x <= y
    OBVIOUS
  <2>1. x \in Nat /\ y \in Nat /\ <<y, x>> \in Nat \X Nat
    OBVIOUS
  <2>2. ~ (y < x)
    BY <1>2, <2>1
  <2> QED
    BY <2>1, <2>2
<1> QED
  BY <1>3

(* Induction from 0 up to n.                                               *)
LEMMA Upward ==
    ASSUME NEW P, NEW n \in Nat, 0 \in P, \A i \in 0 .. n - 1 : i \in P => i + 1 \in P
    PROVE  \A i \in 0 .. n : i \in P
<1> DEFINE T == {i \in 0 .. n : i \notin P}
<1> SUFFICES ASSUME T # {} PROVE FALSE
  OBVIOUS
<1>1. T \subseteq Nat
  OBVIOUS
<1>2. PICK i \in T : \A j \in T : i <= j
  <2> HIDE DEF T
  <2> QED BY <1>1, Least
<1> QED
  BY <1>2

(* Induction from n + 1 down to 1.                                         *)
LEMMA Downward ==
    ASSUME NEW P, NEW n \in Nat, n + 1 \in P, \A i \in 1 .. n : i + 1 \in P => i \in P
    PROVE  \A i \in 1 .. n + 1 : i \in P
<1> DEFINE T == {j \in 0 .. n : n + 1 - j \notin P}
<1> SUFFICES ASSUME T # {} PROVE FALSE
  <2> SUFFICES ASSUME NEW i \in 1 .. n + 1, i \notin P PROVE FALSE
    OBVIOUS
  <2>1. n + 1 - i \in 0 .. n /\ n + 1 - (n + 1 - i) = i
    OBVIOUS
  <2> QED
    BY <2>1
<1>1. T \subseteq Nat
  OBVIOUS
<1>2. PICK j \in T : \A k \in T : j <= k
  <2> HIDE DEF T
  <2> QED BY <1>1, Least
<1>3. j \in 1 .. n /\ n + 1 - j \notin P
  BY <1>2
<1>4. j - 1 \in 0 .. n /\ j - 1 \notin T
  BY <1>2, <1>3
<1>5. n + 1 - (j - 1) = (n + 1 - j) + 1 /\ n + 1 - j \in 1 .. n
  BY <1>3
<1> QED
  BY <1>3, <1>4, <1>5

(* A walk over 1 .. m that has head[i] to say at i and goes on at next[i], *)
(* until it is past n.                                                     *)
Walkable(head, next, n, m, S) ==
    /\ n \in Nat /\ m \in Nat /\ n <= m
    /\ \A i \in 1 .. n : head[i] \in Seq(S) /\ next[i] \in i + 1 .. m

Walks(f, head, next, n, m, S) ==
    /\ f \in [1 .. m -> Seq(S)]
    /\ \A i \in 1 .. m : f[i] = IF i > n THEN <<>> ELSE head[i] \o f[next[i]]

(* There is such a walk, whatever it says and however far it leaps.        *)
LEMMA Walk ==
    ASSUME NEW S, NEW n, NEW m, NEW head, NEW next, Walkable(head, next, n, m, S)
    PROVE  \E f : Walks(f, head, next, n, m, S)
<1>0. /\ n \in Nat /\ m \in Nat /\ n <= m
      /\ \A i \in 1 .. n : head[i] \in Seq(S) /\ next[i] \in i + 1 .. m
  BY DEF Walkable
<1> USE <1>0
<1> DEFINE Solves(f, k) == /\ f \in [k .. m -> Seq(S)]
                           /\ \A i \in k .. m : f[i] = IF i > n THEN <<>> ELSE head[i] \o f[next[i]]
           P == {k \in 1 .. m + 1 : \E f : Solves(f, k)}
<1>1. m + 1 \in P
  <2> DEFINE g == [i \in m + 1 .. m |-> <<>>]
  <2>1. m + 1 .. m = {} /\ m + 1 \in 1 .. m + 1
    OBVIOUS
  <2>2. Solves(g, m + 1)
    BY <2>1
  <2> HIDE DEF Solves, g
  <2> QED
    BY <2>1, <2>2
<1>2. ASSUME NEW k \in 1 .. m, k + 1 \in P
      PROVE  k \in P
  <2>1. PICK f : Solves(f, k + 1)
    BY <1>2
  <2> DEFINE e == IF k > n THEN <<>> ELSE head[k] \o f[next[k]]
             g == [i \in k .. m |-> IF i = k THEN e ELSE f[i]]
  <2>2. e \in Seq(S)
    <3>1. CASE k > n
      BY <3>1
    <3>2. CASE ~ (k > n)
      <4>1. head[k] \in Seq(S) /\ next[k] \in k + 1 .. m /\ f[next[k]] \in Seq(S)
        BY <2>1, <3>2
      <4> QED
        BY <3>2, <4>1
    <3> QED
      BY <3>1, <3>2
  <2>3. g \in [k .. m -> Seq(S)]
    <3> HIDE DEF e
    <3> QED BY <2>1, <2>2
  <2>4. \A i \in k + 1 .. m : g[i] = f[i]
    OBVIOUS
  <2>5. ASSUME NEW i \in k .. m
        PROVE  g[i] = IF i > n THEN <<>> ELSE head[i] \o g[next[i]]
    <3>1. ~ (i > n) => next[i] \in k + 1 .. m /\ g[next[i]] = f[next[i]]
      <4> HIDE DEF g
      <4>1. ~ (i > n) => next[i] \in k + 1 .. m
        OBVIOUS
      <4> QED
        BY ONLY <4>1, <2>4
    <3>2. CASE i = k
      <4>1. g[k] = e
        OBVIOUS
      <4> HIDE DEF g
      <4> QED
        BY <3>1, <3>2, <4>1
    <3>3. CASE i # k
      <4>1. i \in k + 1 .. m
        BY <3>3
      <4>2. f[i] = IF i > n THEN <<>> ELSE head[i] \o f[next[i]]
        BY Zenon, <2>1, <4>1
      <4>3. g[i] = f[i]
        BY <2>4, <4>1
      <4> HIDE DEF g
      <4> QED
        BY ONLY <3>1, <4>2, <4>3
    <3> QED
      BY <3>2, <3>3
  <2>6. Solves(g, k)
    <3> HIDE DEF g
    <3> QED
      BY <2>3, <2>5
  <2> HIDE DEF Solves, g
  <2> QED
    BY <2>6
<1>3. \A k \in 1 .. m + 1 : k \in P
  <2> HIDE DEF P
  <2> QED BY <1>1, <1>2, Downward
<1>4. PICK f : Solves(f, 1)
  <2>1. 1 \in P
    <3> HIDE DEF P
    <3> QED BY <1>3
  <2> HIDE DEF Solves
  <2> QED BY <2>1
<1>5. Walks(f, head, next, n, m, S)
  BY <1>4 DEF Walks
<1> QED
  BY <1>5

(* Two functions are equal when what they are at i follows from what they  *)
(* are after i.                                                            *)
Determined(f, g, m) ==
    m \in Nat /\ \A i \in 1 .. m : (\A j \in i + 1 .. m : f[j] = g[j]) => f[i] = g[i]

SameUpTo(f, g, m) == \A i \in 1 .. m : f[i] = g[i]

(* From the last number down, both are the same.                           *)
LEMMA Agree ==
    ASSUME NEW m, NEW f, NEW g, Determined(f, g, m)
    PROVE  SameUpTo(f, g, m)
<1>0. m \in Nat /\ \A i \in 1 .. m : (\A j \in i + 1 .. m : f[j] = g[j]) => f[i] = g[i]
  BY DEF Determined
<1> USE <1>0
<1> DEFINE P == {k \in 1 .. m + 1 : \A j \in k .. m : f[j] = g[j]}
<1>1. m + 1 \in P
  OBVIOUS
<1>2. ASSUME NEW k \in 1 .. m, k + 1 \in P
      PROVE  k \in P
  <2>1. \A j \in k + 1 .. m : f[j] = g[j]
    BY <1>2
  <2>2. f[k] = g[k]
    BY <2>1
  <2>3. \A j \in k .. m : f[j] = g[j]
    BY <2>1, <2>2
  <2> QED
    BY <2>3
<1>3. \A k \in 1 .. m + 1 : k \in P
  <2> HIDE DEF P
  <2> QED BY <1>1, <1>2, Downward
<1> QED
  BY <1>3 DEF SameUpTo

(* A set of naturals has a least number, and one with a bound a greatest.  *)
LEMMA MinOf ==
    ASSUME NEW S, S \subseteq Nat, S # {}
    PROVE  Min(S) \in S /\ \A x \in S : Min(S) <= x
<1>1. \E x \in S : \A y \in S : x <= y
  BY Least
<1> QED
  BY <1>1 DEF Min

LEMMA MaxOf ==
    ASSUME NEW n \in Nat, NEW S, S \subseteq 0 .. n, S # {}
    PROVE  Max(S) \in S /\ \A x \in S : x <= Max(S)
<1> DEFINE T == {n - x : x \in S}
<1>1. T \subseteq Nat /\ T # {}
  OBVIOUS
<1>2. PICK z \in T : \A y \in T : z <= y
  <2> HIDE DEF T
  <2> QED BY <1>1, Least
<1>3. PICK x \in S : z = n - x
  BY <1>2
<1>4. \A y \in S : n - y \in T /\ y \in Int
  OBVIOUS
<1>5. \A y \in S : y <= x
  BY <1>2, <1>3, <1>4
<1>6. \E m \in S : \A y \in S : m >= y
  BY <1>5
<1> QED
  BY <1>6 DEF Max

(* Lists of one and two, the entries of a list, and a list made of it.     *)
LEMMA ShortLists ==
    ASSUME NEW S, NEW x \in S, NEW y \in S
    PROVE  <<x>> \in Seq(S) /\ <<x, y>> \in Seq(S) /\ Len(<<x>>) = 1 /\ Len(<<x, y>>) = 2
OBVIOUS

LEMMA EntryOf ==
    ASSUME NEW S, NEW s \in Seq(S)
    PROVE  \A k \in DOMAIN s : s[k] \in S
OBVIOUS

LEMMA MadeOf ==
    ASSUME NEW S, NEW s \in Seq(S), NEW T, NEW f, f \in [DOMAIN s -> T]
    PROVE  f \in Seq(T)
<1>1. PICK n : n = Len(s) /\ n \in Nat /\ DOMAIN s = 1 .. n
  OBVIOUS
<1>2. f \in [1 .. n -> T]
  BY <1>1
<1> QED
  BY <1>1, <1>2

(* The numbers of S from i up to n are i, if it is one, and those above.   *)
AscendsFrom(g, S, n) ==
    /\ g \in [1 .. n + 1 -> Seq(S \cap 1 .. n)]
    /\ g[n + 1] = <<>>
    /\ \A i \in 1 .. n : g[i] = (IF i \in S THEN <<i>> ELSE <<>>) \o g[i + 1]

LEMMA AscendingWalk ==
    ASSUME NEW S, NEW n \in Nat
    PROVE  \E g : AscendsFrom(g, S, n) /\ Ascending(S, n) = g[1]
<1> DEFINE T == S \cap 1 .. n
           head == [i \in 1 .. n |-> IF i \in S THEN <<i>> ELSE <<>>]
           next == [i \in 1 .. n |-> i + 1]
           From(h) == [i \in 1 .. n + 1 |-> IF i > n THEN <<>>
                                           ELSE (IF i \in S THEN <<i>> ELSE <<>>) \o h[i + 1]]
<1>1. Walkable(head, next, n, n + 1, T)
  <2>1. \A i \in 1 .. n : head[i] \in Seq(T) /\ next[i] \in i + 1 .. n + 1
    <3> SUFFICES ASSUME NEW i \in 1 .. n PROVE head[i] \in Seq(T) /\ next[i] \in i + 1 .. n + 1
      OBVIOUS
    <3>1. head[i] = IF i \in S THEN <<i>> ELSE <<>>
      OBVIOUS
    <3>2. i \in S => i \in T
      OBVIOUS
    <3> QED
      <4> HIDE DEF head, T
      <4> QED BY <3>1, <3>2
  <2>2. n + 1 \in Nat /\ n <= n + 1
    OBVIOUS
  <2> HIDE DEF head, next, T
  <2> QED
    BY <2>1, <2>2 DEF Walkable
<1>2. PICK g : Walks(g, head, next, n, n + 1, T)
  <2> HIDE DEF T, head, next
  <2> QED BY <1>1, Walk
<1>3. g \in [1 .. n + 1 -> Seq(T)]
  BY <1>2 DEF Walks
<1>4. g = From(g)
  <2> SUFFICES ASSUME NEW i \in 1 .. n + 1
               PROVE  g[i] = IF i > n THEN <<>> ELSE (IF i \in S THEN <<i>> ELSE <<>>) \o g[i + 1]
    BY <1>3
  <2>1. g[i] = IF i > n THEN <<>> ELSE head[i] \o g[next[i]]
    <3> HIDE DEF T, head, next
    <3> QED BY <1>2 DEF Walks
  <2> QED
    BY <2>1
<1> DEFINE from == CHOOSE h : h = From(h)
<1>5. from = From(from)
  <2> HIDE DEF From
  <2> QED BY <1>4
<1>6. Ascending(S, n) = from[1]
  BY DEF Ascending
<1>7. \A i \in 1 .. n + 1 : (\A j \in i + 1 .. n + 1 : from[j] = g[j]) => from[i] = g[i]
  <2> SUFFICES ASSUME NEW i \in 1 .. n + 1, \A j \in i + 1 .. n + 1 : from[j] = g[j]
               PROVE  from[i] = g[i]
    OBVIOUS
  <2>1. from[i] = From(from)[i] /\ g[i] = From(g)[i]
    BY <1>4, <1>5
  <2>2. i <= n => i + 1 \in i + 1 .. n + 1
    OBVIOUS
  <2> HIDE DEF from
  <2> QED
    BY <2>1, <2>2
<1>8. \A i \in 1 .. n + 1 : from[i] = g[i]
  <2> HIDE DEF from
  <2>1. Determined(from, g, n + 1)
    BY <1>7 DEF Determined
  <2>2. SameUpTo(from, g, n + 1)
    BY <2>1, Agree
  <2> QED
    BY <2>2 DEF SameUpTo
<1>9. 1 \in 1 .. n + 1
  OBVIOUS
<1> HIDE DEF from
<1>10. AscendsFrom(g, S, n)
  <2>1. g[n + 1] = <<>>
    <3>1. n + 1 \in 1 .. n + 1 /\ n + 1 > n
      OBVIOUS
    <3> QED
      BY <1>4, <3>1
  <2>2. ASSUME NEW i \in 1 .. n
        PROVE  g[i] = (IF i \in S THEN <<i>> ELSE <<>>) \o g[i + 1]
    <3>1. i \in 1 .. n + 1 /\ ~ (i > n)
      OBVIOUS
    <3> QED
      BY <1>4, <3>1
  <2> QED
    BY <1>3, <2>1, <2>2 DEF AscendsFrom
<1> QED
  BY <1>3, <1>6, <1>8, <1>9, <1>10

(* The numbers kept of 1 .. n, and the entries kept of a list.             *)
LEMMA AscendingType ==
    ASSUME NEW S, NEW n \in Nat
    PROVE  Ascending(S, n) \in Seq(S \cap 1 .. n)
<1>1. PICK g : AscendsFrom(g, S, n) /\ Ascending(S, n) = g[1]
  BY AscendingWalk
<1>2. 1 \in 1 .. n + 1
  OBVIOUS
<1> QED
  BY <1>1, <1>2 DEF AscendsFrom

LEMMA KeptType ==
    ASSUME NEW T, NEW list \in Seq(T), NEW S
    PROVE  Kept(list, S) \in Seq(T)
<1>1. PICK at : at = Ascending(S, Len(list))
  OBVIOUS
<1>2. at \in Seq(S \cap 1 .. Len(list))
  BY <1>1, AscendingType
<1>3. \A k \in DOMAIN at : list[at[k]] \in T
  BY <1>2
<1>4. [k \in DOMAIN at |-> list[at[k]]] \in Seq(T)
  BY <1>2, <1>3
<1> QED
  BY <1>1, <1>4 DEF Kept

(* g has the lists of seqs one after the other, up to each of them.        *)
Flattens(g, seqs, C) ==
    /\ g \in [0 .. Len(seqs) -> Seq(C)] /\ g[0] = <<>>
    /\ \A i \in 1 .. Len(seqs) : g[i] = g[i - 1] \o seqs[i]
    /\ FlattenSeq(seqs) = g[Len(seqs)]

(* FlattenSeq puts them one after the other.                               *)
LEMMA FlattenSteps ==
    ASSUME NEW C, NEW seqs \in Seq(Seq(C))
    PROVE  \E g : Flattens(g, seqs, C)
<1>0. PICK n : n = Len(seqs) /\ n \in Nat /\ \A i \in 1 .. n : seqs[i] \in Seq(C)
  OBVIOUS
<1> DEFINE e(g, i) == IF i = 1 THEN seqs[i] ELSE g[i - 1] \o seqs[i]
           Solves(g, k) == g = [i \in 1 .. k |-> e(g, i)]
           P == {k \in 0 .. n : \E g : Solves(g, k) /\ \A i \in 1 .. k : g[i] \in Seq(C)}
<1>1. 0 \in P
  <2> DEFINE g == [i \in 1 .. 0 |-> <<>>]
  <2>1. Solves(g, 0) /\ 1 .. 0 = {}
    <3> HIDE DEF e
    <3> QED OBVIOUS
  <2>2. 0 \in 0 .. n
    BY <1>0
  <2>3. \A i \in 1 .. 0 : g[i] \in Seq(C)
    BY <2>1
  <2> HIDE DEF Solves, g
  <2> QED
    BY <2>1, <2>2, <2>3
<1>2. ASSUME NEW k \in 0 .. n - 1, k \in P
      PROVE  k + 1 \in P
  <2>1. PICK g : Solves(g, k) /\ \A i \in 1 .. k : g[i] \in Seq(C)
    <3> HIDE DEF Solves
    <3> QED BY <1>2
  <2> DEFINE h == [i \in 1 .. k + 1 |-> IF i = k + 1 THEN e(g, k + 1) ELSE g[i]]
  <2>0. k \in Nat /\ k + 1 \in 1 .. n
    BY <1>0
  <2>2. \A i \in 1 .. k : h[i] = g[i]
    <3> HIDE DEF e
    <3> QED BY <2>0
  <2>3. \A i \in 1 .. k + 1 : e(h, i) = e(g, i)
    <3> SUFFICES ASSUME NEW i \in 1 .. k + 1 PROVE e(h, i) = e(g, i)
      OBVIOUS
    <3>1. i # 1 => i - 1 \in 1 .. k
      BY <2>0
    <3>2. i # 1 => h[i - 1] = g[i - 1]
      BY <2>2, <3>1
    <3> HIDE DEF h
    <3> QED
      BY <3>2
  <2>4. \A i \in 1 .. k : g[i] = e(g, i)
    <3> HIDE DEF e
    <3> QED BY <2>1
  <2>5. \A i \in 1 .. k + 1 : h[i] = e(g, i)
    <3> HIDE DEF e
    <3> QED BY <2>4, <2>0
  <2>6. Solves(h, k + 1)
    <3> HIDE DEF e
    <3> QED BY <2>3, <2>5
  <2>7. e(g, k + 1) \in Seq(C)
    <3>1. seqs[k + 1] \in Seq(C)
      BY <1>0, <2>0
    <3>2. k # 0 => g[k + 1 - 1] \in Seq(C)
      BY <2>0, <2>1
    <3>3. CASE k = 0
      BY <3>1, <3>3
    <3>4. CASE k # 0
      BY <2>0, <3>1, <3>2, <3>4
    <3> QED BY <3>3, <3>4
  <2>8. \A i \in 1 .. k + 1 : h[i] \in Seq(C)
    <3> HIDE DEF e
    <3> QED BY <2>0, <2>1, <2>7
  <2>9. k + 1 \in 0 .. n
    BY <2>0
  <2> HIDE DEF Solves, h
  <2> QED
    BY <2>6, <2>8, <2>9
<1>3. PICK g : Solves(g, n) /\ \A i \in 1 .. n : g[i] \in Seq(C)
  <2> HIDE DEF Solves
  <2>1. \A k \in 0 .. n : k \in P
    <3> HIDE DEF P
    <3> QED BY <1>0, <1>1, <1>2, Upward
  <2>2. n \in P
    BY <1>0, <2>1
  <2> QED BY <2>2
<1> DEFINE f == CHOOSE h : Solves(h, n)
<1>4. Solves(f, n)
  <2> HIDE DEF Solves
  <2> QED BY <1>3
<1>5. \A k \in 0 .. n : k \in {x \in 0 .. n : x # 0 => f[x] \in Seq(C)}
  <2> DEFINE Q == {x \in 0 .. n : x # 0 => f[x] \in Seq(C)}
  <2> HIDE DEF f
  <2>1. 0 \in Q
    BY <1>0
  <2>2. ASSUME NEW k \in 0 .. n - 1, k \in Q
        PROVE  k + 1 \in Q
    <3>1. k \in Nat /\ k + 1 \in 1 .. n /\ k + 1 - 1 = k
      BY <1>0
    <3>2. f[k + 1] = e(f, k + 1)
      <4> HIDE DEF e
      <4> QED BY <1>4, <3>1
    <3>3. k # 0 => f[k] \in Seq(C)
      BY <2>2
    <3>4. seqs[k + 1] \in Seq(C)
      BY <1>0, <3>1
    <3>5. CASE k = 0
      BY <3>1, <3>2, <3>4, <3>5
    <3>6. CASE k # 0
      <4>1. f[k + 1] = f[k] \o seqs[k + 1]
        <5>1. k + 1 # 1
          BY <3>1, <3>6
        <5>2. \A i \in Nat : i # 1 => e(f, i) = f[i - 1] \o seqs[i]
          OBVIOUS
        <5>3. PICK m : m = k + 1
          OBVIOUS
        <5>4. m \in Nat /\ m # 1 /\ m - 1 = k
          BY <3>1, <5>1, <5>3
        <5>5. e(f, m) = f[m - 1] \o seqs[m]
          <6> HIDE DEF e
          <6> QED BY <5>2, <5>4
        <5> HIDE DEF e
        <5>6. e(f, m) = f[k] \o seqs[m]
          BY <5>4, <5>5, Zenon
        <5> QED BY <3>2, <5>3, <5>6, Zenon
      <4>2. f[k + 1] \in Seq(C)
        BY <3>3, <3>4, <3>6, <4>1
      <4> QED
        BY <3>1, <4>2
    <3> QED BY <3>5, <3>6
  <2> HIDE DEF Q
  <2>3. \A k \in 0 .. n : k \in Q
    BY <1>0, <2>1, <2>2, Upward
  <2> QED BY <2>3 DEF Q
<1>6. f[1] = seqs[1] \/ n = 0
  <2> SUFFICES ASSUME n # 0 PROVE f[1] = seqs[1]
    OBVIOUS
  <2>1. 1 \in 1 .. n
    BY <1>0
  <2>2. f[1] = e(f, 1)
    <3> HIDE DEF e, f
    <3> QED BY <1>4, <2>1
  <2> QED
    BY <2>2
<1>7. \A i \in 1 .. n : i # 1 => f[i] = f[i - 1] \o seqs[i]
  <2> SUFFICES ASSUME NEW i \in 1 .. n, i # 1 PROVE f[i] = f[i - 1] \o seqs[i]
    OBVIOUS
  <2>1. f[i] = e(f, i)
    <3> HIDE DEF e, f
    <3> QED BY <1>4
  <2>2. e(f, i) = f[i - 1] \o seqs[i]
    <3> HIDE DEF f
    <3> QED OBVIOUS
  <2> QED
    BY <2>1, <2>2, Zenon
<1> HIDE DEF f
<1>8. PICK h : h = [i \in 0 .. n |-> IF i = 0 THEN <<>> ELSE f[i]]
  OBVIOUS
<1>9. h[0] = <<>> /\ \A i \in 1 .. n : h[i] = f[i]
  BY <1>0, <1>8
<1>10. \A i \in 0 .. n : h[i] \in Seq(C)
  <2>1. \A i \in 0 .. n : i = 0 \/ i \in 1 .. n
    BY <1>0
  <2>2. <<>> \in Seq(C)
    OBVIOUS
  <2> QED
    BY <1>5, <1>9, <2>1, <2>2
<1>11. \A i \in 1 .. n : h[i] = h[i - 1] \o seqs[i]
  <2> SUFFICES ASSUME NEW i \in 1 .. n PROVE h[i] = h[i - 1] \o seqs[i]
    OBVIOUS
  <2>1. CASE i = 1
    <3>1. seqs[1] \in Seq(C) /\ i - 1 = 0 /\ n # 0
      BY <1>0, <2>1
    <3>2. <<>> \o seqs[1] = seqs[1]
      BY <3>1, ConcatEmptySeq
    <3>3. h[i] = seqs[1] /\ h[i - 1] = <<>>
      BY <1>6, <1>9, <2>1, <3>1
    <3> QED
      BY <2>1, <3>2, <3>3
  <2>2. CASE i # 1
    <3>1. i - 1 \in 1 .. n
      BY <1>0, <2>2
    <3> QED
      BY <1>7, <1>9, <2>2, <3>1
  <2> QED
    BY <2>1, <2>2
<1>12. FlattenSeq(seqs) = h[n]
  <2>1. CASE n = 0
    <3>1. seqs = <<>>
      BY ONLY <1>0, <2>1, EmptySeq, seqs \in Seq(Seq(C))
    <3>2. FlattenSeq(seqs) = seqs
      BY <1>0, <2>1 DEF FlattenSeq
    <3> QED
      BY <1>9, <2>1, <3>1, <3>2
  <2>2. CASE n # 0
    <3>1. FlattenSeq(seqs) = f[n]
      BY <1>0, <2>2 DEF FlattenSeq, f
    <3>2. n \in 1 .. n
      BY <1>0, <2>2
    <3> QED
      BY <1>9, <3>1, <3>2
  <2> QED
    BY <2>1, <2>2
<1>13. h \in [0 .. n -> Seq(C)]
  BY <1>8, <1>10
<1>14. Flattens(h, seqs, C)
  BY <1>0, <1>9, <1>11, <1>12, <1>13 DEF Flattens
<1> QED
  BY <1>14

(* Lists in a row are a list.                                              *)
LEMMA FlattenType ==
    ASSUME NEW C, NEW seqs \in Seq(Seq(C))
    PROVE  FlattenSeq(seqs) \in Seq(C)
<1>1. PICK g : Flattens(g, seqs, C)
  BY FlattenSteps
<1> QED
  BY <1>1 DEF Flattens

(* Entries of a larger set, and the list as a function.                    *)
LEMMA SeqWithin ==
    ASSUME NEW S, NEW T, S \subseteq T, NEW s \in Seq(S)
    PROVE  s \in Seq(T)
OBVIOUS

LEMMA SeqOn ==
    ASSUME NEW S, NEW s \in Seq(S), NEW n, n = Len(s)
    PROVE  s \in [1 .. n -> S] /\ DOMAIN s = 1 .. n
OBVIOUS

(* What F makes of each entry of a list.                                   *)
Via(F, s) == [k \in DOMAIN s |-> F[s[k]]]

Mapped(v, F, s, T) == v \in Seq(T) /\ Len(v) = Len(s) /\ \A k \in 1 .. Len(s) : v[k] = F[s[k]]

LEMMA ViaType ==
    ASSUME NEW S, NEW T, NEW F \in [S -> T], NEW s \in Seq(S)
    PROVE  Mapped(Via(F, s), F, s, T)
<1>1. \A k \in DOMAIN s : s[k] \in S /\ F[s[k]] \in T
  OBVIOUS
<1>2. Via(F, s) \in [1 .. Len(s) -> T]
  BY <1>1 DEF Via
<1>3. \A k \in 1 .. Len(s) : Via(F, s)[k] = F[s[k]]
  BY DEF Via
<1> QED
  BY <1>2, <1>3 DEF Mapped

ViaBoth(F, a, s) == Via(F, a \o s) = Via(F, a) \o Via(F, s)

(* First one list, then the other.                                         *)
LEMMA ViaConcat ==
    ASSUME NEW S, NEW T, NEW F \in [S -> T], NEW a \in Seq(S), NEW s \in Seq(S)
    PROVE  ViaBoth(F, a, s)
<1>1. PICK u, v, w : u = Via(F, a) /\ v = Via(F, s) /\ w = a \o s
  OBVIOUS
<1>2. /\ u \in Seq(T) /\ Len(u) = Len(a) /\ \A k \in 1 .. Len(a) : u[k] = F[a[k]]
      /\ v \in Seq(T) /\ Len(v) = Len(s) /\ \A k \in 1 .. Len(s) : v[k] = F[s[k]]
  <2>1. Mapped(u, F, a, T) /\ Mapped(v, F, s, T)
    BY <1>1, ViaType
  <2> QED
    BY ONLY <2>1 DEF Mapped
<1>3. w \in Seq(S) /\ Len(w) = Len(a) + Len(s)
  BY <1>1
<1>4. PICK x, y : x = Via(F, w) /\ y = u \o v
  OBVIOUS
<1>5. x \in Seq(T) /\ Len(x) = Len(w) /\ \A k \in 1 .. Len(w) : x[k] = F[w[k]]
  <2>1. Mapped(x, F, w, T)
    BY <1>3, <1>4, ViaType
  <2> QED
    BY ONLY <2>1 DEF Mapped
<1>6. y \in Seq(T) /\ Len(y) = Len(u) + Len(v)
  <2>1. u \in Seq(T) /\ v \in Seq(T)
    BY <1>2
  <2> QED
    BY ONLY <1>4, <2>1
<1>7. ASSUME NEW k \in 1 .. Len(w) PROVE x[k] = y[k]
  <2>1. CASE k <= Len(a)
    <3>1. k \in 1 .. Len(a) /\ w[k] = a[k] /\ y[k] = u[k]
      BY <1>1, <1>2, <1>3, <1>4, <2>1
    <3> QED
      BY <1>2, <1>5, <3>1
  <2>2. CASE k > Len(a)
    <3>1. k - Len(a) \in 1 .. Len(s) /\ w[k] = s[k - Len(a)] /\ y[k] = v[k - Len(a)]
      BY <1>1, <1>2, <1>3, <1>4, <2>2
    <3> QED
      BY <1>2, <1>5, <3>1
  <2> QED
    BY <2>1, <2>2
<1>8. x = y
  <2>1. Len(x) = Len(w) /\ Len(y) = Len(w)
    BY ONLY <1>2, <1>3, <1>5, <1>6
  <2>2. \A k \in 1 .. Len(x) : x[k] = y[k]
    BY ONLY <1>7, <2>1
  <2> QED
    BY ONLY <1>5, <1>6, <2>1, <2>2, SeqEqual
<1> QED
  BY <1>1, <1>4, <1>8 DEF ViaBoth

(* s has the numbers of S from i up to n, in order.                        *)
InOrder(s, S, i, n) ==
    /\ s \in Seq(Nat)
    /\ \A k \in 1 .. Len(s) : s[k] \in S /\ i <= s[k] /\ s[k] <= n
    /\ \A x \in i .. n : x \in S => \E k \in 1 .. Len(s) : s[k] = x
    /\ \A k, l \in 1 .. Len(s) : k < l => s[k] < s[l]

LEMMA AscendingIs ==
    ASSUME NEW S, NEW n \in Nat
    PROVE  InOrder(Ascending(S, n), S, 1, n)
<1>1. PICK g : AscendsFrom(g, S, n) /\ Ascending(S, n) = g[1]
  BY AscendingWalk
<1>2. g[n + 1] = <<>> /\ \A i \in 1 .. n : g[i] = (IF i \in S THEN <<i>> ELSE <<>>) \o g[i + 1]
  BY ONLY <1>1 DEF AscendsFrom
<1> DEFINE P == {i \in 1 .. n + 1 : InOrder(g[i], S, i, n)}
<1>3. n + 1 \in P
  <2>1. InOrder(<<>>, S, n + 1, n)
    BY DEF InOrder
  <2> QED
    BY <1>2, <2>1
<1>4. ASSUME NEW i \in 1 .. n, i + 1 \in P PROVE i \in P
  <2>1. PICK s : s = g[i + 1]
    OBVIOUS
  <2>2. InOrder(s, S, i + 1, n)
    BY <1>4, <2>1
  <2>3. /\ s \in Seq(Nat)
        /\ \A k \in 1 .. Len(s) : s[k] \in S /\ i + 1 <= s[k] /\ s[k] <= n
        /\ \A x \in i + 1 .. n : x \in S => \E k \in 1 .. Len(s) : s[k] = x
        /\ \A k, l \in 1 .. Len(s) : k < l => s[k] < s[l]
    BY ONLY <2>2 DEF InOrder
  <2>4. CASE i \notin S
    <3>1. g[i] = s
      <4>1. g[i] = <<>> \o s
        BY ONLY <1>2, <2>1, <2>4, i \in 1 .. n
      <4> QED
        BY ONLY <2>3, <4>1, ConcatEmptySeq
    <3>2. \A x \in i .. n : x \in S => x \in i + 1 .. n
      BY <2>4
    <3>3. InOrder(s, S, i, n)
      BY <2>3, <3>2 DEF InOrder
    <3> QED
      BY <3>1, <3>3
  <2>5. CASE i \in S
    <3>1. PICK u : u = <<i>> \o s
      OBVIOUS
    <3>2. /\ u \in Seq(Nat) /\ Len(u) = Len(s) + 1 /\ Len(s) \in Nat /\ u[1] = i
          /\ \A k \in 1 .. Len(s) : u[k + 1] = s[k]
      BY <2>3, <3>1
    <3>3. \A k \in 1 .. Len(u) : k = 1 \/ (k - 1 \in 1 .. Len(s) /\ u[k] = s[k - 1])
      <4> SUFFICES ASSUME NEW k \in 1 .. Len(u), k # 1 PROVE k - 1 \in 1 .. Len(s) /\ u[k] = s[k - 1]
        OBVIOUS
      <4>1. k - 1 \in 1 .. Len(s) /\ k - 1 + 1 = k
        BY <3>2
      <4> QED
        BY <3>2, <4>1
    <3>4. ASSUME NEW k \in 1 .. Len(u) PROVE u[k] \in S /\ i <= u[k] /\ u[k] <= n
      <4>1. CASE k = 1
        BY <2>5, <3>2, <4>1
      <4>2. CASE k # 1
        <5>1. k - 1 \in 1 .. Len(s) /\ u[k] = s[k - 1]
          BY <3>3, <4>2
        <5>2. s[k - 1] \in S /\ i + 1 <= s[k - 1] /\ s[k - 1] <= n /\ s[k - 1] \in Nat
          BY <2>3, <5>1
        <5> QED
          BY <5>1, <5>2
      <4> QED
        BY <4>1, <4>2
    <3>5. ASSUME NEW x \in i .. n, x \in S PROVE \E k \in 1 .. Len(u) : u[k] = x
      <4>1. CASE x = i
        BY <3>2, <4>1
      <4>2. CASE x # i
        <5>1. x \in i + 1 .. n
          BY <4>2
        <5>2. PICK k \in 1 .. Len(s) : s[k] = x
          BY <2>3, <3>5, <5>1
        <5>3. k + 1 \in 1 .. Len(u) /\ u[k + 1] = x
          BY <3>2, <5>2
        <5> QED
          BY <5>3
      <4> QED
        BY <4>1, <4>2
    <3>6. ASSUME NEW k \in 1 .. Len(u), NEW l \in 1 .. Len(u), k < l PROVE u[k] < u[l]
      <4>1. l # 1
        BY <3>2, <3>6
      <4>2. l - 1 \in 1 .. Len(s) /\ u[l] = s[l - 1]
        BY <3>3, <4>1
      <4>3. CASE k = 1
        <5>1. i + 1 <= s[l - 1] /\ s[l - 1] \in Nat
          BY <2>3, <4>2
        <5> QED
          BY <3>2, <4>2, <4>3, <5>1
      <4>4. CASE k # 1
        <5>1. k - 1 \in 1 .. Len(s) /\ u[k] = s[k - 1]
          BY <3>3, <4>4
        <5>2. k - 1 < l - 1
          BY <3>2, <3>6
        <5> QED
          BY <2>3, <4>2, <5>1, <5>2
      <4> QED
        BY <4>3, <4>4
    <3>7. InOrder(u, S, i, n)
      BY <3>2, <3>4, <3>5, <3>6 DEF InOrder
    <3>8. g[i] = u
      BY <1>2, <2>1, <2>5, <3>1
    <3> QED
      BY <3>7, <3>8
  <2> QED
    BY <2>4, <2>5
<1>5. 1 \in 1 .. n + 1
  OBVIOUS
<1>6. 1 \in P
  <2> HIDE DEF P
  <2> QED BY <1>3, <1>4, <1>5, Downward
<1> QED
  BY <1>1, <1>6

LEMMA KeptRange ==
    ASSUME NEW T, NEW list \in Seq(T), NEW S, S \subseteq 1 .. Len(list)
    PROVE  Range(Kept(list, S)) = {list[k] : k \in S}
<1>1. PICK n, at : n = Len(list) /\ at = Ascending(S, n)
  OBVIOUS
<1>2. n \in Nat
  BY <1>1
<1>3. InOrder(at, S, 1, n)
  BY ONLY <1>1, <1>2, AscendingIs
<1>4. /\ DOMAIN at = 1 .. Len(at)
      /\ \A k \in 1 .. Len(at) : at[k] \in S
      /\ \A x \in S : \E k \in 1 .. Len(at) : at[k] = x
  BY <1>1, <1>3 DEF InOrder
<1>5. PICK v : v = [k \in 1 .. Len(at) |-> list[at[k]]]
  OBVIOUS
<1>6. Kept(list, S) = v
  BY ONLY <1>1, <1>4, <1>5 DEF Kept
<1>7. Range(v) = {list[at[k]] : k \in 1 .. Len(at)}
  BY ONLY <1>5 DEF Range
<1>8. {list[at[k]] : k \in 1 .. Len(at)} = {list[k] : k \in S}
  BY ONLY <1>4
<1> QED
  BY ONLY <1>6, <1>7, <1>8

(* One is no longer than another, and begins with the same numbers.        *)
LEMMA NoShorter ==
    ASSUME NEW S, NEW n \in Nat, NEW u, InOrder(u, S, 1, n), NEW v, InOrder(v, S, 1, n)
    PROVE  Len(u) <= Len(v) /\ \A j \in 1 .. Len(u) : u[j] = v[j]
<1>1. /\ u \in Seq(Nat) /\ Len(u) \in Nat
      /\ \A k \in 1 .. Len(u) : u[k] \in S /\ 1 <= u[k] /\ u[k] <= n /\ u[k] \in Nat
      /\ \A x \in 1 .. n : x \in S => \E k \in 1 .. Len(u) : u[k] = x
      /\ \A k, l \in 1 .. Len(u) : k < l => u[k] < u[l]
  BY DEF InOrder
<1>2. /\ v \in Seq(Nat) /\ Len(v) \in Nat
      /\ \A k \in 1 .. Len(v) : v[k] \in S /\ 1 <= v[k] /\ v[k] <= n /\ v[k] \in Nat
      /\ \A x \in 1 .. n : x \in S => \E k \in 1 .. Len(v) : v[k] = x
      /\ \A k, l \in 1 .. Len(v) : k < l => v[k] < v[l]
  BY DEF InOrder
<1> DEFINE P == {k \in 0 .. Len(u) : k <= Len(v) /\ \A j \in 1 .. k : u[j] = v[j]}
<1>3. 0 \in P
  BY <1>1, <1>2
<1>4. ASSUME NEW k \in 0 .. Len(u) - 1, k \in P PROVE k + 1 \in P
  <2>1. k \in Nat /\ k <= Len(v) /\ k + 1 \in 1 .. Len(u) /\ \A j \in 1 .. k : u[j] = v[j]
    BY <1>1, <1>4
  <2>2. PICK j \in 1 .. Len(v) : v[j] = u[k + 1]
    <3>1. u[k + 1] \in 1 .. n /\ u[k + 1] \in S
      BY <1>1, <2>1
    <3> QED
      BY <1>2, <3>1
  <2>3. ~ (j <= k)
    <3> SUFFICES ASSUME j <= k PROVE FALSE
      OBVIOUS
    <3>1. u[j] = v[j] /\ j < k + 1 /\ j \in 1 .. Len(u)
      BY <1>1, <1>2, <2>1
    <3>2. u[j] < u[k + 1] /\ u[j] \in Nat
      BY <1>1, <2>1, <3>1
    <3> QED
      BY <2>2, <3>1, <3>2
  <2>4. k + 1 \in 1 .. Len(v)
    BY <1>2, <2>1, <2>3
  <2>5. v[k + 1] <= u[k + 1]
    <3>1. k + 1 = j \/ k + 1 < j
      BY <1>2, <2>1, <2>3
    <3> QED
      BY <1>2, <2>2, <2>4, <3>1
  <2>6. PICK i \in 1 .. Len(u) : u[i] = v[k + 1]
    <3>1. v[k + 1] \in 1 .. n /\ v[k + 1] \in S
      BY <1>2, <2>4
    <3> QED
      BY <1>1, <3>1
  <2>7. ~ (i <= k)
    <3> SUFFICES ASSUME i <= k PROVE FALSE
      OBVIOUS
    <3>1. u[i] = v[i] /\ i < k + 1 /\ i \in 1 .. Len(v)
      BY <1>1, <1>2, <2>1
    <3>2. v[i] < v[k + 1] /\ v[i] \in Nat
      BY <1>2, <2>4, <3>1
    <3> QED
      BY <2>6, <3>1, <3>2
  <2>8. u[k + 1] <= v[k + 1]
    <3>1. k + 1 = i \/ k + 1 < i
      BY <1>1, <2>1, <2>7
    <3> QED
      BY <1>1, <2>1, <2>6, <3>1
  <2>9. u[k + 1] = v[k + 1]
    <3>1. u[k + 1] \in Nat /\ v[k + 1] \in Nat
      BY <1>1, <1>2, <2>1, <2>4
    <3> QED
      BY ONLY <2>5, <2>8, <3>1
  <2>10. \A x \in 1 .. k + 1 : x \in 1 .. k \/ x = k + 1
    BY <2>1
  <2>11. \A x \in 1 .. k + 1 : u[x] = v[x]
    BY <2>1, <2>9, <2>10
  <2> QED
    BY <1>1, <1>2, <2>1, <2>4, <2>11
<1>5. \A k \in 0 .. Len(u) : k \in P
  <2> HIDE DEF P
  <2> QED BY <1>1, <1>3, <1>4, Upward
<1>6. Len(u) \in 0 .. Len(u)
  BY <1>1
<1> QED
  BY <1>5, <1>6

(* Two lists of the same numbers in order are one.                         *)
LEMMA OneOrder ==
    ASSUME NEW S, NEW n \in Nat, NEW u, InOrder(u, S, 1, n), NEW v, InOrder(v, S, 1, n)
    PROVE  u = v
<1>1. u \in Seq(Nat) /\ v \in Seq(Nat)
  BY DEF InOrder
<1>2. Len(u) <= Len(v) /\ \A j \in 1 .. Len(u) : u[j] = v[j]
  BY NoShorter
<1>3. Len(v) <= Len(u)
  BY NoShorter
<1>4. Len(u) = Len(v)
  BY <1>1, <1>2, <1>3
<1> QED
  BY ONLY <1>1, <1>2, <1>4, SeqEqual

(* d is one list and then another.                                         *)
Concat(d, a, b, T) ==
    /\ d \in Seq(T) /\ Len(d) = Len(a) + Len(b) /\ Len(a) \in Nat /\ Len(b) \in Nat
    /\ \A i \in 1 .. Len(a) : d[i] = a[i]
    /\ \A i \in 1 .. Len(b) : d[Len(a) + i] = b[i]

(* Concatenation puts one list after the other.                            *)
LEMMA ConcatIs ==
    ASSUME NEW T, NEW a \in Seq(T), NEW b \in Seq(T)
    PROVE  Concat(a \o b, a, b, T)
<1>1. PICK n, m, d : n = Len(a) /\ m = Len(b) /\ d = a \o b
  OBVIOUS
<1>2. n \in Nat /\ m \in Nat
  BY <1>1
<1>3. d \in Seq(T) /\ Len(d) = n + m /\ \A i \in 1 .. n + m : d[i] = IF i <= n THEN a[i] ELSE b[i - n]
  BY <1>1, ConcatProperties
<1>4. \A i \in 1 .. n : i \in 1 .. n + m /\ i <= n
  BY <1>2
<1>5. \A i \in 1 .. m : n + i \in 1 .. n + m /\ ~ (n + i <= n) /\ n + i - n = i
  BY <1>2
<1> QED
  BY <1>1, <1>2, <1>3, <1>4, <1>5 DEF Concat

(* v has what list has at the places at.                                   *)
KeptAs(v, list, at, T) ==
    /\ v \in Seq(T) /\ Len(v) = Len(at)
    /\ \A k \in 1 .. Len(at) : at[k] \in 1 .. Len(list) /\ v[k] = list[at[k]]

(* Kept has the places of S in order.                                      *)
LEMMA KeptAt ==
    ASSUME NEW T, NEW list \in Seq(T), NEW S, NEW at, InOrder(at, S, 1, Len(list))
    PROVE  KeptAs(Kept(list, S), list, at, T)
<1>1. PICK n : n = Len(list)
  OBVIOUS
<1>2. n \in Nat
  BY <1>1
<1>3. at = Ascending(S, n)
  <2>1. InOrder(Ascending(S, n), S, 1, n)
    BY <1>2, AscendingIs
  <2> QED
    BY <1>1, <1>2, <2>1, OneOrder
<1>4. Kept(list, S) = [k \in DOMAIN at |-> list[at[k]]]
  BY <1>1, <1>3, Zenon DEF Kept
<1>5. Kept(list, S) \in Seq(T)
  BY KeptType
<1>6. at \in Seq(Nat) /\ \A k \in 1 .. Len(at) : at[k] \in 1 .. Len(list)
  BY <1>1, <1>2 DEF InOrder
<1>7. DOMAIN at = 1 .. Len(at) /\ Len(at) \in Nat
  BY <1>6
<1>8. PICK v : v = Kept(list, S)
  OBVIOUS
<1>9. DOMAIN v = 1 .. Len(at) /\ \A k \in 1 .. Len(at) : v[k] = list[at[k]]
  BY <1>4, <1>7, <1>8
<1>10. Len(v) = Len(at)
  <2>1. v \in Seq(T)
    BY <1>5, <1>8
  <2>2. DOMAIN v = 1 .. Len(v) /\ Len(v) \in Nat
    BY ONLY <2>1
  <2> QED
    BY ONLY <1>7, <1>9, <2>2
<1> QED
  BY <1>5, <1>6, <1>8, <1>9, <1>10 DEF KeptAs

(* Kept keeps everything when S has all.                                  *)
LEMMA KeptAll ==
    ASSUME NEW T, NEW list \in Seq(T), NEW S, \A k \in 1 .. Len(list) : k \in S
    PROVE  Kept(list, S) = list
<1>1. PICK n, at : n = Len(list) /\ at = [k \in 1 .. n |-> k]
  OBVIOUS
<1>2. n \in Nat
  BY <1>1
<1>3. at \in Seq(Nat) /\ Len(at) = n /\ \A k \in 1 .. n : at[k] = k
  BY <1>1, <1>2
<1>4. InOrder(at, S, 1, n)
  BY <1>1, <1>2, <1>3 DEF InOrder
<1>5. KeptAs(Kept(list, S), list, at, T)
  BY <1>1, <1>4, KeptAt
<1>6. PICK v : v = Kept(list, S)
  OBVIOUS
<1>7. v \in Seq(T) /\ Len(v) = Len(list) /\ \A k \in 1 .. Len(v) : v[k] = list[k]
  BY <1>1, <1>3, <1>5, <1>6 DEF KeptAs
<1>8. v = list
  BY ONLY <1>7, list \in Seq(T), SeqEqual
<1> QED
  BY <1>6, <1>8

(* Kept keeps nothing where S has no place.                                *)
LEMMA KeptNone ==
    ASSUME NEW T, NEW list \in Seq(T), NEW S, \A k \in 1 .. Len(list) : k \notin S
    PROVE  Kept(list, S) = <<>>
<1>1. InOrder(<<>>, S, 1, Len(list))
  BY DEF InOrder
<1>2. KeptAs(Kept(list, S), list, <<>>, T)
  BY <1>1, KeptAt
<1>3. Kept(list, S) \in Seq(T) /\ Len(Kept(list, S)) = 0
  BY <1>2 DEF KeptAs
<1> QED
  BY ONLY <1>3, EmptySeq

(***************************************************************************)
(* Folds of lists: FoldLeft gives what its step makes of the entries in    *)
(* order                                                                   *)
(***************************************************************************)

(* it folds what step says of each number, the last one last.              *)
FoldsOver(it, step, base, n, V) ==
    /\ it \in [SUBSET (1 .. n) -> V]
    /\ \A T \in SUBSET (1 .. n) :
         it[T] = IF T = {} THEN base ELSE step[<<it[T \ {Max(T)}], Max(T)>>]

(* The greatest of some of 1 .. n, and what is below n + 1.                *)
LEMMA Greatest ==
    ASSUME NEW n \in Nat, NEW T, T \subseteq 1 .. n, T # {}
    PROVE  Max(T) \in T /\ \A x \in T : x <= Max(T)
<1>1. T \subseteq 0 .. n
  OBVIOUS
<1> QED
  BY <1>1, MaxOf

LEMMA UpToMax ==
    ASSUME NEW n \in Nat, n # 0
    PROVE  Max(1 .. n) = n /\ (1 .. n) \ {n} = 1 .. n - 1 /\ 1 .. n # {}
<1>1. n \in 1 .. n /\ 1 .. n \subseteq 1 .. n
  OBVIOUS
<1>2. Max(1 .. n) \in 1 .. n /\ n <= Max(1 .. n)
  BY <1>1, Greatest
<1> QED
  BY <1>1, <1>2

(* Such a fold exists.                                                     *)
LEMMA FoldExists ==
    ASSUME NEW V, NEW base \in V, NEW n \in Nat, NEW step, step \in [V \X (1 .. n) -> V]
    PROVE  \E it : FoldsOver(it, step, base, n, V)
<1> DEFINE P == {k \in 0 .. n : \E it : FoldsOver(it, step, base, k, V)}
<1>1. 0 \in P
  <2>1. PICK it : it = [T \in SUBSET (1 .. 0) |-> base]
    OBVIOUS
  <2>2. \A T \in SUBSET (1 .. 0) : T = {}
    OBVIOUS
  <2>3. FoldsOver(it, step, base, 0, V)
    BY <2>1, <2>2 DEF FoldsOver
  <2> QED
    BY <2>3
<1>2. ASSUME NEW k \in 0 .. n - 1, k \in P PROVE k + 1 \in P
  <2>1. PICK it : FoldsOver(it, step, base, k, V)
    BY <1>2
  <2>2. PICK m : m = k + 1
    OBVIOUS
  <2>3. m \in 1 .. n /\ m \in Nat /\ k \in Nat /\ 1 .. k \subseteq 1 .. m /\ m \notin 1 .. k
    BY <2>2
  <2>4. \A T \in SUBSET (1 .. m) : m \notin T => T \in SUBSET (1 .. k)
    BY <2>2, <2>3
  <2>5. \A T \in SUBSET (1 .. m) : T \ {m} \in SUBSET (1 .. k)
    BY <2>2, <2>3
  <2>6. PICK f : f = [T \in SUBSET (1 .. m) |-> IF m \in T THEN step[<<it[T \ {m}], m>>] ELSE it[T]]
    OBVIOUS
  <2>7. /\ it \in [SUBSET (1 .. k) -> V]
        /\ \A T \in SUBSET (1 .. k) :
             it[T] = IF T = {} THEN base ELSE step[<<it[T \ {Max(T)}], Max(T)>>]
    BY ONLY <2>1 DEF FoldsOver
  <2>8. \A T \in SUBSET (1 .. k) : f[T] = it[T]
    BY <2>3, <2>6
  <2>9. \A v \in V : step[<<v, m>>] \in V
    BY <2>3
  <2>10. ASSUME NEW T \in SUBSET (1 .. m), m \in T
         PROVE  f[T] = step[<<it[T \ {m}], m>>] /\ it[T \ {m}] \in V /\ f[T] \in V /\ f[T \ {m}] = it[T \ {m}] /\ Max(T) = m
    <3>1. f[T] = step[<<it[T \ {m}], m>>]
      BY <2>6, <2>10
    <3>2. PICK U : U = T \ {m}
      OBVIOUS
    <3>3. U \in SUBSET (1 .. k)
      BY <2>5, <3>2
    <3>4. it[U] \in V /\ f[U] = it[U]
      BY <2>7, <2>8, <3>3
    <3>5. Max(T) = m
      <4>1. T \subseteq 1 .. m /\ T # {}
        BY <2>10
      <4>2. Max(T) \in T /\ m <= Max(T)
        BY <2>3, <2>10, <4>1, Greatest
      <4>3. PICK g : g = Max(T)
        OBVIOUS
      <4>4. g \in T /\ m <= g
        BY ONLY <4>2, <4>3
      <4>5. g \in 1 .. m
        BY ONLY <4>1, <4>4
      <4>6. g = m
        BY ONLY <2>3, <4>4, <4>5
      <4> QED
        BY ONLY <4>3, <4>6
    <3>6. step[<<it[U], m>>] \in V
      BY <2>9, <3>4
    <3> QED
      BY <3>1, <3>2, <3>4, <3>5, <3>6
  <2>11. ASSUME NEW T \in SUBSET (1 .. m), m \notin T
         PROVE  f[T] \in V /\ f[T] = IF T = {} THEN base ELSE step[<<f[T \ {Max(T)}], Max(T)>>]
    <3>1. T \in SUBSET (1 .. k)
      BY <2>4, <2>11
    <3>2. PICK U : U = T \ {Max(T)}
      OBVIOUS
    <3>3. U \in SUBSET (1 .. k)
      BY <3>1, <3>2
    <3>4. f[T] = it[T] /\ f[U] = it[U] /\ it[T] \in V
      BY <2>7, <2>8, <3>1, <3>3
    <3> QED
      BY <2>7, <3>1, <3>2, <3>4
  <2>12. \A T \in SUBSET (1 .. m) : f[T] \in V /\ f[T] = IF T = {} THEN base ELSE step[<<f[T \ {Max(T)}], Max(T)>>]
    BY <2>10, <2>11
  <2>13. f \in [SUBSET (1 .. m) -> V]
    BY <2>6, <2>12
  <2>14. FoldsOver(f, step, base, m, V)
    BY <2>12, <2>13 DEF FoldsOver
  <2> QED
    BY <2>2, <2>3, <2>14
<1>3. \A k \in 0 .. n : k \in P
  <2> HIDE DEF P
  <2> QED BY <1>1, <1>2, Upward
<1> QED
  BY <1>3

(* h folds with op what a list has up to each of its entries.              *)
Folded(h, op, base, s, V) ==
    /\ h \in [0 .. Len(s) -> V] /\ h[0] = base
    /\ \A k \in 1 .. Len(s) : h[k] = op[<<h[k - 1], s[k]>>]

(* f is a fold of s, as FoldLeft defines it, where it stays in V.          *)
FoldsList(f, op, base, s, V) ==
    /\ f[{}] = base
    /\ \A T \in SUBSET DOMAIN s : T # {} /\ f[T \ {Max(T)}] \in V =>
         f[T] = op[<<f[T \ {Max(T)}], s[Max(T)]>>]

(* op keeps to V over the entries of s.                                    *)
Folding(op, base, s, D, V) == s \in Seq(D) /\ base \in V /\ op \in [V \X D -> V]

(* It gives what op makes of the entries in order.                         *)
LEMMA FoldUp ==
    ASSUME NEW D, NEW s, NEW V, NEW base, NEW op, Folding(op, base, s, D, V),
           NEW f, FoldsList(f, op, base, s, V)
    PROVE  \E h : Folded(h, op, base, s, V) /\ f[DOMAIN s] = h[Len(s)]
<1>0. s \in Seq(D) /\ base \in V /\ op \in [V \X D -> V]
  BY DEF Folding
<1> USE <1>0
<1>1. PICK n : n = Len(s) /\ n \in Nat /\ DOMAIN s = 1 .. n
  OBVIOUS
<1>2. /\ f[{}] = base
      /\ \A T \in SUBSET (1 .. n) : T # {} /\ f[T \ {Max(T)}] \in V =>
           f[T] = op[<<f[T \ {Max(T)}], s[Max(T)]>>]
  BY <1>1 DEF FoldsList
<1>3. PICK h : h = [k \in 0 .. n |-> f[1 .. k]]
  OBVIOUS
<1>4. h[0] = base
  <2>1. 1 .. 0 = {} /\ 0 \in 0 .. n
    BY <1>1
  <2> QED
    BY <1>2, <1>3, <2>1
<1>5. ASSUME NEW k \in 1 .. n, h[k - 1] \in V
      PROVE  h[k] = op[<<h[k - 1], s[k]>>] /\ h[k] \in V
  <2>1. k \in Nat /\ k # 0 /\ k \in 0 .. n /\ k - 1 \in 0 .. n /\ 1 .. k \in SUBSET (1 .. n)
    BY <1>1
  <2>2. Max(1 .. k) = k /\ (1 .. k) \ {k} = 1 .. k - 1 /\ 1 .. k # {}
    BY <2>1, UpToMax
  <2>3. PICK T : T = 1 .. k
    OBVIOUS
  <2>4. f[T \ {Max(T)}] = h[k - 1] /\ f[T] = h[k]
    BY <1>3, <2>1, <2>2, <2>3
  <2>5. f[T] = op[<<f[T \ {Max(T)}], s[Max(T)]>>]
    BY <1>2, <1>5, <2>1, <2>2, <2>3, <2>4
  <2>6. h[k] = op[<<h[k - 1], s[k]>>]
    BY <2>2, <2>3, <2>4, <2>5
  <2>7. s[k] \in D
    BY <1>1
  <2> QED
    BY <1>5, <2>6, <2>7
<1> DEFINE P == {k \in 0 .. n : h[k] \in V}
<1>6. 0 \in P
  BY <1>1, <1>4
<1>7. ASSUME NEW k \in 0 .. n - 1, k \in P PROVE k + 1 \in P
  <2>1. PICK m : m = k + 1
    OBVIOUS
  <2>2. m \in 1 .. n /\ m \in 0 .. n /\ m - 1 = k
    BY <1>1, <2>1
  <2>3. h[m] \in V
    BY <1>5, <1>7, <2>2
  <2> QED
    BY <2>1, <2>2, <2>3
<1>8. \A k \in 0 .. n : k \in P
  <2> HIDE DEF P
  <2> QED BY <1>1, <1>6, <1>7, Upward
<1>9. h \in [0 .. n -> V]
  BY <1>3, <1>8
<1>10. f[DOMAIN s] = h[n]
  BY <1>1, <1>3
<1>11. \A k \in 1 .. n : k - 1 \in 0 .. n
  BY <1>1
<1>12. \A k \in 1 .. n : h[k] = op[<<h[k - 1], s[k]>>]
  BY <1>5, <1>8, <1>11
<1>13. Folded(h, op, base, s, V)
  BY <1>1, <1>4, <1>9, <1>12 DEF Folded
<1> QED
  BY <1>1, <1>10, <1>13

(* FoldLeft is such a fold: one exists.                                    *)
LEMMA FoldMade ==
    ASSUME NEW D, NEW s, NEW V, NEW base, NEW op, Folding(op, base, s, D, V)
    PROVE  \E f : /\ f \in [SUBSET DOMAIN s -> V]
                  /\ \A T \in SUBSET DOMAIN s :
                       f[T] = IF T = {} THEN base ELSE op[<<f[T \ {Max(T)}], s[Max(T)]>>]
                  /\ \A T \in SUBSET DOMAIN s : f[T \ {Max(T)}] \in V
                  /\ \A T \in SUBSET DOMAIN s : T # {} => s[Max(T)] \in D
<1>0. s \in Seq(D) /\ base \in V /\ op \in [V \X D -> V]
  BY DEF Folding
<1> USE <1>0
<1>1. PICK n : n = Len(s) /\ n \in Nat /\ DOMAIN s = 1 .. n /\ \A i \in 1 .. n : s[i] \in D
  OBVIOUS
<1>2. PICK step : step = [p \in V \X (1 .. n) |-> op[<<p[1], s[p[2]]>>]]
  OBVIOUS
<1>3. step \in [V \X (1 .. n) -> V] /\ \A v \in V, i \in 1 .. n : step[<<v, i>>] = op[<<v, s[i]>>]
  BY <1>1, <1>2
<1>4. PICK f : FoldsOver(f, step, base, n, V)
  BY <1>1, <1>3, FoldExists
<1>5. /\ f \in [SUBSET (1 .. n) -> V]
      /\ \A T \in SUBSET (1 .. n) : f[T] = IF T = {} THEN base ELSE step[<<f[T \ {Max(T)}], Max(T)>>]
  BY ONLY <1>4 DEF FoldsOver
<1>6. ASSUME NEW T \in SUBSET (1 .. n)
      PROVE  f[T \ {Max(T)}] \in V /\ (T # {} => Max(T) \in 1 .. n)
  <2>1. T \ {Max(T)} \in SUBSET (1 .. n)
    OBVIOUS
  <2>2. T # {} => Max(T) \in T
    BY <1>1, Greatest
  <2> QED
    BY <1>5, <2>1, <2>2
<1>7. \A T \in SUBSET (1 .. n) : f[T] = IF T = {} THEN base ELSE op[<<f[T \ {Max(T)}], s[Max(T)]>>]
  BY <1>3, <1>5, <1>6
<1>8. \A T \in SUBSET (1 .. n) : f[T \ {Max(T)}] \in V
  BY <1>6
<1>9. \A T \in SUBSET (1 .. n) : T # {} => s[Max(T)] \in D
  BY <1>1, <1>6
<1> QED
  BY <1>1, <1>5, <1>7, <1>8, <1>9

(***************************************************************************)
(* Lists entry by entry                                                    *)
(***************************************************************************)

(* The first entries of a list, one more at a time.                        *)
LEMMA FirstEntries ==
    ASSUME NEW S, NEW s \in Seq(S)
    PROVE  /\ SubSeq(s, 1, 0) = <<>> /\ SubSeq(s, 1, Len(s)) = s
           /\ \A i \in 0 .. Len(s) : SubSeq(s, 1, i) \in Seq(S) /\ Len(SubSeq(s, 1, i)) = i
           /\ \A i \in 1 .. Len(s) : SubSeq(s, 1, i) = Append(SubSeq(s, 1, i - 1), s[i])
<1>1. PICK n : n = Len(s) /\ n \in Nat /\ \A i \in 1 .. n : s[i] \in S
  OBVIOUS
<1>2. SubSeq(s, 1, 0) = <<>> /\ SubSeq(s, 1, n) = s
  BY <1>1
<1>3. ASSUME NEW i \in 0 .. n
      PROVE  SubSeq(s, 1, i) \in Seq(S) /\ Len(SubSeq(s, 1, i)) = i /\ \A j \in 1 .. i : SubSeq(s, 1, i)[j] = s[j]
  <2>1. \A j \in 1 .. i : s[j] \in S
    BY <1>1
  <2> QED
    BY <1>1, <2>1
<1>4. ASSUME NEW i \in 1 .. n PROVE SubSeq(s, 1, i) = Append(SubSeq(s, 1, i - 1), s[i])
  <2>1. i \in 0 .. n /\ i - 1 \in 0 .. n /\ i - 1 + 1 = i
    BY <1>1
  <2>2. PICK u, v : u = SubSeq(s, 1, i) /\ v = SubSeq(s, 1, i - 1)
    OBVIOUS
  <2>3. /\ u \in Seq(S) /\ Len(u) = i /\ \A j \in 1 .. i : u[j] = s[j]
        /\ v \in Seq(S) /\ Len(v) = i - 1 /\ \A j \in 1 .. i - 1 : v[j] = s[j]
    BY <1>3, <2>1, <2>2
  <2>4. PICK w : w = Append(v, s[i])
    OBVIOUS
  <2>5. w \in Seq(S) /\ Len(w) = i /\ (\A j \in 1 .. i - 1 : w[j] = v[j]) /\ w[i] = s[i]
    BY <1>1, <2>1, <2>3, <2>4
  <2>6. \A j \in 1 .. i : j \in 1 .. i - 1 \/ j = i
    OBVIOUS
  <2>7. \A j \in 1 .. i : w[j] = u[j]
    BY <2>3, <2>5, <2>6
  <2>8. w = u
    BY ONLY <2>3, <2>5, <2>7, SeqEqual
  <2> QED
    BY <2>2, <2>4, <2>8
<1> QED
  BY <1>1, <1>2, <1>3, <1>4

(* A function on 1 .. n is a list.                                         *)
LEMMA ListOf ==
    ASSUME NEW T, NEW n \in Nat, NEW p, p \in [1 .. n -> T]
    PROVE  p \in Seq(T) /\ Len(p) = n /\ DOMAIN p = 1 .. n
OBVIOUS

(* A list with one entry more, and with one entry changed.                 *)
LEMMA Longer ==
    ASSUME NEW S, NEW s \in Seq(S), NEW x \in S
    PROVE  /\ Append(s, x) \in Seq(S) /\ Len(Append(s, x)) = Len(s) + 1
           /\ Append(s, x)[Len(s) + 1] = x /\ \A i \in 1 .. Len(s) : Append(s, x)[i] = s[i]
OBVIOUS

LEMMA LongerSome ==
    ASSUME NEW S, NEW s \in Seq(S), NEW x \in S
    PROVE  Append(s, x) # <<>>
<1>1. PICK u : u = Append(s, x)
  OBVIOUS
<1>2. Len(u) = Len(s) + 1 /\ Len(s) \in Nat
  BY <1>1
<1> QED
  BY <1>1, <1>2

ChangedAt(u, s, n, k, x, S) ==
    u \in Seq(S) /\ Len(u) = n /\ u[k] = x /\ \A i \in 1 .. n : i # k => u[i] = s[i]

LEMMA ChangedEntry ==
    ASSUME NEW S, NEW s \in Seq(S), NEW n, n = Len(s), NEW k \in 1 .. n, NEW x \in S
    PROVE  ChangedAt([s EXCEPT ![k] = x], s, n, k, x, S)
BY DEF ChangedAt

EndsWith(v, s, x, k) == v = Append(s, x) /\ k = Len(v)
LastNow(v, s, x, k, y) == v[k] = x /\ [v EXCEPT ![k] = y] = Append(s, y)

LEMMA LastChanged ==
    ASSUME NEW S, NEW s \in Seq(S), NEW x \in S, NEW y \in S, NEW v, NEW k, EndsWith(v, s, x, k)
    PROVE  LastNow(v, s, x, k, y)
<1>0. v = Append(s, x) /\ k = Len(v)
  BY DEF EndsWith
<1>1. PICK n, w : n = Len(s) /\ w = Append(s, y)
  OBVIOUS
<1>2. n \in Nat /\ n + 1 \in Nat /\ n + 1 \in 1 .. n + 1 /\ \A i \in 1 .. n + 1 : i \in 1 .. n \/ i = n + 1
  <2>1. n \in Nat
    BY <1>1
  <2> QED
    BY ONLY <2>1
<1>3. v \in Seq(S) /\ Len(v) = n + 1 /\ v[n + 1] = x /\ \A i \in 1 .. n : v[i] = s[i]
  BY ONLY <1>1, s \in Seq(S), x \in S, <1>0, Longer
<1>4. w \in Seq(S) /\ Len(w) = n + 1 /\ w[n + 1] = y /\ \A i \in 1 .. n : w[i] = s[i]
  BY ONLY <1>1, s \in Seq(S), y \in S, Longer
<1>5. PICK u : u = [v EXCEPT ![n + 1] = y]
  OBVIOUS
<1>6. u \in Seq(S) /\ Len(u) = n + 1 /\ u[n + 1] = y /\ \A i \in 1 .. n + 1 : i # n + 1 => u[i] = v[i]
  BY ONLY <1>2, <1>3, <1>5, y \in S, ChangedEntry DEF ChangedAt
<1>7. \A i \in 1 .. n + 1 : u[i] = w[i]
  BY ONLY <1>2, <1>3, <1>4, <1>6
<1>8. u = w
  BY ONLY <1>4, <1>6, <1>7, SeqEqual
<1> QED
  BY <1>0, <1>1, <1>3, <1>5, <1>8 DEF LastNow

LEMMA ConcatConcat ==
    ASSUME NEW S, NEW a \in Seq(S), NEW b \in Seq(S), NEW d \in Seq(S)
    PROVE  /\ (a \o b) \o d = a \o (b \o d) /\ a \o b \in Seq(S) /\ a \o <<>> = a /\ <<>> \o a = a
OBVIOUS

Pair(a, b, u, S) == u = <<a, b>> /\ u = <<a>> \o <<b>> /\ <<a>> \in Seq(S) /\ <<b>> \in Seq(S) /\ u \in Seq(S)

LEMMA PairIs ==
    ASSUME NEW S, NEW a \in S, NEW b \in S
    PROVE  Pair(a, b, <<a, b>>, S)
<1>1. PICK u, v, w : u = <<a>> /\ v = <<b>> /\ w = u \o v
  OBVIOUS
<1>2. u \in Seq(S) /\ v \in Seq(S) /\ Len(u) = 1 /\ Len(v) = 1 /\ u[1] = a /\ v[1] = b
  BY <1>1
<1>3. Concat(w, u, v, S)
  BY <1>1, <1>2, ConcatIs
<1>4. w \in Seq(S) /\ Len(w) = 2 /\ w[1] = a /\ w[2] = b
  <2>1. 1 + 1 = 2 /\ 1 \in 1 .. 1
    OBVIOUS
  <2> QED
    BY <1>2, <1>3, <2>1 DEF Concat
<1>5. PICK z : z = <<a, b>>
  OBVIOUS
<1>6. z \in Seq(S) /\ Len(z) = 2 /\ z[1] = a /\ z[2] = b
  BY <1>5
<1>7. \A i \in 1 .. 2 : i = 1 \/ i = 2
  OBVIOUS
<1>8. w = z
  BY ONLY <1>4, <1>6, <1>7, SeqEqual
<1> QED
  BY <1>1, <1>2, <1>5, <1>6, <1>8 DEF Pair

Triple(a, b, d, u, v) == u = <<a, b, d>> /\ v = <<b, d>>

LEMMA TripleIs ==
    ASSUME NEW S, NEW a \in S, NEW b \in S, NEW d \in S, NEW u, NEW v, Triple(a, b, d, u, v)
    PROVE  u = <<a>> \o v
<1>1. PICK z, w : z = <<a>> /\ w = z \o v
  OBVIOUS
<1>0. u = <<a, b, d>> /\ v = <<b, d>>
  BY DEF Triple
<1>2. z \in Seq(S) /\ v \in Seq(S) /\ Len(z) = 1 /\ Len(v) = 2 /\ z[1] = a /\ v[1] = b /\ v[2] = d
  BY <1>0, <1>1
<1>3. Concat(w, z, v, S)
  BY <1>1, <1>2, ConcatIs
<1>4. w \in Seq(S) /\ Len(w) = 3 /\ w[1] = a /\ w[2] = b /\ w[3] = d
  <2>1. 1 + 2 = 3 /\ 1 + 1 = 2 /\ 1 \in 1 .. 1 /\ 1 \in 1 .. 2 /\ 2 \in 1 .. 2
    OBVIOUS
  <2> QED
    BY <1>2, <1>3, <2>1 DEF Concat
<1>5. u \in Seq(S) /\ Len(u) = 3 /\ u[1] = a /\ u[2] = b /\ u[3] = d
  BY ONLY a \in S, b \in S, d \in S, <1>0
<1>6. \A i \in 1 .. 3 : i = 1 \/ i = 2 \/ i = 3
  OBVIOUS
<1>7. w = u
  BY ONLY <1>4, <1>5, <1>6, SeqEqual
<1> QED
  BY <1>1, <1>7

(***************************************************************************)
(* Where the step of a fold comes to over a list                           *)
(***************************************************************************)

(* From a, op comes to b over the entries of s.                            *)
Steps(h, op, a, s, b, V) == Folded(h, op, a, s, V) /\ h[Len(s)] = b
Leads(op, a, s, b, V)    == \E h : Steps(h, op, a, s, b, V)

LEMMA LeadsNowhere ==
    ASSUME NEW V, NEW a \in V, NEW op
    PROVE  Leads(op, a, <<>>, a, V)
<1>1. PICK h : h = [i \in 0 .. 0 |-> a]
  OBVIOUS
<1>2. h \in [0 .. Len(<<>>) -> V] /\ h[0] = a /\ Len(<<>>) = 0
  BY <1>1
<1>3. Steps(h, op, a, <<>>, a, V)
  BY <1>2 DEF Steps, Folded
<1> QED
  BY <1>3 DEF Leads

(* The states on the way give what it leads to.                            *)
LEMMA LeadsAlong ==
    ASSUME NEW D, NEW s \in Seq(D), NEW V, NEW op, NEW c, c \in [0 .. Len(s) -> V],
           \A i \in 1 .. Len(s) : op[<<c[i - 1], s[i]>>] = c[i]
    PROVE  Leads(op, c[0], s, c[Len(s)], V)
<1>1. Steps(c, op, c[0], s, c[Len(s)], V)
  BY DEF Steps, Folded
<1> QED
  BY <1>1 DEF Leads

LEMMA LeadsOne ==
    ASSUME NEW V, NEW a \in V, NEW op, NEW x, op[<<a, x>>] \in V
    PROVE  Leads(op, a, <<x>>, op[<<a, x>>], V)
<1>1. PICK c, s : s = <<x>> /\ c = [i \in 0 .. 1 |-> IF i = 0 THEN a ELSE op[<<a, x>>]]
  OBVIOUS
<1>2. s \in Seq({x}) /\ Len(s) = 1 /\ s[1] = x
  BY <1>1
<1>3. c[0] = a /\ c[1] = op[<<a, x>>] /\ c \in [0 .. 1 -> V]
  BY <1>1
<1>4. \A i \in 1 .. 1 : i = 1 /\ i - 1 = 0
  OBVIOUS
<1>5. Leads(op, c[0], s, c[Len(s)], V)
  <2>1. c \in [0 .. Len(s) -> V] /\ \A i \in 1 .. Len(s) : op[<<c[i - 1], s[i]>>] = c[i]
    BY <1>2, <1>3, <1>4
  <2> QED
    BY ONLY <1>2, <2>1, LeadsAlong
<1> QED
  BY <1>1, <1>2, <1>3, <1>5

LEMMA LeadsOn ==
    ASSUME NEW D, NEW V, NEW op, NEW s \in Seq(D), NEW t \in Seq(D), NEW a, NEW b, NEW d,
           Leads(op, a, s, b, V), Leads(op, b, t, d, V)
    PROVE  Leads(op, a, s \o t, d, V)
<1>1. PICK g : Steps(g, op, a, s, b, V)
  BY DEF Leads
<1>2. PICK h : Steps(h, op, b, t, d, V)
  BY DEF Leads
<1>3. PICK n, m, u : n = Len(s) /\ m = Len(t) /\ u = s \o t /\ n \in Nat /\ m \in Nat
  <2>1. Len(s) \in Nat /\ Len(t) \in Nat
    OBVIOUS
  <2> QED
    BY ONLY <2>1
<1>4. g \in [0 .. n -> V] /\ g[0] = a /\ g[n] = b /\ \A k \in 1 .. n : g[k] = op[<<g[k - 1], s[k]>>]
  BY <1>1, <1>3 DEF Steps, Folded
<1>5. h \in [0 .. m -> V] /\ h[0] = b /\ h[m] = d /\ \A k \in 1 .. m : h[k] = op[<<h[k - 1], t[k]>>]
  BY <1>2, <1>3 DEF Steps, Folded
<1>6. Concat(u, s, t, D)
  BY <1>3, ConcatIs
<1>7. /\ u \in Seq(D) /\ Len(u) = n + m
      /\ \A k \in 1 .. n : u[k] = s[k]
      /\ \A k \in 1 .. m : u[n + k] = t[k]
  BY <1>3, <1>6 DEF Concat
<1>8. PICK c : c = [i \in 0 .. n + m |-> IF i <= n THEN g[i] ELSE h[i - n]]
  OBVIOUS
<1>9. ASSUME NEW i \in 0 .. n PROVE c[i] = g[i] /\ c[i] \in V
  <2>1. i \in 0 .. n + m /\ i <= n
    BY ONLY <1>3, i \in 0 .. n
  <2> QED
    BY <1>4, <1>8, <2>1
<1>10. ASSUME NEW j \in 0 .. m PROVE c[n + j] = h[j] /\ c[n + j] \in V
  <2>1. n + j \in 0 .. n + m /\ (n + j <= n => j = 0) /\ n + j - n = j /\ n \in 0 .. n /\ n + 0 = n
    BY ONLY <1>3, j \in 0 .. m
  <2>2. CASE j = 0
    BY <1>4, <1>5, <1>9, <2>1, <2>2
  <2>3. CASE j # 0
    BY <1>5, <1>8, <2>1, <2>3
  <2> QED
    BY <2>2, <2>3
<1>11. ASSUME NEW i \in 0 .. n + m PROVE i \in 0 .. n \/ \E j \in 1 .. m : i = n + j
  <2>1. i <= n => i \in 0 .. n
    BY ONLY <1>3, i \in 0 .. n + m
  <2>2. ~ (i <= n) => i - n \in 1 .. m /\ i = n + (i - n)
    BY ONLY <1>3, i \in 0 .. n + m
  <2> QED
    BY <2>1, <2>2
<1>12. c \in [0 .. n + m -> V]
  <2>1. \A j \in 1 .. m : j \in 0 .. m
    BY ONLY <1>3
  <2>2. \A i \in 0 .. n + m : c[i] \in V
    BY <1>9, <1>10, <1>11, <2>1
  <2> QED
    BY <1>8, <2>2
<1>13. ASSUME NEW i \in 1 .. n + m PROVE op[<<c[i - 1], u[i]>>] = c[i]
  <2>1. CASE i \in 1 .. n
    <3>1. i - 1 \in 0 .. n /\ i \in 0 .. n
      BY ONLY <1>3, <2>1
    <3> QED
      BY <1>4, <1>7, <1>9, <2>1, <3>1
  <2>2. CASE ~ (i \in 1 .. n)
    <3>1. PICK j : j = i - n
      OBVIOUS
    <3>2. j \in 1 .. m /\ j \in 0 .. m /\ j - 1 \in 0 .. m /\ i = n + j /\ i - 1 = n + (j - 1)
      BY ONLY <1>3, <2>2, <3>1, i \in 1 .. n + m
    <3>3. c[i] = h[j] /\ c[i - 1] = h[j - 1] /\ u[i] = t[j]
      BY <1>7, <1>10, <3>2
    <3> QED
      BY <1>5, <3>2, <3>3
  <2> QED
    BY <2>1, <2>2
<1>14. Leads(op, c[0], u, c[Len(u)], V)
  BY <1>7, <1>12, <1>13, LeadsAlong
<1>15. c[0] = a /\ c[n + m] = d
  <2>1. 0 \in 0 .. n /\ m \in 0 .. m
    BY <1>3
  <2> QED
    BY <1>4, <1>5, <1>9, <1>10, <2>1
<1> QED
  BY <1>3, <1>7, <1>14, <1>15

LEMMA LeadsFlat ==
    ASSUME NEW D, NEW V, NEW op, NEW seqs \in Seq(Seq(D)), NEW c,
           \A i \in 0 .. Len(seqs) : c[i] \in V,
           \A i \in 1 .. Len(seqs) : Leads(op, c[i - 1], seqs[i], c[i], V)
    PROVE  Leads(op, c[0], FlattenSeq(seqs), c[Len(seqs)], V)
<1>1. PICK g : Flattens(g, seqs, D)
  BY FlattenSteps
<1>2. PICK n : n = Len(seqs) /\ n \in Nat /\ \A i \in 1 .. n : seqs[i] \in Seq(D)
  OBVIOUS
<1>3. /\ g \in [0 .. n -> Seq(D)] /\ g[0] = <<>>
      /\ \A i \in 1 .. n : g[i] = g[i - 1] \o seqs[i]
      /\ FlattenSeq(seqs) = g[n]
  BY <1>1, <1>2 DEF Flattens
<1> DEFINE P == {k \in 0 .. n : Leads(op, c[0], g[k], c[k], V)}
<1>4. 0 \in P
  <2>1. 0 \in 0 .. n
    BY <1>2
  <2>2. c[0] \in V
    BY <1>2, <2>1
  <2>3. Leads(op, c[0], g[0], c[0], V)
    BY <1>3, <2>2, LeadsNowhere
  <2> QED
    BY <2>1, <2>3
<1>5. ASSUME NEW k \in 0 .. n - 1, k \in P PROVE k + 1 \in P
  <2>1. PICK l : l = k + 1
    OBVIOUS
  <2>2. l \in 1 .. n /\ l \in 0 .. n /\ l - 1 = k /\ k \in 0 .. n
    BY ONLY <1>2, <2>1, k \in 0 .. n - 1
  <2>3. Leads(op, c[0], g[k], c[k], V)
    BY <1>5
  <2>4. Leads(op, c[k], seqs[l], c[l], V)
    BY <1>2, <2>2
  <2>5. g[k] \in Seq(D) /\ seqs[l] \in Seq(D)
    BY <1>2, <1>3, <2>2
  <2>6. g[l] = g[k] \o seqs[l]
    BY <1>3, <2>2
  <2>7. Leads(op, c[0], g[l], c[l], V)
    <3> HIDE DEF P
    <3> QED BY <2>3, <2>4, <2>5, <2>6, LeadsOn
  <2> QED
    BY <2>1, <2>2, <2>7
<1>6. \A k \in 0 .. n : k \in P
  <2> HIDE DEF P
  <2> QED BY <1>2, <1>4, <1>5, Upward
<1>7. n \in P
  BY <1>2, <1>6
<1> QED
  BY <1>2, <1>3, <1>7

(* It leads to one end only.                                               *)
LEMMA LeadsOnce ==
    ASSUME NEW D, NEW s \in Seq(D), NEW V, NEW op, NEW a, NEW b, Leads(op, a, s, b, V),
           NEW h, Folded(h, op, a, s, V)
    PROVE  h[Len(s)] = b
<1>1. PICK g : Steps(g, op, a, s, b, V)
  BY DEF Leads
<1>2. PICK n : n = Len(s) /\ n \in Nat
  OBVIOUS
<1>3. g[0] = a /\ g[n] = b /\ \A k \in 1 .. n : g[k] = op[<<g[k - 1], s[k]>>]
  BY <1>1, <1>2 DEF Steps, Folded
<1>4. h[0] = a /\ \A k \in 1 .. n : h[k] = op[<<h[k - 1], s[k]>>]
  BY <1>2 DEF Folded
<1> DEFINE P == {k \in 0 .. n : h[k] = g[k]}
<1>5. 0 \in P
  BY <1>2, <1>3, <1>4
<1>6. ASSUME NEW k \in 0 .. n - 1, k \in P PROVE k + 1 \in P
  <2>1. PICK l : l = k + 1
    OBVIOUS
  <2>2. l \in 1 .. n /\ l \in 0 .. n /\ l - 1 = k
    BY ONLY <1>2, <2>1, k \in 0 .. n - 1
  <2>3. h[l] = g[l]
    BY <1>3, <1>4, <1>6, <2>2
  <2> QED
    BY <2>1, <2>2, <2>3
<1>7. \A k \in 0 .. n : k \in P
  <2> HIDE DEF P
  <2> QED BY <1>2, <1>5, <1>6, Upward
<1> QED
  BY <1>2, <1>3, <1>7

(* A fold of a list gives what op leads to.                                *)
LEMMA FoldLeads ==
    ASSUME NEW D, NEW s, NEW V, NEW base, NEW op, Folding(op, base, s, D, V),
           NEW f, FoldsList(f, op, base, s, V), NEW b, Leads(op, base, s, b, V)
    PROVE  f[DOMAIN s] = b
<1>1. PICK h : Folded(h, op, base, s, V) /\ f[DOMAIN s] = h[Len(s)]
  BY FoldUp
<1>2. s \in Seq(D)
  BY DEF Folding
<1> QED
  BY <1>1, <1>2, LeadsOnce

(* f is the function the fold of s by op is taken from.                    *)
SolvesFold(f, op, base, s) ==
    f = [T \in SUBSET DOMAIN s |-> IF T = {} THEN base ELSE op[<<f[T \ {Max(T)}], s[Max(T)]>>]]

LEMMA FoldSolved ==
    ASSUME NEW D, NEW s, NEW V, NEW base, NEW op, Folding(op, base, s, D, V)
    PROVE  \E f : SolvesFold(f, op, base, s) /\ FoldsList(f, op, base, s, V)
                  /\ (\A T \in SUBSET DOMAIN s : f[T \ {Max(T)}] \in V)
                  /\ (\A T \in SUBSET DOMAIN s : T # {} => s[Max(T)] \in D)
<1>1. PICK f : /\ f \in [SUBSET DOMAIN s -> V]
               /\ \A T \in SUBSET DOMAIN s :
                    f[T] = IF T = {} THEN base ELSE op[<<f[T \ {Max(T)}], s[Max(T)]>>]
               /\ \A T \in SUBSET DOMAIN s : f[T \ {Max(T)}] \in V
               /\ \A T \in SUBSET DOMAIN s : T # {} => s[Max(T)] \in D
  BY FoldMade
<1>2. SolvesFold(f, op, base, s)
  BY <1>1 DEF SolvesFold
<1>3. f[{}] = base
  <2>1. {} \in SUBSET DOMAIN s
    OBVIOUS
  <2> QED
    BY <1>1, <2>1
<1>4. FoldsList(f, op, base, s, V)
  BY <1>1, <1>3 DEF FoldsList
<1> QED
  BY <1>1, <1>2, <1>4

LEMMA LeadsTwo ==
    ASSUME NEW D, NEW V, NEW op, NEW a, NEW b, NEW d, NEW x \in D, NEW y \in D,
           a \in V, b \in V, d \in V, op[<<a, x>>] = b, op[<<b, y>>] = d
    PROVE  Leads(op, a, <<x, y>>, d, V)
<1>1. Leads(op, a, <<x>>, b, V)
  BY LeadsOne
<1>2. Leads(op, b, <<y>>, d, V)
  BY LeadsOne
<1>3. <<x>> \in Seq(D) /\ <<y>> \in Seq(D) /\ <<x>> \o <<y>> = <<x, y>>
  <2>1. PICK u, v, w : u = <<x>> /\ v = <<y>> /\ w = u \o v
    OBVIOUS
  <2>2. u \in Seq(D) /\ v \in Seq(D) /\ Len(u) = 1 /\ Len(v) = 1 /\ u[1] = x /\ v[1] = y
    BY <2>1
  <2>3. Concat(w, u, v, D)
    BY <2>1, <2>2, ConcatIs
  <2>4. w \in Seq(D) /\ Len(w) = 2 /\ w[1] = x /\ w[2] = y
    <3>1. 1 + 1 = 2 /\ 1 \in 1 .. 1
      OBVIOUS
    <3> QED
      BY <2>2, <2>3, <3>1 DEF Concat
  <2>5. PICK z : z = <<x, y>>
    OBVIOUS
  <2>6. z \in Seq(D) /\ Len(z) = 2 /\ z[1] = x /\ z[2] = y
    BY <2>5
  <2>7. \A i \in 1 .. 2 : i = 1 \/ i = 2
    OBVIOUS
  <2>8. w = z
    BY ONLY <2>4, <2>6, <2>7, SeqEqual
  <2> QED
    BY <2>1, <2>2, <2>5, <2>8
<1> QED
  BY <1>1, <1>2, <1>3, LeadsOn

(* Three pieces of a text, joined in either order.                         *)
Associates(a, b, c) == (a \o b) \o c = a \o (b \o c)

LEMMA Regroup ==
    ASSUME NEW S, NEW a \in Seq(S), NEW b \in Seq(S), NEW c \in Seq(S)
    PROVE  Associates(a, b, c)
BY ConcatAssociative DEF Associates

(* p is the piece of a text from i to before j.                            *)
PieceOf(p, t, i, j, D) ==
    /\ p \in Seq(D) /\ Len(p) = j - i
    /\ \A z \in 1 .. j - i : p[z] = t[i + z - 1] /\ i + z - 1 \in i .. j - 1

LEMMA PieceIs ==
    ASSUME NEW D, NEW t \in Seq(D), NEW i \in 1 .. Len(t) + 1, NEW j \in i .. Len(t) + 1
    PROVE  PieceOf(Upto(t, i, j), t, i, j, D)
<1>1. PICK b, p : b = j - 1 /\ p = SubSeq(t, i, b)
  OBVIOUS
<1>2. \A x \in i .. b : t[x] \in D
  BY <1>1
<1>3. b \in Int /\ i \in Int
  BY <1>1
<1>4. /\ p \in Seq(D) /\ Len(p) = IF i <= b THEN b - i + 1 ELSE 0
      /\ \A x \in 1 .. b - i + 1 : p[x] = t[i + x - 1]
  BY ONLY <1>1, <1>2, <1>3, SubSeqProperties
<1>5. b - i + 1 = j - i /\ Len(p) = j - i /\ \A x \in 1 .. j - i : i + x - 1 \in i .. j - 1
  BY <1>1, <1>4
<1> QED
  BY <1>1, <1>4, <1>5 DEF Upto, PieceOf

(***************************************************************************)
(* Functions defined by what they are further on                           *)
(***************************************************************************)

(* A walk over a .. m that ends with val[j] where j is in stop, with last  *)
(* past n, and goes on at next[j] elsewhere.                               *)
Leaping(next, stop, val, last, n, a, m, V) ==
    /\ n \in Nat /\ a \in Nat \ {0} /\ m \in Nat /\ n < m /\ last \in V
    /\ \A j \in a .. n : IF j \in stop THEN val[j] \in V ELSE next[j] \in j + 1 .. m

Leaps(f, next, stop, val, last, n, a, m) ==
    f = [j \in a .. m |-> IF j > n THEN last ELSE IF j \in stop THEN val[j] ELSE f[next[j]]]

LEMMA Leap ==
    ASSUME NEW next, NEW stop, NEW val, NEW last, NEW n, NEW a, NEW m, NEW V,
           Leaping(next, stop, val, last, n, a, m, V)
    PROVE  \E f : Leaps(f, next, stop, val, last, n, a, m)
<1>0. /\ n \in Nat /\ a \in Nat \ {0} /\ m \in Nat /\ n < m
      /\ \A j \in a .. n : j \in stop \/ next[j] \in j + 1 .. m
  BY DEF Leaping
<1> USE <1>0
<1> DEFINE At1(f, j) == IF j > n THEN last ELSE IF j \in stop THEN val[j] ELSE f[next[j]]
           Solves(f, k) == f = [j \in k .. m |-> At1(f, j)]
           P == {k \in 1 .. m + 1 : k >= a => \E f : Solves(f, k)}
<1>1. m + 1 \in P
  <2> DEFINE g == [j \in m + 1 .. m |-> last]
  <2>1. m + 1 .. m = {} /\ m + 1 \in 1 .. m + 1
    OBVIOUS
  <2>2. Solves(g, m + 1)
    BY <2>1
  <2> HIDE DEF Solves, g
  <2> QED
    BY <2>1, <2>2
<1>2. ASSUME NEW k \in 1 .. m, k + 1 \in P
      PROVE  k \in P
  <2> SUFFICES ASSUME k >= a PROVE \E f : Solves(f, k)
    OBVIOUS
  <2>1. PICK f : Solves(f, k + 1)
    BY <1>2
  <2> DEFINE g == [j \in k .. m |-> IF j = k THEN At1(f, k) ELSE f[j]]
  <2>2. \A j \in k + 1 .. m : g[j] = f[j]
    OBVIOUS
  <2>3. ASSUME NEW j \in k .. m PROVE g[j] = At1(g, j)
    <3>1. ~ (j > n) /\ j \notin stop => next[j] \in k + 1 .. m
      OBVIOUS
    <3>2. ~ (j > n) /\ j \notin stop => g[next[j]] = f[next[j]]
      <4> HIDE DEF g
      <4> QED
        BY ONLY <2>2, <3>1
    <3>3. At1(g, j) = At1(f, j)
      <4> HIDE DEF g
      <4> QED
        BY <3>2
    <3>4. g[j] = At1(f, j)
      <4>1. CASE j = k
        BY <4>1
      <4>2. CASE j # k
        <5>1. j \in k + 1 .. m
          BY <4>2
        <5>2. f[j] = At1(f, j)
          <6> HIDE DEF At1
          <6> QED BY ONLY <2>1, <5>1
        <5>3. g[j] = f[j]
          BY <2>2, <5>1
        <5> HIDE DEF g, At1
        <5> QED BY <5>2, <5>3
      <4> QED
        BY <4>1, <4>2
    <3> HIDE DEF g, At1
    <3> QED
      BY <3>3, <3>4
  <2>4. Solves(g, k)
    <3> HIDE DEF At1
    <3>1. g = [j \in k .. m |-> g[j]]
      OBVIOUS
    <3> HIDE DEF g
    <3> QED
      BY <2>3, <3>1
  <2> HIDE DEF Solves, g
  <2> QED
    BY <2>4
<1>3. \A k \in 1 .. m + 1 : k \in P
  <2> HIDE DEF P
  <2> QED BY <1>1, <1>2, Downward
<1>4. a <= m + 1 => \E f : Solves(f, a)
  <2>1. a <= m + 1 => a \in P
    <3> HIDE DEF P
    <3> QED BY <1>3
  <2> HIDE DEF Solves
  <2> QED BY <2>1
<1>5. a > m + 1 => \E f : Solves(f, a)
  <2>1. a > m + 1 => a .. m = {} /\ m + 1 .. m = {}
    OBVIOUS
  <2>2. a > m + 1 => Solves([j \in {} |-> last], a)
    BY <2>1
  <2> HIDE DEF Solves
  <2> QED BY <2>2
<1> QED
  BY <1>4, <1>5 DEF Leaps

(* Where it ends is in the set that all its ends are in.                   *)
LEMMA LeapIn ==
    ASSUME NEW next, NEW stop, NEW val, NEW last, NEW n, NEW a, NEW m, NEW V,
           Leaping(next, stop, val, last, n, a, m, V),
           NEW f, Leaps(f, next, stop, val, last, n, a, m)
    PROVE  \A j \in a .. m : f[j] \in V
<1>0. /\ n \in Nat /\ a \in Nat \ {0} /\ m \in Nat /\ n < m /\ last \in V
      /\ \A j \in a .. n : j \in stop => val[j] \in V
      /\ \A j \in a .. n : j \in stop \/ next[j] \in j + 1 .. m
  BY DEF Leaping
<1>1. \A j \in a .. m : f[j] = IF j > n THEN last ELSE IF j \in stop THEN val[j] ELSE f[next[j]]
  BY Zenon DEF Leaps
<1> DEFINE P == {k \in 1 .. m + 1 : \A j \in k .. m : j >= a => f[j] \in V}
<1>2. m + 1 \in P
  BY <1>0
<1>3. ASSUME NEW k \in 1 .. m, k + 1 \in P
      PROVE  k \in P
  <2>1. \A j \in k + 1 .. m : j >= a => f[j] \in V
    BY <1>3
  <2>2. k >= a => f[k] \in V
    <3> SUFFICES ASSUME k >= a PROVE f[k] \in V
      OBVIOUS
    <3>1. k \in a .. m
      BY <1>0
    <3>2. k \in a .. n /\ k \notin stop => next[k] \in k + 1 .. m /\ next[k] >= a
      BY <1>0
    <3>3. f[k] = IF k > n THEN last ELSE IF k \in stop THEN val[k] ELSE f[next[k]]
      BY <1>1, <3>1, Zenon
    <3>4. k > n \/ k \in a .. n
      BY <1>0
    <3> HIDE DEF P
    <3> QED
      BY <1>0, <2>1, <3>2, <3>3, <3>4
  <2>3. \A j \in k .. m : j = k \/ j \in k + 1 .. m
    BY <1>0
  <2>4. k \in 1 .. m + 1
    BY <1>0
  <2> QED
    BY <2>1, <2>2, <2>3, <2>4
<1>4. \A k \in 1 .. m + 1 : k \in P
  <2> HIDE DEF P
  <2> QED BY <1>0, <1>2, <1>3, Downward
<1> SUFFICES ASSUME NEW j \in a .. m PROVE f[j] \in V
  OBVIOUS
<1>5. j \in 1 .. m + 1 /\ j \in j .. m /\ j >= a
  BY <1>0
<1> QED
  BY <1>4, <1>5

=============================================================================
