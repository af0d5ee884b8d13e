---------------------------- MODULE Lists_proofs ----------------------------
(***************************************************************************)
(* What Keep leaves of a list: its elements, their order and their number. *)
(* The facts about a walk are by induction on the part of the list that    *)
(* was walked; induction on a bounded number needs no more than the least  *)
(* element of a set of numbers.  A function defined by its steps exists by *)
(* the same induction.  And how the total of what some owners have changes *)
(* with one of them, or with who they are.                                 *)
(***************************************************************************)
EXTENDS Lists, Functions, TLAPS, WellFoundedInduction, SequenceTheorems,
        FiniteSetTheorems

\* A set of numbers that is not empty has a least element.
LEMMA Least ==
  ASSUME NEW T \in SUBSET Nat, T # {}
  PROVE  \E n \in T : \A m \in T : n <= m
<1>1. \E n \in T : \A m \in T : ~ (<<m, n>> \in OpToRel(<, Nat))
  BY NatLessThanWellFounded, WFMin, Zenon
<1>2. PICK n \in T : \A m \in T : ~ (<<m, n>> \in OpToRel(<, Nat))
  BY <1>1
<1>3. ASSUME NEW a \in Nat, NEW b \in Nat, a < b
      PROVE  <<a, b>> \in OpToRel(<, Nat)
  BY <1>3, Zenon DEF OpToRel
<1>4. \A m \in T : ~ (m < n)
  BY <1>2, <1>3
<1> QED BY <1>4

\* Induction up to n: what holds of 0 and is handed on holds of all up to n.
LEMMA UpTo ==
  ASSUME NEW n \in Nat, NEW S, 0 \in S,
         \A i \in 0..n : i < n /\ i \in S => i + 1 \in S
  PROVE  \A i \in 0..n : i \in S
<1> DEFINE T == {i \in 0..n : i \notin S}
<1> SUFFICES T = {}
  OBVIOUS
<1> SUFFICES ASSUME T # {} PROVE FALSE
  OBVIOUS
<1>1. PICK i \in T : \A j \in T : i <= j
  <2>1. T \in SUBSET Nat
    OBVIOUS
  <2> QED BY <2>1, Least
<1>2. i # 0 /\ i \in 1..n
  BY <1>1
<1>3. i - 1 \in 0..n /\ i - 1 < n /\ ~ (i - 1 \in T)
  BY <1>1, <1>2
<1>4. i \in S
  BY <1>3, <1>2
<1> QED BY <1>4, <1>1

\* g starts with first and makes each of its n steps.
MakesSteps(g, n, first, step) ==
  g[0] = first /\ \A i \in 1..n : g[i] = step[i][g[i - 1]]

\* A function that is defined step by step up to n exists.
LEMMA StepByStep ==
  ASSUME NEW n \in Nat, NEW V, NEW first \in V, NEW step \in [1..n -> [V -> V]]
  PROVE  \E g \in [0..n -> V] : MakesSteps(g, n, first, step)
<1> DEFINE Works(k, g) == MakesSteps(g, k, first, step)
           Good == {k \in 0..n : \E g \in [0..k -> V] : Works(k, g)}
<1>1. 0 \in Good
  <2>1. [i \in 0..0 |-> first] \in [0..0 -> V] /\ Works(0, [i \in 0..0 |-> first])
    BY DEF MakesSteps
  <2> HIDE DEF Works
  <2> QED BY <2>1
<1>2. ASSUME NEW k \in 0..n, k < n, k \in Good PROVE k + 1 \in Good
  <2>1. PICK g \in [0..k -> V] : Works(k, g)
    BY <1>2
  <2> DEFINE h == [i \in 0..(k + 1) |-> IF i <= k THEN g[i] ELSE step[k + 1][g[k]]]
  <2>2. k \in Nat /\ k + 1 \in 1..n /\ g[k] \in V
    BY <1>2
  <2>3. step[k + 1][g[k]] \in V
    BY <2>2
  <2>4. h \in [0..(k + 1) -> V]
    BY <2>2, <2>3
  <2>5. h[0] = first
    BY <2>1, <2>2 DEF MakesSteps
  <2>6. ASSUME NEW i \in 1..(k + 1) PROVE h[i] = step[i][h[i - 1]]
    <3>1. h[i - 1] = g[i - 1]
      BY <2>2
    <3>2. CASE i <= k
      <4>1. i \in 1..k /\ h[i] = g[i]
        BY <2>2, <3>2
      <4> HIDE DEF h
      <4> QED BY <2>1, <3>1, <4>1 DEF MakesSteps
    <3>3. CASE i = k + 1
      <4>1. h[i] = step[k + 1][g[k]] /\ i - 1 = k
        BY <2>2, <3>3
      <4> HIDE DEF h
      <4> QED BY <3>1, <3>3, <4>1
    <3> QED BY <2>2, <3>2, <3>3
  <2> HIDE DEF h
  <2>7. Works(k + 1, h)
    BY <2>5, <2>6 DEF MakesSteps
  <2>8. k + 1 \in 0..n
    BY <2>2
  <2> HIDE DEF Works
  <2> QED BY <2>4, <2>7, <2>8
<1>3. n \in Good
  <2> HIDE DEF Good
  <2>1. n \in 0..n
    OBVIOUS
  <2> QED BY <1>1, <1>2, <2>1, UpTo
<1> QED BY <1>3

\* f is the walk over the first k nodes of the list.
WalkTo(list, nodes, k, f) ==
  f = [i \in 0..k |->
        IF i = 0 THEN <<>>
        ELSE IF list[i] \in nodes THEN Append(f[i - 1], list[i]) ELSE f[i - 1]]

\* The walk over a list gives something for each of its parts.
LEMMA WalkExists ==
  ASSUME NEW S, NEW list \in Seq(S), NEW nodes
  PROVE  \E f : WalkTo(list, nodes, Len(list), f)
<1> DEFINE n == Len(list)
           Good == {k \in 0..n : \E g : WalkTo(list, nodes, k, g)}
<1>0. n \in Nat
  OBVIOUS
<1>1. 0 \in Good
  <2>1. WalkTo(list, nodes, 0, [i \in 0..0 |-> <<>>])
    BY DEF WalkTo
  <2>2. 0 \in 0..n
    BY <1>0
  <2> QED BY <2>1, <2>2
<1>2. ASSUME NEW k \in 0..n, k < n, k \in Good PROVE k + 1 \in Good
  <2>1. PICK g : WalkTo(list, nodes, k, g)
    BY <1>2
  <2> DEFINE h == [i \in 0..(k + 1) |->
             IF i <= k THEN g[i]
             ELSE IF list[i] \in nodes THEN Append(g[k], list[i]) ELSE g[k]]
  <2>2. k \in Nat
    BY <1>0
  <2>3. ASSUME NEW i \in 0..(k + 1)
        PROVE h[i] = IF i = 0 THEN <<>>
                     ELSE IF list[i] \in nodes THEN Append(h[i - 1], list[i]) ELSE h[i - 1]
    <3>1. CASE i <= k
      <4>1. i \in 0..k /\ h[i] = g[i]
        BY <2>2, <3>1
      <4>2. i # 0 => i - 1 \in 0..(k + 1) /\ i - 1 <= k /\ h[i - 1] = g[i - 1]
        BY <2>2, <3>1
      <4>3. g[i] = IF i = 0 THEN <<>>
                   ELSE IF list[i] \in nodes THEN Append(g[i - 1], list[i]) ELSE g[i - 1]
        BY <2>1, <4>1 DEF WalkTo
      <4> HIDE DEF h
      <4> QED BY <4>1, <4>2, <4>3
    <3>2. CASE i = k + 1
      <4>1. i # 0 /\ ~ (i <= k) /\ i - 1 = k /\ k \in 0..(k + 1) /\ h[k] = g[k]
        BY <2>2, <3>2
      <4> QED BY <4>1
    <3> QED BY <2>2, <3>1, <3>2
  <2>4. WalkTo(list, nodes, k + 1, h)
    <3> HIDE DEF h
    <3>1. h = [i \in 0..(k + 1) |-> h[i]]
      BY DEF h
    <3> QED BY <2>3, <3>1 DEF WalkTo
  <2>5. k + 1 \in 0..n
    BY <1>2, <1>0
  <2> HIDE DEF h
  <2> QED BY <2>4, <2>5
<1>3. n \in Good
  <2> HIDE DEF Good
  <2>1. n \in 0..n
    BY <1>0
  <2> QED BY <1>0, <1>1, <1>2, <2>1, UpTo
<1> QED BY <1>3

\* Keep is what the walk over the whole list gives.
LEMMA KeepIsWalk ==
  ASSUME NEW S, NEW list \in Seq(S), NEW nodes
  PROVE  \E f : WalkTo(list, nodes, Len(list), f) /\ Keep(list, nodes) = f[Len(list)]
<1> DEFINE f == CHOOSE f : WalkTo(list, nodes, Len(list), f)
<1>1. WalkTo(list, nodes, Len(list), f)
  BY WalkExists, Zenon
<1>2. Keep(list, nodes) = f[Len(list)]
  BY Zenon DEF Keep, WalkTo
<1> QED BY <1>1, <1>2

\* What the walk of the first k nodes gives, and its last step.
LEMMA KeepStep ==
  ASSUME NEW S, NEW list \in Seq(S), NEW nodes, NEW f,
         WalkTo(list, nodes, Len(list), f)
  PROVE  /\ f[0] = <<>>
         /\ \A i \in 0..Len(list) : i < Len(list) =>
              f[i + 1] = IF list[i + 1] \in nodes THEN Append(f[i], list[i + 1]) ELSE f[i]
<1> DEFINE n == Len(list)
<1>1. n \in Nat /\ 0 \in 0..n
  OBVIOUS
<1>2. \A i \in 0..n : f[i] = IF i = 0 THEN <<>>
        ELSE IF list[i] \in nodes THEN Append(f[i - 1], list[i]) ELSE f[i - 1]
  BY DEF WalkTo
<1>3. f[0] = <<>>
  BY <1>1, <1>2
<1>4. ASSUME NEW i \in 0..n, i < n
      PROVE  f[i + 1] = IF list[i + 1] \in nodes THEN Append(f[i], list[i + 1]) ELSE f[i]
  <2>1. i + 1 \in 0..n /\ i + 1 # 0 /\ (i + 1) - 1 = i
    BY <1>1, <1>4
  <2> QED BY <1>2, <2>1
<1> QED BY <1>3, <1>4

\* The result r of a walk of the first k nodes, at the places at of the list.
Picked(list, nodes, k, r, at) ==
  /\ at \in [1..Len(r) -> 1..k]
  /\ \A i, j \in 1..Len(r) : i < j => at[i] < at[j]
  /\ \A i \in 1..Len(r) : r[i] = list[at[i]] /\ list[at[i]] \in nodes
  /\ \A p \in 1..k : list[p] \in nodes => \E i \in 1..Len(r) : at[i] = p

\* One more node is walked: it is picked or it is not.
LEMMA PickedNext ==
  ASSUME NEW S, NEW list \in Seq(S), NEW nodes, NEW k \in Nat, k < Len(list),
         NEW r \in Seq(S), NEW at, Picked(list, nodes, k, r, at)
  PROVE  LET s == IF list[k + 1] \in nodes THEN Append(r, list[k + 1]) ELSE r
         IN  s \in Seq(S) /\ \E a : Picked(list, nodes, k + 1, s, a)
<1> DEFINE x == list[k + 1]
<1>1. x \in S /\ Len(r) \in Nat
  OBVIOUS
<1>2. CASE x \notin nodes
  <2>1. Picked(list, nodes, k + 1, r, at)
    BY <1>1, <1>2 DEF Picked
  <2> QED BY <2>1, <1>2
<1>3. CASE x \in nodes
  <2> DEFINE s == Append(r, x)
             n == Len(r)
             a == [i \in 1..(n + 1) |-> IF i <= n THEN at[i] ELSE k + 1]
  <2>1. s \in Seq(S) /\ Len(s) = n + 1 /\ s[n + 1] = x /\ \A i \in 1..n : s[i] = r[i]
    BY <1>1
  <2>2. a \in [1..(n + 1) -> 1..(k + 1)] /\ a[n + 1] = k + 1 /\ \A i \in 1..n : a[i] = at[i]
    BY <1>1 DEF Picked
  <2> HIDE DEF s, a
  <2>3. \A i, j \in 1..(n + 1) : i < j => a[i] < a[j]
    <3> SUFFICES ASSUME NEW i \in 1..(n + 1), NEW j \in 1..(n + 1), i < j PROVE a[i] < a[j]
      OBVIOUS
    <3>1. i \in 1..n /\ a[i] \in 1..k
      BY <1>1, <2>2 DEF Picked
    <3>2. CASE j = n + 1
      BY <3>1, <3>2, <2>2
    <3>3. CASE j \in 1..n
      BY <3>1, <3>3, <2>2 DEF Picked
    <3> QED BY <1>1, <3>2, <3>3
  <2>4. \A i \in 1..(n + 1) : s[i] = list[a[i]] /\ list[a[i]] \in nodes
    BY <1>1, <1>3, <2>1, <2>2 DEF Picked
  <2>5. ASSUME NEW p \in 1..(k + 1), list[p] \in nodes
        PROVE  \E i \in 1..(n + 1) : a[i] = p
    <3>1. CASE p = k + 1
      BY <1>1, <2>2, <3>1
    <3>2. CASE p \in 1..k
      <4>1. PICK i \in 1..n : at[i] = p
        BY <2>5, <3>2 DEF Picked
      <4> QED BY <1>1, <2>2, <4>1
    <3> QED BY <3>1, <3>2
  <2>6. Picked(list, nodes, k + 1, s, a)
    BY <2>1, <2>2, <2>3, <2>4, <2>5 DEF Picked
  <2> QED BY <2>1, <2>6, <1>3 DEF s
<1> QED BY <1>2, <1>3

\* Keep picks the elements of the list that are in the set, in their order.
LEMMA KeepPicks ==
  ASSUME NEW S, NEW list \in Seq(S), NEW nodes
  PROVE  /\ Keep(list, nodes) \in Seq(S)
         /\ \E at : Picked(list, nodes, Len(list), Keep(list, nodes), at)
<1> DEFINE n == Len(list)
<1>1. PICK f : WalkTo(list, nodes, n, f) /\ Keep(list, nodes) = f[n]
  BY KeepIsWalk, Zenon
<1> DEFINE Good == {k \in 0..n : f[k] \in Seq(S) /\ \E at : Picked(list, nodes, k, f[k], at)}
<1>2. n \in Nat
  OBVIOUS
<1>3. 0 \in Good
  <2>1. f[0] = <<>>
    BY <1>1, KeepStep
  <2>2. Picked(list, nodes, 0, <<>>, <<>>)
    BY DEF Picked
  <2>3. 0 \in 0..n /\ <<>> \in Seq(S)
    BY <1>2
  <2> QED BY <2>1, <2>2, <2>3
<1>4. ASSUME NEW k \in 0..n, k < n, k \in Good PROVE k + 1 \in Good
  <2>1. f[k + 1] = IF list[k + 1] \in nodes THEN Append(f[k], list[k + 1]) ELSE f[k]
    BY <1>1, <1>4, KeepStep
  <2>2. PICK at : Picked(list, nodes, k, f[k], at)
    BY <1>4
  <2>3. k \in Nat /\ f[k] \in Seq(S) /\ k + 1 \in 0..n
    BY <1>2, <1>4
  <2>4. f[k + 1] \in Seq(S) /\ \E a : Picked(list, nodes, k + 1, f[k + 1], a)
    BY <2>1, <2>2, <2>3, <1>4, PickedNext
  <2> QED BY <2>3, <2>4
<1>5. n \in Good
  <2> HIDE DEF Good
  <2>1. n \in 0..n
    BY <1>2
  <2> QED BY <1>2, <1>3, <1>4, <2>1, UpTo
<1> QED BY <1>1, <1>5

\* What Keep leaves in the list is in the set, each as often as before.
LEMMA KeepRange ==
  ASSUME NEW S, NEW list \in Seq(S), NEW nodes
  PROVE  /\ Keep(list, nodes) \in Seq(S)
         /\ Range(Keep(list, nodes)) = Range(list) \cap nodes
         /\ IsInjective(list) => IsInjective(Keep(list, nodes))
<1> DEFINE r == Keep(list, nodes)
           n == Len(list)
<1>1. r \in Seq(S)
  BY KeepPicks
<1>2. PICK at : Picked(list, nodes, n, r, at)
  BY KeepPicks
<1> HIDE DEF r
<1>3. DOMAIN r = 1..Len(r) /\ DOMAIN list = 1..n /\ Len(r) \in Nat /\ n \in Nat
  BY <1>1
<1>4. Range(r) \subseteq Range(list) \cap nodes
  BY <1>2, <1>3 DEF Picked, Range
<1>5. Range(list) \cap nodes \subseteq Range(r)
  BY <1>2, <1>3 DEF Picked, Range
<1>6. ASSUME IsInjective(list) PROVE IsInjective(r)
  <2>1. \A i, j \in 1..Len(r) : r[i] = r[j] => at[i] = at[j]
    <3> SUFFICES ASSUME NEW i \in 1..Len(r), NEW j \in 1..Len(r), r[i] = r[j]
                 PROVE  at[i] = at[j]
      OBVIOUS
    <3>1. /\ at[i] \in 1..n /\ list[at[i]] = r[i]
          /\ at[j] \in 1..n /\ list[at[j]] = r[j]
      BY <1>2, <1>3 DEF Picked
    <3> QED BY <1>3, <1>6, <3>1 DEF IsInjective
  <2>2. \A i, j \in 1..Len(r) : at[i] = at[j] => i = j
    <3> SUFFICES ASSUME NEW i \in 1..Len(r), NEW j \in 1..Len(r), at[i] = at[j], i # j
                 PROVE  FALSE
      OBVIOUS
    <3>1. at[i] \in Nat /\ at[j] \in Nat
      BY <1>2, <1>3 DEF Picked
    <3>2. i < j \/ j < i
      BY <1>3
    <3> QED BY <3>1, <3>2, <1>2 DEF Picked
  <2> QED BY <1>3, <2>1, <2>2 DEF IsInjective
<1> QED BY <1>1, <1>4, <1>5, <1>6 DEF r

\* Keep makes no list longer.
LEMMA KeepShort ==
  ASSUME NEW S, NEW list \in Seq(S), NEW nodes
  PROVE  Len(Keep(list, nodes)) <= Len(list)
<1> DEFINE r == Keep(list, nodes)
           n == Len(list)
           m == Len(r)
<1>1. r \in Seq(S)
  BY KeepPicks
<1>2. PICK at : Picked(list, nodes, n, r, at)
  BY KeepPicks
<1>3. n \in Nat /\ m \in Nat
  BY <1>1
<1> HIDE DEF r
<1> DEFINE Good == {i \in 0..m : i = 0 \/ at[i] >= i}
<1>4. at \in [1..m -> 1..n] /\ \A i, j \in 1..m : i < j => at[i] < at[j]
  BY <1>2 DEF Picked
<1> HIDE DEF m
<1>5. ASSUME NEW i \in 0..m, i < m, i \in Good PROVE i + 1 \in Good
  <2>1. i + 1 \in 1..m /\ at[i + 1] \in 1..n
    BY <1>3, <1>4, <1>5
  <2>2. CASE i = 0
    BY <1>3, <2>1, <2>2
  <2>3. CASE i # 0
    <3>1. i \in 1..m /\ i < i + 1
      BY <1>3, <2>3
    <3>2. at[i] \in 1..n /\ at[i] < at[i + 1] /\ at[i] >= i
      BY <1>4, <1>5, <2>1, <2>3, <3>1
    <3> QED BY <1>3, <2>1, <3>1, <3>2
  <2> QED BY <2>2, <2>3
<1>6. m \in Good
  <2>1. 0 \in Good /\ m \in 0..m
    BY <1>3
  <2> HIDE DEF Good
  <2> QED BY <1>3, <1>5, <2>1, UpTo
<1>7. m <= n
  <2>1. CASE m = 0
    BY <1>3, <2>1
  <2>2. CASE m # 0
    <3>1. m \in 1..m
      BY <1>3, <2>2
    <3>2. at[m] \in 1..n /\ at[m] >= m
      BY <1>4, <1>6, <2>2, <3>1
    <3> QED BY <1>3, <3>2
  <2> QED BY <2>1, <2>2
<1> QED BY <1>7 DEF m, r

\* An element behind the list is kept behind what is kept of it.
LEMMA KeepAppend ==
  ASSUME NEW S, NEW list \in Seq(S), NEW nodes, NEW x \in S
  PROVE  Keep(Append(list, x), nodes) =
           IF x \in nodes THEN Append(Keep(list, nodes), x) ELSE Keep(list, nodes)
<1> DEFINE n == Len(list)
           longer == Append(list, x)
<1>1. n \in Nat /\ longer \in Seq(S) /\ Len(longer) = n + 1 /\ longer[n + 1] = x
      /\ \A i \in 1..n : longer[i] = list[i]
  OBVIOUS
<1> HIDE DEF longer
<1>2. PICK f : WalkTo(list, nodes, n, f) /\ Keep(list, nodes) = f[n]
  BY KeepIsWalk, Zenon
<1>3. PICK g : WalkTo(longer, nodes, Len(longer), g) /\ Keep(longer, nodes) = g[Len(longer)]
  BY <1>1, KeepIsWalk, Zenon
<1> DEFINE Same == {i \in 0..n : g[i] = f[i]}
<1>4. 0 \in Same
  BY <1>1, <1>2, <1>3, KeepStep
<1>5. ASSUME NEW i \in 0..n, i < n, i \in Same PROVE i + 1 \in Same
  <2>1. f[i + 1] = IF list[i + 1] \in nodes THEN Append(f[i], list[i + 1]) ELSE f[i]
    BY <1>2, <1>5, KeepStep
  <2>2. i \in 0..Len(longer) /\ i < Len(longer) /\ i + 1 \in 1..n /\ i + 1 \in 0..n
    BY <1>1, <1>5
  <2>3. g[i + 1] = IF longer[i + 1] \in nodes THEN Append(g[i], longer[i + 1]) ELSE g[i]
    BY <1>1, <1>3, <2>2, KeepStep
  <2> QED BY <1>1, <1>5, <2>1, <2>2, <2>3
<1>6. g[n] = f[n]
  <2> HIDE DEF Same
  <2>1. n \in Nat /\ n \in 0..n
    BY <1>1
  <2>2. n \in Same
    BY <2>1, <1>4, <1>5, UpTo
  <2> QED BY <2>2 DEF Same
<1>7. n \in 0..Len(longer) /\ n < Len(longer)
  BY <1>1
<1>8. g[n + 1] = IF longer[n + 1] \in nodes THEN Append(g[n], longer[n + 1]) ELSE g[n]
  BY <1>1, <1>3, <1>7, KeepStep
<1> QED BY <1>1, <1>2, <1>3, <1>6, <1>8 DEF longer

\* The first element of the list is kept before what is kept of the rest.
LEMMA KeepHead ==
  ASSUME NEW S, NEW list \in Seq(S), list # <<>>, NEW nodes
  PROVE  Keep(list, nodes) =
           IF Head(list) \in nodes THEN <<Head(list)>> \o Keep(Tail(list), nodes)
                                   ELSE Keep(Tail(list), nodes)
<1> DEFINE n == Len(list)
           rest == Tail(list)
           first == IF Head(list) \in nodes THEN <<Head(list)>> ELSE <<>>
<1>1. n \in Nat /\ n >= 1 /\ rest \in Seq(S) /\ Len(rest) = n - 1 /\ list[1] = Head(list)
      /\ Head(list) \in S /\ \A i \in 1..(n - 1) : rest[i] = list[i + 1]
  OBVIOUS
<1>2. first \in Seq(S)
  BY <1>1
<1> HIDE DEF rest, first
<1>3. PICK f : WalkTo(list, nodes, n, f) /\ Keep(list, nodes) = f[n]
  BY KeepIsWalk, Zenon
<1>4. PICK g : WalkTo(rest, nodes, Len(rest), g) /\ Keep(rest, nodes) = g[Len(rest)]
  BY <1>1, KeepIsWalk, Zenon
<1> DEFINE m == n - 1
           Same == {i \in 0..m : g[i] \in Seq(S) /\ f[i + 1] = first \o g[i]}
<1>5. m \in Nat /\ n = m + 1 /\ Len(rest) = m
  BY <1>1
<1> HIDE DEF m
<1>6. 0 \in Same
  <2>1. f[0] = <<>> /\ g[0] = <<>>
    BY <1>1, <1>3, <1>4, KeepStep
  <2>2. 0 \in 0..n /\ 0 < n /\ 0 + 1 = 1
    BY <1>1
  <2>3. f[0 + 1] = IF list[0 + 1] \in nodes THEN Append(f[0], list[0 + 1]) ELSE f[0]
    BY <1>3, <2>2, KeepStep
  <2>4. f[0 + 1] = first
    BY <2>1, <2>2, <2>3, <1>1 DEF first
  <2>5. first \o <<>> = first /\ <<>> \in Seq(S) /\ 0 \in 0..m
    BY <1>2, <1>5, ConcatEmptySeq
  <2> QED BY <2>1, <2>4, <2>5
<1>7. ASSUME NEW i \in 0..m, i < m, i \in Same PROVE i + 1 \in Same
  <2>0. i \in 0..Len(rest) /\ i < Len(rest)
    BY <1>5, <1>7
  <2>1. g[i + 1] = IF rest[i + 1] \in nodes THEN Append(g[i], rest[i + 1]) ELSE g[i]
    BY <1>1, <1>4, <2>0, KeepStep
  <2>2. i + 1 \in 0..n /\ i + 1 < n /\ i + 1 \in 1..m /\ i + 1 \in 0..m /\ m = n - 1
    BY <1>5, <1>7
  <2>3. f[(i + 1) + 1] = IF list[(i + 1) + 1] \in nodes THEN Append(f[i + 1], list[(i + 1) + 1])
                         ELSE f[i + 1]
    BY <1>3, <2>2, KeepStep
  <2>4. rest[i + 1] = list[(i + 1) + 1] /\ rest[i + 1] \in S
    BY <1>1, <1>5, <2>2
  <2>5. g[i] \in Seq(S) /\ f[i + 1] = first \o g[i]
    BY <1>7
  <2>6. ASSUME NEW x \in S
        PROVE  Append(first \o g[i], x) = first \o Append(g[i], x)
    <3> DEFINE s == g[i]
    <3>1. s \in Seq(S) /\ <<x>> \in Seq(S) /\ first \o s \in Seq(S)
      BY <1>2, <2>5
    <3> HIDE DEF s
    <3>2. Append(first \o s, x) = (first \o s) \o <<x>>
      BY <3>1, AppendIsConcat
    <3>3. Append(s, x) = s \o <<x>>
      BY <3>1, AppendIsConcat
    <3>4. (first \o s) \o <<x>> = first \o (s \o <<x>>)
      BY <3>1, <1>2, ConcatAssociative
    <3> QED BY <3>2, <3>3, <3>4 DEF s
  <2>7. \A x \in S : Append(g[i], x) \in Seq(S)
    BY <2>5
  <2>8. g[i + 1] \in Seq(S)
    BY <2>1, <2>4, <2>5, <2>7
  <2>9. f[(i + 1) + 1] = first \o g[i + 1]
    BY <2>1, <2>3, <2>4, <2>5, <2>6
  <2> QED BY <2>2, <2>8, <2>9
<1>8. g[m] \in Seq(S) /\ f[m + 1] = first \o g[m]
  <2> HIDE DEF Same
  <2>1. m \in 0..m
    BY <1>5
  <2>2. m \in Same
    BY <2>1, <1>5, <1>6, <1>7, UpTo
  <2> QED BY <2>2 DEF Same
<1>9. <<>> \o g[m] = g[m]
  BY <1>8, ConcatEmptySeq
<1> QED BY <1>3, <1>4, <1>5, <1>8, <1>9 DEF rest, first

\* Nothing is kept of the empty list.
LEMMA KeepEmpty == \A nodes : Keep(<<>>, nodes) = <<>>
<1> SUFFICES ASSUME NEW nodes PROVE Keep(<<>>, nodes) = <<>>
  OBVIOUS
<1> DEFINE r == Keep(<<>>, nodes)
           none == <<>>
<1>1. none \in Seq({}) /\ Len(none) = 0
  OBVIOUS
<1>2. r \in Seq({})
  BY <1>1, KeepRange DEF none
<1> HIDE DEF r
<1> QED BY <1>2 DEF r

-----------------------------------------------------------------------------
(* How many things some owners have.                                       *)

\* Each owner has a finite number of things, so together they have.
LEMMA ThingsAreFinite ==
  ASSUME NEW S, IsFiniteSet(S), NEW f \in [S -> Nat]
  PROVE  IsFiniteSet(Things(f)) /\ Total(f) \in Nat
<1> DEFINE C == {{x} \X (1..f[x]) : x \in S}
           g == [x \in S |-> {x} \X (1..f[x])]
<1>1. g \in Surjection(S, C)
  BY DEF Surjection
<1>2. IsFiniteSet(C)
  <2> HIDE DEF g, C
  <2> QED BY <1>1, FS_Surjection
<1>3. ASSUME NEW T \in C PROVE IsFiniteSet(T)
  <2>1. PICK x \in S : T = {x} \X (1..f[x])
    OBVIOUS
  <2>2. IsFiniteSet({x}) /\ IsFiniteSet(1..f[x])
    <3>1. f[x] \in Int /\ 1 \in Int
      OBVIOUS
    <3> QED BY <3>1, FS_Singleton, FS_Interval
  <2> QED BY <2>1, <2>2, FS_Product
<1>4. IsFiniteSet(UNION C)
  <2> HIDE DEF C
  <2> QED BY <1>2, <1>3, FS_UNION
<1>5. Things(f) = UNION C
  BY DEF Things
<1> HIDE DEF C
<1>6. IsFiniteSet(Things(f))
  BY <1>4, <1>5
<1> QED BY <1>6, FS_CardinalityType DEF Total

\* What is counted.
LEMMA ThingsAre ==
  ASSUME NEW S, NEW f \in [S -> Nat], NEW p
  PROVE  p \in Things(f) <=> \E x \in S : \E i \in 1..f[x] : p = <<x, i>>
BY DEF Things

\* g is f without the owners that are not in A.
IsPart(g, f, A) == g \in [A -> Nat] /\ \A x \in A : g[x] = f[x]

\* The things of some owners and those of the others are all.
LEMMA TotalOfParts ==
  ASSUME NEW S, IsFiniteSet(S), NEW f \in [S -> Nat], NEW A \in SUBSET S,
         NEW g, IsPart(g, f, A), NEW h, IsPart(h, f, S \ A)
  PROVE  Total(f) = Total(g) + Total(h)
<1> DEFINE B == S \ A
<1>1. IsFiniteSet(A) /\ IsFiniteSet(B)
  BY FS_Subset, FS_Difference
<1>a. /\ g \in [A -> Nat] /\ \A x \in A : g[x] = f[x]
      /\ h \in [B -> Nat] /\ \A x \in B : h[x] = f[x]
  BY DEF IsPart
<1>2. IsFiniteSet(Things(g)) /\ IsFiniteSet(Things(h))
  <2> HIDE DEF B
  <2> QED BY <1>1, <1>a, ThingsAreFinite
<1>3. Things(f) = Things(g) \cup Things(h)
  <2>1. ASSUME NEW p \in Things(f) PROVE p \in Things(g) \cup Things(h)
    <3>1. PICK x \in S : \E i \in 1..f[x] : p = <<x, i>>
      BY ThingsAre
    <3>2. CASE x \in A
      BY <1>a, <3>1, <3>2, ThingsAre
    <3>3. CASE x \in B
      BY <1>a, <3>1, <3>3, ThingsAre
    <3> QED BY <3>2, <3>3
  <2>2. ASSUME NEW p \in Things(g) PROVE p \in Things(f)
    <3>1. PICK x \in A : \E i \in 1..g[x] : p = <<x, i>>
      BY <1>a, ThingsAre
    <3> QED BY <1>a, <3>1, ThingsAre
  <2>3. ASSUME NEW p \in Things(h) PROVE p \in Things(f)
    <3>1. PICK x \in B : \E i \in 1..h[x] : p = <<x, i>>
      BY <1>a, ThingsAre
    <3> QED BY <1>a, <3>1, ThingsAre
  <2> QED BY <2>1, <2>2, <2>3
<1>4. Things(g) \cap Things(h) = {}
  <2> SUFFICES ASSUME NEW p \in Things(g), p \in Things(h) PROVE FALSE
    OBVIOUS
  <2>1. PICK x \in A : \E i \in 1..g[x] : p = <<x, i>>
    BY <1>a, ThingsAre
  <2>2. PICK y \in B : \E i \in 1..h[y] : p = <<y, i>>
    BY <1>a, ThingsAre
  <2> QED BY <2>1, <2>2
<1>5. Cardinality(Things(f)) = Cardinality(Things(g)) + Cardinality(Things(h)) - Cardinality({})
  BY <1>2, <1>3, <1>4, FS_Union
<1>6. /\ Cardinality({}) = 0
      /\ Cardinality(Things(g)) \in Nat /\ Cardinality(Things(h)) \in Nat
  BY <1>2, FS_EmptySet, FS_CardinalityType
<1> QED BY <1>5, <1>6 DEF Total

\* One owner.
LEMMA TotalOfOne ==
  ASSUME NEW x, NEW n \in Nat, NEW g, IsPart(g, [y \in {x} |-> n], {x})
  PROVE  Total(g) = n
<1>1. g \in [{x} -> Nat] /\ g[x] = n
  BY DEF IsPart
<1> DEFINE b == [i \in 1..n |-> <<x, i>>]
<1>2. b \in Bijection(1..n, Things(g))
  <2>1. \A p : p \in Things(g) <=> \E i \in 1..n : p = <<x, i>>
    BY <1>1, ThingsAre
  <2>2. b \in [1..n -> Things(g)]
    BY <2>1
  <2>3. \A i, j \in 1..n : b[i] = b[j] => i = j
    OBVIOUS
  <2>4. \A p \in Things(g) : \E i \in 1..n : b[i] = p
    BY <2>1
  <2> QED BY <2>2, <2>3, <2>4 DEF Bijection, Injection, Surjection, IsInjective
<1>3. ExistsBijection(1..n, Things(g))
  BY <1>2 DEF ExistsBijection
<1> QED BY <1>3, FS_CountingElements DEF Total

\* One owner and the others.
LEMMA TotalWith ==
  ASSUME NEW S, IsFiniteSet(S), NEW f \in [S -> Nat], NEW x \in S,
         NEW h, IsPart(h, f, S \ {x})
  PROVE  Total(f) = f[x] + Total(h) /\ Total(h) \in Nat
<1> DEFINE g == [y \in {x} |-> f[x]]
<1>1. f[x] \in Nat /\ IsPart(g, f, {x}) /\ IsPart(g, [y \in {x} |-> f[x]], {x})
  BY DEF IsPart
<1> HIDE DEF g
<1>2. Total(g) = f[x]
  BY <1>1, TotalOfOne
<1>3. Total(f) = Total(g) + Total(h)
  BY <1>1, TotalOfParts
<1>4. IsFiniteSet(S \ {x})
  BY FS_RemoveElement
<1>5. Total(h) \in Nat
  BY <1>4, ThingsAreFinite DEF IsPart
<1> QED BY <1>2, <1>3, <1>5

\* One owner has another number of things.
LEMMA TotalChanged ==
  ASSUME NEW S, IsFiniteSet(S), NEW f \in [S -> Nat], NEW h \in [S -> Nat], NEW x \in S,
         \A y \in S \ {x} : h[y] = f[y]
  PROVE  Total(h) = Total(f) - f[x] + h[x]
<1> DEFINE r == [y \in S \ {x} |-> f[y]]
<1>1. IsPart(r, f, S \ {x}) /\ IsPart(r, h, S \ {x})
  BY DEF IsPart
<1> HIDE DEF r
<1>2. Total(f) = f[x] + Total(r) /\ Total(r) \in Nat
  BY <1>1, TotalWith
<1>3. Total(h) = h[x] + Total(r)
  BY <1>1, TotalWith
<1> QED BY <1>2, <1>3

\* Nobody has anything.
LEMMA TotalNone ==
  ASSUME NEW S, NEW f \in [S -> Nat], \A x \in S : f[x] = 0
  PROVE  Total(f) = 0
<1>1. Things(f) = {}
  <2> SUFFICES ASSUME NEW p \in Things(f) PROVE FALSE
    OBVIOUS
  <2>1. PICK x \in S : \E i \in 1..f[x] : p = <<x, i>>
    BY ThingsAre
  <2> QED BY <2>1
<1> QED BY <1>1, FS_EmptySet DEF Total

\* A sequence of owners, and the same with one more at its end.
LEMMA TotalLast ==
  ASSUME NEW n \in Nat, NEW f \in [1..(n + 1) -> Nat], NEW g, IsPart(g, f, 1..n)
  PROVE  Total(f) = Total(g) + f[n + 1] /\ Total(g) \in Nat
<1>1. n + 1 \in 1..(n + 1) /\ (1..(n + 1)) \ {n + 1} = 1..n
  OBVIOUS
<1>2. IsFiniteSet(1..(n + 1))
  BY FS_Interval
<1>3. IsPart(g, f, (1..(n + 1)) \ {n + 1})
  BY <1>1
<1>4. Total(f) = f[n + 1] + Total(g) /\ Total(g) \in Nat
  BY <1>1, <1>2, <1>3, TotalWith
<1>5. f[n + 1] \in Nat
  BY <1>1
<1> QED BY <1>4, <1>5

\* g is f without its first owner.
IsRest(g, f, n) == g \in [1..n -> Nat] /\ \A i \in 1..n : g[i] = f[i + 1]

\* The first of a sequence of owners and the rest of it.
LEMMA TotalFirst ==
  ASSUME NEW n \in Nat, NEW f \in [1..(n + 1) -> Nat], NEW g, IsRest(g, f, n)
  PROVE  Total(f) = f[1] + Total(g) /\ Total(g) \in Nat
<1> DEFINE R == (1..(n + 1)) \ {1}
           h == [i \in R |-> f[i]]
           b == [p \in Things(g) |-> <<p[1] + 1, p[2]>>]
<1>1. 1 \in 1..(n + 1) /\ IsFiniteSet(1..(n + 1)) /\ IsFiniteSet(1..n)
  BY FS_Interval
<1>2. h \in [R -> Nat] /\ \A i \in R : h[i] = f[i]
  OBVIOUS
<1>3. IsPart(h, f, R)
  BY <1>2 DEF IsPart
<1>4. /\ \A i \in R : i - 1 \in 1..n /\ (i - 1) + 1 = i
      /\ \A i \in 1..n : i + 1 \in R
  OBVIOUS
<1>5. g \in [1..n -> Nat] /\ \A i \in 1..n : g[i] = f[i + 1]
  BY DEF IsRest
<1> HIDE DEF R, h
<1>6. Total(f) = f[1] + Total(h)
  BY <1>1, <1>3, TotalWith DEF R
<1>7. /\ \A p : p \in Things(g) <=> \E i \in 1..n : \E j \in 1..g[i] : p = <<i, j>>
      /\ \A p : p \in Things(h) <=> \E i \in R : \E j \in 1..h[i] : p = <<i, j>>
  <2> DEFINE N == 1..n
  <2>a. g \in [N -> Nat]
    BY <1>5
  <2> HIDE DEF N
  <2>b. \A p : p \in Things(g) <=> \E i \in N : \E j \in 1..g[i] : p = <<i, j>>
    BY <2>a, ThingsAre
  <2>1. \A p : p \in Things(g) <=> \E i \in 1..n : \E j \in 1..g[i] : p = <<i, j>>
    BY <2>b DEF N
  <2>2. \A p : p \in Things(h) <=> \E i \in R : \E j \in 1..h[i] : p = <<i, j>>
    BY <1>2, ThingsAre
  <2> QED BY <2>1, <2>2
<1>8. b \in Bijection(Things(g), Things(h))
  <2>1. ASSUME NEW p \in Things(g) PROVE b[p] \in Things(h)
    <3>1. PICK i \in 1..n : \E j \in 1..g[i] : p = <<i, j>>
      BY <1>7
    <3>2. PICK j \in 1..g[i] : p = <<i, j>>
      BY <3>1
    <3>3. b[p] = <<i + 1, j>> /\ i + 1 \in R /\ j \in 1..h[i + 1]
      BY <1>2, <1>4, <1>5, <3>2
    <3> QED BY <1>7, <3>3
  <2>2. b \in [Things(g) -> Things(h)]
    BY <2>1
  <2>3. ASSUME NEW p \in Things(g), NEW q \in Things(g), b[p] = b[q] PROVE p = q
    <3>1. PICK i \in 1..n, j \in Nat : p = <<i, j>>
      BY <1>7, <1>5
    <3>2. PICK k \in 1..n, l \in Nat : q = <<k, l>>
      BY <1>7, <1>5
    <3>3. b[p] = <<i + 1, j>> /\ b[q] = <<k + 1, l>>
      BY <3>1, <3>2
    <3>4. i + 1 = k + 1 /\ j = l
      BY <2>3, <3>3
    <3> QED BY <3>1, <3>2, <3>4
  <2>4. ASSUME NEW p \in Things(h) PROVE \E q \in Things(g) : b[q] = p
    <3>1. PICK i \in R : \E j \in 1..h[i] : p = <<i, j>>
      BY <1>7
    <3>2. PICK j \in 1..h[i] : p = <<i, j>>
      BY <3>1
    <3>3. i - 1 \in 1..n /\ j \in 1..g[i - 1]
      BY <1>2, <1>4, <1>5
    <3>4. <<i - 1, j>> \in Things(g)
      BY <1>7, <3>3
    <3>5. b[<<i - 1, j>>] = p
      BY <1>4, <3>2, <3>4
    <3> QED BY <3>4, <3>5
  <2> HIDE DEF b
  <2> QED BY <2>2, <2>3, <2>4 DEF Bijection, Injection, Surjection, IsInjective
<1>9. IsFiniteSet(Things(g)) /\ Total(g) \in Nat
  BY <1>1, <1>5, ThingsAreFinite
<1>10. ExistsBijection(Things(g), Things(h))
  BY <1>8 DEF ExistsBijection
<1>11. Cardinality(Things(h)) = Cardinality(Things(g))
  BY <1>9, <1>10, FS_Bijection
<1> QED BY <1>6, <1>9, <1>11 DEF Total

\* k is f without what the owners in A have.
IsTakenFrom(k, f, A) ==
  /\ A \subseteq DOMAIN f
  /\ \A x \in A : k[x] = 0
  /\ \A x \in DOMAIN f \ A : k[x] = f[x]

\* Some owners have nothing any more.
LEMMA TotalTaken ==
  ASSUME NEW S, IsFiniteSet(S), NEW f \in [S -> Nat], NEW k \in [S -> Nat],
         NEW A, IsTakenFrom(k, f, A),
         NEW g, IsPart(g, f, A)
  PROVE  /\ Total(k) = Total(f) - Total(g)
         /\ Total(f) \in Nat /\ Total(g) \in Nat
<1> DEFINE h == [x \in S \ A |-> f[x]]
           z == [x \in A |-> 0]
<1>0. /\ A \subseteq S
      /\ \A x \in A : k[x] = 0
      /\ \A x \in S \ A : k[x] = f[x]
  BY DEF IsTakenFrom
<1>1. IsPart(h, f, S \ A) /\ IsPart(h, k, S \ A) /\ IsPart(z, k, A)
  BY <1>0 DEF IsPart
<1>2. z \in [A -> Nat] /\ (\A x \in A : z[x] = 0) /\ h \in [S \ A -> Nat]
  BY <1>0
<1> HIDE DEF h, z
<1>3. Total(f) = Total(g) + Total(h)
  BY <1>0, <1>1, TotalOfParts
<1>4. Total(k) = Total(z) + Total(h)
  BY <1>0, <1>1, TotalOfParts
<1>5. Total(z) = 0
  BY <1>2, TotalNone
<1>6. IsFiniteSet(A) /\ IsFiniteSet(S \ A)
  BY <1>0, FS_Subset, FS_Difference
<1>7. Total(g) \in Nat /\ Total(h) \in Nat
  BY <1>2, <1>6, ThingsAreFinite DEF IsPart
<1> QED BY <1>3, <1>4, <1>5, <1>7
=============================================================================
