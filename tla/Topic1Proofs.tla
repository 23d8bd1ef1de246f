---------------------------- MODULE Topic1Proofs ----------------------------
(***************************************************************************)
(* Theorems about Topic1Graph, for any knowledge points, documents,        *)
(* sections, importable bundles and number of versions.  The loop of the   *)
(* analysis is followed turn by turn, for its levels and for the cycles it *)
(* finds; weights and difficulties are used as functions of the nodes, the *)
(* edges and the documents only, whatever they compute.                    *)
(***************************************************************************)
EXTENDS Topic1Graph, SequenceTheorems, FiniteSetTheorems, WellFoundedInduction, TLAPS

-----------------------------------------------------------------------------
\* The analysis of the graph

\* Max of two numbers is one of them and bounds both.
LEMMA MaxOfTwo ==
  ASSUME NEW a \in Nat, NEW b \in Nat
  PROVE  /\ Max({a, b}) \in {a, b} /\ Max({a, b}) \in Nat
         /\ Max({a, b}) >= a /\ Max({a, b}) >= b
<1>1. \E x \in {a, b} : \A y \in {a, b} : x >= y
  OBVIOUS
<1>2. Max({a, b}) \in {a, b} /\ \A y \in {a, b} : Max({a, b}) >= y
  BY <1>1 DEF Max
<1>3. QED
  BY <1>2

\* Kahn's loop before its first turn, and one turn of it.
Start(nodes) == [order |-> {}, level |-> [n \in nodes |-> 0]]

Turn(nodes, edges, before) ==
  LET ready == Ready(nodes, edges, before.order)
  IN IF ready = {} THEN before
     ELSE Consumed(edges, before, CHOOSE n \in ready : TRUE)

\* A set of numbers has a least one: how the proofs below argue on the turns of
\* the loop, on the length of a walk and on levels.
LEMMA LeastOf ==
  ASSUME NEW T \in SUBSET Nat, T # {}
  PROVE  \E n \in T : \A m \in T : n <= m
<1>1. PICK n \in T : \A m \in T : <<m, n>> \notin OpToRel(<, Nat)
  BY WFMin, NatLessThanWellFounded, Zenon
<1>2. \A m \in T : ~(m < n)
  BY <1>1, Zenon DEF OpToRel
<1> QED
  BY <1>2

\* The states of the loop up to turn k.
RunOf(nodes, edges, k, run) ==
  run = [i \in 0..k |-> IF i = 0 THEN Start(nodes) ELSE Turn(nodes, edges, run[i - 1])]

\* There is such a function, so the recursive one of Consume is one.
LEMMA RunExists ==
  ASSUME NEW nodes, NEW edges, NEW k \in Nat
  PROVE  \E run : RunOf(nodes, edges, k, run)
<1> DEFINE T == {j \in Nat : ~\E run : RunOf(nodes, edges, j, run)}
<1>1. SUFFICES T = {}
  OBVIOUS
<1>2. SUFFICES ASSUME T # {} PROVE FALSE
  OBVIOUS
<1>3. PICK j \in T : \A m \in T : j <= m
  <2> HIDE DEF T
  <2>1. T \in SUBSET Nat BY DEF T
  <2> QED BY <1>2, <2>1, LeastOf
<1>4. CASE j = 0
  <2> DEFINE run == [i \in 0..0 |-> Start(nodes)]
  <2>1. RunOf(nodes, edges, 0, run)
    BY DEF RunOf
  <2> QED BY <1>4, <2>1
<1>5. CASE j # 0
  <2>1. j - 1 \in Nat /\ j - 1 \notin T
    BY <1>3, <1>5
  <2>2. PICK run : RunOf(nodes, edges, j - 1, run)
    BY <2>1
  <2> DEFINE longer == [i \in 0..j |-> IF i = j THEN Turn(nodes, edges, run[j - 1]) ELSE run[i]]
             next == [i \in 0..j |-> IF i = 0 THEN Start(nodes) ELSE Turn(nodes, edges, longer[i - 1])]
  <2>3. ASSUME NEW i \in 0..j PROVE longer[i] = next[i]
    <3>1. CASE i = 0
      BY <1>5, <2>2, <3>1 DEF RunOf
    <3>2. CASE i # 0 /\ i # j
      <4>1. i \in 0..(j - 1) /\ i - 1 \in 0..j /\ i - 1 # j
        BY <3>2, <2>1
      <4>2. run[i] = Turn(nodes, edges, run[i - 1])
        BY <4>1, <3>2, <2>2 DEF RunOf
      <4>3. longer[i] = run[i] /\ longer[i - 1] = run[i - 1]
        BY <4>1, <3>2
      <4> QED BY <4>2, <4>3, <3>2
    <3>3. CASE i # 0 /\ i = j
      <4>1. i - 1 \in 0..j /\ i - 1 # j
        BY <3>3, <2>1
      <4> QED BY <4>1, <3>3
    <3> QED BY <3>1, <3>2, <3>3
  <2>4. longer = next
    BY <2>3
  <2>5. RunOf(nodes, edges, j, longer)
    <3> HIDE DEF longer
    <3> QED BY <2>4 DEF RunOf
  <2> QED BY <2>5
<1> QED BY <1>4, <1>5

\* What the loop leaves is the last of its states.
LEMMA ConsumeRuns ==
  ASSUME NEW nodes, IsFiniteSet(nodes), NEW edges
  PROVE  \E run : /\ RunOf(nodes, edges, Cardinality(nodes), run)
                  /\ Consume(nodes, edges) = run[Cardinality(nodes)]
<1> DEFINE k == Cardinality(nodes)
<1>1. k \in Nat
  BY FS_CardinalityType
<1>2. PICK run : run = CHOOSE r : RunOf(nodes, edges, k, r)
  OBVIOUS
<1>3. RunOf(nodes, edges, k, run)
  <2> HIDE DEF k
  <2>1. \E r : RunOf(nodes, edges, k, r)
    BY <1>1, RunExists
  <2> QED BY <1>2, <2>1, Zenon
<1>4. Consume(nodes, edges) = run[k]
  BY <1>2, Zenon DEF Consume, RunOf, Turn, Start
<1> QED BY <1>3, <1>4

\* What Kahn's loop has done when it stands at state s: the order is closed under
\* prerequisites, what is ordered lies below what depends on it, and a level
\* above 0 is one more than that of an ordered prerequisite.
Levelled(nodes, edges, s) ==
  /\ s.order \subseteq nodes
  /\ s.level \in [nodes -> Nat]
  /\ \A p, m \in nodes : <<p, m>> \in edges /\ m \in s.order => p \in s.order
  /\ \A p \in s.order, m \in nodes : <<p, m>> \in edges => s.level[m] > s.level[p]
  /\ \A m \in nodes : s.level[m] > 0 =>
       \E p \in s.order : <<p, m>> \in edges /\ s.level[m] = s.level[p] + 1

\* A turn keeps it: what a node pushes up is not ordered yet.
LEMMA TurnLevels ==
  ASSUME NEW nodes, NEW edges, NEW s, Levelled(nodes, edges, s)
  PROVE  Levelled(nodes, edges, Turn(nodes, edges, s))
<1> DEFINE ready == Ready(nodes, edges, s.order)
           n == CHOOSE x \in ready : TRUE
           t == Consumed(edges, s, n)
<1>1. CASE ready = {}
  BY <1>1 DEF Turn
<1>2. CASE ready # {}
  <2>1. n \in ready
    BY <1>2
  <2>2. n \in nodes /\ n \notin s.order /\ \A p \in nodes : <<p, n>> \in edges => p \in s.order
    BY <2>1 DEF Ready
  <2>3. Turn(nodes, edges, s) = t
    BY <1>2 DEF Turn
  <2> HIDE DEF n
  <2>4. s.level \in [nodes -> Nat]
    BY DEF Levelled
  <2>5. /\ t.order = s.order \union {n}
        /\ t.level = [m \in nodes |-> IF <<n, m>> \in edges
                                        THEN Max({s.level[m], s.level[n] + 1})
                                        ELSE s.level[m]]
    BY <2>4 DEF Consumed
  <2> HIDE DEF t, ready
  <2>6. \A m \in nodes : /\ t.level[m] \in Nat /\ t.level[m] >= s.level[m]
                         /\ <<n, m>> \in edges => t.level[m] >= s.level[n] + 1
                         /\ \/ t.level[m] = s.level[m]
                            \/ <<n, m>> \in edges /\ t.level[m] = s.level[n] + 1
    <3> TAKE m \in nodes
    <3>1. s.level[m] \in Nat /\ s.level[n] \in Nat
      BY <2>2, <2>4
    <3>2. t.level[m] = IF <<n, m>> \in edges THEN Max({s.level[m], s.level[n] + 1})
                       ELSE s.level[m]
      BY <2>5
    <3>3. /\ Max({s.level[m], s.level[n] + 1}) \in {s.level[m], s.level[n] + 1}
          /\ Max({s.level[m], s.level[n] + 1}) >= s.level[m]
          /\ Max({s.level[m], s.level[n] + 1}) >= s.level[n] + 1
      BY <3>1, MaxOfTwo
    <3> QED BY <3>1, <3>2, <3>3
  <2>7. \A p \in t.order : p \in nodes /\ t.level[p] = s.level[p]
    <3> TAKE p \in t.order
    <3>1. p \in nodes /\ <<n, p>> \notin edges
      BY <2>2, <2>5 DEF Levelled
    <3> QED BY <3>1, <2>5
  <2>8. \A p, m \in nodes : <<p, m>> \in edges /\ m \in t.order => p \in t.order
    BY <2>2, <2>5 DEF Levelled
  <2>9. \A p \in t.order, m \in nodes : <<p, m>> \in edges => t.level[m] > t.level[p]
    <3> TAKE p \in t.order, m \in nodes
    <3> HAVE <<p, m>> \in edges
    <3>1. p \in nodes /\ t.level[p] = s.level[p] /\ s.level[p] \in Nat /\ s.level[m] \in Nat
      BY <2>4, <2>7
    <3>2. CASE p = n
      <4>1. t.level[m] >= s.level[n] + 1 /\ t.level[m] \in Nat
        BY <2>6, <3>2
      <4> QED BY <4>1, <3>1, <3>2
    <3>3. CASE p \in s.order
      <4>1. s.level[m] > s.level[p]
        BY <3>3 DEF Levelled
      <4>2. t.level[m] >= s.level[m] /\ t.level[m] \in Nat
        BY <2>6
      <4> QED BY <4>1, <4>2, <3>1
    <3> QED BY <3>2, <3>3, <2>5
  <2>10. \A m \in nodes : t.level[m] > 0 =>
           \E p \in t.order : <<p, m>> \in edges /\ t.level[m] = t.level[p] + 1
    <3> TAKE m \in nodes
    <3> HAVE t.level[m] > 0
    <3>1. CASE t.level[m] = s.level[m]
      <4>1. PICK p \in s.order : <<p, m>> \in edges /\ s.level[m] = s.level[p] + 1
        BY <3>1 DEF Levelled
      <4> QED BY <3>1, <4>1, <2>5, <2>7
    <3>2. CASE <<n, m>> \in edges /\ t.level[m] = s.level[n] + 1
      BY <3>2, <2>5, <2>7
    <3> QED BY <3>1, <3>2, <2>6
  <2>11. t.order \subseteq nodes /\ t.level \in [nodes -> Nat]
    BY <2>5, <2>6, <2>7
  <2>12. Levelled(nodes, edges, t)
    BY <2>8, <2>9, <2>10, <2>11 DEF Levelled
  <2> QED BY <2>3, <2>12
<1> QED BY <1>1, <1>2

\* So it stands at the end.
LEMMA ConsumeLevels ==
  ASSUME NEW nodes, IsFiniteSet(nodes), NEW edges
  PROVE  Levelled(nodes, edges, Consume(nodes, edges))
<1>1. PICK k \in Nat : k = Cardinality(nodes)
  BY FS_CardinalityType
<1>2. PICK run : RunOf(nodes, edges, k, run) /\ Consume(nodes, edges) = run[k]
  BY <1>1, ConsumeRuns
<1> DEFINE T == {i \in 0..k : ~Levelled(nodes, edges, run[i])}
<1>3. ASSUME T # {} PROVE FALSE
  <2>1. PICK i \in T : \A j \in T : i <= j
    <3>1. T \in SUBSET Nat
      OBVIOUS
    <3> HIDE DEF T
    <3> QED BY <1>3, <3>1, LeastOf
  <2>2. CASE i = 0
    <3>1. run[0] = Start(nodes)
      BY <1>2 DEF RunOf
    <3>2. Levelled(nodes, edges, Start(nodes))
      BY DEF Levelled, Start
    <3> QED BY <2>1, <2>2, <3>1, <3>2
  <2>3. CASE i # 0
    <3>1. i - 1 \in 0..k /\ i - 1 \notin T
      BY <2>1, <2>3
    <3>2. Levelled(nodes, edges, run[i - 1])
      BY <3>1
    <3>3. run[i] = Turn(nodes, edges, run[i - 1])
      BY <1>2, <2>1, <2>3 DEF RunOf
    <3> QED BY <2>1, <3>2, <3>3, TurnLevels
  <2> QED BY <2>2, <2>3
<1>4. Levelled(nodes, edges, run[k])
  BY <1>3
<1> QED BY <1>2, <1>4

\* A level for every node that rises along the edges, by one along some edge
\* into each node above level 0.
Graded(nodes, edges, level) ==
  /\ level \in [nodes -> Nat]
  /\ \A p, m \in nodes : <<p, m>> \in edges => level[m] > level[p]
  /\ \A m \in nodes : level[m] > 0 =>
       \E p \in nodes : <<p, m>> \in edges /\ level[m] = level[p] + 1

\* Without a cycle the loop grades the graph.
LEMMA LevelsGrade ==
  ASSUME NEW nodes, IsFiniteSet(nodes), NEW edges, ~HasCycle(nodes, edges)
  PROVE  Graded(nodes, edges, Levels(nodes, edges))
<1>1. PICK s : s = Consume(nodes, edges)
  OBVIOUS
<1>2. Levelled(nodes, edges, s) /\ s.order = nodes /\ Levels(nodes, edges) = s.level
  BY <1>1, ConsumeLevels DEF HasCycle, Levels
<1> QED BY <1>2 DEF Levelled, Graded

\* No walk into a node is longer than its level.
LEMMA WalksWithin ==
  ASSUME NEW nodes, NEW edges, NEW level, Graded(nodes, edges, level),
         NEW k \in Nat, NEW n \in nodes, Walk(nodes, edges, k, n)
  PROVE  k <= level[n]
<1>1. PICK s \in [0..k -> nodes] :
        s[k] = n /\ \A i \in 0..(k - 1) : <<s[i], s[i + 1]>> \in edges
  BY DEF Walk
<1> DEFINE T == {i \in 0..k : ~(i <= level[s[i]])}
<1>2. ASSUME T # {} PROVE FALSE
  <2>1. PICK i \in T : \A j \in T : i <= j
    <3>1. T \in SUBSET Nat
      OBVIOUS
    <3> HIDE DEF T
    <3> QED BY <1>2, <3>1, LeastOf
  <2>2. s[i] \in nodes /\ level[s[i]] \in Nat
    BY <1>1, <2>1 DEF Graded
  <2>3. i # 0
    BY <2>1, <2>2
  <2>4. i - 1 \in 0..k /\ i - 1 \in 0..(k - 1) /\ (i - 1) + 1 = i /\ i - 1 \notin T
    BY <2>1, <2>3
  <2>5. i - 1 <= level[s[i - 1]]
    BY <2>4
  <2>6. s[i - 1] \in nodes /\ <<s[i - 1], s[i]>> \in edges
    BY <1>1, <2>4
  <2>7. level[s[i]] > level[s[i - 1]] /\ level[s[i - 1]] \in Nat
    BY <2>2, <2>6 DEF Graded
  <2>8. i <= level[s[i]]
    BY <2>1, <2>2, <2>5, <2>7
  <2> QED BY <2>1, <2>8
<1>3. k <= level[s[k]]
  BY <1>2
<1> QED BY <1>1, <1>3

\* A walk of k edges into p goes on along an edge to m.
LEMMA WalkOn ==
  ASSUME NEW nodes, NEW edges, NEW k \in Nat, k - 1 \in Nat, NEW p \in nodes, NEW m \in nodes,
         <<p, m>> \in edges, Walk(nodes, edges, k - 1, p)
  PROVE  Walk(nodes, edges, k, m)
<1>1. PICK s \in [0..(k - 1) -> nodes] :
        s[k - 1] = p /\ \A i \in 0..(k - 1 - 1) : <<s[i], s[i + 1]>> \in edges
  BY DEF Walk
<1> DEFINE t == [i \in 0..k |-> IF i = k THEN m ELSE s[i]]
<1>2. \A i \in 0..(k - 1) : i \in 0..k /\ i # k /\ t[i] = s[i] /\ s[i] \in nodes
  BY <1>1
<1>3. t \in [0..k -> nodes] /\ t[k] = m
  BY <1>2
<1> HIDE DEF t
<1>4. \A i \in 0..(k - 1) : <<t[i], t[i + 1]>> \in edges
  <2> TAKE i \in 0..(k - 1)
  <2>1. CASE i = k - 1
    <3>1. i + 1 = k /\ t[i] = p
      BY <1>1, <1>2, <2>1
    <3> QED BY <3>1, <1>3
  <2>2. CASE i # k - 1
    <3>1. i \in 0..(k - 1 - 1) /\ i + 1 \in 0..(k - 1)
      BY <2>2
    <3> QED BY <3>1, <1>1, <1>2
  <2> QED BY <2>1, <2>2
<1> QED BY <1>3, <1>4 DEF Walk

\* And one is as long, through one node of each level below.
LEMMA WalkOfLevel ==
  ASSUME NEW nodes, NEW edges, NEW level, Graded(nodes, edges, level), NEW n \in nodes
  PROVE  \E s \in [0..level[n] -> nodes] :
           /\ s[level[n]] = n
           /\ \A i \in 0..(level[n] - 1) : <<s[i], s[i + 1]>> \in edges
           /\ \A i \in 0..level[n] : level[s[i]] = i
<1> DEFINE Climb(k, m) ==
      \E s \in [0..k -> nodes] :
        /\ s[k] = m
        /\ \A i \in 0..(k - 1) : <<s[i], s[i + 1]>> \in edges
        /\ \A i \in 0..k : level[s[i]] = i
    T == {k \in Nat : \E m \in nodes : level[m] = k /\ ~Climb(k, m)}
<1>1. ASSUME T # {} PROVE FALSE
  <2>1. PICK k \in T : \A j \in T : k <= j
    <3>1. T \in SUBSET Nat
      OBVIOUS
    <3> HIDE DEF T
    <3> QED BY <1>1, <3>1, LeastOf
  <2>2. PICK m \in nodes : level[m] = k /\ ~Climb(k, m)
    BY <2>1
  <2>3. CASE k = 0
    <3> DEFINE s == [i \in 0..0 |-> m]
    <3>1. s \in [0..0 -> nodes] /\ s[0] = m /\ \A i \in 0..0 : level[s[i]] = i
      BY <2>2, <2>3
    <3> HIDE DEF s
    <3>2. Climb(0, m)
      BY <3>1
    <3> QED BY <2>2, <2>3, <3>2
  <2>4. CASE k # 0
    <3>1. k \in Nat /\ k > 0 /\ k - 1 \in Nat /\ k - 1 \notin T
      BY <2>1, <2>4
    <3>2. PICK p \in nodes : <<p, m>> \in edges /\ k = level[p] + 1
      <4>1. level[m] > 0
        BY <2>2, <3>1
      <4> QED BY <2>2, <4>1 DEF Graded
    <3>3. level[p] = k - 1
      BY <3>1, <3>2 DEF Graded
    <3>4. Climb(k - 1, p)
      BY <3>1, <3>3
    <3>5. PICK s \in [0..(k - 1) -> nodes] :
            /\ s[k - 1] = p
            /\ \A i \in 0..(k - 1 - 1) : <<s[i], s[i + 1]>> \in edges
            /\ \A i \in 0..(k - 1) : level[s[i]] = i
      BY <3>4
    <3> DEFINE t == [i \in 0..k |-> IF i = k THEN m ELSE s[i]]
    <3>6. \A i \in 0..(k - 1) : i \in 0..k /\ i # k /\ t[i] = s[i] /\ s[i] \in nodes
      BY <3>1, <3>5
    <3>7. k \in 0..k /\ t[k] = m
      BY <3>1
    <3>8. \A i \in 0..k : i = k \/ i \in 0..(k - 1)
      BY <3>1
    <3>9. t \in [0..k -> nodes]
      BY <3>6, <3>8
    <3> HIDE DEF t
    <3>10. \A i \in 0..k : level[t[i]] = i
      BY <2>2, <3>5, <3>6, <3>7, <3>8
    <3>11. \A i \in 0..(k - 1) : <<t[i], t[i + 1]>> \in edges
      <4> TAKE i \in 0..(k - 1)
      <4>1. CASE i = k - 1
        <5>1. i + 1 = k
          BY <3>1, <4>1
        <5>2. t[i] = p
          BY <3>5, <3>6, <4>1
        <5> QED BY <5>1, <5>2, <3>2, <3>7
      <4>2. CASE i # k - 1
        <5>1. i \in 0..(k - 1 - 1) /\ i + 1 \in 0..(k - 1)
          BY <3>1, <4>2
        <5> QED BY <5>1, <3>5, <3>6
      <4> QED BY <4>1, <4>2
    <3>12. Climb(k, m)
      BY <3>7, <3>9, <3>10, <3>11
    <3> QED BY <2>2, <3>12
  <2> QED BY <2>3, <2>4
<1>2. level[n] \in Nat
  BY DEF Graded
<1>3. Climb(level[n], n)
  BY <1>1, <1>2
<1> QED BY <1>3

\* That walk repeats no node, so a level is below the number of nodes.
LEMMA LevelBounded ==
  ASSUME NEW nodes, IsFiniteSet(nodes), NEW edges, NEW level,
         Graded(nodes, edges, level), NEW n \in nodes
  PROVE  level[n] < Cardinality(nodes)
<1>1. PICK k \in Nat : k = level[n]
  BY DEF Graded
<1>2. PICK s \in [0..k -> nodes] : \A i \in 0..k : level[s[i]] = i
  BY <1>1, WalkOfLevel
<1>3. s \in Injection(0..k, nodes)
  BY <1>2 DEF Injection, IsInjective
<1>4. IsFiniteSet(0..k) /\ Cardinality(0..k) = k + 1
  <2>1. k \in Int /\ 0 \in Int /\ 0 <= k
    OBVIOUS
  <2>2. /\ IsFiniteSet(0..k)
        /\ Cardinality(0..k) = IF 0 > k THEN 0 ELSE k - 0 + 1
    BY <2>1, FS_Interval
  <2> QED BY <2>2
<1>5. Cardinality(0..k) <= Cardinality(nodes)
  BY <1>3, <1>4, FS_Injection, Zenon
<1>6. Cardinality(nodes) \in Nat
  BY FS_CardinalityType
<1> QED BY <1>1, <1>4, <1>5, <1>6

\* Kahn's levels are the lengths of the longest walks, and there is no cycle:
\* the two definitions the algorithm is compared with.
LEMMA LevelsAreLongest ==
  ASSUME NEW nodes, IsFiniteSet(nodes), NEW edges, ~HasCycle(nodes, edges)
  PROVE  /\ Acyclic(nodes, edges)
         /\ \A n \in nodes : Levels(nodes, edges)[n] = LongestPath(nodes, edges, n)
<1>1. PICK level : level = Levels(nodes, edges)
  OBVIOUS
<1>2. Graded(nodes, edges, level)
  BY <1>1, LevelsGrade
<1>3. PICK size \in Nat : size = Cardinality(nodes)
  BY FS_CardinalityType
<1>4. \A n \in nodes : level[n] \in Nat /\ level[n] < size
  BY <1>2, <1>3, LevelBounded DEF Graded
<1>5. Acyclic(nodes, edges)
  <2> SUFFICES ASSUME NEW n \in nodes, Walk(nodes, edges, size, n) PROVE FALSE
    BY <1>3 DEF Acyclic
  <2>1. size <= level[n]
    BY <1>2, WalksWithin
  <2> QED BY <1>4, <2>1
<1>6. \A n \in nodes : level[n] = LongestPath(nodes, edges, n)
  <2> TAKE n \in nodes
  <2> DEFINE S == {k \in 0..(size - 1) : Walk(nodes, edges, k, n)}
  <2>1. \A k \in S : k \in Nat /\ k <= level[n]
    <3> TAKE k \in S
    <3>1. k \in Nat /\ Walk(nodes, edges, k, n)
      OBVIOUS
    <3> QED BY <3>1, <1>2, WalksWithin
  <2>2. Walk(nodes, edges, level[n], n)
    BY <1>2, WalkOfLevel DEF Walk
  <2>3. level[n] \in S
    BY <1>4, <2>2
  <2>4. LongestPath(nodes, edges, n) = Max(S)
    BY <1>3 DEF LongestPath
  <2> HIDE DEF S
  <2>5. Max(S) \in S /\ \A k \in S : Max(S) >= k
    <3>1. \E x \in S : \A y \in S : x >= y
      BY <2>1, <2>3, <1>4
    <3> QED BY <3>1 DEF Max
  <2>6. Max(S) = level[n]
    BY <1>4, <2>1, <2>3, <2>5
  <2> QED BY <2>4, <2>6
<1> QED BY <1>1, <1>5, <1>6

\* A turn of the loop that finds nothing ready was preceded by as many nodes as turns.
LEMMA TurnCounts ==
  ASSUME NEW nodes, IsFiniteSet(nodes), NEW edges, NEW s, Levelled(nodes, edges, s),
         NEW i \in Nat, Ready(nodes, edges, s.order) = {} \/ Cardinality(s.order) = i
  PROVE  LET t == Turn(nodes, edges, s)
         IN Ready(nodes, edges, t.order) = {} \/ Cardinality(t.order) = i + 1
<1> DEFINE ready == Ready(nodes, edges, s.order)
           n == CHOOSE x \in ready : TRUE
<1>1. CASE ready = {}
  BY <1>1 DEF Turn
<1>2. CASE ready # {}
  <2>1. n \in ready
    BY <1>2
  <2>2. n \notin s.order
    BY <2>1 DEF Ready
  <2>3. Turn(nodes, edges, s).order = s.order \union {n}
    BY <1>2 DEF Turn, Consumed
  <2>4. s.order \subseteq nodes /\ IsFiniteSet(s.order)
    <3>1. s.order \subseteq nodes
      BY DEF Levelled
    <3> QED BY <3>1, FS_Subset
  <2> HIDE DEF n
  <2>5. Cardinality(s.order \union {n}) = Cardinality(s.order) + 1
    BY <2>2, <2>4, FS_AddElement
  <2> QED BY <1>2, <2>3, <2>5
<1> QED BY <1>1, <1>2

\* The loop stops only when nothing is ready, or everything is ordered.
LEMMA ConsumeExhausts ==
  ASSUME NEW nodes, IsFiniteSet(nodes), NEW edges
  PROVE  \/ Ready(nodes, edges, Consume(nodes, edges).order) = {}
         \/ Consume(nodes, edges).order = nodes
<1>1. PICK k \in Nat : k = Cardinality(nodes)
  BY FS_CardinalityType
<1>2. PICK run : RunOf(nodes, edges, k, run) /\ Consume(nodes, edges) = run[k]
  BY <1>1, ConsumeRuns
<1> DEFINE Fine(i) == /\ Levelled(nodes, edges, run[i])
                      /\ \/ Ready(nodes, edges, run[i].order) = {}
                         \/ Cardinality(run[i].order) = i
           T == {i \in 0..k : ~Fine(i)}
<1>3. ASSUME T # {} PROVE FALSE
  <2>1. PICK i \in T : \A j \in T : i <= j
    <3>1. T \in SUBSET Nat
      OBVIOUS
    <3> HIDE DEF T
    <3> QED BY <1>3, <3>1, LeastOf
  <2>2. CASE i = 0
    <3>1. run[0] = Start(nodes)
      BY <1>2 DEF RunOf
    <3>2. Levelled(nodes, edges, Start(nodes)) /\ Start(nodes).order = {}
      BY DEF Levelled, Start
    <3>3. Fine(0)
      BY <3>1, <3>2, FS_EmptySet
    <3> QED BY <2>1, <2>2, <3>3
  <2>3. CASE i # 0
    <3>1. i - 1 \in 0..k /\ i - 1 \notin T /\ i - 1 \in Nat /\ (i - 1) + 1 = i
      BY <2>1, <2>3
    <3>2. Fine(i - 1)
      BY <3>1
    <3>3. run[i] = Turn(nodes, edges, run[i - 1])
      BY <1>2, <2>1, <2>3 DEF RunOf
    <3>4. PICK s : s = run[i - 1]
      OBVIOUS
    <3>5. Levelled(nodes, edges, run[i])
      BY <3>2, <3>3, TurnLevels
    <3>6. Ready(nodes, edges, run[i].order) = {} \/ Cardinality(run[i].order) = (i - 1) + 1
      BY <3>1, <3>2, <3>3, TurnCounts
    <3> QED BY <2>1, <3>1, <3>5, <3>6
  <2> QED BY <2>2, <2>3
<1>4. PICK s : s = Consume(nodes, edges)
  OBVIOUS
<1>5. /\ s.order \subseteq nodes
      /\ Ready(nodes, edges, s.order) = {} \/ Cardinality(s.order) = k
  <2>1. k \in 0..k /\ k \notin T
    BY <1>3
  <2>2. Fine(k)
    BY <2>1
  <2> QED BY <2>2, <1>2, <1>4 DEF Levelled
<1>6. Cardinality(s.order) = Cardinality(nodes) => s.order = nodes
  BY <1>5, FS_Subset
<1> QED BY <1>1, <1>4, <1>5, <1>6

\* A mutation is refused with TopologyCycleError exactly when its graph has a
\* cycle: nodes the loop leaves over always lie on one or behind one.
THEOREM CyclesAreRefused ==
  ASSUME NEW nodes, IsFiniteSet(nodes), NEW edges, edges \subseteq nodes \X nodes
  PROVE  HasCycle(nodes, edges) <=> ~Acyclic(nodes, edges)
<1>1. ASSUME ~HasCycle(nodes, edges) PROVE Acyclic(nodes, edges)
  BY <1>1, LevelsAreLongest
<1>2. ASSUME HasCycle(nodes, edges) PROVE ~Acyclic(nodes, edges)
  <2>1. PICK order : order = Consume(nodes, edges).order
    OBVIOUS
  <2> DEFINE rest == nodes \ order
  <2>2. order # nodes /\ order \subseteq nodes /\ Ready(nodes, edges, order) = {}
    BY <1>2, <2>1, ConsumeExhausts, ConsumeLevels DEF HasCycle, Levelled
  <2>3. \A n \in rest : \E p \in rest : <<p, n>> \in edges
    <3> TAKE n \in rest
    <3>1. PICK e \in edges : e[2] = n /\ e[1] \notin order
      BY <2>2 DEF Ready
    <3>2. e = <<e[1], e[2]>> /\ e[1] \in nodes
      BY <3>1
    <3> QED BY <3>1, <3>2
  <2> DEFINE T == {k \in Nat : \E n \in rest : ~Walk(nodes, edges, k, n)}
  <2>4. ASSUME T # {} PROVE FALSE
    <3>1. PICK k \in T : \A j \in T : k <= j
      <4>1. T \in SUBSET Nat
        OBVIOUS
      <4> HIDE DEF T
      <4> QED BY <2>4, <4>1, LeastOf
    <3>2. PICK n \in rest : ~Walk(nodes, edges, k, n)
      BY <3>1
    <3>3. CASE k = 0
      <4> DEFINE s == [i \in 0..0 |-> n]
      <4>1. s \in [0..0 -> nodes] /\ s[0] = n
        BY <3>2
      <4> HIDE DEF s
      <4>2. Walk(nodes, edges, 0, n)
        BY <4>1 DEF Walk
      <4> QED BY <3>2, <3>3, <4>2
    <3>4. CASE k # 0
      <4>1. k \in Nat /\ k - 1 \in Nat /\ k - 1 \notin T
        BY <3>1, <3>4
      <4>2. PICK p \in rest : <<p, n>> \in edges
        BY <2>3, <3>2
      <4>3. Walk(nodes, edges, k - 1, p)
        BY <4>1, <4>2
      <4>4. Walk(nodes, edges, k, n)
        BY <4>1, <4>2, <4>3, <3>2, WalkOn
      <4> QED BY <3>2, <4>4
    <3> QED BY <3>3, <3>4
  <2>5. PICK n \in rest : TRUE
    BY <2>2
  <2>6. Walk(nodes, edges, Cardinality(nodes), n)
    BY <2>4, FS_CardinalityType
  <2> QED BY <2>6 DEF Acyclic
<1> QED BY <1>1, <1>2

-----------------------------------------------------------------------------
\* Normalisation

\* A rolled forward revision is past the old one.
LEMMA AdvancedRises ==
  ASSUME NEW revision \in Nat, NEW version \in Nat
  PROVE  Advanced(revision, version) \in Nat /\ Advanced(revision, version) > revision
BY MaxOfTwo DEF Advanced

\* Another revision replaces nothing else.
LEMMA Revised ==
  ASSUME NEW x, NEW r, PointRecord(x)
  PROVE  [x EXCEPT !.revision = r]
           = [revision |-> r, doc |-> x.doc, difficulty |-> x.difficulty,
              level |-> x.level, weight |-> x.weight]
BY DEF PointRecord

\* The ends of the edges decide what an analysis sees of them.
LEMMA TiedAlike ==
  ASSUME NEW e, NEW f, DOMAIN e = DOMAIN f, \A i \in DOMAIN e : e[i].tie = f[i].tie
  PROVE  /\ Links(e) = Links(f)
         /\ \A p : Incoming(e, p) = Incoming(f, p)
BY DEF Links, Incoming

\* The analysis keeps the revision and the document of every point, and computes
\* the rest from the nodes, the links and the documents.
LEMMA RatedPoint ==
  ASSUME NEW c, Shaped(c), NEW nodes, nodes = DOMAIN c.points,
         NEW edges, edges = Links(c.edges), NEW p \in nodes
  PROVE  Rated(c)[p] =
           [revision |-> c.points[p].revision, doc |-> c.points[p].doc,
            difficulty |-> Difficulty(Base[c.points[p].doc],
                                      Cardinality(Incoming(c.edges, p))),
            level |-> Levels(nodes, edges)[p],
            weight |-> Weights(nodes, edges)[p]]
<1> DEFINE x == c.points[p]
           dif == Difficulty(Base[x.doc], Cardinality(Incoming(c.edges, p)))
           lev == Levels(nodes, edges)[p]
           wei == Weights(nodes, edges)[p]
<1>1. PointRecord(x)
  BY DEF Shaped, ShapedPoint
<1>2. Rated(c)[p] = [x EXCEPT !.difficulty = dif, !.level = lev, !.weight = wei]
  BY Zenon DEF Rated
<1> HIDE DEF x, dif, lev, wei
<1>3. [x EXCEPT !.difficulty = dif, !.level = lev, !.weight = wei]
        = [revision |-> x.revision, doc |-> x.doc, difficulty |-> dif,
           level |-> lev, weight |-> wei]
  <2>1. PICK y : y = [x EXCEPT !.difficulty = dif]
    OBVIOUS
  <2>2. y = [revision |-> x.revision, doc |-> x.doc, difficulty |-> dif,
             level |-> x.level, weight |-> x.weight]
    BY <1>1, <2>1 DEF PointRecord
  <2>3. PICK z : z = [y EXCEPT !.level = lev]
    OBVIOUS
  <2>4. z = [revision |-> x.revision, doc |-> x.doc, difficulty |-> dif,
             level |-> lev, weight |-> x.weight]
    BY <2>2, <2>3
  <2>5. [z EXCEPT !.weight = wei]
          = [revision |-> x.revision, doc |-> x.doc, difficulty |-> dif,
             level |-> lev, weight |-> wei]
    BY <2>4
  <2>6. QED
    BY <2>1, <2>3, <2>5, Zenon
<1>4. Rated(c)[p] = [revision |-> x.revision, doc |-> x.doc, difficulty |-> dif,
                     level |-> lev, weight |-> wei]
  BY <1>2, <1>3
<1>5. QED
  BY <1>4 DEF x, dif, lev, wei

\* A rated point is a record of its fields.
LEMMA RatedShape ==
  ASSUME NEW c, Shaped(c), NEW p \in DOMAIN c.points
  PROVE  LET x == Rated(c)[p] IN
         /\ PointRecord(x)
         /\ x.revision = c.points[p].revision
         /\ x.doc = c.points[p].doc
<1>1. PICK nodes : nodes = DOMAIN c.points
  OBVIOUS
<1>2. PICK edges : edges = Links(c.edges)
  OBVIOUS
<1>3. Rated(c)[p] =
        [revision |-> c.points[p].revision, doc |-> c.points[p].doc,
         difficulty |-> Difficulty(Base[c.points[p].doc],
                                   Cardinality(Incoming(c.edges, p))),
         level |-> Levels(nodes, edges)[p],
         weight |-> Weights(nodes, edges)[p]]
  BY <1>1, <1>2, RatedPoint
<1>4. QED
  BY <1>3 DEF PointRecord

\* Contents with the same nodes, edges and documents are rated alike.
LEMMA RatedAlike ==
  ASSUME NEW c, NEW d, Shaped(c), Shaped(d),
         DOMAIN c.points = DOMAIN d.points, DOMAIN c.edges = DOMAIN d.edges,
         \A i \in DOMAIN c.edges : c.edges[i].tie = d.edges[i].tie,
         NEW p \in DOMAIN c.points, c.points[p].doc = d.points[p].doc
  PROVE  /\ Rated(c)[p].difficulty = Rated(d)[p].difficulty
         /\ Rated(c)[p].level = Rated(d)[p].level
         /\ Rated(c)[p].weight = Rated(d)[p].weight
<1>1. PICK nodes : nodes = DOMAIN c.points
  OBVIOUS
<1>2. PICK edges, k : /\ edges = Links(c.edges) /\ edges = Links(d.edges)
                      /\ k = Cardinality(Incoming(c.edges, p))
                      /\ k = Cardinality(Incoming(d.edges, p))
  BY TiedAlike
<1> DEFINE dif(doc) == Difficulty(Base[doc], k)
           lev == Levels(nodes, edges)[p]
           wei == Weights(nodes, edges)[p]
<1>3. \A x \in {c, d} :
        Rated(x)[p] = [revision |-> x.points[p].revision, doc |-> x.points[p].doc,
                       difficulty |-> dif(x.points[p].doc), level |-> lev, weight |-> wei]
  <2> SUFFICES ASSUME NEW x \in {c, d}
               PROVE  Rated(x)[p] =
                        [revision |-> x.points[p].revision, doc |-> x.points[p].doc,
                         difficulty |-> dif(x.points[p].doc), level |-> lev,
                         weight |-> wei]
    OBVIOUS
  <2>1. /\ Shaped(x) /\ nodes = DOMAIN x.points /\ edges = Links(x.edges) /\ p \in nodes
        /\ k = Cardinality(Incoming(x.edges, p))
    BY <1>1, <1>2
  <2>2. QED
    BY <2>1, RatedPoint
<1> HIDE DEF dif, lev, wei
<1>4. QED
  BY <1>3

\* Only the points of a content are normalised.
LEMMA NormalizedFields ==
  ASSUME NEW c, Shaped(c)
  PROVE  Normalized(c) =
           [course |-> c.course, points |-> Normalized(c).points, edges |-> c.edges,
            mistakes |-> c.mistakes, sections |-> c.sections,
            mappings |-> c.mappings, questions |-> c.questions]
<1>1. c = [course |-> c.course, points |-> c.points, edges |-> c.edges,
           mistakes |-> c.mistakes, sections |-> c.sections,
           mappings |-> c.mappings, questions |-> c.questions]
  BY DEF Shaped
<1>2. \A f : [c EXCEPT !.points = f] =
               [course |-> c.course, points |-> f, edges |-> c.edges,
                mistakes |-> c.mistakes, sections |-> c.sections,
                mappings |-> c.mappings, questions |-> c.questions]
  BY <1>1
<1>3. QED
  BY <1>2 DEF Normalized

\* The points of a normalised content.
LEMMA NormalizedPoints ==
  ASSUME NEW c, Shaped(c)
  PROVE  Normalized(c).points =
           [p \in DOMAIN c.points |->
              IF Rated(c)[p] = c.points[p] THEN Rated(c)[p]
              ELSE [Rated(c)[p] EXCEPT !.revision = @ + 1]]
<1> DEFINE f == [p \in DOMAIN c.points |->
                   IF Rated(c)[p] = c.points[p] THEN Rated(c)[p]
                   ELSE [Rated(c)[p] EXCEPT !.revision = @ + 1]]
<1>1. c = [course |-> c.course, points |-> c.points, edges |-> c.edges,
           mistakes |-> c.mistakes, sections |-> c.sections,
           mappings |-> c.mappings, questions |-> c.questions]
  BY DEF Shaped
<1>2. \A g : [c EXCEPT !.points = g].points = g
  BY <1>1
<1>3. Normalized(c) = [c EXCEPT !.points = f]
  BY Zenon DEF Normalized
<1> HIDE DEF f
<1>4. Normalized(c).points = f
  BY <1>2, <1>3
<1>5. QED
  BY <1>4 DEF f

\* A normalised point has its computed values, and is the old one or has a
\* higher revision.
LEMMA NormalizedPoint ==
  ASSUME NEW c, Shaped(c), NEW p \in DOMAIN c.points
  PROVE  /\ ShapedPoint(Normalized(c).points[p])
         /\ Normalized(c).points[p].doc = c.points[p].doc
         /\ Normalized(c).points[p] =
              [Rated(c)[p] EXCEPT !.revision = Normalized(c).points[p].revision]
         /\ \/ Normalized(c).points[p] = c.points[p]
            \/ Normalized(c).points[p].revision > c.points[p].revision
<1> DEFINE x == Rated(c)[p]
           y == [x EXCEPT !.revision = @ + 1]
<1>1. c.points[p].revision \in Nat /\ ShapedPoint(c.points[p])
  BY DEF Shaped, ShapedPoint
<1>2. /\ PointRecord(x)
      /\ x.revision = c.points[p].revision
      /\ x.doc = c.points[p].doc
  BY RatedShape
<1>3. Normalized(c).points[p] = IF x = c.points[p] THEN x ELSE y
  <2>1. Normalized(c).points =
          [q \in DOMAIN c.points |->
             IF Rated(c)[q] = c.points[q] THEN Rated(c)[q]
             ELSE [Rated(c)[q] EXCEPT !.revision = @ + 1]]
    BY NormalizedPoints
  <2>2. QED
    BY <2>1
<1> HIDE DEF x
<1>4. /\ y = [revision |-> x.revision + 1, doc |-> x.doc, difficulty |-> x.difficulty,
              level |-> x.level, weight |-> x.weight]
      /\ \A r : [x EXCEPT !.revision = r] =
                  [revision |-> r, doc |-> x.doc, difficulty |-> x.difficulty,
                   level |-> x.level, weight |-> x.weight]
  BY <1>2 DEF PointRecord
<1> HIDE DEF y
<1>5. CASE x = c.points[p]
  <2>1. x = [x EXCEPT !.revision = x.revision]
    BY <1>2, <1>4 DEF PointRecord
  <2>2. QED
    BY <1>1, <1>2, <1>3, <1>5, <2>1 DEF x
<1>6. CASE x # c.points[p]
  <2>1. Normalized(c).points[p] = y /\ y.revision = x.revision + 1 /\ y.doc = x.doc
    BY <1>3, <1>4, <1>6
  <2>2. ShapedPoint(y)
    BY <1>1, <1>2, <1>4 DEF ShapedPoint, PointRecord
  <2>3. y = [x EXCEPT !.revision = y.revision]
    BY <1>4
  <2>4. QED
    BY <1>1, <1>2, <2>1, <2>2, <2>3 DEF x
<1>7. QED
  BY <1>5, <1>6

\* Normalising gives a content on which normalisation has nothing to do.
LEMMA NormalizedContent ==
  ASSUME NEW c, Shaped(c)
  PROVE  /\ Shaped(Normalized(c))
         /\ DOMAIN Normalized(c).points = DOMAIN c.points
         /\ Rated(Normalized(c)) = Normalized(c).points
<1> DEFINE d == Normalized(c)
<1>1. /\ d.course = c.course /\ d.edges = c.edges /\ d.mistakes = c.mistakes
      /\ d.sections = c.sections /\ d.mappings = c.mappings /\ d.questions = c.questions
      /\ d = [course |-> d.course, points |-> d.points, edges |-> d.edges,
              mistakes |-> d.mistakes, sections |-> d.sections,
              mappings |-> d.mappings, questions |-> d.questions]
  BY NormalizedFields
<1>2. /\ DOMAIN d.points = DOMAIN c.points
      /\ d.points = [p \in DOMAIN d.points |-> d.points[p]]
  <2>1. d.points =
          [q \in DOMAIN c.points |->
             IF Rated(c)[q] = c.points[q] THEN Rated(c)[q]
             ELSE [Rated(c)[q] EXCEPT !.revision = @ + 1]]
    BY NormalizedPoints
  <2>2. QED
    BY <2>1
<1>3. \A p \in DOMAIN d.points : ShapedPoint(d.points[p]) /\ d.points[p].doc = c.points[p].doc
  BY <1>2, NormalizedPoint
<1>4. Shaped(d)
  <2>1. /\ c.course \in Nat
        /\ c.edges = [i \in DOMAIN c.edges |-> c.edges[i]]
        /\ \A i \in DOMAIN c.edges : ShapedEdge(c.edges[i])
        /\ IsFiniteSet(DOMAIN c.points)
    BY DEF Shaped
  <2> HIDE DEF d
  <2>2. QED
    BY <1>1, <1>2, <1>3, <2>1 DEF Shaped
<1>5. \A p \in DOMAIN c.points : Rated(d)[p] = d.points[p]
  <2> TAKE p \in DOMAIN c.points
  <2>1. d.points[p] = [Rated(c)[p] EXCEPT !.revision = d.points[p].revision]
    BY NormalizedPoint
  <2>2. /\ Rated(c)[p].difficulty = Rated(d)[p].difficulty
        /\ Rated(c)[p].level = Rated(d)[p].level
        /\ Rated(c)[p].weight = Rated(d)[p].weight
    <3> HIDE DEF d
    <3>1. QED
      BY <1>1, <1>2, <1>3, <1>4, RatedAlike
  <2>3. /\ Rated(d)[p].revision = d.points[p].revision
        /\ Rated(d)[p].doc = d.points[p].doc
        /\ Rated(c)[p].doc = c.points[p].doc
    <3> HIDE DEF d
    <3>1. QED
      BY <1>2, <1>4, RatedShape
  <2>4. \A r : [Rated(c)[p] EXCEPT !.revision = r] =
            [revision |-> r, doc |-> Rated(c)[p].doc, difficulty |-> Rated(c)[p].difficulty,
             level |-> Rated(c)[p].level, weight |-> Rated(c)[p].weight]
    BY RatedShape, Revised
  <2>5. PointRecord(Rated(d)[p])
    <3> HIDE DEF d
    <3>1. QED
      BY <1>2, <1>4, RatedShape
  <2>6. d.points[p].doc = c.points[p].doc
    BY <1>2, <1>3
  <2> HIDE DEF d
  <2>7. QED
    BY <2>1, <2>2, <2>3, <2>4, <2>5, <2>6 DEF PointRecord
<1>6. Rated(d) = [p \in DOMAIN d.points |-> Rated(d)[p]]
  BY DEF Rated
<1> HIDE DEF d
<1>7. Rated(d) = d.points
  BY <1>2, <1>5, <1>6
<1>8. QED
  BY <1>2, <1>4, <1>7 DEF d

-----------------------------------------------------------------------------
\* Committing a version

\* What a rollback to snapshot r must commit as content d.
Restores(d, r) ==
  /\ r \in 1..Len(snapshots)
  /\ SameGraph(d, snapshots[r].content)
  /\ \A p \in DOMAIN snapshots[r].content.points :
       d.points[p].revision > snapshots[r].content.points[p].revision

\* Appending a snapshot keeps the earlier ones.
LEMMA AppendSnapshot ==
  ASSUME GraphInv, NEW s, snapshots' = Append(snapshots, s)
  PROVE  /\ Len(snapshots) \in Nat
         /\ Len(snapshots') = Len(snapshots) + 1
         /\ \A v \in 1..Len(snapshots) : snapshots'[v] = snapshots[v]
         /\ snapshots'[Len(snapshots')] = s
         /\ snapshots' # <<>>
         /\ snapshots' \in Seq({snapshots'[v] : v \in 1..Len(snapshots')})
<1> DEFINE S == {snapshots[v] : v \in 1..Len(snapshots)} \union {s}
           T == {snapshots'[v] : v \in 1..Len(snapshots')}
<1>1. snapshots \in Seq(S)
  BY SeqMonotonic DEF GraphInv
<1>2. /\ Len(snapshots) \in Nat
      /\ snapshots' \in Seq(S)
      /\ Len(snapshots') = Len(snapshots) + 1
      /\ \A v \in 1..Len(snapshots) : snapshots'[v] = snapshots[v]
      /\ snapshots'[Len(snapshots) + 1] = s
  <2> HIDE DEF S
  <2>1. s \in S
    BY DEF S
  <2>2. QED
    BY <1>1, <2>1
<1>3. snapshots' # <<>>
  BY <1>2
<1>4. snapshots' \in Seq(T)
  <2>1. snapshots' = [v \in 1..Len(snapshots') |-> snapshots'[v]]
    BY <1>2, LenProperties
  <2>2. Len(snapshots') \in Nat
    BY <1>2
  <2>3. snapshots' \in [1..Len(snapshots') -> T]
    BY <2>1
  <2> HIDE DEF T
  <2>4. QED
    BY <2>2, <2>3, SeqDef
<1>5. QED
  BY <1>2, <1>3, <1>4

\* Whatever mutation led to a content, committing it leaves tables that extend
\* the new snapshot, and the new snapshot has nothing left to normalise.
LEMMA CommitStep ==
  ASSUME GraphInv, NEW c, Shaped(c), NEW action, NEW from, Commit(c, action, from),
         from = 0 \/ Restores(Normalized(c), from)
  PROVE  GraphInv'
<1> DEFINE d == Normalized(c)
           n == Len(snapshots) + 1
<1>1. /\ tables' = [d EXCEPT !.sections = @ \union tables.sections]
      /\ snapshots' = Append(snapshots, [content |-> d, action |-> action,
                                         restored |-> from])
  BY DEF Commit, Replaced
<1>2. /\ Len(snapshots) \in Nat
      /\ Len(snapshots') = n
      /\ \A v \in 1..Len(snapshots) : snapshots'[v] = snapshots[v]
      /\ snapshots'[n] = [content |-> d, action |-> action, restored |-> from]
      /\ snapshots' # <<>>
      /\ snapshots' \in Seq({snapshots'[v] : v \in 1..Len(snapshots')})
  BY <1>1, AppendSnapshot
<1>3. Shaped(d) /\ Rated(d) = d.points
  BY NormalizedContent
<1> HIDE DEF d
<1>4. tables' = [course |-> d.course, points |-> d.points, edges |-> d.edges,
                 mistakes |-> d.mistakes, sections |-> d.sections \union tables.sections,
                 mappings |-> d.mappings, questions |-> d.questions]
  BY <1>1, <1>3 DEF Shaped
<1>5. Shaped(tables)'
  BY <1>3, <1>4 DEF Shaped
<1>6. SnapshotsNormalized'
  <2>1. \A v \in 1..Len(snapshots) :
          snapshots'[v].restored \in Nat
          /\ Shaped(snapshots'[v].content)
          /\ Rated(snapshots'[v].content) = snapshots'[v].content.points
    <3> TAKE v \in 1..Len(snapshots)
    <3>1. snapshots'[v] = snapshots[v]
      BY <1>2
    <3>2. /\ snapshots[v].restored \in Nat
          /\ Shaped(snapshots[v].content)
          /\ Rated(snapshots[v].content) = snapshots[v].content.points
      BY DEF GraphInv, SnapshotsNormalized
    <3>3. QED
      BY <3>1, <3>2
  <2>2. snapshots'[n].content = d /\ snapshots'[n].restored \in Nat
    BY <1>2 DEF Restores
  <2>3. \A v \in 1..n : v \in 1..Len(snapshots) \/ v = n
    BY <1>2
  <2>4. \A v \in 1..n :
          snapshots'[v].restored \in Nat
          /\ Shaped(snapshots'[v].content)
          /\ Rated(snapshots'[v].content) = snapshots'[v].content.points
    BY <1>3, <2>1, <2>2, <2>3
  <2>5. QED
    BY <1>2, <2>4 DEF SnapshotsNormalized
<1>7. TablesExtendLatest'
  <2>1. Latest' = d
    BY <1>2 DEF Latest
  <2>2. tables' = [d EXCEPT !.sections = tables'.sections]
    <3>1. PICK x : x = tables'.sections
      OBVIOUS
    <3>2. [d EXCEPT !.sections = x] =
            [course |-> d.course, points |-> d.points, edges |-> d.edges,
             mistakes |-> d.mistakes, sections |-> x,
             mappings |-> d.mappings, questions |-> d.questions]
      BY <1>3 DEF Shaped
    <3>3. x = d.sections \union tables.sections
      BY <1>4, <3>1
    <3>4. QED
      BY <1>4, <3>1, <3>2, <3>3
  <2>3. d.sections \subseteq tables'.sections
    BY <1>4
  <2>4. QED
    BY <2>1, <2>2, <2>3 DEF TablesExtendLatest
<1>8. RollbackRestores'
  <2> SUFFICES ASSUME NEW v \in 1..n, snapshots'[v].restored > 0
               PROVE  LET r == snapshots'[v].restored IN
                      /\ r < v
                      /\ SameGraph(snapshots'[v].content, snapshots'[r].content)
                      /\ \A p \in DOMAIN snapshots'[r].content.points :
                           snapshots'[v].content.points[p].revision
                             > snapshots'[r].content.points[p].revision
    BY <1>2 DEF RollbackRestores
  <2>1. CASE v \in 1..Len(snapshots)
    <3>1. snapshots'[v] = snapshots[v]
      BY <1>2, <2>1
    <3>2. PICK r : r = snapshots[v].restored
      OBVIOUS
    <3>3. /\ r < v
          /\ SameGraph(snapshots[v].content, snapshots[r].content)
          /\ \A p \in DOMAIN snapshots[r].content.points :
               snapshots[v].content.points[p].revision
                 > snapshots[r].content.points[p].revision
      BY <2>1, <3>1, <3>2 DEF GraphInv, RollbackRestores
    <3>4. snapshots'[r] = snapshots[r]
      <4>1. r \in Nat /\ r > 0
        <5>1. snapshots[v].restored \in Nat
          BY <2>1 DEF GraphInv, SnapshotsNormalized
        <5>2. QED
          BY <3>1, <3>2, <5>1
      <4>2. r \in 1..Len(snapshots)
        BY <1>2, <2>1, <3>3, <4>1
      <4>3. QED
        BY <1>2, <4>2
    <3>5. QED
      BY <3>1, <3>2, <3>3, <3>4
  <2>2. CASE v = n
    <3>1. snapshots'[v].content = d /\ snapshots'[v].restored = from
      BY <1>2, <2>2
    <3>2. Restores(d, from)
      BY <3>1 DEF d
    <3>3. from \in 1..Len(snapshots) /\ snapshots'[from] = snapshots[from]
      BY <1>2, <3>2 DEF Restores
    <3>4. from < v
      BY <1>2, <2>2, <3>3
    <3>5. QED
      BY <3>1, <3>2, <3>3, <3>4 DEF Restores
  <2>3. QED
    BY <1>2, <2>1, <2>2
<1>9. QED
  BY <1>2, <1>5, <1>6, <1>7, <1>8 DEF GraphInv

-----------------------------------------------------------------------------
\* The contents the mutations commit

\* A change of one field keeps the shape of a content.
LEMMA ShapedFields ==
  ASSUME NEW c, Shaped(c)
  PROVE  /\ \A x \in Nat : Shaped([c EXCEPT !.course = x])
                           /\ [c EXCEPT !.course = x].points = c.points
                           /\ [c EXCEPT !.course = x].edges = c.edges
         /\ \A x : Shaped([c EXCEPT !.sections = x])
                   /\ [c EXCEPT !.sections = x].points = c.points
                   /\ [c EXCEPT !.sections = x].edges = c.edges
         /\ \A x : x = [i \in DOMAIN x |-> x[i]]
                     /\ (\A i \in DOMAIN x : ShapedEdge(x[i])) =>
                     Shaped([c EXCEPT !.edges = x])
                     /\ [c EXCEPT !.edges = x].points = c.points
                     /\ [c EXCEPT !.edges = x].edges = x
         /\ \A x : x = [p \in DOMAIN x |-> x[p]] /\ IsFiniteSet(DOMAIN x)
                     /\ (\A p \in DOMAIN x : ShapedPoint(x[p])) =>
                     Shaped([c EXCEPT !.points = x])
                     /\ [c EXCEPT !.points = x].points = x
                     /\ [c EXCEPT !.points = x].edges = c.edges
<1>1. c = [course |-> c.course, points |-> c.points, edges |-> c.edges,
           mistakes |-> c.mistakes, sections |-> c.sections,
           mappings |-> c.mappings, questions |-> c.questions]
  BY DEF Shaped
<1>2. \A x \in Nat : Shaped([c EXCEPT !.course = x])
                     /\ [c EXCEPT !.course = x].points = c.points
                     /\ [c EXCEPT !.course = x].edges = c.edges
  <2> TAKE x \in Nat
  <2>1. [c EXCEPT !.course = x] =
          [course |-> x, points |-> c.points, edges |-> c.edges,
           mistakes |-> c.mistakes, sections |-> c.sections,
           mappings |-> c.mappings, questions |-> c.questions]
    BY <1>1
  <2>2. QED
    BY <2>1 DEF Shaped
<1>3. \A x : Shaped([c EXCEPT !.sections = x])
             /\ [c EXCEPT !.sections = x].points = c.points
             /\ [c EXCEPT !.sections = x].edges = c.edges
  <2> TAKE x
  <2>1. [c EXCEPT !.sections = x] =
          [course |-> c.course, points |-> c.points, edges |-> c.edges,
           mistakes |-> c.mistakes, sections |-> x,
           mappings |-> c.mappings, questions |-> c.questions]
    BY <1>1
  <2>2. QED
    BY <2>1 DEF Shaped
<1>4. \A x : x = [i \in DOMAIN x |-> x[i]] /\ (\A i \in DOMAIN x : ShapedEdge(x[i])) =>
               Shaped([c EXCEPT !.edges = x])
               /\ [c EXCEPT !.edges = x].points = c.points
               /\ [c EXCEPT !.edges = x].edges = x
  <2> TAKE x
  <2> HAVE x = [i \in DOMAIN x |-> x[i]] /\ \A i \in DOMAIN x : ShapedEdge(x[i])
  <2>1. [c EXCEPT !.edges = x] =
          [course |-> c.course, points |-> c.points, edges |-> x,
           mistakes |-> c.mistakes, sections |-> c.sections,
           mappings |-> c.mappings, questions |-> c.questions]
    BY <1>1
  <2>2. QED
    BY <2>1 DEF Shaped
<1>5. \A x : x = [p \in DOMAIN x |-> x[p]] /\ IsFiniteSet(DOMAIN x)
               /\ (\A p \in DOMAIN x : ShapedPoint(x[p])) =>
               Shaped([c EXCEPT !.points = x])
               /\ [c EXCEPT !.points = x].points = x
               /\ [c EXCEPT !.points = x].edges = c.edges
  <2> TAKE x
  <2> HAVE /\ x = [p \in DOMAIN x |-> x[p]] /\ IsFiniteSet(DOMAIN x)
           /\ \A p \in DOMAIN x : ShapedPoint(x[p])
  <2>1. [c EXCEPT !.points = x] =
          [course |-> c.course, points |-> x, edges |-> c.edges,
           mistakes |-> c.mistakes, sections |-> c.sections,
           mappings |-> c.mappings, questions |-> c.questions]
    BY <1>1
  <2>2. QED
    BY <2>1 DEF Shaped
<1>6. QED
  BY <1>2, <1>3, <1>4, <1>5

\* Loading changes the sections only.
LEMMA LoadShaped ==
  ASSUME GraphInv
  PROVE  /\ Shaped(Load)
         /\ Load.points = tables.points
         /\ Load.course = tables.course
         /\ Load.edges = tables.edges
<1> DEFINE x == Mapped(tables.mappings) \intersect tables.sections
<1>1. Load = [tables EXCEPT !.sections = x]
  BY DEF Load
<1> HIDE DEF x
<1>2. Shaped(tables)
  BY DEF GraphInv
<1>3. Load = [course |-> tables.course, points |-> tables.points, edges |-> tables.edges,
              mistakes |-> tables.mistakes, sections |-> x,
              mappings |-> tables.mappings, questions |-> tables.questions]
  BY <1>1, <1>2 DEF Shaped
<1>4. QED
  BY <1>2, <1>3 DEF Shaped

\* A point that differs from another in its revision only, which is higher.
LaterRevision(y, x) ==
  /\ y.revision > x.revision
  /\ y.doc = x.doc /\ y.difficulty = x.difficulty
  /\ y.level = x.level /\ y.weight = x.weight

\* Rolling a content forward raises revisions and changes nothing else.
LEMMA RolledForwardContent ==
  ASSUME NEW c, Shaped(c), NEW version \in Nat, NEW d, d = RolledForward(c, version)
  PROVE  /\ d.mistakes = c.mistakes /\ d.sections = c.sections
         /\ d.mappings = c.mappings /\ d.questions = c.questions
         /\ Shaped(d)
         /\ DOMAIN d.points = DOMAIN c.points
         /\ DOMAIN d.edges = DOMAIN c.edges
         /\ \A i \in DOMAIN c.edges : d.edges[i].tie = c.edges[i].tie
         /\ \A p \in DOMAIN c.points : LaterRevision(d.points[p], c.points[p])
<1> DEFINE course == Advanced(c.course, version)
           points == [p \in DOMAIN c.points |->
                        [c.points[p] EXCEPT !.revision = Advanced(@, version)]]
           edges == [i \in DOMAIN c.edges |->
                       [c.edges[i] EXCEPT !.revision = Advanced(@, version)]]
<1>1. RolledForward(c, version) =
        [c EXCEPT !.course = course, !.points = points, !.edges = edges]
  BY Zenon DEF RolledForward
<1>2. course \in Nat
  BY AdvancedRises DEF Shaped
<1>3. /\ edges = [i \in DOMAIN edges |-> edges[i]] /\ DOMAIN edges = DOMAIN c.edges
      /\ \A i \in DOMAIN c.edges : ShapedEdge(edges[i]) /\ edges[i].tie = c.edges[i].tie
  <2>1. ASSUME NEW i \in DOMAIN c.edges
        PROVE  ShapedEdge(edges[i]) /\ edges[i].tie = c.edges[i].tie
    <3>1. PICK x : x = c.edges[i]
      OBVIOUS
    <3>2. x = [tie |-> x.tie, revision |-> x.revision] /\ x.revision \in Nat
      BY <3>1 DEF Shaped, ShapedEdge
    <3>3. PICK r : r = Advanced(x.revision, version)
      OBVIOUS
    <3>4. edges[i] = [x EXCEPT !.revision = r] /\ r \in Nat
      BY <3>1, <3>2, <3>3, AdvancedRises
    <3>5. [x EXCEPT !.revision = r] = [tie |-> x.tie, revision |-> r]
      BY <3>2
    <3> QED BY <3>1, <3>4, <3>5 DEF ShapedEdge
  <2> QED BY <2>1
<1>4. \A p \in DOMAIN c.points :
        LaterRevision(points[p], c.points[p]) /\ ShapedPoint(points[p])
  <2> TAKE p \in DOMAIN c.points
  <2>1. PICK x : x = c.points[p]
    OBVIOUS
  <2>2. PointRecord(x) /\ x.revision \in Nat
    BY <2>1 DEF Shaped, ShapedPoint
  <2>3. PICK r : r = Advanced(x.revision, version)
    OBVIOUS
  <2>4. r \in Nat /\ r > x.revision
    BY <2>2, <2>3, AdvancedRises
  <2>5. points[p] = [x EXCEPT !.revision = r]
    BY <2>1, <2>3
  <2>6. [x EXCEPT !.revision = r] =
          [revision |-> r, doc |-> x.doc, difficulty |-> x.difficulty,
           level |-> x.level, weight |-> x.weight]
    BY <2>2, Revised
  <2>7. points[p].revision = r
    BY <2>5, <2>6
  <2>8. ShapedPoint(points[p])
    BY <2>4, <2>5, <2>6 DEF ShapedPoint, PointRecord
  <2>9. LaterRevision(points[p], x)
    BY <2>4, <2>5, <2>6 DEF LaterRevision
  <2>10. QED
    BY <2>1, <2>8, <2>9
<1>5. /\ DOMAIN points = DOMAIN c.points
      /\ points = [p \in DOMAIN points |-> points[p]]
      /\ IsFiniteSet(DOMAIN c.points)
  BY DEF Shaped
<1> HIDE DEF course, points, edges
<1>6. RolledForward(c, version) =
        [course |-> course, points |-> points, edges |-> edges,
         mistakes |-> c.mistakes, sections |-> c.sections,
         mappings |-> c.mappings, questions |-> c.questions]
  <2>1. PICK x : x = [c EXCEPT !.course = course]
    OBVIOUS
  <2>2. x = [course |-> course, points |-> c.points, edges |-> c.edges,
             mistakes |-> c.mistakes, sections |-> c.sections,
             mappings |-> c.mappings, questions |-> c.questions]
    BY <2>1 DEF Shaped
  <2>3. PICK y : y = [x EXCEPT !.points = points]
    OBVIOUS
  <2>4. y = [course |-> course, points |-> points, edges |-> c.edges,
             mistakes |-> c.mistakes, sections |-> c.sections,
             mappings |-> c.mappings, questions |-> c.questions]
    BY <2>2, <2>3
  <2>5. [y EXCEPT !.edges = edges] =
          [course |-> course, points |-> points, edges |-> edges,
           mistakes |-> c.mistakes, sections |-> c.sections,
           mappings |-> c.mappings, questions |-> c.questions]
    BY <2>4
  <2>6. QED
    BY <1>1, <2>1, <2>3, <2>5, Zenon
<1>7. Shaped(RolledForward(c, version))
  BY <1>2, <1>3, <1>4, <1>5, <1>6 DEF Shaped
<1>8. QED
  BY <1>3, <1>4, <1>5, <1>6, <1>7

-----------------------------------------------------------------------------
\* The steps

\* A content that differs from the working tables by one mutation of a client:
\* every point and prerequisite of both is the same or has a higher revision.
Changes(c) ==
  /\ Shaped(c)
  /\ Later(c.points, tables.points)
  /\ Later(c.edges, tables.edges)

\* Rewriting another field of what was loaded is such a change.
LEMMA FieldChanges ==
  ASSUME GraphInv, NEW c, Shaped(c), c.points = tables.points, c.edges = tables.edges
  PROVE  Changes(c)
BY DEF Changes, Later

\* A written knowledge point is well formed and has a higher revision.
LEMMA WrittenPoint ==
  ASSUME GraphInv, NEW p, NEW d
  PROVE  /\ ShapedPoint(Written(p, d))
         /\ p \in DOMAIN tables.points =>
              Written(p, d).revision > tables.points[p].revision
<1>1. CASE p \in DOMAIN tables.points
  <2>1. PICK x : x = tables.points[p]
    OBVIOUS
  <2>2. PointRecord(x) /\ x.revision \in Nat
    BY <1>1, <2>1 DEF GraphInv, Shaped, ShapedPoint
  <2>3. PICK y : y = [x EXCEPT !.revision = x.revision + 1]
    OBVIOUS
  <2>4. y = [revision |-> x.revision + 1, doc |-> x.doc, difficulty |-> x.difficulty,
             level |-> x.level, weight |-> x.weight]
    BY <2>2, <2>3, Revised
  <2>5. PICK z : z = [y EXCEPT !.doc = d]
    OBVIOUS
  <2>6. z = [revision |-> x.revision + 1, doc |-> d, difficulty |-> x.difficulty,
             level |-> x.level, weight |-> x.weight]
    BY <2>4, <2>5
  <2>7. [z EXCEPT !.difficulty = Declared[d]] =
          [revision |-> x.revision + 1, doc |-> d, difficulty |-> Declared[d],
           level |-> x.level, weight |-> x.weight]
    BY <2>6
  <2>8. Written(p, d) = [z EXCEPT !.difficulty = Declared[d]]
    BY <1>1, <2>1, <2>3, <2>5, Zenon DEF Written
  <2>9. QED
    BY <2>1, <2>2, <2>7, <2>8 DEF ShapedPoint, PointRecord
<1>2. CASE p \notin DOMAIN tables.points
  BY <1>2 DEF Written, ShapedPoint, PointRecord
<1>3. QED
  BY <1>1, <1>2

\* Writing a knowledge point is a change.
LEMMA WriteChanges ==
  ASSUME GraphInv, NEW p, NEW d
  PROVE  Changes([Load EXCEPT !.points = With(@, p, Written(p, d))])
<1> DEFINE f == With(tables.points, p, Written(p, d))
<1>1. /\ f = [q \in DOMAIN f |-> f[q]]
      /\ \A q \in DOMAIN f :
           \/ q = p /\ f[q] = Written(p, d)
           \/ q # p /\ q \in DOMAIN tables.points /\ f[q] = tables.points[q]
      /\ DOMAIN f = DOMAIN tables.points \union {p}
  BY DEF With
<1>2. [Load EXCEPT !.points = With(@, p, Written(p, d))] = [Load EXCEPT !.points = f]
  BY LoadShaped
<1> HIDE DEF f
<1>3. \A q \in DOMAIN f : ShapedPoint(f[q])
  <2>1. \A q \in DOMAIN tables.points : ShapedPoint(tables.points[q])
    BY DEF GraphInv, Shaped
  <2>2. QED
    BY <1>1, <2>1, WrittenPoint
<1>4. /\ Shaped([Load EXCEPT !.points = f]) /\ [Load EXCEPT !.points = f].points = f
      /\ [Load EXCEPT !.points = f].edges = tables.edges
  <2>1. IsFiniteSet(DOMAIN tables.points)
    BY DEF GraphInv, Shaped
  <2>2. IsFiniteSet(DOMAIN f)
    BY <1>1, <2>1, FS_AddElement
  <2> QED
    BY <1>1, <1>3, <2>2, LoadShaped, ShapedFields
<1>5. \A q \in DOMAIN f \intersect DOMAIN tables.points :
        f[q] = tables.points[q] \/ f[q].revision > tables.points[q].revision
  BY <1>1, WrittenPoint
<1>6. QED
  BY <1>2, <1>4, <1>5 DEF Changes, Later

\* So is deleting one with what hangs on it.
LEMMA DeleteChanges ==
  ASSUME GraphInv, NEW p
  PROVE  Changes(Deleted(Load, p))
<1> DEFINE c == Deleted(Load, p)
           gone == {i \in DOMAIN tables.edges :
                      p \in {tables.edges[i].tie[1], tables.edges[i].tie[2]}}
<1>1. /\ c.course = tables.course
      /\ c.points = [q \in DOMAIN tables.points \ {p} |-> tables.points[q]]
      /\ c.edges = [i \in DOMAIN tables.edges \ gone |-> tables.edges[i]]
      /\ c = [course |-> c.course, points |-> c.points, edges |-> c.edges,
              mistakes |-> c.mistakes, sections |-> c.sections,
              mappings |-> c.mappings, questions |-> c.questions]
  BY LoadShaped DEF Deleted, Without, Restrict
<1> HIDE DEF c, gone
<1>2. /\ tables.course \in Nat
      /\ \A q \in DOMAIN tables.points : ShapedPoint(tables.points[q])
      /\ \A i \in DOMAIN tables.edges : ShapedEdge(tables.edges[i])
      /\ IsFiniteSet(DOMAIN tables.points)
  BY DEF GraphInv, Shaped
<1>3. IsFiniteSet(DOMAIN c.points)
  BY <1>1, <1>2, FS_Subset
<1>4. Shaped(c)
  BY <1>1, <1>2, <1>3 DEF Shaped
<1>5. QED
  BY <1>1, <1>4 DEF Changes, Later, c

\* So is writing a prerequisite or taking one away.
LEMMA EdgeChanges ==
  ASSUME GraphInv, NEW i, NEW tie
  PROVE  /\ Changes([Load EXCEPT !.edges = With(@, i, Tied(i, tie))])
         /\ Changes([Load EXCEPT !.edges = Without(@, {i})])
<1>1. \A j \in DOMAIN tables.edges :
        ShapedEdge(tables.edges[j]) /\ tables.edges[j].revision \in Nat
  BY DEF GraphInv, Shaped, ShapedEdge
<1>2. ASSUME NEW f, f = [j \in DOMAIN f |-> f[j]],
             \A j \in DOMAIN f : ShapedEdge(f[j]), Later(f, tables.edges)
      PROVE  Changes([Load EXCEPT !.edges = f])
  <2>1. /\ Shaped([Load EXCEPT !.edges = f])
        /\ [Load EXCEPT !.edges = f].points = tables.points
        /\ [Load EXCEPT !.edges = f].edges = f
    BY <1>2, LoadShaped, ShapedFields
  <2> QED BY <1>2, <2>1 DEF Changes, Later
<1>3. Changes([Load EXCEPT !.edges = With(@, i, Tied(i, tie))])
  <2> DEFINE f == With(tables.edges, i, Tied(i, tie))
  <2>1. /\ ShapedEdge(Tied(i, tie))
        /\ i \in DOMAIN tables.edges => Tied(i, tie).revision > tables.edges[i].revision
    <3>1. EdgeRevision(i) \in Nat
      BY <1>1 DEF EdgeRevision
    <3>2. i \in DOMAIN tables.edges => EdgeRevision(i) = tables.edges[i].revision
      BY DEF EdgeRevision
    <3>3. PICK r \in Nat : r = EdgeRevision(i)
      BY <3>1
    <3>4. Tied(i, tie) = [tie |-> tie, revision |-> r + 1]
      BY <3>3 DEF Tied
    <3> QED BY <3>2, <3>3, <3>4 DEF ShapedEdge
  <2>2. /\ f = [j \in DOMAIN f |-> f[j]]
        /\ \A j \in DOMAIN f : \/ j = i /\ f[j] = Tied(i, tie)
                               \/ j \in DOMAIN tables.edges /\ f[j] = tables.edges[j]
    BY DEF With
  <2>3. [Load EXCEPT !.edges = With(@, i, Tied(i, tie))] = [Load EXCEPT !.edges = f]
    BY LoadShaped
  <2> HIDE DEF f
  <2>4. (\A j \in DOMAIN f : ShapedEdge(f[j])) /\ Later(f, tables.edges)
    BY <1>1, <2>1, <2>2 DEF Later
  <2> QED BY <1>2, <2>2, <2>3, <2>4
<1>4. Changes([Load EXCEPT !.edges = Without(@, {i})])
  <2> DEFINE f == Without(tables.edges, {i})
  <2>1. /\ f = [j \in DOMAIN f |-> f[j]]
        /\ \A j \in DOMAIN f : j \in DOMAIN tables.edges /\ f[j] = tables.edges[j]
    BY DEF Without, Restrict
  <2>2. [Load EXCEPT !.edges = Without(@, {i})] = [Load EXCEPT !.edges = f]
    BY LoadShaped
  <2> HIDE DEF f
  <2>3. (\A j \in DOMAIN f : ShapedEdge(f[j])) /\ Later(f, tables.edges)
    BY <1>1, <2>1 DEF Later
  <2> QED BY <1>2, <2>1, <2>2, <2>3
<1> QED BY <1>3, <1>4

\* Every mutation commits a change of the tables, a bundle, or a restored snapshot.
LEMMA MutationCommits ==
  ASSUME GraphInv, Next
  PROVE  \/ \E c, action : Changes(c) /\ Commit(c, action, 0)
         \/ \E b \in Bundles : Commit(b, "GRAPH_IMPORTED", 0)
         \/ \E v \in 1..Len(snapshots) :
              Commit(RolledForward(snapshots[v].content, Len(snapshots) + 1),
                     "GRAPH_ROLLED_BACK", v)
<1>1. ASSUME NEW expected, UpsertCourse(expected)
      PROVE  \E c, action : Changes(c) /\ Commit(c, action, 0)
  <2>1. Commit([Load EXCEPT !.course = @ + 1], "COURSE_UPSERTED", 0)
    BY <1>1 DEF UpsertCourse
  <2>2. Load.course + 1 \in Nat
    BY LoadShaped DEF Shaped
  <2>3. Changes([Load EXCEPT !.course = @ + 1])
    <3>1. PICK x \in Nat : x = Load.course + 1
      BY <2>2
    <3>2. Shaped([Load EXCEPT !.course = x])
          /\ [Load EXCEPT !.course = x].points = tables.points
          /\ [Load EXCEPT !.course = x].edges = tables.edges
      BY LoadShaped, ShapedFields
    <3>3. QED
      BY <3>1, <3>2, FieldChanges
  <2>4. QED
    BY <2>1, <2>3
<1>2. ASSUME NEW p, NEW d, NEW expected, UpsertKnowledgePoint(p, d, expected)
      PROVE  \E c, action : Changes(c) /\ Commit(c, action, 0)
  BY <1>2, WriteChanges DEF UpsertKnowledgePoint
<1>3. ASSUME NEW p, NEW expected, DeleteKnowledgePoint(p, expected)
      PROVE  \E c, action : Changes(c) /\ Commit(c, action, 0)
  BY <1>3, DeleteChanges DEF DeleteKnowledgePoint
<1>4. ASSUME NEW i, NEW tie, NEW expected, UpsertPrerequisite(i, tie, expected)
      PROVE  \E c, action : Changes(c) /\ Commit(c, action, 0)
  BY <1>4, EdgeChanges DEF UpsertPrerequisite
<1>5. ASSUME NEW i, NEW expected, DeletePrerequisite(i, expected)
      PROVE  \E c, action : Changes(c) /\ Commit(c, action, 0)
  BY <1>5, EdgeChanges DEF DeletePrerequisite
<1>6. ASSUME NEW b \in Bundles, NEW parent, ImportBundle(b, parent)
      PROVE  Commit(b, "GRAPH_IMPORTED", 0)
  BY <1>6 DEF ImportBundle
<1>7. ASSUME FreezeGraph
      PROVE  \E c, action : Changes(c) /\ Commit(c, action, 0)
  <2>1. Changes(Load)
    BY LoadShaped, FieldChanges
  <2>2. QED
    BY <1>7, <2>1 DEF FreezeGraph
<1>8. ASSUME NEW v, RollbackSnapshot(v)
      PROVE  /\ v \in 1..Len(snapshots)
             /\ Commit(RolledForward(snapshots[v].content, Len(snapshots) + 1),
                       "GRAPH_ROLLED_BACK", v)
  BY <1>8 DEF RollbackSnapshot
<1>9. QED
  BY <1>1, <1>2, <1>3, <1>4, <1>5, <1>6, <1>7, <1>8, Zenon DEF Next, Mutation

\* Normalising a rolled forward snapshot changes nothing: what is committed is
\* the graph of that snapshot under higher revisions.
LEMMA RollbackCommits ==
  ASSUME GraphInv, NEW v \in 1..Len(snapshots), NEW n \in Nat
  PROVE  Restores(Normalized(RolledForward(snapshots[v].content, n)), v)
<1>1. PICK c : c = snapshots[v].content
  OBVIOUS
<1>2. PICK d : d = RolledForward(c, n)
  OBVIOUS
<1>3. Shaped(c) /\ Rated(c) = c.points
  BY <1>1 DEF GraphInv, SnapshotsNormalized
<1>4. /\ Shaped(d)
      /\ d.mistakes = c.mistakes /\ d.sections = c.sections
      /\ d.mappings = c.mappings /\ d.questions = c.questions
      /\ DOMAIN d.points = DOMAIN c.points
      /\ DOMAIN d.edges = DOMAIN c.edges
      /\ \A i \in DOMAIN c.edges : d.edges[i].tie = c.edges[i].tie
      /\ \A p \in DOMAIN c.points : LaterRevision(d.points[p], c.points[p])
  BY <1>2, <1>3, RolledForwardContent
<1>5. \A p \in DOMAIN c.points :
        /\ Normalized(d).points[p] = d.points[p]
        /\ [d.points[p] EXCEPT !.revision = 1] = [c.points[p] EXCEPT !.revision = 1]
  <2> TAKE p \in DOMAIN c.points
  <2>1. PICK x : x = c.points[p]
    OBVIOUS
  <2>2. PICK y : y = d.points[p]
    OBVIOUS
  <2>3. PointRecord(x) /\ PointRecord(y)
    BY <1>3, <1>4, <2>1, <2>2 DEF Shaped, ShapedPoint
  <2>5. y.doc = x.doc /\ y.difficulty = x.difficulty /\ y.level = x.level
        /\ y.weight = x.weight
    BY <1>4, <2>1, <2>2 DEF LaterRevision
  <2>6. /\ Rated(c)[p].difficulty = Rated(d)[p].difficulty
        /\ Rated(c)[p].level = Rated(d)[p].level
        /\ Rated(c)[p].weight = Rated(d)[p].weight
    BY <1>3, <1>4, <2>1, <2>2, <2>5, RatedAlike
  <2>7. PICK z : z = Rated(d)[p]
    OBVIOUS
  <2>8. PointRecord(z) /\ z.revision = y.revision /\ z.doc = y.doc
    BY <1>4, <2>2, <2>7, RatedShape
  <2>9. z = y
    BY <1>3, <2>1, <2>3, <2>5, <2>6, <2>7, <2>8 DEF PointRecord
  <2>10. Normalized(d).points[p] = y
    <3>1. Normalized(d).points =
            [q \in DOMAIN d.points |->
               IF Rated(d)[q] = d.points[q] THEN Rated(d)[q]
               ELSE [Rated(d)[q] EXCEPT !.revision = @ + 1]]
      BY <1>4, NormalizedPoints
    <3>2. QED
      BY <1>4, <2>2, <2>7, <2>9, <3>1
  <2>11. [y EXCEPT !.revision = 1] = [x EXCEPT !.revision = 1]
    <3>1. [y EXCEPT !.revision = 1] =
            [revision |-> 1, doc |-> x.doc, difficulty |-> x.difficulty,
             level |-> x.level, weight |-> x.weight]
      BY <2>3, <2>5, Revised
    <3>2. [x EXCEPT !.revision = 1] =
            [revision |-> 1, doc |-> x.doc, difficulty |-> x.difficulty,
             level |-> x.level, weight |-> x.weight]
      BY <2>3, Revised
    <3>3. QED
      BY <3>1, <3>2
  <2>12. QED
    BY <2>1, <2>2, <2>10, <2>11
<1>6. /\ DOMAIN Normalized(d).points = DOMAIN c.points
      /\ DOMAIN Normalized(d).edges = DOMAIN c.edges
      /\ \A i \in DOMAIN c.edges : Normalized(d).edges[i].tie = c.edges[i].tie
      /\ Normalized(d).mistakes = c.mistakes /\ Normalized(d).sections = c.sections
      /\ Normalized(d).mappings = c.mappings /\ Normalized(d).questions = c.questions
  <2>1. DOMAIN Normalized(d).points = DOMAIN d.points
    BY <1>4, NormalizedContent
  <2>2. /\ Normalized(d).edges = d.edges /\ Normalized(d).mistakes = d.mistakes
        /\ Normalized(d).sections = d.sections /\ Normalized(d).mappings = d.mappings
        /\ Normalized(d).questions = d.questions
    BY <1>4, NormalizedFields
  <2>3. QED
    BY <1>4, <2>1, <2>2
<1>7. SameGraph(Normalized(d), c)
  BY <1>5, <1>6 DEF SameGraph
<1>8. \A p \in DOMAIN c.points : Normalized(d).points[p].revision > c.points[p].revision
  BY <1>4, <1>5 DEF LaterRevision
<1>9. QED
  BY <1>1, <1>2, <1>7, <1>8 DEF Restores

-----------------------------------------------------------------------------
\* The theorems

\* An empty course satisfies the invariant.
LEMMA GraphInit == Init => GraphInv
<1> SUFFICES ASSUME Init PROVE GraphInv
  OBVIOUS
<1>1. tables = NoContent /\ snapshots = <<>> /\ Len(snapshots) = 0
  BY DEF Init
<1>2. Shaped(NoContent)
  BY FS_EmptySet DEF Shaped, NoContent
<1>3. snapshots \in Seq({snapshots[v] : v \in 1..Len(snapshots)})
  BY <1>1
<1>4. QED
  BY <1>1, <1>2, <1>3
     DEF GraphInv, SnapshotsNormalized, TablesExtendLatest, RollbackRestores

\* Every mutation keeps it.
LEMMA GraphNext == GraphInv /\ [Next]_vars => GraphInv'
<1> SUFFICES ASSUME GraphInv, [Next]_vars PROVE GraphInv'
  OBVIOUS
<1>1. CASE UNCHANGED vars
  BY <1>1 DEF vars, GraphInv, SnapshotsNormalized, TablesExtendLatest, RollbackRestores,
              Latest
<1>2. CASE Next
  <2>1. ASSUME NEW c, NEW action, Changes(c), Commit(c, action, 0)
        PROVE  GraphInv'
    BY <2>1, CommitStep DEF Changes
  <2>2. ASSUME NEW b \in Bundles, Commit(b, "GRAPH_IMPORTED", 0)
        PROVE  GraphInv'
    BY <2>2, CommitStep, BundlesAssumption
  <2>3. ASSUME NEW v \in 1..Len(snapshots),
               Commit(RolledForward(snapshots[v].content, Len(snapshots) + 1),
                      "GRAPH_ROLLED_BACK", v)
        PROVE  GraphInv'
    <3>1. Shaped(snapshots[v].content)
      BY DEF GraphInv, SnapshotsNormalized
    <3>2. Len(snapshots) + 1 \in Nat
      BY LenProperties DEF GraphInv
    <3>3. Shaped(RolledForward(snapshots[v].content, Len(snapshots) + 1))
      BY <3>1, <3>2, RolledForwardContent
    <3>4. QED
      BY <2>3, <3>2, <3>3, RollbackCommits, CommitStep
  <2>4. QED
    BY <1>2, <2>1, <2>2, <2>3, MutationCommits
<1>3. QED
  BY <1>1, <1>2

\* The invariant of the course: snapshots are normalised, the working tables
\* extend the latest of them, and rollbacks restored what they named.
THEOREM GraphInvariant == Spec => []GraphInv
BY GraphInit, GraphNext, PTL DEF Spec

\* Reading the tables back gives the latest snapshot, for any sequence of
\* mutations: merging instead of replacing the textbook sections loses and
\* invents nothing.
THEOREM TablesHoldTheLatest == Spec => []TablesHoldLatest
<1>1. GraphInv => TablesHoldLatest
  <2> SUFFICES ASSUME GraphInv, snapshots # <<>>, Valid(Latest)
               PROVE  Load = Latest
    BY DEF TablesHoldLatest
  <2>1. /\ tables = [Latest EXCEPT !.sections = tables.sections]
        /\ Latest.sections \subseteq tables.sections
        /\ Latest.sections = Mapped(Latest.mappings)
    BY DEF GraphInv, TablesExtendLatest, Valid
  <2>2. PICK c : c = Latest
    OBVIOUS
  <2>3. Shaped(c)
    <3>1. Len(snapshots) \in 1..Len(snapshots)
      BY EmptySeq DEF GraphInv
    <3>2. QED
      BY <2>2, <3>1 DEF GraphInv, SnapshotsNormalized, Latest
  <2>4. PICK x : x = tables.sections
    OBVIOUS
  <2>5. tables = [course |-> c.course, points |-> c.points, edges |-> c.edges,
                  mistakes |-> c.mistakes, sections |-> x,
                  mappings |-> c.mappings, questions |-> c.questions]
    BY <2>1, <2>2, <2>3, <2>4 DEF Shaped
  <2>6. Mapped(tables.mappings) \intersect tables.sections = c.sections
    BY <2>1, <2>2, <2>4, <2>5
  <2>7. Load = [tables EXCEPT !.sections = c.sections]
    BY <2>6 DEF Load
  <2>8. Load = [course |-> c.course, points |-> c.points, edges |-> c.edges,
                mistakes |-> c.mistakes, sections |-> c.sections,
                mappings |-> c.mappings, questions |-> c.questions]
    BY <2>5, <2>7
  <2>9. QED
    BY <2>2, <2>3, <2>8 DEF Shaped
<1>2. QED
  BY <1>1, GraphInvariant, PTL

\* A rollback restores its snapshot, whatever happened in between.
THEOREM RollbacksRestore == Spec => []RollbackRestores
<1>1. GraphInv => RollbackRestores
  BY DEF GraphInv
<1>2. QED
  BY <1>1, GraphInvariant, PTL

\* No point and no prerequisite changes under its revision, unless the graph was
\* imported or rolled back: levels and weights that move because of another
\* point or edge count too.
THEOREM ChangesRaiseRevisions == Spec => ChangeRaisesRevision
<1> DEFINE Raised ==
      \/ Later(tables'.points, tables.points) /\ Later(tables'.edges, tables.edges)
      \/ snapshots'[Len(snapshots')].action \in {"GRAPH_IMPORTED", "GRAPH_ROLLED_BACK"}
<1>1. GraphInv /\ [Next]_vars => [Raised]_vars
  <2> SUFFICES ASSUME GraphInv, Next PROVE Raised
    OBVIOUS
  <2>1. ASSUME NEW c, NEW action, NEW from, Commit(c, action, from)
        PROVE  snapshots'[Len(snapshots')].action = action
    BY <2>1, AppendSnapshot DEF Commit
  <2>2. ASSUME NEW c, NEW action, Changes(c), Commit(c, action, 0)
        PROVE  Raised
    <3>1. Shaped(c)
      BY <2>2 DEF Changes
    <3>2. /\ tables'.points = Normalized(c).points
          /\ tables'.edges = c.edges
          /\ DOMAIN Normalized(c).points = DOMAIN c.points
      <4>1. tables' = [Normalized(c) EXCEPT !.sections = @ \union tables.sections]
        BY <2>2 DEF Commit, Replaced
      <4>2. Shaped(Normalized(c)) /\ DOMAIN Normalized(c).points = DOMAIN c.points
        BY <3>1, NormalizedContent
      <4>3. Normalized(c).edges = c.edges
        BY <3>1, NormalizedFields
      <4>4. QED
        BY <4>1, <4>2, <4>3, ShapedFields
    <3>3. Later(tables'.edges, tables.edges)
      BY <2>2, <3>2 DEF Changes
    <3>4. ASSUME NEW p \in DOMAIN tables.points, p \in DOMAIN c.points
          PROVE  \/ tables'.points[p] = tables.points[p]
                 \/ tables'.points[p].revision > tables.points[p].revision
      <4>1. \/ c.points[p] = tables.points[p]
            \/ c.points[p].revision > tables.points[p].revision
        BY <2>2, <3>4 DEF Changes, Later
      <4>2. \/ tables'.points[p] = c.points[p]
            \/ tables'.points[p].revision > c.points[p].revision
        BY <3>1, <3>2, <3>4, NormalizedPoint
      <4>3. /\ tables.points[p].revision \in Nat
            /\ c.points[p].revision \in Nat
            /\ tables'.points[p].revision \in Nat
        <5>1. ShapedPoint(tables'.points[p])
          BY <3>1, <3>2, <3>4, NormalizedPoint
        <5>2. QED
          BY <3>1, <3>4, <5>1 DEF GraphInv, Shaped, ShapedPoint
      <4> QED BY <4>1, <4>2, <4>3
    <3>5. Later(tables'.points, tables.points)
      BY <3>2, <3>4 DEF Later
    <3> QED BY <3>3, <3>5
  <2>3. ASSUME NEW b \in Bundles, Commit(b, "GRAPH_IMPORTED", 0)
        PROVE  Raised
    BY <2>1, <2>3
  <2>4. ASSUME NEW v \in 1..Len(snapshots),
               Commit(RolledForward(snapshots[v].content, Len(snapshots) + 1),
                      "GRAPH_ROLLED_BACK", v)
        PROVE  Raised
    BY <2>1, <2>4
  <2>5. QED
    BY <2>2, <2>3, <2>4, MutationCommits
<1>2. QED
  BY <1>1, GraphInvariant, PTL DEF Spec, ChangeRaisesRevision

\* Whatever mutations led to it, the latest version is acyclic, and the levels
\* stored with its points are the lengths of the longest chains of prerequisites.
THEOREM LevelsStayLongest == Spec => []LevelsAreLongestPaths
<1>1. Init => LevelsAreLongestPaths
  BY DEF Init, LevelsAreLongestPaths
<1>2. GraphInv /\ LevelsAreLongestPaths /\ [Next]_vars => LevelsAreLongestPaths'
  <2> SUFFICES ASSUME GraphInv, LevelsAreLongestPaths, [Next]_vars
               PROVE  LevelsAreLongestPaths'
    OBVIOUS
  <2>1. CASE UNCHANGED vars
    BY <2>1 DEF vars, LevelsAreLongestPaths, Latest
  <2>2. ASSUME NEW c, NEW action, NEW from, Shaped(c), Commit(c, action, from)
        PROVE  LevelsAreLongestPaths'
    <3>1. PICK d : d = Normalized(c)
      OBVIOUS
    <3>2. snapshots' = Append(snapshots, [content |-> d, action |-> action,
                                          restored |-> from])
      BY <2>2, <3>1 DEF Commit
    <3>3. snapshots'[Len(snapshots')] = [content |-> d, action |-> action, restored |-> from]
      BY <3>2, AppendSnapshot
    <3>4. Latest' = d
      BY <3>3 DEF Latest
    <3>5. PICK nodes : nodes = DOMAIN c.points
      OBVIOUS
    <3>6. PICK edges : edges = Links(c.edges)
      OBVIOUS
    <3>7. IsFiniteSet(nodes) /\ ~HasCycle(nodes, edges)
      BY <2>2, <3>5, <3>6 DEF Shaped, Commit, Analysable
    <3>8. DOMAIN d.points = nodes /\ Links(d.edges) = edges
      BY <2>2, <3>1, <3>5, <3>6, NormalizedContent, NormalizedFields
    <3>9. \A n \in nodes : d.points[n].level = Levels(nodes, edges)[n]
      <4>1. Shaped(d) /\ Rated(d) = d.points
        BY <2>2, <3>1, NormalizedContent
      <4>2. \A n \in nodes :
              Rated(d)[n] = [revision |-> d.points[n].revision, doc |-> d.points[n].doc,
                             difficulty |-> Difficulty(Base[d.points[n].doc],
                                                       Cardinality(Incoming(d.edges, n))),
                             level |-> Levels(nodes, edges)[n],
                             weight |-> Weights(nodes, edges)[n]]
        BY <3>8, <4>1, RatedPoint
      <4>3. \A n \in nodes : Rated(d)[n].level = Levels(nodes, edges)[n]
        <5> TAKE n \in nodes
        <5>1. PICK lev : lev = Levels(nodes, edges)[n]
          OBVIOUS
        <5>2. PICK f : f = Difficulty(Base[d.points[n].doc], Cardinality(Incoming(d.edges, n)))
          OBVIOUS
        <5>3. PICK w : w = Weights(nodes, edges)[n]
          OBVIOUS
        <5>4. Rated(d)[n] = [revision |-> d.points[n].revision, doc |-> d.points[n].doc,
                             difficulty |-> f, level |-> lev, weight |-> w]
          BY <4>2, <5>1, <5>2, <5>3, Zenon
        <5> QED BY <5>1, <5>4
      <4> QED BY <4>1, <4>3
    <3>10. /\ Acyclic(nodes, edges)
           /\ \A n \in nodes : Levels(nodes, edges)[n] = LongestPath(nodes, edges, n)
      BY <3>7, LevelsAreLongest
    <3> QED BY <3>4, <3>8, <3>9, <3>10 DEF LevelsAreLongestPaths
  <2>3. CASE Next
    <3>1. ASSUME NEW v \in 1..Len(snapshots)
          PROVE  Shaped(RolledForward(snapshots[v].content, Len(snapshots) + 1))
      <4>1. Shaped(snapshots[v].content)
        BY DEF GraphInv, SnapshotsNormalized
      <4>2. Len(snapshots) + 1 \in Nat
        BY LenProperties DEF GraphInv
      <4> QED BY <4>1, <4>2, RolledForwardContent
    <3> QED
      BY <2>2, <2>3, <3>1, MutationCommits, BundlesAssumption DEF Changes
  <2> QED BY <2>1, <2>3
<1>3. QED
  BY <1>1, <1>2, GraphInvariant, PTL DEF Spec
=============================================================================
