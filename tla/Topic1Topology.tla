--------------------------- MODULE Topic1Topology ---------------------------
(***************************************************************************)
(* domains/topic1/topology.py: the analysis of the prerequisite graph that *)
(* every mutation of a course runs before it is persisted.  An edge is a   *)
(* pair <<prerequisite, dependent>>.  The analysis is Kahn's algorithm     *)
(* with longest-path levels; the order within one round of ready nodes,    *)
(* sorted by identifier in the code, decides neither levels nor            *)
(* descendants, so any ready node may be next.  Weights and difficulty     *)
(* scores are integers, in millionths and in thousandths.                  *)
(***************************************************************************)
EXTENDS Integers, FiniteSets, Functions, FiniteSetsExt

Ready(nodes, edges, order) ==
  {n \in nodes \ order : \A e \in edges : e[2] = n => e[1] \in order}

ConsumedKeepsFirst(edges, state, n) ==
  [order |-> state.order \union {n},
   level |-> [m \in DOMAIN state.level |->
                IF <<n, m>> \in edges /\ state.level[m] = 0
                  THEN state.level[n] + 1
                  ELSE state.level[m]]]

\* One turn of the while loop: the node leaves the ready queue and pushes the
\* level of its dependents.
Consumed(edges, state, n) ==
  [order |-> state.order \union {n},
   level |-> [m \in DOMAIN state.level |->
                IF <<n, m>> \in edges
                  THEN Max({state.level[m], state.level[n] + 1})
                  ELSE state.level[m]]]

\* The loop consumes ready nodes until none is left.
Consume(nodes, edges) ==
  LET run[i \in 0..Cardinality(nodes)] ==
        IF i = 0
          THEN [order |-> {}, level |-> [n \in nodes |-> 0]]
          ELSE LET before == run[i - 1]
                   ready == Ready(nodes, edges, before.order)
               IN IF ready = {} THEN before
                  ELSE Consumed(edges, before, CHOOSE n \in ready : TRUE)
  IN run[Cardinality(nodes)]

\* What stays unconsumed lies on or behind a cycle: TopologyCycleError.
HasCycle(nodes, edges) == Consume(nodes, edges).order # nodes

Levels(nodes, edges) == Consume(nodes, edges).level

\* _descendant_counts: the sets are joined in reverse topological order.
Descendants(nodes, edges) ==
  LET below[i \in 0..Cardinality(nodes)] ==
        IF i = 0 THEN [n \in nodes |-> {}]
        ELSE LET known == below[i - 1]
             IN [n \in nodes |->
                   UNION {{m} \union known[m] : m \in {k \in nodes : <<n, k>> \in edges}}]
  IN [n \in nodes |-> Cardinality(below[Cardinality(nodes)][n])]

\* topology_weight: 0.55 of the share of nodes below plus 0.45 of the depth,
\* rounded to the nearest millionth.
Weights(nodes, edges) ==
  LET level == Levels(nodes, edges)
      below == Descendants(nodes, edges)
      span == Max({1, Cardinality(nodes) - 1})
      depth == Max({1} \union Range(level))
  IN [n \in nodes |->
        IF Cardinality(nodes) = 1 THEN 1000000
        ELSE Min({1000000,
                  (2 * (550000 * below[n] * depth + 450000 * level[n] * span) + span * depth)
                    \div (2 * span * depth)})]

\* classify_difficulty: base is the part of the score the document decides
\* (declared score, formulas, objectives, minutes); every prerequisite up to
\* five adds 0.6 * 0.35 / 5.
Difficulty(base, prerequisites) ==
  LET score == base + 42 * Min({5, prerequisites})
  IN Max({1, Min({5, (score * 5 + 999) \div 1000})})

-----------------------------------------------------------------------------
(* The definitions the algorithm is compared with: a walk of k edges that  *)
(* ends in n.  A walk as long as there are nodes repeats one.              *)

Walk(nodes, edges, k, n) ==
  \E s \in [0..k -> nodes] :
    s[k] = n /\ \A i \in 0..(k - 1) : <<s[i], s[i + 1]>> \in edges

Acyclic(nodes, edges) ==
  \A n \in nodes : ~Walk(nodes, edges, Cardinality(nodes), n)

LongestPath(nodes, edges, n) ==
  Max({k \in 0..(Cardinality(nodes) - 1) : Walk(nodes, edges, k, n)})
=============================================================================
