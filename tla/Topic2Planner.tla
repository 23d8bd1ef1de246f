--------------------------- MODULE Topic2Planner ---------------------------
(***************************************************************************)
(* domains/topic2/path_planning.py: the order in which a learner is led    *)
(* through the knowledge points of a Topic 1 graph snapshot.               *)
(*                                                                         *)
(* A graph is [active, edges]; an edge is [from, to, kind].  Snapshots are *)
(* acyclic (LevelsAreLongestPaths of Topic1Graph, proved in Topic1Proofs), *)
(* so the removal of cycle edges in sanitize_graph never starts.  Tier,    *)
(* score and identifier of a point decide the order only by comparison:    *)
(* rank is that order, a smaller number for the point that is preferred.   *)
(***************************************************************************)
EXTENDS Topic1Topology, Sequences, SequencesExt

\* sanitize_graph: edges with an endpoint that is not active are dropped.
Sanitized(g) ==
  {e \in g.edges : e.from # e.to /\ e.from \in g.active /\ e.to \in g.active}

\* The edges as Topic1Topology takes them.
Pairs(g) == {<<e.from, e.to>> : e \in Sanitized(g)}

\* _select_nodes: the targets with all that they build on.  A SUPPORTING edge
\* does not pull its prerequisite in.
SelectNodes(g, targets) ==
  LET grown[i \in 0..Cardinality(g.active)] ==
        IF i = 0 THEN targets
        ELSE LET known == grown[i - 1]
             IN known \union {e.from : e \in {d \in Sanitized(g) :
                                               d.to \in known /\ d.kind # "SUPPORTING"}}
  IN grown[Cardinality(g.active)]

\* The key of the heap: position in the manual order, or behind all of it;
\* then tier, score and identifier.
ManualIndex(manual, nodes, k) ==
  IF \E i \in 1..Len(manual) : manual[i] = k
    THEN CHOOSE i \in 1..Len(manual) : manual[i] = k
    ELSE Cardinality(nodes) + 2

Before(manual, nodes, rank, j, k) ==
  LET mj == ManualIndex(manual, nodes, j)
      mk == ManualIndex(manual, nodes, k)
  IN mj < mk \/ (mj = mk /\ rank[j] < rank[k])

ReadyOnRequired(nodes, edges, done) ==
  {n \in nodes \ done :
     \A e \in edges : e.to = n /\ e.from \in nodes /\ e.kind = "REQUIRED" => e.from \in done}

\* The points whose indegree is zero: nothing selected is left before them.
ReadyNodes(nodes, edges, done) ==
  {n \in nodes \ done : \A e \in edges : e.to = n /\ e.from \in nodes => e.from \in done}

\* _ordered_nodes: Kahn's algorithm with a heap.
OrderedNodes(g, nodes, manual, rank) ==
  LET edges == Sanitized(g)
      run[i \in 0..Cardinality(nodes)] ==
        IF i = 0 THEN <<>>
        ELSE LET sofar == run[i - 1]
                 ready == ReadyNodes(nodes, edges, ToSet(sofar))
             IN IF ready = {} THEN sofar
                ELSE Append(sofar, CHOOSE k \in ready :
                              \A j \in ready \ {k} : Before(manual, nodes, rank, k, j))
  IN run[Cardinality(nodes)]

\* What plan refuses: unknown targets, and a manual order that repeats points
\* or names one that is not on the path.
Plannable(g, ask) ==
  /\ g.active # {}
  /\ ask.targets \subseteq g.active
  /\ ToSet(ask.manual) \subseteq SelectNodes(g, ask.targets)
  /\ IsInjective(ask.manual)

Plan(g, ask, rank) ==
  OrderedNodes(g, SelectNodes(g, ask.targets), ask.manual, rank)
=============================================================================
