------------------------------ MODULE MCTopic2 ------------------------------
(* Two reviews, of one point or of two; a second graph adds a point that    *)
(* builds on the others.                                                    *)
EXTENDS Topic2Learner, TLC

MCSymmetry == Permutations(Calls)

MCEvents == {1, 2}
MCPoint == [e \in MCEvents |-> IF e = 1 THEN "p1" ELSE "p2"]
MCOccurred == [e \in MCEvents |-> 3 - e]

Edge(f, t, k) == [from |-> f, to |-> t, kind |-> k]
MCGraphs ==
  <<[active |-> {"p1", "p2"},
     edges |-> {Edge("p2", "p1", "SUPPORTING"), Edge("p3", "p1", "REQUIRED")}],
    [active |-> {"p1", "p2", "p3"},
     edges |-> {Edge("p1", "p3", "REQUIRED"), Edge("p2", "p3", "RECOMMENDED"),
                Edge("p2", "p1", "SUPPORTING")}]>>

MCOps == {"o1", "o2", "o3", "o4", "o5", "o6", "o7"}
MCKindOf == [o1 |-> "initialize", o2 |-> "rebuild", o3 |-> "rebuild", o4 |-> "restore",
             o5 |-> "refresh", o6 |-> "due", o7 |-> "path"]

\* Profiles are rebuilt and restored, memory is refreshed in both ways, and
\* paths are planned while profiles change.
MCWorlds == {{"o1", "o2", "o3", "o4"}, {"o1", "o2", "o5", "o6"}, {"o1", "o2", "o7"}}

MCAsks == {[targets |-> {"p1", "p2"}, manual |-> <<>>],
           [targets |-> {"p3"}, manual |-> <<"p1", "p2">>],
           [targets |-> {"p3"}, manual |-> <<"p2", "p1", "p3">>]}
MCRankings == {[p1 |-> 1, p2 |-> 2, p3 |-> 3], [p1 |-> 3, p2 |-> 2, p3 |-> 1]}
=============================================================================
