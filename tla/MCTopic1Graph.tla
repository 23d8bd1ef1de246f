--------------------------- MODULE MCTopic1Graph ---------------------------
(* Three knowledge points, two documents, and imports that bring a graph, a *)
(* cyclic one among them, or one with sections and mappings, or with a       *)
(* misconception and a question.  The contents of an import are as a client  *)
(* sends them: every revision 1, levels and weights 0.                       *)
EXTENDS Topic1Graph, TLC

MCPoints == {"p1", "p2", "p3"}
MCDocs == {"d1", "d2"}
MCDeclared == [d1 |-> 1, d2 |-> 3]
MCBase == [d1 |-> 190, d2 |-> 0]
MCMapOf == [m1 |-> [kp |-> "p1", section |-> "s2"], m2 |-> [kp |-> "p2", section |-> "s1"]]
MCParent == [s1 |-> NoSection, s2 |-> "s1"]
MCMistakeOf == [e1 |-> "p1"]
MCAskOf == [q1 |-> [kps |-> {"p2"}, mistakes |-> {"e1"}]]

\* A chain, a shortcut, a cycle, and a second relation of the same points.
Required(from, to) == <<from, to, "REQUIRED">>
Chain == {Required("p1", "p2"), Required("p2", "p3")}
MCTies == Chain \union {Required("p1", "p3"), Required("p3", "p1"), <<"p1", "p2", "SUPPORTING">>}

\* The ids an import gives its prerequisites.
IdOf == (Required("p1", "p2") :> "a" @@ Required("p2", "p3") :> "b" @@
         Required("p3", "p1") :> "c" @@ Required("p1", "p3") :> "c" @@
         <<"p1", "p2", "SUPPORTING">> :> "b")

Sent == [revision |-> 1, doc |-> "d1", difficulty |-> 1, level |-> 0, weight |-> 0]
Bare(ties) == [NoContent EXCEPT !.course = 1, !.points = [p \in Points |-> Sent],
                                 !.edges =
                                   [i \in {IdOf[t] : t \in ties} |->
                                      [tie |-> CHOOSE t \in ties : IdOf[t] = i,
                                       revision |-> 1]]]
Course == Bare({Required("p1", "p2")})
WithSections == [Course EXCEPT !.sections = {"s1", "s2"}, !.mappings = {"m1", "m2"}]
WithQuestion == [Course EXCEPT !.mistakes = {"e1"}, !.questions = {"q1"}]

MCBundles == {Bare(Chain), Bare(Chain \union {Required("p3", "p1")}),
              Bare(Chain \union {Required("p1", "p3")}),
              Bare({Required("p1", "p2"), <<"p1", "p2", "SUPPORTING">>}),
              WithSections, WithQuestion}
=============================================================================
