---------------------------- MODULE MCKnowledge ----------------------------
(***************************************************************************)
(* Two processes.  Both import the source s1, p2 also s2; p1 builds v1 of  *)
(* s1 expecting no activation, p2 builds v2 of s1 or claims the label v1   *)
(* for s2; one claim is asked of both processes under one key.             *)
(***************************************************************************)
EXTENDS Knowledge

MCRequests == {"i1", "i2", "i3", "b1", "b2", "b3", "q1", "q2"}
MCSourceParts == <<"sections", "ir">>
MCShardParts == <<"faiss", "bm25">>

MCCommand ==
  [i1 |-> [op |-> "import", proc |-> "p1", key |-> "ki1", source |-> "s1",
           citation |-> "c", meta |-> "m"],
   i2 |-> [op |-> "import", proc |-> "p2", key |-> "ki2", source |-> "s1",
           citation |-> "c", meta |-> "m"],
   i3 |-> [op |-> "import", proc |-> "p2", key |-> "ki3", source |-> "s2",
           citation |-> "d", meta |-> "m"],
   b1 |-> [op |-> "build", proc |-> "p1", key |-> "kb1", label |-> "v1",
           sources |-> {"s1"}, expected |-> {0}],
   b2 |-> [op |-> "build", proc |-> "p2", key |-> "kb2", label |-> "v2",
           sources |-> {"s1"}, expected |-> {}],
   b3 |-> [op |-> "build", proc |-> "p2", key |-> "kb3", label |-> "v1",
           sources |-> {"s2"}, expected |-> {}],
   q1 |-> [op |-> "retrieve", proc |-> "p1", key |-> "kq1", claim |-> "c1"],
   q2 |-> [op |-> "retrieve", proc |-> "p2", key |-> "kq1", claim |-> "c1"]]

=============================================================================
