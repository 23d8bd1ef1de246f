----------------------------- MODULE MCIdentity -----------------------------
(* Small instance of the identity runtime.  ra and rb carry one registration *)
(* key, rc registers the same identifier under another; ma and mb carry one  *)
(* profile key, mc changes the contact, md the status.                       *)
EXTENDS Identity

MCKeyOf == [ra |-> "g1", rb |-> "g1", rc |-> "g2",
            ma |-> "p", mb |-> "p", mc |-> "c", md |-> "s"]
MCOpOf == [g1 |-> "REGISTER", g2 |-> "REGISTER", p |-> "PROFILE", c |-> "CONTACT",
           s |-> "STATUS"]
MCUsesOf == [g1 |-> "h1", g2 |-> "h2", p |-> "h1", c |-> "h3", s |-> "h1"]
World(requests, budget) == [requests |-> requests, budget |-> budget]
MCWorlds == {World({"ra"}, 2), World({"mc"}, 2), World({"ra", "rb"}, 1),
             World({"ra", "rc"}, 1), World({"ma", "mb"}, 1), World({"ma", "mc"}, 1),
             World({"ra", "md"}, 1)}
=============================================================================
