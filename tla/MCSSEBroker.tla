---------------------------- MODULE MCSSEBroker ----------------------------
(* Instances of SSEBroker for TLC. *)
EXTENDS SSEBroker, TLC

ClientSymmetry == Permutations(Clients)

\* One instance without the bridge, and one that learns of events through it,
\* with one fault of any kind they can meet.
SafeWorlds ==
  {[bridged |-> FALSE, events |-> 3, kinds |-> {"db", "disconnect", "expire"},
    left |-> 1],
   [bridged |-> TRUE, events |-> 2, kinds |-> {"db", "bridge"}, left |-> 1]}

\* The two again: clients lose their connection, the bridge loses its own.
LiveWorlds ==
  {[bridged |-> FALSE, events |-> 3, kinds |-> {"disconnect"}, left |-> 1],
   [bridged |-> TRUE, events |-> 2, kinds |-> {"bridge"}, left |-> 1]}

=============================================================================
