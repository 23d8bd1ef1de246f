--------------------------- MODULE OrderedDelivery ---------------------------
(***************************************************************************)
(* What the outbox promises its consumers, with no worker, claim, lease or *)
(* reservation in sight (docs/topic3/envelope-and-infrastructure.md): the  *)
(* messages of a partition are handed to the handlers at least once and in *)
(* sequence, and a message is confirmed for good, after its handlers have  *)
(* been started and after every message before it.                         *)
(***************************************************************************)
EXTENDS Naturals

CONSTANTS Partitions, Length

Messages == 0..(Length - 1)

VARIABLES confirmed,  \* the confirmed messages of each partition
          runs        \* how often the handlers of each were started

vars == <<confirmed, runs>>

Init ==
  /\ confirmed = [p \in Partitions |-> {}]
  /\ runs = [p \in Partitions |-> [n \in Messages |-> 0]]

InTurn(p, n) == \A m \in 0..(n - 1) : m \in confirmed[p]

Start(p, n) ==
  /\ InTurn(p, n)
  /\ runs' = [runs EXCEPT ![p][n] = @ + 1]
  /\ UNCHANGED confirmed

Confirm(p, n) ==
  /\ InTurn(p, n)
  /\ n \notin confirmed[p] /\ runs[p][n] > 0
  /\ confirmed' = [confirmed EXCEPT ![p] = @ \union {n}]
  /\ UNCHANGED runs

Next == \E p \in Partitions, n \in Messages : Start(p, n) \/ Confirm(p, n)

Spec == Init /\ [][Next]_vars
=============================================================================
