-------------------------- MODULE MCTopic3Workflow --------------------------
(* Small instances of Topic3Workflow for TLC.                               *)
EXTENDS Topic3Workflow, TLC

Parallel == <<"LECTURER", "MIND_MAP">>   \* two tasks of one batch
Dependent == <<"LECTURER", "TESTER">>    \* one waits for the other

\* One fault: of any kind with two processes, or the lock of an execution that
\* a POST has doubled.
RecoveryWorlds ==
  [processes : {Processes}, request : {Parallel, Dependent}, posts : {0},
   kinds : {{"accept", "crash", "database", "rejected", "timeout"}}, left : {1}]
  \cup
  {[processes |-> {CHOOSE p \in Processes : TRUE}, request |-> Dependent,
    posts |-> 1, kinds |-> {"lock"}, left |-> 1]}

\* A process crashes once.
CrashWorlds ==
  {[processes |-> Processes, request |-> Dependent, posts |-> 0,
    kinds |-> {"crash"}, left |-> 1]}

\* A model writes something else every time; the mind map is computed.
MCDrafts == [a \in Agents |-> CASE a = "LECTURER" -> {"lecture", "other lecture"}
                                [] a = "MIND_MAP" -> {"map"}
                                [] OTHER -> {"quiz"}]
MCFailures == [a \in Agents |-> IF a = "LECTURER" THEN {"timeout", "refused"}
                                ELSE {}]
MCRetriable == {"timeout"}

=============================================================================
