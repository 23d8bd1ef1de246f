------------------------------ MODULE AgentTasks ------------------------------
(***************************************************************************)
(* The agent tasks of one Topic 3 workflow: the snapshots that             *)
(* domains/topic3/service.py appends to topic3_agent_tasks, and what the   *)
(* orchestrator derives from a view of them.                               *)
(*                                                                         *)
(* A task is named by its ordinal in the blueprint.  A snapshot records    *)
(* its version, state, attempt and whether the recorded error may be       *)
(* retried.  exact is FALSE for a snapshot that only its holder has: a     *)
(* transition answered from an idempotency record leaves the caller with   *)
(* timestamps of its own, and the digest of its next request covers them.  *)
(***************************************************************************)
EXTENDS Naturals, FiniteSets

CONSTANTS TaskCount,        \* steps of the blueprint
          TaskAttempts,     \* max_attempts of a step
          MaxParallelism,   \* max_parallelism of the blueprint
          AllowPartial,     \* allow_partial of the command
          Drafts,           \* contents each agent may produce
          Failures,         \* errors each agent may end with
          Retriable,        \* errors whose retriable flag is set
          Nothing           \* no content

Tasks == 1..TaskCount
Agents == {"LECTURER", "MIND_MAP", "TESTER", "CODE_SANDBOX", "EXTENSION"}
AllDrafts == UNION {Drafts[a] : a \in Agents}
AllFailures == UNION {Failures[a] : a \in Agents}

ASSUME BlueprintAssumption ==
  /\ TaskCount \in Nat \ {0}
  /\ TaskAttempts \in Nat \ {0} /\ MaxParallelism \in Nat \ {0}
  /\ AllowPartial \in BOOLEAN
  /\ DOMAIN Drafts = Agents /\ DOMAIN Failures = Agents
  /\ Nothing \notin AllDrafts \cup AllFailures
  /\ AllDrafts \cap AllFailures = {}

\* A request names the agent of each step in the order of the planner.
Blueprints == {r \in [Tasks -> Agents] : \A t, u \in Tasks : r[t] = r[u] => t = u}

\* The planner: the tester, the code and the extension build on the lecture
\* when one is requested; the lecture and the mind map on nothing.
Deps(request, t) ==
  {u \in Tasks : /\ request[u] = "LECTURER"
                 /\ request[t] \in {"TESTER", "CODE_SANDBOX", "EXTENSION"}}

TaskStates == {"PENDING", "RUNNING", "SUCCEEDED", "FAILED", "SKIPPED"}

Snapshots == [version : Nat, state : TaskStates, attempt : 0..TaskAttempts,
              retriable : BOOLEAN, exact : BOOLEAN]

Pending == [version |-> 1, state |-> "PENDING", attempt |-> 0,
            retriable |-> FALSE, exact |-> TRUE]

\* The state each transition leads to.
Target == [start |-> "RUNNING", complete |-> "SUCCEEDED", fail |-> "FAILED",
           skip |-> "SKIPPED"]
Transitions == DOMAIN Target

\* The next snapshot of mark_task_running, complete_task, fail_task, skip_task.
NextSnapshot(current, transition, content, exact) ==
  [version   |-> current.version + 1,
   state     |-> Target[transition],
   attempt   |-> IF transition = "start" THEN current.attempt + 1
                                         ELSE current.attempt,
   retriable |-> transition = "fail" /\ content \in Retriable,
   exact     |-> exact]

MayRetry(s) == s.retriable /\ s.attempt < TaskAttempts

-----------------------------------------------------------------------------
(* What _execute_dag computes from its view, a function on Tasks.           *)

\* Mutant: a failed task is done, whatever it failed with.
FailedIsDone(view) == {t \in Tasks : view[t].state \in {"PENDING", "RUNNING"}}

Actionable(view) ==
  {t \in Tasks : \/ view[t].state \in {"PENDING", "RUNNING"}
                 \/ view[t].state = "FAILED" /\ MayRetry(view[t])}

Blocked(request, view) ==
  {t \in Actionable(view) :
     \E d \in Deps(request, t) : view[d].state \in {"FAILED", "SKIPPED"}}

Ready(request, view) ==
  {t \in Actionable(view) : \A d \in Deps(request, t) : view[d].state = "SUCCEEDED"}

\* The first max_parallelism ready tasks by ordinal.
Batch(request, view) ==
  {t \in Ready(request, view) :
     Cardinality({u \in Ready(request, view) : u < t}) < MaxParallelism}

\* The final state finalize_workflow derives from the tasks' states.
FinalState(states) ==
  LET succeeded == {t \in Tasks : states[t] = "SUCCEEDED"}
  IN CASE succeeded = Tasks -> "COMPLETED"
       [] succeeded # Tasks /\ AllowPartial /\ succeeded # {} -> "PARTIAL"
       [] OTHER -> "FAILED"

=============================================================================
