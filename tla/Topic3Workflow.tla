--------------------------- MODULE Topic3Workflow ---------------------------
(***************************************************************************)
(* Topic 3: one generation workflow executed by several API processes.     *)
(* create_workflow commits the session, its PENDING tasks and the          *)
(* topic3.workflow.created event.  A process that consumes the event, or   *)
(* whose Topic3WorkflowRecoveryCoordinator scans for unfinished sessions,  *)
(* queues an execution; so does a POST to /execute.  Topic3Orchestrator    *)
(* executes the tasks under a session-level advisory lock of PostgreSQL,   *)
(* a batch at a time with asyncio.gather.                                  *)
(*                                                                         *)
(* Each transaction of Topic3Service is one step: it is SERIALIZABLE and   *)
(* commits its idempotency record with its rows.  A call of an agent lasts *)
(* from the step that starts the task to the step that records its end.    *)
(* gather does not cancel the siblings of a task run that raises: they go  *)
(* on after the execution has failed and its lock is gone (orphans).       *)
(***************************************************************************)
EXTENDS AgentTasks, Sequences

CONSTANTS Processes,
          QueueAttempts,    \* max_attempts of a queued execution
          Worlds            \* the deployments looked at, see world

Jobs == Processes \X {"coordinator", "api"}

ASSUME WorkflowAssumption ==
  /\ Nothing \notin Jobs
  /\ QueueAttempts \in Nat \ {0}
  /\ \A w \in Worlds :
       /\ DOMAIN w = {"processes", "request", "posts", "kinds", "left"}
       /\ w.processes \subseteq Processes /\ w.request \in Blueprints
       /\ w.posts \in Nat /\ w.left \in Nat
       /\ w.kinds \subseteq {"accept", "crash", "database", "lock", "rejected",
                             "timeout"}

VARIABLES
  session,  \* latest snapshot of the generation session
  task,     \* latest snapshot of each task
  keys,     \* completed idempotency records of each task, one per version
  cand,     \* the candidate of each task, and those its agent was given
  event,    \* delivery of topic3.workflow.created
  lock,     \* the execution that holds the advisory lock, or Nothing
  job,      \* queued or running execution of each process and origin
  run,      \* _run_task of each execution and task
  orphans,  \* task runs whose execution has failed
  up,       \* processes that are running
  world     \* the processes, the request, the POSTs and faults still to come

stored == <<session, task, keys, cand>>
execution == <<lock, job, run, orphans>>
vars == <<session, task, keys, cand, event, lock, job, run, orphans, up, world>>

request == world.request   \* the agents of the blueprint

FinalStates == {"COMPLETED", "PARTIAL", "FAILED"}
Unfinished == {"PLANNED", "RUNNING"}

\* The rows: the latest snapshot of the session with its result, the completed
\* keys of a task, and the candidate with those its agent was given.
SessionRows == [state : {"NONE"} \cup Unfinished \cup FinalStates,
                result : [states : [Tasks -> TaskStates],
                          drafts : [Tasks -> AllDrafts \cup {Nothing}]]]
KeyRows == [transition : Transitions, exact : BOOLEAN,
            content : AllDrafts \cup AllFailures \cup {Nothing}]
CandidateRows == [draft : AllDrafts \cup {Nothing}, given : SUBSET AllDrafts]

NoCandidate == [draft |-> Nothing, given |-> {}]
NoResult == [states |-> [t \in Tasks |-> "PENDING"],
             drafts |-> [t \in Tasks |-> Nothing]]
NoRun == [pc |-> "none", current |-> Pending, given |-> {}, draft |-> Nothing]
NoJob == [pc |-> "idle", tries |-> 0, view |-> [t \in Tasks |-> Pending],
          drafts |-> [t \in Tasks |-> Nothing]]

Inside == {"start", "load", "dag", "gather", "finalize"}

JobRecords == [pc : {"idle", "queued"} \cup Inside, tries : 0..QueueAttempts,
               view : [Tasks -> Snapshots],
               drafts : [Tasks -> AllDrafts \cup {Nothing}]]

RunRecords == [pc : {"none", "mark", "agent", "done"}, current : Snapshots,
               given : SUBSET AllDrafts, draft : AllDrafts \cup {Nothing}]

\* The type of the state.
TypeOK ==
  /\ session \in SessionRows
  /\ task \in [Tasks -> Snapshots]
  /\ \A t \in Tasks : keys[t] \in Seq(KeyRows)
  /\ cand \in [Tasks -> CandidateRows]
  /\ event \in {"none", "pending", "acknowledged"}
  /\ lock \in Jobs \cup {Nothing}
  /\ job \in [Jobs -> JobRecords]
  /\ run \in [Jobs -> [Tasks -> RunRecords]]
  /\ orphans \subseteq [process : Processes, task : Tasks, run : RunRecords]
  /\ up \in [Processes -> BOOLEAN]
  /\ \E w \in Worlds : world \in {[w EXCEPT !.posts = n, !.left = m] :
                                   n \in 0..w.posts, m \in 0..w.left}

Init ==
  /\ session = [state |-> "NONE", result |-> NoResult]
  /\ task = [t \in Tasks |-> Pending]
  /\ keys = [t \in Tasks |-> <<>>]
  /\ cand = [t \in Tasks |-> NoCandidate]
  /\ event = "none"
  /\ lock = Nothing
  /\ job = [j \in Jobs |-> NoJob]
  /\ run = [j \in Jobs |-> [t \in Tasks |-> NoRun]]
  /\ orphans = {}
  /\ world \in Worlds
  /\ up = [p \in Processes |-> p \in world.processes]

Fault(kind) ==
  /\ kind \in world.kinds /\ world.left > 0
  /\ world' = [world EXCEPT !.left = @ - 1]

-----------------------------------------------------------------------------
(* Transactions on a task: mark_task_running, complete_task, fail_task and  *)
(* skip_task through _execute_mutation.                                     *)

\* The key names the task, the transition and the version it leads to.
KeyUsed(t, current, transition) ==
  /\ current.version <= Len(keys[t])
  /\ keys[t][current.version].transition = transition

\* Mutant: the request digest is not compared.
AnyRequest(t, current, content) == TRUE

\* The digest covers the snapshot the request starts from and its content.
SameRequest(t, current, content) ==
  LET key == keys[t][current.version]
  IN key.exact /\ current.exact /\ key.content = content

\* The committed answer is returned again.
Replayed(t, current, transition, content) ==
  KeyUsed(t, current, transition) /\ SameRequest(t, current, content)

\* _assert_latest_task
Latest(t, current) ==
  /\ task[t].version = current.version
  /\ task[t].state = current.state

\* A new key, a current snapshot, and no second candidate of the task.
Fresh(t, current, transition) ==
  /\ ~KeyUsed(t, current, transition)
  /\ Latest(t, current)
  /\ transition = "complete" => cand[t].draft = Nothing

\* Any other request is a conflict and raises.
Accepted(t, current, transition, content) ==
  \/ Fresh(t, current, transition)
  \/ Replayed(t, current, transition, content)

AppendSnapshot(t, current, transition, content, given) ==
  /\ task' = [task EXCEPT ![t] =
                NextSnapshot(current, transition, content, TRUE)]
  /\ keys' = [keys EXCEPT ![t] =
                Append(@, [transition |-> transition, exact |-> current.exact,
                           content |-> content])]
  /\ cand' = IF transition = "complete"
             THEN [cand EXCEPT ![t] = [draft |-> content, given |-> given]]
             ELSE cand

Persist(t, current, transition, content, given) ==
  IF Fresh(t, current, transition)
  THEN AppendSnapshot(t, current, transition, content, given)
  ELSE UNCHANGED <<task, keys, cand>>

\* The snapshot the caller goes on with.
Returned(t, current, transition, content) ==
  NextSnapshot(current, transition, content, Fresh(t, current, transition))

-----------------------------------------------------------------------------
(* Requests, the event and the queue.                                       *)

\* POST /generations: create_workflow.
CreateWorkflow ==
  /\ session.state = "NONE"
  /\ session' = [session EXCEPT !.state = "PLANNED"]
  /\ event' = "pending"
  /\ UNCHANGED <<task, keys, cand, execution, up, world>>

\* start_workflow; any later call changes nothing.
Started(s) ==
  IF s.state = "PLANNED" THEN [s EXCEPT !.state = "RUNNING"] ELSE s

\* _schedule: a process has at most one execution of its coordinator.
Scheduled(p) ==
  LET j == <<p, "coordinator">>
  IN IF job[j].pc = "idle" THEN [job EXCEPT ![j].pc = "queued"] ELSE job

\* Topic3WorkflowOutboxConsumer: accept returns and the event is acknowledged.
Accept(p) ==
  /\ up[p] /\ event = "pending"
  /\ session' = Started(session)
  /\ job' = IF session.state \in Unfinished THEN Scheduled(p) ELSE job
  /\ event' = "acknowledged"
  /\ UNCHANGED <<task, keys, cand, lock, run, orphans, up, world>>

\* The handler fails after start_workflow has committed.
AcceptFails(p) ==
  /\ Fault("accept")
  /\ up[p] /\ event = "pending"
  /\ session' = Started(session)
  /\ UNCHANGED <<task, keys, cand, event, execution, up>>

\* Mutant: only sessions that were never started are looked for.
ReconcilePlanned(p) ==
  /\ up[p] /\ session.state = "PLANNED" /\ job[<<p, "coordinator">>].pc = "idle"
  /\ job' = Scheduled(p)
  /\ UNCHANGED <<stored, event, lock, run, orphans, up, world>>

\* A scan of the coordinator: unfinished sessions without an execution here.
Reconcile(p) ==
  /\ up[p] /\ session.state \in Unfinished /\ job[<<p, "coordinator">>].pc = "idle"
  /\ job' = Scheduled(p)
  /\ UNCHANGED <<stored, event, lock, run, orphans, up, world>>

\* POST /generations/{id}/execute
PostExecute(p) ==
  /\ up[p] /\ session.state # "NONE" /\ world.posts > 0
  /\ job[<<p, "api">>].pc = "idle"
  /\ job' = [job EXCEPT ![<<p, "api">>].pc = "queued"]
  /\ world' = [world EXCEPT !.posts = @ - 1]
  /\ UNCHANGED <<stored, event, lock, run, orphans, up>>

\* A retriable error: the queue tries again, or gives the execution up.
Requeued(j, tries) ==
  IF tries < QueueAttempts
  THEN [pc |-> "queued", tries |-> tries, view |-> NoJob.view,
        drafts |-> NoJob.drafts]
  ELSE NoJob

\* A queue worker takes the execution and tries the advisory lock.
Execute(j) ==
  /\ job[j].pc = "queued"
  /\ IF lock = Nothing
     THEN /\ lock' = j
          /\ job' = [job EXCEPT ![j] = [pc |-> "start", tries |-> @.tries + 1,
                                        view |-> @.view, drafts |-> @.drafts]]
     ELSE /\ job' = [job EXCEPT ![j] = Requeued(j, @.tries + 1)]
          /\ UNCHANGED lock
  /\ UNCHANGED <<stored, event, run, orphans, up, world>>

\* The circuit is open or the tenant's budget is spent on every try, or the
\* request expired.
Rejected(j) ==
  /\ Fault("rejected")
  /\ job[j].pc = "queued"
  /\ job' = [job EXCEPT ![j] = NoJob]
  /\ UNCHANGED <<stored, event, lock, run, orphans, up>>

Unlocked(j) == IF lock = j THEN Nothing ELSE lock

\* The execution returns.
Finish(j) ==
  /\ job' = [job EXCEPT ![j] = NoJob]
  /\ lock' = Unlocked(j)
  /\ UNCHANGED <<run, orphans>>

Live(r) == r.pc \in {"mark", "agent"}

\* A run behind the row by more than the one transition that can be replayed
\* to it, or whose task has ended, commits nothing more.  What such an orphan
\* returns or raises reaches nobody, so it is forgotten.
MayCommit(r, row) ==
  /\ row.state \notin {"SUCCEEDED", "SKIPPED"}
  /\ row.version <= r.current.version + (IF r.current.exact THEN 1 ELSE 0)
StillOrphans(runs) == {o \in runs : MayCommit(o.run, task'[o.task])}

\* The execution raises in task t or, with t = 0, between its batches.
Fail(j, t) ==
  /\ job' = [job EXCEPT ![j] = NoJob]
  /\ lock' = Unlocked(j)
  /\ run' = [run EXCEPT ![j] = [u \in Tasks |-> NoRun]]
  /\ orphans' = StillOrphans(orphans \cup
       {[process |-> j[1], task |-> u, run |-> run[j][u]] :
          u \in {v \in Tasks \ {t} : Live(run[j][v])}})

-----------------------------------------------------------------------------
(* _execute_locked and _execute_dag                                         *)

At(j, pc) == job[j].pc = pc
Goto(j, pc) == job' = [job EXCEPT ![j].pc = pc]

StartWorkflow(j) ==
  /\ At(j, "start")
  /\ session' = Started(session)
  /\ Goto(j, "load")
  /\ UNCHANGED <<task, keys, cand, event, lock, run, orphans, up, world>>

Loaded(j, pc) ==
  job' = [job EXCEPT ![j] = [pc |-> pc, tries |-> @.tries, view |-> task,
                             drafts |-> [t \in Tasks |-> cand[t].draft]]]

\* load_runtime; a finished session is returned as it is.
LoadRuntime(j) ==
  /\ At(j, "load")
  /\ IF session.state \in FinalStates
     THEN Finish(j)
     ELSE Loaded(j, "dag") /\ UNCHANGED <<lock, run, orphans>>
  /\ UNCHANGED <<stored, event, up, world>>

\* The tasks behind a failed one are skipped, one transaction each.
SkipTask(j, t) ==
  /\ At(j, "dag") /\ t \in Blocked(request, job[j].view)
  /\ LET current == job[j].view[t]
     IN /\ Persist(t, current, "skip", Nothing, {})
        /\ IF Accepted(t, current, "skip", Nothing)
           THEN /\ job' = [job EXCEPT ![j].view[t] =
                             Returned(t, current, "skip", Nothing)]
                /\ UNCHANGED <<lock, run, orphans>>
           ELSE Fail(j, 0)
  /\ UNCHANGED <<session, event, up, world>>

\* A task found RUNNING is run again without a new attempt.
BeginsAt(current) == IF current.state = "RUNNING" THEN "agent" ELSE "mark"

\* gather starts the runs of a batch.
StartBatch(j) ==
  /\ At(j, "dag") /\ Blocked(request, job[j].view) = {} /\ Ready(request, job[j].view) # {}
  /\ run' = [run EXCEPT ![j] = [t \in Tasks |->
       IF t \in Batch(request, job[j].view)
       THEN [pc      |-> BeginsAt(job[j].view[t]),
             current |-> job[j].view[t],
             given   |-> {job[j].drafts[d] : d \in Deps(request, t)},
             draft   |-> Nothing]
       ELSE NoRun]]
  /\ Goto(j, "gather")
  /\ UNCHANGED <<stored, event, lock, orphans, up, world>>

\* gather returns the outcomes of the batch.
EndBatch(j) ==
  /\ At(j, "gather") /\ \A t \in Tasks : ~Live(run[j][t])
  /\ LET ended == {t \in Tasks : run[j][t].pc = "done"}
     IN job' = [job EXCEPT ![j] =
          [pc     |-> "dag",
           tries  |-> @.tries,
           view   |-> [t \in Tasks |-> IF t \in ended THEN run[j][t].current
                                                      ELSE job[j].view[t]],
           drafts |-> [t \in Tasks |->
                        IF t \in ended /\ run[j][t].draft # Nothing
                        THEN run[j][t].draft ELSE job[j].drafts[t]]]]
  /\ run' = [run EXCEPT ![j] = [t \in Tasks |-> NoRun]]
  /\ UNCHANGED <<stored, event, lock, orphans, up, world>>

\* Nothing is left to do: the tasks are loaded again.
Reload(j) ==
  /\ At(j, "dag")
  /\ Blocked(request, job[j].view) = {} /\ Ready(request, job[j].view) = {}
  /\ Loaded(j, "finalize")
  /\ UNCHANGED <<stored, event, lock, run, orphans, up, world>>

Result(j) == [states |-> [t \in Tasks |-> job[j].view[t].state],
              drafts |-> job[j].drafts]

\* Refused with active tasks, or when another result was recorded.
MayFinalize(j) ==
  /\ \A t \in Tasks : job[j].view[t].state \notin {"PENDING", "RUNNING"}
  /\ session.state \in FinalStates => session.result = Result(j)

FinalizeWorkflow(j) ==
  /\ At(j, "finalize")
  /\ UNCHANGED <<task, keys, cand, event, up, world>>
  /\ IF MayFinalize(j)
     THEN /\ session' = IF session.state \in FinalStates THEN session
                        ELSE [state  |-> FinalState(Result(j).states),
                              result |-> Result(j)]
          /\ Finish(j)
     ELSE Fail(j, 0) /\ UNCHANGED session

-----------------------------------------------------------------------------
(* _run_task                                                                *)

\* Starts the task, or records what its agent returned or raised.
Moves(t, r) ==
  CASE r.pc = "mark" -> {<<"start", Nothing>>}
    [] r.pc = "agent" -> 
         ({"complete"} \X Drafts[request[t]]) \cup ({"fail"} \X Failures[request[t]])
    [] OTHER -> {}

\* A failed task is started again while its error and attempts allow it.
Onward(s) ==
  CASE s.state = "RUNNING" -> "agent"
    [] s.state = "FAILED" /\ MayRetry(s) -> "mark"
    [] OTHER -> "done"

After(t, r, move) ==
  LET next == Returned(t, r.current, move[1], move[2])
  IN [pc |-> Onward(next), current |-> next, given |-> r.given,
      draft |-> IF move[1] = "complete" THEN move[2] ELSE r.draft]

RunTask(j, t) ==
  LET r == run[j][t]
  IN \E move \in Moves(t, r) :
       /\ Persist(t, r.current, move[1], move[2], r.given)
       /\ IF Accepted(t, r.current, move[1], move[2])
          THEN /\ run' = [run EXCEPT ![j][t] = After(t, r, move)]
               /\ orphans' = StillOrphans(orphans)
               /\ UNCHANGED <<lock, job>>
          ELSE Fail(j, t)
       /\ UNCHANGED <<session, event, up, world>>

\* An orphan goes on like any run; what it raises reaches nobody.
RunOrphan(o) ==
  \E move \in Moves(o.task, o.run) :
    /\ Persist(o.task, o.run.current, move[1], move[2], o.run.given)
    /\ LET next == After(o.task, o.run, move)
       IN orphans' = StillOrphans((orphans \ {o}) \cup
            IF Accepted(o.task, o.run.current, move[1], move[2]) /\ Live(next)
            THEN {[o EXCEPT !.run = next]} ELSE {})
    /\ UNCHANGED <<session, event, lock, job, run, up, world>>

-----------------------------------------------------------------------------
(* Failures                                                                 *)

\* A transaction of a task run fails, or commits and its answer is lost.
RunBreaks(j, t) ==
  /\ Fault("database")
  /\ Live(run[j][t])
  /\ LET r == run[j][t]
     IN \/ UNCHANGED <<task, keys, cand>>
        \/ \E move \in Moves(t, r) :
             /\ Fresh(t, r.current, move[1])
             /\ Persist(t, r.current, move[1], move[2], r.given)
  /\ Fail(j, t)
  /\ UNCHANGED <<session, event, up>>

\* A transaction between two batches fails.
ExecutionBreaks(j) ==
  /\ Fault("database")
  /\ job[j].pc \in Inside \ {"gather"}
  /\ UNCHANGED <<stored, event, up>>
  /\ Fail(j, 0)

\* The queue's timeout cancels the execution and the runs it awaits.
ExecutionTimesOut(j) ==
  /\ Fault("timeout")
  /\ job[j].pc \in Inside
  /\ job' = [job EXCEPT ![j] = Requeued(j, @.tries)]
  /\ run' = [run EXCEPT ![j] = [t \in Tasks |-> NoRun]]
  /\ lock' = Unlocked(j)
  /\ UNCHANGED <<stored, event, orphans, up>>

\* The connection that holds the lock is lost; the execution does not notice.
LockLost ==
  /\ Fault("lock")
  /\ lock # Nothing
  /\ lock' = Nothing
  /\ UNCHANGED <<stored, event, job, run, orphans, up>>

Crash(p) ==
  /\ Fault("crash")
  /\ up[p]
  /\ up' = [up EXCEPT ![p] = FALSE]
  /\ job' = [j \in Jobs |-> IF j[1] = p THEN NoJob ELSE job[j]]
  /\ run' = [j \in Jobs |-> IF j[1] = p THEN [t \in Tasks |-> NoRun] ELSE run[j]]
  /\ orphans' = {o \in orphans : o.process # p}
  /\ lock' = IF lock \in {p} \X {"coordinator", "api"} THEN Nothing ELSE lock
  /\ UNCHANGED <<stored, event>>

Restart(p) ==
  /\ p \in world.processes /\ ~up[p]
  /\ up' = [up EXCEPT ![p] = TRUE]
  /\ UNCHANGED <<stored, event, execution, world>>

-----------------------------------------------------------------------------

\* The steps of one queued or running execution and of the runs it awaits.
JobStep(j) ==
  \/ Execute(j) \/ StartWorkflow(j) \/ LoadRuntime(j)
  \/ \E t \in Tasks : SkipTask(j, t)
  \/ StartBatch(j) \/ EndBatch(j) \/ Reload(j)
  \/ FinalizeWorkflow(j)
  \/ \E t \in Tasks : RunTask(j, t)

Failure ==
  \/ \E p \in Processes : AcceptFails(p) \/ Crash(p)
  \/ \E j \in Jobs : \/ Rejected(j) \/ ExecutionBreaks(j) \/ ExecutionTimesOut(j)
                     \/ \E t \in Tasks : RunBreaks(j, t)
  \/ LockLost

Next ==
  \/ CreateWorkflow
  \/ \E p \in Processes : Accept(p) \/ Reconcile(p) \/ PostExecute(p) \/ Restart(p)
  \/ \E j \in Jobs : JobStep(j)
  \/ \E o \in orphans : RunOrphan(o)
  \/ Failure

Spec == Init /\ [][Next]_vars

\* The coordinators scan for ever, a supervisor restarts a process, and the
\* event loop runs what is ready.  No event delivery and no POST is assumed.
Fairness ==
  /\ \A p \in Processes : WF_vars(Reconcile(p)) /\ WF_vars(Restart(p))
  /\ \A j \in Jobs : WF_vars(JobStep(j))

FairSpec == Spec /\ Fairness

-----------------------------------------------------------------------------
(* Properties                                                               *)

\* What finalize_workflow recorded, and the finalized event carried, stays
\* true: no late run or second execution changes a task or a candidate of a
\* finished session.
FinalResultStands ==
  session.state \in FinalStates =>
    \A t \in Tasks : /\ session.result.states[t] = task[t].state
                     /\ session.result.drafts[t] = cand[t].draft

\* A candidate was generated from the candidates that were persisted for the
\* tasks it depends on, however many runs of those tasks there were.
GroundedOnPersisted ==
  \A t \in Tasks : cand[t].draft # Nothing =>
    cand[t].given = {cand[d].draft : d \in Deps(request, t)}

\* A created workflow is finished, whatever process crashes and whichever
\* event is lost: the session's snapshots are the recovery authority.
WorkflowFinishes ==
  session.state # "NONE" ~> session.state \in FinalStates

-----------------------------------------------------------------------------
(* Why they hold: the keys of a task are the log of its snapshots, and what *)
(* an execution, a run or an orphan holds is a snapshot of that log.        *)

StateAt(log, n) == IF n = 1 THEN "PENDING" ELSE Target[log[n - 1].transition]
StartsBefore(log, n) == {k \in 1..(n - 1) : log[k].transition = "start"}
RetriableAt(log, n) ==
  /\ n > 1 /\ log[n - 1].transition = "fail"
  /\ log[n - 1].content \in Retriable

Recorded(log, s) ==
  /\ s.version \in 1..(Len(log) + 1)
  /\ s.state = StateAt(log, s.version)
  /\ s.attempt = Cardinality(StartsBefore(log, s.version))
  /\ s.retriable <=> RetriableAt(log, s.version)

\* A task that has ended is started and skipped no more.
Ended(s) ==
  \/ s.state \in {"SUCCEEDED", "SKIPPED"}
  \/ s.state = "FAILED" /\ ~MayRetry(s)

EndedAt(log, n) ==
  \/ StateAt(log, n) \in {"SUCCEEDED", "SKIPPED"}
  \/ /\ StateAt(log, n) = "FAILED"
     /\ RetriableAt(log, n) => Cardinality(StartsBefore(log, n)) >= TaskAttempts

\* The row of a task is the end of its log, which goes on behind no ended
\* snapshot; a completion is in the log with the one candidate.
TaskLogged(log, row, c) ==
  /\ log \in Seq(KeyRows) /\ row \in Snapshots
  /\ Recorded(log, row) /\ row.version = Len(log) + 1
  /\ \A n \in 1..Len(log) : ~EndedAt(log, n)
  /\ \A n \in 1..Len(log) : log[n].transition = "complete" =>
       log[n].content \in AllDrafts /\ log[n].content = c.draft

\* given are the persisted candidates of the tasks t depends on.
BuiltOn(q, c, t, given) ==
  /\ \A d \in Deps(q, t) : c[d].draft # Nothing
  /\ given = {c[d].draft : d \in Deps(q, t)}

\* A run of task t starts it, or its agent is at work on persisted candidates.
RunHolds(q, log, c, t, r) ==
  /\ r \in RunRecords /\ Recorded(log, r.current)
  /\ r.pc = "mark" => ~Ended(r.current) /\ r.current.state # "RUNNING"
  /\ r.pc = "agent" => r.current.state = "RUNNING"
  /\ Live(r) => BuiltOn(q, c, t, r.given)
  /\ r.current.state = "SUCCEEDED" => r.draft = c[t].draft

\* An execution that finalizes has seen every task ended.
JobHolds(logs, c, x) ==
  /\ x \in JobRecords
  /\ x.pc \in {"idle", "queued"} => x.tries < QueueAttempts
  /\ \A t \in Tasks :
       /\ Recorded(logs[t], x.view[t])
       /\ x.view[t].state = "SUCCEEDED" => x.drafts[t] = c[t].draft
       /\ x.pc = "finalize" => Ended(x.view[t]) /\ x.drafts[t] = c[t].draft

RowsHold ==
  /\ task = [t \in Tasks |-> task[t]] /\ keys = [t \in Tasks |-> keys[t]]
  /\ cand \in [Tasks -> CandidateRows] /\ request \in Blueprints
  /\ DOMAIN world = {"processes", "request", "posts", "kinds", "left"}
  /\ \A t \in Tasks : TaskLogged(keys[t], task[t], cand[t])
  /\ \A t \in Tasks : cand[t].draft # Nothing =>
                        BuiltOn(request, cand, t, cand[t].given)

WorkHolds ==
  /\ job = [j \in Jobs |-> job[j]] /\ \A j \in Jobs : JobHolds(keys, cand, job[j])
  /\ run = [j \in Jobs |-> [t \in Tasks |-> run[j][t]]]
  /\ \A j \in Jobs, t \in Tasks : RunHolds(request, keys[t], cand, t, run[j][t])
  /\ orphans \subseteq [process : Processes, task : Tasks, run : RunRecords]
  /\ \A o \in orphans :
       /\ Live(o.run) /\ RunHolds(request, keys[o.task], cand, o.task, o.run)

SessionHolds ==
  session.state \in FinalStates =>
    \A t \in Tasks : Ended(task[t]) /\ session.result.states[t] = task[t].state
                     /\ session.result.drafts[t] = cand[t].draft

WorkflowInv == RowsHold /\ WorkHolds /\ SessionHolds

=============================================================================
