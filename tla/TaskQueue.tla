----------------------------- MODULE TaskQueue -----------------------------
(***************************************************************************)
(* AsyncTaskQueue (infrastructure/tasks/queue.py) with the guards every    *)
(* task runs behind (infrastructure/resilience.py): the tenant's token     *)
(* bucket, the circuit breaker of the task type, the bulkhead, the timeout *)
(* and the retry loop.                                                     *)
(*                                                                         *)
(* One process runs one event loop, so an action is what runs between two  *)
(* awaits.  The asyncio queue is external: put parks its caller while the  *)
(* queue is full, get wakes one parked caller, and join returns on the     *)
(* wake-up that follows unfinished = 0 without looking again.  Clocks are  *)
(* abstracted to two events: the reset timeout of an open circuit passes   *)
(* (Cool), a token is refilled (Refill).  All tasks are of one tenant and, *)
(* unless they name no registered handler, of one type: limiter and        *)
(* breaker of different tenants and types share nothing.                   *)
(***************************************************************************)
EXTENDS Naturals, FiniteSets

CONSTANTS Tasks, Workers, NoTask,
          Unregistered,   \* the tasks whose type has no handler
          Urgent,         \* the tasks of the higher priority
          Capacity,       \* queue_capacity
          Concurrency,    \* task_concurrency of the bulkhead
          Threshold,      \* circuit_failure_threshold
          MaxAttempts,    \* TaskRequest.max_attempts
          Burst           \* per_tenant_capacity

\* Tasks is what producers may ever enqueue; the workers are finitely many.
ASSUME QueueAssumption ==
  /\ IsFiniteSet(Workers)
  /\ Unregistered \subseteq Tasks /\ Urgent \subseteq Tasks /\ NoTask \notin Tasks
  /\ {Capacity, Concurrency, Threshold, MaxAttempts, Burst} \subseteq Nat \ {0}

VARIABLES
  where,      \* where[t]: how far task t has come
  ordinal,    \* ordinal[t]: its place in the order of enqueue
  attempts,   \* attempts[t]: the calls charged to it
  early,      \* the tasks put into the queue before close was called
  unfinished, \* the counter join waits for
  closing,    \* how far close has come
  job, pc,    \* job[w], pc[w]: the task a worker holds and where it stands
  breaker, tokens, deadLetters

queueVars == <<where, ordinal, attempts, early, unfinished, closing, job, pc,
               breaker, tokens, deadLetters>>

Breakers ==
  [state: {"CLOSED", "OPEN", "HALF_OPEN"}, failures: Nat, probe: BOOLEAN, cooled: BOOLEAN]

QueueTypeOK ==
  /\ where \in [Tasks -> {"new", "parked", "woken", "queued", "running", "succeeded",
                          "failed", "refused", "abandoned"}]
  /\ ordinal \in [Tasks -> Nat]
  /\ attempts \in [Tasks -> 0..MaxAttempts]
  /\ early \subseteq Tasks
  /\ unfinished \in Nat
  /\ closing \in {"open", "joining", "woken", "closed"}
  /\ job \in [Workers -> Tasks \union {NoTask}]
  /\ pc \in [Workers -> {"idle", "execute", "attempt", "bulkhead", "call", "compensate"}]
  /\ breaker \in Breakers
  /\ tokens \in 0..Burst
  /\ deadLetters \subseteq Tasks

QueueInit ==
  /\ where = [t \in Tasks |-> "new"]
  /\ ordinal = [t \in Tasks |-> 0]
  /\ attempts = [t \in Tasks |-> 0]
  /\ early = {}
  /\ unfinished = 0
  /\ closing = "open"
  /\ job = [w \in Workers |-> NoTask]
  /\ pc = [w \in Workers |-> "idle"]
  /\ breaker = [state |-> "CLOSED", failures |-> 0, probe |-> FALSE, cooled |-> FALSE]
  /\ tokens = Burst
  /\ deadLetters = {}

TasksAt(s) == {t \in Tasks : where[t] = s}

Full == Cardinality(TasksAt("queued")) >= Capacity

Ahead(t, u) ==
  \/ t \in Urgent /\ u \notin Urgent
  \/ (t \in Urgent <=> u \in Urgent) /\ ordinal[t] < ordinal[u]

-----------------------------------------------------------------------------
(* Producers: enqueue and the asyncio queue.                               *)

\* put_nowait: the item counts as unfinished from here on.
Put(t) ==
  /\ where' = [where EXCEPT ![t] = "queued"]
  /\ unfinished' = unfinished + 1
  /\ early' = IF closing = "open" THEN early \union {t} ELSE early

Park(t) ==
  /\ where' = [where EXCEPT ![t] = "parked"]
  /\ UNCHANGED <<unfinished, early>>

Enqueue(t) ==
  /\ where[t] = "new"
  /\ closing = "open"
  /\ ordinal' = [ordinal EXCEPT ![t] = Cardinality(Tasks \ TasksAt("new")) + 1]
  /\ IF Full THEN Park(t) ELSE Put(t)
  /\ UNCHANGED <<attempts, closing, job, pc, breaker, tokens, deadLetters>>

EnqueueRefused(t) ==
  /\ where[t] = "new"
  /\ closing # "open"
  /\ where' = [where EXCEPT ![t] = "refused"]
  /\ UNCHANGED <<ordinal, attempts, early, unfinished, closing, job, pc, breaker,
                 tokens, deadLetters>>

\* A parked put resumes; it parks again when another put was faster.  The
\* queue's _closed flag was tested before the wait and is not tested again.
ResumePut(t) ==
  /\ where[t] = "woken"
  /\ IF Full THEN Park(t) ELSE Put(t)
  /\ UNCHANGED <<ordinal, attempts, closing, job, pc, breaker, tokens, deadLetters>>

-----------------------------------------------------------------------------
(* The circuit breaker.  Every operator is one run under its lock.         *)

Admits(b) ==
  CASE b.state = "CLOSED" -> TRUE
    [] b.state = "OPEN" -> b.cooled /\ ~b.probe
    [] b.state = "HALF_OPEN" -> ~b.probe

\* An OPEN circuit that has cooled is HALF_OPEN even if the call is refused.
Asked(b) ==
  CASE b.state = "CLOSED" -> b
    [] b.state = "OPEN" /\ ~b.cooled -> b
    [] OTHER -> [b EXCEPT !.state = "HALF_OPEN", !.probe = TRUE]

CallFailedKeepsProbe(b) ==
  IF b.state = "HALF_OPEN" \/ b.failures + 1 >= Threshold
    THEN [b EXCEPT !.failures = @ + 1, !.state = "OPEN", !.cooled = FALSE]
    ELSE [b EXCEPT !.failures = @ + 1]

\* A failure of any call counts and frees the probe, whichever call it was.
CallFailed(b) ==
  IF b.state = "HALF_OPEN" \/ b.failures + 1 >= Threshold
    THEN [state |-> "OPEN", failures |-> b.failures + 1, probe |-> FALSE, cooled |-> FALSE]
    ELSE [b EXCEPT !.failures = @ + 1, !.probe = FALSE]

CallSucceeded(b) == [state |-> "CLOSED", failures |-> 0, probe |-> FALSE, cooled |-> FALSE]

Cool ==
  /\ breaker.state = "OPEN" /\ ~breaker.cooled
  /\ breaker' = [breaker EXCEPT !.cooled = TRUE]
  /\ UNCHANGED <<where, ordinal, attempts, early, unfinished, closing, job, pc, tokens,
                 deadLetters>>

Refill ==
  /\ tokens < Burst
  /\ tokens' = tokens + 1
  /\ UNCHANGED <<where, ordinal, attempts, early, unfinished, closing, job, pc, breaker,
                 deadLetters>>

-----------------------------------------------------------------------------
(* Workers.                                                                *)

Alive == closing # "closed"

Goto(w, label) == pc' = [pc EXCEPT ![w] = label]

\* get: the first item by priority and ordinal; one parked put is woken.
Take(w) ==
  /\ Alive /\ pc[w] = "idle"
  /\ \E t \in TasksAt("queued") :
       /\ \A u \in TasksAt("queued") \ {t} : Ahead(t, u)
       /\ job' = [job EXCEPT ![w] = t]
       /\ \/ /\ TasksAt("parked") = {}
             /\ where' = [where EXCEPT ![t] = "running"]
          \/ \E p \in TasksAt("parked") :
               where' = [where EXCEPT ![t] = "running", ![p] = "woken"]
  /\ Goto(w, "execute")
  /\ UNCHANGED <<ordinal, attempts, early, unfinished, closing, breaker, tokens, deadLetters>>

\* _execute up to the retry loop: the task has expired, or has no handler.
Execute(w) ==
  /\ Alive /\ pc[w] = "execute"
  /\ \/ Goto(w, "compensate")
     \/ job[w] \notin Unregistered /\ Goto(w, "attempt")
  /\ UNCHANGED <<where, ordinal, attempts, early, unfinished, closing, job, breaker, tokens,
                 deadLetters>>

\* retry_async: another attempt, after its delay, of a retriable failure.
AfterFailure(w, n, retriable) ==
  IF retriable /\ n < MaxAttempts THEN "attempt" ELSE "compensate"

\* operation(): charge the attempt, take a token, ask the breaker.  The rate
\* limit and the open circuit are retriable errors.
Attempt(w) ==
  /\ Alive /\ pc[w] = "attempt"
  /\ LET n == attempts[job[w]] + 1 IN
       /\ attempts' = [attempts EXCEPT ![job[w]] = n]
       /\ \/ /\ tokens = 0
             /\ Goto(w, AfterFailure(w, n, TRUE))
             /\ UNCHANGED <<tokens, breaker>>
          \/ /\ tokens > 0
             /\ tokens' = tokens - 1
             /\ breaker' = Asked(breaker)
             /\ Goto(w, IF Admits(breaker) THEN "bulkhead" ELSE AfterFailure(w, n, TRUE))
  /\ UNCHANGED <<where, ordinal, early, unfinished, closing, job, deadLetters>>

EnterBulkhead(w) ==
  /\ Alive /\ pc[w] = "bulkhead"
  /\ Cardinality({v \in Workers : pc[v] = "call"}) < Concurrency
  /\ Goto(w, "call")
  /\ UNCHANGED <<where, ordinal, attempts, early, unfinished, closing, job, breaker, tokens,
                 deadLetters>>

\* task_done, in the finally of the worker; at zero join is woken.
TaskDoneWakesJoin(w) ==
  /\ Goto(w, "idle")
  /\ job' = [job EXCEPT ![w] = NoTask]
  /\ unfinished' = unfinished - 1
  /\ closing' = IF closing = "joining" THEN "woken" ELSE closing

TaskDone(w) ==
  /\ Goto(w, "idle")
  /\ job' = [job EXCEPT ![w] = NoTask]
  /\ unfinished' = unfinished - 1
  /\ closing' = IF closing = "joining" /\ unfinished = 1 THEN "woken" ELSE closing

\* The handler returns: the future is answered.
CallReturns(w) ==
  /\ Alive /\ pc[w] = "call"
  /\ breaker' = CallSucceeded(breaker)
  /\ where' = [where EXCEPT ![job[w]] = "succeeded"]
  /\ TaskDone(w)
  /\ UNCHANGED <<ordinal, attempts, early, tokens, deadLetters>>

\* The handler raises, or run_with_timeout turns its overrun into a
\* retriable OperationTimeoutError.
CallRaises(w) ==
  /\ Alive /\ pc[w] = "call"
  /\ breaker' = CallFailed(breaker)
  /\ \E retriable \in BOOLEAN : Goto(w, AfterFailure(w, attempts[job[w]], retriable))
  /\ UNCHANGED <<where, ordinal, attempts, early, unfinished, closing, job, tokens, deadLetters>>

CompensateAttempted(w) ==
  /\ Alive /\ pc[w] = "compensate"
  /\ attempts[job[w]] > 0
  /\ deadLetters' = deadLetters \union {job[w]}
  /\ where' = [where EXCEPT ![job[w]] = "failed"]
  /\ TaskDone(w)
  /\ UNCHANGED <<ordinal, attempts, early, breaker, tokens>>

\* _compensate swallows what the compensation raises, so the failure always
\* becomes a dead letter and an answer.
Compensate(w) ==
  /\ Alive /\ pc[w] = "compensate"
  /\ deadLetters' = deadLetters \union {job[w]}
  /\ where' = [where EXCEPT ![job[w]] = "failed"]
  /\ TaskDone(w)
  /\ UNCHANGED <<ordinal, attempts, early, breaker, tokens>>

-----------------------------------------------------------------------------
(* close                                                                   *)

Close ==
  /\ closing = "open"
  /\ closing' = IF unfinished = 0 THEN "woken" ELSE "joining"
  /\ UNCHANGED <<where, ordinal, attempts, early, unfinished, job, pc, breaker, tokens,
                 deadLetters>>

\* The workers are cancelled wherever they stand.  CancelledError passes the
\* breaker's and the worker's except clauses: a call in flight leaves its
\* probe flag set and its future unanswered.
CancelWorkers ==
  /\ closing = "woken"
  /\ closing' = "closed"
  /\ where' = [t \in Tasks |-> IF where[t] = "running" THEN "abandoned" ELSE where[t]]
  /\ unfinished' = unfinished - Cardinality({w \in Workers : job[w] # NoTask})
  /\ job' = [w \in Workers |-> NoTask]
  /\ pc' = [w \in Workers |-> "idle"]
  /\ UNCHANGED <<ordinal, attempts, early, breaker, tokens, deadLetters>>

-----------------------------------------------------------------------------
Work(w) ==
  \/ Take(w) \/ Execute(w) \/ Attempt(w) \/ EnterBulkhead(w)
  \/ CallReturns(w) \/ CallRaises(w) \/ Compensate(w)

QueueNext ==
  \/ \E t \in Tasks : Enqueue(t) \/ EnqueueRefused(t) \/ ResumePut(t)
  \/ \E w \in Workers : Work(w)
  \/ Cool \/ Refill \/ Close \/ CancelWorkers

\* The event loop runs whatever is ready: workers and woken callers.  A call
\* ends because run_with_timeout ends it.  A worker waiting for the bulkhead
\* gets its turn: the semaphore queues its waiters.
QueueFairness ==
  /\ \A w \in Workers : WF_queueVars(Work(w)) /\ SF_queueVars(EnterBulkhead(w))
  /\ \A t \in Tasks : WF_queueVars(ResumePut(t))

QueueSpec == QueueInit /\ [][QueueNext]_queueVars /\ QueueFairness

-----------------------------------------------------------------------------
\* The circuit refuses calls because of a probe only while some call is in
\* flight that will free it: no path out of CircuitBreaker.execute other than
\* the cancellation by close forgets the probe flag.
ProbeHasCall ==
  breaker.probe /\ Alive => \E w \in Workers : pc[w] \in {"bulkhead", "call"}

\* close returns only after every task that was put before it was called has
\* been answered, whatever was put, woken or retried while it waited.
CloseAnswersAccepted ==
  closing = "closed" => early \subseteq TasksAt("succeeded") \union TasksAt("failed")

\* Every task put before close was called is answered, and a failed one is a
\* dead letter: no retry, open circuit, empty bucket or full bulkhead keeps it.
AcceptedIsAnswered ==
  \A t \in Tasks :
    t \in early ~> \/ where[t] = "succeeded"
                   \/ where[t] = "failed" /\ t \in deadLetters

\* Why close may believe the counter: unfinished counts the tasks in the queue
\* and in the hands of the workers, each task in one pair of hands.
Answered == TasksAt("succeeded") \union TasksAt("failed")

Counted ==
  /\ IsFiniteSet(Tasks \ TasksAt("new"))
  /\ unfinished = Cardinality(TasksAt("queued") \union TasksAt("running"))

Hands ==
  /\ \A w \in Workers :
       /\ pc[w] = "idle" <=> job[w] = NoTask
       /\ job[w] # NoTask => where[job[w]] = "running"
  /\ \A v, w \in Workers : job[v] = job[w] /\ job[v] # NoTask => v = w
  /\ \A t \in TasksAt("running") : \E w \in Workers : job[w] = t

EarlyAccounted ==
  IF closing \in {"open", "joining"}
    THEN early \subseteq TasksAt("queued") \union TasksAt("running") \union Answered
    ELSE early \subseteq Answered

\* Calls are charged up to max_attempts, and only to tasks that were taken.
Charged ==
  /\ \A t \in Tasks :
       where[t] \in {"new", "parked", "woken", "queued"} => attempts[t] = 0
  /\ \A w \in Workers :
       /\ pc[w] = "execute" => attempts[job[w]] = 0
       /\ pc[w] = "attempt" => attempts[job[w]] < MaxAttempts

QueueInv == QueueTypeOK /\ Counted /\ Hands /\ EarlyAccounted /\ Charged

\* The queue and the bulkhead keep to their sizes, and no producer waits without
\* cause: while one is parked the queue is full, but for the places kept for
\* producers already woken.
Slots ==
  /\ Cardinality(TasksAt("queued")) <= Capacity
  /\ TasksAt("parked") # {} =>
       Cardinality(TasksAt("queued") \union TasksAt("woken")) >= Capacity
  /\ Cardinality({w \in Workers : pc[w] = "call"}) <= Concurrency
=============================================================================
