------------------------ MODULE InfrastructureProofs ------------------------
(***************************************************************************)
(* Theorems about two parts of the infrastructure.                         *)
(*                                                                         *)
(* TaskQueue: for any set of tasks, any number of workers and every        *)
(* capacity, concurrency, threshold, burst and attempt limit.              *)
(*                                                                         *)
(* SSEBroker: for any set of clients, any number of events, any choice of  *)
(* those that match, every size of the queues, buffers and pages, and any  *)
(* number of faults.                                                       *)
(***************************************************************************)
EXTENDS TaskQueue, SSEBroker, SequenceTheorems, FiniteSetTheorems,
        FunctionTheorems, TLAPS

-----------------------------------------------------------------------------
\* Counting the queue

InHand == TasksAt("queued") \union TasksAt("running")

\* The states of one task.
TaskPlaces == {"new", "parked", "woken", "queued", "running", "succeeded", "failed",
           "refused", "abandoned"}

\* The queue and the workers hold finitely many tasks.
LEMMA InHandFinite ==
  ASSUME QueueInv
  PROVE  /\ IsFiniteSet(InHand)
         /\ unfinished = Cardinality(InHand)
         /\ unfinished \in Nat
<1>1. InHand \subseteq Tasks \ TasksAt("new")
  BY DEF InHand, TasksAt
<1>2. IsFiniteSet(InHand)
  BY <1>1, FS_Subset DEF QueueInv, Counted
<1>3. QED
  BY <1>2, FS_CardinalityType DEF QueueInv, Counted, InHand

\* A task that moves to a place outside new keeps the entered ones finite.
LEMMA EnteredFinite ==
  ASSUME QueueTypeOK, IsFiniteSet(Tasks \ TasksAt("new")), NEW t \in Tasks,
         NEW place \in TaskPlaces \ {"new"}, where' = [where EXCEPT ![t] = place]
  PROVE  IsFiniteSet(Tasks \ TasksAt("new"))'
<1>1. (Tasks \ TasksAt("new"))' = (Tasks \ TasksAt("new")) \union {t}
  <2>1. TasksAt("new")' = TasksAt("new") \ {t}
    BY DEF QueueTypeOK, TasksAt
  <2>2. QED
    BY <2>1
<1>2. QED
  BY <1>1, FS_AddElement

-----------------------------------------------------------------------------
\* The producers

\* put: the item is counted with the item in the queue.
LEMMA PutInv ==
  ASSUME QueueInv, NEW t \in Tasks, where[t] \in {"new", "woken"}, Put(t),
         closing' = closing, job' = job, pc' = pc, attempts' = attempts
  PROVE  /\ where' \in [Tasks -> TaskPlaces] /\ unfinished' \in Nat
         /\ early' \subseteq Tasks
         /\ Counted' /\ Hands' /\ EarlyAccounted' /\ Charged'
<1>0. /\ QueueTypeOK /\ where' = [where EXCEPT ![t] = "queued"]
      /\ unfinished' = unfinished + 1
  BY DEF QueueInv, Put
<1>1. /\ TasksAt("queued")' = TasksAt("queued") \union {t}
      /\ TasksAt("running")' = TasksAt("running")
      /\ TasksAt("succeeded")' = TasksAt("succeeded")
      /\ TasksAt("failed")' = TasksAt("failed")
  BY <1>0 DEF QueueTypeOK, TasksAt
<1>2. Counted'
  <2>1. InHand' = InHand \union {t} /\ t \notin InHand
    BY <1>1 DEF InHand, TasksAt
  <2>2. Cardinality(InHand') = Cardinality(InHand) + 1
    BY <2>1, InHandFinite, FS_AddElement
  <2>3. IsFiniteSet(Tasks \ TasksAt("new"))'
    BY <1>0, EnteredFinite DEF QueueInv, Counted, TaskPlaces
  <2>4. QED
    BY <1>0, <2>2, <2>3, InHandFinite DEF Counted, InHand
<1>3. Hands'
  BY <1>0, <1>1 DEF QueueInv, Hands, QueueTypeOK, TasksAt
<1>4. EarlyAccounted'
  BY <1>1 DEF QueueInv, EarlyAccounted, Put, Answered
<1>5. Charged'
  BY <1>0 DEF QueueInv, Charged, QueueTypeOK
<1>6. /\ where' \in [Tasks -> TaskPlaces] /\ unfinished' \in Nat
      /\ early' \subseteq Tasks
  <2>1. where' \in [Tasks -> TaskPlaces]
    BY <1>0 DEF QueueTypeOK, TaskPlaces
  <2>2. QED
    BY <1>0, <2>1, InHandFinite DEF Put, QueueTypeOK
<1>7. QED
  BY <1>2, <1>3, <1>4, <1>5, <1>6

\* A producer that waits, or is turned away, is nobody's task.
LEMMA AsideInv ==
  ASSUME QueueInv, NEW t \in Tasks, where[t] \in {"new", "woken"},
         NEW place \in {"parked", "refused"},
         where' = [where EXCEPT ![t] = place],
         UNCHANGED <<attempts, early, unfinished, closing, job, pc>>
  PROVE  /\ where' \in [Tasks -> TaskPlaces]
         /\ Counted' /\ Hands' /\ EarlyAccounted' /\ Charged'
<1>0. QueueTypeOK
  BY DEF QueueInv
<1>1. /\ TasksAt("queued")' = TasksAt("queued")
      /\ TasksAt("running")' = TasksAt("running")
      /\ TasksAt("succeeded")' = TasksAt("succeeded")
      /\ TasksAt("failed")' = TasksAt("failed")
  BY <1>0 DEF QueueTypeOK, TasksAt
<1>2. Counted'
  <2>1. IsFiniteSet(Tasks \ TasksAt("new"))'
    BY <1>0, EnteredFinite DEF QueueInv, Counted, TaskPlaces
  <2>2. QED
    BY <1>1, <2>1 DEF QueueInv, Counted
<1>3. Hands'
  BY <1>0, <1>1 DEF QueueInv, Hands, QueueTypeOK, TasksAt
<1>4. EarlyAccounted'
  BY <1>1 DEF QueueInv, EarlyAccounted, Answered
<1>5. Charged'
  BY <1>0 DEF QueueInv, Charged, QueueTypeOK
<1>6. where' \in [Tasks -> TaskPlaces]
  BY <1>0 DEF QueueTypeOK, TaskPlaces
<1>7. QED
  BY <1>2, <1>3, <1>4, <1>5, <1>6

LEMMA ProducerInv ==
  ASSUME QueueInv, NEW t \in Tasks,
         Enqueue(t) \/ EnqueueRefused(t) \/ ResumePut(t)
  PROVE  QueueInv'
<1>0. QueueTypeOK
  BY DEF QueueInv
<1>1. CASE EnqueueRefused(t)
  <2>1. /\ where' \in [Tasks -> TaskPlaces]
        /\ Counted' /\ Hands' /\ EarlyAccounted' /\ Charged'
    BY <1>1, AsideInv DEF EnqueueRefused
  <2>2. QueueTypeOK'
    BY <1>0, <1>1, <2>1 DEF EnqueueRefused, QueueTypeOK, TaskPlaces
  <2>3. QED
    BY <2>1, <2>2 DEF QueueInv
<1>2. CASE Enqueue(t) \/ ResumePut(t)
  <2>1. /\ where[t] \in {"new", "woken"}
        /\ UNCHANGED <<attempts, closing, job, pc, breaker, tokens, deadLetters>>
        /\ Park(t) \/ Put(t)
    BY <1>2 DEF Enqueue, ResumePut
  <2>2. ordinal' \in [Tasks -> Nat]
    <3>1. Cardinality(Tasks \ TasksAt("new")) \in Nat
      BY FS_CardinalityType DEF QueueInv, Counted
    <3>2. QED
      BY <1>0, <1>2, <3>1 DEF Enqueue, ResumePut, QueueTypeOK
  <2>3. /\ where' \in [Tasks -> TaskPlaces] /\ unfinished' \in Nat
        /\ early' \subseteq Tasks
        /\ Counted' /\ Hands' /\ EarlyAccounted' /\ Charged'
    <3>1. CASE Put(t)
      BY <2>1, <3>1, PutInv
    <3>2. CASE Park(t)
      BY <1>0, <2>1, <3>2, AsideInv DEF Park, QueueTypeOK
    <3>3. QED
      BY <2>1, <3>1, <3>2
  <2>4. QueueTypeOK'
    BY <1>0, <2>1, <2>2, <2>3 DEF QueueTypeOK, TaskPlaces
  <2>5. QED
    BY <2>3, <2>4 DEF QueueInv
<1>3. QED
  BY <1>1, <1>2

-----------------------------------------------------------------------------
\* The workers

\* get: a task passes from the queue into one pair of hands; a parked
\* producer that is woken is not counted yet.
LEMMA TakeInv ==
  ASSUME QueueInv, NEW w \in Workers, Take(w)
  PROVE  QueueInv'
<1>1. PICK t \in TasksAt("queued") :
        /\ job' = [job EXCEPT ![w] = t]
        /\ \/ where' = [where EXCEPT ![t] = "running"]
           \/ \E p \in TasksAt("parked") :
                where' = [where EXCEPT ![t] = "running", ![p] = "woken"]
  BY DEF Take
<1>0. /\ QueueTypeOK /\ t \in Tasks /\ where[t] = "queued"
      /\ pc[w] = "idle" /\ job[w] = NoTask
      /\ pc' = [pc EXCEPT ![w] = "execute"]
      /\ UNCHANGED <<ordinal, attempts, early, unfinished, closing, breaker,
                     tokens, deadLetters>>
  BY DEF QueueInv, Hands, TasksAt, Take, Goto
<1>2. /\ where' \in [Tasks -> TaskPlaces]
      /\ TasksAt("new")' = TasksAt("new")
      /\ TasksAt("queued")' = TasksAt("queued") \ {t}
      /\ TasksAt("running")' = TasksAt("running") \union {t}
      /\ TasksAt("succeeded")' = TasksAt("succeeded")
      /\ TasksAt("failed")' = TasksAt("failed")
      /\ \A u \in Tasks : \/ where'[u] = where[u]
                          \/ u = t /\ where'[u] = "running"
                          \/ where[u] = "parked" /\ where'[u] = "woken"
  <2>1. CASE where' = [where EXCEPT ![t] = "running"]
    BY <1>0, <2>1 DEF QueueTypeOK, TasksAt, TaskPlaces
  <2>2. CASE \E p \in TasksAt("parked") :
               where' = [where EXCEPT ![t] = "running", ![p] = "woken"]
    <3>1. PICK p \in Tasks :
            /\ where[p] = "parked"
            /\ where' = [where EXCEPT ![t] = "running", ![p] = "woken"]
      BY <2>2 DEF TasksAt
    <3>2. p # t
      BY <1>0, <3>1
    <3>3. \A u \in Tasks : where'[u] = IF u = p THEN "woken"
                                      ELSE IF u = t THEN "running"
                                      ELSE where[u]
      BY <1>0, <3>1 DEF QueueTypeOK
    <3>4. where' \in [Tasks -> TaskPlaces]
      BY <1>0, <3>1 DEF QueueTypeOK, TaskPlaces
    <3>5. QED
      BY <1>0, <3>1, <3>2, <3>3, <3>4 DEF TasksAt
  <2>3. QED
    BY <1>1, <2>1, <2>2
<1>3. Counted'
  BY <1>0, <1>2 DEF QueueInv, Counted, TasksAt
<1>4. Hands'
  <2>1. \A v \in Workers : /\ job'[v] = IF v = w THEN t ELSE job[v]
                           /\ pc'[v] = IF v = w THEN "execute" ELSE pc[v]
    BY <1>0, <1>1 DEF QueueTypeOK
  <2>2. t # NoTask /\ \A v \in Workers : job[v] # t
    BY <1>0, QueueAssumption DEF QueueInv, Hands
  <2>3. \A v \in Workers : /\ pc'[v] = "idle" <=> job'[v] = NoTask
                           /\ job'[v] # NoTask => where'[job'[v]] = "running"
    <3>1. where'[t] = "running"
      BY <1>2 DEF TasksAt
    <3>2. ASSUME NEW v \in Workers, v # w, job[v] # NoTask
          PROVE  where'[job[v]] = "running"
      <4>1. job[v] \in Tasks /\ where[job[v]] = "running"
        BY <1>0, <3>2 DEF QueueInv, Hands, QueueTypeOK
      <4>2. QED
        BY <1>0, <1>2, <4>1
    <3>3. QED
      BY <1>0, <2>1, <2>2, <3>1, <3>2 DEF QueueInv, Hands
  <2>4. \A u, v \in Workers : job'[u] = job'[v] /\ job'[u] # NoTask => u = v
    BY <2>1, <2>2 DEF QueueInv, Hands
  <2>5. \A u \in TasksAt("running")' : \E v \in Workers : job'[v] = u
    BY <1>0, <1>2, <2>1, QueueAssumption DEF QueueInv, Hands, TasksAt
  <2>6. QED
    BY <2>3, <2>4, <2>5 DEF Hands
<1>5. EarlyAccounted'
  BY <1>0, <1>2 DEF QueueInv, EarlyAccounted, Answered
<1>6. Charged'
  <2>1. \A u \in Tasks :
          where'[u] \in {"new", "parked", "woken", "queued"} => attempts'[u] = 0
    BY <1>0, <1>2 DEF QueueInv, Charged
  <2>2. attempts[t] = 0
    BY <1>0 DEF QueueInv, Charged
  <2>3. \A v \in Workers :
          /\ pc'[v] = "execute" => attempts'[job'[v]] = 0
          /\ pc'[v] = "attempt" => attempts'[job'[v]] < MaxAttempts
    BY <1>0, <1>1, <2>2 DEF QueueInv, Charged, QueueTypeOK
  <2>4. QED
    BY <2>1, <2>3 DEF Charged
<1>7. QueueTypeOK'
  BY <1>0, <1>1, <1>2 DEF QueueTypeOK, TaskPlaces
<1>8. QED
  BY <1>3, <1>4, <1>5, <1>6, <1>7 DEF QueueInv

\* Every run under the breaker's lock yields a breaker.
LEMMA BreakerOps ==
  ASSUME NEW b \in Breakers
  PROVE  /\ Asked(b) \in Breakers
         /\ CallFailed(b) \in Breakers
         /\ CallSucceeded(b) \in Breakers
<1>1. \A s \in {"CLOSED", "OPEN", "HALF_OPEN"} :
        [b EXCEPT !.state = s, !.probe = TRUE] \in Breakers
  BY DEF Breakers
<1>2. Asked(b) \in Breakers
  BY <1>1 DEF Asked
<1>3. b.failures + 1 \in Nat
  BY DEF Breakers
<1>4. [state |-> "OPEN", failures |-> b.failures + 1, probe |-> FALSE,
       cooled |-> FALSE] \in Breakers
  BY <1>3 DEF Breakers
<1>5. [b EXCEPT !.failures = b.failures + 1, !.probe = FALSE] \in Breakers
  BY <1>3 DEF Breakers
<1>6. CallFailed(b) \in Breakers
  BY <1>4, <1>5 DEF CallFailed
<1>7. CallSucceeded(b) \in Breakers
  BY DEF CallSucceeded, Breakers
<1>8. QED
  BY <1>2, <1>6, <1>7

\* Steps that leave the task in the worker's hands.
LEMMA HoldInv ==
  ASSUME QueueInv, NEW w \in Workers,
         Execute(w) \/ Attempt(w) \/ EnterBulkhead(w) \/ CallRaises(w)
  PROVE  QueueInv'
<1> DEFINE t == job[w]
<1>0. /\ QueueTypeOK /\ pc[w] # "idle"
      /\ t \in Tasks /\ where[t] = "running"
      /\ UNCHANGED <<where, ordinal, early, unfinished, closing, job, deadLetters>>
  <2>1. /\ QueueTypeOK /\ Hands /\ pc[w] # "idle"
        /\ UNCHANGED <<where, ordinal, early, unfinished, closing, job,
                       deadLetters>>
    BY DEF QueueInv, Execute, Attempt, EnterBulkhead, CallRaises
  <2>2. t # NoTask /\ t \in Tasks
    BY <2>1 DEF Hands, QueueTypeOK
  <2>3. QED
    BY <2>1, <2>2 DEF Hands
<1>1. \E label \in {"attempt", "bulkhead", "call", "compensate"} :
        /\ pc' = [pc EXCEPT ![w] = label]
        /\ label = "attempt" => attempts'[t] < MaxAttempts
  <2>1. CASE Execute(w)
    <3>1. attempts[t] = 0
      BY <2>1 DEF Execute, QueueInv, Charged
    <3>2. QED
      BY <2>1, <3>1, QueueAssumption DEF Execute, Goto
  <2>2. CASE Attempt(w)
    <3>1. attempts' = [attempts EXCEPT ![t] = attempts[t] + 1]
      BY <2>2 DEF Attempt
    <3>2. attempts'[t] = attempts[t] + 1
      BY <1>0, <3>1 DEF QueueTypeOK
    <3>3. \E label \in {"bulkhead", AfterFailure(w, attempts[t] + 1, TRUE)} :
            pc' = [pc EXCEPT ![w] = label]
      BY <2>2 DEF Attempt, Goto
    <3>4. QED
      BY <3>2, <3>3 DEF AfterFailure
  <2>3. CASE EnterBulkhead(w)
    BY <2>3 DEF EnterBulkhead, Goto
  <2>4. CASE CallRaises(w)
    BY <2>4 DEF CallRaises, Goto, AfterFailure
  <2>5. QED
    BY <2>1, <2>2, <2>3, <2>4
<1>2. /\ attempts' \in [Tasks -> 0..MaxAttempts]
      /\ \A u \in Tasks \ {t} : attempts'[u] = attempts[u]
  <2>1. CASE attempts' = attempts
    BY <1>0, <2>1 DEF QueueTypeOK
  <2>2. CASE Attempt(w)
    <3>1. attempts' = [attempts EXCEPT ![t] = attempts[t] + 1]
      BY <2>2 DEF Attempt
    <3>2. attempts[t] + 1 \in 0..MaxAttempts
      BY <1>0, <2>2, QueueAssumption
         DEF Attempt, QueueInv, Charged, QueueTypeOK
    <3>3. QED
      BY <1>0, <3>1, <3>2 DEF QueueTypeOK
  <2>3. QED
    BY <2>1, <2>2 DEF Execute, EnterBulkhead, CallRaises
<1>3. QueueTypeOK'
  <2>1. pc' \in [Workers -> {"idle", "execute", "attempt", "bulkhead", "call",
                             "compensate"}]
    BY <1>0, <1>1 DEF QueueTypeOK
  <2>2. breaker' \in Breakers
    <3>1. breaker' \in {breaker, Asked(breaker), CallFailed(breaker)}
      BY DEF Execute, Attempt, EnterBulkhead, CallRaises
    <3>2. breaker \in Breakers
      BY <1>0 DEF QueueTypeOK
    <3>3. QED
      BY <3>1, <3>2, BreakerOps
  <2>3. tokens' \in 0..Burst
    <3>1. tokens' = tokens \/ (tokens > 0 /\ tokens' = tokens - 1)
      BY DEF Execute, Attempt, EnterBulkhead, CallRaises
    <3>2. tokens \in 0..Burst /\ Burst \in Nat
      BY <1>0, QueueAssumption DEF QueueTypeOK
    <3>3. QED
      BY <3>1, <3>2
  <2>4. QED
    BY <1>0, <1>2, <2>1, <2>2, <2>3 DEF QueueTypeOK
<1>4. Counted' /\ EarlyAccounted'
  BY <1>0 DEF QueueInv, Counted, EarlyAccounted, Answered, TasksAt
<1>5. Hands'
  BY <1>0, <1>1 DEF QueueInv, Hands, QueueTypeOK, TasksAt
<1>6. Charged'
  <2>1. \A u \in Tasks :
          where'[u] \in {"new", "parked", "woken", "queued"} => attempts'[u] = 0
    BY <1>0, <1>2 DEF QueueInv, Charged
  <2>2. ASSUME NEW v \in Workers, pc'[v] \in {"execute", "attempt"}
        PROVE  /\ pc'[v] = "execute" => attempts'[job'[v]] = 0
               /\ pc'[v] = "attempt" => attempts'[job'[v]] < MaxAttempts
    <3>1. CASE v = w
      BY <1>0, <1>1, <2>2, <3>1 DEF QueueTypeOK
    <3>2. CASE v # w
      <4>1. pc'[v] = pc[v]
        BY <1>0, <1>1, <3>2 DEF QueueTypeOK
      <4>2. job[v] \in Tasks \ {t}
        BY <1>0, <2>2, <3>2, <4>1 DEF QueueInv, Hands, QueueTypeOK
      <4>3. QED
        BY <1>0, <1>2, <4>1, <4>2 DEF QueueInv, Charged
    <3>3. QED
      BY <3>1, <3>2
  <2>3. QED
    BY <2>1, <2>2 DEF Charged
<1>7. QED
  BY <1>3, <1>4, <1>5, <1>6 DEF QueueInv

\* task_done: the task leaves the hands it was in with its answer, and the
\* counter that reaches zero finds no task in the queue or in other hands.
LEMMA DoneInv ==
  ASSUME QueueInv, NEW w \in Workers, CallReturns(w) \/ Compensate(w)
  PROVE  QueueInv'
<1> DEFINE t == job[w]
<1>0. /\ QueueTypeOK /\ t \in Tasks /\ where[t] = "running" /\ pc[w] # "idle"
      /\ job' = [job EXCEPT ![w] = NoTask]
      /\ pc' = [pc EXCEPT ![w] = "idle"]
      /\ unfinished' = unfinished - 1
      /\ closing' = IF closing = "joining" /\ unfinished = 1 THEN "woken"
                    ELSE closing
      /\ UNCHANGED <<ordinal, attempts, early, tokens>>
  <2>1. /\ QueueTypeOK /\ Hands /\ pc[w] # "idle"
        /\ TaskDone(w)
        /\ UNCHANGED <<ordinal, attempts, early, tokens>>
    BY DEF QueueInv, CallReturns, Compensate
  <2>2. t # NoTask /\ t \in Tasks
    BY <2>1 DEF Hands, QueueTypeOK
  <2>3. QED
    BY <2>1, <2>2 DEF Hands, TaskDone, Goto
<1>1. PICK answer \in {"succeeded", "failed"} :
        where' = [where EXCEPT ![t] = answer]
  BY DEF CallReturns, Compensate
<1>2. /\ TasksAt("new")' = TasksAt("new")
      /\ TasksAt("queued")' = TasksAt("queued")
      /\ TasksAt("running")' = TasksAt("running") \ {t}
      /\ Answered' = Answered \union {t}
  BY <1>0, <1>1 DEF QueueTypeOK, TasksAt, Answered
<1>3. /\ t \in InHand /\ InHand' = InHand \ {t}
      /\ Cardinality(InHand') = unfinished - 1
      /\ unfinished' \in Nat
  <2>1. t \in InHand /\ t \notin TasksAt("queued")
    BY <1>0 DEF InHand, TasksAt
  <2>2. InHand' = InHand \ {t}
    BY <1>2, <2>1 DEF InHand
  <2>3. Cardinality(InHand') = unfinished - 1
    BY <2>1, <2>2, InHandFinite, FS_RemoveElement
  <2>4. unfinished # 0
    BY <2>1, InHandFinite, FS_EmptySet
  <2>5. QED
    BY <1>0, <2>1, <2>2, <2>3, <2>4, InHandFinite
<1>4. QueueTypeOK'
  <2>1. where' \in [Tasks -> TaskPlaces]
    BY <1>0, <1>1 DEF QueueTypeOK, TaskPlaces
  <2>2. breaker' \in Breakers
    <3>1. breaker' \in {breaker, CallSucceeded(breaker)}
      BY DEF CallReturns, Compensate
    <3>2. QED
      BY <1>0, <3>1, BreakerOps DEF QueueTypeOK
  <2>3. deadLetters' \subseteq Tasks
    BY <1>0 DEF CallReturns, Compensate, QueueTypeOK
  <2>4. job' \in [Workers -> Tasks \union {NoTask}]
    BY <1>0 DEF QueueTypeOK
  <2>5. QED
    BY <1>0, <1>3, <2>1, <2>2, <2>3, <2>4 DEF QueueTypeOK, TaskPlaces
<1>5. Counted'
  BY <1>0, <1>2, <1>3 DEF QueueInv, Counted, InHand
<1>6. Hands'
  <2>1. \A v \in Workers : /\ job'[v] = IF v = w THEN NoTask ELSE job[v]
                           /\ pc'[v] = IF v = w THEN "idle" ELSE pc[v]
    BY <1>0 DEF QueueTypeOK
  <2>2. \A v \in Workers : v # w => job[v] # t
    BY <1>0, QueueAssumption DEF QueueInv, Hands
  <2>3. ASSUME NEW v \in Workers, v # w, job[v] # NoTask
        PROVE  where'[job[v]] = "running"
    <3>1. job[v] \in Tasks /\ where[job[v]] = "running"
      BY <1>0, <2>3 DEF QueueInv, Hands, QueueTypeOK
    <3>2. QED
      BY <1>0, <1>1, <2>2, <2>3, <3>1 DEF QueueTypeOK
  <2>4. \A v \in Workers : /\ pc'[v] = "idle" <=> job'[v] = NoTask
                           /\ job'[v] # NoTask => where'[job'[v]] = "running"
    BY <2>1, <2>3 DEF QueueInv, Hands
  <2>5. \A u, v \in Workers : job'[u] = job'[v] /\ job'[u] # NoTask => u = v
    BY <2>1 DEF QueueInv, Hands
  <2>6. \A u \in TasksAt("running")' : \E v \in Workers : job'[v] = u
    BY <1>2, <2>1 DEF QueueInv, Hands
  <2>7. QED
    BY <2>4, <2>5, <2>6 DEF Hands
<1>7. EarlyAccounted'
  <2>1. CASE closing' = closing
    BY <1>0, <1>2, <2>1 DEF QueueInv, EarlyAccounted
  <2>2. CASE closing = "joining" /\ unfinished = 1 /\ closing' = "woken"
    <3>1. InHand' = {}
      <4>1. Cardinality(InHand') = 0 /\ IsFiniteSet(InHand')
        BY <1>3, <2>2, InHandFinite, FS_RemoveElement
      <4>2. QED
        BY <4>1, FS_EmptySet
    <3>2. early \subseteq InHand \union Answered
      BY <2>2 DEF QueueInv, EarlyAccounted, InHand
    <3>3. early' \subseteq Answered'
      BY <1>0, <1>2, <1>3, <3>1, <3>2
    <3>4. QED
      BY <2>2, <3>3 DEF EarlyAccounted
  <2>3. QED
    BY <1>0, <2>1, <2>2
<1>8. Charged'
  <2>1. \A u \in Tasks : where'[u] \in {"new", "parked", "woken", "queued"} =>
                          where'[u] = where[u]
    BY <1>0, <1>1 DEF QueueTypeOK
  <2>2. \A v \in Workers : pc'[v] \in {"execute", "attempt"} =>
                             pc'[v] = pc[v] /\ job'[v] = job[v]
    BY <1>0 DEF QueueTypeOK
  <2>3. QED
    BY <1>0, <2>1, <2>2 DEF QueueInv, Charged
<1>9. QED
  BY <1>4, <1>5, <1>6, <1>7, <1>8 DEF QueueInv

-----------------------------------------------------------------------------
\* close, and time

LEMMA EnvironmentInv ==
  ASSUME QueueInv, Cool \/ Refill \/ Close
  PROVE  QueueInv'
<1>0. /\ QueueTypeOK
      /\ UNCHANGED <<where, ordinal, attempts, early, unfinished, job, pc,
                     deadLetters>>
  BY DEF QueueInv, Cool, Refill, Close
<1>1. QueueTypeOK'
  <2>1. breaker' \in Breakers
    <3>1. breaker' = breaker \/ breaker' = [breaker EXCEPT !.cooled = TRUE]
      BY DEF Cool, Refill, Close
    <3>2. QED
      BY <1>0, <3>1 DEF QueueTypeOK, Breakers
  <2>2. tokens' \in 0..Burst
    <3>1. tokens' = tokens \/ (tokens < Burst /\ tokens' = tokens + 1)
      BY DEF Cool, Refill, Close
    <3>2. tokens \in 0..Burst /\ Burst \in Nat
      BY <1>0, QueueAssumption DEF QueueTypeOK
    <3>3. QED
      BY <3>1, <3>2
  <2>3. closing' \in {"open", "joining", "woken", "closed"}
    BY <1>0 DEF QueueTypeOK, Cool, Refill, Close
  <2>4. QED
    BY <1>0, <2>1, <2>2, <2>3 DEF QueueTypeOK
<1>2. EarlyAccounted'
  <2>1. Answered' = Answered /\ InHand' = InHand
    BY <1>0 DEF Answered, InHand, TasksAt
  <2>2. CASE closing' = closing
    BY <1>0, <2>1, <2>2 DEF QueueInv, EarlyAccounted, InHand
  <2>3. CASE Close
    <3>1. early \subseteq InHand \union Answered
      BY <2>3 DEF Close, QueueInv, EarlyAccounted, InHand
    <3>2. unfinished = 0 => InHand = {}
      BY InHandFinite, FS_EmptySet
    <3>3. QED
      BY <1>0, <2>1, <2>3, <3>1, <3>2 DEF Close, EarlyAccounted, InHand
  <2>4. QED
    BY <2>2, <2>3 DEF Cool, Refill
<1>3. Counted' /\ Hands' /\ Charged'
  BY <1>0 DEF QueueInv, Counted, Hands, Charged, TasksAt
<1>4. QED
  BY <1>1, <1>2, <1>3 DEF QueueInv

\* As many workers hold a task as tasks are running.
LEMMA HandsCount ==
  ASSUME QueueInv
  PROVE  /\ Cardinality({w \in Workers : job[w] # NoTask})
              = Cardinality(TasksAt("running"))
         /\ IsFiniteSet(TasksAt("running"))
<1> DEFINE Busy == {w \in Workers : job[w] # NoTask}
           f == [w \in Busy |-> job[w]]
<1>1. IsFiniteSet(Busy)
  BY QueueAssumption, FS_Subset
<1>2. f \in Bijection(Busy, TasksAt("running"))
  <2>1. \A w \in Busy : job[w] \in TasksAt("running")
    BY DEF QueueInv, Hands, QueueTypeOK, TasksAt
  <2>2. f \in [Busy -> TasksAt("running")]
    BY <2>1
  <2>3. \A v, w \in Busy : f[v] = f[w] => v = w
    BY DEF QueueInv, Hands
  <2>4. \A t \in TasksAt("running") : \E w \in Busy : f[w] = t
    <3>1. SUFFICES ASSUME NEW t \in TasksAt("running")
                   PROVE  \E w \in Busy : f[w] = t
      OBVIOUS
    <3>2. PICK w \in Workers : job[w] = t
      BY DEF QueueInv, Hands
    <3>3. t # NoTask
      BY QueueAssumption DEF TasksAt
    <3>4. QED
      BY <3>2, <3>3
  <2>5. QED
    BY <2>2, <2>3, <2>4, Fun_IsBij
<1>3. ExistsBijection(Busy, TasksAt("running"))
  BY <1>2 DEF ExistsBijection
<1>4. QED
  BY <1>1, <1>3, FS_Bijection

\* Cancelled workers give their tasks up unanswered; the queue alone counts.
LEMMA CancelInv ==
  ASSUME QueueInv, CancelWorkers
  PROVE  QueueInv'
<1>0. /\ QueueTypeOK /\ closing = "woken" /\ closing' = "closed"
      /\ where' = [t \in Tasks |-> IF where[t] = "running" THEN "abandoned"
                                   ELSE where[t]]
      /\ unfinished' = unfinished
                        - Cardinality({w \in Workers : job[w] # NoTask})
      /\ job' = [w \in Workers |-> NoTask]
      /\ pc' = [w \in Workers |-> "idle"]
      /\ UNCHANGED <<ordinal, attempts, early, breaker, tokens, deadLetters>>
  BY DEF QueueInv, CancelWorkers
<1>1. /\ TasksAt("new")' = TasksAt("new")
      /\ TasksAt("queued")' = TasksAt("queued")
      /\ TasksAt("running")' = {}
      /\ Answered' = Answered
  BY <1>0 DEF QueueTypeOK, TasksAt, Answered
<1>2. /\ unfinished' = Cardinality(TasksAt("queued"))
      /\ unfinished' \in Nat
  <2>1. /\ IsFiniteSet(TasksAt("queued"))
        /\ TasksAt("queued") \intersect TasksAt("running") = {}
    <3>1. TasksAt("queued") \subseteq InHand
      BY DEF InHand
    <3>2. IsFiniteSet(TasksAt("queued"))
      BY <3>1, InHandFinite, FS_Subset
    <3>3. QED
      BY <3>2 DEF TasksAt
  <2>2. Cardinality(InHand) =
          Cardinality(TasksAt("queued")) + Cardinality(TasksAt("running"))
            - Cardinality(TasksAt("queued") \intersect TasksAt("running"))
    BY <2>1, HandsCount, FS_Union DEF InHand
  <2>3. /\ Cardinality(TasksAt("queued")) \in Nat /\ Cardinality(TasksAt("running")) \in Nat
        /\ Cardinality(TasksAt("queued") \intersect TasksAt("running")) = 0
    BY <2>1, HandsCount, FS_CardinalityType, FS_EmptySet
  <2>4. QED
    BY <1>0, <2>2, <2>3, HandsCount, InHandFinite
<1>3. Counted'
  <2>1. (TasksAt("queued") \union TasksAt("running"))' = TasksAt("queued")
    BY <1>1
  <2>2. QED
    BY <1>1, <1>2, <2>1 DEF QueueInv, Counted
<1>4. QueueTypeOK'
  <2>1. where' \in [Tasks -> TaskPlaces]
    BY <1>0 DEF QueueTypeOK, TaskPlaces
  <2>2. job' \in [Workers -> Tasks \union {NoTask}]
    BY <1>0
  <2>3. QED
    BY <1>0, <1>2, <2>1, <2>2 DEF QueueTypeOK, TaskPlaces
<1>5. Hands'
  BY <1>0, <1>1 DEF Hands
<1>6. EarlyAccounted'
  BY <1>0, <1>1 DEF QueueInv, EarlyAccounted
<1>7. Charged'
  BY <1>0 DEF QueueInv, Charged
<1>8. QED
  BY <1>3, <1>4, <1>5, <1>6, <1>7 DEF QueueInv

-----------------------------------------------------------------------------
\* The theorems

LEMMA QueueInitInv == QueueInit => QueueInv
<1> SUFFICES ASSUME QueueInit PROVE QueueInv
  OBVIOUS
<1>1. /\ Tasks \ TasksAt("new") = {} /\ TasksAt("queued") \union TasksAt("running") = {}
      /\ TasksAt("running") = {}
  BY DEF QueueInit, TasksAt
<1>2. Counted
  BY <1>1, FS_EmptySet DEF QueueInit, Counted
<1>3. QueueTypeOK
  BY QueueAssumption DEF QueueInit, QueueTypeOK, Breakers
<1>4. Hands /\ EarlyAccounted /\ Charged
  BY <1>1 DEF QueueInit, Hands, EarlyAccounted, Charged
<1>5. QED
  BY <1>2, <1>3, <1>4 DEF QueueInv

LEMMA QueueStepInv == QueueInv /\ [QueueNext]_queueVars => QueueInv'
<1> SUFFICES ASSUME QueueInv, [QueueNext]_queueVars PROVE QueueInv'
  OBVIOUS
<1>1. CASE UNCHANGED queueVars
  BY <1>1 DEF queueVars, QueueInv, QueueTypeOK, Counted, Hands, EarlyAccounted, Charged,
         Answered, TasksAt
<1>2. CASE QueueNext
  BY <1>2, ProducerInv, TakeInv, HoldInv, DoneInv, EnvironmentInv, CancelInv
     DEF QueueNext, Work
<1>3. QED
  BY <1>1, <1>2

\* What join and close rely on, in every state.
LEMMA QueueInvariant == QueueSpec => []QueueInv
BY QueueInitInv, QueueStepInv, PTL DEF QueueSpec

\* close answers every task that was put before it, for any number of
\* producers, workers and retries.
THEOREM CloseAnswers == QueueSpec => []CloseAnswersAccepted
<1>1. QueueInv => CloseAnswersAccepted
  BY DEF QueueInv, EarlyAccounted, CloseAnswersAccepted, Answered
<1>2. QED
  BY <1>1, QueueInvariant, PTL

\* A set probe flag always has its call: whatever ends that call frees it.
LEMMA ProbeInit == QueueInit => ProbeHasCall
BY DEF QueueInit, ProbeHasCall

LEMMA ProbeNext == QueueInv /\ ProbeHasCall /\ [QueueNext]_queueVars => ProbeHasCall'
<1> SUFFICES ASSUME QueueInv, ProbeHasCall, [QueueNext]_queueVars, breaker'.probe, Alive'
             PROVE  \E w \in Workers : pc'[w] \in {"bulkhead", "call"}
  BY DEF ProbeHasCall
<1>0. breaker \in Breakers
  BY DEF QueueInv, QueueTypeOK
<1>1. Alive
  BY DEF Alive, QueueNext, Enqueue, EnqueueRefused, ResumePut, Work, Take, Execute,
         Attempt, EnterBulkhead, CallReturns, CallRaises, Compensate, TaskDone,
         Cool, Refill, Close, CancelWorkers, queueVars
<1>2. CASE pc' = pc /\ breaker'.probe = breaker.probe
  BY <1>1, <1>2 DEF ProbeHasCall
<1>3. ASSUME NEW w \in Workers, pc[w] \notin {"bulkhead", "call"}, breaker.probe,
             NEW label, pc' = [pc EXCEPT ![w] = label]
      PROVE  \E v \in Workers : pc'[v] \in {"bulkhead", "call"}
  <2>1. PICK v \in Workers : pc[v] \in {"bulkhead", "call"}
    BY <1>1, <1>3 DEF ProbeHasCall
  <2>2. pc'[v] = pc[v]
    BY <1>3, <2>1 DEF QueueInv, QueueTypeOK
  <2>3. QED
    BY <2>1, <2>2
<1>4. ASSUME NEW w \in Workers, Take(w) \/ Execute(w) \/ Compensate(w)
      PROVE  \E v \in Workers : pc'[v] \in {"bulkhead", "call"}
  BY <1>3, <1>4 DEF Take, Execute, Compensate, TaskDone, Goto
<1>5. ASSUME NEW w \in Workers, EnterBulkhead(w)
      PROVE  pc'[w] = "call"
  BY <1>5 DEF EnterBulkhead, Goto, QueueInv, QueueTypeOK
<1>6. ASSUME NEW w \in Workers, CallReturns(w) \/ CallRaises(w)
      PROVE  FALSE
  <2>1. breaker' \in {CallSucceeded(breaker), CallFailed(breaker)}
    BY <1>6 DEF CallReturns, CallRaises
  <2>2. ~CallSucceeded(breaker).probe
    BY DEF CallSucceeded
  <2>3. ~CallFailed(breaker).probe
    BY <1>0 DEF CallFailed, Breakers
  <2>4. QED
    BY <2>1, <2>2, <2>3
<1>7. ASSUME NEW w \in Workers, Attempt(w)
      PROVE  \E v \in Workers : pc'[v] \in {"bulkhead", "call"}
  <2>1. /\ pc[w] = "attempt"
        /\ \E label : pc' = [pc EXCEPT ![w] = label]
    BY <1>7 DEF Attempt, Goto
  <2>2. CASE breaker.probe
    BY <1>3, <2>1, <2>2
  <2>3. CASE ~breaker.probe
    <3>1. breaker' = Asked(breaker)
      BY <1>7, <2>3 DEF Attempt
    <3>2. Admits(breaker)
      BY <1>0, <2>3, <3>1 DEF Admits, Asked, Breakers
    <3>3. pc' = [pc EXCEPT ![w] = "bulkhead"]
      BY <1>7, <2>3, <3>2 DEF Attempt, Goto
    <3>4. pc'[w] = "bulkhead"
      BY <3>3 DEF QueueInv, QueueTypeOK
    <3>5. QED
      BY <3>4
  <2>4. QED
    BY <2>2, <2>3
<1>8. CASE \/ \E t \in Tasks : Enqueue(t) \/ EnqueueRefused(t) \/ ResumePut(t)
           \/ Cool \/ Refill \/ Close \/ UNCHANGED queueVars
  <2>1. pc' = pc /\ (breaker' = breaker \/ breaker' = [breaker EXCEPT !.cooled = TRUE])
    BY <1>8 DEF Enqueue, EnqueueRefused, ResumePut, Cool, Refill, Close, queueVars
  <2>2. breaker'.probe = breaker.probe
    BY <1>0, <2>1 DEF Breakers
  <2>3. QED
    BY <1>2, <2>1, <2>2
<1>9. CASE CancelWorkers
  BY <1>9 DEF CancelWorkers, Alive
<1>10. QED
  BY <1>4, <1>5, <1>6, <1>7, <1>8, <1>9 DEF QueueNext, Work

\* No refusal without a cause: the circuit holds calls back for a probe only
\* while a call is on its way that will free it.
THEOREM ProbeIsFreed == QueueSpec => []ProbeHasCall
BY ProbeInit, ProbeNext, QueueInvariant, PTL DEF QueueSpec

\* The places of the queue and of the bulkhead.
Calls == {w \in Workers : pc[w] = "call"}

LEMMA CallsWithin ==
  ASSUME QueueInv, Slots, [QueueNext]_queueVars
  PROVE  Cardinality(Calls') <= Concurrency
<1>0. /\ Concurrency \in Nat /\ IsFiniteSet(Calls) /\ Cardinality(Calls) <= Concurrency
      /\ Cardinality(Calls) \in Nat /\ pc \in [Workers -> {"idle", "execute", "attempt",
           "bulkhead", "call", "compensate"}]
  BY QueueAssumption, FS_Subset, FS_CardinalityType
     DEF Calls, Slots, QueueInv, QueueTypeOK
<1>1. CASE Calls' \subseteq Calls
  BY <1>0, <1>1, FS_Subset, FS_CardinalityType
<1>2. ASSUME NEW w \in Workers, EnterBulkhead(w)
      PROVE  Cardinality(Calls') <= Concurrency
  <2>1. Calls' = Calls \union {w} /\ w \notin Calls
    BY <1>0, <1>2 DEF Calls, EnterBulkhead, Goto
  <2>2. Cardinality(Calls') = Cardinality(Calls) + 1
    BY <1>0, <2>1, FS_AddElement
  <2>3. Cardinality(Calls) < Concurrency
    BY <1>2 DEF EnterBulkhead, Calls
  <2>4. QED
    BY <1>0, <2>2, <2>3
<1>3. ASSUME NEW w \in Workers, NEW label, label # "call", pc' = [pc EXCEPT ![w] = label]
      PROVE  Calls' \subseteq Calls
  BY <1>0, <1>3 DEF Calls
<1>4. ASSUME NEW w \in Workers,
             Take(w) \/ Execute(w) \/ Attempt(w) \/ CallReturns(w) \/ CallRaises(w)
               \/ Compensate(w)
      PROVE  Calls' \subseteq Calls
  <2>1. \E label : label # "call" /\ pc' = [pc EXCEPT ![w] = label]
    BY <1>4 DEF Take, Execute, Attempt, CallReturns, CallRaises, Compensate, TaskDone,
           Goto, AfterFailure
  <2>2. QED
    BY <1>3, <2>1
<1>5. ASSUME CancelWorkers
      PROVE  Calls' \subseteq Calls
  BY <1>5 DEF Calls, CancelWorkers
<1>6. ASSUME pc' = pc
      PROVE  Calls' \subseteq Calls
  BY <1>6 DEF Calls
<1>7. QED
  <2>1. CASE \E w \in Workers : EnterBulkhead(w)
    BY <1>2, <2>1
  <2>2. CASE ~\E w \in Workers : EnterBulkhead(w)
    <3>1. Calls' \subseteq Calls
      BY <1>4, <1>5, <1>6, <2>2
         DEF QueueNext, Work, Enqueue, EnqueueRefused, ResumePut, Cool, Refill, Close,
             queueVars
    <3>2. QED
      BY <1>1, <3>1
  <2>3. QED
    BY <2>1, <2>2

\* A finite set with an element more, or with one exchanged.
LEMMA Exchanged ==
  ASSUME NEW A, NEW B, IsFiniteSet(A), NEW x, NEW y,
         x \in A, y \notin A, B = (A \ {x}) \union {y}
  PROVE  Cardinality(B) = Cardinality(A)
<1>1. /\ IsFiniteSet(A \ {x}) /\ Cardinality(A \ {x}) = Cardinality(A) - 1
  BY FS_RemoveElement
<1>2. Cardinality(B) = Cardinality(A \ {x}) + 1
  BY <1>1, FS_AddElement
<1>3. QED
  BY <1>1, <1>2, FS_CardinalityType

\* In the queue, or woken to try again.
Waiting == TasksAt("queued") \union TasksAt("woken")

LEMMA SlotsNext == QueueInv /\ Slots /\ [QueueNext]_queueVars => Slots'
<1> SUFFICES ASSUME QueueInv, Slots, [QueueNext]_queueVars PROVE Slots'
  OBVIOUS
<1>0. /\ Capacity \in Nat \ {0} /\ QueueTypeOK
      /\ IsFiniteSet(TasksAt("queued")) /\ Cardinality(TasksAt("queued")) \in Nat
      /\ IsFiniteSet(Waiting) /\ Cardinality(Waiting) \in Nat
  <2>1. TasksAt("queued") \subseteq Tasks \ TasksAt("new") /\ Waiting \subseteq Tasks \ TasksAt("new")
    BY DEF TasksAt, Waiting
  <2>2. QED
    BY <2>1, QueueAssumption, FS_Subset, FS_CardinalityType DEF QueueInv, Counted
<1>1. SUFFICES /\ Cardinality(TasksAt("queued")') <= Capacity
               /\ TasksAt("parked")' # {} => Cardinality(Waiting') >= Capacity
  BY <1>1, CallsWithin DEF Slots, Calls, Waiting
<1>2. /\ Cardinality(TasksAt("queued")) <= Capacity
      /\ TasksAt("parked") # {} => Cardinality(Waiting) >= Capacity
  BY DEF Slots, Waiting
<1>3. ASSUME TasksAt("queued")' = TasksAt("queued"), TasksAt("woken")' = TasksAt("woken"),
             TasksAt("parked")' = TasksAt("parked")
      PROVE  /\ Cardinality(TasksAt("queued")') <= Capacity
             /\ TasksAt("parked")' # {} => Cardinality(Waiting') >= Capacity
  BY <1>2, <1>3 DEF Waiting
<1>4. ASSUME NEW t \in Tasks, where[t] \in {"new", "woken"}, Full, Park(t)
      PROVE  /\ Cardinality(TasksAt("queued")') <= Capacity
             /\ TasksAt("parked")' # {} => Cardinality(Waiting') >= Capacity
  <2>1. TasksAt("queued")' = TasksAt("queued") /\ Waiting' = Waiting \ {t}
    BY <1>0, <1>4 DEF Park, TasksAt, QueueTypeOK, Waiting
  <2>2. TasksAt("queued") \subseteq Waiting' /\ IsFiniteSet(Waiting')
    BY <1>0, <1>4, <2>1, FS_RemoveElement, FS_Subset DEF Waiting, TasksAt
  <2>3. Cardinality(TasksAt("queued")) <= Cardinality(Waiting') /\ Cardinality(Waiting') \in Nat
    BY <2>2, FS_Subset, FS_CardinalityType
  <2>4. QED
    BY <1>0, <1>2, <1>4, <2>1, <2>3 DEF Full
<1>5. ASSUME NEW t \in Tasks, where[t] \in {"new", "woken"}, ~Full, Put(t)
      PROVE  /\ Cardinality(TasksAt("queued")') <= Capacity
             /\ TasksAt("parked")' # {} => Cardinality(Waiting') >= Capacity
  <2>1. /\ TasksAt("queued")' = TasksAt("queued") \union {t} /\ t \notin TasksAt("queued")
        /\ Waiting' = Waiting \union {t} /\ TasksAt("parked")' = TasksAt("parked")
    BY <1>0, <1>5 DEF Put, TasksAt, QueueTypeOK, Waiting
  <2>2. Cardinality(TasksAt("queued")') = Cardinality(TasksAt("queued")) + 1
    BY <1>0, <2>1, FS_AddElement
  <2>3. Cardinality(Waiting) <= Cardinality(Waiting') /\ Cardinality(Waiting') \in Nat
    BY <1>0, <2>1, FS_AddElement, FS_Subset, FS_CardinalityType
  <2>4. QED
    BY <1>0, <1>2, <1>5, <2>1, <2>2, <2>3 DEF Full
<1>6. ASSUME NEW w \in Workers, NEW t \in TasksAt("queued"), TasksAt("parked") = {},
             where' = [where EXCEPT ![t] = "running"]
      PROVE  /\ Cardinality(TasksAt("queued")') <= Capacity
             /\ TasksAt("parked")' # {} => Cardinality(Waiting') >= Capacity
  <2>1. TasksAt("queued")' = TasksAt("queued") \ {t} /\ TasksAt("parked")' = {}
    BY <1>0, <1>6 DEF TasksAt, QueueTypeOK
  <2>2. Cardinality(TasksAt("queued")') = Cardinality(TasksAt("queued")) - 1
    BY <1>0, <1>6, <2>1, FS_RemoveElement
  <2>3. QED
    BY <1>0, <1>2, <2>1, <2>2
<1>7. ASSUME NEW w \in Workers, NEW t \in TasksAt("queued"), NEW p \in TasksAt("parked"),
             where' = [where EXCEPT ![t] = "running", ![p] = "woken"]
      PROVE  /\ Cardinality(TasksAt("queued")') <= Capacity
             /\ TasksAt("parked")' # {} => Cardinality(Waiting') >= Capacity
  <2>1. /\ TasksAt("queued")' = TasksAt("queued") \ {t}
        /\ t \in Waiting /\ p \notin Waiting /\ Waiting' = (Waiting \ {t}) \union {p}
    BY <1>0, <1>7 DEF TasksAt, QueueTypeOK, Waiting
  <2>2. Cardinality(TasksAt("queued")') = Cardinality(TasksAt("queued")) - 1
    BY <1>0, <1>7, <2>1, FS_RemoveElement
  <2>3. Cardinality(Waiting') = Cardinality(Waiting)
    BY <1>0, <2>1, Exchanged
  <2>4. QED
    BY <1>0, <1>2, <1>7, <2>2, <2>3
<1>8. ASSUME NEW w \in Workers, CallReturns(w) \/ Compensate(w)
      PROVE  /\ TasksAt("queued")' = TasksAt("queued") /\ TasksAt("woken")' = TasksAt("woken")
             /\ TasksAt("parked")' = TasksAt("parked")
  <2>1. PICK place \in {"succeeded", "failed"} : where' = [where EXCEPT ![job[w]] = place]
    BY <1>8 DEF CallReturns, Compensate
  <2>2. job[w] \in Tasks /\ where[job[w]] = "running"
    BY <1>0, <1>8 DEF CallReturns, Compensate, QueueInv, Hands, QueueTypeOK
  <2>3. QED
    BY <1>0, <2>1, <2>2 DEF TasksAt, QueueTypeOK
<1>9. ASSUME CancelWorkers
      PROVE  /\ TasksAt("queued")' = TasksAt("queued") /\ TasksAt("woken")' = TasksAt("woken")
             /\ TasksAt("parked")' = TasksAt("parked")
  BY <1>0, <1>9 DEF CancelWorkers, TasksAt, QueueTypeOK
<1>10. ASSUME NEW t \in Tasks, EnqueueRefused(t)
       PROVE  /\ TasksAt("queued")' = TasksAt("queued") /\ TasksAt("woken")' = TasksAt("woken")
              /\ TasksAt("parked")' = TasksAt("parked")
  BY <1>0, <1>10 DEF EnqueueRefused, TasksAt, QueueTypeOK
<1>11. ASSUME where' = where
       PROVE  /\ TasksAt("queued")' = TasksAt("queued") /\ TasksAt("woken")' = TasksAt("woken")
              /\ TasksAt("parked")' = TasksAt("parked")
  BY <1>11 DEF TasksAt
<1>12. QED
  <2>1. CASE \E t \in Tasks : Enqueue(t) \/ ResumePut(t)
    BY <1>4, <1>5, <2>1 DEF Enqueue, ResumePut
  <2>2. CASE \E w \in Workers : Take(w)
    BY <1>6, <1>7, <2>2 DEF Take
  <2>3. CASE \/ \E t \in Tasks : EnqueueRefused(t)
             \/ \E w \in Workers : CallReturns(w) \/ Compensate(w)
             \/ CancelWorkers
    BY <1>3, <1>8, <1>9, <1>10, <2>3
  <2>4. CASE \/ \E w \in Workers : Execute(w) \/ Attempt(w) \/ EnterBulkhead(w) \/ CallRaises(w)
             \/ Cool \/ Refill \/ Close \/ UNCHANGED queueVars
    BY <1>3, <1>11, <2>4
       DEF Execute, Attempt, EnterBulkhead, CallRaises, Cool, Refill, Close, queueVars
  <2>5. QED
    BY <2>1, <2>2, <2>3, <2>4 DEF QueueNext, Work

LEMMA SlotsInit == QueueInit => Slots
<1> SUFFICES ASSUME QueueInit PROVE Slots
  OBVIOUS
<1>1. TasksAt("queued") = {} /\ TasksAt("parked") = {} /\ Calls = {}
  BY DEF QueueInit, TasksAt, Calls
<1>2. QED
  BY <1>1, FS_EmptySet, QueueAssumption DEF Slots, Calls

\* The queue keeps its books: unfinished is the number of tasks in the queue and
\* in hands, each task in one pair of hands, and calls stay within max_attempts;
\* queue and bulkhead keep to their sizes, and a producer waits only while the
\* queue is full but for places kept for woken producers; a probe flag has its
\* call.
THEOREM QueueKeepsBooks == QueueSpec => [](QueueInv /\ Slots /\ ProbeHasCall)
BY QueueInvariant, SlotsInit, SlotsNext, ProbeIsFreed, PTL DEF QueueSpec

-----------------------------------------------------------------------------
\* Ordering a set of sequence numbers

Increasing(q) == \A i, j \in 1..Len(q) : i < j => q[i] < q[j]

\* q holds exactly the events of S, in their order.
Lists(q, S) == Increasing(q) /\ (\A i \in 1..Len(q) : q[i] \in S)
               /\ \A n \in S : \E i \in 1..Len(q) : q[i] = n

LEMMA SeqsAreFinite ==
  ASSUME NEW S \in SUBSET Seqs
  PROVE  IsFiniteSet(S)
<1>1. IsFiniteSet(Seqs)
  BY BrokerAssumption, FS_Interval DEF Seqs
<1>2. QED
  BY <1>1, FS_Subset

\* How many numbers of S come before n.
Rank(S) == [n \in S |-> Cardinality({m \in S : m < n})]

LEMMA RankOrders ==
  ASSUME NEW S \in SUBSET Seqs
  PROVE  /\ Cardinality(S) \in Nat
         /\ Rank(S) \in [S -> 0..(Cardinality(S) - 1)]
         /\ \A n, k \in S : n < k <=> Rank(S)[n] < Rank(S)[k]
<1>0. S \subseteq Int
  BY BrokerAssumption DEF Seqs
<1>1. Cardinality(S) \in Nat
  BY SeqsAreFinite, FS_CardinalityType
<1> DEFINE Before(n) == {m \in S : m < n}
<1>2. \A n \in S : Rank(S)[n] \in 0..(Cardinality(S) - 1)
  <2> TAKE n \in S
  <2>1. Before(n) \in SUBSET (S \ {n})
    BY <1>0
  <2>2. IsFiniteSet(S \ {n}) /\ Cardinality(S \ {n}) = Cardinality(S) - 1
    BY SeqsAreFinite, FS_RemoveElement
  <2>3. /\ IsFiniteSet(Before(n))
        /\ Cardinality(Before(n)) <= Cardinality(S) - 1
    <3> HIDE DEF Before
    <3> QED  BY <2>1, <2>2, FS_Subset
  <2>4. Cardinality(Before(n)) \in Nat
    <3> HIDE DEF Before
    <3> QED  BY <2>3, FS_CardinalityType
  <2> QED
    BY <1>1, <2>3, <2>4 DEF Rank
<1>3. \A n, k \in S : n < k => Rank(S)[n] < Rank(S)[k]
  <2> TAKE n, k \in S
  <2> HAVE n < k
  <2>1. Before(n) \in SUBSET (Before(k) \ {n}) /\ n \in Before(k)
    <3>1. n \in Int /\ k \in Int  BY <1>0
    <3>2. \A m \in S : m < n => m < k /\ m # n
      BY <1>0, <3>1
    <3> QED  BY <3>2
  <2>2. IsFiniteSet(Before(k)) /\ Cardinality(Before(k)) \in Nat
    <3>1. Before(k) \in SUBSET Seqs  OBVIOUS
    <3> HIDE DEF Before
    <3> QED  BY <3>1, SeqsAreFinite, FS_CardinalityType
  <2>3. /\ IsFiniteSet(Before(k) \ {n})
        /\ Cardinality(Before(k) \ {n}) = Cardinality(Before(k)) - 1
    <3> HIDE DEF Before
    <3> QED  BY <2>1, <2>2, FS_RemoveElement
  <2>4. Cardinality(Before(n)) <= Cardinality(Before(k)) - 1
    <3> HIDE DEF Before
    <3> QED  BY <2>1, <2>3, FS_Subset
  <2>5. Cardinality(Before(n)) \in Nat
    <3>1. Before(n) \in SUBSET Seqs  OBVIOUS
    <3> HIDE DEF Before
    <3> QED  BY <3>1, SeqsAreFinite, FS_CardinalityType
  <2> QED
    BY <2>2, <2>4, <2>5 DEF Rank
<1>4. Rank(S) \in [S -> 0..(Cardinality(S) - 1)]
  BY <1>2 DEF Rank
<1>5. ASSUME NEW n \in S, NEW k \in S, Rank(S)[n] < Rank(S)[k]
      PROVE  n < k
  <2>1. Rank(S)[n] \in Int /\ Rank(S)[k] \in Int
    BY <1>1, <1>4
  <2>2. ~(k < n) /\ n # k
    BY <2>1, <1>3, <1>5
  <2> QED
    BY <2>2, <1>0
<1>6. QED
  BY <1>1, <1>3, <1>4, <1>5

LEMMA RankIsInjective ==
  ASSUME NEW S \in SUBSET Seqs, NEW n \in S, NEW k \in S, Rank(S)[n] = Rank(S)[k]
  PROVE  n = k
<1>1. n \in Int /\ k \in Int /\ Rank(S)[n] \in Int
  BY RankOrders, BrokerAssumption DEF Seqs
<1>2. ~(n < k) /\ ~(k < n)
  BY <1>1, RankOrders
<1>3. QED
  BY <1>1, <1>2

\* Every rank below the size of the set is taken.
LEMMA RankIsOnto ==
  ASSUME NEW S \in SUBSET Seqs, NEW i \in 1..Cardinality(S)
  PROVE  \E n \in S : Rank(S)[n] = i - 1
<1> DEFINE Ranks == 0..(Cardinality(S) - 1)
<1>0. S \subseteq Int /\ Cardinality(S) \in Nat
  BY RankOrders, BrokerAssumption DEF Seqs
<1>1. Rank(S) \in Injection(S, Ranks)
  <2>1. \A n, k \in S : Rank(S)[n] = Rank(S)[k] => n = k
    BY RankIsInjective
  <2>2. Rank(S) \in [S -> Ranks] /\ DOMAIN Rank(S) = S
    BY RankOrders
  <2> QED
    BY <2>1, <2>2 DEF Injection, IsInjective
<1>2. IsFiniteSet(Ranks) /\ Cardinality(Ranks) = Cardinality(S)
  <2>1. Cardinality(S) - 1 \in Int /\ 0 \in Int
    BY <1>0
  <2>2. IsFiniteSet(Ranks) /\ Cardinality(Ranks) = IF 0 > Cardinality(S) - 1 THEN 0 ELSE Cardinality(S) - 1 - 0 + 1
    BY <2>1, FS_Interval
  <2> QED  BY <1>0, <2>2
<1>3. Rank(S) \in Surjection(S, Ranks)
  <2> HIDE DEF Ranks
  <2> QED  BY <1>1, <1>2, FS_Injection
<1>4. i - 1 \in Ranks
  BY <1>0
<1>5. QED
  BY <1>3, <1>4 DEF Surjection

\* Sorted lists a set of sequence numbers.
LEMMA SortedLists ==
  ASSUME NEW S \in SUBSET Seqs
  PROVE  Sorted(S) \in Seq(S) /\ Len(Sorted(S)) = Cardinality(S) /\ Lists(Sorted(S), S)
<1> DEFINE q == Sorted(S)
<1>0. S \subseteq Int /\ Cardinality(S) \in Nat
  BY RankOrders, BrokerAssumption DEF Seqs
<1>1. \A i \in 1..Cardinality(S) : q[i] \in S /\ Rank(S)[q[i]] = i - 1
  <2> TAKE i \in 1..Cardinality(S)
  <2>1. PICK n \in S : Rank(S)[n] = i - 1
    BY RankIsOnto
  <2>2. Cardinality({m \in S : m < n}) = i - 1
    BY <2>1 DEF Rank
  <2>3. q[i] = CHOOSE k \in S : Cardinality({m \in S : m < k}) = i - 1
    BY DEF Sorted
  <2>4. q[i] \in S /\ Cardinality({m \in S : m < q[i]}) = i - 1
    <3> HIDE DEF q
    <3> QED  BY <2>2, <2>3
  <2> QED
    BY <2>4 DEF Rank
<1>2. q \in Seq(S) /\ Len(q) = Cardinality(S)
  <2>1. q = [i \in 1..Cardinality(S) |-> q[i]]
    BY DEF Sorted
  <2>2. q \in [1..Cardinality(S) -> S]
    <3> HIDE DEF q
    <3> QED  BY <1>1, <2>1
  <2> HIDE DEF q
  <2> QED  BY <1>0, <2>2
<1> HIDE DEF q
<1>3. \A i, j \in 1..Len(q) : i < j => q[i] < q[j]
  <2> TAKE i, j \in 1..Len(q)
  <2> HAVE i < j
  <2>1. Rank(S)[q[i]] < Rank(S)[q[j]]
    BY <1>0, <1>1, <1>2
  <2> QED
    BY <2>1, <1>1, <1>2, RankOrders
<1>4. \A n \in S : \E i \in 1..Len(q) : q[i] = n
  <2> TAKE n \in S
  <2>1. Rank(S)[n] \in 0..(Cardinality(S) - 1) /\ Rank(S)[n] \in Int
    BY RankOrders, <1>0
  <2>2. Rank(S)[n] + 1 \in 1..Len(q)
    BY <2>1, <1>0, <1>2
  <2>3. /\ q[Rank(S)[n] + 1] \in S
        /\ Rank(S)[q[Rank(S)[n] + 1]] = Rank(S)[n]
    BY <1>0, <1>1, <1>2, <2>1, <2>2
  <2>5. q[Rank(S)[n] + 1] = n
    BY <2>1, <2>3, RankIsInjective
  <2> QED
    BY <2>2, <2>5
<1>5. QED
  BY <1>1, <1>2, <1>3, <1>4 DEF Lists, Increasing, q

\* It is the only list of it.
LEMMA ListsUnique ==
  ASSUME NEW S \in SUBSET Seqs, NEW q \in Seq(Seqs), Lists(q, S)
  PROVE  q = Sorted(S)
<1>0. S \subseteq Int /\ Cardinality(S) \in Nat /\ Len(q) \in Nat /\ q \in [1..Len(q) -> S]
  <2>1. Len(q) \in Nat /\ q \in [1..Len(q) -> Seqs]
    BY LenProperties
  <2> QED  BY <2>1, RankOrders, BrokerAssumption DEF Seqs, Lists
<1>1. \A i, j \in 1..Len(q) : q[i] = q[j] => i = j
  <2> TAKE i, j \in 1..Len(q)
  <2>1. i < j \/ j < i \/ i = j
    BY <1>0
  <2>2. q[i] \in Int /\ q[j] \in Int
    BY <1>0
  <2> QED  BY <2>1, <2>2 DEF Lists, Increasing
<1>2. Len(q) = Cardinality(S)
  <2>1. q \in Bijection(1..Len(q), S)
    BY <1>0, <1>1 DEF Lists, Bijection, Injection, Surjection, IsInjective
  <2>2. ExistsBijection(1..Len(q), S)
    BY <2>1 DEF ExistsBijection
  <2> QED
    BY <1>0, <2>2, FS_CountingElements
<1>3. \A i \in 1..Len(q) : Rank(S)[q[i]] = i - 1
  <2> TAKE i \in 1..Len(q)
  <2> DEFINE B == {m \in S : m < q[i]}
             e == [j \in 1..(i - 1) |-> q[j]]
  <2>1. q[i] \in S /\ q[i] \in Int /\ i \in 1..Len(q) /\ i \in Int
    <3>1. q[i] \in S /\ i \in 1..Len(q) /\ i \in Int
      BY <1>0
    <3> QED  BY <3>1, <1>0
  <2>2. \A j \in 1..(i - 1) : j \in 1..Len(q) /\ q[j] \in S /\ q[j] < q[i]
    BY <1>0 DEF Lists, Increasing
  <2>3. \A n \in B : \E j \in 1..(i - 1) : q[j] = n
    <3> TAKE n \in B
    <3>1. PICK j \in 1..Len(q) : q[j] = n
      BY DEF Lists
    <3>2. ~(i < j) /\ i # j
      BY <1>0, <2>1, <3>1 DEF Lists, Increasing
    <3>3. j \in 1..(i - 1)
      BY <3>2, <1>0
    <3> QED  BY <3>1, <3>3
  <2>4. e \in Injection(1..(i - 1), B)
    <3>1. e \in [1..(i - 1) -> B]
      BY <2>2
    <3>2. \A j, k \in 1..(i - 1) : e[j] = e[k] => j = k
      BY <2>2, <1>1
    <3> QED  BY <3>1, <3>2 DEF Injection, IsInjective
  <2>5. e \in Surjection(1..(i - 1), B)
    <3>1. e \in [1..(i - 1) -> B]
      BY <2>2
    <3>2. \A n \in B : \E j \in 1..(i - 1) : e[j] = n
      BY <2>3
    <3> QED  BY <3>1, <3>2 DEF Surjection
  <2>6. ExistsBijection(1..(i - 1), B)
    <3> HIDE DEF e, B
    <3> QED  BY <2>4, <2>5 DEF ExistsBijection, Bijection
  <2>7. Cardinality(B) = i - 1
    <3>1. i - 1 \in Nat  BY <2>1
    <3> HIDE DEF B
    <3> QED  BY <3>1, <2>6, FS_CountingElements
  <2> QED
    BY <2>1, <2>7 DEF Rank
<1>4. \A i \in 1..Len(q) : Rank(S)[Sorted(S)[i]] = i - 1 /\ Sorted(S)[i] \in S
  <2> TAKE i \in 1..Len(q)
  <2>1. PICK n \in S : Rank(S)[n] = i - 1
    BY RankIsOnto, <1>2
  <2>2. Cardinality({m \in S : m < n}) = i - 1
    BY <2>1 DEF Rank
  <2>3. Sorted(S)[i] = CHOOSE k \in S : Cardinality({m \in S : m < k}) = i - 1
    BY <1>2 DEF Sorted
  <2>4. Sorted(S)[i] \in S /\ Cardinality({m \in S : m < Sorted(S)[i]}) = i - 1
    BY <2>2, <2>3
  <2> QED
    BY <2>4 DEF Rank
<1>5. \A i \in 1..Len(q) : q[i] = Sorted(S)[i]
  <2> TAKE i \in 1..Len(q)
  <2>1. Rank(S)[q[i]] = Rank(S)[Sorted(S)[i]] /\ q[i] \in S /\ Sorted(S)[i] \in S
    BY <1>3, <1>4, <1>0
  <2> QED  BY <2>1, RankIsInjective
<1>6. Sorted(S) \in Seq(Seqs) /\ Len(Sorted(S)) = Len(q)
  BY <1>2, SortedLists, SeqMonotonic
<1> QED
  BY <1>5, <1>6, SeqEqual

-----------------------------------------------------------------------------
\* Joining and cutting lists

\* The events that match and lie after number b up to number n.
Between(b, n) == {m \in Matching : b < m /\ m <= n}

LEMMA BetweenAreSeqs ==
  ASSUME NEW b, NEW n
  PROVE  Between(b, n) \in SUBSET Seqs /\ Matching \subseteq Seqs /\ Seqs \subseteq Int
<1>1. Matching \subseteq Seqs
  BY BrokerAssumption DEF Seqs
<1>2. Seqs \subseteq Int
  BY BrokerAssumption DEF Seqs
<1>3. Between(b, n) \subseteq Matching
  BY DEF Between
<1>4. QED
  BY <1>1, <1>2, <1>3

LEMMA ListsJoin ==
  ASSUME NEW p \in Seq(Seqs), NEW r \in Seq(Seqs), NEW A, NEW B,
         Lists(p, A), Lists(r, B), \A m \in A, n \in B : m < n
  PROVE  p \o r \in Seq(Seqs) /\ Lists(p \o r, A \union B)
<1>1. /\ p \o r \in Seq(Seqs) /\ Len(p \o r) = Len(p) + Len(r)
      /\ \A i \in 1..(Len(p) + Len(r)) :
           (p \o r)[i] = IF i <= Len(p) THEN p[i] ELSE r[i - Len(p)]
  BY ConcatProperties
<1>2. Len(p) \in Nat /\ Len(r) \in Nat
  BY LenProperties
<1>3. \A i \in 1..Len(p \o r) :
        \/ i \in 1..Len(p) /\ (p \o r)[i] = p[i]
        \/ i - Len(p) \in 1..Len(r) /\ (p \o r)[i] = r[i - Len(p)] /\ i > Len(p)
  BY <1>1, <1>2
<1>4. \A i \in 1..Len(p \o r) : (p \o r)[i] \in A \union B
  BY <1>3 DEF Lists
<1>5. \A n \in A \union B : \E i \in 1..Len(p \o r) : (p \o r)[i] = n
  <2> TAKE n \in A \union B
  <2>1. CASE n \in A
    <3>1. PICK i \in 1..Len(p) : p[i] = n
      BY <2>1 DEF Lists
    <3>2. i \in 1..Len(p \o r) /\ (p \o r)[i] = n
      BY <1>1, <1>2, <3>1
    <3> QED  BY <3>2
  <2>2. CASE n \in B
    <3>1. PICK i \in 1..Len(r) : r[i] = n
      BY <2>2 DEF Lists
    <3>2. i + Len(p) \in 1..(Len(p) + Len(r)) /\ ~(i + Len(p) <= Len(p))
          /\ i + Len(p) - Len(p) = i
      BY <1>2, <3>1
    <3>3. (p \o r)[i + Len(p)] = n
      BY <1>1, <3>1, <3>2
    <3> QED  BY <1>1, <3>2, <3>3
  <2> QED  BY <2>1, <2>2
<1>6. \A i, j \in 1..Len(p \o r) : i < j => (p \o r)[i] < (p \o r)[j]
  <2> TAKE i, j \in 1..Len(p \o r)
  <2> HAVE i < j
  <2>1. CASE j \in 1..Len(p) /\ (p \o r)[j] = p[j]
    <3>1. i \in 1..Len(p) /\ (p \o r)[i] = p[i]
      BY <1>1, <1>2, <2>1
    <3> QED  BY <2>1, <3>1 DEF Lists, Increasing
  <2>2. CASE j - Len(p) \in 1..Len(r) /\ (p \o r)[j] = r[j - Len(p)]
    <3>1. CASE i \in 1..Len(p) /\ (p \o r)[i] = p[i]
      BY <2>2, <3>1 DEF Lists
    <3>2. CASE i - Len(p) \in 1..Len(r) /\ (p \o r)[i] = r[i - Len(p)]
      <4>1. i - Len(p) < j - Len(p)
        BY <1>1, <1>2
      <4> QED  BY <2>2, <3>2, <4>1 DEF Lists, Increasing
    <3> QED  BY <3>1, <3>2, <1>3
  <2> QED  BY <2>1, <2>2, <1>3
<1>7. QED
  BY <1>1, <1>4, <1>5, <1>6 DEF Lists, Increasing

LEMMA NothingListed ==
  /\ \A q \in Seq(Seqs) : Lists(q, {}) => q = <<>>
  /\ Lists(<<>>, {}) /\ <<>> \in Seq(Seqs)
  /\ \A b \in Int : Between(b, b) = {}
  /\ Sorted({}) = <<>>
<1>1. \A q \in Seq(Seqs) : Lists(q, {}) => q = <<>>
  <2> TAKE q \in Seq(Seqs)
  <2> HAVE Lists(q, {})
  <2>1. Len(q) \in Nat /\ ~(1 \in 1..Len(q))
    BY LenProperties DEF Lists
  <2>2. Len(q) = 0
    BY <2>1
  <2> QED  BY <2>2, EmptySeq
<1>2. Lists(<<>>, {}) /\ <<>> \in Seq(Seqs)
  BY DEF Lists, Increasing
<1>3. \A b \in Int : Between(b, b) = {}
  <2> TAKE b \in Int
  <2>1. \A m \in Matching : ~(b < m /\ m <= b)
    BY BetweenAreSeqs
  <2> QED  BY <2>1 DEF Between
<1>4. Sorted({}) = <<>>
  BY <1>2, ListsUnique
<1>5. QED
  BY <1>1, <1>2, <1>3, <1>4

\* A list cut after its first part ends at the number it was cut at.
LEMMA ListsUpToLast ==
  ASSUME NEW p \in Seq(Seqs), NEW r \in Seq(Seqs), NEW b \in Int, NEW n \in Int,
         Lists(p \o r, Between(b, n)), p # <<>>
  PROVE  /\ p[Len(p)] \in Seqs /\ b < p[Len(p)]
         /\ Lists(p, Between(b, p[Len(p)]))
<1>1. /\ p \o r \in Seq(Seqs) /\ Len(p \o r) = Len(p) + Len(r)
      /\ \A i \in 1..(Len(p) + Len(r)) :
           (p \o r)[i] = IF i <= Len(p) THEN p[i] ELSE r[i - Len(p)]
  BY ConcatProperties
<1>2. Len(p) \in Nat \ {0} /\ Len(r) \in Nat
  BY LenProperties, EmptySeq
<1>3. \A i \in 1..Len(p) : i \in 1..Len(p \o r) /\ (p \o r)[i] = p[i]
  BY <1>1, <1>2
<1>4. Len(p) \in 1..Len(p)
  BY <1>2
<1>5. \A i \in 1..Len(p) : p[i] \in Seqs /\ p[i] \in Int /\ p[i] \in Matching /\ b < p[i] /\ p[i] <= n
  <2> TAKE i \in 1..Len(p)
  <2>1. p[i] \in Between(b, n)
    BY <1>3 DEF Lists
  <2>2. p[i] \in Matching /\ b < p[i] /\ p[i] <= n
    BY <2>1 DEF Between
  <2> QED  BY <2>2, BetweenAreSeqs
<1>6. Increasing(p)
  BY <1>3 DEF Lists, Increasing
<1>7. \A i \in 1..Len(p) : p[i] \in Between(b, p[Len(p)])
  <2> TAKE i \in 1..Len(p)
  <2>1. p[i] <= p[Len(p)]
    <3>1. CASE i = Len(p)
      BY <1>4, <1>5, <3>1
    <3>2. CASE i # Len(p)
      <4>1. i < Len(p)
        BY <1>2, <3>2
      <4>2. p[i] < p[Len(p)]
        BY <1>4, <1>6, <4>1 DEF Increasing
      <4> QED  BY <1>4, <1>5, <4>2
    <3> QED  BY <3>1, <3>2
  <2> QED  BY <2>1, <1>5 DEF Between
<1>8. \A m \in Between(b, p[Len(p)]) : \E i \in 1..Len(p) : p[i] = m
  <2> TAKE m \in Between(b, p[Len(p)])
  <2>1. m \in Int /\ m \in Matching /\ b < m /\ m <= p[Len(p)]
    BY BetweenAreSeqs DEF Between
  <2>2. m \in Between(b, n)
    BY <2>1, <1>4, <1>5 DEF Between
  <2>3. PICK i \in 1..Len(p \o r) : (p \o r)[i] = m
    BY <2>2 DEF Lists
  <2>4. CASE i \in 1..Len(p)
    BY <2>3, <2>4, <1>3
  <2>5. CASE i \notin 1..Len(p)
    <3>1. Len(p) < i /\ Len(p) \in 1..Len(p \o r)
      BY <1>1, <1>2, <2>5
    <3>2. p[Len(p)] < m
      BY <1>3, <1>4, <2>3, <3>1 DEF Lists, Increasing
    <3> QED  BY <3>2, <2>1, <1>4, <1>5
  <2> QED  BY <2>4, <2>5
<1>9. QED
  BY <1>4, <1>5, <1>6, <1>7, <1>8 DEF Lists

LEMMA ListsPrefix ==
  ASSUME NEW p \in Seq(Seqs), NEW r \in Seq(Seqs), NEW b \in Int, NEW n \in Int,
         Lists(p \o r, Between(b, n))
  PROVE  \E k \in Int : Lists(p, Between(b, k))
<1>1. CASE p = <<>>
  BY <1>1, NothingListed
<1>2. CASE p # <<>>
  <2>1. p[Len(p)] \in Int /\ Lists(p, Between(b, p[Len(p)]))
    BY <1>2, ListsUpToLast, BetweenAreSeqs
  <2> QED  BY <2>1
<1>3. QED
  BY <1>1, <1>2

\* The first and the last of a set of sequence numbers.
LEMMA Extremes ==
  ASSUME NEW S \in SUBSET Seqs, S # {}
  PROVE  /\ Max(S) \in S /\ \A n \in S : n <= Max(S)
         /\ Min(S) \in S /\ \A n \in S : Min(S) <= n
<1> DEFINE q == Sorted(S)
<1>0. S \subseteq Int
  BY BrokerAssumption DEF Seqs
<1>1. q \in Seq(S) /\ Lists(q, S)
  BY SortedLists
<1> HIDE DEF q
<1>2. Len(q) \in Nat \ {0}
  <2>1. PICK n \in S : TRUE  OBVIOUS
  <2>2. PICK i \in 1..Len(q) : q[i] = n
    BY <1>1 DEF Lists
  <2>3. Len(q) \in Nat
    BY <1>1, LenProperties
  <2> QED  BY <2>2, <2>3
<1>3. \A n \in S : q[1] <= n /\ n <= q[Len(q)]
  <2> TAKE n \in S
  <2>1. PICK i \in 1..Len(q) : q[i] = n
    BY <1>1 DEF Lists
  <2>2. 1 \in 1..Len(q) /\ Len(q) \in 1..Len(q)
    BY <1>2
  <2>3. q[1] \in Int /\ q[Len(q)] \in Int /\ n \in Int
    BY <1>0, <1>1, <2>2 DEF Lists
  <2>4. i = 1 \/ 1 < i
    BY <2>1, <1>2
  <2>5. i = Len(q) \/ i < Len(q)
    BY <2>1, <1>2
  <2> QED  BY <2>1, <2>2, <2>3, <2>4, <2>5, <1>1 DEF Lists, Increasing
<1>4. q[1] \in S /\ q[Len(q)] \in S
  BY <1>1, <1>2 DEF Lists
<1>5. \E x \in S : \A n \in S : x >= n
  BY <1>0, <1>3, <1>4
<1>6. \E x \in S : \A n \in S : x <= n
  BY <1>3, <1>4
<1>7. Max(S) \in S /\ \A n \in S : Max(S) >= n
  BY <1>5 DEF Max
<1>8. Min(S) \in S /\ \A n \in S : Min(S) <= n
  BY <1>6 DEF Min
<1>9. QED
  BY <1>0, <1>7, <1>8

\* Events that join on to number n without a hole extend what is listed.
LEMMA ContiguousExtends ==
  ASSUME NEW S \in SUBSET Seqs, S # {}, NEW n \in Int, Contiguous(S, n),
         NEW b \in Int, b <= n,
         NEW q \in Seq(Seqs), Lists(q, Between(b, n))
  PROVE  /\ Max(S) \in Seqs /\ n < Max(S) /\ b <= Max(S)
         /\ Sorted(S \intersect Matching) \in Seq(Seqs)
         /\ q \o Sorted(S \intersect Matching) \in Seq(Seqs)
         /\ Lists(q \o Sorted(S \intersect Matching), Between(b, Max(S)))
<1>1. Max(S) \in S /\ Max(S) \in Int /\ S = (n + 1)..Max(S)
  BY Extremes, BetweenAreSeqs DEF Contiguous
<1>2. n < Max(S) /\ b <= Max(S)
  BY <1>1
<1> DEFINE T == S \intersect Matching
<1>3. T \in SUBSET Seqs
  OBVIOUS
<1>4. Sorted(T) \in Seq(Seqs) /\ Lists(Sorted(T), T)
  <2> HIDE DEF T
  <2>1. Sorted(T) \in Seq(T) /\ Lists(Sorted(T), T)
    BY <1>3, SortedLists
  <2> QED  BY <1>3, <2>1, SeqMonotonic
<1>5. \A m \in Between(b, n), k \in T : m < k
  <2> TAKE m \in Between(b, n), k \in T
  <2>1. m \in Int /\ m <= n /\ k \in (n + 1)..Max(S)
    BY <1>1, BetweenAreSeqs DEF Between
  <2> QED  BY <2>1
<1>6. Between(b, n) \union T = Between(b, Max(S))
  <2>1. Matching \subseteq Int
    BY BetweenAreSeqs
  <2>2. ASSUME NEW m \in Matching
        PROVE  m \in Between(b, n) \union T <=> m \in Between(b, Max(S))
    <3>1. m \in Int  BY <2>1
    <3>2. m \in T <=> n < m /\ m <= Max(S)
      BY <1>1, <3>1
    <3>3. (m <= n \/ (n < m /\ m <= Max(S))) <=> m <= Max(S)
      BY <1>1, <1>2, <3>1
    <3>4. n < m => b < m
      BY <3>1
    <3> HIDE DEF T
    <3> QED  BY <3>2, <3>3, <3>4 DEF Between
  <2> QED  BY <2>2 DEF Between
<1>7. q \o Sorted(T) \in Seq(Seqs) /\ Lists(q \o Sorted(T), Between(b, n) \union T)
  <2> HIDE DEF T
  <2> QED  BY <1>4, <1>5, ListsJoin
<1>8. QED
  BY <1>1, <1>2, <1>4, <1>6, <1>7

-----------------------------------------------------------------------------
\* The inductive invariant

Handing(hand) == IF hand = None THEN <<>> ELSE <<hand>>

\* What a client has received, followed by all that its subscription still
\* has to give it.
Line(s, q) == q \o Handing(s.hand) \o s.initial \o s.queue

Fields == {"at", "state", "closed", "after", "last", "queue", "buffer",
           "initial", "hand", "goal", "latest", "cursor", "through", "page",
           "outcome", "merged"}

SubTyped(s) ==
  /\ DOMAIN s = Fields
  /\ s.at \in Places /\ s.state \in {"REPLAYING", "DRAINING", "LIVE"}
  /\ s.closed \in BOOLEAN
  /\ s.after \in Cursors /\ s.latest \in Cursors
  /\ s.last \in Seqs \union {Start} /\ s.hand \in Seqs \union {None}
  /\ s.queue \in Seq(Seqs) /\ s.initial \in Seq(Seqs)
  /\ s.buffer \subseteq Seqs /\ s.page \subseteq Seqs /\ s.merged \subseteq Seqs

\* Where a subscription is, and what it may hold there.
Phase(s) ==
  /\ s.hand # None => s.at \in {"replay", "replayRead"}
  /\ s.closed \/ s.state # "LIVE" => s.queue = <<>>
  /\ s.state # "DRAINING" => s.initial = <<>> /\ s.hand = None
  /\ s.at \in Querying => s.initial = <<>> /\ s.state # "LIVE"
                          /\ (s.goal = "drain" <=> s.state = "DRAINING")
  /\ s.at = "open" /\ s.state = "REPLAYING" => s.closed

\* The books of a subscription: what the client has received before the
\* replay, and the whole line from the hand-over on.
Accounts(s, q, b) ==
  IF s.state = "REPLAYING"
    THEN s.at \in Querying =>
           IF s.after = None THEN q = <<>>
                             ELSE b <= s.after /\ Lists(q, Between(b, s.after))
    ELSE IF s.closed THEN \E n \in Int : Lists(Line(s, q), Between(b, n))
                     ELSE b <= s.last /\ Lists(Line(s, q), Between(b, s.last))

ClientOK(s, q, b) ==
  /\ q \in Seq(Seqs) /\ b \in Int
  /\ \E n \in Int : Lists(q, Between(b, n))
  /\ SubTyped(s)
  /\ s.at # "off" => Phase(s) /\ Accounts(s, q, b)

SyncFields == {"by", "through", "cursor", "page", "at", "outcome"}

LogOK ==
  /\ rows \subseteq Seqs /\ live \subseteq Seqs
  /\ latest \in Cursors \union {Uncached}
  /\ \A e \in cached : e.page \subseteq Seqs
  /\ DOMAIN sync = SyncFields /\ sync.page \subseteq Seqs
  /\ DOMAIN world = {"bridged", "events", "kinds", "left"}
  /\ world.events \in 1..Events

ClientsOK ==
  /\ sub = [c \in Clients |-> sub[c]] /\ seen = [c \in Clients |-> seen[c]]
  /\ base = [c \in Clients |-> base[c]]
  /\ \A c \in Clients : ClientOK(sub[c], seen[c], base[c])

BrokerInv == LogOK /\ ClientsOK

-----------------------------------------------------------------------------
\* One subscription

LEMMA LeastOf ==
  ASSUME NEW T \in SUBSET Nat, T # {}
  PROVE  \E n \in T : \A m \in T : n <= m
<1>1. PICK n \in T : \A m \in T : <<m, n>> \notin OpToRel(<, Nat)
  BY WFMin, NatLessThanWellFounded, Zenon
<1>2. \A m \in T : ~(m < n)
  BY <1>1, Zenon DEF OpToRel
<1> QED
  BY <1>2

\* A set without a first gap joins on to the cursor.
LEMMA NoGapJoins ==
  ASSUME NEW S \in SUBSET Seqs, S # {}, NEW cursor \in Cursors,
         FirstGap(S, cursor) = NoGap
  PROVE  /\ cursor = None => Contiguous(S, Min(S) - 1)
         /\ cursor # None => Contiguous(S, cursor)
<1> DEFINE from == IF cursor = None THEN Min(S) - 1 ELSE cursor
<1>1. /\ Min(S) \in S /\ Max(S) \in S
      /\ \A n \in S : n <= Max(S) /\ Min(S) <= n
  BY Extremes
<1>2. from \in Int /\ from >= -1 /\ Min(S) \in Nat /\ Max(S) \in Nat
  <2>1. S \subseteq Nat /\ Seqs \subseteq Nat
    BY BrokerAssumption DEF Seqs
  <2>2. Min(S) \in Nat /\ Max(S) \in Nat
    BY <1>1, <2>1
  <2> QED  BY <2>1, <2>2 DEF Cursors, None, Start
<1> HIDE DEF from
<1>3. SUFFICES ASSUME ~Contiguous(S, from)
               PROVE  FALSE
  BY DEF from
<1>4. FirstGap(S, cursor) = IF Min(S) <= from THEN from
                            ELSE Min({n \in from..Max(S) : n + 1 \notin S})
  BY <1>3 DEF FirstGap, from
<1>5. CASE Min(S) <= from
  BY <1>2, <1>4, <1>5 DEF NoGap
<1>6. CASE ~(Min(S) <= from)
  <2> DEFINE T == {n \in from..Max(S) : n + 1 \notin S}
  <2>1. Min(T) = -3
    BY <1>4, <1>6 DEF NoGap
  <2>2. Max(S) \in T
    <3>1. Max(S) + 1 \notin S
      BY <1>1, <1>2
    <3>2. Max(S) \in from..Max(S)
      BY <1>1, <1>2, <1>6
    <3> QED  BY <3>1, <3>2
  <2>3. \A n \in T : n \in Int /\ n >= -1
    BY <1>2
  <2>4. \E n \in T : \A m \in T : n <= m
    <3> DEFINE U == {n + 1 : n \in T}
    <3>1. U \in SUBSET Nat /\ U # {}
      BY <2>2, <2>3
    <3>2. PICK k \in U : \A m \in U : k <= m
      <4> HIDE DEF U
      <4> QED  BY <3>1, LeastOf
    <3>3. PICK n \in T : k = n + 1
      BY <3>2
    <3>4. \A m \in T : n <= m
      <4> TAKE m \in T
      <4>1. k <= m + 1 /\ n \in Int /\ m \in Int
        BY <3>2, <2>3
      <4> QED  BY <4>1, <3>3
    <3> QED  BY <3>4
  <2>5. Min(T) \in T
    <3> HIDE DEF T
    <3> QED  BY <2>4 DEF Min
  <2> HIDE DEF T
  <2> QED  BY <2>1, <2>3, <2>5
<1>7. QED
  BY <1>5, <1>6

\* The line of a subscription is one sequence, and what the client has
\* received is its first part.
LEMMA LineParts ==
  ASSUME NEW s, SubTyped(s), NEW q \in Seq(Seqs)
  PROVE  /\ Line(s, q) \in Seq(Seqs) /\ Handing(s.hand) \in Seq(Seqs)
         /\ Line(s, q) = q \o (Handing(s.hand) \o (s.initial \o s.queue))
         /\ Handing(s.hand) \o (s.initial \o s.queue) \in Seq(Seqs)
<1>1. Handing(s.hand) \in Seq(Seqs) /\ s.initial \in Seq(Seqs) /\ s.queue \in Seq(Seqs)
  <2>1. s.hand \in Seqs \union {None} /\ s.initial \in Seq(Seqs) /\ s.queue \in Seq(Seqs)
    BY DEF SubTyped
  <2> QED  BY <2>1 DEF Handing
<1>2. /\ q \o Handing(s.hand) \in Seq(Seqs)
      /\ s.initial \o s.queue \in Seq(Seqs)
      /\ Handing(s.hand) \o (s.initial \o s.queue) \in Seq(Seqs)
      /\ (q \o Handing(s.hand)) \o s.initial \in Seq(Seqs)
      /\ ((q \o Handing(s.hand)) \o s.initial) \o s.queue \in Seq(Seqs)
  BY <1>1, ConcatProperties
<1>a. \A u, v, w \in Seq(Seqs) : (u \o v) \o w = u \o (v \o w)
  BY ConcatAssociative
<1>3. ((q \o Handing(s.hand)) \o s.initial) \o s.queue
        = (q \o Handing(s.hand)) \o (s.initial \o s.queue)
  <2> DEFINE u == q \o Handing(s.hand)
             v == s.initial
             w == s.queue
  <2>1. u \in Seq(Seqs) /\ v \in Seq(Seqs) /\ w \in Seq(Seqs)
    BY <1>1, <1>2
  <2>2. (u \o v) \o w = u \o (v \o w)
    <3> HIDE DEF u, v, w
    <3> QED  BY <2>1, <1>a
  <2> QED  BY <2>2
<1>4. (q \o Handing(s.hand)) \o (s.initial \o s.queue)
        = q \o (Handing(s.hand) \o (s.initial \o s.queue))
  BY <1>1, <1>2, <1>a, Zenon
<1>5. QED
  BY <1>1, <1>2, <1>3, <1>4 DEF Line

\* What a task leaves behind when it goes on, and what the client has then
\* received.
Kept(t) == IF t.at = "open" THEN Idle(t) ELSE t
Read(t, q) == IF t.at = "open" /\ t.hand # None THEN Append(q, t.hand) ELSE q

\* A subscription whose call has just ended, or asks for one more page.
Ready(t, q, b) ==
  /\ SubTyped(t) /\ t.at \in {"open"} \union Querying
  /\ t.at \in Querying => Phase(t) /\ Accounts(t, q, b)
  /\ t.at = "open" =>
       /\ t.closed \/ t.state # "LIVE" => t.queue = <<>>
       /\ t.state # "DRAINING" => t.initial = <<>>
       /\ t.state = "REPLAYING" => t.closed /\ t.hand = None
       /\ t.state # "REPLAYING" =>
            IF t.closed THEN \E n \in Int : Lists(Line(t, q), Between(b, n))
            ELSE b <= t.last /\ Lists(Line(t, q), Between(b, t.last))

LEMMA ReadyAdvances ==
  ASSUME NEW t, NEW q \in Seq(Seqs), NEW b \in Int,
         \E n \in Int : Lists(q, Between(b, n)), Ready(t, q, b)
  PROVE  ClientOK(Kept(t), Read(t, q), b)
<1>0. SubTyped(t)
  BY DEF Ready
<1>1. CASE t.at \in Querying
  <2>1. Kept(t) = t /\ Read(t, q) = q
    BY <1>1 DEF Kept, Read, Querying
  <2> QED  BY <1>1, <2>1 DEF Ready, ClientOK
<1>2. CASE t.at = "open"
  <2> DEFINE i == Idle(t)
             r == Read(t, q)
  <2>1. Kept(t) = i
    BY <1>2 DEF Kept
  <2>2. /\ DOMAIN i = Fields /\ i.at = "open" /\ i.state = t.state /\ i.closed = t.closed
        /\ i.after = None /\ i.last = t.last /\ i.hand = None /\ i.latest = None
        /\ i.queue = t.queue /\ i.initial = t.initial
        /\ i.buffer = t.buffer /\ i.page = {} /\ i.merged = {}
    BY <1>0, <1>2 DEF Idle, SubTyped, Fields
  <2> HIDE DEF i
  <2>3. SubTyped(i)
    BY <1>0, <2>2 DEF SubTyped, Cursors, Places
  <2>4. r \in Seq(Seqs) /\ r = q \o Handing(t.hand)
    <3>1. CASE t.hand = None
      BY <3>1, ConcatEmptySeq DEF Read, Handing
    <3>2. CASE t.hand # None
      <4>1. t.hand \in Seqs /\ r = Append(q, t.hand)
        BY <1>0, <1>2, <3>2 DEF SubTyped, Read
      <4> HIDE DEF r
      <4> QED  BY <3>2, <4>1, AppendProperties, AppendIsConcat DEF Handing
    <3> QED  BY <3>1, <3>2
  <2> HIDE DEF r
  <2>5. Line(i, r) = Line(t, q)
    <3>1. Handing(i.hand) = <<>> /\ r \o <<>> = r
      BY <2>2, <2>4, ConcatEmptySeq DEF Handing
    <3> QED  BY <3>1, <2>2, <2>4 DEF Line
  <2>6. Phase(i)
    BY <1>2, <2>2 DEF Ready, Phase, Querying
  <2>7. Accounts(i, r, b)
    BY <1>2, <2>2, <2>5 DEF Ready, Accounts, Querying
  <2>8. \E n \in Int : Lists(r, Between(b, n))
    <3>1. CASE t.state = "REPLAYING"
      <4>1. r = q
        BY <1>2, <3>1, <2>4, ConcatEmptySeq DEF Ready, Handing
      <4> QED  BY <4>1
    <3>2. CASE t.state # "REPLAYING"
      <4>1. PICK n \in Int : Lists(Line(t, q), Between(b, n))
        <5>1. t.last \in Int
          BY <1>0, BetweenAreSeqs DEF SubTyped, Start
        <5> QED  BY <1>2, <3>2, <5>1 DEF Ready
      <4>2. Line(i, r) = r \o (Handing(i.hand) \o (i.initial \o i.queue))
            /\ Handing(i.hand) \o (i.initial \o i.queue) \in Seq(Seqs)
        BY <2>3, <2>4, LineParts
      <4>3. Lists(r \o (Handing(i.hand) \o (i.initial \o i.queue)), Between(b, n))
        BY <4>1, <4>2, <2>5, Zenon
      <4> QED  BY <4>2, <4>3, <2>4, ListsPrefix
    <3> QED  BY <3>1, <3>2
  <2> QED
    BY <2>1, <2>3, <2>4, <2>6, <2>7, <2>8 DEF ClientOK, r
<1>3. QED
  BY <1>1, <1>2 DEF Ready

\* The sequence numbers below a cursor.
LEMMA CursorsAreInt ==
  /\ Cursors \subseteq Int /\ Seqs \subseteq Cursors /\ Seqs \subseteq Int
  /\ None \in Cursors /\ Start \in Cursors /\ Start \in Int
  /\ None \notin Seqs \union {Start}
  /\ \A n \in Seqs : n - 1 \in Seqs \union {Start}
BY BrokerAssumption DEF Cursors, Seqs, None, Start

LEMMA SortedSeqs ==
  ASSUME NEW S \in SUBSET Seqs
  PROVE  Sorted(S) \in Seq(Seqs) /\ Lists(Sorted(S), S)
BY SortedLists, SeqMonotonic

\* The number the client starts after, once a task goes on.
Based(t, all, b) ==
  IF t.at = "open" /\ t.goal # "drain" /\ t.after = None /\ ~t.closed
    THEN IF all = {} THEN t.last ELSE Min(all) - 1
    ELSE b

\* A round of the hand-over.
LEMMA HandedOverReady ==
  ASSUME NEW s, SubTyped(s), Phase(s), s.at \in Querying, s.state = "REPLAYING",
         NEW q \in Seq(Seqs), NEW b \in Int, Accounts(s, q, b),
         \E n \in Int : Lists(q, Between(b, n)),
         NEW all, all = s.merged \union s.buffer,
         NEW start, start = Based(HandedOver(s), all, b)
  PROVE  /\ Ready(HandedOver(s), q, start) /\ start \in Int
         /\ \E n \in Int : Lists(q, Between(start, n))
<1> DEFINE t == HandedOver(s)
           from == IF s.after = None /\ s.merged = {} /\ s.buffer # {}
                     THEN IF s.latest # None THEN s.latest ELSE Start
                     ELSE s.after
           gap == FirstGap(all, from)
<1>0. /\ s.hand = None /\ s.initial = <<>> /\ s.queue = <<>> /\ s.goal # "drain"
      /\ s.after \in Cursors /\ s.latest \in Cursors
      /\ all \in SUBSET Seqs /\ from \in Cursors
  BY CursorsAreInt DEF SubTyped, Phase, Querying
<1>1. CASE s.closed
  <2>1. t = [s EXCEPT !.at = "open"]
    BY <1>1 DEF HandedOver
  <2> HIDE DEF t
  <2>2. /\ DOMAIN t = Fields /\ t.at = "open" /\ t.state = s.state /\ t.closed = s.closed
        /\ t.after = s.after /\ t.last = s.last /\ t.hand = s.hand /\ t.latest = s.latest
        /\ t.queue = s.queue /\ t.initial = s.initial /\ t.goal = s.goal
        /\ t.buffer = s.buffer /\ t.page = s.page /\ t.merged = s.merged
    BY <2>1 DEF SubTyped, Fields
  <2>3. SubTyped(t)
    BY <2>2 DEF SubTyped, Places
  <2>4. Ready(t, q, b)
    BY <1>0, <1>1, <2>2, <2>3 DEF Ready, Querying
  <2>5. start = b
    BY <1>1, <2>2 DEF t, Based
  <2> QED  BY <1>0, <2>2, <2>4, <2>5 DEF t
<1>2. CASE ~s.closed /\ gap # NoGap
  <2>1. t = Fetching(s, "handover", gap)
    BY <1>2 DEF HandedOver
  <2> HIDE DEF t, gap
  <2>2. /\ DOMAIN t = Fields /\ t.at = "replay" /\ t.state = s.state /\ t.closed = s.closed
        /\ t.after = s.after /\ t.last = s.last /\ t.hand = s.hand /\ t.latest = s.latest
        /\ t.queue = s.queue /\ t.initial = s.initial /\ t.goal = "handover"
        /\ t.buffer = s.buffer /\ t.page = {} /\ t.merged = s.merged
    BY <2>1 DEF SubTyped, Fields, Fetching
  <2>3. SubTyped(t) /\ Phase(t) /\ Accounts(t, q, b)
    <3>1. SubTyped(t)
      BY <2>2 DEF SubTyped, Places, Querying
    <3>2. Phase(t)
      BY <1>0, <2>2 DEF Phase, Querying
    <3>3. Accounts(t, q, b)
      BY <2>2 DEF Accounts, Querying
    <3> QED  BY <3>1, <3>2, <3>3
  <2>4. Ready(t, q, b)
    BY <2>2, <2>3 DEF Ready, Querying
  <2>5. start = b
    BY <2>2 DEF t, Based
  <2> QED  BY <2>2, <2>4, <2>5 DEF t
<1>3. CASE ~s.closed /\ gap = NoGap
  <2>1. t = HandedOverAsRead([s EXCEPT !.merged = all])
    BY <1>3 DEF HandedOver
  <2> DEFINE last == IF all # {} THEN Max(all)
                     ELSE IF s.after # None THEN s.after
                     ELSE IF s.latest # None THEN s.latest ELSE Start
             M == all \intersect Matching
  <2> HIDE DEF t, gap, from
  <2>2. /\ DOMAIN t = Fields /\ t.at = "open" /\ t.closed = s.closed
        /\ t.after = s.after /\ t.hand = s.hand /\ t.latest = s.latest
        /\ t.queue = s.queue /\ t.initial = Sorted(M) /\ t.goal = s.goal
        /\ t.buffer = {} /\ t.page = s.page /\ t.merged = all /\ t.last = last
        /\ t.state = IF M # {} THEN "DRAINING" ELSE "LIVE"
    BY <2>1 DEF SubTyped, Fields, HandedOverAsRead
  <2> DEFINE c == IF all = {} THEN last ELSE Min(all) - 1
  <2>3. last \in Seqs \union {Start} /\ c \in Int
    <3>1. CASE all = {}
      BY <3>1, <1>0, CursorsAreInt DEF Cursors
    <3>2. CASE all # {}
      <4>1. Max(all) \in Seqs /\ Min(all) \in Seqs
        BY <1>0, <3>2, Extremes
      <4> QED  BY <3>2, <4>1, CursorsAreInt
    <3> QED  BY <3>1, <3>2
  <2>4. Sorted(M) \in Seq(Seqs) /\ (M = {} => Sorted(M) = <<>>)
    <3>1. M \in SUBSET Seqs
      BY <1>0
    <3> HIDE DEF M
    <3> QED  BY <3>1, SortedSeqs, NothingListed
  <2>5. SubTyped(t)
    <3>1. last \in Seqs \union {Start} /\ Sorted(M) \in Seq(Seqs)
      BY <2>3, <2>4
    <3> HIDE DEF last, M
    <3> QED  BY <1>0, <2>2, <3>1 DEF SubTyped, Places
  <2>6. start = IF s.after = None THEN c ELSE b
    <3> HIDE DEF c, last
    <3>1. start = IF s.after = None THEN IF all = {} THEN t.last ELSE Min(all) - 1 ELSE b
      BY <1>0, <1>3, <2>2 DEF t, Based
    <3> QED  BY <3>1, <2>2 DEF c
  <2> HIDE DEF c, M
  <2>7. start \in Int /\ start <= last /\ Lists(q \o Sorted(M), Between(start, last))
    <3>1. CASE all = {}
      <4>1. M = {} /\ q \o Sorted(M) = q
        BY <2>4, <3>1, ConcatEmptySeq DEF M
      <4>2. CASE s.after = None
        <5>1. start = last /\ start \in Int /\ q = <<>>
          BY <2>3, <2>6, <3>1, <4>2 DEF c, Accounts
        <5>2. Lists(<<>>, Between(last, last))
          BY <5>1, NothingListed
        <5>3. last <= last
          BY <5>1
        <5> HIDE DEF last
        <5> QED  BY <4>1, <5>1, <5>2, <5>3
      <4>3. CASE s.after # None
        <5>1. last = s.after /\ start = b
          BY <2>6, <3>1, <4>3
        <5> QED  BY <4>1, <4>3, <5>1 DEF Accounts
      <4> QED  BY <4>2, <4>3
    <3>2. CASE all # {}
      <4>0. last = Max(all)
        BY <3>2
      <4> HIDE DEF last
      <4>1. CASE s.after # None
        <5>1. Contiguous(all, s.after) /\ s.after \in Int
          <6>1. from = s.after
            BY <4>1 DEF from
          <6> QED  BY <6>1, <1>0, <1>3, <3>2, <4>1, NoGapJoins, CursorsAreInt DEF gap
        <5>2. start = b /\ b <= s.after /\ Lists(q, Between(b, s.after))
          BY <2>6, <4>1 DEF Accounts
        <5> QED  BY <1>0, <3>2, <4>0, <5>1, <5>2, ContiguousExtends DEF M
      <4>2. CASE s.after = None
        <5>1. Contiguous(all, Min(all) - 1) /\ Min(all) - 1 \in Int
          <6>0. Min(all) \in all /\ Min(all) \in Int
            BY <1>0, <3>2, Extremes, CursorsAreInt
          <6>a. FirstGap(all, from) = NoGap
            BY <1>3 DEF gap
          <6>b. /\ from = None => Contiguous(all, Min(all) - 1)
                /\ from # None => Contiguous(all, from)
            BY <6>a, <1>0, <3>2, NoGapJoins
          <6>1. CASE from = None
            BY <6>0, <6>1, <6>b
          <6>2. CASE from # None
            <7>1. all = (from + 1)..Max(all) /\ Max(all) \in Int /\ from \in Int
              BY <6>2, <6>b, <1>0, <3>2, Extremes, CursorsAreInt DEF Contiguous
            <7>a. PICK greatest \in Int : all = (from + 1)..greatest
              BY <7>1
            <7>2. from + 1 \in all /\ from + 1 \in Int /\ \A n \in all : from + 1 <= n
              BY <6>0, <7>1, <7>a
            <7>3. Min(all) <= from + 1
              BY <1>0, <3>2, <7>2, Extremes
            <7>4. Min(all) = from + 1
              BY <6>0, <7>2, <7>3
            <7>5. Min(all) - 1 = from
              BY <7>1, <7>4
            <7> QED  BY <6>0, <7>1, <7>5 DEF Contiguous
          <6> QED  BY <6>1, <6>2
        <5>2. start = Min(all) - 1 /\ q = <<>> /\ Lists(q, Between(start, start))
          BY <2>6, <3>2, <4>2, <5>1, NothingListed DEF c, Accounts
        <5>3. Contiguous(all, start) /\ start \in Int /\ start <= start
          BY <5>1, <5>2
        <5> QED  BY <1>0, <3>2, <4>0, <5>2, <5>3, ContiguousExtends DEF M
      <4> QED  BY <4>1, <4>2
    <3> QED  BY <3>1, <3>2
  <2>8. Line(t, q) = q \o Sorted(M)
    <3>1. q \o <<>> = q /\ q \o Sorted(M) \in Seq(Seqs)
      BY <2>4, ConcatEmptySeq, ConcatProperties
    <3>2. (q \o Sorted(M)) \o <<>> = q \o Sorted(M)
      BY <3>1, ConcatEmptySeq
    <3>3. Handing(t.hand) = <<>>
      BY <1>0, <2>2 DEF Handing
    <3>4. Line(t, q) = ((q \o Handing(t.hand)) \o Sorted(M)) \o <<>>
      BY <1>0, <2>2 DEF Line
    <3> QED  BY <3>1, <3>2, <3>3, <3>4
  <2>9. \E n \in Int : Lists(q, Between(start, n))
    <3>1. last \in Int
      BY <2>3, CursorsAreInt
    <3> HIDE DEF last
    <3> QED  BY <2>4, <2>7, <3>1, ListsPrefix
  <2>10. Ready(t, q, start)
    <3> HIDE DEF last
    <3> QED  BY <1>0, <1>3, <2>2, <2>4, <2>5, <2>7, <2>8 DEF Ready, Querying
  <2> QED  BY <1>0, <2>2, <2>7, <2>9, <2>10 DEF t
<1>4. QED
  BY <1>1, <1>2, <1>3

\* A round of the drain.
LEMMA DrainedReady ==
  ASSUME NEW s, SubTyped(s), s.state = "DRAINING", s.initial = <<>>,
         s.queue = <<>>, s.goal = "drain",
         NEW q \in Seq(Seqs), NEW b \in Int, Accounts(s, q, b)
  PROVE  Ready(Drained(s), q, b) /\ Drained(s).goal = "drain"
<1> DEFINE t == Drained(s)
           all == s.merged \union s.buffer
           gap == FirstGap(all, s.last)
<1>0. /\ all \in SUBSET Seqs /\ s.last \in Cursors /\ s.last # None /\ s.last \in Int
      /\ IF s.closed THEN \E n \in Int : Lists(Line(s, q), Between(b, n))
         ELSE b <= s.last /\ Lists(Line(s, q), Between(b, s.last))
  BY CursorsAreInt DEF SubTyped, Accounts
<1>1. CASE s.closed \/ (gap # NoGap /\ s.buffer = {})
  <2>1. t = [s EXCEPT !.at = "open"] \/ t = [Closed(s) EXCEPT !.at = "open"]
    BY <1>1 DEF Drained
  <2>2. s.closed \/ t = [Closed(s) EXCEPT !.at = "open"]
    BY <1>1 DEF Drained
  <2> HIDE DEF t
  <2>3. /\ DOMAIN t = Fields /\ t.at = "open" /\ t.state = s.state /\ t.closed
        /\ t.after = s.after /\ t.last = s.last /\ t.hand = s.hand /\ t.latest = s.latest
        /\ t.queue = <<>> /\ t.initial = s.initial /\ t.goal = s.goal
        /\ t.buffer \subseteq Seqs /\ t.page = s.page /\ t.merged = s.merged
        /\ t.closed \in BOOLEAN
    <3>1. CASE t = [Closed(s) EXCEPT !.at = "open"]
      BY <3>1 DEF SubTyped, Fields, Closed
    <3>2. CASE s.closed /\ t = [s EXCEPT !.at = "open"]
      BY <3>2 DEF SubTyped, Fields
    <3> QED  BY <2>1, <2>2, <3>1, <3>2
  <2>4. SubTyped(t)
    BY <2>3 DEF SubTyped, Places
  <2>5. Line(t, q) = Line(s, q)
    BY <2>3 DEF Line
  <2>6. \E n \in Int : Lists(Line(t, q), Between(b, n))
    BY <1>0, <2>5
  <2> QED  BY <2>3, <2>4, <2>6 DEF Ready, Querying, t
<1>2. CASE ~s.closed /\ gap # NoGap /\ s.buffer # {}
  <2>1. t = Fetching(s, "drain", gap)
    BY <1>2 DEF Drained
  <2> HIDE DEF t, gap
  <2>2. /\ DOMAIN t = Fields /\ t.at = "replay" /\ t.state = s.state /\ t.closed = s.closed
        /\ t.after = s.after /\ t.last = s.last /\ t.hand = s.hand /\ t.latest = s.latest
        /\ t.queue = s.queue /\ t.initial = s.initial /\ t.goal = "drain"
        /\ t.buffer = s.buffer /\ t.page = {} /\ t.merged = s.merged
    BY <2>1 DEF SubTyped, Fields, Fetching
  <2>3. SubTyped(t)
    BY <2>2 DEF SubTyped, Places, Querying
  <2>4. Phase(t)
    BY <2>2 DEF Phase, Querying
  <2>5. Line(t, q) = Line(s, q)
    BY <2>2 DEF Line
  <2>6. Accounts(t, q, b)
    BY <2>2, <2>5 DEF Accounts
  <2> QED  BY <2>2, <2>3, <2>4, <2>6 DEF Ready, Querying, t
<1>3. CASE ~s.closed /\ gap = NoGap
  <2> DEFINE last == IF all = {} THEN s.last ELSE Max(all)
             M == all \intersect Matching
  <2>1. t = [s EXCEPT !.at = "open", !.buffer = {}, !.initial = Sorted(M), !.last = last,
                      !.state = IF M = {} THEN "LIVE" ELSE "DRAINING"]
    BY <1>3 DEF Drained
  <2> HIDE DEF t, gap, last, M
  <2>2. /\ DOMAIN t = Fields /\ t.at = "open" /\ t.closed = s.closed
        /\ t.after = s.after /\ t.last = last /\ t.hand = s.hand /\ t.latest = s.latest
        /\ t.queue = s.queue /\ t.initial = Sorted(M) /\ t.goal = s.goal
        /\ t.buffer = {} /\ t.page = s.page /\ t.merged = s.merged
        /\ t.state = IF M = {} THEN "LIVE" ELSE "DRAINING"
    BY <2>1 DEF SubTyped, Fields
  <2>3. Sorted(M) \in Seq(Seqs) /\ (M = {} => Sorted(M) = <<>>)
    <3>1. M \in SUBSET Seqs
      BY <1>0 DEF M
    <3> QED  BY <3>1, SortedSeqs, NothingListed
  <2> DEFINE r == q \o Handing(s.hand)
  <2>4. r \in Seq(Seqs) /\ Line(s, q) = r
    <3>1. Handing(s.hand) \in Seq(Seqs)
      BY LineParts
    <3>2. r \in Seq(Seqs)
      BY <3>1, ConcatProperties
    <3>3. Line(s, q) = (r \o <<>>) \o <<>>
      BY DEF Line
    <3> HIDE DEF r
    <3>4. r \o <<>> = r
      BY <3>2, ConcatEmptySeq
    <3> QED  BY <3>2, <3>3, <3>4
  <2>5. b <= s.last /\ Lists(r, Between(b, s.last))
    <3> HIDE DEF r
    <3> QED  BY <1>0, <1>3, <2>4
  <2>6. Line(t, q) = r \o Sorted(M)
    <3>1. Line(t, q) = (r \o Sorted(M)) \o <<>>
      BY <2>2 DEF Line
    <3> HIDE DEF r
    <3>2. r \o Sorted(M) \in Seq(Seqs)
      BY <2>3, <2>4, ConcatProperties
    <3> QED  BY <3>1, <3>2, ConcatEmptySeq
  <2> HIDE DEF r
  <2>7. last \in Seqs \union {Start} /\ b <= last /\ Lists(r \o Sorted(M), Between(b, last))
    <3>1. CASE all = {}
      <4>1. M = {} /\ last = s.last /\ s.last \in Seqs \union {Start}
        BY <3>1 DEF M, last, SubTyped
      <4>2. r \o Sorted(M) = r
        BY <4>1, <2>3, <2>4, ConcatEmptySeq
      <4> QED  BY <4>1, <4>2, <2>5
    <3>2. CASE all # {}
      <4>1. FirstGap(all, s.last) = NoGap
        BY <1>3 DEF gap
      <4>2. Contiguous(all, s.last)
        BY <4>1, <1>0, <3>2, NoGapJoins
      <4>3. last = Max(all)
        BY <3>2 DEF last
      <4> QED  BY <4>2, <4>3, <1>0, <2>4, <2>5, <3>2, ContiguousExtends DEF M
    <3> QED  BY <3>1, <3>2
  <2>8. SubTyped(t)
    BY <2>2, <2>3, <2>7 DEF SubTyped, Places
  <2> QED
    BY <1>3, <2>2, <2>3, <2>6, <2>7, <2>8 DEF Ready, Querying, t
<1>4. QED
  BY <1>1, <1>2, <1>3

\* One more page of a replay.
LEMMA ResumedReady ==
  ASSUME NEW s, SubTyped(s), Phase(s), s.at \in Querying,
         NEW q \in Seq(Seqs), NEW b \in Int, Accounts(s, q, b),
         \E n \in Int : Lists(q, Between(b, n)),
         NEW page \in SUBSET Seqs,
         NEW t, t = Resumed(s, page),
         NEW all, all = s.merged \union page \union s.buffer,
         NEW start, start = Based(t, all, b)
  PROVE  /\ Ready(t, q, start) /\ start \in Int
         /\ \E n \in Int : Lists(q, Between(start, n))
<1> DEFINE u == [s EXCEPT !.merged = @ \union page, !.cursor = PageEnd(s, page)]
<1>1. /\ DOMAIN u = Fields /\ u.at = s.at /\ u.state = s.state /\ u.closed = s.closed
      /\ u.after = s.after /\ u.last = s.last /\ u.hand = s.hand /\ u.latest = s.latest
      /\ u.queue = s.queue /\ u.initial = s.initial /\ u.goal = s.goal
      /\ u.buffer = s.buffer /\ u.page = s.page /\ u.merged = s.merged \union page
  BY DEF SubTyped, Fields
<1>2. t = IF ~Reached(s, page) THEN [u EXCEPT !.at = "replay", !.page = {}]
          ELSE IF s.goal = "drain" THEN Drained(u) ELSE HandedOver(u)
  BY DEF Resumed
<1> HIDE DEF u
<1>3. SubTyped(u)
  BY <1>1 DEF SubTyped
<1>4. Phase(u)
  BY <1>1 DEF Phase
<1>5. Line(u, q) = Line(s, q)
  BY <1>1 DEF Line
<1>6. Accounts(u, q, b)
  BY <1>1, <1>5 DEF Accounts
<1>7. CASE ~Reached(s, page)
  <2>1. t = [u EXCEPT !.at = "replay", !.page = {}]
    BY <1>2, <1>7
  <2>2. /\ DOMAIN t = Fields /\ t.at = "replay" /\ t.state = s.state /\ t.closed = s.closed
        /\ t.after = s.after /\ t.last = s.last /\ t.hand = s.hand /\ t.latest = s.latest
        /\ t.queue = s.queue /\ t.initial = s.initial /\ t.goal = s.goal
        /\ t.buffer = s.buffer /\ t.page = {} /\ t.merged = s.merged \union page
    BY <1>1, <2>1 DEF Fields
  <2>3. SubTyped(t)
    BY <2>2 DEF SubTyped, Places, Querying
  <2>4. Phase(t)
    BY <2>2 DEF Phase, Querying
  <2>5. Line(t, q) = Line(s, q)
    BY <2>2 DEF Line
  <2>6. Accounts(t, q, b)
    BY <2>2, <2>5 DEF Accounts, Querying
  <2>7. start = b
    BY <2>2 DEF Based
  <2> QED  BY <2>2, <2>3, <2>4, <2>6, <2>7 DEF Ready, Querying
<1>8. CASE Reached(s, page) /\ s.goal = "drain"
  <2>1. t = Drained(u)
    BY <1>2, <1>8
  <2>2. u.state = "DRAINING" /\ u.initial = <<>> /\ u.queue = <<>> /\ u.goal = "drain"
    BY <1>1, <1>8 DEF Phase
  <2>3. Ready(t, q, b) /\ t.goal = "drain"
    BY <2>1, <2>2, <1>3, <1>6, DrainedReady
  <2> QED  BY <2>3 DEF Based
<1>9. CASE Reached(s, page) /\ s.goal # "drain"
  <2>1. t = HandedOver(u)
    BY <1>2, <1>9
  <2>2. u.state = "REPLAYING" /\ u.at \in Querying
    BY <1>1, <1>9 DEF Phase, SubTyped
  <2>3. all = u.merged \union u.buffer
    BY <1>1
  <2>4. start = Based(HandedOver(u), all, b)
    BY <2>1
  <2>5. /\ Ready(HandedOver(u), q, start) /\ start \in Int
        /\ \E n \in Int : Lists(q, Between(start, n))
    BY <1>3, <1>4, <1>6, <2>2, <2>3, <2>4, HandedOverReady
  <2> QED  BY <2>1, <2>5
<1>10. QED
  BY <1>7, <1>8, <1>9

\* A subscriber that is closed loses what was queued, and nothing else.
LEMMA ClosedOK ==
  ASSUME NEW s, NEW q, NEW b, ClientOK(s, q, b), s.at # "off"
  PROVE  ClientOK(Closed(s), q, b)
<1> DEFINE t == Closed(s)
<1>0. /\ q \in Seq(Seqs) /\ b \in Int /\ SubTyped(s) /\ Phase(s) /\ Accounts(s, q, b)
      /\ \E n \in Int : Lists(q, Between(b, n))
  BY DEF ClientOK
<1>1. /\ DOMAIN t = Fields /\ t.at = s.at /\ t.state = s.state /\ t.closed = TRUE /\ t.closed \in BOOLEAN
      /\ t.after = s.after /\ t.last = s.last /\ t.hand = s.hand /\ t.latest = s.latest
      /\ t.queue = <<>> /\ t.initial = s.initial /\ t.goal = s.goal
      /\ t.buffer = {} /\ t.page = s.page /\ t.merged = s.merged
  BY <1>0 DEF SubTyped, Fields, Closed
<1> HIDE DEF t
<1>2. SubTyped(t)
  <2>1. <<>> \in Seq(Seqs) /\ {} \subseteq Seqs
    OBVIOUS
  <2> QED  BY <1>0, <1>1, <2>1 DEF SubTyped
<1>3. Phase(t)
  BY <1>0, <1>1 DEF Phase
<1>4. Accounts(t, q, b)
  <2>1. CASE s.state = "REPLAYING"
    BY <1>0, <1>1, <2>1 DEF Accounts
  <2>2. CASE s.state # "REPLAYING"
    <3> DEFINE p == (q \o Handing(s.hand)) \o s.initial
    <3>1. p \in Seq(Seqs) /\ s.queue \in Seq(Seqs)
      <4>1. Handing(s.hand) \in Seq(Seqs) /\ s.initial \in Seq(Seqs) /\ s.queue \in Seq(Seqs)
        BY <1>0, LineParts DEF SubTyped
      <4> QED  BY <1>0, <4>1, ConcatProperties
    <3>2. Line(s, q) = p \o s.queue /\ Line(t, q) = p \o <<>>
      BY <1>1 DEF Line
    <3> HIDE DEF p
    <3>3. PICK n \in Int : Lists(p \o s.queue, Between(b, n))
      <4>1. s.last \in Int
        BY <1>0, CursorsAreInt DEF SubTyped
      <4>2. \E n \in Int : Lists(Line(s, q), Between(b, n))
        BY <1>0, <2>2, <4>1 DEF Accounts
      <4> QED  BY <3>2, <4>2
    <3>4. \E k \in Int : Lists(p, Between(b, k))
      BY <1>0, <3>1, <3>3, ListsPrefix
    <3>5. Line(t, q) = p
      BY <3>1, <3>2, ConcatEmptySeq
    <3> QED  BY <1>1, <2>2, <3>4, <3>5 DEF Accounts
  <2> QED  BY <2>1, <2>2
<1>5. QED
  BY <1>0, <1>2, <1>3, <1>4 DEF ClientOK, t

\* A step that leaves a replaying or draining subscription where it is in its
\* line.
LEMMA AskingOK ==
  ASSUME NEW s, NEW q, NEW b, ClientOK(s, q, b), s.at # "off",
         NEW t, SubTyped(t),
         \/ s.at = t.at
         \/ s.at \in {"latest", "latestRead"} /\ t.at \in {"latestRead", "replay"}
         \/ s.at \in {"replay", "replayRead"} /\ t.at \in {"replay", "replayRead"},
         t.state = s.state, t.closed = s.closed, t.after = s.after, t.last = s.last,
         t.hand = s.hand, t.queue = s.queue, t.initial = s.initial, t.goal = s.goal
  PROVE  ClientOK(t, q, b)
<1>1. Line(t, q) = Line(s, q)
  BY DEF Line
<1>2. Phase(t)
  BY DEF ClientOK, Phase, Querying
<1>3. Accounts(t, q, b)
  BY <1>1 DEF ClientOK, Accounts, Querying
<1>4. QED
  BY <1>2, <1>3 DEF ClientOK

LEMMA BufferedOK ==
  ASSUME NEW s, NEW q, NEW b, ClientOK(s, q, b), s.at # "off",
         NEW page \in SUBSET Seqs
  PROVE  ClientOK(Buffered(s, page), q, b)
<1> DEFINE t == [s EXCEPT !.buffer = s.buffer \union After(page, s.last)]
<1>1. SubTyped(s)
  BY DEF ClientOK
<1>2. /\ DOMAIN t = Fields /\ t.at = s.at /\ t.state = s.state /\ t.closed = s.closed
      /\ t.after = s.after /\ t.last = s.last /\ t.hand = s.hand /\ t.latest = s.latest
      /\ t.queue = s.queue /\ t.initial = s.initial /\ t.goal = s.goal
      /\ t.buffer = s.buffer \union After(page, s.last) /\ t.page = s.page
      /\ t.merged = s.merged
  BY <1>1 DEF SubTyped, Fields
<1>3. Buffered(s, page) = Closed(s) \/ Buffered(s, page) = t
  BY DEF Buffered
<1> HIDE DEF t
<1>4. SubTyped(t)
  <2>1. After(page, s.last) \subseteq Seqs
    BY DEF After
  <2> QED  BY <1>1, <1>2, <2>1 DEF SubTyped
<1>5. ClientOK(t, q, b)
  BY <1>2, <1>4, AskingOK
<1>6. QED
  BY <1>3, <1>5, ClosedOK

\* Live delivery extends the line, or closes the subscriber.
LEMMA QueuedOK ==
  ASSUME NEW s, NEW q, NEW b, ClientOK(s, q, b), s.at # "off", s.state = "LIVE",
         ~s.closed, NEW page \in SUBSET Seqs
  PROVE  ClientOK(Queued(s, page), q, b)
<1> DEFINE new == After(page, s.last)
           M == new \intersect Matching
           queue == s.queue \o Sorted(M)
           t == [s EXCEPT !.last = Max(new), !.queue = queue]
<1>0. /\ q \in Seq(Seqs) /\ b \in Int /\ SubTyped(s) /\ Phase(s) /\ Accounts(s, q, b)
      /\ \E n \in Int : Lists(q, Between(b, n))
  BY DEF ClientOK
<1>1. new \in SUBSET Seqs /\ M \in SUBSET Seqs
  BY DEF After
<1>2. \/ Queued(s, page) = s \/ Queued(s, page) = Closed(s)
      \/ /\ Queued(s, page) = t /\ new # {} /\ Contiguous(new, s.last)
  BY DEF Queued
<1>3. CASE Queued(s, page) = t /\ new # {} /\ Contiguous(new, s.last)
  <2>1. /\ DOMAIN t = Fields /\ t.at = s.at /\ t.state = s.state /\ t.closed = s.closed
        /\ t.after = s.after /\ t.last = Max(new) /\ t.hand = s.hand /\ t.latest = s.latest
        /\ t.queue = queue /\ t.initial = s.initial /\ t.goal = s.goal
        /\ t.buffer = s.buffer /\ t.page = s.page /\ t.merged = s.merged
    BY <1>0 DEF SubTyped, Fields
  <2> HIDE DEF t, new
  <2> DEFINE p == (q \o Handing(s.hand)) \o s.initial
  <2>2. p \in Seq(Seqs) /\ s.queue \in Seq(Seqs) /\ Sorted(M) \in Seq(Seqs)
        /\ p \o s.queue \in Seq(Seqs) /\ queue \in Seq(Seqs)
    <3>1. Handing(s.hand) \in Seq(Seqs) /\ s.initial \in Seq(Seqs) /\ s.queue \in Seq(Seqs)
      BY <1>0, LineParts DEF SubTyped
    <3>2. Sorted(M) \in Seq(Seqs)
      <4> HIDE DEF M
      <4> QED  BY <1>1, SortedSeqs
    <3> HIDE DEF M
    <3> QED  BY <1>0, <3>1, <3>2, ConcatProperties
  <2>3. Line(s, q) = p \o s.queue /\ Line(t, q) = p \o queue
    BY <2>1 DEF Line
  <2> HIDE DEF p
  <2>4. Line(t, q) = Line(s, q) \o Sorted(M)
    <3> HIDE DEF M
    <3>1. \A u, v, w \in Seq(Seqs) : (u \o v) \o w = u \o (v \o w)
      BY ConcatAssociative
    <3>2. (p \o s.queue) \o Sorted(M) = p \o (s.queue \o Sorted(M))
      BY <2>2, <3>1
    <3> QED  BY <2>3, <3>2
  <2>5. s.last \in Int /\ b <= s.last /\ Lists(p \o s.queue, Between(b, s.last))
    BY <1>0, <2>3, CursorsAreInt DEF SubTyped, Accounts
  <2>6. /\ Max(new) \in Seqs /\ b <= Max(new)
        /\ Lists((p \o s.queue) \o Sorted(M), Between(b, Max(new)))
    BY <1>0, <1>1, <1>3, <2>2, <2>5, ContiguousExtends
  <2> HIDE DEF M, queue
  <2>7. SubTyped(t)
    BY <1>0, <2>1, <2>2, <2>6 DEF SubTyped
  <2>8. Phase(t)
    BY <1>0, <2>1 DEF Phase
  <2>9. Accounts(t, q, b)
    BY <2>1, <2>3, <2>4, <2>6 DEF Accounts
  <2> QED  BY <1>0, <1>3, <2>7, <2>8, <2>9 DEF ClientOK
<1>4. QED
  BY <1>2, <1>3, ClosedOK

\* The client reads one live event.
LEMMA TakenOK ==
  ASSUME NEW s, NEW q, NEW b, ClientOK(s, q, b), s.at = "open",
         s.initial = <<>>, s.queue # <<>>
  PROVE  ClientOK([s EXCEPT !.queue = Tail(@)], Append(q, Head(s.queue)), b)
<1> DEFINE t == [s EXCEPT !.queue = Tail(@)]
           h == Head(s.queue)
           r == Append(q, h)
<1>0. /\ q \in Seq(Seqs) /\ b \in Int /\ SubTyped(s) /\ Phase(s) /\ Accounts(s, q, b)
      /\ \E n \in Int : Lists(q, Between(b, n))
      /\ s.queue \in Seq(Seqs) /\ s.last \in Int
  BY CursorsAreInt DEF ClientOK, SubTyped
<1>1. /\ DOMAIN t = Fields /\ t.at = s.at /\ t.state = s.state /\ t.closed = s.closed
      /\ t.after = s.after /\ t.last = s.last /\ t.hand = s.hand /\ t.latest = s.latest
      /\ t.queue = Tail(s.queue) /\ t.initial = s.initial /\ t.goal = s.goal
      /\ t.buffer = s.buffer /\ t.page = s.page /\ t.merged = s.merged
  BY <1>0 DEF SubTyped, Fields
<1> HIDE DEF t
<1>2. /\ h \in Seqs /\ Tail(s.queue) \in Seq(Seqs) /\ <<h>> \in Seq(Seqs)
      /\ s.queue = <<h>> \o Tail(s.queue)
  <2>1. h \in Seqs /\ Tail(s.queue) \in Seq(Seqs)
    BY <1>0, HeadTailProperties
  <2>2. s.queue = <<h>> \o Tail(s.queue)
    BY <1>0, <2>1
  <2> QED  BY <2>1, <2>2
<1> HIDE DEF h
<1>3. r \in Seq(Seqs) /\ r = q \o <<h>>
  BY <1>0, <1>2, AppendProperties, AppendIsConcat
<1> HIDE DEF r
<1>4. s.hand = None /\ s.state = "LIVE" /\ ~s.closed
  BY <1>0 DEF Phase, SubTyped
<1>5. Line(s, q) = q \o s.queue /\ Line(t, r) = r \o Tail(s.queue)
  <2>1. Line(s, q) = ((q \o <<>>) \o <<>>) \o s.queue
    BY <1>4 DEF Line, Handing
  <2>2. Line(t, r) = ((r \o <<>>) \o <<>>) \o Tail(s.queue)
    BY <1>1, <1>4 DEF Line, Handing
  <2>3. q \o <<>> = q /\ r \o <<>> = r
    BY <1>0, <1>3, ConcatEmptySeq
  <2> QED  BY <2>1, <2>2, <2>3
<1>6. Line(t, r) = Line(s, q)
  <2>1. \A u, v, w \in Seq(Seqs) : (u \o v) \o w = u \o (v \o w)
    BY ConcatAssociative
  <2>2. (q \o <<h>>) \o Tail(s.queue) = q \o (<<h>> \o Tail(s.queue))
    BY <1>0, <1>2, <2>1
  <2> QED  BY <1>2, <1>3, <1>5, <2>2
<1>7. SubTyped(t)
  BY <1>0, <1>1, <1>2 DEF SubTyped
<1>8. Phase(t)
  BY <1>0, <1>1, <1>4 DEF Phase
<1>9. Accounts(t, r, b)
  BY <1>0, <1>1, <1>4, <1>6 DEF Accounts
<1>10. \E n \in Int : Lists(r, Between(b, n))
  <2>1. Lists(r \o Tail(s.queue), Between(b, s.last))
    BY <1>0, <1>4, <1>5, <1>6 DEF Accounts
  <2> QED  BY <1>0, <1>2, <1>3, <2>1, ListsPrefix
<1>11. QED
  BY <1>0, <1>3, <1>7, <1>8, <1>9, <1>10 DEF ClientOK, t, r, h

-----------------------------------------------------------------------------
\* The steps of the broker

LEMMA ClientsStep ==
  ASSUME ClientsOK,
         sub' = [c \in Clients |-> sub'[c]], seen' = [c \in Clients |-> seen'[c]],
         base' = [c \in Clients |-> base'[c]],
         \A c \in Clients :
           \/ sub'[c] = sub[c] /\ seen'[c] = seen[c] /\ base'[c] = base[c]
           \/ ClientOK(sub'[c], seen'[c], base'[c])
  PROVE  ClientsOK'
BY DEF ClientsOK

LEMMA ClientsStay ==
  ASSUME ClientsOK, UNCHANGED <<sub, client>>
  PROVE  ClientsOK'
BY DEF ClientsOK, client

\* The initial subscription and the one of a client that is gone.
LEMMA NoSubOK ==
  ASSUME NEW s, NEW q, NEW b, ClientOK(s, q, b)
  PROVE  ClientOK(NoSub, q, b)
<1>1. SubTyped(NoSub)
  BY CursorsAreInt, NothingListed DEF SubTyped, NoSub, Fields, Places
<1>2. NoSub.at = "off"
  BY DEF NoSub
<1>3. QED
  BY <1>1, <1>2 DEF ClientOK

LEMMA InitInv == Init => BrokerInv
<1> SUFFICES ASSUME Init PROVE BrokerInv
  OBVIOUS
<1>1. LogOK
  <2>1. world \in [bridged: BOOLEAN, events: 1..Events,
                   kinds: SUBSET {"db", "disconnect", "expire", "bridge"}, left: Nat]
    BY BrokerAssumption DEF Init
  <2> QED  BY <2>1 DEF Init, LogOK, NoSync, SyncFields
<1>2. ASSUME NEW c \in Clients
      PROVE  ClientOK(sub[c], seen[c], base[c])
  <2>1. sub[c] = NoSub /\ seen[c] = <<>> /\ base[c] = Start
    BY DEF Init
  <2>2. SubTyped(NoSub) /\ NoSub.at = "off"
    BY CursorsAreInt, NothingListed DEF SubTyped, NoSub, Fields, Places
  <2>3. Start \in Int /\ <<>> \in Seq(Seqs) /\ Lists(<<>>, Between(Start, Start))
    BY CursorsAreInt, NothingListed
  <2> QED  BY <2>1, <2>2, <2>3 DEF ClientOK
<1>3. QED
  BY <1>1, <1>2 DEF Init, BrokerInv, ClientsOK

LEMMA ActiveClients ==
  ASSUME NEW c \in Active
  PROVE  c \in Clients /\ sub[c].at # "off" /\ ~sub[c].closed
BY DEF Active, At

\* A page is fanned out.
LEMMA FanOutOK ==
  ASSUME ClientsOK, NEW page \in SUBSET Seqs, sub' = FanOut(page), client' = client
  PROVE  ClientsOK'
<1>1. ASSUME NEW c \in Clients
      PROVE  \/ sub'[c] = sub[c]
             \/ ClientOK(sub'[c], seen[c], base[c])
  <2>1. sub'[c] = IF c \notin Active THEN sub[c]
                  ELSE IF sub[c].state = "LIVE" THEN Queued(sub[c], page)
                  ELSE Buffered(sub[c], page)
    BY DEF FanOut
  <2>2. ClientOK(sub[c], seen[c], base[c])
    BY DEF ClientsOK
  <2>3. CASE c \in Active /\ sub[c].state = "LIVE"
    BY <2>1, <2>2, <2>3, ActiveClients, QueuedOK
  <2>4. CASE c \in Active /\ sub[c].state # "LIVE"
    BY <2>1, <2>2, <2>4, ActiveClients, BufferedOK
  <2> QED  BY <2>1, <2>3, <2>4
<1>2. sub' = [c \in Clients |-> sub'[c]]
  BY DEF FanOut
<1>3. seen' = seen /\ base' = base
  BY DEF client
<1>4. QED
  BY <1>1, <1>2, <1>3, ClientsStep DEF ClientsOK

LEMMA LatestIsCursor ==
  ASSUME latest \in Cursors \union {Uncached}, NEW n \in Cursors
  PROVE  StoredLatest(n) \in Cursors
BY DEF StoredLatest

\* The steps on the log.
LEMMA LogSteps ==
  ASSUME BrokerInv, \/ \E how \in {"no", "publish", "persist"} : Commit(how)
                    \/ Expire \/ DeleteExpired
  PROVE  BrokerInv'
<1>0. LogOK /\ ClientsOK
  BY DEF BrokerInv
<1>1. ASSUME NEW how, Commit(how)
      PROVE  LogOK'
  <2> DEFINE n == NextSequence(rows)
  <2>1. n \in Nat
    <3>1. CASE rows = {}
      BY <3>1 DEF NextSequence
    <3>2. CASE rows # {}
      <4>1. Max(rows) \in Nat
        <5>1. Max(rows) \in Seqs
          BY <1>0, <3>2, Extremes DEF LogOK
        <5> QED  BY <5>1, BrokerAssumption DEF Seqs
      <4> QED  BY <3>2, <4>1 DEF NextSequence
    <3> QED  BY <3>1, <3>2
  <2>2. n < world.events /\ world.events \in 1..Events
    BY <1>0, <1>1 DEF Commit, LogOK
  <2> HIDE DEF n
  <2>3. n \in Seqs
    BY <2>1, <2>2, BrokerAssumption DEF Seqs
  <2>4. rows' = rows \union {n} /\ live' = live \union {n} /\ UNCHANGED <<caches, sync, world>>
    BY <1>1 DEF Commit, n
  <2> QED  BY <1>0, <2>3, <2>4 DEF LogOK, caches
<1>2. CASE Expire
  <2>1. /\ rows' = rows /\ live' \subseteq live /\ UNCHANGED <<caches, sync>>
        /\ world' = [world EXCEPT !.left = @ - 1]
    BY <1>2 DEF Expire, Fault
  <2>2. DOMAIN world' = DOMAIN world /\ world'.events = world.events
    BY <1>0, <2>1 DEF LogOK
  <2>3. ClientsOK'
    BY <1>0, <1>2, ClientsStay DEF Expire
  <2>4. LogOK'
    BY <1>0, <2>1, <2>2 DEF LogOK, caches
  <2> QED  BY <2>3, <2>4 DEF BrokerInv
<1>3. CASE DeleteExpired
  <2>1. rows' \subseteq rows /\ live' = live /\ UNCHANGED <<caches, sync, world>>
    BY <1>3 DEF DeleteExpired
  <2>2. ClientsOK'
    BY <1>0, <1>3, ClientsStay DEF DeleteExpired
  <2>3. LogOK'
    BY <1>0, <2>1 DEF LogOK, caches
  <2> QED  BY <2>2, <2>3 DEF BrokerInv
<1>4. ASSUME NEW how, Commit(how)
      PROVE  ClientsOK'
  BY <1>0, <1>4, ClientsStay DEF Commit
<1>5. QED
  BY <1>1, <1>2, <1>3, <1>4 DEF BrokerInv

\* publish and persist, once the event is in the log.
LEMMA PublishOK ==
  ASSUME BrokerInv, NEW n \in Seqs, PublishReturns(n)
  PROVE  BrokerInv'
<1>0. LogOK /\ ClientsOK
  BY DEF BrokerInv
<1>1. LogOK'
  <2>1. n \in Cursors /\ StoredLatest(n) \in Cursors
    BY <1>0, CursorsAreInt, LatestIsCursor DEF LogOK
  <2>2. cached' = {} /\ latest' = StoredLatest(n) /\ UNCHANGED <<log, sync, world>>
    BY DEF PublishReturns, RecordDurable
  <2> QED  BY <1>0, <2>1, <2>2 DEF LogOK, log
<1>2. UNCHANGED client
  BY DEF PublishReturns
<1>3. CASE sub' = sub
  BY <1>0, <1>1, <1>2, <1>3, ClientsStay DEF BrokerInv
<1>4. CASE sub' = FanOut({n})
  BY <1>0, <1>1, <1>2, <1>4, FanOutOK DEF BrokerInv
<1>5. CASE sub' = [c \in Clients |-> IF c \in Active \ LiveSubs
                                       THEN Buffered(sub[c], {n}) ELSE sub[c]]
  <2>1. \A c \in Clients : \/ sub'[c] = sub[c]
                           \/ ClientOK(sub'[c], seen[c], base[c])
    <3> TAKE c \in Clients
    <3>1. ClientOK(sub[c], seen[c], base[c]) /\ {n} \in SUBSET Seqs
      BY <1>0 DEF ClientsOK
    <3>2. CASE c \in Active
      <4>1. ClientOK(Buffered(sub[c], {n}), seen[c], base[c])
        BY <3>1, <3>2, ActiveClients, BufferedOK
      <4> QED  BY <1>5, <4>1
    <3> QED  BY <1>5, <3>2
  <2>2. sub' = [c \in Clients |-> sub'[c]]
    BY <1>5
  <2>3. seen' = seen /\ base' = base
    BY <1>2 DEF client
  <2>4. ClientsOK'
    BY <1>0, <2>1, <2>2, <2>3, ClientsStep DEF ClientsOK
  <2> QED  BY <1>1, <2>4 DEF BrokerInv
<1>6. QED
  BY <1>3, <1>4, <1>5 DEF PublishReturns

\* The steps of a synchronization.
LEMMA NoSyncFields == DOMAIN NoSync = SyncFields /\ NoSync.page = {}
BY DEF NoSync, SyncFields

LEMMA SyncRoundOK ==
  ASSUME BrokerInv, NEW by, NEW through, SyncRound(by, through)
  PROVE  BrokerInv'
<1>0. LogOK /\ ClientsOK
  BY DEF BrokerInv
<1>1. DOMAIN sync' = SyncFields /\ sync'.page \subseteq Seqs
  <2>1. \/ sync' = NoSync
        \/ sync' = [NoSync EXCEPT !.by = by, !.through = through,
                                  !.at = "read", !.cursor = LowestCursor]
    BY DEF SyncRound, SyncReturn
  <2> QED  BY <2>1, NoSyncFields DEF SyncFields
<1>2. UNCHANGED <<log, caches, world, sub, client>>
  BY DEF SyncRound
<1>3. QED
  BY <1>0, <1>1, <1>2, ClientsStay DEF LogOK, log, caches, BrokerInv

LEMMA SyncReadOK ==
  ASSUME BrokerInv, SyncRead
  PROVE  BrokerInv'
<1>0. LogOK /\ ClientsOK
  BY DEF BrokerInv
<1>1. UNCHANGED <<log, caches, sub, client>>
  BY DEF SyncRead
<1>2. DOMAIN sync' = SyncFields /\ sync'.page \subseteq Seqs
  <2>1. Page(live, sync.cursor) \subseteq Seqs
    BY <1>0 DEF LogOK, Page, After
  <2>2. \/ sync' = [sync EXCEPT !.at = "use", !.outcome = "error"]
        \/ sync' = [sync EXCEPT !.at = "use",
                      !.outcome = IF StaleCursor(rows, live, sync.cursor)
                                    THEN "stale" ELSE "page",
                      !.page = Page(live, sync.cursor)]
    BY DEF SyncRead
  <2> QED  BY <1>0, <2>1, <2>2 DEF LogOK, SyncFields
<1>3. DOMAIN world' = DOMAIN world /\ world'.events = world.events
  <2>1. world' = world \/ world' = [world EXCEPT !.left = @ - 1]
    BY DEF SyncRead, Fault
  <2> QED  BY <1>0, <2>1 DEF LogOK
<1>4. QED
  BY <1>0, <1>1, <1>2, <1>3, ClientsStay DEF LogOK, log, caches, BrokerInv

LEMMA SyncUseOK ==
  ASSUME BrokerInv, SyncUse
  PROVE  BrokerInv'
<1>0. LogOK /\ ClientsOK
  BY DEF BrokerInv
<1>1. UNCHANGED <<log, world, client>>
  BY DEF SyncUse
<1>2. DOMAIN sync' = SyncFields /\ sync'.page \subseteq Seqs
  <2>1. sync' = NoSync \/ sync' = [sync EXCEPT !.at = "pick", !.page = {}]
    BY DEF SyncUse, SyncReturn
  <2> QED  BY <1>0, <2>1, NoSyncFields DEF LogOK, SyncFields
<1>3. CASE UNCHANGED <<sub, caches>>
  BY <1>0, <1>1, <1>2, <1>3, ClientsStay DEF LogOK, log, caches, BrokerInv
<1>4. CASE /\ UNCHANGED caches
           /\ sub' = [c \in Clients |-> IF c \in Active THEN Closed(sub[c]) ELSE sub[c]]
  <2>1. \A c \in Clients : \/ sub'[c] = sub[c]
                           \/ ClientOK(sub'[c], seen[c], base[c])
    <3> TAKE c \in Clients
    <3>1. ClientOK(sub[c], seen[c], base[c])
      BY <1>0 DEF ClientsOK
    <3>2. CASE c \in Active
      BY <1>4, <3>1, <3>2, ActiveClients, ClosedOK
    <3> QED  BY <1>4, <3>2
  <2>2. sub' = [c \in Clients |-> sub'[c]] /\ seen' = seen /\ base' = base
    BY <1>1, <1>4 DEF client
  <2>3. ClientsOK'
    BY <1>0, <2>1, <2>2, ClientsStep DEF ClientsOK
  <2> QED  BY <1>0, <1>1, <1>2, <1>4, <2>3 DEF LogOK, log, caches, BrokerInv
<1>5. CASE sync.page # {} /\ RecordDurable(Max(sync.page)) /\ sub' = FanOut(sync.page)
  <2>1. sync.page \in SUBSET Seqs
    BY <1>0 DEF LogOK
  <2>2. StoredLatest(Max(sync.page)) \in Cursors
    BY <1>0, <1>5, <2>1, Extremes, CursorsAreInt, LatestIsCursor DEF LogOK
  <2>3. ClientsOK'
    BY <1>0, <1>1, <1>5, <2>1, FanOutOK
  <2> QED  BY <1>0, <1>1, <1>2, <1>5, <2>2, <2>3 DEF LogOK, log, RecordDurable, BrokerInv
<1>6. QED
  BY <1>3, <1>4, <1>5 DEF SyncUse

\* The bridge keeps its own books.
LEMMA BridgeOK ==
  ASSUME BrokerInv, \/ BridgeConnect \/ BridgeConsume \/ BridgeLost
                    \/ \E n \in Seqs : NotifyArrives(n)
  PROVE  BrokerInv'
<1>0. LogOK /\ ClientsOK
  BY DEF BrokerInv
<1>1. UNCHANGED <<log, caches, sub, sync, client>>
  BY DEF BridgeConnect, BridgeConsume, BridgeLost, NotifyArrives
<1>2. DOMAIN world' = DOMAIN world /\ world'.events = world.events
  <2>1. world' = world \/ world' = [world EXCEPT !.left = @ - 1]
    BY DEF BridgeConnect, BridgeConsume, BridgeLost, NotifyArrives, Fault
  <2> QED  BY <1>0, <2>1 DEF LogOK
<1>3. QED
  BY <1>0, <1>1, <1>2, ClientsStay DEF LogOK, log, caches, BrokerInv

\* The task of a subscription goes on.
LEMMA AdvanceOK ==
  ASSUME ClientsOK, NEW c \in Clients, NEW t, NEW all, Advance(c, t, all),
         Ready(t, seen[c], Based(t, all, base[c])), Based(t, all, base[c]) \in Int,
         \E n \in Int : Lists(seen[c], Between(Based(t, all, base[c]), n))
  PROVE  ClientsOK'
<1>1. sub' = [sub EXCEPT ![c] = Kept(t)]
  BY DEF Advance, SetSub, Kept
<1>2. seen' = [seen EXCEPT ![c] = Read(t, seen[c])]
  BY DEF Advance, Read, ClientsOK
<1>3. base' = [base EXCEPT ![c] = Based(t, all, base[c])]
  BY DEF Advance, Based, ClientsOK
<1>4. seen[c] \in Seq(Seqs)
  BY DEF ClientsOK, ClientOK
<1>5. ClientOK(Kept(t), Read(t, seen[c]), Based(t, all, base[c]))
  BY <1>4, ReadyAdvances
<1>6. /\ sub'[c] = Kept(t) /\ seen'[c] = Read(t, seen[c])
      /\ base'[c] = Based(t, all, base[c])
      /\ \A d \in Clients \ {c} : sub'[d] = sub[d] /\ seen'[d] = seen[d] /\ base'[d] = base[d]
  BY <1>1, <1>2, <1>3 DEF ClientsOK
<1>7. /\ sub' = [d \in Clients |-> sub'[d]] /\ seen' = [d \in Clients |-> seen'[d]]
      /\ base' = [d \in Clients |-> base'[d]]
  BY <1>1, <1>2, <1>3 DEF ClientsOK
<1>8. \A d \in Clients :
        \/ sub'[d] = sub[d] /\ seen'[d] = seen[d] /\ base'[d] = base[d]
        \/ ClientOK(sub'[d], seen'[d], base'[d])
  BY <1>5, <1>6
<1>9. QED
  BY <1>7, <1>8, ClientsStep

\* One subscription changes, its client receives nothing.
LEMMA SetSubOK ==
  ASSUME ClientsOK, NEW c \in Clients, NEW t, SetSub(c, t), UNCHANGED client,
         ClientOK(t, seen[c], base[c])
  PROVE  ClientsOK'
<1>1. sub' = [sub EXCEPT ![c] = t] /\ seen' = seen /\ base' = base
  BY DEF SetSub, client
<1>2. \A d \in Clients : sub'[d] = sub[d] \/ (sub'[d] = t /\ d = c)
  BY <1>1 DEF ClientsOK
<1>3. sub' = [d \in Clients |-> sub'[d]]
  BY <1>1 DEF ClientsOK
<1>4. QED
  BY <1>1, <1>2, <1>3, ClientsStep DEF ClientsOK

\* A subscription ends, and with the last one the queries of the others.
LEMMA GoneOK ==
  ASSUME BrokerInv, NEW c \in Clients, Gone(c), UNCHANGED <<log, sync, client>>,
         DOMAIN world' = DOMAIN world, world'.events = world.events
  PROVE  BrokerInv'
<1>0. LogOK /\ ClientsOK
  BY DEF BrokerInv
<1>1. LogOK'
  BY <1>0 DEF LogOK, Gone, log
<1>2. sub' = [d \in Clients |-> sub'[d]] /\ \A d \in Clients : sub'[d] = sub[d] \/ sub'[d] = NoSub
  BY DEF Gone
<1>3. seen' = seen /\ base' = base
  BY DEF client
<1>4. \A d \in Clients : ClientOK(NoSub, seen[d], base[d])
  BY <1>0, NoSubOK DEF ClientsOK
<1>5. ClientsOK'
  BY <1>0, <1>2, <1>3, <1>4, ClientsStep DEF ClientsOK
<1>6. QED
  BY <1>1, <1>5 DEF BrokerInv

\* A client connects: with the last event it has, or from anew.
LEMMA ConnectOK ==
  ASSUME BrokerInv, NEW c \in Clients, NEW after \in Cursors, Connect(c, after)
  PROVE  BrokerInv'
<1>0. LogOK /\ ClientsOK
  BY DEF BrokerInv
<1> DEFINE t == [NoSub EXCEPT !.at = "latest", !.after = after,
                   !.last = IF after = None THEN Start ELSE after]
<1>1. LogOK'
  BY <1>0 DEF LogOK, Connect, log, caches
<1>2. /\ t.at = "latest" /\ t.after = after /\ t.state = "REPLAYING" /\ ~t.closed
      /\ t.hand = None /\ t.queue = <<>> /\ t.initial = <<>> /\ t.goal = "subscribe"
      /\ t.last = (IF after = None THEN Start ELSE after)
  BY DEF NoSub
<1>3. SubTyped(t)
  <2>1. DOMAIN t = Fields /\ t.buffer = {} /\ t.page = {} /\ t.merged = {} /\ t.latest = None
        /\ t.closed = FALSE
    BY DEF NoSub, Fields
  <2>2. after # None => after \in Seqs \union {Start}
    BY DEF Cursors
  <2> HIDE DEF t
  <2> QED  BY <1>2, <2>1, <2>2, CursorsAreInt, NothingListed DEF SubTyped, Places, Querying
<1>4. sub' = [sub EXCEPT ![c] = t]
  BY DEF Connect, SetSub
<1> HIDE DEF t
<1>5. Phase(t)
  BY <1>2 DEF Phase, Querying
<1>6. ClientOK(sub[c], seen[c], base[c])
  BY <1>0 DEF ClientsOK
<1>7. CASE after = None
  <2>1. seen' = [seen EXCEPT ![c] = <<>>] /\ base' = [base EXCEPT ![c] = Start]
    BY <1>7 DEF Connect
  <2>2. Accounts(t, <<>>, Start)
    BY <1>2, <1>7 DEF Accounts
  <2>3. <<>> \in Seq(Seqs) /\ Start \in Int /\ Lists(<<>>, Between(Start, Start))
    BY NothingListed, CursorsAreInt
  <2>4. ClientOK(t, <<>>, Start)
    BY <1>3, <1>5, <2>2, <2>3 DEF ClientOK
  <2>5. \A d \in Clients :
          \/ sub'[d] = sub[d] /\ seen'[d] = seen[d] /\ base'[d] = base[d]
          \/ ClientOK(sub'[d], seen'[d], base'[d])
    BY <1>0, <1>4, <2>1, <2>4 DEF ClientsOK
  <2>6. /\ sub' = [d \in Clients |-> sub'[d]] /\ seen' = [d \in Clients |-> seen'[d]]
        /\ base' = [d \in Clients |-> base'[d]]
    BY <1>0, <1>4, <2>1 DEF ClientsOK
  <2>7. ClientsOK'
    BY <1>0, <2>5, <2>6, ClientsStep
  <2> QED  BY <1>1, <2>7 DEF BrokerInv
<1>8. CASE after # None
  <2>1. seen[c] # <<>> /\ after = seen[c][Len(seen[c])] /\ UNCHANGED client
    BY <1>8 DEF Connect
  <2>2. PICK n \in Int : Lists(seen[c], Between(base[c], n))
    BY <1>6 DEF ClientOK
  <2>3. seen[c] \in Seq(Seqs) /\ base[c] \in Int
    BY <1>6 DEF ClientOK
  <2>4. seen[c] \o <<>> = seen[c] /\ <<>> \in Seq(Seqs)
    BY <2>3, ConcatEmptySeq, NothingListed
  <2> DEFINE q == seen[c]
             b == base[c]
  <2>a. Lists(q \o <<>>, Between(b, n)) /\ q # <<>> /\ q \in Seq(Seqs) /\ b \in Int
        /\ after = q[Len(q)]
    BY <2>1, <2>2, <2>3, <2>4
  <2>b. b < after /\ Lists(q, Between(b, after)) /\ after \in Seqs
    <3> HIDE DEF q, b
    <3> QED  BY <2>4, <2>a, ListsUpToLast
  <2>5. base[c] < after /\ Lists(seen[c], Between(base[c], after)) /\ after \in Int
    BY <2>b, CursorsAreInt
  <2>6. Accounts(t, seen[c], base[c])
    BY <1>2, <1>8, <2>3, <2>5 DEF Accounts
  <2>7. ClientOK(t, seen[c], base[c])
    BY <1>3, <1>5, <1>6, <2>6 DEF ClientOK
  <2>8. SetSub(c, t)
    BY <1>4 DEF SetSub
  <2>9. ClientsOK'
    BY <1>0, <2>1, <2>7, <2>8, SetSubOK
  <2> QED  BY <1>1, <2>9 DEF BrokerInv
<1>9. QED
  BY <1>7, <1>8

\* A task asks for the latest number or for a page, and gets an answer.
LEMMA LatestOK ==
  ASSUME BrokerInv, NEW c \in Clients, LatestCached(c) \/ LatestRead(c) \/ LatestUse(c)
  PROVE  BrokerInv'
<1>0. LogOK /\ ClientsOK /\ ClientOK(sub[c], seen[c], base[c]) /\ SubTyped(sub[c])
  BY DEF BrokerInv, ClientsOK, ClientOK
<1> DEFINE s == sub[c]
<1>1. ASSUME NEW n \in Cursors, SetSub(c, Admitted(s, n)), s.at \in {"latest", "latestRead"},
             UNCHANGED client
      PROVE  ClientsOK'
  <2> DEFINE t == Admitted(s, n)
  <2>1. /\ DOMAIN t = Fields /\ t.at = "replay" /\ t.state = s.state /\ t.closed = s.closed
        /\ t.after = s.after /\ t.last = s.last /\ t.hand = s.hand /\ t.latest = n
        /\ t.queue = s.queue /\ t.initial = s.initial /\ t.goal = s.goal
        /\ t.buffer = s.buffer /\ t.page = s.page /\ t.merged = s.merged
    BY <1>0 DEF SubTyped, Fields, Admitted
  <2> HIDE DEF t, s
  <2>2. SubTyped(t)
    BY <1>0, <2>1 DEF SubTyped, Places, Querying, s
  <2>3. ClientOK(t, seen[c], base[c])
    BY <1>0, <1>1, <2>1, <2>2, AskingOK DEF s
  <2> QED  BY <1>0, <1>1, <2>3, SetSubOK DEF t
<1>2. CASE LatestCached(c)
  <2>1. /\ s.at = "latest" /\ latest \in Cursors /\ SetSub(c, Admitted(s, latest))
        /\ UNCHANGED <<log, caches, sync, world, client>>
    BY <1>0, <1>2 DEF LatestCached, At, LogOK
  <2>2. ClientsOK'
    <3> HIDE DEF s
    <3> QED  BY <1>1, <2>1
  <2> QED  BY <1>0, <2>1, <2>2 DEF BrokerInv, LogOK, log, caches
<1>3. CASE LatestRead(c)
  <2>1. /\ s.at = "latest" /\ UNCHANGED <<log, caches, sync, client>>
        /\ world' = world \/ world' = [world EXCEPT !.left = @ - 1]
    BY <1>3 DEF LatestRead, At, Fault
  <2>2. DOMAIN world' = DOMAIN world /\ world'.events = world.events
    BY <1>0, <2>1 DEF LogOK
  <2>3. PICK n, outcome :
          /\ n \in Cursors
          /\ SetSub(c, [s EXCEPT !.at = "latestRead", !.latest = n, !.outcome = outcome])
    <3>1. Latest(rows) \in Cursors
      <4>1. rows # {} => Max(rows) \in Seqs
        BY <1>0, Extremes DEF LogOK
      <4> QED  BY <4>1, CursorsAreInt DEF Latest
    <3>2. CASE SetSub(c, [s EXCEPT !.at = "latestRead", !.latest = Latest(rows)])
      <4>1. [s EXCEPT !.at = "latestRead", !.latest = Latest(rows)]
              = [s EXCEPT !.at = "latestRead", !.latest = Latest(rows), !.outcome = s.outcome]
        BY <1>0 DEF SubTyped, Fields
      <4> QED  BY <3>1, <3>2, <4>1
    <3>3. CASE SetSub(c, [s EXCEPT !.at = "latestRead", !.outcome = "error"])
      <4>1. [s EXCEPT !.at = "latestRead", !.outcome = "error"]
              = [s EXCEPT !.at = "latestRead", !.latest = s.latest, !.outcome = "error"]
        BY <1>0 DEF SubTyped, Fields
      <4>2. s.latest \in Cursors
        BY <1>0 DEF SubTyped
      <4> QED  BY <3>3, <4>1, <4>2
    <3>4. ASSUME NEW d \in Clients,
                 SetSub(c, [s EXCEPT !.at = "latestRead", !.latest = sub[d].latest,
                                     !.outcome = sub[d].outcome])
          PROVE  \E n, outcome :
            n \in Cursors /\ SetSub(c, [s EXCEPT !.at = "latestRead", !.latest = n, !.outcome = outcome])
      <4>1. sub[d].latest \in Cursors
        BY <1>0 DEF ClientsOK, ClientOK, SubTyped
      <4> QED  BY <3>4, <4>1
    <3> QED  BY <1>3, <3>2, <3>3, <3>4 DEF LatestRead
  <2> DEFINE t == [s EXCEPT !.at = "latestRead", !.latest = n, !.outcome = outcome]
  <2>4. /\ DOMAIN t = Fields /\ t.at = "latestRead" /\ t.state = s.state /\ t.closed = s.closed
        /\ t.after = s.after /\ t.last = s.last /\ t.hand = s.hand /\ t.latest = n
        /\ t.queue = s.queue /\ t.initial = s.initial /\ t.goal = s.goal
        /\ t.buffer = s.buffer /\ t.page = s.page /\ t.merged = s.merged
    BY <1>0 DEF SubTyped, Fields
  <2> HIDE DEF t, s
  <2>5. SubTyped(t)
    BY <1>0, <2>3, <2>4 DEF SubTyped, Places, Querying, s
  <2>6. ClientOK(t, seen[c], base[c])
    BY <1>0, <2>1, <2>4, <2>5, AskingOK DEF s
  <2>7. ClientsOK'
    BY <1>0, <2>1, <2>3, <2>6, SetSubOK DEF t
  <2> QED  BY <1>0, <2>1, <2>2, <2>7 DEF BrokerInv, LogOK, log, caches
<1>4. CASE LatestUse(c)
  <2>1. s.at = "latestRead" /\ UNCHANGED <<log, sync, client, world>>
    BY <1>4 DEF LatestUse, At
  <2>2. CASE Gone(c)
    BY <2>1, <2>2, GoneOK
  <2>3. CASE /\ latest' = StoredLatest(s.latest)
             /\ SetSub(c, Admitted(s, latest')) /\ UNCHANGED cached
    <3>1. latest' \in Cursors
      BY <1>0, <2>3, LatestIsCursor DEF SubTyped, LogOK
    <3>2. ClientsOK'
      <4> HIDE DEF s
      <4> QED  BY <1>1, <2>1, <2>3, <3>1
    <3> QED  BY <1>0, <2>1, <2>3, <3>1, <3>2 DEF BrokerInv, LogOK, log
  <2> QED  BY <1>4, <2>2, <2>3 DEF LatestUse
<1>5. QED
  BY <1>2, <1>3, <1>4

LEMMA ReplayReadOK ==
  ASSUME BrokerInv, NEW c \in Clients, ReplayRead(c)
  PROVE  BrokerInv'
<1>0. LogOK /\ ClientsOK /\ ClientOK(sub[c], seen[c], base[c]) /\ SubTyped(sub[c])
  BY DEF BrokerInv, ClientsOK, ClientOK
<1> DEFINE s == sub[c]
<1>1. /\ s.at = "replay" /\ UNCHANGED <<log, caches, sync, client>>
      /\ world' = world \/ world' = [world EXCEPT !.left = @ - 1]
  BY DEF ReplayRead, At, Fault
<1>2. DOMAIN world' = DOMAIN world /\ world'.events = world.events
  BY <1>0, <1>1 DEF LogOK
<1>3. PICK page, outcome :
        /\ page \in SUBSET Seqs
        /\ SetSub(c, [s EXCEPT !.at = "replayRead", !.page = page, !.outcome = outcome])
  <2>1. ASSUME NEW p, SetSub(c, [s EXCEPT !.at = "replayRead", !.outcome = p,
                                          !.page = Page(live, s.cursor)])
        PROVE  \E page, outcome :
          page \in SUBSET Seqs /\ SetSub(c, [s EXCEPT !.at = "replayRead", !.page = page, !.outcome = outcome])
    <3>1. Page(live, s.cursor) \in SUBSET Seqs
      BY <1>0 DEF LogOK, Page, After
    <3>2. [s EXCEPT !.at = "replayRead", !.outcome = p, !.page = Page(live, s.cursor)]
            = [s EXCEPT !.at = "replayRead", !.page = Page(live, s.cursor), !.outcome = p]
      BY <1>0 DEF SubTyped, Fields
    <3> QED  BY <2>1, <3>1, <3>2
  <2>2. CASE SetSub(c, [s EXCEPT !.at = "replayRead", !.outcome = "error"])
    <3>1. [s EXCEPT !.at = "replayRead", !.outcome = "error"]
            = [s EXCEPT !.at = "replayRead", !.page = s.page, !.outcome = "error"]
      BY <1>0 DEF SubTyped, Fields
    <3>2. s.page \in SUBSET Seqs
      BY <1>0 DEF SubTyped
    <3> QED  BY <2>2, <3>1, <3>2
  <2>3. ASSUME NEW d \in Clients,
               SetSub(c, [s EXCEPT !.at = "replayRead", !.page = sub[d].page,
                                   !.outcome = sub[d].outcome])
        PROVE  \E page, outcome :
          page \in SUBSET Seqs /\ SetSub(c, [s EXCEPT !.at = "replayRead", !.page = page, !.outcome = outcome])
    <3>1. sub[d].page \in SUBSET Seqs
      BY <1>0 DEF ClientsOK, ClientOK, SubTyped
    <3> QED  BY <2>3, <3>1
  <2> QED  BY <2>1, <2>2, <2>3 DEF ReplayRead
<1> DEFINE t == [s EXCEPT !.at = "replayRead", !.page = page, !.outcome = outcome]
<1>4. /\ DOMAIN t = Fields /\ t.at = "replayRead" /\ t.state = s.state /\ t.closed = s.closed
      /\ t.after = s.after /\ t.last = s.last /\ t.hand = s.hand /\ t.latest = s.latest
      /\ t.queue = s.queue /\ t.initial = s.initial /\ t.goal = s.goal
      /\ t.buffer = s.buffer /\ t.page = page /\ t.merged = s.merged
  BY <1>0 DEF SubTyped, Fields
<1> HIDE DEF t, s
<1>5. SubTyped(t)
  BY <1>0, <1>3, <1>4 DEF SubTyped, Places, Querying, s
<1>6. ClientOK(t, seen[c], base[c])
  BY <1>0, <1>1, <1>4, <1>5, AskingOK DEF s
<1>7. ClientsOK'
  BY <1>0, <1>1, <1>3, <1>6, SetSubOK DEF t
<1>8. QED
  BY <1>0, <1>1, <1>2, <1>7 DEF BrokerInv, LogOK, log, caches

\* A page of events is used.
LEMMA UsePageOK ==
  ASSUME ClientsOK, NEW c \in Clients, sub[c].at \in {"replay", "replayRead"},
         NEW page \in SUBSET Seqs, PageUsable(sub[c], page), UsePage(c, page)
  PROVE  ClientsOK'
<1> DEFINE s == sub[c]
           t == Resumed(s, page)
           all == s.merged \union page \union s.buffer
           start == Based(t, all, base[c])
<1>1. Advance(c, t, all)
  BY DEF UsePage
<1>2. /\ SubTyped(s) /\ Phase(s) /\ s.at \in Querying
      /\ seen[c] \in Seq(Seqs) /\ base[c] \in Int /\ Accounts(s, seen[c], base[c])
      /\ \E n \in Int : Lists(seen[c], Between(base[c], n))
  BY DEF ClientsOK, ClientOK, Querying
<1>3. /\ Ready(t, seen[c], start) /\ start \in Int
      /\ \E n \in Int : Lists(seen[c], Between(start, n))
  <2>1. t = Resumed(s, page) /\ all = s.merged \union page \union s.buffer
        /\ start = Based(t, all, base[c])
    OBVIOUS
  <2> HIDE DEF t, all, start, s
  <2> QED  BY <1>2, <2>1, ResumedReady
<1> HIDE DEF t, all, s
<1>4. QED
  BY <1>1, <1>3, AdvanceOK

LEMMA ReplayOK ==
  ASSUME BrokerInv, NEW c \in Clients, ReplayCached(c) \/ ReplayUse(c)
  PROVE  BrokerInv'
<1>0. LogOK /\ ClientsOK /\ ClientOK(sub[c], seen[c], base[c]) /\ SubTyped(sub[c])
  BY DEF BrokerInv, ClientsOK, ClientOK
<1> DEFINE s == sub[c]
<1>1. CASE ReplayCached(c)
  <2>1. PICK e \in cached : PageUsable(s, e.page) /\ UsePage(c, e.page)
    BY <1>1 DEF ReplayCached
  <2>2. s.at = "replay" /\ UNCHANGED <<log, caches, sync, world>>
    BY <1>1 DEF ReplayCached, At
  <2>3. e.page \in SUBSET Seqs
    BY <1>0, <2>1 DEF LogOK
  <2>4. ClientsOK'
    BY <1>0, <2>1, <2>2, <2>3, UsePageOK
  <2> QED  BY <1>0, <2>2, <2>4 DEF BrokerInv, LogOK, log, caches
<1>2. CASE ReplayUse(c)
  <2>0. s.at = "replayRead" /\ UNCHANGED <<log, sync, world>>
    BY <1>2 DEF ReplayUse, At
  <2>1. CASE /\ PageUsable(s, s.page) /\ StoreReplay(s.cursor, s.page)
             /\ UsePage(c, s.page) /\ UNCHANGED latest
    <3>1. s.page \in SUBSET Seqs
      BY <1>0 DEF SubTyped
    <3>2. ClientsOK'
      BY <1>0, <2>0, <2>1, <3>1, UsePageOK
    <3>3. \A e \in cached' : e.page \subseteq Seqs
      <4>1. \A e \in cached' : e \in cached \/ e = [after |-> s.cursor, page |-> s.page]
        BY <2>1 DEF StoreReplay
      <4> QED  BY <1>0, <3>1, <4>1 DEF LogOK
    <3> QED  BY <1>0, <2>0, <2>1, <3>2, <3>3 DEF BrokerInv, LogOK, log
  <2>2. CASE Advance(c, [Closed(s) EXCEPT !.at = "open"], {}) /\ UNCHANGED caches
    <3> DEFINE t == [Closed(s) EXCEPT !.at = "open"]
               u == Closed(s)
    <3>1. ClientOK(u, seen[c], base[c]) /\ SubTyped(u) /\ Phase(u)
          /\ Accounts(u, seen[c], base[c])
      <4>1. ClientOK(u, seen[c], base[c]) /\ u.at # "off"
        BY <1>0, <2>0, ClosedOK DEF Closed, SubTyped, Fields
      <4> HIDE DEF u
      <4> QED  BY <4>1 DEF ClientOK
    <3>2. /\ u.closed /\ u.queue = <<>> /\ u.at = "replayRead"
      BY <1>0, <2>0 DEF Closed, SubTyped, Fields
    <3> HIDE DEF u
    <3>3. /\ DOMAIN t = Fields /\ t.at = "open" /\ t.state = u.state /\ t.closed = u.closed
          /\ t.after = u.after /\ t.last = u.last /\ t.hand = u.hand /\ t.latest = u.latest
          /\ t.queue = u.queue /\ t.initial = u.initial /\ t.goal = u.goal
          /\ t.buffer = u.buffer /\ t.page = u.page /\ t.merged = u.merged
      BY <3>1 DEF SubTyped, Fields, u
    <3> HIDE DEF t
    <3>4. SubTyped(t)
      BY <3>1, <3>3 DEF SubTyped, Places
    <3>5. Line(t, seen[c]) = Line(u, seen[c])
      BY <3>3 DEF Line
    <3>6. Ready(t, seen[c], base[c])
      BY <3>1, <3>2, <3>3, <3>4, <3>5 DEF Ready, Phase, Accounts, Querying
    <3>7. Based(t, {}, base[c]) = base[c]
      BY <3>2, <3>3 DEF Based
    <3>8. base[c] \in Int /\ \E n \in Int : Lists(seen[c], Between(base[c], n))
      BY <1>0 DEF ClientOK
    <3>9. ClientsOK'
      <4>1. Advance(c, t, {})
        BY <2>2 DEF t
      <4> QED  BY <1>0, <3>6, <3>7, <3>8, <4>1, AdvanceOK
    <3> QED  BY <1>0, <2>0, <2>2, <3>9 DEF BrokerInv, LogOK, log, caches
  <2>3. CASE Gone(c) /\ UNCHANGED client
    BY <2>0, <2>3, GoneOK
  <2> QED  BY <1>2, <2>1, <2>2, <2>3 DEF ReplayUse
<1>3. QED
  BY <1>1, <1>2

\* The client reads a replayed event; the last one waits for a drain.
LEMMA TakeInitialOK ==
  ASSUME BrokerInv, NEW c \in Clients, TakeInitial(c)
  PROVE  BrokerInv'
<1>0. LogOK /\ ClientsOK
  BY DEF BrokerInv
<1> DEFINE s == sub[c]
           h == Head(s.initial)
           u == [s EXCEPT !.initial = Tail(@), !.hand = Head(s.initial)]
           v == [u EXCEPT !.goal = "drain", !.merged = {}]
           w == [u EXCEPT !.goal = "drain"]
           t == IF u.initial = <<>> THEN Drained(v) ELSE w
           q == seen[c]
           b == base[c]
<1>1. /\ q \in Seq(Seqs) /\ b \in Int /\ SubTyped(s) /\ s.at = "open"
      /\ \E n \in Int : Lists(q, Between(b, n))
      /\ Phase(s) /\ Accounts(s, q, b) /\ s.initial # <<>> /\ s.initial \in Seq(Seqs)
  BY <1>0 DEF ClientsOK, ClientOK, TakeInitial, At, SubTyped
<1>2. s.state = "DRAINING" /\ s.hand = None /\ s.queue = <<>>
  BY <1>1 DEF Phase, SubTyped
<1>3. Advance(c, t, {}) /\ UNCHANGED <<log, caches, sync, world>>
  BY DEF TakeInitial
<1>4. /\ h \in Seqs /\ Tail(s.initial) \in Seq(Seqs) /\ <<h>> \in Seq(Seqs)
      /\ s.initial = <<h>> \o Tail(s.initial) /\ h # None
  <2>1. h \in Seqs /\ Tail(s.initial) \in Seq(Seqs)
    BY <1>1, HeadTailProperties
  <2>2. s.initial = <<h>> \o Tail(s.initial)
    BY <1>1, <2>1
  <2> QED  BY <2>1, <2>2, CursorsAreInt
<1>5. ASSUME NEW x, x = v \/ x = w
      PROVE  /\ DOMAIN x = Fields /\ x.at = "open" /\ x.state = "DRAINING"
             /\ x.closed = s.closed /\ x.after = s.after /\ x.last = s.last /\ x.hand = h
             /\ x.latest = s.latest /\ x.queue = <<>> /\ x.initial = Tail(s.initial)
             /\ x.goal = "drain" /\ x.buffer = s.buffer /\ x.page = s.page
             /\ (x.merged = {} \/ x.merged = s.merged)
  <2>1. /\ DOMAIN u = Fields /\ u.at = "open" /\ u.state = "DRAINING"
        /\ u.closed = s.closed /\ u.after = s.after /\ u.last = s.last /\ u.hand = h
        /\ u.latest = s.latest /\ u.queue = <<>> /\ u.initial = Tail(s.initial)
        /\ u.buffer = s.buffer /\ u.page = s.page /\ u.merged = s.merged
    BY <1>1, <1>2 DEF SubTyped, Fields
  <2> HIDE DEF u
  <2> QED  BY <1>5, <2>1 DEF Fields
<1>6. u.initial = Tail(s.initial)
  BY <1>1 DEF SubTyped, Fields
<1> HIDE DEF u, v, w, h, s, q, b
<1>7. ASSUME NEW x, x = v \/ x = w
      PROVE  SubTyped(x) /\ Line(x, q) = Line(s, q) /\ Accounts(x, q, b)
  <2>1. SubTyped(x)
    <3>1. /\ s.closed \in BOOLEAN /\ s.after \in Cursors /\ s.latest \in Cursors
          /\ s.last \in Seqs \union {Start} /\ s.buffer \subseteq Seqs
          /\ s.page \subseteq Seqs /\ s.merged \subseteq Seqs
      BY <1>1 DEF SubTyped
    <3>2. /\ DOMAIN x = Fields /\ x.at = "open" /\ x.state = "DRAINING"
          /\ x.closed = s.closed /\ x.after = s.after /\ x.last = s.last /\ x.hand = h
          /\ x.latest = s.latest /\ x.queue = <<>> /\ x.initial = Tail(s.initial)
          /\ x.buffer = s.buffer /\ x.page = s.page
          /\ (x.merged = {} \/ x.merged = s.merged)
      BY <1>5, <1>7
    <3>3. <<>> \in Seq(Seqs) /\ x.merged \subseteq Seqs
      BY <3>1, <3>2
    <3> QED  BY <1>4, <3>1, <3>2, <3>3 DEF SubTyped, Places
  <2>2. Line(x, q) = Line(s, q)
    <3>1. Line(x, q) = ((q \o <<h>>) \o Tail(s.initial)) \o <<>>
      BY <1>4, <1>5, <1>7 DEF Line, Handing
    <3>2. Line(s, q) = ((q \o <<>>) \o s.initial) \o <<>>
      BY <1>2 DEF Line, Handing
    <3>3. q \o <<>> = q
      BY <1>1, ConcatEmptySeq
    <3>4. \A k, l, m \in Seq(Seqs) : (k \o l) \o m = k \o (l \o m)
      BY ConcatAssociative
    <3>5. (q \o <<h>>) \o Tail(s.initial) = q \o (<<h>> \o Tail(s.initial))
      BY <1>1, <1>4, <3>4
    <3> QED  BY <1>4, <3>1, <3>2, <3>3, <3>5
  <2>3. Accounts(x, q, b)
    BY <1>1, <1>2, <1>5, <1>7, <2>2 DEF Accounts
  <2> QED  BY <2>1, <2>2, <2>3
<1>8. Ready(t, q, b) /\ t.goal = "drain"
  <2>1. CASE u.initial = <<>>
    <3>1. /\ SubTyped(v) /\ Accounts(v, q, b) /\ v.state = "DRAINING"
          /\ v.initial = <<>> /\ v.queue = <<>> /\ v.goal = "drain"
      BY <1>5, <1>6, <1>7, <2>1
    <3>2. t = Drained(v)
      BY <2>1
    <3> HIDE DEF t
    <3> QED  BY <1>1, <3>1, <3>2, DrainedReady
  <2>2. CASE u.initial # <<>>
    <3>1. t = w
      BY <2>2
    <3> HIDE DEF t
    <3>2. SubTyped(w) /\ Accounts(w, q, b)
      BY <1>7
    <3>3. w.at = "open" /\ w.state = "DRAINING" /\ w.queue = <<>> /\ w.goal = "drain"
      BY <1>5
    <3> QED  BY <3>1, <3>2, <3>3 DEF Ready, Accounts, Querying
  <2> QED  BY <2>1, <2>2
<1> HIDE DEF t
<1>9. Based(t, {}, base[c]) = base[c]
  BY <1>8 DEF Based
<1>10. ClientsOK'
  BY <1>0, <1>1, <1>3, <1>8, <1>9, AdvanceOK DEF q, b
<1>11. QED
  BY <1>0, <1>3, <1>10 DEF BrokerInv, LogOK, log, caches

LEMMA TakeQueuedOK ==
  ASSUME BrokerInv, NEW c \in Clients, TakeQueued(c)
  PROVE  BrokerInv'
<1>0. LogOK /\ ClientsOK /\ ClientOK(sub[c], seen[c], base[c])
  BY DEF BrokerInv, ClientsOK
<1>1. /\ sub[c].at = "open" /\ sub[c].initial = <<>> /\ sub[c].queue # <<>>
      /\ sub' = [sub EXCEPT ![c] = [sub[c] EXCEPT !.queue = Tail(@)]]
      /\ seen' = [seen EXCEPT ![c] = Append(@, Head(sub[c].queue))]
      /\ base' = base /\ UNCHANGED <<log, caches, sync, world>>
  BY DEF TakeQueued, At, SetSub
<1>2. ClientOK([sub[c] EXCEPT !.queue = Tail(@)],
               Append(seen[c], Head(sub[c].queue)), base[c])
  BY <1>0, <1>1, TakenOK
<1>3. /\ sub'[c] = [sub[c] EXCEPT !.queue = Tail(@)]
      /\ seen'[c] = Append(seen[c], Head(sub[c].queue)) /\ base'[c] = base[c]
      /\ \A d \in Clients \ {c} : sub'[d] = sub[d] /\ seen'[d] = seen[d] /\ base'[d] = base[d]
  BY <1>0, <1>1 DEF ClientsOK
<1>4. \A d \in Clients :
        \/ sub'[d] = sub[d] /\ seen'[d] = seen[d] /\ base'[d] = base[d]
        \/ ClientOK(sub'[d], seen'[d], base'[d])
  BY <1>2, <1>3
<1>5. /\ sub' = [d \in Clients |-> sub'[d]] /\ seen' = [d \in Clients |-> seen'[d]]
      /\ base' = [d \in Clients |-> base'[d]]
  BY <1>0, <1>1 DEF ClientsOK
<1>6. ClientsOK'
  BY <1>0, <1>4, <1>5, ClientsStep
<1>7. QED
  BY <1>0, <1>1, <1>6 DEF BrokerInv, LogOK, log, caches

LEMMA LeavesOK ==
  ASSUME BrokerInv, NEW c \in Clients, EndOfStream(c) \/ Disconnect(c)
  PROVE  BrokerInv'
<1>1. Gone(c) /\ UNCHANGED <<log, sync, client>>
  BY DEF EndOfStream, Disconnect
<1>2. DOMAIN world' = DOMAIN world /\ world'.events = world.events
  <2>1. world' = world \/ world' = [world EXCEPT !.left = @ - 1]
    BY DEF EndOfStream, Disconnect, Fault
  <2> QED  BY <2>1 DEF BrokerInv, LogOK
<1>3. QED
  BY <1>1, <1>2, GoneOK

LEMMA StepInv == BrokerInv /\ [Next]_vars => BrokerInv'
<1> SUFFICES ASSUME BrokerInv, [Next]_vars
             PROVE  BrokerInv'
  OBVIOUS
<1>1. CASE UNCHANGED vars
  <2>1. ClientsOK'
    BY <1>1, ClientsStay DEF vars, client, BrokerInv
  <2> QED  BY <1>1, <2>1 DEF vars, BrokerInv, LogOK
<1>2. CASE \/ \E how \in {"no", "publish", "persist"} : Commit(how)
           \/ Expire \/ DeleteExpired
  BY <1>2, LogSteps
<1>3. ASSUME NEW n \in Seqs, PublishReturns(n)
      PROVE  BrokerInv'
  BY <1>3, PublishOK
<1>4. CASE SyncForBridge \/ SyncAgain \/ \E n \in Seqs : SyncForDeliver(n)
  BY <1>4, SyncRoundOK DEF SyncForBridge, SyncAgain, SyncForDeliver
<1>5. CASE SyncRead
  BY <1>5, SyncReadOK
<1>6. CASE SyncUse
  BY <1>6, SyncUseOK
<1>7. CASE BridgeConnect \/ BridgeConsume \/ BridgeLost \/ \E n \in Seqs : NotifyArrives(n)
  BY <1>7, BridgeOK
<1>8. ASSUME NEW c \in Clients, NEW after \in Cursors, Connect(c, after)
      PROVE  BrokerInv'
  BY <1>8, ConnectOK
<1>9. ASSUME NEW c \in Clients, Reading(c) \/ Disconnect(c)
      PROVE  BrokerInv'
  BY <1>9, LatestOK, ReplayReadOK, ReplayOK, TakeInitialOK, TakeQueuedOK, LeavesOK
     DEF Reading
<1>10. QED
  BY <1>1, <1>2, <1>3, <1>4, <1>5, <1>6, <1>7, <1>8, <1>9 DEF Next, ServerStep

\* The books of every subscription are kept by every step of the broker, the
\* bridge, the database and the clients.
THEOREM BrokerKeepsBooks == Spec => []BrokerInv
<1>1. Init => BrokerInv
  BY InitInv
<1>2. BrokerInv /\ [Next]_vars => BrokerInv'
  BY StepInv
<1>3. QED
  BY <1>1, <1>2, PTL DEF Spec

\* What a client has received is always, without a hole, a duplicate or a
\* reordering, what it is owed up to the last event received: across replay,
\* hand-over, live delivery, closed subscriptions and reconnects.
THEOREM NoEventIsSkipped == Spec => []NoSilentGap
<1>1. BrokerInv => NoSilentGap
  <2> SUFFICES ASSUME BrokerInv, NEW c \in Clients, seen[c] # <<>>
               PROVE  seen[c] = Owed(c, seen[c][Len(seen[c])])
    BY DEF NoSilentGap
  <2> DEFINE q == seen[c]
             b == base[c]
  <2>1. q \in Seq(Seqs) /\ b \in Int
    BY DEF BrokerInv, ClientsOK, ClientOK
  <2>2. PICK n \in Int : Lists(q, Between(b, n))
    BY DEF BrokerInv, ClientsOK, ClientOK
  <2>3. Lists(q, Between(b, q[Len(q)]))
    <3>1. q # <<>>  OBVIOUS
    <3> HIDE DEF q, b
    <3>2. q \o <<>> = q /\ <<>> \in Seq(Seqs)
      BY <2>1, ConcatEmptySeq, NothingListed
    <3> QED  BY <2>1, <2>2, <3>1, <3>2, ListsUpToLast
  <2>4. q = Sorted(Between(b, q[Len(q)]))
    <3> HIDE DEF q, b
    <3> QED  BY <2>1, <2>3, ListsUnique, BetweenAreSeqs
  <2> QED  BY <2>4 DEF Owed, Between
<1>2. QED
  BY <1>1, BrokerKeepsBooks, PTL

\* From the hand-over on, received, in hand, replayed and queued events add up
\* to everything through last_sequence, as long as the subscriber is not
\* closed.
THEOREM LastSequenceAccounts == Spec => []CursorAccountsForAll
<1>1. BrokerInv => CursorAccountsForAll
  <2> SUFFICES ASSUME BrokerInv, NEW c \in Clients,
                      sub[c].at # "off", sub[c].state # "REPLAYING", ~sub[c].closed
               PROVE  seen[c] \o Handed(c) \o sub[c].initial \o sub[c].queue
                        = Owed(c, sub[c].last)
    BY DEF CursorAccountsForAll, At
  <2>1. /\ SubTyped(sub[c]) /\ seen[c] \in Seq(Seqs)
        /\ Lists(Line(sub[c], seen[c]), Between(base[c], sub[c].last))
    BY DEF BrokerInv, ClientsOK, ClientOK, Accounts
  <2>2. Line(sub[c], seen[c]) \in Seq(Seqs)
    BY <2>1, LineParts
  <2>3. Line(sub[c], seen[c]) = Sorted(Between(base[c], sub[c].last))
    BY <2>1, <2>2, ListsUnique, BetweenAreSeqs
  <2> QED
    BY <2>3 DEF Line, Handing, Handed, Owed, Between
<1>2. QED
  BY <1>1, BrokerKeepsBooks, PTL
=============================================================================
