---------------------------- MODULE Topic3Proofs ----------------------------
(***************************************************************************)
(* Theorems about Topic3Workflow, for any processes, blueprint, agents,    *)
(* contents, attempts and faults.                                          *)
(***************************************************************************)
EXTENDS Topic3Workflow, FiniteSetTheorems, TLAPS

-----------------------------------------------------------------------------
\* The log of a task

\* The transitions lead to different states, none of them PENDING.
LEMMA TargetStates ==
  /\ Transitions = {"start", "complete", "fail", "skip"}
  /\ Target["start"] = "RUNNING" /\ Target["complete"] = "SUCCEEDED"
  /\ Target["fail"] = "FAILED" /\ Target["skip"] = "SKIPPED"
BY DEF Transitions, Target

\* Another key changes no snapshot that was recorded before.
LEMMA LogPrefix ==
  ASSUME NEW log \in Seq(KeyRows), NEW key \in KeyRows, NEW n \in 1..(Len(log) + 1)
  PROVE  /\ StateAt(Append(log, key), n) = StateAt(log, n)
         /\ StartsBefore(Append(log, key), n) = StartsBefore(log, n)
         /\ RetriableAt(Append(log, key), n) <=> RetriableAt(log, n)
<1>1. \A k \in 1..(n - 1) : Append(log, key)[k] = log[k]
  OBVIOUS
<1>2. n > 1 => Append(log, key)[n - 1] = log[n - 1]
  BY <1>1
<1>3. QED
  BY <1>1, <1>2 DEF StateAt, StartsBefore, RetriableAt

LEMMA RecordedStays ==
  ASSUME NEW log \in Seq(KeyRows), NEW key \in KeyRows, NEW s, Recorded(log, s)
  PROVE  Recorded(Append(log, key), s)
<1>1. s.version \in 1..(Len(log) + 1)
  BY DEF Recorded
<1>2. s.version \in 1..(Len(Append(log, key)) + 1)
  BY <1>1
<1>3. QED
  BY <1>1, <1>2, LogPrefix DEF Recorded

\* A start is counted once.
LEMMA CountStarts ==
  ASSUME NEW log \in Seq(KeyRows), NEW n \in 1..Len(log)
  PROVE  /\ Cardinality(StartsBefore(log, n)) \in Nat
         /\ Cardinality(StartsBefore(log, n + 1))
              = Cardinality(StartsBefore(log, n))
                  + (IF log[n].transition = "start" THEN 1 ELSE 0)
<1>1. IsFiniteSet(StartsBefore(log, n))
  <2>1. IsFiniteSet(1..(n - 1))
    BY FS_Interval
  <2>2. StartsBefore(log, n) \subseteq 1..(n - 1)
    BY DEF StartsBefore
  <2>3. QED
    BY <2>1, <2>2, FS_Subset
<1>2. n \notin StartsBefore(log, n)
  BY DEF StartsBefore
<1>3. StartsBefore(log, n + 1) = IF log[n].transition = "start"
                                   THEN StartsBefore(log, n) \union {n}
                                   ELSE StartsBefore(log, n)
  BY DEF StartsBefore
<1>4. QED
  BY <1>1, <1>2, <1>3, FS_CardinalityType, FS_AddElement

\* A pending task was never started.
LEMMA PendingIsFirst ==
  ASSUME NEW log \in Seq(KeyRows), NEW s \in Snapshots, Recorded(log, s),
         s.state = "PENDING"
  PROVE  s.attempt = 0
<1>1. s.version \in 1..(Len(log) + 1)
  BY DEF Recorded
<1>2. CASE s.version > 1
  <2>1. log[s.version - 1] \in KeyRows
    BY <1>1, <1>2
  <2>2. log[s.version - 1].transition \in Transitions
    BY <2>1 DEF KeyRows
  <2>3. Target[log[s.version - 1].transition] # "PENDING"
    BY <2>2, TargetStates
  <2>4. QED
    BY <1>2, <2>3 DEF Recorded, StateAt
<1>3. CASE s.version = 1
  <2>1. StartsBefore(log, 1) = {}
    BY DEF StartsBefore
  <2>2. QED
    BY <1>3, <2>1, FS_EmptySet DEF Recorded
<1>4. QED
  BY <1>1, <1>2, <1>3

\* The snapshot a key leads to is recorded.
LEMMA NextRecorded ==
  ASSUME NEW log \in Seq(KeyRows), NEW s \in Snapshots, Recorded(log, s),
         NEW transition \in Transitions, NEW content, NEW exact \in BOOLEAN,
         s.version <= Len(log), log[s.version].transition = transition,
         log[s.version].content = content,
         transition = "start" => ~Ended(s) /\ s.state # "RUNNING"
  PROVE  LET next == NextSnapshot(s, transition, content, exact)
         IN  Recorded(log, next) /\ next \in Snapshots
<1> DEFINE next == NextSnapshot(s, transition, content, exact)
<1>1. s.version \in 1..Len(log) /\ s.version \in Nat
  BY DEF Recorded, Snapshots
<1>2. /\ next.version = s.version + 1 /\ next.state = Target[transition]
      /\ next.attempt = IF transition = "start" THEN s.attempt + 1 ELSE s.attempt
      /\ next.retriable <=> (transition = "fail" /\ content \in Retriable)
      /\ next.exact = exact
  BY DEF NextSnapshot
<1>3. next.version \in 1..(Len(log) + 1)
  BY <1>1, <1>2
<1>4. next.state = StateAt(log, next.version)
  BY <1>1, <1>2 DEF StateAt
<1>5. next.retriable <=> RetriableAt(log, next.version)
  BY <1>1, <1>2 DEF RetriableAt
<1>6. next.attempt = Cardinality(StartsBefore(log, next.version))
  BY <1>1, <1>2, CountStarts DEF Recorded
<1>7. Recorded(log, next)
  BY <1>3, <1>4, <1>5, <1>6 DEF Recorded
<1>8. transition = "start" => s.attempt < TaskAttempts
  <2> SUFFICES ASSUME transition = "start" PROVE s.attempt < TaskAttempts
    OBVIOUS
  <2>1. CASE s.state = "PENDING"
    BY <2>1, PendingIsFirst, BlueprintAssumption
  <2>2. CASE s.state = "FAILED"
    BY <2>2 DEF Ended, MayRetry
  <2>3. QED
    BY <2>1, <2>2 DEF Ended, Snapshots, TaskStates
<1>9. next.attempt \in 0..TaskAttempts
  BY <1>2, <1>8, BlueprintAssumption DEF Snapshots
<1>10. Target[transition] \in TaskStates
  BY TargetStates DEF TaskStates
<1>11. next \in Snapshots
  BY <1>1, <1>9, <1>10 DEF NextSnapshot, Snapshots
<1>12. QED
  BY <1>7, <1>11

\* A snapshot of the log has ended if the log says so.
LEMMA EndedInLog ==
  ASSUME NEW log, NEW s \in Snapshots, Recorded(log, s)
  PROVE  Ended(s) <=> EndedAt(log, s.version)
<1>1. s.attempt \in Nat /\ TaskAttempts \in Nat
  BY BlueprintAssumption DEF Snapshots
<1>2. QED
  BY <1>1 DEF Ended, EndedAt, MayRetry, Recorded

\* Nothing follows an ended snapshot, and two snapshots of one version agree.
LEMMA EndedIsLatest ==
  ASSUME NEW log, NEW row, NEW c, TaskLogged(log, row, c),
         NEW s \in Snapshots, Recorded(log, s)
  PROVE  /\ Ended(s) => s.version = row.version
         /\ s.version = row.version => /\ s.state = row.state
                                       /\ Ended(s) <=> Ended(row)
<1>1. s.version \in 1..(Len(log) + 1) /\ row.version = Len(log) + 1 /\ Len(log) \in Nat
  BY DEF TaskLogged, Recorded
<1>2. Ended(s) <=> EndedAt(log, s.version)
  BY EndedInLog
<1>3. Ended(row) <=> EndedAt(log, row.version)
  BY EndedInLog DEF TaskLogged
<1>4. QED
  BY <1>1, <1>2, <1>3 DEF TaskLogged, Recorded

\* Behind a SUCCEEDED snapshot stands the candidate.
LEMMA SucceededHasCandidate ==
  ASSUME NEW log, NEW row, NEW c, TaskLogged(log, row, c),
         NEW s, Recorded(log, s), s.state = "SUCCEEDED"
  PROVE  c.draft \in AllDrafts /\ c.draft # Nothing
<1>1. s.version \in 2..(Len(log) + 1) /\ Len(log) \in Nat
  BY DEF TaskLogged, Recorded, StateAt
<1>2. s.version - 1 \in 1..Len(log)
  BY <1>1
<1>3. log[s.version - 1].transition \in Transitions
  <2>1. log \in Seq(KeyRows)
    BY DEF TaskLogged
  <2>2. log[s.version - 1] \in KeyRows
    BY <1>2, <2>1
  <2>3. QED
    BY <2>2 DEF KeyRows
<1>4. log[s.version - 1].transition = "complete"
  BY <1>1, <1>3, TargetStates DEF Recorded, StateAt
<1>5. QED
  BY <1>2, <1>4, BlueprintAssumption DEF TaskLogged

\* A transition from the latest snapshot lengthens the log.
LEMMA LogGrows ==
  ASSUME NEW log, NEW row, NEW c, TaskLogged(log, row, c),
         NEW s \in Snapshots, Recorded(log, s), s.version = row.version, ~Ended(s),
         NEW transition \in Transitions, NEW d,
         NEW content \in AllDrafts \union AllFailures \union {Nothing},
         transition = "start" => s.state # "RUNNING",
         transition = "complete" => content \in AllDrafts /\ c.draft = Nothing,
         d.draft = IF transition = "complete" THEN content ELSE c.draft
  PROVE  TaskLogged(Append(log, [transition |-> transition, exact |-> s.exact,
                                 content |-> content]),
                    NextSnapshot(s, transition, content, TRUE), d)
<1> DEFINE key == [transition |-> transition, exact |-> s.exact, content |-> content]
           longer == Append(log, key)
           next == NextSnapshot(s, transition, content, TRUE)
<1>1. log \in Seq(KeyRows) /\ key \in KeyRows
  BY DEF TaskLogged, KeyRows, Snapshots
<1>2. /\ longer \in Seq(KeyRows) /\ Len(longer) = Len(log) + 1 /\ Len(log) \in Nat
      /\ longer[Len(log) + 1] = key
      /\ \A n \in 1..Len(log) : longer[n] = log[n]
  BY <1>1
<1>3. s.version = Len(log) + 1
  BY DEF TaskLogged
<1>4. Recorded(longer, s)
  BY <1>1, RecordedStays
<1>5. key.transition = transition /\ key.content = content
  OBVIOUS
<1>6. Recorded(longer, next) /\ next \in Snapshots
  <2> HIDE DEF key, longer, next
  <2>1. s.version <= Len(longer) /\ longer[s.version] = key
    BY <1>2, <1>3
  <2>2. QED
    BY <1>2, <1>4, <1>5, <2>1, NextRecorded DEF next
<1>7. next.version = Len(longer) + 1
  BY <1>2, <1>3 DEF NextSnapshot
<1>8. ASSUME NEW n \in 1..Len(longer) PROVE ~EndedAt(longer, n)
  <2>1. n \in 1..(Len(log) + 1)
    BY <1>2
  <2>2. EndedAt(longer, n) <=> EndedAt(log, n)
    BY <1>1, <2>1, LogPrefix DEF EndedAt
  <2>3. CASE n \in 1..Len(log)
    BY <2>2, <2>3 DEF TaskLogged
  <2>4. CASE n = s.version
    BY <2>2, <2>4, EndedInLog
  <2>5. QED
    BY <1>2, <1>3, <2>1, <2>3, <2>4
<1>9. ASSUME NEW n \in 1..Len(longer), longer[n].transition = "complete"
      PROVE  longer[n].content \in AllDrafts /\ longer[n].content = d.draft
  <2>1. CASE n \in 1..Len(log)
    BY <1>2, <1>9, <2>1, BlueprintAssumption DEF TaskLogged
  <2>2. CASE n = Len(log) + 1
    BY <1>2, <1>5, <1>9, <2>2
  <2>3. QED
    BY <1>2, <2>1, <2>2
<1> HIDE DEF key, longer, next
<1>10. QED
  BY <1>2, <1>6, <1>7, <1>8, <1>9 DEF TaskLogged, key, longer, next

-----------------------------------------------------------------------------
\* Transactions

\* What a transaction asks for: a transition from a recorded snapshot, and a
\* candidate built on persisted ones.
Legal(t, s, transition, content, given) ==
  /\ s \in Snapshots /\ Recorded(keys[t], s) /\ ~Ended(s)
  /\ transition \in Transitions
  /\ transition = "start" => s.state # "RUNNING"
  /\ content \in AllDrafts \union AllFailures \union {Nothing}
  /\ transition = "complete" =>
       content \in AllDrafts /\ BuiltOn(request, cand, t, given)

\* Rows only grow: logs get longer, candidates and ended tasks stay.
Grown ==
  \A t \in Tasks :
    /\ \A s : Recorded(keys[t], s) => Recorded(keys'[t], s)
    /\ cand[t].draft # Nothing => cand'[t] = cand[t]
    /\ Ended(task[t]) => task'[t] = task[t] /\ cand'[t] = cand[t]

LEMMA GrownBuilt ==
  ASSUME Grown, NEW q, NEW t, NEW given, BuiltOn(q, cand, t, given)
  PROVE  BuiltOn(q, cand', t, given)
<1>1. \A d \in Deps(q, t) : d \in Tasks /\ cand'[d] = cand[d]
  BY DEF Grown, BuiltOn, Deps
<1>2. QED
  BY <1>1 DEF BuiltOn

SameWorld == request' = request /\ DOMAIN world' = DOMAIN world

LEMMA AppendKeeps ==
  ASSUME RowsHold, SameWorld, NEW t \in Tasks, NEW s, NEW transition, NEW content,
         NEW given, Legal(t, s, transition, content, given),
         Fresh(t, s, transition), AppendSnapshot(t, s, transition, content, given)
  PROVE  RowsHold' /\ Grown
<1> DEFINE key == [transition |-> transition, exact |-> s.exact, content |-> content]
           next == NextSnapshot(s, transition, content, TRUE)
           row == IF transition = "complete" THEN [draft |-> content, given |-> given]
                  ELSE cand[t]
<1>1. TaskLogged(keys[t], task[t], cand[t]) /\ s \in Snapshots /\ Recorded(keys[t], s)
      /\ s.version = task[t].version /\ ~Ended(s) /\ transition \in Transitions
      /\ content \in AllDrafts \union AllFailures \union {Nothing}
      /\ (transition = "start" => s.state # "RUNNING")
  BY DEF RowsHold, Legal, Fresh, Latest
<1>2. transition = "complete" => content \in AllDrafts /\ cand[t].draft = Nothing
  BY DEF Legal, Fresh
<1>3. /\ keys' = [u \in Tasks |-> IF u = t THEN Append(keys[t], key) ELSE keys[u]]
      /\ task' = [u \in Tasks |-> IF u = t THEN next ELSE task[u]]
      /\ cand' = [u \in Tasks |-> IF u = t THEN row ELSE cand[u]]
  BY DEF AppendSnapshot, RowsHold
<1>4. row.draft = IF transition = "complete" THEN content ELSE cand[t].draft
  OBVIOUS
<1>5. TaskLogged(Append(keys[t], key), next, row)
  <2> HIDE DEF row
  <2>1. QED
    BY <1>1, <1>2, <1>4, LogGrows
<1>6. ~Ended(task[t])
  BY <1>1, EndedIsLatest
<1>7. key \in KeyRows /\ keys[t] \in Seq(KeyRows)
  BY <1>1 DEF TaskLogged, KeyRows, Snapshots
<1> HIDE DEF key, next
<1>8. \A x : Recorded(keys[t], x) => Recorded(Append(keys[t], key), x)
  BY <1>7, RecordedStays
<1>9. cand[t].draft # Nothing => row = cand[t]
  BY <1>2
<1>10. row \in CandidateRows
  <2>1. CASE transition = "complete"
    <3>1. \A d \in Deps(request, t) : cand[d] \in CandidateRows
      BY DEF Deps, RowsHold
    <3>2. given \subseteq AllDrafts
      BY <2>1, <3>1 DEF Legal, BuiltOn, CandidateRows
    <3>3. QED
      BY <1>2, <2>1, <3>2 DEF CandidateRows
  <2>2. QED
    BY <2>1 DEF RowsHold
<1>11. transition = "complete" => row.given = given
  OBVIOUS
<1>12. transition # "complete" => row = cand[t]
  OBVIOUS
<1> HIDE DEF row
<1>13. Grown
  BY <1>3, <1>6, <1>8, <1>9 DEF Grown
<1>14. ASSUME NEW u \in Tasks, cand'[u].draft # Nothing
       PROVE  BuiltOn(request, cand', u, cand'[u].given)
  <2>1. BuiltOn(request, cand, u, cand'[u].given)
    <3>1. CASE u # t \/ transition # "complete"
      BY <1>3, <1>12, <1>14, <3>1 DEF RowsHold
    <3>2. CASE u = t /\ transition = "complete"
      BY <1>3, <1>11, <3>2 DEF Legal
    <3>3. QED
      BY <3>1, <3>2
  <2>2. QED
    BY <1>13, <2>1, GrownBuilt
<1>15. \A u \in Tasks : TaskLogged(keys'[u], task'[u], cand'[u])
  BY <1>3, <1>5 DEF RowsHold
<1>16. cand' \in [Tasks -> CandidateRows]
  BY <1>3, <1>10 DEF RowsHold
<1>17. RowsHold'
  BY <1>3, <1>14, <1>15, <1>16 DEF RowsHold, SameWorld
<1>18. QED
  BY <1>13, <1>17

LEMMA Untouched ==
  ASSUME RowsHold, SameWorld, UNCHANGED <<task, keys, cand>>
  PROVE  RowsHold' /\ Grown
<1>1. Grown
  BY DEF Grown
<1>2. QED
  BY <1>1 DEF RowsHold, SameWorld

\* A transaction keeps the rows, and the snapshot it returns is recorded.
LEMMA PersistKeeps ==
  ASSUME RowsHold, SameWorld, NEW t \in Tasks, NEW s, NEW transition, NEW content,
         NEW given, Legal(t, s, transition, content, given),
         Persist(t, s, transition, content, given)
  PROVE  /\ RowsHold' /\ Grown
         /\ Accepted(t, s, transition, content) =>
              /\ Recorded(keys'[t], Returned(t, s, transition, content))
              /\ Returned(t, s, transition, content) \in Snapshots
              /\ transition = "complete" => cand'[t].draft = content
<1>1. RowsHold' /\ Grown
  BY AppendKeeps, Untouched DEF Persist
<1>2. ASSUME Accepted(t, s, transition, content)
      PROVE  /\ keys'[t] \in Seq(KeyRows) /\ Recorded(keys'[t], s)
             /\ s.version <= Len(keys'[t])
             /\ keys'[t][s.version].transition = transition
             /\ keys'[t][s.version].content = content
             /\ transition = "complete" => cand'[t].draft = content
  <2>1. keys'[t] \in Seq(KeyRows) /\ Recorded(keys'[t], s)
    BY <1>1 DEF RowsHold, TaskLogged, Grown, Legal
  <2>2. keys[t] \in Seq(KeyRows) /\ s.version \in Nat \ {0}
        /\ task[t].version = Len(keys[t]) + 1
    BY DEF RowsHold, TaskLogged, Legal, Recorded
  <2>3. CASE Fresh(t, s, transition)
    <3> DEFINE key == [transition |-> transition, exact |-> s.exact, content |-> content]
    <3>1. keys'[t] = Append(keys[t], key) /\ s.version = Len(keys[t]) + 1
      BY <2>2, <2>3 DEF Persist, AppendSnapshot, Fresh, Latest, RowsHold
    <3>2. keys'[t][s.version] = key /\ s.version <= Len(keys'[t])
      BY <2>2, <3>1
    <3>3. transition = "complete" => cand'[t].draft = content
      BY <2>3 DEF Persist, AppendSnapshot, RowsHold
    <3>4. QED
      BY <2>1, <3>2, <3>3
  <2>4. CASE ~Fresh(t, s, transition)
    <3>1. keys' = keys /\ cand' = cand
      BY <2>4 DEF Persist
    <3>2. /\ s.version \in 1..Len(keys[t]) /\ keys[t][s.version].transition = transition
          /\ keys[t][s.version].content = content
      BY <1>2, <2>2, <2>4 DEF Accepted, Replayed, KeyUsed, SameRequest
    <3>3. transition = "complete" => cand[t].draft = content
      BY <3>2 DEF RowsHold, TaskLogged
    <3>4. QED
      BY <2>1, <3>1, <3>2, <3>3
  <2>5. QED
    BY <2>3, <2>4
<1>3. ASSUME Accepted(t, s, transition, content)
      PROVE  /\ Recorded(keys'[t], Returned(t, s, transition, content))
             /\ Returned(t, s, transition, content) \in Snapshots
  <2>1. PICK exact \in BOOLEAN : exact = Fresh(t, s, transition)
    BY DEF Fresh, KeyUsed, Latest
  <2>2. /\ Recorded(keys'[t], NextSnapshot(s, transition, content, exact))
        /\ NextSnapshot(s, transition, content, exact) \in Snapshots
    BY <1>2, <1>3, NextRecorded DEF Legal
  <2>3. QED
    BY <2>1, <2>2 DEF Returned
<1>4. QED
  BY <1>1, <1>2, <1>3

-----------------------------------------------------------------------------
\* What executions and runs hold

\* Nothing that is held is overtaken by the growth of the rows.
LEMMA HeldStays ==
  ASSUME RowsHold, SameWorld, Grown
  PROVE  /\ \A t \in Tasks : \A r : RunHolds(request, keys[t], cand, t, r)
              => RunHolds(request', keys'[t], cand', t, r)
         /\ \A x : JobHolds(keys, cand, x) => JobHolds(keys', cand', x)
<1>1. \A t \in Tasks : TaskLogged(keys[t], task[t], cand[t])
  BY DEF RowsHold
<1>2. ASSUME NEW t \in Tasks, NEW s, Recorded(keys[t], s), s.state = "SUCCEEDED"
      PROVE  cand'[t] = cand[t]
  BY <1>1, <1>2, SucceededHasCandidate DEF Grown
<1>3. ASSUME NEW t \in Tasks, NEW r, RunHolds(request, keys[t], cand, t, r)
      PROVE  RunHolds(request', keys'[t], cand', t, r)
  <2>1. Recorded(keys'[t], r.current)
    BY <1>3 DEF RunHolds, Grown
  <2>2. Live(r) => BuiltOn(request', cand', t, r.given)
    BY <1>3, GrownBuilt DEF RunHolds, SameWorld
  <2>3. r.current.state = "SUCCEEDED" => r.draft = cand'[t].draft
    BY <1>2, <1>3 DEF RunHolds
  <2>4. QED
    BY <1>3, <2>1, <2>2, <2>3 DEF RunHolds
<1>4. ASSUME NEW x, JobHolds(keys, cand, x) PROVE JobHolds(keys', cand', x)
  <2>1. ASSUME NEW t \in Tasks
        PROVE  /\ Recorded(keys'[t], x.view[t])
               /\ x.view[t].state = "SUCCEEDED" => x.drafts[t] = cand'[t].draft
               /\ x.pc = "finalize" => Ended(x.view[t]) /\ x.drafts[t] = cand'[t].draft
    <3>1. Recorded(keys[t], x.view[t]) /\ x.view[t] \in Snapshots
      BY <1>4 DEF JobHolds, JobRecords
    <3>2. Ended(x.view[t]) => Ended(task[t])
      BY <1>1, <3>1, EndedIsLatest
    <3>3. QED
      BY <1>2, <1>4, <3>1, <3>2 DEF JobHolds, Grown
  <2>2. QED
    BY <1>4, <2>1 DEF JobHolds
<1>5. QED
  BY <1>3, <1>4

\* An execution that has not begun and a run that is none hold nothing.
LEMMA Blank ==
  /\ \A log \in Seq(KeyRows) : \A q, c, t : RunHolds(q, log, c, t, NoRun)
  /\ \A logs, c : (\A t \in Tasks : logs[t] \in Seq(KeyRows)) => JobHolds(logs, c, NoJob)
<1>1. Pending \in Snapshots
  BY BlueprintAssumption DEF Pending, Snapshots, TaskStates
<1>2. ASSUME NEW log \in Seq(KeyRows) PROVE Recorded(log, Pending)
  <2>1. StartsBefore(log, 1) = {}
    BY DEF StartsBefore
  <2>2. Cardinality(StartsBefore(log, 1)) = 0
    BY <2>1, FS_EmptySet
  <2>3. 1 \in 1..(Len(log) + 1)
    OBVIOUS
  <2>4. QED
    BY <2>2, <2>3 DEF Recorded, Pending, StateAt, RetriableAt
<1>3. Pending.state = "PENDING" /\ NoRun \in RunRecords /\ NoRun.current = Pending
      /\ NoRun.pc = "none"
  BY <1>1 DEF Pending, NoRun, RunRecords
<1>4. /\ NoJob \in JobRecords /\ NoJob.pc = "idle" /\ NoJob.tries < QueueAttempts
      /\ \A t \in Tasks : NoJob.view[t] = Pending
  BY <1>1, WorkflowAssumption DEF NoJob, JobRecords, Inside
<1>5. ASSUME NEW log \in Seq(KeyRows), NEW q, NEW c, NEW t
      PROVE  RunHolds(q, log, c, t, NoRun)
  BY <1>2, <1>3 DEF RunHolds, Live
<1>6. ASSUME NEW logs, NEW c, \A t \in Tasks : logs[t] \in Seq(KeyRows)
      PROVE  JobHolds(logs, c, NoJob)
  BY <1>2, <1>3, <1>4, <1>6 DEF JobHolds
<1>7. QED
  BY <1>5, <1>6

\* A step keeps what it leaves alone, and what it changes must hold again.
LEMMA WorkStep ==
  ASSUME WorkflowInv, SameWorld, RowsHold', Grown,
         job' = [j \in Jobs |-> job'[j]],
         \A j \in Jobs : job'[j] \in {job[j], NoJob} \/ JobHolds(keys', cand', job'[j]),
         run' = [j \in Jobs |-> [t \in Tasks |-> run'[j][t]]],
         \A j \in Jobs, t \in Tasks :
           \/ run'[j][t] \in {run[j][t], NoRun}
           \/ RunHolds(request', keys'[t], cand', t, run'[j][t]),
         \A o \in orphans' :
           \/ o \in orphans
           \/ /\ o \in [process : Processes, task : Tasks, run : RunRecords]
              /\ Live(o.run) /\ RunHolds(request', keys'[o.task], cand', o.task, o.run)
  PROVE  WorkHolds'
<1>1. RowsHold /\ WorkHolds
  BY DEF WorkflowInv
<1>2. \A t \in Tasks : keys'[t] \in Seq(KeyRows)
  BY DEF RowsHold, TaskLogged
<1>3. \A j \in Jobs : JobHolds(keys', cand', job'[j])
  <2>1. \A j \in Jobs : JobHolds(keys', cand', job[j])
    BY <1>1, HeldStays DEF WorkHolds
  <2>2. JobHolds(keys', cand', NoJob)
    BY <1>2, Blank
  <2>3. QED
    BY <2>1, <2>2
<1>4. \A j \in Jobs, t \in Tasks : RunHolds(request', keys'[t], cand', t, run'[j][t])
  <2>1. \A j \in Jobs, t \in Tasks : RunHolds(request', keys'[t], cand', t, run[j][t])
    BY <1>1, HeldStays DEF WorkHolds
  <2>2. \A t \in Tasks : RunHolds(request', keys'[t], cand', t, NoRun)
    BY <1>2, Blank
  <2>3. QED
    BY <2>1, <2>2
<1>5. ASSUME NEW o \in orphans'
      PROVE  /\ o \in [process : Processes, task : Tasks, run : RunRecords]
             /\ Live(o.run) /\ RunHolds(request', keys'[o.task], cand', o.task, o.run)
  <2>1. CASE o \in orphans
    <3>1. o \in [process : Processes, task : Tasks, run : RunRecords] /\ Live(o.run)
          /\ o.task \in Tasks /\ RunHolds(request, keys[o.task], cand, o.task, o.run)
      BY <1>1, <2>1 DEF WorkHolds
    <3>2. QED
      BY <1>1, <3>1, HeldStays
  <2>2. QED
    BY <1>5, <2>1
<1>6. QED
  BY <1>3, <1>4, <1>5 DEF WorkHolds

\* A finished session keeps its result.
LEMMA SessionStays ==
  ASSUME WorkflowInv, Grown, session' = session \/ session'.state \notin FinalStates
  PROVE  SessionHolds'
BY DEF WorkflowInv, SessionHolds, Grown

\* An execution that fails leaves its runs at work.
LEMMA FailHolds ==
  ASSUME WorkflowInv, SameWorld, RowsHold', Grown, NEW j \in Jobs, NEW t, Fail(j, t)
  PROVE  WorkHolds'
<1>1. /\ job' = [i \in Jobs |-> IF i = j THEN NoJob ELSE job[i]]
      /\ run' = [i \in Jobs |-> IF i = j THEN [u \in Tasks |-> NoRun] ELSE run[i]]
  BY DEF Fail, WorkflowInv, WorkHolds
<1>2. ASSUME NEW o \in orphans'
      PROVE  \/ o \in orphans
             \/ /\ o \in [process : Processes, task : Tasks, run : RunRecords]
                /\ Live(o.run) /\ RunHolds(request', keys'[o.task], cand', o.task, o.run)
  <2> SUFFICES ASSUME NEW u \in Tasks, Live(run[j][u]),
                      o = [process |-> j[1], task |-> u, run |-> run[j][u]]
               PROVE  /\ o \in [process : Processes, task : Tasks, run : RunRecords]
                      /\ Live(o.run)
                      /\ RunHolds(request', keys'[o.task], cand', o.task, o.run)
    BY <1>2 DEF Fail, StillOrphans
  <2>1. j[1] \in Processes
    BY DEF Jobs
  <2>2. RunHolds(request', keys'[u], cand', u, run[j][u])
    BY HeldStays DEF WorkflowInv, WorkHolds
  <2>3. run[j][u] \in RunRecords
    BY <2>2 DEF RunHolds
  <2>4. o.run = run[j][u] /\ o.task = u
    OBVIOUS
  <2>5. QED
    BY <2>1, <2>2, <2>3, <2>4
<1>3. run' = [i \in Jobs |-> [u \in Tasks |-> run'[i][u]]]
  BY <1>1 DEF WorkflowInv, WorkHolds
<1>4. QED
  BY <1>1, <1>2, <1>3, WorkStep

-----------------------------------------------------------------------------
\* Steps that write no task

\* A fault or a POST leaves the request as it is.
LEMMA WorldChanges ==
  ASSUME RowsHold
  PROVE  /\ world' = world => SameWorld
         /\ \A kind : Fault(kind) => SameWorld
         /\ \A n : world' = [world EXCEPT !.posts = n] => SameWorld
BY DEF RowsHold, SameWorld, Fault, request

\* An execution goes on elsewhere with the same view.
LEMMA JobMoves ==
  ASSUME NEW logs, NEW c, NEW x, JobHolds(logs, c, x),
         NEW pc \in ({"queued"} \union Inside) \ {"finalize"},
         NEW tries \in 0..QueueAttempts, pc = "queued" => tries < QueueAttempts
  PROVE  /\ tries = x.tries => JobHolds(logs, c, [x EXCEPT !.pc = pc])
         /\ JobHolds(logs, c, [pc |-> pc, tries |-> tries, view |-> x.view,
                               drafts |-> x.drafts])
<1>1. x \in JobRecords
  BY DEF JobHolds
<1>2. PICK y : y = [pc |-> pc, tries |-> tries, view |-> x.view, drafts |-> x.drafts]
  OBVIOUS
<1>3. /\ y \in JobRecords /\ y.pc = pc /\ y.tries = tries
      /\ y.view = x.view /\ y.drafts = x.drafts
  BY <1>1, <1>2 DEF JobRecords
<1>4. y.pc \in {"idle", "queued"} => y.tries < QueueAttempts
  BY <1>3 DEF Inside
<1>5. JobHolds(logs, c, y)
  BY <1>3, <1>4 DEF JobHolds
<1>6. tries = x.tries => [x EXCEPT !.pc = pc] = y
  BY <1>1, <1>2 DEF JobRecords
<1>7. QED
  BY <1>2, <1>5, <1>6

\* A step that writes no task and leaves the runs alone.
LEMMA JobsOnly ==
  ASSUME WorkflowInv, SameWorld, UNCHANGED <<task, keys, cand, run, orphans>>,
         session' = session \/ session'.state \notin FinalStates,
         NEW j \in Jobs, NEW x, JobHolds(keys, cand, x) \/ x = NoJob,
         job' \in {job, [job EXCEPT ![j] = x]}
  PROVE  WorkflowInv'
<1>1. RowsHold /\ WorkHolds
  BY DEF WorkflowInv
<1>2. RowsHold' /\ Grown
  BY <1>1, Untouched
<1>3. job' = [i \in Jobs |-> job'[i]]
      /\ \A i \in Jobs : job'[i] = job[i] \/ job'[i] = x
  BY <1>1 DEF WorkHolds
<1>4. run' = [i \in Jobs |-> [u \in Tasks |-> run'[i][u]]]
  BY <1>1 DEF WorkHolds
<1>5. WorkHolds'
  BY <1>2, <1>3, <1>4, WorkStep
<1>6. SessionHolds'
  BY <1>2, SessionStays
<1>7. QED
  BY <1>2, <1>5, <1>6 DEF WorkflowInv

LEMMA JobShape ==
  ASSUME WorkflowInv, NEW j \in Jobs
  PROVE  /\ JobHolds(keys, cand, job[j]) /\ job[j] \in JobRecords
         /\ \A pc : [job EXCEPT ![j].pc = pc]
                      = [job EXCEPT ![j] = [job[j] EXCEPT !.pc = pc]]
BY DEF WorkflowInv, WorkHolds, JobHolds

\* create_workflow, the consumer, the recovery scan and the POST.
LEMMA EntryKeeps ==
  ASSUME WorkflowInv,
         \/ CreateWorkflow
         \/ \E p \in Processes : \/ Accept(p) \/ AcceptFails(p) \/ Reconcile(p)
                                 \/ PostExecute(p) \/ Restart(p)
  PROVE  WorkflowInv'
<1>1. RowsHold
  BY DEF WorkflowInv
<1>2. Started(session) = session \/ Started(session).state \notin FinalStates
  BY DEF Started, FinalStates
<1>3. ASSUME NEW j \in Jobs, job[j].pc = "idle"
      PROVE  JobHolds(keys, cand, [job[j] EXCEPT !.pc = "queued"])
  <2>1. JobHolds(keys, cand, job[j]) /\ job[j].tries \in 0..QueueAttempts
        /\ job[j].tries < QueueAttempts
    BY <1>3, JobShape DEF JobRecords, JobHolds
  <2>2. QED
    BY <2>1, JobMoves
<1>4. \A p \in Processes : <<p, "coordinator">> \in Jobs /\ <<p, "api">> \in Jobs
  BY DEF Jobs
<1>5. ASSUME NEW p \in Processes
      PROVE  \E x : /\ JobHolds(keys, cand, x) \/ x = NoJob
                    /\ Scheduled(p) \in {job, [job EXCEPT ![<<p, "coordinator">>] = x]}
  <2>1. CASE job[<<p, "coordinator">>].pc = "idle"
    BY <1>3, <1>4, <2>1, JobShape DEF Scheduled
  <2>2. CASE job[<<p, "coordinator">>].pc # "idle"
    BY <2>2 DEF Scheduled
  <2>3. QED
    BY <2>1, <2>2
<1>6. CASE CreateWorkflow
  <2>1. session'.state \notin FinalStates \/ session' = session
    BY <1>6 DEF CreateWorkflow, FinalStates
  <2>2. UNCHANGED <<task, keys, cand, execution, world>>
    BY <1>6 DEF CreateWorkflow
  <2>3. SameWorld /\ RowsHold' /\ Grown
    BY <1>1, <2>2, WorldChanges, Untouched
  <2>4. WorkHolds'
    BY <1>1, <2>2, <2>3 DEF WorkflowInv, WorkHolds, RowsHold, execution, SameWorld
  <2>5. SessionHolds'
    BY <2>1, <2>3, SessionStays
  <2>6. QED
    BY <2>3, <2>4, <2>5 DEF WorkflowInv
<1>7. ASSUME NEW p \in Processes, Accept(p) PROVE WorkflowInv'
  <2>1. UNCHANGED <<task, keys, cand, run, orphans>> /\ SameWorld
    BY <1>1, <1>7, WorldChanges DEF Accept
  <2>2. session' = session \/ session'.state \notin FinalStates
    BY <1>2, <1>7 DEF Accept
  <2>3. job' \in {job, Scheduled(p)}
    BY <1>7 DEF Accept
  <2>4. QED
    BY <1>4, <1>5, <2>1, <2>2, <2>3, JobsOnly
<1>8. ASSUME NEW p \in Processes, AcceptFails(p) PROVE WorkflowInv'
  <2>1. UNCHANGED <<task, keys, cand, run, orphans, job>> /\ SameWorld
    BY <1>1, <1>8, WorldChanges DEF AcceptFails, execution
  <2>2. session' = session \/ session'.state \notin FinalStates
    BY <1>2, <1>8 DEF AcceptFails
  <2>3. QED
    BY <1>4, <2>1, <2>2, JobsOnly
<1>9. ASSUME NEW p \in Processes, Reconcile(p) PROVE WorkflowInv'
  <2>1. UNCHANGED <<task, keys, cand, run, orphans, session>> /\ SameWorld
    BY <1>1, <1>9, WorldChanges DEF Reconcile, stored
  <2>2. job' = Scheduled(p)
    BY <1>9 DEF Reconcile
  <2>3. QED
    BY <1>4, <1>5, <2>1, <2>2, JobsOnly
<1>10. ASSUME NEW p \in Processes, PostExecute(p) PROVE WorkflowInv'
  <2>1. UNCHANGED <<task, keys, cand, run, orphans, session>> /\ SameWorld
    BY <1>1, <1>10, WorldChanges DEF PostExecute, stored
  <2>2. /\ job' = [job EXCEPT ![<<p, "api">>] = [job[<<p, "api">>] EXCEPT !.pc = "queued"]]
        /\ job[<<p, "api">>].pc = "idle"
    BY <1>4, <1>10, JobShape DEF PostExecute
  <2>3. QED
    BY <1>3, <1>4, <2>1, <2>2, JobsOnly
<1>11. ASSUME NEW p \in Processes, Restart(p) PROVE WorkflowInv'
  <2>1. UNCHANGED <<task, keys, cand, run, orphans, session, job>> /\ SameWorld
    BY <1>1, <1>11, WorldChanges DEF Restart, stored, execution
  <2>2. QED
    BY <1>4, <2>1, JobsOnly
<1>12. QED
  BY <1>6, <1>7, <1>8, <1>9, <1>10, <1>11

\* Nothing is blocked or ready only if every task has ended: a dependency has
\* no dependencies of its own.
LEMMA NothingLeft ==
  ASSUME NEW q \in Blueprints, NEW view \in [Tasks -> Snapshots],
         Blocked(q, view) = {}, Ready(q, view) = {}, NEW t \in Tasks
  PROVE  Ended(view[t])
<1>1. \A u \in Tasks : Ended(view[u]) <=> u \notin Actionable(view)
  <2> SUFFICES ASSUME NEW u \in Tasks
               PROVE  Ended(view[u]) <=> u \notin Actionable(view)
    OBVIOUS
  <2>1. view[u].state \in TaskStates
    BY DEF Snapshots
  <2>2. QED
    BY <2>1 DEF Actionable, Ended, TaskStates
<1>2. \A d \in Deps(q, t) : d \in Tasks /\ Deps(q, d) = {}
  BY DEF Deps
<1>3. \A d \in Deps(q, t) : d \notin Actionable(view)
  BY <1>2 DEF Ready
<1>4. \A d \in Deps(q, t) : view[d].state \in {"SUCCEEDED", "SKIPPED", "FAILED"}
  BY <1>1, <1>2, <1>3 DEF Ended
<1>5. t \in Actionable(view) => FALSE
  BY <1>4 DEF Blocked, Ready
<1>6. QED
  BY <1>1, <1>5

\* An execution that is tried again starts anew.
LEMMA RequeuedHolds ==
  ASSUME RowsHold, NEW j, NEW tries \in Nat, tries <= QueueAttempts
  PROVE  Requeued(j, tries) = NoJob \/ JobHolds(keys, cand, Requeued(j, tries))
<1>1. JobHolds(keys, cand, NoJob)
  BY Blank DEF RowsHold, TaskLogged
<1>2. CASE tries < QueueAttempts
  <2>1. tries \in 0..QueueAttempts
    BY WorkflowAssumption
  <2>2. JobHolds(keys, cand, [pc |-> "queued", tries |-> tries, view |-> NoJob.view,
                              drafts |-> NoJob.drafts])
    BY <1>1, <1>2, <2>1, JobMoves
  <2>3. QED
    BY <1>2, <2>2 DEF Requeued
<1>3. QED
  BY <1>2 DEF Requeued

\* What load_runtime reads.
LEMMA RowsAreHeld ==
  ASSUME RowsHold, NEW pc \in Inside, NEW tries \in 0..QueueAttempts,
         pc = "finalize" => \A t \in Tasks : Ended(task[t])
  PROVE  JobHolds(keys, cand, [pc |-> pc, tries |-> tries, view |-> task,
                               drafts |-> [t \in Tasks |-> cand[t].draft]])
<1>1. task \in [Tasks -> Snapshots]
      /\ [t \in Tasks |-> cand[t].draft] \in [Tasks -> AllDrafts \union {Nothing}]
  BY DEF RowsHold, TaskLogged, CandidateRows
<1>2. PICK x : x = [pc |-> pc, tries |-> tries, view |-> task,
                    drafts |-> [t \in Tasks |-> cand[t].draft]]
  OBVIOUS
<1>3. x \in JobRecords /\ x.pc = pc /\ x.view = task
      /\ \A t \in Tasks : x.drafts[t] = cand[t].draft
  BY <1>1, <1>2 DEF JobRecords
<1>4. JobHolds(keys, cand, x)
  BY <1>3 DEF JobHolds, RowsHold, TaskLogged, Inside
<1>5. QED
  BY <1>2, <1>4

\* The queue, start_workflow, load_runtime and the last look before finalize.
LEMMA PhaseKeeps ==
  ASSUME WorkflowInv, NEW j \in Jobs,
         \/ Execute(j) \/ Rejected(j) \/ StartWorkflow(j) \/ LoadRuntime(j)
         \/ Reload(j)
  PROVE  WorkflowInv'
<1>1. RowsHold
  BY DEF WorkflowInv
<1>2. JobHolds(keys, cand, job[j]) /\ job[j].tries \in 0..QueueAttempts
      /\ job[j].view \in [Tasks -> Snapshots]
  BY JobShape DEF JobRecords
<1>3. ASSUME NEW pc \in {"start", "load"}, NEW tries \in 0..QueueAttempts
      PROVE  /\ JobHolds(keys, cand, [job[j] EXCEPT !.pc = pc])
             /\ JobHolds(keys, cand, [pc |-> pc, tries |-> tries, view |-> job[j].view,
                                      drafts |-> job[j].drafts])
  <2>1. pc \in ({"queued"} \union Inside) \ {"finalize"} /\ pc # "queued"
    BY DEF Inside
  <2>2. QED
    BY <1>2, <2>1, JobMoves
<1>4. \A tries \in Nat : tries <= QueueAttempts =>
        Requeued(j, tries) = NoJob \/ JobHolds(keys, cand, Requeued(j, tries))
  BY <1>1, RequeuedHolds
<1>5. CASE Execute(j)
  <2>1. UNCHANGED <<task, keys, cand, run, orphans, session>> /\ SameWorld
    BY <1>1, <1>5, WorldChanges DEF Execute, stored
  <2>2. CASE lock = Nothing
    <3>1. job' = [job EXCEPT ![j] = [pc |-> "start", tries |-> job[j].tries + 1,
                                     view |-> job[j].view, drafts |-> job[j].drafts]]
      BY <1>5, <2>2, JobShape DEF Execute
    <3>2. job[j].tries + 1 \in 0..QueueAttempts
      BY <1>2, <1>5, WorkflowAssumption DEF Execute, JobHolds
    <3>3. QED
      BY <1>3, <2>1, <3>1, <3>2, JobsOnly
  <2>3. CASE lock # Nothing
    <3>1. job' = [job EXCEPT ![j] = Requeued(j, job[j].tries + 1)]
      BY <1>5, <2>3 DEF Execute
    <3>2. job[j].tries + 1 \in Nat /\ job[j].tries + 1 <= QueueAttempts
      BY <1>2, <1>5, WorkflowAssumption DEF Execute, JobHolds
    <3>3. QED
      BY <1>4, <2>1, <3>1, <3>2, JobsOnly
  <2>4. QED
    BY <2>2, <2>3
<1>6. CASE Rejected(j)
  <2>1. UNCHANGED <<task, keys, cand, run, orphans, session>> /\ SameWorld
        /\ job' = [job EXCEPT ![j] = NoJob]
    BY <1>1, <1>6, WorldChanges DEF Rejected, stored
  <2>2. QED
    BY <2>1, JobsOnly
<1>7. CASE StartWorkflow(j)
  <2>1. UNCHANGED <<task, keys, cand, run, orphans>> /\ SameWorld
        /\ job' = [job EXCEPT ![j] = [job[j] EXCEPT !.pc = "load"]]
    BY <1>1, <1>7, WorldChanges, JobShape DEF StartWorkflow, Goto
  <2>2. session' = session \/ session'.state \notin FinalStates
    BY <1>7 DEF StartWorkflow, Started, FinalStates
  <2>3. QED
    BY <1>2, <1>3, <2>1, <2>2, JobsOnly
<1>8. ASSUME NEW pc \in {"dag", "finalize"}, Loaded(j, pc),
             pc = "finalize" => \A t \in Tasks : Ended(task[t]),
             UNCHANGED <<stored, lock, run, orphans, world>>
      PROVE  WorkflowInv'
  <2>1. UNCHANGED <<task, keys, cand, run, orphans, session>> /\ SameWorld
    BY <1>1, <1>8, WorldChanges DEF stored
  <2>2. JobHolds(keys, cand, [pc |-> pc, tries |-> job[j].tries, view |-> task,
                              drafts |-> [t \in Tasks |-> cand[t].draft]])
    BY <1>1, <1>2, <1>8, RowsAreHeld DEF Inside
  <2>3. QED
    BY <1>8, <2>1, <2>2, JobsOnly DEF Loaded
<1>9. CASE LoadRuntime(j)
  <2>1. CASE session.state \in FinalStates
    <3>1. UNCHANGED <<task, keys, cand, run, orphans, session>> /\ SameWorld
          /\ job' = [job EXCEPT ![j] = NoJob]
      BY <1>1, <1>9, <2>1, WorldChanges DEF LoadRuntime, Finish, stored
    <3>2. QED
      BY <3>1, JobsOnly
  <2>2. CASE session.state \notin FinalStates
    BY <1>8, <1>9, <2>2 DEF LoadRuntime
  <2>3. QED
    BY <2>1, <2>2
<1>10. CASE Reload(j)
  <2>1. request \in Blueprints
    BY <1>1 DEF RowsHold
  <2>2. \A t \in Tasks : Ended(job[j].view[t])
    BY <1>2, <1>10, <2>1, NothingLeft DEF Reload
  <2>3. \A t \in Tasks : Ended(task[t])
    <3>1. \A t \in Tasks : /\ TaskLogged(keys[t], task[t], cand[t])
                           /\ Recorded(keys[t], job[j].view[t])
                           /\ job[j].view[t] \in Snapshots
      BY <1>1, <1>2 DEF RowsHold, JobHolds
    <3>2. QED
      BY <2>2, <3>1, EndedIsLatest
  <2>4. QED
    BY <1>8, <1>10, <2>3 DEF Reload
<1>11. QED
  BY <1>5, <1>6, <1>7, <1>9, <1>10

\* A step that writes no task.
LEMMA QuietStep ==
  ASSUME WorkflowInv, SameWorld, UNCHANGED <<task, keys, cand, session>>,
         job' = [j \in Jobs |-> job'[j]],
         \A j \in Jobs : job'[j] \in {job[j], NoJob} \/ JobHolds(keys, cand, job'[j]),
         run' = [j \in Jobs |-> [t \in Tasks |-> run'[j][t]]],
         \A j \in Jobs, t \in Tasks :
           \/ run'[j][t] \in {run[j][t], NoRun}
           \/ RunHolds(request, keys[t], cand, t, run'[j][t]),
         orphans' \subseteq orphans
  PROVE  WorkflowInv'
<1>1. RowsHold' /\ Grown
  BY Untouched DEF WorkflowInv
<1>2. WorkHolds'
  BY <1>1, WorkStep DEF SameWorld
<1>3. QED
  BY <1>1, <1>2, SessionStays DEF WorkflowInv

\* The runs a batch begins with.
LEMMA BatchRuns ==
  ASSUME WorkflowInv, NEW j \in Jobs, NEW t \in Batch(request, job[j].view)
  PROVE  RunHolds(request, keys[t], cand, t,
                  [pc      |-> BeginsAt(job[j].view[t]),
                   current |-> job[j].view[t],
                   given   |-> {job[j].drafts[d] : d \in Deps(request, t)},
                   draft   |-> Nothing])
<1>1. /\ t \in Tasks /\ t \in Actionable(job[j].view)
      /\ \A d \in Deps(request, t) : d \in Tasks /\ job[j].view[d].state = "SUCCEEDED"
  BY DEF Batch, Ready, Actionable, Deps
<1>2. \A u \in Tasks : /\ TaskLogged(keys[u], task[u], cand[u])
                       /\ Recorded(keys[u], job[j].view[u])
                       /\ job[j].view[u] \in Snapshots
                       /\ job[j].view[u].state = "SUCCEEDED" =>
                            job[j].drafts[u] = cand[u].draft
  BY JobShape DEF WorkflowInv, RowsHold, JobHolds, JobRecords
<1>3. ~Ended(job[j].view[t]) /\ job[j].view[t].state # "SUCCEEDED"
  BY <1>1 DEF Actionable, Ended
<1>4. \A d \in Deps(request, t) : /\ cand[d].draft \in AllDrafts /\ cand[d].draft # Nothing
                                  /\ job[j].drafts[d] = cand[d].draft
  BY <1>1, <1>2, SucceededHasCandidate
<1>5. PICK r : r = [pc      |-> BeginsAt(job[j].view[t]),
                    current |-> job[j].view[t],
                    given   |-> {job[j].drafts[d] : d \in Deps(request, t)},
                    draft   |-> Nothing]
  OBVIOUS
<1>6. /\ r.pc = IF job[j].view[t].state = "RUNNING" THEN "agent" ELSE "mark"
      /\ r.current = job[j].view[t]
      /\ r.given = {cand[d].draft : d \in Deps(request, t)}
  BY <1>4, <1>5 DEF BeginsAt
<1>7. r \in RunRecords
  <2>1. r.given \subseteq AllDrafts
    BY <1>4, <1>6
  <2>2. r.pc \in {"none", "mark", "agent", "done"}
    BY <1>6
  <2>3. QED
    BY <1>1, <1>2, <1>5, <2>1, <2>2 DEF RunRecords
<1>8. BuiltOn(request, cand, t, r.given)
  BY <1>4, <1>6 DEF BuiltOn
<1>9. RunHolds(request, keys[t], cand, t, r)
  BY <1>1, <1>2, <1>3, <1>6, <1>7, <1>8 DEF RunHolds
<1>10. QED
  BY <1>5, <1>9

LEMMA StartBatchKeeps ==
  ASSUME WorkflowInv, NEW j \in Jobs, StartBatch(j)
  PROVE  WorkflowInv'
<1>1. UNCHANGED <<task, keys, cand, session, orphans>> /\ SameWorld
  BY WorldChanges DEF StartBatch, stored, WorkflowInv
<1>2. job' = [job EXCEPT ![j] = [job[j] EXCEPT !.pc = "gather"]]
  BY JobShape DEF StartBatch, Goto
<1>3. JobHolds(keys, cand, [job[j] EXCEPT !.pc = "gather"])
  <2>1. JobHolds(keys, cand, job[j]) /\ job[j].tries \in 0..QueueAttempts
    BY JobShape DEF JobRecords
  <2>2. QED
    BY <2>1, JobMoves DEF Inside
<1>4. ASSUME NEW i \in Jobs, NEW t \in Tasks
      PROVE  \/ run'[i][t] \in {run[i][t], NoRun}
             \/ RunHolds(request, keys[t], cand, t, run'[i][t])
  <2>1. CASE i = j /\ t \in Batch(request, job[j].view)
    <3>1. run'[i][t] = [pc      |-> BeginsAt(job[j].view[t]),
                        current |-> job[j].view[t],
                        given   |-> {job[j].drafts[d] : d \in Deps(request, t)},
                        draft   |-> Nothing]
      BY <2>1 DEF StartBatch, WorkflowInv, WorkHolds
    <3>2. QED
      BY <2>1, <3>1, BatchRuns
  <2>2. CASE ~(i = j /\ t \in Batch(request, job[j].view))
    BY <2>2 DEF StartBatch, WorkflowInv, WorkHolds
  <2>3. QED
    BY <2>1, <2>2
<1>5. run' = [i \in Jobs |-> [t \in Tasks |-> run'[i][t]]]
  BY DEF StartBatch, WorkflowInv, WorkHolds
<1>6. job' = [i \in Jobs |-> job'[i]]
      /\ \A i \in Jobs : job'[i] \in {job[i], NoJob} \/ JobHolds(keys, cand, job'[i])
  BY <1>2, <1>3 DEF WorkflowInv, WorkHolds
<1>7. QED
  BY <1>1, <1>4, <1>5, <1>6, QuietStep

LEMMA EndBatchKeeps ==
  ASSUME WorkflowInv, NEW j \in Jobs, EndBatch(j)
  PROVE  WorkflowInv'
<1> DEFINE ended == {t \in Tasks : run[j][t].pc = "done"}
           view == [t \in Tasks |-> IF t \in ended THEN run[j][t].current
                                                   ELSE job[j].view[t]]
           drafts == [t \in Tasks |-> IF t \in ended /\ run[j][t].draft # Nothing
                                        THEN run[j][t].draft ELSE job[j].drafts[t]]
<1>1. UNCHANGED <<task, keys, cand, session, orphans>> /\ SameWorld
  BY WorldChanges DEF EndBatch, stored, WorkflowInv
<1>2. PICK x : x = [pc |-> "dag", tries |-> job[j].tries, view |-> view,
                    drafts |-> drafts]
  OBVIOUS
<1>3. job' = [job EXCEPT ![j] = x]
  BY <1>2 DEF EndBatch
<1>4. /\ JobHolds(keys, cand, job[j]) /\ job[j] \in JobRecords
      /\ \A t \in Tasks : /\ TaskLogged(keys[t], task[t], cand[t])
                          /\ RunHolds(request, keys[t], cand, t, run[j][t])
  BY JobShape DEF WorkflowInv, RowsHold, WorkHolds
<1>5. \A t \in Tasks : run[j][t].current \in Snapshots
                       /\ run[j][t].draft \in AllDrafts \union {Nothing}
  BY <1>4 DEF RunHolds, RunRecords
<1>6. x.pc = "dag" /\ x.tries = job[j].tries /\ x.view = view /\ x.drafts = drafts
  BY <1>2
<1>7. x \in JobRecords
  <2>1. view \in [Tasks -> Snapshots]
    BY <1>4, <1>5 DEF JobRecords
  <2>2. drafts \in [Tasks -> AllDrafts \union {Nothing}]
    BY <1>4, <1>5 DEF JobRecords
  <2> HIDE DEF view, drafts
  <2>3. QED
    BY <1>2, <1>4, <2>1, <2>2 DEF JobRecords, Inside
<1>8. ASSUME NEW t \in Tasks
      PROVE  /\ Recorded(keys[t], view[t])
             /\ view[t].state = "SUCCEEDED" => drafts[t] = cand[t].draft
  <2>1. CASE t \in ended
    <3>1. view[t] = run[j][t].current
      BY <2>1
    <3>2. Recorded(keys[t], run[j][t].current)
      BY <1>4 DEF RunHolds
    <3>3. ASSUME run[j][t].current.state = "SUCCEEDED"
          PROVE  run[j][t].draft = cand[t].draft /\ cand[t].draft # Nothing
      BY <1>4, <3>2, <3>3, SucceededHasCandidate DEF RunHolds
    <3>4. QED
      BY <2>1, <3>1, <3>2, <3>3
  <2>2. CASE t \notin ended
    BY <1>4, <2>2 DEF JobHolds
  <2>3. QED
    BY <2>1, <2>2
<1>9. JobHolds(keys, cand, x)
  <2> HIDE DEF view, drafts
  <2>1. QED
    BY <1>6, <1>7, <1>8 DEF JobHolds
<1>10. run' = [i \in Jobs |-> [t \in Tasks |-> run'[i][t]]]
       /\ \A i \in Jobs, t \in Tasks : run'[i][t] \in {run[i][t], NoRun}
  BY DEF EndBatch, WorkflowInv, WorkHolds
<1>11. job' = [i \in Jobs |-> job'[i]]
       /\ \A i \in Jobs : job'[i] = job[i] \/ job'[i] = x
  BY <1>3 DEF WorkflowInv, WorkHolds
<1>12. QED
  BY <1>1, <1>9, <1>10, <1>11, QuietStep

\* Timeouts, crashes and lost connections.
LEMMA LossKeeps ==
  ASSUME WorkflowInv,
         \/ \E j \in Jobs : ExecutionTimesOut(j)
         \/ \E p \in Processes : Crash(p)
         \/ LockLost
  PROVE  WorkflowInv'
<1>1. RowsHold /\ WorkHolds
  BY DEF WorkflowInv
<1>2. ASSUME NEW j \in Jobs, ExecutionTimesOut(j) PROVE WorkflowInv'
  <2>1. UNCHANGED <<task, keys, cand, session, orphans>> /\ SameWorld
    BY <1>1, <1>2, WorldChanges DEF ExecutionTimesOut, stored
  <2>2. PICK x : x = Requeued(j, job[j].tries)
    OBVIOUS
  <2>3. x = NoJob \/ JobHolds(keys, cand, x)
    <3>1. job[j].tries \in Nat /\ job[j].tries <= QueueAttempts
      BY JobShape, WorkflowAssumption DEF JobRecords
    <3>2. QED
      BY <1>1, <2>2, <3>1, RequeuedHolds
  <2>4. job' = [i \in Jobs |-> IF i = j THEN x ELSE job[i]]
    BY <1>1, <1>2, <2>2 DEF ExecutionTimesOut, WorkHolds
  <2>5. run' = [i \in Jobs |-> IF i = j THEN [u \in Tasks |-> NoRun] ELSE run[i]]
    BY <1>1, <1>2 DEF ExecutionTimesOut, WorkHolds
  <2>6. run' = [i \in Jobs |-> [u \in Tasks |-> run'[i][u]]]
    BY <1>1, <2>5 DEF WorkHolds
  <2>7. QED
    BY <2>1, <2>3, <2>4, <2>5, <2>6, QuietStep
<1>3. ASSUME NEW p \in Processes, Crash(p) PROVE WorkflowInv'
  <2>1. UNCHANGED <<task, keys, cand, session>> /\ SameWorld /\ orphans' \subseteq orphans
    BY <1>1, <1>3, WorldChanges DEF Crash, stored
  <2>2. /\ job' = [i \in Jobs |-> IF i[1] = p THEN NoJob ELSE job[i]]
        /\ run' = [i \in Jobs |-> IF i[1] = p THEN [u \in Tasks |-> NoRun] ELSE run[i]]
    BY <1>3 DEF Crash
  <2>3. run' = [i \in Jobs |-> [u \in Tasks |-> run'[i][u]]]
    BY <1>1, <2>2 DEF WorkHolds
  <2>4. QED
    BY <2>1, <2>2, <2>3, QuietStep
<1>4. CASE LockLost
  <2>1. UNCHANGED <<task, keys, cand, session, orphans, job, run>> /\ SameWorld
    BY <1>1, <1>4, WorldChanges DEF LockLost, stored
  <2>2. QED
    BY <1>1, <2>1, QuietStep DEF WorkHolds
<1>5. QED
  BY <1>2, <1>3, <1>4

-----------------------------------------------------------------------------
\* Steps that write a task

\* A run asks for nothing that its snapshot forbids.
LEMMA RunIsLegal ==
  ASSUME RowsHold, NEW t \in Tasks, NEW r, RunHolds(request, keys[t], cand, t, r),
         NEW move \in Moves(t, r)
  PROVE  Legal(t, r.current, move[1], move[2], r.given)
<1>1. r \in RunRecords /\ Recorded(keys[t], r.current) /\ r.current \in Snapshots
  BY DEF RunHolds, RunRecords
<1>2. request[t] \in Agents
  BY DEF RowsHold, Blueprints
<1>3. /\ \A c \in Drafts[request[t]] : c \in AllDrafts
      /\ \A c \in Failures[request[t]] : c \in AllFailures
  BY <1>2 DEF AllDrafts, AllFailures
<1>4. CASE r.pc = "mark"
  <2>1. move = <<"start", Nothing>>
    BY <1>4 DEF Moves
  <2>2. ~Ended(r.current) /\ r.current.state # "RUNNING"
    BY <1>4 DEF RunHolds
  <2>3. QED
    BY <1>1, <2>1, <2>2, TargetStates DEF Legal
<1>5. CASE r.pc = "agent"
  <2>1. r.current.state = "RUNNING" /\ BuiltOn(request, cand, t, r.given)
    BY <1>5 DEF RunHolds, Live
  <2>2. ~Ended(r.current)
    BY <2>1 DEF Ended
  <2>3. \/ move[1] = "complete" /\ move[2] \in AllDrafts
        \/ move[1] = "fail" /\ move[2] \in AllFailures
    BY <1>3, <1>5 DEF Moves
  <2>4. QED
    BY <1>1, <2>1, <2>2, <2>3, TargetStates DEF Legal
<1>6. QED
  BY <1>1, <1>4, <1>5 DEF Moves, RunRecords

\* A transaction of a run keeps the rows, and the run that goes on.
LEMMA RunMoves ==
  ASSUME RowsHold, SameWorld, NEW t \in Tasks, NEW r,
         RunHolds(request, keys[t], cand, t, r), NEW move \in Moves(t, r),
         Persist(t, r.current, move[1], move[2], r.given)
  PROVE  /\ RowsHold' /\ Grown
         /\ Accepted(t, r.current, move[1], move[2]) =>
              RunHolds(request', keys'[t], cand', t, After(t, r, move))
<1>1. Legal(t, r.current, move[1], move[2], r.given)
  BY RunIsLegal
<1>2. RowsHold' /\ Grown
  BY <1>1, PersistKeeps
<1>3. ASSUME Accepted(t, r.current, move[1], move[2])
      PROVE  RunHolds(request', keys'[t], cand', t, After(t, r, move))
  <2>1. PICK next : next = Returned(t, r.current, move[1], move[2])
    OBVIOUS
  <2>2. /\ Recorded(keys'[t], next) /\ next \in Snapshots
        /\ move[1] = "complete" => cand'[t].draft = move[2]
    BY <1>1, <1>3, <2>1, PersistKeeps
  <2>3. next.state = Target[move[1]] /\ move[1] \in Transitions
    BY <1>1, <2>1 DEF Returned, NextSnapshot, Legal
  <2>4. next.state = "SUCCEEDED" <=> move[1] = "complete"
    BY <2>3, TargetStates
  <2>5. PICK q : q = After(t, r, move)
    OBVIOUS
  <2>6. /\ q = [pc |-> Onward(next), current |-> next, given |-> r.given,
                draft |-> IF move[1] = "complete" THEN move[2] ELSE r.draft]
        /\ q.pc = Onward(next) /\ q.current = next /\ q.given = r.given
        /\ move[1] = "complete" => q.draft = move[2]
    BY <2>1, <2>5 DEF After
  <2>7. q \in RunRecords
    <3>1. r.given \in SUBSET AllDrafts /\ r.draft \in AllDrafts \union {Nothing}
      BY DEF RunHolds, RunRecords
    <3>2. move[1] = "complete" => move[2] \in AllDrafts
      BY <1>1 DEF Legal
    <3>3. Onward(next) \in {"none", "mark", "agent", "done"}
      BY DEF Onward
    <3>4. (IF move[1] = "complete" THEN move[2] ELSE r.draft) \in AllDrafts \union {Nothing}
      BY <3>1, <3>2
    <3>5. QED
      BY <2>2, <2>6, <3>1, <3>3, <3>4 DEF RunRecords
  <2>8. /\ q.pc = "mark" => ~Ended(next) /\ next.state # "RUNNING"
        /\ q.pc = "agent" => next.state = "RUNNING"
    BY <2>6 DEF Onward, Ended
  <2>9. BuiltOn(request', cand', t, r.given)
    <3>1. Live(r)
      BY DEF Moves, Live
    <3>2. BuiltOn(request, cand, t, r.given)
      BY <3>1 DEF RunHolds
    <3>3. QED
      BY <1>2, <3>2, GrownBuilt DEF SameWorld
  <2>10. RunHolds(request', keys'[t], cand', t, q)
    BY <2>2, <2>4, <2>6, <2>7, <2>8, <2>9 DEF RunHolds
  <2>11. QED
    BY <2>5, <2>10
<1>4. QED
  BY <1>2, <1>3

LEMMA RunTaskKeeps ==
  ASSUME WorkflowInv, NEW j \in Jobs, NEW t \in Tasks, RunTask(j, t)
  PROVE  WorkflowInv'
<1>1. RowsHold /\ WorkHolds
  BY DEF WorkflowInv
<1>2. PICK r : r = run[j][t]
  OBVIOUS
<1>3. RunHolds(request, keys[t], cand, t, r)
  BY <1>1, <1>2 DEF WorkHolds
<1>4. PICK move \in Moves(t, r) :
        /\ Persist(t, r.current, move[1], move[2], r.given)
        /\ IF Accepted(t, r.current, move[1], move[2])
           THEN /\ run' = [run EXCEPT ![j][t] = After(t, r, move)]
                /\ orphans' = StillOrphans(orphans)
                /\ UNCHANGED <<lock, job>>
           ELSE Fail(j, t)
        /\ UNCHANGED <<session, event, up, world>>
  BY <1>2 DEF RunTask
<1>5. SameWorld
  BY <1>1, <1>4, WorldChanges
<1>6. /\ RowsHold' /\ Grown
      /\ Accepted(t, r.current, move[1], move[2]) =>
           RunHolds(request', keys'[t], cand', t, After(t, r, move))
  BY <1>1, <1>3, <1>4, <1>5, RunMoves
<1>7. SessionHolds'
  BY <1>4, <1>6, SessionStays
<1>8. WorkHolds'
  <2>1. CASE Accepted(t, r.current, move[1], move[2])
    <3>1. PICK q : q = After(t, r, move)
      OBVIOUS
    <3>2. run' = [run EXCEPT ![j][t] = q] /\ job' = job
          /\ orphans' = StillOrphans(orphans)
      BY <1>4, <2>1, <3>1
    <3>3. run' = [i \in Jobs |-> [u \in Tasks |->
                    IF i = j /\ u = t THEN q ELSE run[i][u]]]
      BY <1>1, <3>2 DEF WorkHolds
    <3>4. RunHolds(request', keys'[t], cand', t, q)
      BY <1>6, <2>1, <3>1
    <3>5. orphans' \subseteq orphans
      BY <3>2 DEF StillOrphans
    <3>6. job' = [i \in Jobs |-> job'[i]]
      BY <1>1, <3>2 DEF WorkHolds
    <3>7. run' = [i \in Jobs |-> [u \in Tasks |-> run'[i][u]]]
      BY <3>3
    <3>8. \A i \in Jobs, u \in Tasks :
            \/ run'[i][u] \in {run[i][u], NoRun}
            \/ RunHolds(request', keys'[u], cand', u, run'[i][u])
      BY <3>3, <3>4
    <3>9. QED
      BY <1>5, <1>6, <3>2, <3>5, <3>6, <3>7, <3>8, WorkStep
  <2>2. CASE ~Accepted(t, r.current, move[1], move[2])
    BY <1>4, <1>5, <1>6, <2>2, FailHolds
  <2>3. QED
    BY <2>1, <2>2
<1>9. QED
  BY <1>6, <1>7, <1>8 DEF WorkflowInv

LEMMA RunOrphanKeeps ==
  ASSUME WorkflowInv, NEW o \in orphans, RunOrphan(o)
  PROVE  WorkflowInv'
<1>1. RowsHold /\ WorkHolds
  BY DEF WorkflowInv
<1>2. /\ o \in [process : Processes, task : Tasks, run : RunRecords]
      /\ o.task \in Tasks /\ RunHolds(request, keys[o.task], cand, o.task, o.run)
  BY <1>1 DEF WorkHolds
<1>3. PICK t \in Tasks, r \in RunRecords : t = o.task /\ r = o.run
  BY <1>2
<1>4. PICK move \in Moves(t, r) :
        /\ Persist(t, r.current, move[1], move[2], r.given)
        /\ LET next == After(t, r, move)
           IN orphans' = StillOrphans((orphans \ {o}) \cup
                IF Accepted(t, r.current, move[1], move[2]) /\ Live(next)
                THEN {[o EXCEPT !.run = next]} ELSE {})
        /\ UNCHANGED <<session, event, lock, job, run, up, world>>
  BY <1>3 DEF RunOrphan
<1>5. SameWorld
  BY <1>1, <1>4, WorldChanges
<1>6. /\ RowsHold' /\ Grown
      /\ Accepted(t, r.current, move[1], move[2]) =>
           RunHolds(request', keys'[t], cand', t, After(t, r, move))
  BY <1>1, <1>2, <1>3, <1>4, <1>5, RunMoves
<1>7. PICK next : next = After(t, r, move)
  OBVIOUS
<1>8. ASSUME NEW x \in orphans', x \notin orphans
      PROVE  /\ x \in [process : Processes, task : Tasks, run : RunRecords]
             /\ Live(x.run) /\ RunHolds(request', keys'[x.task], cand', x.task, x.run)
  <2>1. /\ x = [o EXCEPT !.run = next] /\ Live(next)
        /\ Accepted(t, r.current, move[1], move[2])
    BY <1>4, <1>7, <1>8 DEF StillOrphans
  <2>2. RunHolds(request', keys'[t], cand', t, next) /\ next \in RunRecords
    BY <1>6, <1>7, <2>1 DEF RunHolds
  <2>3. /\ x \in [process : Processes, task : Tasks, run : RunRecords]
        /\ x.task = t /\ x.run = next
    BY <1>2, <1>3, <2>1, <2>2
  <2>4. QED
    BY <2>1, <2>2, <2>3
<1>9. job' = job /\ run' = run
      /\ job' = [i \in Jobs |-> job'[i]] /\ run' = [i \in Jobs |-> [u \in Tasks |-> run'[i][u]]]
  BY <1>1, <1>4 DEF WorkHolds
<1>10. WorkHolds'
  BY <1>5, <1>6, <1>8, <1>9, WorkStep
<1>11. SessionHolds'
  BY <1>4, <1>6, SessionStays
<1>12. QED
  BY <1>6, <1>10, <1>11 DEF WorkflowInv

\* A transaction of a run that fails, or whose answer is lost, and one of the
\* execution.
LEMMA BreakKeeps ==
  ASSUME WorkflowInv, NEW j \in Jobs,
         (\E t \in Tasks : RunBreaks(j, t)) \/ ExecutionBreaks(j)
  PROVE  WorkflowInv'
<1>1. RowsHold /\ WorkHolds
  BY DEF WorkflowInv
<1>2. ASSUME NEW t \in Tasks, RunBreaks(j, t) PROVE WorkflowInv'
  <2>1. SameWorld /\ session' = session /\ Fail(j, t)
    BY <1>1, <1>2, WorldChanges DEF RunBreaks
  <2>2. RowsHold' /\ Grown
    <3>1. CASE UNCHANGED <<task, keys, cand>>
      BY <1>1, <2>1, <3>1, Untouched
    <3>2. ASSUME NEW move \in Moves(t, run[j][t]),
                 Persist(t, run[j][t].current, move[1], move[2], run[j][t].given)
          PROVE  RowsHold' /\ Grown
      BY <1>1, <2>1, <3>2, RunMoves DEF WorkHolds
    <3>3. QED
      BY <1>2, <3>1, <3>2 DEF RunBreaks
  <2>3. QED
    BY <2>1, <2>2, FailHolds, SessionStays DEF WorkflowInv
<1>3. CASE ExecutionBreaks(j)
  <2>1. SameWorld /\ UNCHANGED <<task, keys, cand, session>> /\ Fail(j, 0)
    BY <1>1, <1>3, WorldChanges DEF ExecutionBreaks, stored
  <2>2. RowsHold' /\ Grown
    BY <1>1, <2>1, Untouched
  <2>3. QED
    BY <2>1, <2>2, FailHolds, SessionStays DEF WorkflowInv
<1>4. QED
  BY <1>2, <1>3

\* The execution skips what depends on a failed task.
LEMMA SkipKeeps ==
  ASSUME WorkflowInv, NEW j \in Jobs, NEW t \in Tasks, SkipTask(j, t)
  PROVE  WorkflowInv'
<1>1. RowsHold /\ WorkHolds
  BY DEF WorkflowInv
<1>2. JobHolds(keys, cand, job[j]) /\ job[j] \in JobRecords /\ job[j].pc = "dag"
  BY JobShape DEF SkipTask, At
<1>3. PICK s : s = job[j].view[t]
  OBVIOUS
<1>4. /\ Persist(t, s, "skip", Nothing, {})
      /\ IF Accepted(t, s, "skip", Nothing)
         THEN /\ job' = [job EXCEPT ![j].view[t] = Returned(t, s, "skip", Nothing)]
              /\ UNCHANGED <<lock, run, orphans>>
         ELSE Fail(j, 0)
      /\ UNCHANGED <<session, event, up, world>>
  BY <1>3 DEF SkipTask
<1>5. SameWorld
  BY <1>1, <1>4, WorldChanges
<1>6. Legal(t, s, "skip", Nothing, {})
  <2>1. s \in Snapshots /\ Recorded(keys[t], s)
    BY <1>2, <1>3 DEF JobHolds, JobRecords
  <2>2. ~Ended(s)
    BY <1>3 DEF SkipTask, Blocked, Actionable, Ended
  <2>3. QED
    BY <2>1, <2>2, TargetStates DEF Legal
<1>7. PICK next : next = Returned(t, s, "skip", Nothing)
  OBVIOUS
<1>8. /\ RowsHold' /\ Grown
      /\ Accepted(t, s, "skip", Nothing) => Recorded(keys'[t], next) /\ next \in Snapshots
  BY <1>1, <1>4, <1>5, <1>6, <1>7, PersistKeeps
<1>9. WorkHolds'
  <2>1. CASE Accepted(t, s, "skip", Nothing)
    <3>1. PICK x : x = [job[j] EXCEPT !.view = [job[j].view EXCEPT ![t] = next]]
      OBVIOUS
    <3>2. x \in JobRecords /\ x.pc = "dag" /\ x.drafts = job[j].drafts
          /\ x.view = [job[j].view EXCEPT ![t] = next]
      BY <1>2, <1>8, <2>1, <3>1 DEF JobRecords
    <3>3. job' = [i \in Jobs |-> IF i = j THEN x ELSE job[i]]
      BY <1>1, <1>4, <1>7, <2>1, <3>1 DEF WorkHolds
    <3>4. next.state # "SUCCEEDED"
      BY <1>7, TargetStates DEF Returned, NextSnapshot
    <3>5. JobHolds(keys', cand', job[j])
      BY <1>1, <1>2, <1>5, <1>8, HeldStays
    <3>6. job[j].view \in [Tasks -> Snapshots]
      BY <1>2 DEF JobRecords
    <3>7. JobHolds(keys', cand', x)
      BY <1>8, <2>1, <3>2, <3>4, <3>5, <3>6 DEF JobHolds
    <3>8. UNCHANGED <<run, orphans>>
      BY <1>4, <2>1
    <3>9. run' = [i \in Jobs |-> [u \in Tasks |-> run'[i][u]]]
          /\ job' = [i \in Jobs |-> job'[i]]
      BY <1>1, <3>3, <3>8 DEF WorkHolds
    <3>10. QED
      BY <1>5, <1>8, <3>3, <3>7, <3>8, <3>9, WorkStep
  <2>2. CASE ~Accepted(t, s, "skip", Nothing)
    BY <1>4, <1>5, <1>8, <2>2, FailHolds
  <2>3. QED
    BY <2>1, <2>2
<1>10. QED
  BY <1>4, <1>8, <1>9, SessionStays DEF WorkflowInv

\* The result is written once, from a view in which every task has ended.
LEMMA FinalizeKeeps ==
  ASSUME WorkflowInv, NEW j \in Jobs, FinalizeWorkflow(j)
  PROVE  WorkflowInv'
<1>1. RowsHold /\ WorkHolds
  BY DEF WorkflowInv
<1>2. UNCHANGED <<task, keys, cand>> /\ SameWorld
  BY <1>1, WorldChanges DEF FinalizeWorkflow
<1>3. RowsHold' /\ Grown
  BY <1>1, <1>2, Untouched
<1>4. CASE MayFinalize(j)
  <2>1. /\ session' = IF session.state \in FinalStates THEN session
                      ELSE [state  |-> FinalState(Result(j).states),
                            result |-> Result(j)]
        /\ Finish(j)
    BY <1>4 DEF FinalizeWorkflow
  <2>2. WorkHolds'
    <3>1. job' = [i \in Jobs |-> IF i = j THEN NoJob ELSE job[i]]
          /\ UNCHANGED <<run, orphans>>
      BY <1>1, <2>1 DEF Finish, WorkHolds
    <3>2. run' = [i \in Jobs |-> [u \in Tasks |-> run'[i][u]]]
      BY <1>1, <3>1 DEF WorkHolds
    <3>3. QED
      BY <1>2, <1>3, <3>1, <3>2, WorkStep
  <2>3. SessionHolds'
    <3>1. CASE session.state \in FinalStates
      BY <1>3, <2>1, <3>1, SessionStays
    <3>2. CASE session.state \notin FinalStates
      <4>1. session'.result = Result(j)
        BY <2>1, <3>2
      <4>2. ASSUME NEW t \in Tasks
            PROVE  /\ Ended(task[t]) /\ job[j].view[t].state = task[t].state
                   /\ job[j].drafts[t] = cand[t].draft
        <5>1. /\ TaskLogged(keys[t], task[t], cand[t])
              /\ Recorded(keys[t], job[j].view[t]) /\ job[j].view[t] \in Snapshots
              /\ Ended(job[j].view[t]) /\ job[j].drafts[t] = cand[t].draft
          BY <1>1, JobShape DEF RowsHold, JobHolds, JobRecords, FinalizeWorkflow, At
        <5>2. QED
          BY <5>1, EndedIsLatest
      <4>3. \A t \in Tasks : /\ session'.result.states[t] = job[j].view[t].state
                             /\ session'.result.drafts[t] = job[j].drafts[t]
        BY <4>1 DEF Result
      <4>4. QED
        BY <1>2, <4>2, <4>3 DEF SessionHolds
    <3>3. QED
      BY <3>1, <3>2
  <2>4. QED
    BY <1>3, <2>2, <2>3 DEF WorkflowInv
<1>5. CASE ~MayFinalize(j)
  <2>1. Fail(j, 0) /\ session' = session
    BY <1>5 DEF FinalizeWorkflow
  <2>2. QED
    BY <1>2, <1>3, <2>1, FailHolds, SessionStays DEF WorkflowInv
<1>6. QED
  BY <1>4, <1>5

-----------------------------------------------------------------------------
\* The invariant

LEMMA WorkflowStarts ==
  ASSUME Init
  PROVE  WorkflowInv
<1>1. /\ keys = [t \in Tasks |-> <<>>] /\ task = [t \in Tasks |-> Pending]
      /\ cand = [t \in Tasks |-> NoCandidate]
  BY DEF Init
<1>2. /\ \A log \in Seq(KeyRows) : \A q, c, t : RunHolds(q, log, c, t, NoRun)
      /\ <<>> \in Seq(KeyRows) /\ Len(<<>>) = 0
  BY Blank
<1>3. TaskLogged(<<>>, Pending, NoCandidate)
  <2>1. Recorded(<<>>, Pending) /\ Pending \in Snapshots
    BY <1>2 DEF RunHolds, RunRecords, NoRun
  <2>2. QED
    BY <1>2, <2>1 DEF TaskLogged, Pending
<1>4. request \in Blueprints
      /\ DOMAIN world = {"processes", "request", "posts", "kinds", "left"}
  BY WorkflowAssumption DEF Init, request
<1>5. RowsHold
  BY <1>1, <1>3, <1>4 DEF RowsHold, CandidateRows, NoCandidate
<1>6. JobHolds(keys, cand, NoJob)
  BY <1>1, <1>2, Blank
<1>7. WorkHolds
  BY <1>1, <1>2, <1>6 DEF WorkHolds, Init
<1>8. SessionHolds
  BY DEF SessionHolds, Init, FinalStates
<1>9. QED
  BY <1>5, <1>7, <1>8 DEF WorkflowInv

LEMMA WorkflowStays ==
  ASSUME WorkflowInv, [Next]_vars
  PROVE  WorkflowInv'
<1>1. CASE CreateWorkflow
  BY <1>1, EntryKeeps
<1>2. ASSUME NEW p \in Processes, Accept(p) \/ Reconcile(p) \/ PostExecute(p) \/ Restart(p)
      PROVE  WorkflowInv'
  BY <1>2, EntryKeeps
<1>3. ASSUME NEW j \in Jobs, JobStep(j) PROVE WorkflowInv'
  BY <1>3, PhaseKeeps, SkipKeeps, StartBatchKeeps, EndBatchKeeps, FinalizeKeeps,
     RunTaskKeeps DEF JobStep
<1>4. ASSUME NEW o \in orphans, RunOrphan(o) PROVE WorkflowInv'
  BY <1>4, RunOrphanKeeps
<1>5. CASE Failure
  BY <1>5, EntryKeeps, PhaseKeeps, BreakKeeps, LossKeeps DEF Failure
<1>6. CASE UNCHANGED vars
  BY <1>6 DEF vars, WorkflowInv, RowsHold, WorkHolds, SessionHolds, request
<1>7. QED
  BY <1>1, <1>2, <1>3, <1>4, <1>5, <1>6 DEF Next

-----------------------------------------------------------------------------
\* Theorems

\* What the tasks, the executions and the orphaned runs of a workflow hold is
\* what its idempotency keys recorded, in every process.
THEOREM WorkflowInvariant == Spec => []WorkflowInv
BY WorkflowStarts, WorkflowStays, PTL DEF Spec

\* The result that finalize_workflow recorded stays true: no late run, replayed
\* transition or second execution changes a task or candidate behind it.
THEOREM FinalResultHolds == Spec => []FinalResultStands
<1>1. WorkflowInv => FinalResultStands
  BY DEF WorkflowInv, SessionHolds, FinalResultStands
<1>2. QED
  BY <1>1, WorkflowInvariant, PTL

\* Every candidate was generated from the persisted candidates of the tasks it
\* depends on, although agents are called more than once for one task.
THEOREM CandidatesAreGrounded == Spec => []GroundedOnPersisted
<1>1. WorkflowInv => GroundedOnPersisted
  BY DEF WorkflowInv, RowsHold, BuiltOn, GroundedOnPersisted
<1>2. QED
  BY <1>1, WorkflowInvariant, PTL
=============================================================================
