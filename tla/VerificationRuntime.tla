------------------------- MODULE VerificationRuntime -------------------------
(***************************************************************************)
(* Topic 4: verification and release of generated candidates.  API         *)
(* processes consume the topic3.workflow.finalized event, accept           *)
(* verifications, execute them from an in-memory task queue                *)
(* (domains/verification/runtime.py over VerificationService), take human  *)
(* decisions, revise candidates (domains/revision) and publish released    *)
(* ones (domains/release).                                                 *)
(*                                                                         *)
(* Every mutation is one SERIALIZABLE transaction that holds the tenant's  *)
(* advisory lock and commits its idempotency record, state change and      *)
(* results together: one step.  Between the transactions of an execution   *)
(* other executors, in this process or another, may run.  What PostgreSQL  *)
(* holds survives a crash; queues and executions do not.                   *)
(***************************************************************************)
EXTENDS Naturals, Sequences, FiniteSets, VerificationStore

CONSTANTS Instances,      \* API processes
          CandidateCount, \* COMPLETE candidates of the finalized workflow
          MaxVersion,     \* candidate versions looked at (C8 makes at most 3)
          OwnIds,         \* verification ids clients bring, per version
          Requested,      \* verifications clients may accept and execute
          Auths,          \* release authorization ids (idempotency keys)
          Library,        \* contents a candidate may have, by name
          Offered,        \* the ones the agents and the revisers write
          Snapshot,       \* the Topic 1 snapshot of the knowledge base
          RetrievalChoices, FateChoices, \* what may happen to a module
          MaxOutages,     \* modules of a claim that do not answer
          MaxDeliveries,  \* max_attempts of the event's outbox row
          QueueBound,     \* queued tasks per verification and process
          FaultKinds, FaultBudget

ASSUME RuntimeAssumption ==
  /\ CandidateCount \in Nat \ {0}
  /\ MaxVersion \in 1..3
  /\ Offered \subseteq DOMAIN Library
  /\ \A k \in DOMAIN Library : \A b \in DOMAIN Library[k] :
       /\ Library[k][b].type \in BlockTypes /\ Library[k][b].string \in Nat
       /\ ClaimKind(Library[k][b]) \in {"TEXT", "FORMULA"} =>
            Derivation(Library[k][b].says.formulas)
  /\ RetrievalChoices \subseteq Retrievals
  /\ FateChoices \subseteq Fates /\ "answers" \in FateChoices
  /\ MaxOutages \in Nat
  /\ MaxDeliveries \in Nat \ {0} /\ QueueBound \in Nat \ {0}
  /\ FaultKinds \subseteq {"crash", "db", "timeout", "queue", "deadline",
                       "module", "ttl"}
  /\ FaultBudget \in Nat
  /\ NoAnswer \notin Instances

Candidates == 1..CandidateCount

Contents == [k \in Offered |-> Library[k]]

Claims == UNION {DOMAIN Contents[k] : k \in Offered}

Versions == Candidates \X (1..MaxVersion)

\* One version may have several verifications: the event derives an id from the
\* candidate and its version, a revision from the verification it answers (and
\* a version is made by one revision), and a client may bring an id of its own.
Vids ==
  {v \in Candidates \X (1..MaxVersion) \X ({"initial", "child"} \union OwnIds) :
     v[3] = "child" => v[2] > 1}

VARIABLES
  cand,     \* the contents of the versions of each candidate
  ver,      \* latest state row of each verification, or NONE
  result,   \* risks, module execution, decision and review task of each
  keys,     \* completed idempotency records of each verification
  late,     \* the deadlines of verifications and review tasks that passed
  queue,    \* AsyncTaskQueue of each process
  exec,     \* Topic4Runtime.execute of each process and verification
  event,    \* delivery of topic3.workflow.finalized
  auth,     \* release authorizations and their consumption
  faults

execution == <<queue, exec>>
stored == <<cand, ver, result, keys, late>>
vars == <<cand, ver, result, keys, late, queue, exec, event, auth,
          faults>>

\* The digest of an automatic acceptance contains the current time, that of
\* an API request is the client's; the other operations digest the expected
\* state version (0: no record).
NoKeys == [auto |-> 0, api |-> 0, prepare |-> 0, verify |-> 0, finalize |-> 0]

Steps == {"idle", "start", "prepare", "prepared", "verify", "verified",
          "inputs", "modules", "reread", "finalize"}

\* seen: the state version read last; tries: attempts of the queue task.
NotRunning == [at |-> "idle", seen |-> 0, tries |-> 0]

NoAuth == [at |-> "none", v |-> <<1, 1, "initial">>, mode |-> "FULL",
           late |-> FALSE, asked |-> FALSE]

NameOf(v) == cand[v[1]][v[2]]

ContentOf(v) == Contents[NameOf(v)]

\* The C6 result C11 asks for, with the code artifact only a handler that came
\* to a verdict has written.
CodePersisted(v, c) ==
  /\ result[v].bundle # NoAnswer
  /\ ClaimKind(ContentOf(v)[c]) = "CODE"
  /\ result[v].bundle[c]["C6"] \notin {"MISSING", "ERROR"}

\* score_all; the runtime asks for the STRICT profile.
Risks == [k \in Offered |-> RiskOf(Contents[k], "STRICT")]

\* What may happen to the modules of a claim of that kind.
PlanFates(kind, outages) ==
  {f \in [MandatoryModules(kind) -> FateChoices] :
     Cardinality({m \in DOMAIN f : f[m] # "answers"}) <= outages}

\* What they may come to.  The results of a run are persisted together, after
\* the last of them: while C11 looks for the C6 result of its claim there is
\* none, and so no package either.
ResultsOf(content, c, outages) ==
  LET kind == ClaimKind(content[c])
  IN  {ItemResults(f, [m \in MandatoryModules(kind) |->
                         ModuleVerdict(m, content, c, retrieval, Snapshot,
                                       FALSE, {})]) :
         f \in PlanFates(kind, outages), retrieval \in RetrievalChoices}

\* The bundles BoundedModuleExecutor.execute may return for each content.
Bundles ==
  [k \in Offered |-> [outages \in 0..MaxOutages |->
     LET claims == ClaimsOf(Contents[k])
         per == [c \in claims |-> ResultsOf(Contents[k], c, outages)]
     IN  {b \in [claims -> UNION {per[c] : c \in claims}] :
            \A c \in claims : b[c] \in per[c]}]]

ASSUME NoBundleAssumption ==
  \A k \in Offered, outages \in 0..MaxOutages : NoAnswer \notin Bundles[k][outages]

\* get_verification finds it.
Exists(v) == ver[v].state # "NONE"

Deliveries ==
  [at: {"pending", "running", "done", "dead"}, on: Instances \union {NoAnswer},
   todo: SUBSET Versions, deliveries: 0..MaxDeliveries]

TypeOK ==
  /\ \A c \in Candidates : cand[c] \in Seq(Offered) /\ Len(cand[c]) <= MaxVersion
  /\ ver \in [Vids -> StateRows]
  /\ \A v \in Vids :
       IF Exists(v)
         THEN /\ result[v].risk \in RiskRows(ClaimsOf(ContentOf(v)))
              /\ result[v].bundle \in ModuleRows(Bundles[NameOf(v)][MaxOutages])
              /\ result[v].decision \in ReportRows
              /\ result[v].task \in ReviewRows
              /\ result[v].packages \subseteq ClaimsOf(ContentOf(v))
         ELSE result[v] = NoResult
  /\ keys \in [Vids -> [auto: 0..1, api: 0..1, prepare: Nat, verify: Nat,
                        finalize: Nat]]
  /\ late \subseteq Vids \X {"verification", "review"}
  /\ queue \in [Instances -> [Vids -> 0..QueueBound]]
  /\ exec \in [Instances -> [Vids -> [at: Steps, seen: Nat, tries: 0..2]]]
  /\ event \in Deliveries
  /\ auth \in [Auths -> [at: AuthorizationRows \union {"none", "derived"},
                         v: Vids, mode: Modes,
                         late: BOOLEAN, asked: BOOLEAN]]
  /\ faults \in 0..FaultBudget

Init ==
  /\ cand \in [Candidates -> {<<k>> : k \in Offered}]
  /\ ver = [v \in Vids |-> Absent]
  /\ result = [v \in Vids |-> NoResult]
  /\ keys = [v \in Vids |-> NoKeys]
  /\ late = {}
  /\ queue = [i \in Instances |-> [v \in Vids |-> 0]]
  /\ exec = [i \in Instances |-> [v \in Vids |-> NotRunning]]
  /\ event = [at |-> "pending", on |-> NoAnswer, todo |-> {}, deliveries |-> 0]
  /\ auth = [a \in Auths |-> NoAuth]
  /\ faults = 0

-----------------------------------------------------------------------------
\* Helpers

Fault(kind) ==
  /\ kind \in FaultKinds
  /\ faults < FaultBudget
  /\ faults' = faults + 1

At(i, v) == exec[i][v].at

Goto(i, v, place, seen) ==
  exec' = [exec EXCEPT ![i][v] = [at |-> place, seen |-> seen,
                                  tries |-> exec[i][v].tries]]

Stop(i, v) == exec' = [exec EXCEPT ![i][v] = NotRunning]

\* AsyncTaskQueue.enqueue; past the bound the task is not told apart from
\* the ones that wait already.
Enqueued(i, v) ==
  [queue EXCEPT ![i][v] = IF @ < QueueBound THEN @ + 1 ELSE @]

Late(v, what) == <<v, what>> \in late

Critical(risk) == \E c \in DOMAIN risk : risk[c] = "CRITICAL"

-----------------------------------------------------------------------------
\* Acceptance

\* accept_verification needs the candidate and refuses a second acceptance.
Acceptable(v) == ~Exists(v) /\ Len(cand[v[1]]) >= v[2]

\* Its transaction under idempotency key k, when the key is new.
Accept(v, k) ==
  /\ ver' = AppendVerification(ver, v)
  /\ keys' = [keys EXCEPT ![v] = IF k = "auto" THEN [@ EXCEPT !.auto = 1]
                                               ELSE [@ EXCEPT !.api = 1]]

\* POST /verifications.  A repeated request finds its completed record and
\* is queued again; another request for the same verification is refused.
ApiAccept(i, v) ==
  /\ v \in Requested
  /\ \/ keys[v].api = 0 /\ Acceptable(v) /\ Accept(v, "api")
     \/ keys[v].api = 1 /\ UNCHANGED <<ver, keys>>
  /\ queue' = Enqueued(i, v)
  /\ UNCHANGED <<cand, result, late, exec, event, auth, faults>>

\* POST /verifications/{id}/execute only queues.
ApiExecute(i, v) ==
  /\ v \in Requested
  /\ queue' = Enqueued(i, v)
  /\ UNCHANGED <<stored, exec, event, auth, faults>>

\* The outbox hands the finalized event to a process, which lists the versions
\* of the candidates: on a late or second delivery revised ones too.
DeliverFinalized(i) ==
  /\ event.at = "pending" /\ event.deliveries < MaxDeliveries
  /\ event' = [at |-> "running", on |-> i,
               todo |-> {x \in Versions : x[2] <= Len(cand[x[1]])},
               deliveries |-> event.deliveries + 1]
  /\ UNCHANGED <<stored, execution, auth, faults>>

DeliveryFailed ==
  event' = [at |-> IF event.deliveries < MaxDeliveries THEN "pending" ELSE "dead",
            on |-> NoAnswer, todo |-> {}, deliveries |-> event.deliveries]

\* One version of _consume, an older one of its candidate first: a first
\* acceptance is queued; the key of an earlier automatic acceptance never
\* matches the digest of this one, and its MESSAGE_DUPLICATE_CONFLICT ends the
\* delivery; a verification that came through the API raises TOPIC4_CONFLICT,
\* which is swallowed.  A database error may leave the acceptance committed and
\* not queued.
ConsumeCandidate(i) ==
  \E x \in event.todo :
  LET v == <<x[1], x[2], "initial">>
      onward == event' = [event EXCEPT !.todo = @ \ {x}]
  IN  /\ event.at = "running" /\ event.on = i
      /\ \A y \in event.todo : y[1] = x[1] => x[2] <= y[2]
      /\ \/ /\ keys[v].auto = 0 /\ Acceptable(v)
            /\ Accept(v, "auto")
            /\ queue' = Enqueued(i, v)
            /\ onward
            /\ UNCHANGED faults
         \/ /\ keys[v].auto = 0 /\ Exists(v)
            /\ onward
            /\ UNCHANGED <<ver, keys, queue, faults>>
         \/ /\ keys[v].auto = 1
            /\ DeliveryFailed
            /\ UNCHANGED <<ver, keys, queue, faults>>
         \/ /\ Fault("db")
            /\ \/ keys[v].auto = 0 /\ Acceptable(v) /\ Accept(v, "auto")
               \/ UNCHANGED <<ver, keys>>
            /\ DeliveryFailed
            /\ UNCHANGED queue
      /\ UNCHANGED <<cand, result, late, exec, auth>>

FinishDelivery(i) ==
  /\ event.at = "running" /\ event.on = i
  /\ event.todo = {}
  /\ event' = [event EXCEPT !.at = "done", !.on = NoAnswer]
  /\ UNCHANGED <<stored, execution, auth, faults>>

-----------------------------------------------------------------------------
\* Execution

\* A worker takes a task; the per-verification lock keeps a second one of
\* the same process waiting.
StartTask(i, v) ==
  /\ At(i, v) = "idle" /\ queue[i][v] > 0
  /\ queue' = [queue EXCEPT ![i][v] = @ - 1]
  /\ exec' = [exec EXCEPT ![i][v] = [at |-> "start", seen |-> 0, tries |-> 1]]
  /\ UNCHANGED <<stored, event, auth, faults>>

\* Where _execute_locked goes on in a state it has just read.
Onward(state) ==
  CASE state = "MODULE_DISPATCHING" -> "verify"
    [] state = "VERIFYING" -> "inputs"
    [] OTHER -> "idle"

ReadState(i, v) ==
  LET state == ver[v].state
      place == IF state \in {"ACCEPTED", "REVERIFYING"} THEN "prepare"
                                                        ELSE Onward(state)
  IN  /\ At(i, v) = "start"
      /\ IF place = "idle" THEN Stop(i, v)
                           ELSE Goto(i, v, place, ver[v].version)
      /\ UNCHANGED <<stored, queue, event, auth, faults>>

\* _reserve_idempotency of a key whose digest is the expected version: a
\* completed record answers at once when the digests agree.
Duplicate(recorded, seen) == recorded = seen

Fresh(recorded, v, seen) == recorded = 0 /\ ver[v].version = seen

\* prepare_control_plane.  The extractor finds the claims (none is an error),
\* the scorer their risks; a critical one opens a review task and skips the
\* modules.
Prepare(i, v) ==
  LET seen == exec[i][v].seen
      risk == Risks[NameOf(v)]
      half == Passed(ver[v], "SNAPSHOT_VALIDATING", "CLAIM_EXTRACTING")
      target == IF Critical(risk) THEN "REVIEW_REQUIRED"
                                  ELSE "MODULE_DISPATCHING"
      may == /\ Fresh(keys[v].prepare, v, seen)
             /\ ver[v].state \in {"ACCEPTED", "REVERIFYING"}
             /\ Unprepared(result[v])
             /\ ~Late(v, "verification")
             /\ Extractable(ContentOf(v))
             /\ MayPass(ver[v], "SNAPSHOT_VALIDATING", "CLAIM_EXTRACTING")
             /\ MayPass(half, "CLAIMS_READY", target)
  IN  /\ At(i, v) = "prepare"
      /\ \/ /\ Duplicate(keys[v].prepare, seen)
            /\ Goto(i, v, "prepared", seen)
            /\ UNCHANGED stored
         \/ /\ may
            /\ ver' = AppendState(ver, v, Passed(half, "CLAIMS_READY", target))
            /\ result' = [result EXCEPT ![v] =
                            AppendReviewTask(AppendRisks(@, risk), Critical(risk))]
            /\ keys' = [keys EXCEPT ![v].prepare = seen]
            /\ Goto(i, v, "prepared", seen)
            /\ UNCHANGED <<cand, late>>
         \/ /\ ~Duplicate(keys[v].prepare, seen) /\ ~may
            /\ Stop(i, v)
            /\ UNCHANGED stored
      /\ UNCHANGED <<queue, event, auth, faults>>

\* _state_record after the preparation.
Prepared(i, v) ==
  LET place == IF Critical(result[v].risk) THEN "idle"
                                           ELSE Onward(ver[v].state)
  IN  /\ At(i, v) = "prepared"
      /\ IF place = "idle" THEN Stop(i, v)
                           ELSE Goto(i, v, place, ver[v].version)
      /\ UNCHANGED <<stored, queue, event, auth, faults>>

\* transition to VERIFYING
Verify(i, v) ==
  LET seen == exec[i][v].seen
      may == /\ Fresh(keys[v].verify, v, seen)
             /\ ~Late(v, "verification")
             /\ MayTransition(ver[v], "VERIFYING")
  IN  /\ At(i, v) = "verify"
      /\ \/ /\ Duplicate(keys[v].verify, seen)
            /\ Goto(i, v, "verified", seen)
            /\ UNCHANGED stored
         \/ /\ may
            /\ ver' = AppendState(ver, v, Transitioned(ver[v], "VERIFYING"))
            /\ keys' = [keys EXCEPT ![v].verify = seen]
            /\ Goto(i, v, "verified", seen)
            /\ UNCHANGED <<cand, result, late>>
         \/ /\ ~Duplicate(keys[v].verify, seen) /\ ~may
            /\ Stop(i, v)
            /\ UNCHANGED stored
      /\ UNCHANGED <<queue, event, auth, faults>>

\* A bug: the state is read again, its version is not.
VerifiedStale(i, v) ==
  /\ At(i, v) = "verified"
  /\ IF ver[v].state = "VERIFYING"
       THEN Goto(i, v, "inputs", exec[i][v].seen) ELSE Stop(i, v)
  /\ UNCHANGED <<stored, queue, event, auth, faults>>

Verified(i, v) ==
  /\ At(i, v) = "verified"
  /\ IF ver[v].state = "VERIFYING"
       THEN Goto(i, v, "inputs", ver[v].version) ELSE Stop(i, v)
  /\ UNCHANGED <<stored, queue, event, auth, faults>>

\* _execution_inputs: modules run only when no run is persisted yet.
ReadInputs(i, v) ==
  /\ At(i, v) = "inputs"
  /\ Goto(i, v, IF Unverified(result[v]) THEN "modules" ELSE "reread",
          exec[i][v].seen)
  /\ UNCHANGED <<stored, queue, event, auth, faults>>

\* A bug: no look at the runs another executor has persisted.
PersistableUnchecked(v, seen) ==
  ver[v].version = seen /\ ver[v].state = "VERIFYING"

\* The guards of persist_module_execution.  The records of a bundle carry
\* the times of its runs, so a completed record of another bundle conflicts.
Persistable(v, seen) ==
  /\ ver[v].version = seen
  /\ ver[v].state = "VERIFYING"
  /\ Unverified(result[v])

\* BoundedModuleExecutor.execute and persist_module_execution.
RunModules(i, v) ==
  LET persisted(outages) ==
        \E bundle \in Bundles[NameOf(v)][outages] :
          result' = [result EXCEPT ![v] = AppendModuleRuns(@, bundle)]
  IN  /\ At(i, v) = "modules"
      /\ \/ /\ Persistable(v, exec[i][v].seen)
            /\ persisted(0)
            /\ Goto(i, v, "reread", exec[i][v].seen)
            /\ UNCHANGED faults
         \/ /\ Persistable(v, exec[i][v].seen)
            /\ Fault("module")
            /\ persisted(MaxOutages)
            /\ Goto(i, v, "reread", exec[i][v].seen)
         \/ /\ ~Persistable(v, exec[i][v].seen)
            /\ Stop(i, v)
            /\ UNCHANGED <<result, faults>>
      /\ UNCHANGED <<cand, ver, keys, late, queue, event, auth>>

Reread(i, v) ==
  /\ At(i, v) = "reread"
  /\ IF ver[v].state = "VERIFYING"
       THEN Goto(i, v, "finalize", ver[v].version) ELSE Stop(i, v)
  /\ UNCHANGED <<stored, queue, event, auth, faults>>

\* _build_result_review_task opens a task for what the aggregation left open.
ResultReview(row, decision) ==
  AppendReviewTask(AppendReport(row, decision), decision = "REVIEW_REQUIRED")

\* finalize_control_plane; AggregationError when a claim has no result.  (Its
\* other causes are rows that do not belong together: a claim without a risk, a
\* result or an evidence id of another verification.)
Finalize(i, v) ==
  LET seen == exec[i][v].seen
      decision == Decision(result[v].bundle, result[v].risk, ver[v].round)
      may == /\ Fresh(keys[v].finalize, v, seen)
             /\ ver[v].state = "VERIFYING"
             /\ ~Late(v, "verification")
             /\ Aggregable(result[v].bundle)
             /\ MayPass(ver[v], "AGGREGATING", DecisionTarget(decision))
  IN  /\ At(i, v) = "finalize"
      /\ \/ /\ ~Duplicate(keys[v].finalize, seen) /\ may
            /\ ver' = AppendState(ver, v, Passed(ver[v], "AGGREGATING",
                                               DecisionTarget(decision)))
            /\ result' = [result EXCEPT ![v] = ResultReview(@, decision)]
            /\ keys' = [keys EXCEPT ![v].finalize = seen]
            /\ UNCHANGED <<cand, late>>
         \/ /\ Duplicate(keys[v].finalize, seen) \/ ~may
            /\ UNCHANGED stored
      /\ Stop(i, v)
      /\ UNCHANGED <<queue, event, auth, faults>>

\* An error nobody retries ends the task wherever it stands: a database
\* error, before or after its commit, or an open circuit.
TaskFails(i, v) ==
  /\ At(i, v) # "idle"
  /\ Fault("db")
  /\ Stop(i, v)
  /\ UNCHANGED <<stored, queue, event, auth>>

\* The 900 second timeout cancels the execution, or a transaction runs out of
\* serialization retries: the two errors the queue tries again after, once.
TaskTimesOut(i, v) ==
  /\ At(i, v) # "idle"
  /\ Fault("timeout")
  /\ IF exec[i][v].tries < 2
       THEN exec' = [exec EXCEPT ![i][v] = [at |-> "start", seen |-> 0,
                                            tries |-> exec[i][v].tries + 1]]
       ELSE Stop(i, v)
  /\ UNCHANGED <<stored, queue, event, auth>>

\* A task expires in the queue, or finds the circuit of its type open.
TaskRejected(i, v) ==
  /\ queue[i][v] > 0
  /\ Fault("queue")
  /\ queue' = [queue EXCEPT ![i][v] = @ - 1]
  /\ UNCHANGED <<stored, exec, event, auth>>

-----------------------------------------------------------------------------
\* Human review, revision and release

\* submit_human_review by a reviewer who saw the current versions (a stale
\* one is refused).  Tasks with non-waivable findings cannot be approved.
SubmitReview(v, review) ==
  LET target == ReviewDecisionTarget(review)
  IN  /\ ver[v].state = "REVIEW_REQUIRED"
      /\ ReviewOpen(result[v])
      /\ ~Late(v, "review")
      /\ NonWaivableResult(result[v]) => target # "RELEASE_PENDING"
      /\ MayTransition(ver[v], target)
      /\ ver' = AppendState(ver, v, Transitioned(ver[v], target))
      /\ result' = [result EXCEPT ![v] = AppendReviewDecision(@)]
      /\ UNCHANGED <<cand, keys, late, execution, event, auth,
                     faults>>

\* _validate_round_budget: the round is the version revised, two at most.
WithinRounds(n) == n <= 2

\* _validate_request_binding: the version exists; all versions are COMPLETE.
Bound(c, n) == n \in 1..Len(cand[c])

\* _load_replacement_blocks and _validate_replacement_block: a patched block
\* is one of the candidate and keeps its type.  REMOVE_BLOCK wants a FAILED or
\* SUPERSEDED block, and the blocks of agents and of revisions are COMPLETE.
Replacement(new, old) == new.type = old.type

\* _build_candidate: the blocks no patch names are kept.
Replaces(new, old) ==
  /\ DOMAIN new = DOMAIN old
  /\ \A b \in DOMAIN new : Replacement(new[b], old[b])

\* The candidate and its cycle are appended together, one per version.
Revised(c, k) == [cand EXCEPT ![c] = Append(@, k)]

\* _replay_outcome: the revision of that version was made already.
RevisedAlready(c, n) == Len(cand[c]) > n

\* RevisionEngine.revise: the next version of a candidate, in the round its
\* version stands for and whatever the state of the parent, or the replay of
\* a revision made already.
MakeVersion(c, n) ==
  IF RevisedAlready(c, n)
    THEN UNCHANGED cand
    ELSE \E k \in Offered :
           /\ Replaces(Contents[k], Contents[cand[c][n]])
           /\ cand' = Revised(c, k)

\* Topic4Runtime.revision for a request that names a verification (nothing
\* compares whose): C8 makes a version, then the child verification is
\* accepted and queued.  As in _consume the key of an earlier acceptance never
\* matches again.  A database error may come between the two transactions;
\* no other step that does tells their orders apart.
Revise(i, c, n) ==
  LET v == <<c, n + 1, "child">>
  IN  /\ \E parent \in Vids : Exists(parent)
      /\ Bound(c, n) /\ WithinRounds(n) /\ n < MaxVersion
      /\ MakeVersion(c, n)
      /\ \/ /\ keys[v].auto = 0 /\ ~Exists(v)
            /\ Accept(v, "auto")
            /\ queue' = Enqueued(i, v)
            /\ UNCHANGED faults
         \/ /\ keys[v].auto = 0 /\ Exists(v)
            /\ queue' = Enqueued(i, v)
            /\ UNCHANGED <<ver, keys, faults>>
         \/ /\ keys[v].auto = 1
            /\ UNCHANGED <<ver, keys, queue, faults>>
         \/ /\ Fault("db")
            /\ UNCHANGED <<ver, keys, queue>>
      /\ UNCHANGED <<result, late, exec, event, auth>>

\* import_package of C11: the code artifact of the persisted C6 result, once.
ImportPackage(v, c) ==
  /\ result[v].bundle # NoAnswer
  /\ c \in ClaimsOf(ContentOf(v)) \ result[v].packages
  /\ CodePersisted(v, c)
  /\ result' = [result EXCEPT ![v].packages = @ \union {c}]
  /\ UNCHANGED <<cand, ver, keys, late, execution, event, auth, faults>>

\* derive_release_authorization up to its last read.
DeriveAuthorization(a, v, mode) ==
  /\ auth[a].at = "none"
  /\ ver[v].state = "RELEASE_PENDING"
  /\ ReleaseAuthority(result[v], mode)
  /\ auth' = [auth EXCEPT ![a] = [at |-> "derived", v |-> v, mode |-> mode,
                                   late |-> FALSE, asked |-> FALSE]]
  /\ UNCHANGED <<stored, execution, event, faults>>

HasRow(a) == auth[a].at \in AuthorizationRows

\* issue_authorization; the table admits one authorization per report.
IssueAuthorization(a) ==
  /\ auth[a].at = "derived"
  /\ IF AuthorizationFree({auth[b] : b \in {c \in Auths : HasRow(c)}}, auth[a].v)
       THEN auth' = [auth EXCEPT ![a].at = "issued"]
       ELSE auth' = [auth EXCEPT ![a] = NoAuth]
  /\ UNCHANGED <<stored, execution, event, faults>>

\* The ttl of an authorization (at most 300 seconds) runs out.
ExpireAuthorization(a) ==
  /\ HasRow(a) /\ ~auth[a].late
  /\ Fault("ttl")
  /\ auth' = [auth EXCEPT ![a].late = TRUE]
  /\ UNCHANGED <<stored, execution, event>>

\* ReleasePolicy.validate_request: a live authorization whose mode stands for
\* the decision of the report; its bindings hold of what was persisted.
Publishable(a) ==
  /\ ~auth[a].late
  /\ ReleaseAuthority(result[auth[a].v], auth[a].mode)

\* commit_release_v2 up to C12ReleaseService.publish: the persisted report
\* and candidate never change.  A refusal changes nothing, and a publication
\* whose answer was lost may be asked for again like any other.
RequestPublication(a) ==
  /\ HasRow(a) /\ ~auth[a].asked
  /\ Publishable(a)
  /\ auth' = [auth EXCEPT ![a].asked = TRUE]
  /\ UNCHANGED <<stored, execution, event, faults>>

\* A bug: the publication forgets to append the RELEASED state.
ReleasedUnmarked(change) == change

\* The state change appended by consume_and_publish.
ReleasedBy(change) == Transitioned(change, "RELEASED")

\* consume_and_publish: the replay of a publication, the refusal of an expired
\* or overtaken one, or the publication.
ConsumeAndPublish(a) ==
  LET v == auth[a].v
  IN  /\ auth[a].asked
      /\ \/ /\ \/ auth[a].at = "consumed"
               \/ auth[a].late
               \/ ver[v].state # "RELEASE_PENDING"
            /\ auth' = [auth EXCEPT ![a].asked = FALSE]
            /\ UNCHANGED ver
         \/ /\ auth[a].at = "issued" /\ ~auth[a].late
            /\ ver[v].state = "RELEASE_PENDING"
            /\ ver' = AppendState(ver, v, ReleasedBy(ver[v]))
            /\ auth' = [auth EXCEPT ![a] = [at |-> "consumed", v |-> v,
                                             mode |-> auth[a].mode,
                                             late |-> FALSE, asked |-> FALSE]]
      /\ UNCHANGED <<cand, result, keys, late, execution, event, faults>>

-----------------------------------------------------------------------------
\* Processes and time

Crash(i) ==
  /\ Fault("crash")
  /\ queue' = [queue EXCEPT ![i] = [v \in Vids |-> 0]]
  /\ exec' = [exec EXCEPT ![i] = [v \in Vids |-> NotRunning]]
  /\ IF event.at = "running" /\ event.on = i THEN DeliveryFailed
                                             ELSE UNCHANGED event
  /\ UNCHANGED <<stored, auth>>

DeadlinePasses(v) ==
  /\ Exists(v) /\ ~Late(v, "verification")
  /\ Fault("deadline")
  /\ late' = late \union {<<v, "verification">>, <<v, "review">>}
  /\ UNCHANGED <<cand, ver, result, keys, execution, event, auth>>

\* A review task is due 4 or 8 hours after it was opened, and at the deadline
\* at the latest: 15 minutes for a verification the event has accepted.
ReviewDuePasses(v) ==
  /\ ReviewOpen(result[v]) /\ ~Late(v, "review")
  /\ keys[v].auto = 0 \/ v[3] = "child"
  /\ Fault("deadline")
  /\ late' = late \union {<<v, "review">>}
  /\ UNCHANGED <<cand, ver, result, keys, execution, event, auth>>

-----------------------------------------------------------------------------

ExecutionStep(i, v) ==
  \/ ReadState(i, v)
  \/ Prepare(i, v)
  \/ Prepared(i, v)
  \/ Verify(i, v)
  \/ Verified(i, v)
  \/ ReadInputs(i, v)
  \/ RunModules(i, v)
  \/ Reread(i, v)
  \/ Finalize(i, v)

Next ==
  \/ \E i \in Instances :
       \/ DeliverFinalized(i)
       \/ ConsumeCandidate(i)
       \/ FinishDelivery(i)
       \/ Crash(i)
       \/ \E v \in Vids :
            \/ ApiAccept(i, v)
            \/ ApiExecute(i, v)
            \/ StartTask(i, v)
            \/ ExecutionStep(i, v)
            \/ TaskFails(i, v)
            \/ TaskTimesOut(i, v)
            \/ TaskRejected(i, v)
       \/ \E c \in Candidates, n \in 1..MaxVersion : Revise(i, c, n)
  \/ \E v \in Vids :
       \/ \E review \in Reviews : SubmitReview(v, review)
       \/ \E c \in Claims : ImportPackage(v, c)
       \/ DeadlinePasses(v)
       \/ ReviewDuePasses(v)
       \/ \E a \in Auths, mode \in Modes :
            DeriveAuthorization(a, v, mode)
  \/ \E a \in Auths :
       \/ IssueAuthorization(a)
       \/ ExpireAuthorization(a)
       \/ RequestPublication(a)
       \/ ConsumeAndPublish(a)

Spec == Init /\ [][Next]_vars

\* The workers of every process keep taking and executing tasks.  Nobody has
\* to call the API, review, revise or publish.
Fairness ==
  \A i \in Instances, v \in Vids :
    WF_vars(StartTask(i, v)) /\ WF_vars(ExecutionStep(i, v))

FairSpec == Spec /\ Fairness

-----------------------------------------------------------------------------
\* Properties

Consumed(v) == {a \in Auths : auth[a].at = "consumed" /\ auth[a].v = v}

\* What a published candidate must be, said without the modules.  Within the
\* first MaxStringLength characters of its strings there is no threat, also
\* where no claim is made, and no identity either, unless the personal data
\* of the strings before it are MaxMatches or more.  In the formulas the
\* extractor reads, a step of a derivation is true exactly where the step before
\* is (an expression without a relation is neither).
Sound(content) ==
  /\ \A b \in DOMAIN content :
       /\ \A f \in content[b].threats : ~Legible(f)
       /\ \A f \in content[b].personal :
            /\ f.is \in BlockedTypes
            /\ Reached(content, PersonalOf(content), content[b].string)
            => ~Legible(f)
  /\ \A b \in ClaimsOf(content) :
       ClaimKind(content[b]) \in {"TEXT", "FORMULA"} =>
         LET steps == content[b].says.formulas
         IN  \A n \in 1..(Len(steps) - 1) : \A p \in DOMAIN steps[n].at :
               steps[n].relation # "none" =>
                 (RelationTruth(steps[n].relation, steps[n].at[p]) <=>
                    RelationTruth(steps[n + 1].relation, steps[n + 1].at[p]))

\* Nothing is published on less than a complete verification of a sound
\* content: every mandatory module of every claim answered, none of them
\* against the claim, and partial support only as a disclosure of a low or
\* medium risk.  The steps between are the extractor, the modules, two
\* executors, a reviewer, C8 and C12.
PublishedIsVerified ==
  \A a \in Auths : auth[a].at = "consumed" =>
    LET r == result[auth[a].v]
        content == ContentOf(auth[a].v)
    IN  /\ r.bundle # NoAnswer
        /\ Sound(content)
        /\ \A c \in ClaimsOf(content) :
             /\ DOMAIN r.bundle[c] = MandatoryModules(ClaimKind(content[c]))
             /\ \A m \in DOMAIN r.bundle[c] :
                  \/ r.bundle[c][m] \in {"SUPPORTED", "NOT_APPLICABLE"}
                  \/ /\ r.bundle[c][m] = "PARTIALLY_SUPPORTED"
                     /\ auth[a].mode = "DISCLOSED"
                     /\ r.risk[c] \in {"LOW", "MEDIUM"}

\* A verification is RELEASED exactly when one authorization was consumed
\* for it, through concurrent derivations and repeated requests of
\* consume_and_publish.
ReleasedOnce ==
  \A v \in Vids :
    Cardinality(Consumed(v)) = (IF ver[v].state = "RELEASED" THEN 1 ELSE 0)

\* One module execution counts: whichever of the racing executors persists
\* its bundle first, no later one replaces it, and the decision is the one
\* that this bundle calls for.
DecidedByOneExecution ==
  [][\A v \in Vids :
       /\ result[v].bundle # NoAnswer => result'[v].bundle = result[v].bundle
       /\ result'[v].decision # result[v].decision =>
            result'[v].decision = Decision(result[v].bundle, result[v].risk,
                                           ver[v].round)]_vars

Decided(v) ==
  ver[v].state \in {"RELEASE_PENDING", "REVISION_PLANNING", "REVIEW_REQUIRED",
                    "BLOCKED", "RELEASED"}

Undecidable(v) ==
  result[v].bundle # NoAnswer /\ ~Aggregable(result[v].bundle)

\* Every accepted verification is decided, however many processes execute it
\* at once and although one of the executions may time out: the loser of a
\* race never takes the winner down with it, and the retry of the queue picks
\* up what the cancelled attempt has committed.  (A claim no module answers
\* for stops aggregation for good.)
EventuallyDecided ==
  \A v \in Vids : Exists(v) ~> (Decided(v) \/ Undecidable(v))

-----------------------------------------------------------------------------
\* What makes the properties inductive

\* A transaction leaves a verification in one of these.  C8 has a version
\* verified for itself, so nothing ever leaves REVISION_PLANNING.
Open == {"NONE", "ACCEPTED", "MODULE_DISPATCHING", "VERIFYING"}

Outcomes == {"RELEASE_PENDING", "REVISION_PLANNING", "REVIEW_REQUIRED", "BLOCKED"}

ResultRow(row) ==
  row = [risk |-> row.risk, bundle |-> row.bundle, decision |-> row.decision,
         task |-> row.task, packages |-> row.packages]

Rows ==
  /\ cand \in [Candidates -> Seq(Offered)]
  /\ ver \in [Vids -> [state: Open \union Outcomes \union {"RELEASED"},
                       version: Nat, round: 0..MaxRounds]]
  /\ result = [v \in Vids |-> result[v]]
  /\ \A v \in Vids : ResultRow(result[v])
  /\ exec = [i \in Instances |-> [v \in Vids |-> exec[i][v]]]
  /\ auth \in [Auths -> [at: AuthorizationRows \union {"none", "derived"},
                         v: Vids, mode: Modes,
                         late: BOOLEAN, asked: BOOLEAN]]

\* An execution that is about to decide has found or persisted a bundle.
Executed ==
  \A i \in Instances, v \in Vids :
    At(i, v) \in {"reread", "finalize"} => ~Unverified(result[v])

\* The bundle of a verification is one of its content, which makes a claim;
\* its report is the decision that bundle calls for, and made once.
Grounded(v) ==
  LET row == result[v]
  IN  /\ Exists(v) => v[2] <= Len(cand[v[1]])
      /\ ver[v].state \in {"NONE", "ACCEPTED", "MODULE_DISPATCHING"} =>
           row.bundle = NoAnswer
      /\ ver[v].state \in Open => row.decision = "NONE"
      /\ ver[v].state \notin {"NONE", "ACCEPTED"} => Extractable(ContentOf(v))
      /\ row.bundle # NoAnswer =>
           \E outages \in 0..MaxOutages :
             row.bundle \in Bundles[NameOf(v)][outages]
      /\ row.decision # "NONE" =>
           /\ row.bundle # NoAnswer
           /\ \E round \in 0..MaxRounds :
                row.decision = Decision(row.bundle, row.risk, round)

\* An authorization stands for the decision of the report, there is one row
\* for a report, and it is consumed by the publication.
Authorized ==
  /\ \A a \in Auths : auth[a].at # "none" =>
       ReleaseAuthority(result[auth[a].v], auth[a].mode)
  /\ \A a \in Auths : auth[a].at = "consumed" => ver[auth[a].v].state = "RELEASED"
  /\ \A v \in Vids : ver[v].state = "RELEASED" => Consumed(v) # {}
  /\ \A a, b \in Auths : HasRow(a) /\ HasRow(b) /\ auth[a].v = auth[b].v => a = b

Lawful == event \in Deliveries /\ Rows /\ Executed /\ (\A v \in Vids : Grounded(v)) /\ Authorized

=============================================================================
