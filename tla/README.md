# CyberControl: a TLA+ verification development

This directory models the parts of CyberControl (`backend/src/liyans`) that
carry its guarantees: the delivery of events, the streams to browsers, identity,
the course graph, the learner model, the knowledge base, the generation workflow
and the verification that stands before every publication. TLC checks the models
on small instances; TLAPS proves every safety invariant and action property that
holds in the runs, for every number of processes, messages, requests and faults, from the
assumptions section 6 names. Paths below are relative to
`src/backend/src/liyans/` unless they begin with `docs/`, `tests/` or
`packages/`.

## 1. The system

Several identical API processes share one PostgreSQL database and one object
store. Work flows

    Topic 1 (course graph) -> Topic 2 (learner, path) -> Topic 3 (generation)
        -> outbox row -> publisher -> message bus -> consumers
        -> Topic 4 (claims -> modules C2-C11 -> decision
                    -> review / revision C8 -> release C12)
        -> outbox row -> ... -> SSE replay log -> SSE broker -> browsers

with the knowledge base answering for C2, the task queue in front of Topic 3 and
Topic 4, and Keycloak behind the identity service.

| component | state it keeps | operations | what makes it correct |
|---|---|---|---|
| Transactional outbox (`infrastructure/persistence/postgres_outbox*.py`) | one row per message: PENDING, CLAIMED, PUBLISHED, DEAD; owner, lease, attempts | append, claim_batch (recovers expired claims), renew, mark_published, release | confirmed rows are a prefix of their partition; settled rows never change |
| Outbox publisher (`outbox_publisher.py`) | per process: claimed window of every partition | run_once, per-partition processing, timeout, tail release, close | order within a partition, no lost or hidden delivery, progress |
| Message bus (`messaging/bus.py`) | per process: next expected sequence, gap buffer | restore cursor, publish, drain | handlers run in order |
| Idempotency store (`messaging/postgres_idempotency.py`) | one record per message: BUFFERED, PROCESSING, COMPLETED; owner, lease | reserve, mark_processing, complete, abort | no run after completion, no two handlers at once |
| Task queue, resilience (`infrastructure/tasks/queue.py`, `resilience.py`) | in-memory queue, workers, circuit, bulkhead, token bucket | enqueue, execute, retry, compensate, close | what was accepted is answered; the circuit can always close again |
| SSE replay log (`streaming/postgres_replay.py`) | numbered events with expiry | append, latest, replay, delete_expired | numbers never reused, a stale cursor is told so |
| SSE broker (`streaming/sse.py`, `api/streaming.py`) | subscribers (REPLAYING, DRAINING, LIVE), queues, replay buffers, shared caches | subscribe, hand over, deliver, synchronize, close | a client sees what it is owed: no hole, duplicate or reordering |
| SSE bridge (`streaming/postgres_notifications.py`) | LISTEN connection, bounded queue, overflow flag | connect and resynchronise, consume, reconnect | a notified event reaches the live subscribers |
| Identity (`domains/identity`) | challenges, registrations, accounts, reconciliation jobs, idempotency records; the users of Keycloak | request and verify a challenge, register, update profile, contact or status, reconcile | a completed registration has its user; Keycloak and the projection agree once settled |
| Topic 1 (`domains/topic1`) | the working tables of a course, append-only snapshots | upsert, delete, import, freeze, rollback | acyclic graph with longest-path levels; tables equal the latest snapshot; no change behind an unchanged revision |
| Topic 2 (`domains/topic2`) | behaviour events, profile versions, memory states, learning paths | initialize, rebuild, restore, refresh, refresh what is due, plan | every event weighed once; no evidence lost to a concurrent save; paths respect prerequisites |
| Artifact storage (`infrastructure/persistence/*artifacts.py`) | immutable objects, rows that register them | put, read verified, register, transition | a registered artifact is the object that was stored |
| Knowledge base (`domains/knowledge`) | source versions, knowledge bases, chunks, index manifests, activations, answers; per process a cached index and a load lock | import, build and activate, load, repair, retrieve | evidence comes from the active base; repairs keep the index usable |
| Topic 3 workflow (`domains/topic3`) | append-only snapshots of the session and of each agent task, candidates, idempotency records; per process the coordinator's executions; one advisory lock per session | create, accept, reconcile, execute, start, complete, fail, skip, finalize | a finished result stands; a candidate builds on persisted candidates; every workflow is finished |
| Claims and modules C2-C11 (`domains/verification`, `academic`, `graph`, `quiz`, `code`, `extension`, `security`, `privacy`, `compliance`) | none: functions of the content, the evidence and the Topic 1 snapshot | extract, score, plan, verify | what passes is sound |
| Verification (`domains/verification`) | append-only state history, claims, risks, module runs, report, review task; idempotency records; in-memory task queue | accept, prepare, verify, persist, finalize, review | one execution decides; nothing unverified is released; every accepted verification is decided |
| Revision C8 (`domains/revision`) | candidate versions, revision cycles | revise | at most two rounds, blocks kept, child verified anew |
| Release C12 (`domains/release`) | authorizations, consumptions, publication batches | derive, issue, publish, replay | released exactly once, on a releasing decision |

What is hard here: processes racing on rows whose leases lapse; two leases of
different length on one delivery; acknowledgement and acceptance in different
transactions; objects and users written outside the transaction that records
them; retries after a cancellation or a lost answer; replay and live delivery
meeting in one subscription; notifications that are coalesced or lost; in-memory
queues in front of durable state; caches used after the rows they stand for have
moved on. `PROJECT.json` lists these hazards with their lines and the properties
that would catch each.

## 2. Modules

| module | models | how |
|---|---|---|
| `OutboxTable` | the outbox rows | one operator per repository method, on a row or on the rows of a partition |
| `IdempotencyStore` | the idempotency records | one operator per store method, on a record |
| `OutboxDispatch` | publishers, buses and their processes over both tables | one action per database transaction or await: `ClaimBatch`, `EnterDelivery`, `SinkReserve`, `MarkProcessing`, `HandlerReturns`/`Raises`, `AbortReservation`, `CompleteDelivery`, `MarkPublished`, `ReleaseHead`, `ReleaseTail`, `DeliveryTimeout`, `Close`, `Exit`, `Crash`, `Restart`, `LapseClaim`, `LapseRecord` |
| `OrderedDelivery` | the abstract promise: messages of a partition are handed over at least once and in turn, and confirmed for good | two actions, no worker, claim or lease; `OutboxDispatch` instantiates it with the set of confirmed rows and the handler counts |
| `OutboxProofs` | the theorems about `OutboxDispatch`: claims and cursors; its refinement; records and attempts | section 6 |
| `TaskQueue` | queue, workers and guards of one event loop | an action is what runs between two awaits |
| `SSEReplayLog` | the durable log | operators on the set of numbers held and not expired |
| `SSEBroker` | one tenant on one instance: broker, subscriptions, clients, bridge | a section under the tenant lock is one step; a query is a step that reads and a step that uses |
| `IdentityStore` | tables, Keycloak user, shared transaction helpers | operators and the state variables |
| `IdentityRegistration`, `IdentityMutation`, `IdentityReconciler` | the saga, the account changes with their armed compensation, the reconciliation workers | one action per transaction or Keycloak call; a `Fault` disjunct is a call that fails or an answer that is lost |
| `Identity` | the three composed, with crashes, lapsing leases and timers | `Init`, `Next`, fairness, properties and the inductive invariant |
| `IdentityProofs` | the theorems about `Identity` | section 6 |
| `Topic1Topology` | the analysis of the prerequisite graph | Kahn's algorithm as a fold, with reference definitions (`Acyclic`, `LongestPath`) |
| `Topic1Graph` | one course: tables and snapshots | one action per committed mutation, which loads, changes, normalises, validates and replaces the graph |
| `Topic2Planner` | the order of a learning path | `SelectNodes`, `OrderedNodes`, `Plan` |
| `Topic2Learner` | one learner: events, profiles, memory, paths and the calls at work | a call reads in one transaction after another and saves in the last; one action each |
| `Topic2Proofs` | the theorems about `Topic2Learner` | section 6 |
| `ArtifactStore` | object store and artifact rows | one operator per method |
| `KnowledgeStore` | the tables of the knowledge base, the mutation transaction, the requests at work | one operator per `append_*` and per unique constraint |
| `KnowledgeLifecycle`, `KnowledgeRetrieval` | import and build; load, repair and answer | reading, every object write and the commit are actions of their own |
| `Knowledge` | both composed, with crashes, damaged objects, failed rebuilds and timeouts | `Init`, `Next`, properties |
| `AgentTasks` | task snapshots, and what the orchestrator derives from its view of them | one operator per derivation: `Deps`, `NextSnapshot`, `Actionable`, `Blocked`, `Ready`, `Batch`, `FinalState` |
| `Topic3Workflow` | one workflow across processes: event consumer, recovery coordinator, queue, advisory lock, orchestrator, task runs | one action per transaction; a call of an agent spans the step that starts the task and the step that records its end |
| `ClaimControl` | claim extraction, risk scoring, dispatch plan | operators over a content |
| `AcademicVerifier`, `ResourceVerifiers`, `PolicyVerifiers` | C3; C4-C7; C2, C9-C11 and the fate of a module run | one operator per analyzer, down to the verdict |
| `VerificationStates` | the state machine and the sequences one transaction appends | `MayTransition`, `Transitioned`, `MayPass`, `Passed` |
| `VerificationDecision` | aggregation of module verdicts into a decision | operators over bundles: every outcome of a dispatch plan |
| `VerificationStore` | the append-only tables and their unique keys | one operator per repository method |
| `VerificationRuntime` | Topic 4 across processes: event consumer, API, queue, execution, review, revision, release | one action per transaction; the state version read last travels in `exec[i][v].seen` as `current_version` does in `_execute_locked` |
| `Topic1Proofs`, `KnowledgeProofs`, `VerificationProofs`, `Topic3Proofs` | the theorems about the component each is named after | section 6 |
| `InfrastructureProofs` | the theorems about `TaskQueue` and `SSEBroker` | section 6; the operators of `TaskQueue` have names of their own (`QueueSpec`, ...) so that one module can extend both |
| `MC*` | worlds, contents, graphs and symmetry sets for TLC | |

The verifier modules are extended by `VerificationDecision`, that by
`VerificationStore` and that by `VerificationRuntime`: the verdicts a release
rests on are computed from the content, not chosen. `ResourceVerifiers` takes
the cycle test of a mind map (C4) from `Topic1Topology`; `Topic2Planner` extends that
module to say that the graphs a path is planned on are acyclic.

Operators named after a plausible bug (`RecoveredOnlyFresh`, `VerifiedStale`,
`EquivalentUnlessRefuted`, ...) stand before the definition they distort.
Replacing that definition makes a property fail, which shows that the property
depends on that code.

### Abstractions

* **Outbox.** Time is the lapse of leases: a claim or record may lapse whenever
  its holder does not renew it; with the `claimStall` and `recordStall` faults
  also under a live holder. `claim_batch` may take any claimable run of a
  partition, so its priority order and candidate window are not modelled. The
  gap buffer of the bus stays empty on this path, since the sink restores the
  cursor before every message. A message that expired before dispatch
  (`messaging/bus.py:116`) is refused ahead of the reservation and ends as one
  that failed and left no record.
* **Task queue.** Clocks are two events: the reset timeout of an open circuit
  passes, a token is refilled. The asyncio queue is external and modelled with
  its parked producers and its `join`, which does not look again after waking.
* **SSE.** Events are numbers; which ones match a filter is a constant. The size-
  and time-based eviction of the caches is modelled as "a cache may always
  miss". Byte bounds, the 1024-page budget and heartbeats are left out. The two
  statements of `replay`, each with a snapshot of its own under READ COMMITTED,
  are one read. An error
  of `deliver` surfaces to the publisher, who retries through the outbox.
* **Identity.** One identifier, hence at most one user and one account. The
  representation of the user is the set of mutation keys whose change it shows;
  the projection keeps the same set, so agreement is equality. Instants are flags
  that timers set. Codes, digests and encryption are left out. A registration and
  a contact change never name the same challenge: each query asks for the purpose
  the row was made for (`identity/service.py:738`, `2293-2298`).
* **Topic 1.** A mutation is one SERIALIZABLE transaction: one step. Refused and
  replayed requests change nothing and are no step. A document is the two values
  the normalisation reads. Weights are in millionths, rounded as the code rounds
  to six places. A prerequisite has an id of its own and a tie: its endpoints and
  its type of relation. Two may join the same points in different relations; one
  tie belongs to one id (`domains/topic1/models.py:210-216`).
* **Topic 2.** Scores and decay curves are left out: a profile and a memory state
  are the events they have weighed and the version they succeed. A refusal, an
  error, a crash and a lost answer all leave only the memory of a call: `Abandon`.
* **Knowledge.** A digest stands for the content it was taken of. The id of a source
  version names document and version but not the content (`ingestion.py:104-107`); two
  imports of different bytes under one id are not in the model (the second meets
  the first one's objects and fails, as a repeated import does at its document IR).
  `damaged` is a history variable: the keys whose object the disk has changed or
  lost; `Fragile` names the parts it may hit, of sources and of indexes. Chunks, scores
  and fusion are reduced to which base an answer came from; a mutation is one
  transaction that commits its key, rows, audit record and event together.
* **Verifiers.** What a regular expression, a computer algebra system or a text
  comparison finds is part of the content: a formula is its relation and the value
  of its residual at sample points, the last of which the code does not sample; a
  passage is how it reads next to the claim; a system is its poles. Thresholds,
  orders and fall-backs are the code's, with these exceptions. Formulas are the
  ones the extractor returns: it drops what does not parse and what it has seen
  (`academic/formula.py:303-311`), so a step that does not parse is compared with
  nothing. One block is one sentence and makes one claim.
* **C9 and C10.** The detectors read the first `MaxStringLength` characters of
  each string and stop at `MaxMatches` matches, each pattern once per string
  (32,768 and 256 in the code); a finding has the number of characters that have
  to be read to see it. Strings are numbered in the order of the walk. C9 also
  walks the strings of a candidate outside its blocks, C10 does not; the model
  has the strings of the blocks only.
* **Verification.** Every mutation is one SERIALIZABLE transaction under the
  tenant lock: one step. Reads of immutable records are merged with the step that
  follows; audit and outbox rows of the same transaction are left out. A digest
  is reduced to what tells two requests apart: the expected version, or the time
  in an automatic acceptance. An open circuit and an expired task are both
  `TaskRejected`. A revision is one step, with an error between its two
  transactions as an alternative. A verification is identified by its candidate,
  its version and where its id comes from (`Vids`): the event derives it from
  candidate and version (`runtime.py:1400-1407`), a revision from the parent's
  (`revision/engine.py:301-304`), a client brings its own, so one version may have
  several verifications. `Requested` bounds which ones clients ask for and `OwnIds`
  the ids they bring. A review is due at the deadline at the latest
  (`ReviewDuePasses` is the earlier end). Of the errors of the aggregation the one
  for a claim without any result is modelled; the others (`aggregation.py:74-87`,
  `410-418`) name rows that do not belong together, and the runtime reads claims,
  risks, results and evidence of one verification.
* **Topic 3.** A mutation is one SERIALIZABLE transaction: one step. Its
  idempotency key names the task, the transition and the version it leads to; its
  digest covers the snapshot of the caller, timestamps included. `exact` says
  whether that snapshot is the persisted one: a caller answered from a record goes
  on with timestamps of its own, and its next digest differs from everybody's.
  Loading the runtime is one step. An orphaned run that can commit nothing any
  more is forgotten. Retry delays, SSE progress and the graph's integrity check
  (its inputs never change) are left out; the branch that skips tasks of a stalled
  graph cannot be reached, because the planner's dependencies are one level deep.
  A rejection stands for a circuit or budget that refuses every try of a task.

## 3. Runs

| run | instance | shows |
|---|---|---|
| `outbox` | 2 workers, 1 partition, 2 messages, windows of 2, 3 attempts, 2 faults out of crash, shutdown, database error, timeout, raising handler, stalled claim; fair | prefix, acceptance before acknowledgement, attempts, one handler at a time, order, no re-run, settled rows final; every message not behind a dead one is confirmed; `DeliversInOrder`: the dispatcher implements `OrderedDelivery` |
| `task_queue` | 3 producers (one of an unknown type, one urgent), 2 workers, a queue of 1, 2 attempts, a bulkhead of 1, a circuit that opens after 2 failures, close at any time; fair | every task put before close is answered, close waits for it, and a half-open circuit always has the probe it waits for |
| `sse_safe` | 2 clients, queue 1, buffer 2, 1 fault; either a single instance with 3 events of which 2 match, or a bridged one with 2 events | no hole, duplicate or reordering; cursors account for every event |
| `sse_live` | 1 client, fair; either a single instance, 3 events and a disconnect, or a bridged one, 2 events and a lost bridge | every event reaches a client that keeps reconnecting; a LIVE subscriber catches up or is closed |
| `identity` | up to 2 requests of seven worlds (one key twice, rival keys, mutations of one account), 2 reconciliation workers, 1 or 2 faults; fair | a completed registration has its user; one commit per key; ended jobs stand; Keycloak and projection agree once nothing is pending, and every armed compensation ends |
| `topic1` | 3 points, 3 prerequisite ids of which two may be parallel, 2 documents, 2 sections, a misconception and a question; every sequence of 4 mutations | acyclic with longest-path levels (against the reference definition); tables equal the latest snapshot; rollback restores; an upsert, a deletion or a freeze leaves no point and no prerequisite changed under the revision it had (imports and rollbacks bring revisions of their own) |
| `topic1_unreadable` | the same | expected violation: a snapshot the contract refuses to read back |
| `topic2` | 2 clients, 3 calls out of one of three worlds (two rebuilds and a restore, a rebuild and both refreshes, a rebuild and a plan, each with the initialisation), 2 events received and committed in any order, 2 graphs, 2 rankings | no event weighed twice, only an overtaken one missed, no evidence lost, paths in prerequisite order |
| `knowledge` | 2 processes, two imports of one source and one of another, two builds and a third that contests a label with another source, one claim asked twice, 4 starts and 2 faults (crash, damaged or lost object, failed rebuild, search timeout); one part of a source and one of an index can be damaged | answers from the active base; a registered artifact is stored unless it was damaged; repairs chain; the load lock is never left behind |
| `workflow_recovery` | 2 tasks, 2 attempts, fair; either 2 processes, parallel or dependent tasks and 1 fault (handler, crash, database, rejection, timeout), or 1 process, a POST and a lost lock | a finished result stands; candidates build on persisted ones; every workflow is finished |
| `verification_race` | 2 processes, 1 verification of a reading list, a mind map, code or a lecture with a leaked credential, 2 authorizations, 1 timeout, silent module or expired authorization, fair | one execution decides; always decided; released exactly once |
| `verification_release` | 1 process, 2 versions, 1 authorization, redelivery, 1 fault of five kinds, detectors that read 100 characters and stop at 2 matches; prose one passage denies with an identity and a credential out of their reach, a derivation the samples miss, personal data, a quiz | nothing published that is unverified, or unsound as far as the modules read |

A model with several deployments chooses one in its initial state (`world`, out
of the constant `Worlds`), so that one run covers them.

Two workers and two messages are the least with which a stale worker and a
successor can meet around a claim and a cursor; the faults are as many as it
takes to lose a claim and a process in one behaviour, and the proofs remove the
bounds. A queue of one parks a producer, three tasks overlap two calls on the
circuit. A queue of one and a buffer of two overflow with three events. Two
requests of one key and a worker are the least with which a late step meets an
ended job. Four mutations reach import, change, deletion and rollback on a graph
with a path of length two. Two events can overtake each other once, and three
calls make a save meet a rebuild and a restore. Two builds and a damaged object
let a cached index, an activation and two repairs meet. Four starts are too few for
a contested label and a repair in one behaviour; the theorems are not bounded. One
silent module makes a partly answered claim; the contents are one for each way a
wrong text could pass, and 100 characters and two matches put a finding behind each
bound of the detectors. No client brings an id of its own there (`OwnIds = {}`); the
second version may have the verification of its revision and one of the event. A
lecture and a task that either depends on it or shares its batch, with two contents
for the lecture, are the least with which a stale input or a sibling that outlives
its execution can be told apart.

`CHECK_DEADLOCK FALSE` is used where all clients may be gone and all work done.
The outbox workers poll for ever, and deadlock is checked.

## 4. Where documents and code disagree

`topic1_unreadable` is the one disagreement kept as a run. Deleting the only
point a textbook section is mapped to records a snapshot that
`packages/contracts-python/.../topic1.py:380` refuses ("all textbook sections must
be reachable from a knowledge-point mapping"): `delete_knowledge_point`
(`domains/topic1/service.py:270`) builds the content with `model_copy`, which
validates nothing. Every later mutation or rollback of the course reads it and
fails.

The models reproduce the following as well; each follows from the actions named
in section 2, and none of them breaks a property of a passing run.

Delivery and streams

* One crash between `reserve` and `complete` makes every redelivery fail as in
  flight until the row is DEAD: the 120 s processing lease outlives the 30 s claim
  lease and the back-offs (`postgres_idempotency.py:98`; the docs in
  `docs/phase1.1/07*` line 39 and `docs/topic3/envelope-and-infrastructure.md:302`
  promise redelivery).
* After a lost `mark_published` the bus refuses to move its cursor back before it
  looks at the COMPLETED record, and the row dies (`messaging/bus.py:101` against
  `docs/topic3/envelope-and-infrastructure.md:178`).
* `abort` deletes a BUFFERED record of any owner (`postgres_idempotency.py:173`),
  while `docs/phase1.1/05-postgresql-durable-adapters.md:30` speaks of the lease
  owner; `mark_published` and `release_claim` do not look at `claim_expires_at`.
* Recovery keeps the attempts charged to rows behind a crashed head, so rows that
  were never delivered can die. `claim_batch` looks at `limit * 8` candidates:
  blocked partitions may fill the window. All replicas that keep the default
  `service_instance_id` (`core/settings.py:42`) share one owner.
* `_synchronize_tenant` returns when no subscriber is LIVE (`sse.py:1188`); an
  event notified while the only one is REPLAYING or DRAINING waits for the next
  event or reconnect (ADR 0021 line 111, ADR 0016 line 31).
* `TaskQueue`: an item whose producer was parked in `put` when `close` began is
  put after the workers are gone, and its future never resolves.

Identity, Topic 1 and Topic 2

* Scheduling reconciliation for a registration upserts the job but leaves its
  `claim_token` (`identity/service.py:1214-1230`), which the CHECK of migration
  0010 (lines 524-527) refuses while a worker holds the job. The failed schedule
  leads to `delete_user` (404-412) although the worker may still complete the
  registration: ADR 0011 (lines 33-34) promises a reconciliation job or the
  deletion, and here both happen. `CompletedHasUser` excepts
  behaviours in which a scheduling has failed (`blind`).
* A revision number of a deleted and re-created point can name two contents
  (it starts at 1 again), so a revision identifies a point only within its life.
* Topic 2 reads events in the order they occurred and moves its cursor in the
  order they were received: an event overtaken by a later one is never weighed
  (`docs/topic2/architecture.md` 4.4 and 5.3 promise that it is); a batch at its
  limit loses the same way. A path may be saved on an older profile than the
  latest, and a prerequisite behind an inactive point is dropped.

Knowledge base

* An import that crashed behind its objects cannot be repeated: the document IR
  carries a time, and its object key then has other bytes (`lifecycle.py:205-252`
  against `docs/topic4/c2/acceptance-report.md:20`). A failed build binds its
  label to its objects the same way, and a damaged recovery object without a row
  blocks the repair (`filesystem_artifacts.py:124`, `retrieval_service.py:685`).
* A retry under the same key after a new graph snapshot or activation is a
  conflict, not a replay (`lifecycle.py:425`, `retrieval_service.py:422`). A
  retrieval that timed out is final for its claim. The hot index of a process may
  lag behind its activation (`lifecycle.py:752`); `AnswersFromActive` holds because
  the commit looks again. The answer `{"recovered": False}` cannot be reached.

Verification modules

* C9 and C10 read the first 32,768 characters of a string and stop at 256 matches
  (`security/detector.py:133-153`, `privacy/detector.py:65`, `82-95`), while a
  lecture section may have 65,536 (`packages/contracts-python/.../topic3.py:439`)
  and the extractor splits a long string instead of refusing it
  (`claim_extraction.py:237-251`). A credential at character 40,000, or a national
  id behind 256 e-mail addresses in as many strings, is not seen, and the candidate
  can be released. The documents name the limits as protection against exhaustion
  (`docs/topic4/c9/architecture.md`, "Failure boundaries";
  `docs/topic4/c10/architecture.md:53`) and not what they leave unread.
  `PublishedIsVerified` promises nothing beyond them (`Legible`, `Reached`).
* C11 reads the persisted C6 result (`compliance/service.py:459-486`), which is
  only persisted with the whole bundle, C11 included: code candidates are always
  blocked. The comment at `verification/runtime.py:239-241` and
  `docs/topic4/c11/architecture.md:8-9` speak of insufficient evidence, while
  `compliance/handler.py:158-166` answers UNSAFE. `_latest_package`
  (`service.py:763`) depends on the order of components.
* "CC BY-NC" matches the pattern of CC-BY-4.0 first (`extension/verifier.py:18-27`
  against `docs/topic4/c7/architecture.md:52` and `acceptance-report.md:32`).
* One claim is made of every leaf string of a block. Titles and sequences of a
  quiz or a reading list, and the lines of a mind map, whose line breaks
  `_normalize` removes (`claim_extraction.py:261-263`), are no question, resource
  or diagram for `quiz/parser.py:51-53`, C7 and `graph/mermaid.py:257-265`: such
  candidates are blocked whole. The tests pick the matching claim
  (`tests/test_topic4_c5_quiz.py:157-165`, `test_topic4_c7_extension.py:134-142`);
  `docs/topic4/c4/acceptance-report.md:46`, `c5/architecture.md:88` and
  `c7/acceptance-report.md:48` do not mention it.
* A formula that is a constant multiple of another counts as equivalent even
  without a relation (`academic/formula.py:610`), and for such expressions the
  samples overrule a symbolic "no". A step that does not parse is left out of the
  derivation before it is checked.

Verification, revision and release

* A redelivered finalized event carries another digest under the same key, and the
  consumer does not swallow that conflict (`service.py:1415`, `runtime.py:1586`
  against `docs/topic4/test-report/end-to-end-report.md:23` and
  `docs/topic4/c1/acceptance-report.md:57`).
* A publication whose answer was lost is told that it expired once the
  authorization has: `release/engine.py:108` checks expiry before the committed
  result is looked up, while `docs/topic4/c12/architecture.md:77` promises the
  replay. One authorization per report with a ttl of at most 300 seconds: an
  unused one that expires blocks the release.
* A revision can never remove a block: blocks are COMPLETE (`agents/base.py:368`),
  and `revision/engine.py:440` asks for one that is not.
* The revision round never reaches the child verification, so a third version may
  still be told to REVISE although C8 refuses a third round, and the states
  REVISION_WAITING and REVERIFYING are never entered.
* A human APPROVE leads to RELEASE_PENDING, but an authorization also requires a
  releasing decision in the report: such a verification cannot be released.
* A claim without any module result (`AggregationError`) leaves the verification
  VERIFYING for good; nothing ever sets EXPIRED.
* A verification that was accepted but whose queue entry is lost in a crash is
  only executed again by a manual POST to `/execute`.

Topic 3

* A process crashes between a retriable failure and its retry; the resumed
  execution takes the FAILED task for a failed dependency and skips what depends
  on it (`topic3/orchestrator.py:226` against
  `tests/test_topic3_orchestrator.py:299`).
* `docs/topic3/architecture.md:124` says that the advisory lock prevents duplicate
  provider calls and that the consumer acknowledges after the workflow is done.
  Orphaned runs and a lost lock connection do call the agents twice (harmless, by
  `FinalResultStands` and `GroundedOnPersisted`), and the consumer acknowledges
  once the execution is queued (`WorkflowFinishes` rests on the recovery scan, which
  looks at a bounded number of sessions).

## 5. Fairness

* `OutboxDispatch`: weak fairness of each worker's claiming, delivery, exit and
  restart, and of the lapse of claims nobody renews. The publisher polls in an
  endless loop and time passes. Producers and faults get none.
* `TaskQueue`: weak fairness of the workers and of parked producers; strong
  fairness of entering the bulkhead, whose semaphore is first come, first served.
  Nobody has to enqueue or to close.
* `SSEBroker`: weak fairness of every task of the event loop and of clients that
  reconnect; strong fairness of taking the synchronize lock, because
  `asyncio.Lock` wakes its waiters first come, first served.
* `Identity`: weak fairness of the reconciliation workers (an endless loop), of a
  request that is running, and of due times and lapsing claims. Clients need not
  ask anything; faults are bounded.
* `VerificationRuntime`: weak fairness of the queue workers and of the execution
  they run. Nobody is obliged to call the API, review, revise or publish, and no
  event delivery is assumed. The circuit stays closed in the fair run.
* `Topic3Workflow`: weak fairness of each coordinator's scan (an endless loop with
  an interval), of restarts (a supervisor's) and of the executions on the event
  loop. No event delivery and no POST is assumed, and orphans get none.

## 6. Proofs

`OutboxProofs` proves, for any `Workers`, `Partitions`, `Length`,
`MaxAttempts`, `BatchSize` and faults allowed by the named assumptions:

* `TypeCorrect`: `Spec => []TypeOK`. One lemma per group of actions (claim,
  delivery, environment) over typing lemmas for the row, record and window
  operators.
* `SettledForever`: `Spec => SettledIsFinal`. `RowsStep` shows that each step does
  to a row either nothing harmful (`Harmless`) or the confirmation of a
  worker that is past its sink.
* `PrefixHolds`: `Spec => []PublishedPrefix`. The property is not inductive:
  nothing in it says why a worker about to confirm is entitled to. `PrefixInv`
  adds that everything below the cursor a window carries is confirmed
  (`CursorSafe`) and that past the sink's check the head is at that cursor
  (`HeadAtCursor`). A cursor computed by `claim_batch` stays true because
  confirmed rows are final; the head advances only after its own confirmation.
* `OrderHolds`: `Spec => HandledInOrder`, from `PrefixInv`: handlers start only
  from a window that is past the sink's check.

Then `DeliversInOrderHolds`: `Spec => DeliversInOrder`,
where `DeliversInOrder` is the specification of `OrderedDelivery` with `confirmed`
as the set of PUBLISHED rows and `runs` as it is. A start of the handlers maps to
`Start` by `PrefixInv`; a confirmation maps to `Confirm`, which also requires that
the handlers were started. That needs the second invariant `AcceptedRan`: a record
that is past PROCESSING, and a window past its sink, belong to a message whose
handlers have run. Every other step stutters.

Last come the records and the attempts. `RecordStep` shows
that a step leaves a record alone, runs one transaction of the worker whose window
is on that message, or lets the record expire; everything below is read off it.

* `CompletionIsFinal`: `Spec => NoRunAfterCompletion`, and `PublishedWasAccepted`:
  `Spec => []PublishedIsAccepted`, both while records are retained (`NoRetention`).
  `CompletedFresh` says that a COMPLETED record has not expired, `AcceptedCompleted`
  that a window past its sink has one. The code promises no more: `reserve` takes
  an expired COMPLETED record over, so a redelivery after the retention runs the
  handlers again. The configurations of TLC never expire them either.
* `HandlersExclude`: `Spec => []HandlersExclusive` unless a process outlives its own
  processing lease (`NoRecordStall`). `HandlingLeased`: a worker whose handlers
  run owns a live PROCESSING record.
* `StartsWithinAttempts`: `Spec => []RunsWithinAttempts`. `release_claim` gives
  attempts back, so "runs at most attempts" is not inductive; `StartsCharged` adds
  to the runs of a message the workers that hold it and have not started its
  handlers (`Pending`). A cardinality argument over a finite set of workers.

`InfrastructureProofs`, on the task queue, for any tasks, workers, capacity,
attempts, concurrency, threshold and burst:

* `QueueInvariant`: `QueueInv`, the conjunction of the types, `Counted`
  (`unfinished` is the number of queued and running tasks), `Hands` (a worker and its
  task agree), `EarlyAccounted` (a task put before `close` is answered, queued or
  running until `close` returns) and `Charged` (calls within `max_attempts`).
* `CloseAnswers` and `ProbeIsFreed` follow: the first because `join` returns only at
  `unfinished = 0`, which `Counted` turns into "no task queued or running"; the
  second step by step over the ways a call can end.
* `QueueKeepsBooks` joins them with `Slots`: queue and bulkhead keep to their sizes,
  and a producer is parked only while the queued tasks and the woken producers fill
  the queue, so that no wake-up is lost.

`InfrastructureProofs`, on the broker, for any clients, events, matching prefixes,
queue, buffer and page sizes, and faults:

* `BrokerKeepsBooks`: `BrokerInv`. Neither of the two properties is inductive: they
  say nothing of a subscription while it replays, of one that is closed, or of the
  event it holds in hand during a drain. `ClientOK` adds for each client that what it
  has received lists the matching events from `base` to some number, and what its
  subscription may hold in each state (`Phase`); while it replays, the line ends at the
  `Last-Event-ID` it came with; from the hand-over on, received, in hand, replayed and
  queued events are one line (`Line`) that ends at `last_sequence`; once it is closed
  the line ends somewhere, because what was queued is dropped from its end
  (`Accounts`).
* `Sorted` picks the i-th element of a set by counting those below it. `SortedLists`
  says that it lists the set, `ListsUnique` that nothing else does, both by
  bijections with initial segments of the naturals, without induction. On lists there
  are two facts: one that joins on without a hole extends the line
  (`ContiguousExtends`), and a first part of a line is a line (`ListsPrefix`).
* A subscription goes on in three ways (`HandedOverReady`, `DrainedReady`,
  `ResumedReady`); `Ready` is what each leaves behind, and `ReadyAdvances` says what
  the client then gets. Fan-out extends the line of a LIVE subscriber or closes it
  (`QueuedOK`). Nothing is assumed of the order of synchronizations, appends and
  notifications, or of the caches: each page is checked for contiguity where it is
  used, and the proof uses nothing else.
* `NoEventIsSkipped` and `LastSequenceAccounts` are read off it by `ListsUnique`.

`Topic1Proofs`, for any points, documents, bundles and length of history:

* `GraphInvariant`: `GraphInv`, that snapshots are normalised, that the tables
  extend the latest one and that rollbacks restore. These need only that what the
  analysis computes is a function of nodes, edges and documents; weights and
  descendant counts are used no further anywhere.
* `CyclesAreRefused`: on a finite graph the loop of Kahn leaves a node over exactly
  when there is a cycle. The loop is followed turn by turn (`Turn`): the recursion of
  the model is shown to have a value (`ConsumeRuns`), each turn that finds a free node
  takes one more (`TurnCounts`), so as many turns as nodes exhaust it
  (`ConsumeExhausts`).
* `LevelsStayLongest`: `Levelled` is the invariant of the loop, that the level of a
  consumed node is one more than the highest of its prerequisites. At the end that makes
  every node `Graded`: no walk to a node is longer than its level (`WalksWithin`), and
  one is as long (`WalkOfLevel`) and repeats no node. Both are by a least
  counterexample over the well-founded order of the library, where a reader would
  expect induction. That every version has finitely many points is part of `Shaped`.
* `TablesHoldTheLatest`, `RollbacksRestore`, `ChangesRaiseRevisions`. The last is about
  points and prerequisites that stay, and excepts imports and rollbacks. The
  assumption `BundlesAssumption` says that an imported bundle has the shape of its
  contract.

`KnowledgeProofs`, for any processes, requests, sources and labels:

* `LoadLockIsFreed`: the load lock is held by a loading request of its process
  (`Served`, `Locked`).
* `AnswersRestOnActive` and `ManifestsEndReady`, from one invariant, `RowsInv`: the
  rows of a base stay together (`Corpora`), manifests are numbered without gaps and
  alternate as their version says (`Chained`), and what requests and caches hold in
  memory agrees with the rows (`Memory`). The last part is why an answer from a
  cache that is behind its activation is refused at the commit.
* `RegisteredStaysStored`: the object behind a registered row has the registered
  content unless the disk damaged or lost what was stored under its key. The keys of a
  base hold only its label (`lifecycle.py:443-446`, `479`), so builds with other
  sources may claim one. `Stored` says why none registers the object of another: what
  a request has put so far (`Staged`), and what a row names (`StoredRows`), is there
  with the content it was put with, because the store refuses other bytes under a
  key; and a request commits only when it has staged all it registers. Nothing is
  assumed of the labels.

`VerificationProofs`, for any processes, candidates, contents, graph snapshot,
authorizations and faults:

* `Lawful` is the inductive invariant. `Rows` types the tables; `Executed` says that
  an execution about to decide has a persisted bundle; `Grounded` that a bundle is
  one the content can get (`Bundles`) and a report the decision it calls for;
  `Authorized` that an authorization stands for the decision of its report, that a
  report has one, and that RELEASED and consumed go together. Every step is
  classified by what it may do to a verification (`Move`): open it, prepare it,
  persist a bundle, decide it, resume it, release it, or nothing.
* `ReleasesHappenOnce`, `OneExecutionDecides` and `PublishedWasVerified`. The last
  also goes through the verifiers: from a SUPPORTED or disclosed verdict back to the
  findings of each analyzer, and from those to `Sound`, whatever the bounds of the
  detectors are. `Sound` speaks of what they read, of the formulas the extractor
  returns and of steps that state a relation: for expressions without one the
  code accepts a constant multiple (section 4).
* Assumptions: `RuntimeAssumption` (the block types are those of the contract, and
  the formulas of a claim are given at the same sample points), `DetectorAssumption`
  (both bounds are positive) and `NoBundleAssumption` (the placeholder for "no
  bundle" is none).

`Topic3Proofs`, for any processes, blueprint, agents, contents, attempts and
faults:

* The idempotency keys of a task are the log of its snapshots: what a process read
  of a task at any time is what the log says at that version (`Recorded`). A step
  only makes a log longer (`Grown`), so old views, the snapshots of replayed
  transitions and those of orphaned runs stay recorded, however late they are used.
* `WorkflowInvariant`: `WorkflowInv` has three parts. `RowsHold`: a row is the end of
  its log, nothing stands behind a snapshot that has ended, the completion in the log
  is the one candidate, and candidates are built on persisted ones (`BuiltOn`).
  `WorkHolds`: views, runs and orphans hold recorded snapshots, a run whose agent is at
  work was given persisted candidates, and an execution that finalizes has seen every
  task ended. `SessionHolds`: a final session tells the rows as they are.
* `FinalResultHolds` and `CandidatesAreGrounded` are read off it. Neither is
  inductive alone: a session becomes final from a view, not from the rows, and the
  view is good enough because ended snapshots are the last of their log.
* That nothing is left to run when an execution finalizes uses the shape of the
  blueprints (`BlueprintAssumption`: dependencies are one level deep, as
  `TASK_DEPENDENCIES` has them). `WorkflowAssumption` types the bounds.

`IdentityProofs`, for any requests, keys, challenges, workers, worlds and faults:

* `IdentityInvariant`: `IdentityInv` is stated at the end of `Identity`, part by
  part. `VersionCounts`: the version has moved past every version that a committed key
  was used with, so a second commit under a key, however it came to run, does not
  find the version it expects. `ChallengesBound`: a challenge serves the first
  registration that used it, or one contact change. `UserStands`: while no scheduling
  has failed nobody is about to delete, and the one user belongs to every
  registration that goes on. `JobsHold`: one compensation is active at a time, and a
  mutation whose job no worker has touched still has it PENDING. `ChangesAgree`: an
  active job can restore what the projection shows, and what Keycloak shows is that,
  or that with the change of the one mutation under way.
* Each helper has a lemma that says what it does to its row (`...Does`), each part
  one that says what must be left alone for it to stand (`...Kept`), and each action
  one that concludes from the two (`...Keeps`). The reconciler shares `ProjectKeeps`
  with the request, as the code shares the finalize transaction.
* `CompletedUserStands`, `CommitsCountOnce`, `SettledAgrees` and `EndedJobsStand` are
  read off the invariant. None is inductive: that Keycloak and the projection agree
  after a worker's restore, for one, needs that the job it restored was the only
  active one and was armed with what the projection showed.
* `IdentityAssumption` types the constants, keeps keys, requests and "NONE" apart, and
  says that a registration and a contact change use different challenges (section 2).
  What the properties exclude by `drift` and `blind` the theorems exclude as well.

`Topic2Proofs`, for any events, graphs, operations, calls and limits:

* `LearnerInvariant`: `LearnerInv` says of every row, and of every draft that a call
  carries towards its save, that it has weighed each event at most once and only
  events its cursor has passed, and of a draft that it holds what the version it read
  holds. The draft part is what makes it inductive. A call may be arbitrarily old when
  it saves: tables only grow and the stamps of stored events stand, so what it read is
  still true (`CallStays`), and the successor check places its row behind the version it
  was computed from.
* `EventsCountOnce` and `EvidenceIsKept` are read off it. An event behind the new
  cursor is not in any later batch, whatever was received in between
  (`LatestDoes`, `CountingDoes`); a memory state without a cursor has applied nothing.
* `OnlyOvertakenAreMissed` adds `ExplainedInv`: what a version leaves out, a version of
  its lineage rejected, or passed before it was stored. For memory this needs that the
  batch window is not ahead of the cursor of any point in it (`WindowDoes`) and that
  no cursor is ahead of the time its state was computed at.
* `OnlyOvertakenAreMissed` assumes that a rebuild can read all events (`Fits`). Without it the
  theorem is false, and so is the promise of the code: a batch at its limit loses
  events (section 4). The other theorems hold for any limit. `Topic2Assumption`
  types the constants.
* `PathsKeepPrerequisites` goes through the planner. `SelectDoes`: after as many rounds as
  there are points the selection is closed under prerequisites. `OrderDoes`: the order
  begun so far lists ready points only, an acyclic graph always has a next one
  (`AcyclicHasFirst`), so none is left over; a manual order that can be obeyed is
  followed (`FollowDoes`, `FollowObeys`). `PathInv` carries this from the call that plans
  to the rows. `GraphsAssumption` says that the active part of a version is finite and
  acyclic, which `LevelsStayLongest` proves of the component that publishes it;
  `PlansAssumption` that rankings do not tie, as `_ordered_nodes` ends its sort keys with the id.

What only TLC checks, and why:

* Liveness, in every component: `EventuallyPublished` and its like rest on fairness
  and so on ENABLED. The fair half of the refinement of `OrderedDelivery`
  belongs here.

Every safety invariant and every action property of the passing runs is stated by a
theorem of this section.

## 7. Plan

1. Done: the modules of section 2 and the theorems of section 6.
2. Models next: `MessageBus` with its gap buffer (a message popped before its handlers
   run, `bus.py:187`); the candidate window of `claim_batch`; the recovery scan
   over several sessions.
3. Composition: `OrderedDelivery` as the event input of `VerificationRuntime` and
   `Topic3Workflow`.
4. Proofs next: `GraphsAssumption` of Topic 2 from the invariant of Topic 1, by composing
   the two; that weights and descendant counts are what the analysis means by them.

## 8. Not modelled

Parsing and chunking of documents, scores of BM25 and FAISS and their fusion;
scores and decay curves of Topic 2 and its agent context; the artifacts the
verifiers write; agents and model providers; metrics and the audit chain; token
authentication; the frontend, the contract schemas, tools and deployment files.
The migrations are covered where a constraint or trigger decides an outcome.
`PROJECT.json` names each component with its reason.
