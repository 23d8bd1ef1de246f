----------------------------- MODULE Knowledge -----------------------------
(***************************************************************************)
(* The local knowledge base of one course at work: processes that share    *)
(* the database and the object store import sources, build and activate    *)
(* knowledge bases and answer claims, while processes crash, stored index  *)
(* objects are damaged, rebuilds run out of memory and searches run out of *)
(* time.                                                                   *)
(***************************************************************************)
EXTENDS KnowledgeLifecycle, KnowledgeRetrieval

CONSTANTS
  MaxStarts,               \* bound on the starts of all requests together
  Fragile,                 \* bound: the parts whose objects may be damaged
  FaultBudget              \* bound on the faults of a behaviour

ASSUME KnowledgeAssumption ==
  /\ MaxStarts \in Nat /\ FaultBudget \in Nat
  /\ \A r \in Requests : Op(r) \in {"import", "build", "retrieve"} /\ At(r) \in Processes
  /\ NoRequest \notin Requests /\ NoBase \notin Labels
  /\ SourceParts \in Seq(STRING) \ {<<>>} /\ ShardParts \in Seq(STRING) \ {<<>>}

VARIABLES
  faults,
  damaged                  \* keys of the objects the disk has damaged or lost

vars == <<stores, tables, locals, pc, work, tries, faults, damaged>>

Init ==
  /\ objects = <<>> /\ artifacts = {} /\ documents = <<>> /\ versions = <<>>
  /\ bases = <<>> /\ chunks = <<>> /\ manifests = {} /\ activations = <<>>
  /\ answers = {} /\ results = <<>> /\ audited = 0 /\ published = 0
  /\ pc = [r \in Requests |-> "idle"]
  /\ work = [r \in Requests |-> NoWork]
  /\ tries = [r \in Requests |-> 0]
  /\ cache = [p \in Processes |-> NoIndex]
  /\ hot = [p \in Processes |-> NoBase]
  /\ loading = [p \in Processes |-> NoRequest]
  /\ faults = 0 /\ damaged = {}

\* One step of the handler of a request that is being served.
Serve(r) ==
  \/ ReadInputs(r) \/ CheckKey(r) \/ StageSource(r) \/ CommitImport(r)
  \/ BuildChunks(r) \/ StageShard(r) \/ CommitBuild(r) \/ ActivateIndex(r)
  \/ Lookup(r) \/ ReadActive(r) \/ RestoreIndex(r) \/ StageRecovery(r) \/ CommitRecovery(r)
  \/ \E status \in {"SUCCEEDED", "DEGRADED"} : Search(r, status)
  \/ CommitAnswer(r)

Starts == LET total[S \in SUBSET Requests] ==
                IF S = {} THEN 0
                ELSE LET r == CHOOSE r \in S : TRUE IN tries[r] + total[S \ {r}]
          IN  total[Requests]

Start(r) == Starts < MaxStarts /\ Begin(r) /\ UNCHANGED faults

Fault == faults < FaultBudget /\ faults' = faults + 1

\* The search outlives its deadline.
SearchTimesOut(r) == Fault /\ Search(r, "FAILED")

\* Rebuilding the vectors of a lost shard fails.
RebuildFails(r) == Fault /\ RestoreDegraded(r)

\* A process stops: its requests, cache and lock are gone, database and objects stay.
Crash(p) ==
  /\ Fault
  /\ \E r \in Requests : At(r) = p /\ pc[r] # "idle"
  /\ pc' = [r \in Requests |-> IF At(r) = p THEN "idle" ELSE pc[r]]
  /\ work' = [r \in Requests |-> IF At(r) = p THEN NoWork ELSE work[r]]
  /\ cache' = [cache EXCEPT ![p] = NoIndex]
  /\ hot' = [hot EXCEPT ![p] = NoBase]
  /\ loading' = [loading EXCEPT ![p] = NoRequest]
  /\ UNCHANGED <<stores, tables, tries>>

\* An object, of a source or of an index, is damaged or lost on disk.
Damage(key) ==
  /\ Fault
  /\ key \in DOMAIN objects /\ objects[key] # Bad
  /\ key[Len(key)] \in Fragile
  /\ damaged' = damaged \union {key}
  /\ \/ objects' = [objects EXCEPT ![key] = Bad]
     \/ objects' = [k \in DOMAIN objects \ {key} |-> objects[k]]
  /\ UNCHANGED <<artifacts, tables, locals, pc, work, tries>>

Next ==
  \/ /\ \E r \in Requests : \/ Start(r) \/ (Serve(r) /\ UNCHANGED faults)
                            \/ SearchTimesOut(r) \/ RebuildFails(r)
     /\ UNCHANGED damaged
  \/ \E p \in Processes : Crash(p) /\ UNCHANGED damaged
  \/ \E key \in DOMAIN objects : Damage(key)

Spec == Init /\ [][Next]_vars

----------------------------------------------------------------------------
(* Properties.                                                              *)

TypeOK ==
  /\ \A key \in DOMAIN objects : objects[key].of \subseteq Sources
  /\ \A row \in artifacts : row.status \in ArtifactStatus
  /\ DOMAIN versions \subseteq Sources /\ DOMAIN bases \subseteq Labels
  /\ \A m \in manifests : m.state \in ManifestStates
  /\ activations \in Seq(Labels) /\ audited \in Nat /\ published \in Nat
  /\ \A p \in Processes : loading[p] \in Requests \union {NoRequest}

\* Evidence rests on the knowledge base that was active when it was committed, and on its
\* sources only, although the base is chosen, restored, repaired and searched before the
\* transaction, and an activation may come at any time between (retrieve_claim).
AnswersFromActive ==
  \A a \in answers :
    /\ a.base = activations[a.activation]
    /\ a.status # "FAILED" => a.of = bases[a.base].sources

\* Whatever order two processes stage and commit in, wherever one crashes, and also where
\* two builds with other sources claim one label, the object behind a registered artifact is
\* there with the registered content, unless the disk has damaged or lost what was stored
\* under its key (put before and register in the transaction).
RegisteredIsStored ==
  \A row \in artifacts : row.key \notin damaged =>
    row.key \in DOMAIN objects /\ objects[row.key] = row.sha

\* The snapshots of a base are BUILDING, READY, then CORRUPTED, READY for each repair, one
\* row per version, and the last one is READY with registered artifacts only: concurrent
\* repairs and builds never leave the active base without a manifest the next load accepts
\* (_persist_recovery, _read_active_metadata).
ReadyChain ==
  \A b \in DOMAIN bases :
    LET rows == {m \in manifests : m.base = b} IN
    /\ {m.version : m \in rows} = 1..Cardinality(rows)
    /\ \A m \in rows : m.state = (IF m.version = 1 THEN "BUILDING"
                                  ELSE IF m.version % 2 = 0 THEN "READY" ELSE "CORRUPTED")
    /\ Cardinality(rows) % 2 = 0
    /\ \A ref \in Latest(rows, b).shards :
         \E row \in artifacts : row.key = ref.key /\ row.sha = ref.sha /\ row.status = "VERIFIED"

\* The load lock of a process is held by one of its requests that is still loading, so a
\* waiting request gets its turn whatever fails while the lock is held: artifacts that
\* cannot be staged, a lost recovery race, a crash (load_active).
LockHeldByLoader ==
  \A p \in Processes : loading[p] # NoRequest =>
    /\ At(loading[p]) = p
    /\ pc[loading[p]] \in {"restore", "stage", "heal"}

----------------------------------------------------------------------------
(* What makes the properties above inductive.                               *)

\* A request is only where the handler of its operation goes.
Places(op) ==
  {"idle"} \union
  (CASE op = "import" -> {"read", "check", "stage", "commit"}
     [] op = "build" -> {"read", "check", "chunks", "stage", "commit", "activate"}
     [] OTHER -> {"lookup", "lock", "restore", "stage", "heal", "search", "answer"})

WorkRecord(x) == x = [todo |-> x.todo, index |-> x.index, status |-> x.status]

Served ==
  /\ pc = [r \in Requests |-> pc[r]] /\ \A r \in Requests : pc[r] \in Places(Op(r))
  /\ work = [r \in Requests |-> work[r]] /\ \A r \in Requests : WorkRecord(work[r])
  /\ tries \in [Requests -> Nat]
  /\ cache = [p \in Processes |-> cache[p]]
  /\ loading \in [Processes -> Requests \union {NoRequest}]

\* Only retrievals take the lock.
Locked ==
  /\ LockHeldByLoader
  /\ \A p \in Processes : loading[p] # NoRequest => Op(loading[p]) = "retrieve"

\* An index answers from a committed knowledge base and from all its sources.
Answering(index) ==
  index.base \in DOMAIN bases /\ index.of = bases[index.base].sources

\* The rows of a base stay together.
Corpora ==
  /\ activations \in Seq(DOMAIN bases)
  /\ DOMAIN chunks = DOMAIN bases
  /\ \A b \in DOMAIN bases : b # NoBase /\ chunks[b] = bases[b].sources

\* Every manifest after the first of its base has shards, all made from its sources.
Manifests ==
  /\ \A m \in manifests :
       /\ m.base \in DOMAIN bases /\ m.version \in Nat \ {0}
       /\ m.version > 1 => m.shards # {}
       /\ \A ref \in m.shards : ref.sha = Of(bases[m.base].sources)
  /\ \A m, n \in manifests : m.base = n.base /\ m.version = n.version => m = n

\* The versions of a base are counted up to that of its last READY manifest, and the
\* shards of every manifest are registered.
Versions(b) == {m.version : m \in {n \in manifests : n.base = b}}

StateOf(version) ==
  IF version = 1 THEN "BUILDING" ELSE IF version % 2 = 0 THEN "READY" ELSE "CORRUPTED"

Chained ==
  /\ \A b \in DOMAIN bases : \E n \in Versions(b) : n % 2 = 0 /\ Versions(b) = 1..n
  /\ \A m \in manifests : m.state = StateOf(m.version)
  /\ \A row \in artifacts : row.status = "VERIFIED"
  /\ \A m \in manifests : \A ref \in m.shards :
       \E row \in artifacts : row.key = ref.key /\ row.sha = ref.sha

\* What a request at place has in memory agrees with the rows: a repair works on a READY
\* manifest with shards.
Loading == {"restore", "stage", "heal"}

Remembers(r, place, index) ==
  /\ Op(r) = "build" /\ place \in {"stage", "commit"} => index.of = Command[r].sources
  /\ Op(r) = "retrieve" /\ place \in {"stage", "heal", "search", "answer"} => Answering(index)
  /\ Op(r) = "retrieve" /\ place \in Loading =>
       \E m \in manifests : /\ m.base = index.base /\ m.version = index.version
                            /\ m.state = "READY" /\ m.version > 1

Memory ==
  /\ \A p \in Processes : cache[p].base # NoBase => Answering(cache[p])
  /\ \A r \in Requests : Remembers(r, pc[r], Index(r))

\* An answer names an activation of the course.
Answers ==
  /\ AnswersFromActive
  /\ \A a \in answers : a.activation \in 1..Len(activations)

\* Content stays under its key unless the disk damages it.
Kept(key, content) ==
  key \in damaged \/ (key \in DOMAIN objects /\ objects[key] = content)

\* Where a request writes an artifact, and what.
Parts(r) == IF Op(r) = "import" THEN SourceParts ELSE ShardParts

StageKey(r, index, part) ==
  CASE Op(r) = "import" -> SourceKey(Command[r].source, part)
    [] Op(r) = "build" -> ShardKey(Command[r].label, part)
    [] OTHER -> RecoveryKey(index.base, index.version + 2, part)

StageContent(r, index, part) ==
  IF Op(r) = "import" THEN SourceContent(r, part) ELSE Of(index.of)

\* What a request at place has staged, apart from what it still has todo.
Staged(r, place, todo, index) ==
  /\ place = "stage" => todo \in Seq(STRING) /\ todo # <<>>
  /\ place \in {"stage", "commit", "heal"} =>
       \A i \in DOMAIN Parts(r) :
         \/ Kept(StageKey(r, index, Parts(r)[i]), StageContent(r, index, Parts(r)[i]))
         \/ place = "stage" /\ \E j \in DOMAIN todo : todo[j] = Parts(r)[i]

StoredRows == \A row \in artifacts : Kept(row.key, row.sha)

Stored ==
  /\ StoredRows
  /\ \A r \in Requests : Staged(r, pc[r], work[r].todo, work[r].index)

=============================================================================
