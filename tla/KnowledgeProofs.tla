--------------------------- MODULE KnowledgeProofs ---------------------------
(***************************************************************************)
(* Theorems about Knowledge, for any processes, requests, sources, labels, *)
(* artifacts of an index and number of starts and faults.                  *)
(***************************************************************************)
EXTENDS Knowledge, FiniteSetTheorems, SequenceTheorems, TLAPS

-----------------------------------------------------------------------------
\* The steps of a request

\* A step of r that leads to place with the variables x.
Local(r, place, x) ==
  /\ pc' = [pc EXCEPT ![r] = place]
  /\ work' = [work EXCEPT ![r] = x]

\* What a step of r to place may do to the load lock of its process.
LockStep(r, place) ==
  \/ Release(r)
  \/ /\ UNCHANGED loading
     /\ Op(r) = "retrieve" /\ pc[r] \in Loading => place \in Loading
  \/ /\ place = "restore" /\ Op(r) = "retrieve"
     /\ loading' = [loading EXCEPT ![At(r)] = r]

RequestStep(r) ==
  \E place, x :
    /\ place \in Places(Op(r)) /\ WorkRecord(x)
    /\ Local(r, place, x) /\ LockStep(r, place)
    /\ tries' \in [Requests -> Nat]
    /\ cache' = [p \in Processes |-> cache'[p]]

\* Rewriting one variable of a request.
LEMMA WorkFields ==
  ASSUME Served, NEW r \in Requests
  PROVE  /\ \A y : [work EXCEPT ![r].index = y]
                     = [work EXCEPT ![r] = [todo |-> work[r].todo, index |-> y,
                                            status |-> work[r].status]]
         /\ \A y : [work EXCEPT ![r].todo = y]
                     = [work EXCEPT ![r] = [todo |-> y, index |-> work[r].index,
                                            status |-> work[r].status]]
         /\ \A y : [work EXCEPT ![r].status = y]
                     = [work EXCEPT ![r] = [todo |-> work[r].todo,
                                            index |-> work[r].index, status |-> y]]
<1>1. WorkRecord(work[r])
  BY DEF Served
<1>2. PICK x : x = work[r]
  OBVIOUS
<1>3. \A y : [x EXCEPT !.index = y] = [todo |-> x.todo, index |-> y, status |-> x.status]
  BY <1>1, <1>2 DEF WorkRecord
<1>4. \A y : [x EXCEPT !.todo = y] = [todo |-> y, index |-> x.index, status |-> x.status]
  BY <1>1, <1>2 DEF WorkRecord
<1>5. \A y : [x EXCEPT !.status = y] = [todo |-> x.todo, index |-> x.index, status |-> y]
  BY <1>1, <1>2 DEF WorkRecord
<1>6. QED
  BY <1>2, <1>3, <1>4, <1>5

\* A request that ends is idle and holds no lock.
LEMMA EndLocal ==
  ASSUME NEW r, End(r)
  PROVE  Local(r, "idle", NoWork) /\ Release(r)
BY DEF End, Goto, Local

\* A request that goes on without touching its variables.
LEMMA GotoLocal ==
  ASSUME Served, NEW r \in Requests, NEW place, Goto(r, place), UNCHANGED work
  PROVE  Local(r, place, work[r])
<1>1. work = [work EXCEPT ![r] = work[r]]
  <2>1. work = [q \in Requests |-> work[q]]
    BY DEF Served
  <2>2. QED
    BY <2>1
<1>2. QED
  BY <1>1 DEF Goto, Local

\* Using an index.
LEMMA UseLocal ==
  ASSUME Served, NEW r \in Requests, NEW index, Use(r, index)
  PROVE  Local(r, "search", [todo |-> work[r].todo, index |-> index,
                             status |-> work[r].status])
BY WorkFields DEF Use, Goto, Local

LEMMA NoWorkRecord == WorkRecord(NoWork)
BY DEF WorkRecord, NoWork

\* Staging an artifact leads on to the next, to the place behind the last, or ends
\* the request.
LEMMA StageLocal ==
  ASSUME Served, NEW r \in Requests, NEW key, NEW content, NEW next,
         StageNext(r, key, content, next)
  PROVE  /\ pc[r] = "stage" /\ UNCHANGED <<artifacts, cache, hot, tries, tables>>
         /\ \/ /\ Local(r, "idle", NoWork) /\ Release(r) /\ UNCHANGED objects
            \/ /\ UNCHANGED loading
               /\ PutAccepted(objects, key, content)
               /\ objects' = PutAtomic(objects, key, content)
               /\ \E place \in {"stage", next} :
                    /\ place = next => Len(work[r].todo) = 1 \/ next = "stage"
                    /\ Local(r, place, [todo |-> Tail(work[r].todo), index |-> work[r].index,
                                        status |-> work[r].status])
<1>1. pc[r] = "stage" /\ UNCHANGED <<artifacts, cache, hot, tries, tables>>
  BY DEF StageNext
<1>2. CASE PutAccepted(objects, key, content)
  <2>1. /\ objects' = PutAtomic(objects, key, content)
        /\ work' = [work EXCEPT ![r].todo = Tail(@)]
        /\ IF Len(work[r].todo) = 1 THEN Goto(r, next) ELSE UNCHANGED pc
        /\ UNCHANGED loading
    BY <1>2 DEF StageNext
  <2>2. work' = [work EXCEPT ![r] = [todo |-> Tail(work[r].todo), index |-> work[r].index,
                                     status |-> work[r].status]]
    BY <2>1, WorkFields
  <2>3. CASE Len(work[r].todo) = 1
    BY <1>1, <1>2, <2>1, <2>2, <2>3 DEF Goto, Local
  <2>4. CASE Len(work[r].todo) # 1
    <3>1. pc' = [pc EXCEPT ![r] = "stage"]
      <4>1. pc = [q \in Requests |-> pc[q]]
        BY DEF Served
      <4>2. QED
        BY <1>1, <2>1, <2>4, <4>1
    <3>2. Local(r, "stage", [todo |-> Tail(work[r].todo), index |-> work[r].index,
                             status |-> work[r].status])
      BY <2>2, <3>1 DEF Local
    <3>3. CASE next = "stage"
      BY <1>1, <1>2, <2>1, <3>2, <3>3
    <3>4. CASE next # "stage"
      BY <1>1, <1>2, <2>1, <3>2, <3>4
    <3>5. QED
      BY <3>3, <3>4
  <2>5. QED
    BY <2>3, <2>4
<1>3. CASE ~PutAccepted(objects, key, content)
  <2>1. End(r) /\ UNCHANGED objects
    BY <1>3 DEF StageNext
  <2>2. QED
    BY <1>1, <2>1, EndLocal
<1>4. QED
  BY <1>2, <1>3

\* A request that ends is a step.
LEMMA EndStep ==
  ASSUME Served, NEW r \in Requests, End(r), UNCHANGED tries,
         UNCHANGED cache
  PROVE  RequestStep(r)
<1>1. Local(r, "idle", NoWork) /\ Release(r) /\ WorkRecord(NoWork) /\ "idle" \in Places(Op(r))
  BY EndLocal, NoWorkRecord DEF Places
<1>2. tries' \in [Requests -> Nat] /\ cache' = [p \in Processes |-> cache'[p]]
  BY DEF Served
<1>3. QED
  BY <1>1, <1>2 DEF RequestStep, LockStep

\* So is one that goes on to a place of its handler where it needs no lock.
LEMMA OnwardStep ==
  ASSUME Served, NEW r \in Requests, NEW place \in Places(Op(r)), NEW x,
         WorkRecord(x), Local(r, place, x), UNCHANGED <<loading, tries, cache>>,
         Op(r) = "retrieve" /\ pc[r] \in Loading => place \in Loading
  PROVE  RequestStep(r)
<1>1. tries' \in [Requests -> Nat] /\ cache' = [p \in Processes |-> cache'[p]]
  BY DEF Served
<1>2. QED
  BY <1>1 DEF RequestStep, LockStep

LEMMA OpTypes ==
  ASSUME NEW r \in Requests
  PROVE  /\ Op(r) \in {"import", "build", "retrieve"}
         /\ At(r) \in Processes
         /\ Op(r) = "import" => Places(Op(r)) = {"idle", "read", "check", "stage", "commit"}
         /\ Op(r) = "build" => Places(Op(r)) = {"idle", "read", "check", "chunks", "stage",
                                                "commit", "activate"}
         /\ Op(r) = "retrieve" => Places(Op(r)) = {"idle", "lookup", "lock", "restore",
                                                   "stage", "heal", "search", "answer"}
BY KnowledgeAssumption, Zenon DEF Places

\* Staging is a step.
LEMMA StageStep ==
  ASSUME Served, NEW r \in Requests, NEW key, NEW content, NEW next \in Places(Op(r)),
         StageNext(r, key, content, next),
         Op(r) = "retrieve" => next \in Loading
  PROVE  RequestStep(r)
<1>1. pc[r] = "stage" /\ UNCHANGED <<cache, tries>>
  BY StageLocal
<1>2. CASE Local(r, "idle", NoWork) /\ Release(r)
  <2>1. tries' \in [Requests -> Nat] /\ cache' = [p \in Processes |-> cache'[p]]
    BY <1>1 DEF Served
  <2>2. "idle" \in Places(Op(r))
    BY OpTypes
  <2>3. QED
    BY <1>2, <2>1, <2>2, NoWorkRecord DEF RequestStep, LockStep
<1>3. ASSUME NEW place \in {"stage", next}, UNCHANGED loading,
             Local(r, place, [todo |-> Tail(work[r].todo), index |-> work[r].index,
                              status |-> work[r].status])
      PROVE  RequestStep(r)
  <2>1. PICK x : x = [todo |-> Tail(work[r].todo), index |-> work[r].index,
                      status |-> work[r].status]
    OBVIOUS
  <2>2. WorkRecord(x)
    BY <2>1 DEF WorkRecord
  <2>3. place \in Places(Op(r))
    <3>1. pc[r] \in Places(Op(r))
      BY DEF Served
    <3>2. QED
      BY <1>1, <1>3, <3>1
  <2>4. Op(r) = "retrieve" => place \in Loading
    BY <1>3 DEF Loading
  <2>5. QED
    BY <1>1, <1>3, <2>1, <2>2, <2>3, <2>4, OnwardStep
<1>4. QED
  BY <1>2, <1>3, StageLocal

\* Loading an index ends the load and releases the lock.
LEMMA LoadedStep ==
  ASSUME Served, NEW r \in Requests, Op(r) = "retrieve", NEW version, NEW content,
         NEW degraded, Loaded(r, version, content, degraded), UNCHANGED tries
  PROVE  RequestStep(r)
<1>1. PICK index : index = Cached(Index(r).base, Index(r).activation, version, content,
                                  degraded)
  OBVIOUS
<1>2. cache' = [cache EXCEPT ![At(r)] = index] /\ Use(r, index) /\ Release(r)
  BY <1>1 DEF Loaded
<1>3. PICK x : x = [todo |-> work[r].todo, index |-> index, status |-> work[r].status]
  OBVIOUS
<1>4. Local(r, "search", x) /\ WorkRecord(x)
  BY <1>2, <1>3, UseLocal DEF WorkRecord
<1>5. tries' \in [Requests -> Nat] /\ cache' = [p \in Processes |-> cache'[p]]
  BY <1>2 DEF Served
<1>6. "search" \in Places(Op(r))
  BY OpTypes
<1>7. QED
  BY <1>2, <1>4, <1>5, <1>6 DEF RequestStep, LockStep

-----------------------------------------------------------------------------
\* The load lock

\* Every step of a handler moves its request only, along its handler.
LEMMA HandlerStep ==
  ASSUME Served, NEW r \in Requests,
         Start(r) \/ Serve(r) \/ SearchTimesOut(r) \/ RebuildFails(r)
  PROVE  RequestStep(r)
<1>0. /\ pc[r] \in Places(Op(r)) /\ WorkRecord(work[r]) /\ At(r) \in Processes
      /\ Op(r) \in {"import", "build", "retrieve"}
  BY OpTypes DEF Served
<1>1. CASE Start(r)
  <2>1. PICK place : place = IF Op(r) = "retrieve" THEN "lookup" ELSE "read"
    OBVIOUS
  <2>2. Goto(r, place) /\ UNCHANGED <<work, cache, loading>>
        /\ tries' = [tries EXCEPT ![r] = @ + 1] /\ pc[r] = "idle"
    BY <1>1, <2>1 DEF Start, Begin, locals
  <2>3. Local(r, place, work[r]) /\ place \in Places(Op(r))
    BY <1>0, <2>1, <2>2, GotoLocal, OpTypes
  <2>4. tries' \in [Requests -> Nat] /\ cache' = [p \in Processes |-> cache'[p]]
    BY <2>2 DEF Served
  <2>5. LockStep(r, place)
    BY <2>2 DEF LockStep, Loading
  <2>6. QED
    BY <1>0, <2>3, <2>4, <2>5 DEF RequestStep
<1>2. CASE ReadInputs(r)
  <2>1. CASE End(r)
    BY <1>2, <2>1, EndStep DEF ReadInputs
  <2>2. CASE Goto(r, "check") /\ UNCHANGED <<work, loading>>
    <3>1. Op(r) # "retrieve" /\ "check" \in Places(Op(r))
      BY <1>0, <1>2, OpTypes DEF ReadInputs
    <3>2. QED
      BY <1>0, <1>2, <2>2, <3>1, GotoLocal, OnwardStep DEF ReadInputs
  <2>3. QED
    BY <1>2, <2>1, <2>2 DEF ReadInputs
<1>3. CASE CheckKey(r)
  <2>0. Op(r) # "retrieve"
    BY <1>0, <1>3, OpTypes DEF CheckKey
  <2>1. CASE End(r)
    BY <1>3, <2>1, EndStep DEF CheckKey
  <2>2. CASE Fresh(Key(r))
    <3>1. PICK place : place = IF Op(r) = "import" THEN "stage" ELSE "chunks"
      OBVIOUS
    <3>2. PICK todo : todo = IF Op(r) = "build" THEN <<>> ELSE SourceParts
      OBVIOUS
    <3>3. /\ Goto(r, place) /\ UNCHANGED <<loading, tries, cache>>
          /\ work' = [work EXCEPT ![r].todo = todo]
      BY <1>3, <2>2, <3>1, <3>2 DEF CheckKey
    <3>4. PICK x : x = [todo |-> todo, index |-> work[r].index, status |-> work[r].status]
      OBVIOUS
    <3>5. Local(r, place, x) /\ WorkRecord(x)
      BY <3>3, <3>4, WorkFields DEF Goto, Local, WorkRecord
    <3>6. place \in Places(Op(r))
      BY <1>0, <2>0, <3>1, OpTypes
    <3>7. QED
      BY <2>0, <3>3, <3>5, <3>6, OnwardStep
  <2>3. QED
    BY <1>3, <2>1, <2>2 DEF CheckKey
<1>4. CASE StageSource(r)
  BY <1>4, OpTypes, StageStep DEF StageSource
<1>5. CASE CommitImport(r)
  BY <1>5, EndStep DEF CommitImport
<1>6. CASE BuildChunks(r)
  <2>0. Op(r) = "build"
    BY <1>0, <1>6, OpTypes DEF BuildChunks
  <2>1. CASE End(r)
    BY <1>6, <2>1, EndStep DEF BuildChunks
  <2>2. CASE Goto(r, "stage") /\ UNCHANGED loading
             /\ work' = [work EXCEPT ![r] =
                  [todo |-> ShardParts, status |-> "NONE",
                   index |-> Cached(NoBase, 0, 0, Command[r].sources, FALSE)]]
    <3>1. PICK x : x = [todo |-> ShardParts, status |-> "NONE",
                        index |-> Cached(NoBase, 0, 0, Command[r].sources, FALSE)]
      OBVIOUS
    <3>2. Local(r, "stage", x) /\ WorkRecord(x) /\ "stage" \in Places(Op(r))
      BY <2>0, <2>2, <3>1, OpTypes DEF Goto, Local, WorkRecord
    <3>3. UNCHANGED <<loading, tries, cache>>
      BY <1>6, <2>2 DEF BuildChunks
    <3>4. QED
      BY <2>0, <3>2, <3>3, OnwardStep
  <2>3. QED
    BY <1>6, <2>1, <2>2 DEF BuildChunks
<1>7. CASE StageShard(r)
  BY <1>7, OpTypes, StageStep DEF StageShard
<1>8. CASE CommitBuild(r)
  <2>1. CASE End(r)
    BY <1>8, <2>1, EndStep DEF CommitBuild
  <2>2. CASE Goto(r, "activate") /\ UNCHANGED <<work, loading>>
    <3>1. Op(r) = "build" /\ "activate" \in Places(Op(r))
      BY <1>8, OpTypes DEF CommitBuild
    <3>2. QED
      BY <1>0, <1>8, <2>2, <3>1, GotoLocal, OnwardStep DEF CommitBuild
  <2>3. QED
    BY <1>8, <2>1, <2>2 DEF CommitBuild
<1>9. CASE ActivateIndex(r)
  BY <1>9, EndStep DEF ActivateIndex
<1>10. CASE Lookup(r)
  <2>0. Op(r) = "retrieve" /\ pc[r] = "lookup" /\ UNCHANGED <<loading, tries, cache>>
    BY <1>0, <1>10, OpTypes DEF Lookup, locals
  <2>1. ASSUME Use(r, cache[At(r)]) PROVE RequestStep(r)
    <3>1. PICK x : x = [todo |-> work[r].todo, index |-> cache[At(r)],
                        status |-> work[r].status]
      OBVIOUS
    <3>2. Local(r, "search", x) /\ WorkRecord(x) /\ "search" \in Places(Op(r))
      BY <2>0, <2>1, <3>1, UseLocal, OpTypes DEF WorkRecord
    <3>3. QED
      BY <2>0, <3>2, OnwardStep DEF Loading
  <2>2. ASSUME Goto(r, "lock"), UNCHANGED work PROVE RequestStep(r)
    <3>1. "lock" \in Places(Op(r))
      BY <2>0, OpTypes
    <3>2. QED
      BY <1>0, <2>0, <2>2, <3>1, GotoLocal, OnwardStep DEF Loading
  <2>3. QED
    BY <1>10, <2>1, <2>2 DEF Lookup
<1>11. CASE ReadActive(r)
  <2>0. Op(r) = "retrieve" /\ pc[r] = "lock" /\ UNCHANGED <<tries, cache>>
    BY <1>0, <1>11, OpTypes DEF ReadActive
  <2>1. ASSUME Use(r, cache[At(r)]), UNCHANGED loading PROVE RequestStep(r)
    <3>1. PICK x : x = [todo |-> work[r].todo, index |-> cache[At(r)],
                        status |-> work[r].status]
      OBVIOUS
    <3>2. Local(r, "search", x) /\ WorkRecord(x) /\ "search" \in Places(Op(r))
      BY <2>0, <2>1, <3>1, UseLocal, OpTypes DEF WorkRecord
    <3>3. QED
      BY <2>0, <2>1, <3>2, OnwardStep DEF Loading
  <2>2. ASSUME NEW index, loading' = [loading EXCEPT ![At(r)] = r],
               work' = [work EXCEPT ![r].index = index], Goto(r, "restore")
        PROVE  RequestStep(r)
    <3>1. PICK x : x = [todo |-> work[r].todo, index |-> index, status |-> work[r].status]
      OBVIOUS
    <3>2. Local(r, "restore", x) /\ WorkRecord(x) /\ "restore" \in Places(Op(r))
      BY <2>0, <2>2, <3>1, WorkFields, OpTypes DEF Goto, Local, WorkRecord
    <3>3. LockStep(r, "restore")
      BY <2>0, <2>2 DEF LockStep
    <3>4. tries' \in [Requests -> Nat] /\ cache' = [p \in Processes |-> cache'[p]]
      BY <2>0 DEF Served
    <3>5. QED
      BY <3>2, <3>3, <3>4 DEF RequestStep
  <2>3. QED
    BY <1>11, <2>0, <2>1, <2>2, EndStep DEF ReadActive
<1>12. CASE RestoreIndex(r)
  <2>0. Op(r) = "retrieve" /\ pc[r] = "restore" /\ UNCHANGED tries
    BY <1>0, <1>12, OpTypes DEF RestoreIndex
  <2>1. CASE Lost(r) = {}
    BY <1>12, <2>0, <2>1, LoadedStep DEF RestoreIndex
  <2>2. CASE Lost(r) # {}
    <3>1. PICK index : index = Cached(Index(r).base, Index(r).activation, Index(r).version,
                                      Restored(r), FALSE)
      OBVIOUS
    <3>2. PICK x : x = [todo |-> ShardParts, status |-> "NONE", index |-> index]
      OBVIOUS
    <3>3. Local(r, "stage", x) /\ WorkRecord(x) /\ UNCHANGED <<cache, loading>>
      BY <1>12, <2>2, <3>1, <3>2 DEF RestoreIndex, Goto, Local, WorkRecord
    <3>4. "stage" \in Places(Op(r))
      BY <2>0, OpTypes
    <3>5. QED
      BY <2>0, <3>3, <3>4, OnwardStep DEF Loading
  <2>3. QED
    BY <2>1, <2>2
<1>13. CASE StageRecovery(r)
  BY <1>13, OpTypes, StageStep DEF StageRecovery, Loading
<1>14. CASE CommitRecovery(r)
  BY <1>0, <1>14, OpTypes, LoadedStep DEF CommitRecovery
<1>15. ASSUME NEW status, Search(r, status) PROVE RequestStep(r)
  <2>0. Op(r) = "retrieve" /\ pc[r] = "search" /\ UNCHANGED <<loading, tries, cache>>
    BY <1>0, <1>15, OpTypes DEF Search, locals
  <2>1. PICK x : x = [todo |-> work[r].todo, index |-> work[r].index, status |-> status]
    OBVIOUS
  <2>2. Local(r, "answer", x) /\ WorkRecord(x) /\ "answer" \in Places(Op(r))
    BY <1>15, <2>0, <2>1, WorkFields, OpTypes DEF Search, Goto, Local, WorkRecord
  <2>3. QED
    BY <2>0, <2>2, OnwardStep DEF Loading
<1>16. CASE CommitAnswer(r)
  BY <1>16, EndStep DEF CommitAnswer
<1>17. CASE RebuildFails(r)
  BY <1>0, <1>17, OpTypes, LoadedStep DEF RebuildFails, RestoreDegraded
<1>18. CASE SearchTimesOut(r)
  BY <1>15, <1>18 DEF SearchTimesOut
<1>19. QED
  BY <1>1, <1>2, <1>3, <1>4, <1>5, <1>6, <1>7, <1>8, <1>9, <1>10, <1>11, <1>12, <1>13,
     <1>14, <1>15, <1>16, <1>17, <1>18 DEF Serve

LEMMA StepKeepsLock ==
  ASSUME Served, Locked, NEW r \in Requests, RequestStep(r)
  PROVE  Served' /\ Locked'
<1>1. PICK place, x :
        /\ place \in Places(Op(r)) /\ WorkRecord(x)
        /\ Local(r, place, x) /\ LockStep(r, place)
        /\ tries' \in [Requests -> Nat]
        /\ cache' = [p \in Processes |-> cache'[p]]
  BY DEF RequestStep
<1>2. /\ pc' = [pc EXCEPT ![r] = place] /\ work' = [work EXCEPT ![r] = x]
      /\ At(r) \in Processes /\ NoRequest \notin Requests
  BY <1>1, OpTypes, KnowledgeAssumption DEF Local
<1>3. loading' \in [Processes -> Requests \union {NoRequest}]
  BY <1>1, <1>2 DEF LockStep, Release, Served
<1>4. Served'
  <2>1. pc' = [q \in Requests |-> pc'[q]] /\ \A q \in Requests : pc'[q] \in Places(Op(q))
    BY <1>1, <1>2 DEF Served
  <2>2. work' = [q \in Requests |-> work'[q]] /\ \A q \in Requests : WorkRecord(work'[q])
    BY <1>1, <1>2 DEF Served
  <2>3. QED
    BY <1>1, <1>3, <2>1, <2>2 DEF Served
<1>5. ASSUME NEW p \in Processes, loading'[p] # NoRequest
      PROVE  /\ At(loading'[p]) = p /\ pc'[loading'[p]] \in Loading
             /\ Op(loading'[p]) = "retrieve"
  <2>1. \A q \in Requests : pc'[q] = IF q = r THEN place ELSE pc[q]
    BY <1>2 DEF Served
  <2>2. loading[p] # NoRequest =>
          /\ loading[p] \in Requests /\ At(loading[p]) = p
          /\ pc[loading[p]] \in Loading /\ Op(loading[p]) = "retrieve"
    BY DEF Locked, LockHeldByLoader, Served, Loading
  <2>3. CASE Release(r)
    <3>1. loading'[p] = loading[p] /\ loading[p] # r
      BY <1>2, <1>5, <2>2, <2>3 DEF Release, Served
    <3>2. QED
      BY <1>5, <2>1, <2>2, <3>1
  <2>4. CASE UNCHANGED loading /\ (Op(r) = "retrieve" /\ pc[r] \in Loading => place \in Loading)
    BY <1>5, <2>1, <2>2, <2>4
  <2>5. CASE /\ place = "restore" /\ Op(r) = "retrieve"
             /\ loading' = [loading EXCEPT ![At(r)] = r]
    <3>1. CASE p = At(r)
      BY <1>2, <2>1, <2>5, <3>1 DEF Served, Loading
    <3>2. CASE p # At(r)
      <4>1. loading'[p] = loading[p] /\ loading[p] # r
        BY <1>2, <1>5, <2>2, <2>5, <3>2 DEF Served
      <4>2. QED
        BY <1>5, <2>1, <2>2, <4>1
    <3>3. QED
      BY <3>1, <3>2
  <2>6. QED
    BY <1>1, <2>3, <2>4, <2>5 DEF LockStep
<1>6. QED
  BY <1>4, <1>5 DEF Locked, LockHeldByLoader, Loading

LEMMA CrashKeepsLock ==
  ASSUME Served, Locked, NEW d \in Processes, Crash(d)
  PROVE  Served' /\ Locked'
<1>1. /\ pc' = [r \in Requests |-> IF At(r) = d THEN "idle" ELSE pc[r]]
      /\ work' = [r \in Requests |-> IF At(r) = d THEN NoWork ELSE work[r]]
      /\ cache' = [cache EXCEPT ![d] = NoIndex]
      /\ loading' = [loading EXCEPT ![d] = NoRequest]
      /\ UNCHANGED tries
  BY DEF Crash
<1>2. \A r \in Requests : "idle" \in Places(Op(r))
  BY OpTypes
<1>3. Served'
  <2>1. pc' = [q \in Requests |-> pc'[q]] /\ \A q \in Requests : pc'[q] \in Places(Op(q))
    BY <1>1, <1>2 DEF Served
  <2>2. work' = [q \in Requests |-> work'[q]] /\ \A q \in Requests : WorkRecord(work'[q])
    BY <1>1, NoWorkRecord DEF Served
  <2>3. tries' \in [Requests -> Nat] /\ cache' = [p \in Processes |-> cache'[p]]
        /\ loading' \in [Processes -> Requests \union {NoRequest}]
    BY <1>1 DEF Served
  <2>4. QED
    BY <2>1, <2>2, <2>3 DEF Served
<1>4. Locked'
  BY <1>1, KnowledgeAssumption DEF Locked, LockHeldByLoader, Served
<1>5. QED
  BY <1>3, <1>4

LEMMA LockStarts == Init => Served /\ Locked
<1> SUFFICES ASSUME Init PROVE Served /\ Locked
  OBVIOUS
<1>1. Served
  BY NoWorkRecord, OpTypes DEF Init, Served
<1>2. Locked
  BY DEF Init, Locked, LockHeldByLoader
<1>3. QED
  BY <1>1, <1>2

LEMMA LockKept == Served /\ Locked /\ [Next]_vars => Served' /\ Locked'
<1> SUFFICES ASSUME Served, Locked, [Next]_vars PROVE Served' /\ Locked'
  OBVIOUS
<1>1. ASSUME NEW r \in Requests,
             Start(r) \/ (Serve(r) /\ UNCHANGED faults) \/ SearchTimesOut(r) \/ RebuildFails(r)
      PROVE  Served' /\ Locked'
  BY <1>1, HandlerStep, StepKeepsLock
<1>2. ASSUME UNCHANGED <<pc, work, tries, cache, loading>>
      PROVE  Served' /\ Locked'
  BY <1>2 DEF Served, Locked, LockHeldByLoader
<1>3. ASSUME NEW key \in DOMAIN objects, Damage(key)
      PROVE  Served' /\ Locked'
  BY <1>2, <1>3 DEF Damage, locals
<1>4. CASE UNCHANGED vars
  BY <1>2, <1>4 DEF vars, locals
<1>5. QED
  BY <1>1, <1>3, <1>4, CrashKeepsLock DEF Next

\* The load lock of a process is held by one of its requests that is still loading, through
\* crashes, failed repairs and lost recovery races (load_active).
THEOREM LoadLockIsFreed == Spec => []LockHeldByLoader
<1>1. Served /\ Locked => LockHeldByLoader
  BY DEF Locked
<1>2. QED
  BY <1>1, LockStarts, LockKept, PTL DEF Spec

-----------------------------------------------------------------------------
\* The rows

Rows == Corpora /\ Manifests /\ Chained /\ Answers

\* Bases are never changed and manifests never withdrawn.
Grown ==
  /\ \A b \in DOMAIN bases : b \in DOMAIN bases' /\ bases'[b] = bases[b]
  /\ \A m \in manifests : m \in manifests'

\* Registering artifacts adds VERIFIED rows and keeps the others.
LEMMA Registering ==
  ASSUME \A row \in artifacts : row.status = "VERIFIED", NEW refs
  PROVE  RegisterVerified(artifacts, refs)
           = artifacts \union
             {[key |-> ref.key, sha |-> ref.sha, status |-> "VERIFIED"] : ref \in refs}
<1> DEFINE new == {[key |-> ref.key, sha |-> ref.sha, status |-> "STAGED"] : ref \in refs}
           moved == {row \in Add(artifacts, refs) :
                       row.status = "STAGED" /\ \E ref \in refs : ref.key = row.key}
<1>1. moved = new
  BY DEF Add
<1>2. RegisterVerified(artifacts, refs)
        = (Add(artifacts, refs) \ new) \union {[row EXCEPT !.status = "VERIFIED"] : row \in new}
  <2>1. <<"STAGED", "VERIFIED">> \in ALLOWED_STATUS_TRANSITIONS
    BY DEF ALLOWED_STATUS_TRANSITIONS
  <2>2. QED
    BY <1>1, <2>1 DEF RegisterVerified, Transition
<1>3. Add(artifacts, refs) \ new = artifacts
  BY DEF Add
<1>4. {[row EXCEPT !.status = "VERIFIED"] : row \in new}
        = {[key |-> ref.key, sha |-> ref.sha, status |-> "VERIFIED"] : ref \in refs}
  <2>1. \A k, h : [[key |-> k, sha |-> h, status |-> "STAGED"] EXCEPT !.status = "VERIFIED"]
                    = [key |-> k, sha |-> h, status |-> "VERIFIED"]
    OBVIOUS
  <2>2. ASSUME NEW x
        PROVE  (\E row \in new : x = [row EXCEPT !.status = "VERIFIED"])
                 <=> \E ref \in refs : x = [key |-> ref.key, sha |-> ref.sha, status |-> "VERIFIED"]
    <3>1. ASSUME NEW row \in new, x = [row EXCEPT !.status = "VERIFIED"]
          PROVE  \E ref \in refs : x = [key |-> ref.key, sha |-> ref.sha, status |-> "VERIFIED"]
      <4>1. PICK ref \in refs : row = [key |-> ref.key, sha |-> ref.sha, status |-> "STAGED"]
        OBVIOUS
      <4>2. x = [key |-> ref.key, sha |-> ref.sha, status |-> "VERIFIED"]
        BY <2>1, <3>1, <4>1
      <4>3. QED
        BY <4>2
    <3>2. ASSUME NEW ref \in refs, x = [key |-> ref.key, sha |-> ref.sha, status |-> "VERIFIED"]
          PROVE  \E row \in new : x = [row EXCEPT !.status = "VERIFIED"]
      <4>1. [key |-> ref.key, sha |-> ref.sha, status |-> "STAGED"] \in new
        OBVIOUS
      <4>2. QED
        BY <2>1, <3>2, <4>1
    <3>3. QED
      BY <3>1, <3>2
  <2>3. QED
    BY <2>2
<1>5. QED
  BY <1>2, <1>3, <1>4

LEMMA RegisteredRows ==
  ASSUME \A row \in artifacts : row.status = "VERIFIED", NEW refs,
         artifacts' = RegisterVerified(artifacts, refs)
  PROVE  /\ \A row \in artifacts' : row.status = "VERIFIED"
         /\ \A row \in artifacts : row \in artifacts'
         /\ \A row \in artifacts' : row \in artifacts
              \/ \E ref \in refs : row.key = ref.key /\ row.sha = ref.sha
         /\ \A ref \in refs : \E row \in artifacts' : row.key = ref.key /\ row.sha = ref.sha
<1>1. PICK new : new = {[key |-> ref.key, sha |-> ref.sha, status |-> "VERIFIED"] : ref \in refs}
  OBVIOUS
<1>2. artifacts' = artifacts \union new
  BY <1>1, Registering
<1>3. \A row \in new : /\ row.status = "VERIFIED"
                       /\ \E ref \in refs : row.key = ref.key /\ row.sha = ref.sha
  BY <1>1
<1>4. ASSUME NEW ref \in refs PROVE \E row \in new : row.key = ref.key /\ row.sha = ref.sha
  <2>1. [key |-> ref.key, sha |-> ref.sha, status |-> "VERIFIED"] \in new
    BY <1>1
  <2>2. QED
    BY <2>1
<1>5. QED
  BY <1>2, <1>3, <1>4

\* A step that leaves the tables of the knowledge bases alone keeps them sound, whatever
\* it registers.
LEMMA RowsKept ==
  ASSUME Rows, UNCHANGED <<bases, chunks, manifests, activations, answers>>,
         \/ UNCHANGED artifacts
         \/ \E refs : artifacts' = RegisterVerified(artifacts, refs)
  PROVE  Rows' /\ Grown
<1>1. Corpora' /\ Manifests' /\ Answers'
  BY DEF Rows, Corpora, Manifests, Answers, AnswersFromActive
<1>2. Chained'
  <2>1. \A row \in artifacts : row.status = "VERIFIED"
    BY DEF Rows, Chained
  <2>2. /\ \A row \in artifacts' : row.status = "VERIFIED"
        /\ \A row \in artifacts : row \in artifacts'
    BY <2>1, RegisteredRows
  <2>3. QED
    BY <2>2 DEF Rows, Chained, Versions, StateOf
<1>3. QED
  BY <1>1, <1>2 DEF Rows, Grown

\* The latest manifest of a base is the last READY one.
LEMMA LatestRow ==
  ASSUME Rows, NEW b \in DOMAIN bases, NEW n \in Versions(b), n % 2 = 0, Versions(b) = 1..n
  PROVE  /\ LatestManifest(b) \in manifests /\ LatestManifest(b).base = b
         /\ LatestManifest(b).version = n /\ n \in Nat /\ n > 1
         /\ LatestManifest(b).state = "READY"
<1>1. PICK m \in manifests : m.base = b /\ m.version = n
  BY DEF Versions
<1>2. \A k \in manifests : k.base = b => k.version \in 1..n
  BY DEF Versions
<1>3. n \in Nat \ {0}
  BY <1>1 DEF Rows, Manifests
<1>4. \A k \in manifests : k.base = b => k.version <= m.version
  BY <1>1, <1>2, <1>3
<1>5. /\ LatestManifest(b) \in manifests /\ LatestManifest(b).base = b
      /\ \A k \in manifests : k.base = b => k.version <= LatestManifest(b).version
  BY <1>1, <1>4 DEF LatestManifest, Latest
<1>6. LatestManifest(b).version = n
  BY <1>1, <1>2, <1>3, <1>5
<1>7. n > 1
  BY <1>3
<1>8. LatestManifest(b).state = "READY"
  BY <1>5, <1>6, <1>7 DEF Rows, Chained, StateOf
<1>9. QED
  BY <1>3, <1>5, <1>6, <1>7, <1>8

-----------------------------------------------------------------------------
\* What processes and requests have in memory

\* A step of r that leaves r and its process with indexes that agree with the rows.
Leap(r) ==
  /\ Grown
  /\ \E place, x : Local(r, place, x) /\ Remembers(r, place, x.index)'
  /\ \A p \in Processes : cache'[p] = cache[p] \/ Answering(cache[p])'

LEMMA Remembered ==
  ASSUME Grown, NEW r, NEW place, NEW index, Remembers(r, place, index)
  PROVE  Remembers(r, place, index)'
BY DEF Grown, Remembers, Answering

LEMMA LeapMemory ==
  ASSUME Served, Memory, NEW r \in Requests, Leap(r)
  PROVE  Memory'
<1>1. PICK place, x : Local(r, place, x) /\ Remembers(r, place, x.index)'
  BY DEF Leap
<1>2. ASSUME NEW p \in Processes, cache'[p].base # NoBase PROVE Answering(cache[p])'
  <2>1. CASE cache'[p] = cache[p]
    <3>1. cache[p].base \in DOMAIN bases /\ cache[p].of = bases[cache[p].base].sources
      BY <1>2, <2>1 DEF Memory, Answering
    <3>2. QED
      BY <2>1, <3>1 DEF Leap, Grown, Answering
  <2>2. QED
    BY <2>1 DEF Leap
<1>3. ASSUME NEW q \in Requests PROVE Remembers(q, pc[q], Index(q))'
  <2>1. CASE q = r
    <3>1. pc'[q] = place /\ work'[q] = x
      BY <1>1, <2>1 DEF Local, Served
    <3>2. QED
      BY <1>1, <2>1, <3>1 DEF Remembers, Index, Answering
  <2>2. CASE q # r
    <3>1. pc'[q] = pc[q] /\ work'[q] = work[q]
      BY <1>1, <2>2 DEF Local, Served
    <3>2. PICK i : i = work[q].index
      OBVIOUS
    <3>3. Remembers(q, pc[q], i)
      BY <3>2 DEF Memory, Index
    <3>4. PICK l : l = pc[q]
      OBVIOUS
    <3>5. Remembers(q, l, i)'
      BY <3>3, <3>4, Remembered DEF Leap
    <3>6. QED
      BY <3>1, <3>2, <3>4, <3>5 DEF Index
  <2>3. QED
    BY <2>1, <2>2
<1>4. QED
  BY <1>2, <1>3 DEF Memory

\* Ending, and staging an artifact, are such steps.
LEMMA EndLeap ==
  ASSUME Served, Grown, NEW r \in Requests, End(r), UNCHANGED cache
  PROVE  Leap(r)
<1>1. Local(r, "idle", NoWork)
  BY EndLocal
<1>2. PICK x : x = NoWork
  OBVIOUS
<1>3. Remembers(r, "idle", x.index)'
  BY DEF Remembers, Loading
<1>4. QED
  BY <1>1, <1>2, <1>3 DEF Leap

\* So is every step to a place where r need not remember more than before.
LEMMA LocalLeap ==
  ASSUME Grown, NEW r \in Requests, NEW place, NEW x, Local(r, place, x), UNCHANGED cache,
         Remembers(r, place, x.index)
  PROVE  Leap(r)
<1>1. PICK i : i = x.index
  OBVIOUS
<1>2. Remembers(r, place, i)'
  BY <1>1, Remembered
<1>3. QED
  BY <1>1, <1>2 DEF Leap

LEMMA StageLeap ==
  ASSUME Served, Memory, Rows, NEW r \in Requests, NEW key, NEW content, NEW next,
         StageNext(r, key, content, next),
         Remembers(r, next, work[r].index)
  PROVE  Leap(r) /\ Rows'
<1>1. pc[r] = "stage" /\ UNCHANGED <<artifacts, cache, bases, chunks, manifests, activations, answers>>
  BY StageLocal DEF tables
<1>2. Rows' /\ Grown
  BY <1>1, RowsKept
<1>3. CASE Local(r, "idle", NoWork)
  <2>1. PICK x : x = NoWork
    OBVIOUS
  <2>2. Remembers(r, "idle", x.index)
    BY DEF Remembers, Loading
  <2>3. QED
    BY <1>1, <1>2, <1>3, <2>1, <2>2, LocalLeap
<1>4. ASSUME NEW place \in {"stage", next},
             Local(r, place, [todo |-> Tail(work[r].todo), index |-> work[r].index,
                              status |-> work[r].status])
      PROVE  Leap(r)
  <2>1. PICK x : x = [todo |-> Tail(work[r].todo), index |-> work[r].index,
                      status |-> work[r].status]
    OBVIOUS
  <2>2. x.index = work[r].index
    BY <2>1
  <2>3. Remembers(r, place, x.index)
    BY <1>1, <2>2 DEF Memory, Index
  <2>4. QED
    BY <1>1, <1>2, <1>4, <2>1, <2>3, LocalLeap
<1>5. QED
  BY <1>2, <1>3, <1>4, StageLocal

\* Loading an index that answers from all the sources of its base.
LEMMA LoadedLeap ==
  ASSUME Served, Grown, NEW r \in Requests, Op(r) = "retrieve", NEW version, NEW content,
         NEW degraded, Loaded(r, version, content, degraded),
         Index(r).base \in DOMAIN bases, content = bases[Index(r).base].sources
  PROVE  Leap(r)
<1>1. PICK index : index = Cached(Index(r).base, Index(r).activation, version, content,
                                  degraded)
  OBVIOUS
<1>2. index.base = Index(r).base /\ index.of = content
  BY <1>1 DEF Cached
<1>3. \A i : i = index => Answering(i)'
  BY <1>2 DEF Answering, Grown
<1>4. cache' = [cache EXCEPT ![At(r)] = index] /\ Use(r, index)
  BY <1>1 DEF Loaded
<1>5. PICK x : x = [todo |-> work[r].todo, index |-> index, status |-> work[r].status]
  OBVIOUS
<1>6. Local(r, "search", x) /\ x.index = index
  BY <1>4, <1>5, UseLocal
<1>7. Remembers(r, "search", x.index)'
  <2>1. Answering(index)'
    BY <1>3
  <2>2. QED
    BY <1>6, <2>1 DEF Remembers, Loading, Answering
<1>8. ASSUME NEW p \in Processes PROVE cache'[p] = cache[p] \/ Answering(cache[p])'
  <2>1. cache'[p] = cache[p] \/ cache'[p] = index
    BY <1>4 DEF Served
  <2>2. QED
    BY <1>3, <2>1 DEF Answering
<1>9. QED
  BY <1>6, <1>7, <1>8 DEF Leap

-----------------------------------------------------------------------------
\* The transactions that change the tables

LEMMA Parity ==
  /\ \A n \in Nat : n % 2 = 0 => (n + 1) % 2 # 0 /\ (n + 2) % 2 = 0
  /\ 2 % 2 = 0
OBVIOUS

LEMMA ShardsExist == \E i : i \in DOMAIN ShardParts
<1>1. ShardParts \in Seq(STRING) /\ ShardParts # <<>>
  BY KnowledgeAssumption
<1>2. Len(ShardParts) \in Nat \ {0} /\ DOMAIN ShardParts = 1..Len(ShardParts)
  BY <1>1, EmptySeq
<1>3. 1 \in DOMAIN ShardParts
  BY <1>2
<1>4. QED
  BY <1>3

LEMMA ManifestFields ==
  \A b, n, state, refs :
    LET m == ManifestRow(b, n, state, refs) IN
    m.base = b /\ m.version = n /\ m.state = state /\ m.shards = refs
BY DEF ManifestRow

\* A build adds a base with its chunks, its two manifests and its activation.
LEMMA BuildRows ==
  ASSUME Rows, NEW r \in Requests, Op(r) = "build", LabelFree(Command[r].label),
         work[r].index.of = Command[r].sources, Activated(r),
         artifacts' = RegisterVerified(artifacts, ShardRefs(r)), UNCHANGED answers
  PROVE  Rows' /\ Grown
<1>1. PICK b : b = Command[r].label
  OBVIOUS
<1>2. b # NoBase /\ b \notin DOMAIN bases
  BY <1>1, KnowledgeAssumption DEF LabelFree, Labels
<1>3. PICK ss : ss = Command[r].sources
  OBVIOUS
<1>4. PICK refs : refs = ShardRefs(r)
  OBVIOUS
<1>5. refs # {} /\ \A ref \in refs : ref.sha = Of(ss)
  <2>1. PICK i : i \in DOMAIN ShardParts
    BY ShardsExist
  <2>2. Ref(ShardKey(Command[r].label, ShardParts[i]), Of(work[r].index.of)) \in refs
    BY <1>4, <2>1 DEF ShardRefs
  <2>3. \A ref \in refs : ref.sha = Of(ss)
    BY <1>3, <1>4 DEF ShardRefs, Ref
  <2>4. QED
    BY <2>2, <2>3
<1>6. PICK first, last : /\ first = ManifestRow(b, 1, "BUILDING", {})
                         /\ last = ManifestRow(b, 2, "READY", refs)
  OBVIOUS
<1>7. /\ bases' = With(bases, b, BaseRow(ss))
      /\ chunks' = With(chunks, b, ss)
      /\ manifests' = manifests \union {first, last}
      /\ activations' = Append(activations, b)
  BY <1>1, <1>3, <1>4, <1>6 DEF Activated, AppendBase, AppendChunks, ChunkRows,
     AppendManifests, AppendActivation
<1>8. /\ DOMAIN bases' = DOMAIN bases \union {b} /\ bases'[b].sources = ss
      /\ \A c \in DOMAIN bases : bases'[c] = bases[c]
  <2>1. PICK row : row = BaseRow(ss)
    OBVIOUS
  <2>2. row.sources = ss
    BY <2>1 DEF BaseRow
  <2>3. QED
    BY <1>2, <1>7, <2>1, <2>2 DEF With
<1>9. Corpora'
  <2>1. DOMAIN chunks' = DOMAIN bases' /\ chunks'[b] = ss
        /\ \A c \in DOMAIN bases : chunks'[c] = chunks[c]
    <3>1. DOMAIN chunks = DOMAIN bases
      BY DEF Rows, Corpora
    <3>2. QED
      BY <1>2, <1>7, <1>8, <3>1 DEF With
  <2>2. activations \in Seq(DOMAIN bases')
    BY <1>8 DEF Rows, Corpora
  <2>3. activations' \in Seq(DOMAIN bases')
    BY <1>7, <1>8, <2>2, AppendProperties
  <2>4. QED
    BY <1>2, <1>8, <2>1, <2>3 DEF Rows, Corpora
<1>10. /\ first.base = b /\ first.version = 1 /\ first.state = "BUILDING" /\ first.shards = {}
       /\ last.base = b /\ last.version = 2 /\ last.state = "READY" /\ last.shards = refs
  BY ManifestFields, <1>6
<1>11. \A m \in manifests : m.base # b
  BY <1>2 DEF Rows, Manifests
<1>12. Manifests'
  <2>1. ASSUME NEW m \in manifests'
        PROVE  /\ m.base \in DOMAIN bases' /\ m.version \in Nat \ {0}
               /\ m.version > 1 => m.shards # {}
               /\ \A ref \in m.shards : ref.sha = Of(bases'[m.base].sources)
    <3>1. CASE m \in manifests
      BY <1>8, <3>1 DEF Rows, Manifests
    <3>2. CASE m = first
      BY <1>8, <1>10, <3>2
    <3>3. CASE m = last
      BY <1>5, <1>8, <1>10, <3>3
    <3>4. QED
      BY <1>7, <3>1, <3>2, <3>3
  <2>2. \A m, n \in manifests' : m.base = n.base /\ m.version = n.version => m = n
    BY <1>7, <1>10, <1>11 DEF Rows, Manifests
  <2>3. QED
    BY <2>1, <2>2 DEF Manifests
<1>13. Chained'
  <2>1. ASSUME NEW c \in DOMAIN bases'
        PROVE  \E n \in Versions(c)' : n % 2 = 0 /\ Versions(c)' = 1..n
    <3>1. CASE c = b
      <4>1. Versions(c)' = 1..2
        BY <1>7, <1>10, <1>11, <3>1 DEF Versions
      <4>2. QED
        BY <4>1, Parity
    <3>2. CASE c # b
      <4>1. {m \in manifests' : m.base = c} = {m \in manifests : m.base = c}
        BY <1>7, <1>10, <3>2
      <4>2. Versions(c)' = Versions(c)
        BY <4>1 DEF Versions
      <4>3. QED
        BY <1>8, <3>2, <4>2 DEF Rows, Chained
    <3>3. QED
      BY <3>1, <3>2
  <2>2. \A m \in manifests' : m.state = StateOf(m.version)
    BY <1>7, <1>10, Parity DEF Rows, Chained, StateOf
  <2>3. /\ \A row \in artifacts' : row.status = "VERIFIED"
        /\ \A row \in artifacts : row \in artifacts'
        /\ \A ref \in refs : \E row \in artifacts' : row.key = ref.key /\ row.sha = ref.sha
    BY <1>4, RegisteredRows DEF Rows, Chained
  <2>4. \A m \in manifests' : \A ref \in m.shards :
          \E row \in artifacts' : row.key = ref.key /\ row.sha = ref.sha
    <3>1. ASSUME NEW m \in manifests', NEW ref \in m.shards
          PROVE  \E row \in artifacts' : row.key = ref.key /\ row.sha = ref.sha
      <4>1. CASE m \in manifests
        BY <2>3, <4>1 DEF Rows, Chained
      <4>2. CASE m = first
        BY <1>10, <4>2
      <4>3. CASE m = last
        BY <1>10, <2>3, <4>3
      <4>4. QED
        BY <1>7, <4>1, <4>2, <4>3
    <3>2. QED
      BY <3>1
  <2>5. QED
    BY <2>1, <2>2, <2>3, <2>4 DEF Chained
<1>14. Answers'
  <2>1. activations \in Seq(DOMAIN bases)
    BY DEF Rows, Corpora
  <2>2. /\ Len(activations) \in Nat /\ Len(activations') = Len(activations) + 1
        /\ \A i \in 1..Len(activations) : activations'[i] = activations[i]
                                         /\ activations[i] \in DOMAIN bases
    <3>1. activations \in Seq(DOMAIN bases') /\ b \in DOMAIN bases'
      BY <1>8, <2>1
    <3>2. QED
      BY <1>7, <2>1, <3>1, AppendProperties, ElementOfSeq
  <2>3. QED
    BY <1>8, <2>2 DEF Rows, Answers, AnswersFromActive
<1>15. QED
  BY <1>7, <1>8, <1>9, <1>12, <1>13, <1>14 DEF Rows, Grown

\* The manifest a repair works on is the one it read.
LEMMA ManifestRead ==
  ASSUME Rows, Memory, NEW r \in Requests, Op(r) = "retrieve", pc[r] \in Loading
  PROVE  /\ Manifest(r) \in manifests /\ Manifest(r).base = Index(r).base
         /\ Manifest(r).version = Index(r).version /\ Index(r).version \in Nat
         /\ Index(r).version > 1 /\ Index(r).base \in DOMAIN bases
         /\ Manifest(r).shards # {}
         /\ \A ref \in Manifest(r).shards : ref.sha = Of(bases[Index(r).base].sources)
<1>1. PICK m \in manifests : /\ m.base = Index(r).base /\ m.version = Index(r).version
                            /\ m.state = "READY" /\ m.version > 1
  BY DEF Memory, Remembers
<1>2. /\ Manifest(r) \in manifests /\ Manifest(r).base = Index(r).base
      /\ Manifest(r).version = Index(r).version
  BY <1>1 DEF Manifest
<1>3. QED
  BY <1>1, <1>2 DEF Rows, Manifests

\* A repair appends a CORRUPTED and a READY manifest behind the latest one.
LEMMA RepairRows ==
  ASSUME Rows, Memory, NEW r \in Requests, Op(r) = "retrieve", pc[r] = "heal", MayHeal(r),
         manifests' = manifests \union Repaired(r),
         artifacts' = RegisterVerified(artifacts, RecoveryRefs(r)),
         UNCHANGED <<bases, chunks, activations, answers>>
  PROVE  Rows' /\ Grown
<1>1. PICK b, n : b = Index(r).base /\ n = Index(r).version
  OBVIOUS
<1>2. PICK old : old = Manifest(r)
  OBVIOUS
<1>3. /\ old \in manifests /\ old.base = b /\ old.version = n /\ n \in Nat /\ n > 1
      /\ b \in DOMAIN bases /\ old.shards # {}
      /\ \A ref \in old.shards : ref.sha = Of(bases[b].sources)
  BY <1>1, <1>2, ManifestRead DEF Loading
<1>4. LatestManifest(b) = old
  BY <1>1, <1>2 DEF MayHeal, StillLatest
<1>5. n % 2 = 0 /\ Versions(b) = 1..n
  <2>1. PICK k \in Versions(b) : k % 2 = 0 /\ Versions(b) = 1..k
    BY <1>3 DEF Rows, Chained
  <2>2. LatestManifest(b).version = k
    BY <1>3, <2>1, LatestRow
  <2>3. QED
    BY <1>3, <1>4, <2>1, <2>2
<1>6. PICK refs : refs = RecoveryRefs(r)
  OBVIOUS
<1>7. refs # {} /\ \A ref \in refs : ref.sha = Of(bases[b].sources)
  <2>1. Index(r).of = bases[b].sources
    BY <1>1 DEF Memory, Remembers, Answering
  <2>2. PICK i : i \in DOMAIN ShardParts
    BY ShardsExist
  <2>3. Ref(RecoveryKey(Index(r).base, Index(r).version + 2, ShardParts[i]), Of(Index(r).of))
          \in refs
    BY <1>6, <2>2 DEF RecoveryRefs
  <2>4. \A ref \in refs : ref.sha = Of(bases[b].sources)
    BY <1>6, <2>1 DEF RecoveryRefs, Ref
  <2>5. QED
    BY <2>3, <2>4
<1>8. PICK first, last : /\ first = ManifestRow(b, n + 1, "CORRUPTED", old.shards)
                         /\ last = ManifestRow(b, n + 2, "READY", refs)
  OBVIOUS
<1>9. manifests' = manifests \union {first, last}
  BY <1>1, <1>2, <1>6, <1>8 DEF Repaired
<1>10. /\ first.base = b /\ first.version = n + 1 /\ first.state = "CORRUPTED"
       /\ first.shards = old.shards
       /\ last.base = b /\ last.version = n + 2 /\ last.state = "READY" /\ last.shards = refs
  BY ManifestFields, <1>8
<1>11. \A m \in manifests : m.base = b => m.version \in 1..n
  BY <1>5 DEF Versions
<1>12. Corpora' /\ Answers'
  BY DEF Rows, Corpora, Answers, AnswersFromActive
<1>13. Manifests'
  <2>1. ASSUME NEW m \in manifests'
        PROVE  /\ m.base \in DOMAIN bases' /\ m.version \in Nat \ {0}
               /\ m.version > 1 => m.shards # {}
               /\ \A ref \in m.shards : ref.sha = Of(bases'[m.base].sources)
    <3>1. CASE m \in manifests
      BY <3>1 DEF Rows, Manifests
    <3>2. CASE m = first
      BY <1>3, <1>10, <3>2
    <3>3. CASE m = last
      BY <1>3, <1>7, <1>10, <3>3
    <3>4. QED
      BY <1>9, <3>1, <3>2, <3>3
  <2>2. \A m, k \in manifests' : m.base = k.base /\ m.version = k.version => m = k
    <3>1. \A m, k \in manifests : m.base = k.base /\ m.version = k.version => m = k
      BY DEF Rows, Manifests
    <3>2. QED
      BY <1>3, <1>9, <1>10, <1>11, <3>1
  <2>3. QED
    BY <2>1, <2>2 DEF Manifests
<1>14. Chained'
  <2>1. ASSUME NEW c \in DOMAIN bases'
        PROVE  \E k \in Versions(c)' : k % 2 = 0 /\ Versions(c)' = 1..k
    <3>1. CASE c = b
      <4>1. {m \in manifests' : m.base = b} = {m \in manifests : m.base = b} \union {first, last}
        BY <1>9, <1>10
      <4>2. Versions(b)' = Versions(b) \union {n + 1, n + 2}
        BY <1>10, <4>1 DEF Versions
      <4>3. Versions(b)' = 1..(n + 2)
        BY <1>3, <1>5, <4>2
      <4>4. (n + 2) % 2 = 0 /\ n + 2 \in Versions(b)'
        BY <1>3, <1>5, <4>2, Parity
      <4>5. QED
        BY <3>1, <4>3, <4>4
    <3>2. CASE c # b
      <4>1. {m \in manifests' : m.base = c} = {m \in manifests : m.base = c}
        BY <1>9, <1>10, <3>2
      <4>2. Versions(c)' = Versions(c)
        BY <4>1 DEF Versions
      <4>3. QED
        BY <3>2, <4>2 DEF Rows, Chained
    <3>3. QED
      BY <3>1, <3>2
  <2>2. \A m \in manifests' : m.state = StateOf(m.version)
    <3>1. StateOf(n + 1) = "CORRUPTED" /\ StateOf(n + 2) = "READY"
      BY <1>3, <1>5, Parity DEF StateOf
    <3>2. QED
      BY <1>9, <1>10, <3>1 DEF Rows, Chained, StateOf
  <2>3. /\ \A row \in artifacts' : row.status = "VERIFIED"
        /\ \A row \in artifacts : row \in artifacts'
        /\ \A ref \in refs : \E row \in artifacts' : row.key = ref.key /\ row.sha = ref.sha
    BY <1>6, RegisteredRows DEF Rows, Chained
  <2>4. \A m \in manifests' : \A ref \in m.shards :
          \E row \in artifacts' : row.key = ref.key /\ row.sha = ref.sha
    <3>1. ASSUME NEW m \in manifests', NEW ref \in m.shards
          PROVE  \E row \in artifacts' : row.key = ref.key /\ row.sha = ref.sha
      <4>1. CASE m \in manifests
        BY <2>3, <4>1 DEF Rows, Chained
      <4>2. CASE m = first
        BY <1>3, <1>10, <2>3, <4>2 DEF Rows, Chained
      <4>3. CASE m = last
        BY <1>10, <2>3, <4>3
      <4>4. QED
        BY <1>9, <4>1, <4>2, <4>3
    <3>2. QED
      BY <3>1
  <2>5. QED
    BY <2>1, <2>2, <2>3, <2>4 DEF Chained
<1>15. QED
  BY <1>9, <1>12, <1>13, <1>14 DEF Rows, Grown

\* An answer is committed only while the base it was searched in is active.
LEMMA AnswerRows ==
  ASSUME Rows, Memory, NEW r \in Requests, Op(r) = "retrieve", pc[r] = "answer", MayAnswer(r),
         AppendAnswer(AnswerRow(r, Index(r).base, work[r].status,
                                EvidenceRows(work[r].status, Index(r).of))),
         UNCHANGED <<bases, chunks, manifests, activations, artifacts>>
  PROVE  Rows' /\ Grown
<1>1. Corpora' /\ Manifests' /\ Chained'
  BY DEF Rows, Corpora, Manifests, Chained, Versions, StateOf
<1>2. PICK row : row = AnswerRow(r, Index(r).base, work[r].status,
                                 EvidenceRows(work[r].status, Index(r).of))
  OBVIOUS
<1>3. /\ row.base = Index(r).base /\ row.status = work[r].status
      /\ row.of = EvidenceRows(work[r].status, Index(r).of)
      /\ row.activation = CurrentActivation
  BY <1>2 DEF AnswerRow
<1>4. answers' = answers \union {row}
  BY <1>2 DEF AppendAnswer
<1>5. /\ row.activation \in 1..Len(activations) /\ row.base = activations[row.activation]
      /\ row.status # "FAILED" => row.of = bases[row.base].sources
  <2>1. activations \in Seq(DOMAIN bases) /\ activations # <<>> /\ ActiveBase = Index(r).base
    BY DEF Rows, Corpora, MayAnswer, StillActive
  <2>2. Len(activations) \in Nat \ {0}
    BY <2>1, EmptySeq
  <2>3. Index(r).of = bases[Index(r).base].sources
    BY DEF Memory, Remembers, Answering
  <2>4. QED
    BY <1>3, <2>1, <2>2, <2>3 DEF ActiveBase, CurrentActivation, EvidenceRows
<1>6. Answers'
  <2>1. \A a \in answers :
          /\ a.activation \in 1..Len(activations) /\ a.base = activations[a.activation]
          /\ a.status # "FAILED" => a.of = bases[a.base].sources
    BY DEF Rows, Answers, AnswersFromActive
  <2>2. \A a \in answers' :
          /\ a.activation \in 1..Len(activations) /\ a.base = activations[a.activation]
          /\ a.status # "FAILED" => a.of = bases[a.base].sources
    BY <1>4, <1>5, <2>1, Zenon
  <2>3. QED
    BY <2>2 DEF Answers, AnswersFromActive
<1>7. QED
  BY <1>1, <1>6 DEF Rows, Grown

-----------------------------------------------------------------------------
\* Answers rest on the active knowledge base

\* A restored index answers from all the sources of its base: from its shards, or from the
\* chunks when one is lost.
LEMMA RestoredSources ==
  ASSUME Rows, Memory, NEW r \in Requests, Op(r) = "retrieve", pc[r] = "restore"
  PROVE  Index(r).base \in DOMAIN bases /\ Restored(r) = bases[Index(r).base].sources
<1>1. PICK ss : ss = bases[Index(r).base].sources
  OBVIOUS
<1>2. PICK old : old = Manifest(r)
  OBVIOUS
<1>3. /\ Index(r).base \in DOMAIN bases /\ old.shards # {}
      /\ \A ref \in old.shards : ref.sha = Of(ss)
  BY <1>1, <1>2, ManifestRead DEF Loading
<1>4. \A ref \in old.shards \ Lost(r) : objects[ref.key].of = ss
  BY <1>2, <1>3 DEF Lost, ReadVerified, Of
<1>5. chunks[Index(r).base] = ss
  BY <1>1, <1>3 DEF Rows, Corpora
<1>6. CASE Lost(r) = {}
  <2>1. UNION {objects[ref.key].of : ref \in old.shards \ Lost(r)} = ss
    BY <1>3, <1>4, <1>6
  <2>2. QED
    BY <1>1, <1>2, <1>3, <1>6, <2>1 DEF Restored
<1>7. CASE Lost(r) # {}
  <2>1. PICK u : u = UNION {objects[ref.key].of : ref \in old.shards \ Lost(r)}
    OBVIOUS
  <2>2. u \subseteq ss
    BY <1>4, <2>1
  <2>3. Restored(r) = u \union ss
    BY <1>2, <1>5, <1>7, <2>1 DEF Restored
  <2>4. u \union ss = ss
    BY <2>2
  <2>5. QED
    BY <1>1, <1>3, <2>3, <2>4
<1>8. QED
  BY <1>6, <1>7

\* A cached index of the active knowledge base answers from it.
LEMMA CachedAnswers ==
  ASSUME Rows, Memory, NEW p \in Processes, CacheCurrent(p)
  PROVE  Answering(cache[p])
<1>1. activations \in Seq(DOMAIN bases) /\ activations # <<>>
  BY DEF Rows, Corpora, CacheCurrent
<1>2. ActiveBase \in DOMAIN bases
  BY <1>1, EmptySeq, ElementOfSeq DEF ActiveBase, CurrentActivation
<1>3. QED
  BY <1>2 DEF Rows, Corpora, Memory, CacheCurrent

LEMMA HandlerRows ==
  ASSUME Served, Rows, Memory, NEW r \in Requests,
         Start(r) \/ Serve(r) \/ SearchTimesOut(r) \/ RebuildFails(r)
  PROVE  Rows' /\ Leap(r)
<1> DEFINE still == UNCHANGED <<bases, chunks, manifests, activations, answers, artifacts>>
<1>0. /\ pc[r] \in Places(Op(r)) /\ At(r) \in Processes
      /\ Op(r) \in {"import", "build", "retrieve"} /\ Remembers(r, pc[r], work[r].index)
  BY OpTypes DEF Served, Memory, Index
<1>a. ASSUME still PROVE Rows' /\ Grown
  BY <1>a, RowsKept
<1>b. ASSUME still, End(r), UNCHANGED cache PROVE Rows' /\ Leap(r)
  BY <1>a, <1>b, EndLeap
<1>c. ASSUME still, NEW place, Goto(r, place), UNCHANGED work, UNCHANGED cache,
             Remembers(r, place, work[r].index)
      PROVE  Rows' /\ Leap(r)
  BY <1>a, <1>c, GotoLocal, LocalLeap
<1>1. CASE Start(r)
  <2>1. PICK place : place = IF Op(r) = "retrieve" THEN "lookup" ELSE "read"
    OBVIOUS
  <2>2. Goto(r, place) /\ UNCHANGED <<work, cache>> /\ still
    BY <1>1, <2>1 DEF Start, Begin, locals, tables, stores
  <2>3. Remembers(r, place, work[r].index)
    BY <2>1 DEF Remembers, Loading
  <2>4. QED
    BY <1>c, <2>2, <2>3
<1>2. CASE ReadInputs(r)
  <2>1. still /\ UNCHANGED cache
    BY <1>2 DEF ReadInputs, tables, stores
  <2>2. CASE End(r)
    BY <1>b, <2>1, <2>2
  <2>3. CASE Goto(r, "check") /\ UNCHANGED work
    <3>1. Remembers(r, "check", work[r].index)
      BY DEF Remembers, Loading
    <3>2. QED
      BY <1>c, <2>1, <2>3, <3>1
  <2>4. QED
    BY <1>2, <2>2, <2>3 DEF ReadInputs
<1>3. CASE CheckKey(r)
  <2>1. still /\ UNCHANGED cache
    BY <1>3 DEF CheckKey, tables, stores
  <2>2. CASE End(r)
    BY <1>b, <2>1, <2>2
  <2>3. CASE Fresh(Key(r))
    <3>1. PICK place : place = IF Op(r) = "import" THEN "stage" ELSE "chunks"
      OBVIOUS
    <3>2. PICK todo : todo = IF Op(r) = "build" THEN <<>> ELSE SourceParts
      OBVIOUS
    <3>3. Goto(r, place) /\ work' = [work EXCEPT ![r].todo = todo]
      BY <1>3, <2>3, <3>1, <3>2 DEF CheckKey
    <3>4. PICK x : x = [todo |-> todo, index |-> work[r].index, status |-> work[r].status]
      OBVIOUS
    <3>5. Local(r, place, x)
      BY <3>3, <3>4, WorkFields DEF Goto, Local
    <3>6. Op(r) # "retrieve"
      BY <1>0, <1>3, OpTypes DEF CheckKey
    <3>7. Remembers(r, place, x.index)
      BY <3>1, <3>6 DEF Remembers
    <3>8. QED
      BY <1>a, <2>1, <3>5, <3>7, LocalLeap
  <2>4. QED
    BY <1>3, <2>2, <2>3 DEF CheckKey
<1>4. CASE StageSource(r)
  <2>1. Remembers(r, "commit", work[r].index)
    BY <1>4 DEF StageSource, Remembers
  <2>2. QED
    BY <1>4, <2>1, StageLeap DEF StageSource
<1>5. CASE CommitImport(r)
  <2>1. /\ UNCHANGED <<bases, chunks, manifests, activations, answers, cache>> /\ End(r)
        /\ UNCHANGED artifacts \/ artifacts' = RegisterVerified(artifacts, SourceRefs(r))
    BY <1>5 DEF CommitImport
  <2>2. Rows' /\ Grown
    BY <2>1, RowsKept
  <2>3. QED
    BY <2>1, <2>2, EndLeap
<1>6. CASE BuildChunks(r)
  <2>1. still /\ UNCHANGED cache
    BY <1>6 DEF BuildChunks, tables, stores
  <2>2. CASE End(r)
    BY <1>b, <2>1, <2>2
  <2>3. CASE Goto(r, "stage")
             /\ work' = [work EXCEPT ![r] =
                  [todo |-> ShardParts, status |-> "NONE",
                   index |-> Cached(NoBase, 0, 0, Command[r].sources, FALSE)]]
    <3>1. PICK x : x = [todo |-> ShardParts, status |-> "NONE",
                        index |-> Cached(NoBase, 0, 0, Command[r].sources, FALSE)]
      OBVIOUS
    <3>2. Local(r, "stage", x)
      BY <2>3, <3>1 DEF Goto, Local
    <3>3. x.index.of = Command[r].sources
      BY <3>1 DEF Cached
    <3>4. Op(r) # "retrieve"
      BY <1>0, <1>6, OpTypes DEF BuildChunks
    <3>5. Remembers(r, "stage", x.index)
      BY <3>3, <3>4 DEF Remembers
    <3>6. QED
      BY <1>a, <2>1, <3>2, <3>5, LocalLeap
  <2>4. QED
    BY <1>6, <2>2, <2>3 DEF BuildChunks
<1>7. CASE StageShard(r)
  <2>1. Remembers(r, "commit", work[r].index)
    BY <1>0, <1>7 DEF StageShard, StageNext, Remembers
  <2>2. QED
    BY <1>7, <2>1, StageLeap DEF StageShard
<1>8. CASE CommitBuild(r)
  <2>0. Op(r) = "build" /\ pc[r] = "commit" /\ UNCHANGED <<answers, cache>>
    BY <1>8 DEF CommitBuild
  <2>1. Remembers(r, "activate", work[r].index)
    BY <2>0 DEF Remembers
  <2>2. CASE Fresh(Key(r)) /\ MayBuild(r) /\ MayRegister(artifacts, ShardRefs(r))
    <3>1. /\ artifacts' = RegisterVerified(artifacts, ShardRefs(r)) /\ Activated(r)
          /\ Goto(r, "activate") /\ UNCHANGED work
      BY <1>8, <2>2 DEF CommitBuild
    <3>2. work[r].index.of = Command[r].sources
      BY <1>0, <2>0 DEF Remembers
    <3>3. Rows' /\ Grown
      BY <2>0, <2>2, <3>1, <3>2, BuildRows DEF MayBuild
    <3>4. QED
      BY <2>0, <2>1, <3>1, <3>3, GotoLocal, LocalLeap
  <2>3. CASE ~(Fresh(Key(r)) /\ MayBuild(r) /\ MayRegister(artifacts, ShardRefs(r)))
    <3>1. still /\ (End(r) \/ (Goto(r, "activate") /\ UNCHANGED work))
      BY <1>8, <2>3 DEF CommitBuild
    <3>2. QED
      BY <1>b, <1>c, <2>0, <2>1, <3>1
  <2>4. QED
    BY <2>2, <2>3
<1>9. CASE ActivateIndex(r)
  <2>1. still /\ UNCHANGED cache /\ End(r)
    BY <1>9 DEF ActivateIndex, tables, stores
  <2>2. QED
    BY <1>b, <2>1
<1>d. ASSUME Op(r) = "retrieve", still, UNCHANGED cache, Use(r, cache[At(r)]),
             CacheCurrent(At(r))
      PROVE  Rows' /\ Leap(r)
  <2>1. PICK x : x = [todo |-> work[r].todo, index |-> cache[At(r)], status |-> work[r].status]
    OBVIOUS
  <2>2. Local(r, "search", x) /\ x.index = cache[At(r)]
    BY <1>d, <2>1, UseLocal
  <2>3. Remembers(r, "search", x.index)
    BY <1>0, <1>d, <2>2, CachedAnswers DEF Remembers, Loading
  <2>4. QED
    BY <1>a, <1>d, <2>2, <2>3, LocalLeap
<1>10. CASE Lookup(r)
  <2>0. Op(r) = "retrieve" /\ still /\ UNCHANGED cache
    BY <1>0, <1>10, OpTypes DEF Lookup, locals, tables, stores
  <2>1. CASE CacheCurrent(At(r))
    BY <1>10, <1>d, <2>0, <2>1 DEF Lookup
  <2>2. CASE ~CacheCurrent(At(r))
    <3>1. Goto(r, "lock") /\ UNCHANGED work
      BY <1>10, <2>2 DEF Lookup
    <3>2. Remembers(r, "lock", work[r].index)
      BY DEF Remembers, Loading
    <3>3. QED
      BY <1>c, <2>0, <3>1, <3>2
  <2>3. QED
    BY <2>1, <2>2
<1>11. CASE ReadActive(r)
  <2>0. Op(r) = "retrieve" /\ still /\ UNCHANGED cache
    BY <1>0, <1>11, OpTypes DEF ReadActive, tables, stores
  <2>1. CASE CacheCurrent(At(r)) /\ Use(r, cache[At(r)])
    BY <1>d, <2>0, <2>1
  <2>2. CASE End(r)
    BY <1>b, <2>0, <2>2
  <2>3. CASE /\ ActiveReady /\ Goto(r, "restore")
             /\ work' = [work EXCEPT ![r].index =
                  Cached(ActiveBase, CurrentActivation, LatestManifest(ActiveBase).version, {},
                         FALSE)]
    <3>1. PICK index : index = Cached(ActiveBase, CurrentActivation,
                                      LatestManifest(ActiveBase).version, {}, FALSE)
      OBVIOUS
    <3>2. PICK x : x = [todo |-> work[r].todo, index |-> index, status |-> work[r].status]
      OBVIOUS
    <3>3. Local(r, "restore", x) /\ x.index = index
      BY <2>3, <3>1, <3>2, WorkFields DEF Goto, Local
    <3>4. activations \in Seq(DOMAIN bases) /\ activations # <<>>
      BY <2>3 DEF Rows, Corpora, ActiveReady
    <3>5. PICK b \in DOMAIN bases : b = ActiveBase
      BY <3>4, EmptySeq, ElementOfSeq DEF ActiveBase, CurrentActivation
    <3>6. PICK n \in Versions(b) : n % 2 = 0 /\ Versions(b) = 1..n
      BY DEF Rows, Chained
    <3>7. /\ LatestManifest(b) \in manifests /\ LatestManifest(b).base = b
          /\ LatestManifest(b).version > 1 /\ LatestManifest(b).state = "READY"
      BY <3>6, LatestRow
    <3>8. index.base = b /\ index.version = LatestManifest(b).version
      BY <3>1, <3>5 DEF Cached
    <3>9. Remembers(r, "restore", x.index)
      BY <2>0, <3>3, <3>7, <3>8 DEF Remembers, Loading
    <3>10. QED
      BY <1>a, <2>0, <3>3, <3>9, LocalLeap
  <2>4. QED
    BY <1>11, <2>1, <2>2, <2>3 DEF ReadActive
<1>12. CASE RestoreIndex(r)
  <2>0. Op(r) = "retrieve" /\ pc[r] = "restore" /\ still
    BY <1>0, <1>12, OpTypes DEF RestoreIndex, tables, stores
  <2>1. Index(r).base \in DOMAIN bases /\ Restored(r) = bases[Index(r).base].sources
    BY <2>0, RestoredSources
  <2>2. CASE Lost(r) = {}
    BY <1>12, <1>a, <2>0, <2>1, <2>2, LoadedLeap DEF RestoreIndex
  <2>3. CASE Lost(r) # {}
    <3>1. PICK index : index = Cached(Index(r).base, Index(r).activation, Index(r).version,
                                      Restored(r), FALSE)
      OBVIOUS
    <3>2. PICK x : x = [todo |-> ShardParts, status |-> "NONE", index |-> index]
      OBVIOUS
    <3>3. Local(r, "stage", x) /\ UNCHANGED cache /\ x.index = index
      BY <1>12, <2>3, <3>1, <3>2 DEF RestoreIndex, Goto, Local
    <3>4. /\ index.base = Index(r).base /\ index.version = Index(r).version
          /\ index.of = Restored(r)
      BY <3>1 DEF Cached
    <3>5. Remembers(r, "stage", x.index)
      BY <1>0, <2>0, <2>1, <3>3, <3>4 DEF Remembers, Answering, Loading, Index
    <3>6. QED
      BY <1>a, <2>0, <3>3, <3>5, LocalLeap
  <2>4. QED
    BY <2>2, <2>3
<1>13. CASE StageRecovery(r)
  <2>1. Remembers(r, "heal", work[r].index)
    BY <1>0, <1>13 DEF StageRecovery, StageNext, Remembers, Loading
  <2>2. QED
    BY <1>13, <2>1, StageLeap DEF StageRecovery
<1>14. CASE CommitRecovery(r)
  <2>0. Op(r) = "retrieve" /\ pc[r] = "heal"
    BY <1>0, <1>14, OpTypes DEF CommitRecovery
  <2>1. Index(r).base \in DOMAIN bases /\ Index(r).of = bases[Index(r).base].sources
    BY <1>0, <2>0 DEF Remembers, Answering, Index
  <2>2. UNCHANGED <<bases, chunks, activations, answers>>
        /\ \E version : Loaded(r, version, Index(r).of, FALSE)
    BY <1>14 DEF CommitRecovery
  <2>3. Rows' /\ Grown
    <3>1. CASE MayHeal(r) /\ Healed(r)
      BY <2>0, <2>2, <3>1, RepairRows DEF Healed, Register, AppendManifests
    <3>2. CASE UNCHANGED <<artifacts, manifests>>
      BY <1>a, <2>2, <3>2
    <3>3. QED
      BY <1>14, <3>1, <3>2 DEF CommitRecovery
  <2>4. QED
    BY <2>0, <2>1, <2>2, <2>3, LoadedLeap
<1>15. ASSUME NEW status, Search(r, status) PROVE Rows' /\ Leap(r)
  <2>0. Op(r) = "retrieve" /\ pc[r] = "search" /\ still /\ UNCHANGED cache
    BY <1>0, <1>15, OpTypes DEF Search, locals, tables, stores
  <2>1. PICK x : x = [todo |-> work[r].todo, index |-> work[r].index, status |-> status]
    OBVIOUS
  <2>2. Local(r, "answer", x) /\ x.index = work[r].index
    BY <1>15, <2>1, WorkFields DEF Search, Goto, Local
  <2>3. Remembers(r, "answer", x.index)
    BY <1>0, <2>0, <2>2 DEF Remembers, Loading
  <2>4. QED
    BY <1>a, <2>0, <2>2, <2>3, LocalLeap
<1>16. CASE CommitAnswer(r)
  <2>0. /\ Op(r) = "retrieve" /\ pc[r] = "answer" /\ End(r)
        /\ UNCHANGED <<bases, chunks, manifests, activations, artifacts, cache>>
    BY <1>0, <1>16, OpTypes DEF CommitAnswer, stores
  <2>1. CASE Fresh(Key(r)) /\ MayAnswer(r)
    BY <1>16, <2>0, <2>1, AnswerRows, EndLeap DEF CommitAnswer
  <2>2. CASE ~(Fresh(Key(r)) /\ MayAnswer(r))
    BY <1>16, <1>b, <2>0, <2>2 DEF CommitAnswer
  <2>3. QED
    BY <2>1, <2>2
<1>17. CASE RebuildFails(r)
  <2>0. Op(r) = "retrieve" /\ pc[r] = "restore" /\ still
    BY <1>0, <1>17, OpTypes DEF RebuildFails, RestoreDegraded, tables, stores
  <2>1. Loaded(r, Index(r).version, Restored(r), TRUE)
    BY <1>17 DEF RebuildFails, RestoreDegraded
  <2>2. QED
    BY <1>a, <2>0, <2>1, RestoredSources, LoadedLeap
<1>18. CASE SearchTimesOut(r)
  BY <1>15, <1>18 DEF SearchTimesOut
<1>19. QED
  BY <1>1, <1>2, <1>3, <1>4, <1>5, <1>6, <1>7, <1>8, <1>9, <1>10, <1>11, <1>12, <1>13,
     <1>14, <1>15, <1>16, <1>17, <1>18 DEF Serve

RowsInv == Served /\ Rows /\ Memory

LEMMA RowsStart == Init => Rows /\ Memory
<1> SUFFICES ASSUME Init PROVE Rows /\ Memory
  OBVIOUS
<1>1. Corpora /\ Manifests
  BY DEF Init, Corpora, Manifests
<1>2. Chained /\ Answers
  BY DEF Init, Chained, Answers, AnswersFromActive
<1>3. Memory
  <2>1. \A p \in Processes : cache[p].base = NoBase
    BY DEF Init, NoIndex, Cached
  <2>2. \A r \in Requests : pc[r] = "idle"
    BY DEF Init
  <2>3. QED
    BY <2>1, <2>2 DEF Memory, Remembers, Loading
<1>4. QED
  BY <1>1, <1>2, <1>3 DEF Rows

LEMMA RowsStay ==
  ASSUME RowsInv, Locked, [Next]_vars
  PROVE  RowsInv'
<1>0. Served' /\ Served /\ Rows /\ Memory
  BY LockKept DEF RowsInv
<1>1. ASSUME NEW r \in Requests,
             Start(r) \/ (Serve(r) /\ UNCHANGED faults) \/ SearchTimesOut(r) \/ RebuildFails(r)
      PROVE  RowsInv'
  <2>1. Rows' /\ Leap(r)
    BY <1>0, <1>1, HandlerRows
  <2>2. QED
    BY <1>0, <2>1, LeapMemory DEF RowsInv
<1>2. ASSUME UNCHANGED <<bases, chunks, manifests, activations, answers, artifacts>>
      PROVE  Rows' /\ Grown
  BY <1>0, <1>2, RowsKept
<1>3. ASSUME NEW d \in Processes, Crash(d) PROVE RowsInv'
  <2>1. UNCHANGED <<bases, chunks, manifests, activations, answers, artifacts>>
        /\ cache' = [cache EXCEPT ![d] = NoIndex]
        /\ pc' = [r \in Requests |-> IF At(r) = d THEN "idle" ELSE pc[r]]
        /\ work' = [r \in Requests |-> IF At(r) = d THEN NoWork ELSE work[r]]
    BY <1>3 DEF Crash, tables, stores
  <2>2. Rows'
    BY <1>2, <2>1
  <2>3. \A p \in Processes : cache'[p].base # NoBase => Answering(cache[p])'
    <3>1. NoIndex.base = NoBase
      BY DEF NoIndex, Cached
    <3>2. QED
      BY <1>0, <2>1, <3>1 DEF Served, Memory, Answering
  <2>4. ASSUME NEW r \in Requests PROVE Remembers(r, pc[r], Index(r))'
    <3>1. CASE At(r) = d
      BY <2>1, <3>1 DEF Remembers, Loading
    <3>2. CASE At(r) # d
      <4>1. pc'[r] = pc[r] /\ work'[r] = work[r]
        BY <2>1, <3>2
      <4>2. QED
        BY <1>0, <2>1, <4>1 DEF Memory, Remembers, Index, Answering
    <3>3. QED
      BY <3>1, <3>2
  <2>5. QED
    BY <1>0, <2>2, <2>3, <2>4 DEF RowsInv, Memory
<1>4. ASSUME UNCHANGED <<bases, chunks, manifests, activations, answers, artifacts, cache, pc, work>>
      PROVE  RowsInv'
  <2>1. Rows'
    BY <1>2, <1>4
  <2>2. Memory'
    BY <1>0, <1>4 DEF Memory, Remembers, Index, Answering
  <2>3. QED
    BY <1>0, <2>1, <2>2 DEF RowsInv
<1>5. ASSUME NEW key \in DOMAIN objects, Damage(key) PROVE RowsInv'
  BY <1>4, <1>5 DEF Damage, locals, tables
<1>6. CASE UNCHANGED vars
  BY <1>4, <1>6 DEF vars, locals, tables, stores
<1>7. QED
  BY <1>1, <1>3, <1>5, <1>6 DEF Next

LEMMA RowsAlways == Spec => [](RowsInv /\ Locked)
<1>1. Init => RowsInv /\ Locked
  BY LockStarts, RowsStart DEF RowsInv
<1>2. RowsInv /\ Locked /\ [Next]_vars => (RowsInv /\ Locked)'
  BY LockKept, RowsStay DEF RowsInv
<1>3. QED
  BY <1>1, <1>2, PTL DEF Spec

\* Evidence rests on the knowledge base that was active when it was committed, and on all of
\* its sources and no other, although the index it was found in was read, restored from
\* objects that may be lost, repaired and cached before (retrieve_claim).
THEOREM AnswersRestOnActive == Spec => []AnswersFromActive
<1>1. RowsInv => AnswersFromActive
  BY DEF RowsInv, Rows, Answers
<1>2. QED
  BY <1>1, RowsAlways, PTL

LEMMA ChainFromRows == RowsInv => ReadyChain
<1> SUFFICES ASSUME RowsInv, NEW b \in DOMAIN bases, NEW rows,
                    rows = {m \in manifests : m.base = b}
             PROVE  /\ {m.version : m \in rows} = 1..Cardinality(rows)
                    /\ \A m \in rows : m.state = StateOf(m.version)
                    /\ Cardinality(rows) % 2 = 0
                    /\ \A ref \in Latest(rows, b).shards :
                         \E row \in artifacts : /\ row.key = ref.key /\ row.sha = ref.sha
                                               /\ row.status = "VERIFIED"
  BY DEF ReadyChain, StateOf
<1>1. PICK n \in Versions(b) : n % 2 = 0 /\ Versions(b) = 1..n
  BY DEF RowsInv, Rows, Chained
<1>2. /\ LatestManifest(b) \in manifests /\ LatestManifest(b).base = b
      /\ LatestManifest(b).version = n /\ n \in Nat
  BY <1>1, LatestRow DEF RowsInv
<1>3. {m.version : m \in rows} = 1..n
  BY <1>1 DEF Versions
<1>4. Cardinality(rows) = n
  <2> DEFINE f == [v \in 1..n |-> CHOOSE m \in rows : m.version = v]
  <2>1. \A v \in 1..n : f[v] \in rows /\ f[v].version = v
    BY <1>3
  <2>2. f \in [1..n -> rows]
    BY <2>1
  <2>3. \A m, k \in rows : m.version = k.version => m = k
    BY DEF RowsInv, Rows, Manifests
  <2>4. \A m \in rows : \E v \in 1..n : f[v] = m
    BY <1>3, <2>1, <2>3
  <2>5. f \in Bijection(1..n, rows)
    BY <2>1, <2>2, <2>4 DEF Bijection, Injection, Surjection, IsInjective
  <2>6. ExistsBijection(1..n, rows)
    BY <2>5 DEF ExistsBijection
  <2>7. IsFiniteSet(1..n) /\ Cardinality(1..n) = n
    BY <1>2, FS_Interval
  <2>8. QED
    BY <2>6, <2>7, FS_Bijection
<1>5. \A m \in rows : m.state = StateOf(m.version)
  BY DEF RowsInv, Rows, Chained
<1>6. Latest(rows, b) \in manifests
  <2>1. \A k \in rows : k.base = b => k.version <= n
    BY <1>2, <1>3
  <2>2. LatestManifest(b) \in rows
    BY <1>2
  <2>3. QED
    BY <1>2, <2>1, <2>2 DEF Latest
<1>7. \A ref \in Latest(rows, b).shards :
        \E row \in artifacts : /\ row.key = ref.key /\ row.sha = ref.sha
                              /\ row.status = "VERIFIED"
  BY <1>6 DEF RowsInv, Rows, Chained
<1>8. QED
  BY <1>1, <1>3, <1>4, <1>5, <1>7

\* The manifests of a base are BUILDING, READY and then pairs of CORRUPTED and READY, one row
\* per version, and the last one is READY with registered shards: however many processes
\* load, repair and crash, the next load finds a manifest it accepts.
THEOREM ManifestsEndReady == Spec => []ReadyChain
<1>1. QED
  BY ChainFromRows, RowsAlways, PTL

-----------------------------------------------------------------------------
\* What is registered is stored

\* Nothing that is kept under its key is replaced.
Persists ==
  \A key, content : Kept(key, content) => Kept(key, content)'

LEMMA QuietPersists ==
  ASSUME UNCHANGED <<objects, damaged>>
  PROVE  Persists
BY DEF Persists, Kept

\* Staging changes no object that is there.
LEMMA PutPersists ==
  ASSUME UNCHANGED damaged, NEW key, NEW content, PutAccepted(objects, key, content),
         objects' = PutAtomic(objects, key, content)
  PROVE  Persists /\ Kept(key, content)'
<1>1. /\ DOMAIN objects' = DOMAIN objects \union {key} /\ objects'[key] = content
      /\ \A k \in DOMAIN objects : objects'[k] = objects[k]
  BY DEF PutAccepted, PutAtomic, With
<1>2. QED
  BY <1>1 DEF Persists, Kept

\* Damage is remembered.
LEMMA DamagePersists ==
  ASSUME NEW d \in DOMAIN objects, Damage(d)
  PROVE  Persists
<1>1. damaged' = damaged \union {d}
  BY DEF Damage
<1>2. \A k \in DOMAIN objects : k # d => k \in DOMAIN objects' /\ objects'[k] = objects[k]
  BY DEF Damage
<1>3. QED
  BY <1>1, <1>2 DEF Persists, Kept

LEMMA RowsStored ==
  ASSUME Stored, Rows, Persists, NEW refs,
         UNCHANGED artifacts \/ artifacts' = RegisterVerified(artifacts, refs),
         \A ref \in refs : Kept(ref.key, ref.sha)
  PROVE  StoredRows'
<1>1. ASSUME NEW row \in artifacts' PROVE Kept(row.key, row.sha)
  <2>1. CASE row \in artifacts
    BY <2>1 DEF Stored, StoredRows
  <2>2. CASE row \notin artifacts
    <3>1. \A old \in artifacts : old.status = "VERIFIED"
      BY DEF Rows, Chained
    <3>2. PICK ref \in refs : row.key = ref.key /\ row.sha = ref.sha
      BY <1>1, <2>2, <3>1, RegisteredRows
    <3>3. QED
      BY <3>2
  <2>3. QED
    BY <2>1, <2>2
<1>2. QED
  BY <1>1 DEF Persists, StoredRows

LEMMA StagedStays ==
  ASSUME Persists, NEW q \in Requests, NEW place, NEW todo, NEW index, tries'[q] = tries[q],
         Staged(q, place, todo, index)
  PROVE  Staged(q, place, todo, index)'
<1>1. \A part : StageContent(q, index, part)' = StageContent(q, index, part)
  BY DEF StageContent, SourceContent
<1>2. ASSUME NEW part, Kept(StageKey(q, index, part), StageContent(q, index, part))
      PROVE  Kept(StageKey(q, index, part), StageContent(q, index, part))'
  <2>1. PICK key, content :
          key = StageKey(q, index, part) /\ content = StageContent(q, index, part)
    OBVIOUS
  <2>2. Kept(key, content)'
    BY <1>2, <2>1 DEF Persists
  <2>3. content = StageContent(q, index, part)'
    BY <1>1, <2>1
  <2>4. QED
    BY <2>1, <2>2, <2>3
<1>3. QED
  BY <1>2 DEF Staged

\* A step of r that keeps objects and rows together.
StoreStep(r) ==
  /\ Persists /\ StoredRows'
  /\ \A q \in Requests : q # r => tries'[q] = tries[q]
  /\ Staged(r, pc[r], work[r].todo, work[r].index)'

Staging == {"stage", "commit", "heal"}

\* A transaction that registers artifacts that are stored, and ends or goes on behind them.
LEMMA RegisterStores ==
  ASSUME Rows, Stored, NEW r \in Requests, UNCHANGED <<objects, damaged>>,
         UNCHANGED tries \/ (Served /\ tries' = [tries EXCEPT ![r] = tries[r] + 1]), NEW refs,
         UNCHANGED artifacts \/ artifacts' = RegisterVerified(artifacts, refs),
         \A ref \in refs : Kept(ref.key, ref.sha),
         pc'[r] \notin Staging
  PROVE  StoreStep(r)
<1>1. Persists
  BY QuietPersists
<1>2. StoredRows'
  BY <1>1, RowsStored
<1>3. \A q \in Requests : q # r => tries'[q] = tries[q]
  BY DEF Served
<1>4. Staged(r, pc[r], work[r].todo, work[r].index)'
  BY DEF Staged, Staging
<1>5. QED
  BY <1>1, <1>2, <1>3, <1>4 DEF StoreStep

LEMMA QuietStores ==
  ASSUME Rows, Stored, NEW r \in Requests, UNCHANGED <<objects, artifacts, damaged>>,
         UNCHANGED tries \/ (Served /\ tries' = [tries EXCEPT ![r] = tries[r] + 1]),
         pc'[r] \notin Staging
  PROVE  StoreStep(r)
<1>1. PICK refs : refs = {}
  OBVIOUS
<1>2. \A ref \in refs : Kept(ref.key, ref.sha)
  BY <1>1
<1>3. QED
  BY <1>2, RegisterStores

\* A request that is about to stage all its artifacts.
LEMMA EnterStage ==
  ASSUME Rows, Stored, NEW r \in Requests, UNCHANGED <<objects, artifacts, tries, damaged>>,
         pc'[r] = "stage", work'[r].todo = Parts(r)
  PROVE  StoreStep(r)
<1>1. Persists
  BY QuietPersists
<1>2. StoredRows'
  <2>1. PICK refs : refs = {}
    OBVIOUS
  <2>2. \A ref \in refs : Kept(ref.key, ref.sha)
    BY <2>1
  <2>3. QED
    BY <1>1, <2>2, RowsStored
<1>3. Parts(r) \in Seq(STRING) /\ Parts(r) # <<>>
  BY KnowledgeAssumption DEF Parts
<1>4. PICK todo, index : todo = work'[r].todo /\ index = work'[r].index
  OBVIOUS
<1>5. Staged(r, "stage", todo, index)'
  BY <1>3, <1>4 DEF Staged
<1>6. Staged(r, pc[r], work[r].todo, work[r].index)'
  BY <1>4, <1>5
<1>7. QED
  BY <1>1, <1>2, <1>6 DEF StoreStep

\* The head and the tail of what is still to be staged.
LEMMA Todo ==
  ASSUME NEW s \in Seq(STRING), s # <<>>
  PROVE  /\ Len(s) \in Nat \ {0} /\ DOMAIN s = 1..Len(s) /\ Head(s) = s[1]
         /\ Tail(s) \in Seq(STRING) /\ DOMAIN Tail(s) = 1..(Len(s) - 1)
         /\ \A j \in 1..(Len(s) - 1) : Tail(s)[j] = s[j + 1]
         /\ Len(s) # 1 => Tail(s) # <<>>
<1>1. Len(s) \in Nat \ {0} /\ DOMAIN s = 1..Len(s)
  BY EmptySeq
<1>2. Tail(s) \in Seq(STRING) /\ Len(Tail(s)) = Len(s) - 1
      /\ \A j \in 1..Len(Tail(s)) : Tail(s)[j] = s[j + 1]
  BY HeadTailProperties
<1>3. DOMAIN Tail(s) = 1..Len(Tail(s))
  BY <1>2, LenProperties
<1>4. Head(s) = s[1]
  BY <1>1
<1>5. Len(s) # 1 => Tail(s) # <<>>
  <2>1. PICK t : t = Tail(s)
    OBVIOUS
  <2>2. t = <<>> => Len(t) = 0
    BY EmptySeq
  <2>3. QED
    BY <1>1, <1>2, <2>1, <2>2
<1>6. QED
  BY <1>1, <1>2, <1>3, <1>4, <1>5

LEMMA StageStores ==
  ASSUME RowsInv, Stored, UNCHANGED damaged, NEW r \in Requests,
         NEW next \in {"commit", "heal"},
         StageNext(r, StageKey(r, work[r].index, Head(work[r].todo)),
                   StageContent(r, work[r].index, Head(work[r].todo)), next)
  PROVE  StoreStep(r)
<1>1. PICK todo, index, part, key, content :
        /\ todo = work[r].todo /\ index = work[r].index /\ part = Head(todo)
        /\ key = StageKey(r, index, part) /\ content = StageContent(r, index, part)
  OBVIOUS
<1>2. pc[r] = "stage" /\ UNCHANGED <<artifacts, tries>> /\ Served /\ Rows
  BY DEF StageNext, RowsInv
<1>3. Staged(r, "stage", todo, index)
  BY <1>1, <1>2 DEF Stored
<1>4. CASE End(r) /\ UNCHANGED objects
  <2>1. pc'[r] = "idle"
    BY <1>2, <1>4 DEF End, Goto, Served
  <2>2. QED
    BY <1>2, <1>4, <2>1, QuietStores DEF Staging
<1>5. CASE /\ PutAccepted(objects, key, content) /\ objects' = PutAtomic(objects, key, content)
           /\ work' = [work EXCEPT ![r].todo = Tail(@)]
           /\ IF Len(work[r].todo) = 1 THEN Goto(r, next) ELSE UNCHANGED pc
  <2>1. Persists /\ Kept(key, content)'
    BY <1>5, PutPersists
  <2>2. StoredRows'
    <3>1. PICK refs : refs = {}
      OBVIOUS
    <3>2. \A ref \in refs : Kept(ref.key, ref.sha)
      BY <3>1
    <3>3. QED
      BY <1>2, <2>1, <3>2, RowsStored
  <2>3. work'[r].todo = Tail(todo) /\ work'[r].index = index
    <3>1. PICK x : x = [todo |-> Tail(work[r].todo), index |-> work[r].index,
                        status |-> work[r].status]
      OBVIOUS
    <3>2. work' = [work EXCEPT ![r] = x] /\ x.todo = Tail(todo) /\ x.index = index
      BY <1>1, <1>2, <1>5, <3>1, WorkFields
    <3>3. QED
      BY <1>2, <3>2 DEF Served
  <2>4. StageContent(r, index, part)' = content
    BY <1>1, <1>2 DEF StageContent, SourceContent
  <2>5. Staged(r, "stage", todo, index)'
    BY <1>2, <1>3, <2>1, StagedStays
  <2>6. Kept(StageKey(r, index, part), StageContent(r, index, part))'
    BY <1>1, <2>1, <2>4
  <2>7. /\ Len(todo) \in Nat \ {0} /\ DOMAIN todo = 1..Len(todo) /\ part = todo[1]
        /\ Tail(todo) \in Seq(STRING) /\ DOMAIN Tail(todo) = 1..(Len(todo) - 1)
        /\ \A j \in 1..(Len(todo) - 1) : Tail(todo)[j] = todo[j + 1]
        /\ Len(todo) # 1 => Tail(todo) # <<>>
    BY <1>1, <1>3, Todo DEF Staged
  <2>8. \A i \in DOMAIN Parts(r) :
          \/ Kept(StageKey(r, index, Parts(r)[i]), StageContent(r, index, Parts(r)[i]))'
          \/ \E j \in DOMAIN Tail(todo) : Tail(todo)[j] = Parts(r)[i]
    <3>1. ASSUME NEW i \in DOMAIN Parts(r), NEW j \in DOMAIN todo,
                 todo[j] = Parts(r)[i], j # 1
          PROVE  \E k \in DOMAIN Tail(todo) : Tail(todo)[k] = Parts(r)[i]
      <4>1. j - 1 \in 1..(Len(todo) - 1) /\ (j - 1) + 1 = j
        BY <2>7, <3>1
      <4>2. DOMAIN Tail(todo) = 1..(Len(todo) - 1)
        BY <2>7
      <4>3. Tail(todo)[j - 1] = todo[j]
        BY <2>7, <4>1
      <4>4. QED
        BY <3>1, <4>1, <4>2, <4>3
    <3>2. ASSUME NEW i \in DOMAIN Parts(r)
          PROVE  \/ Kept(StageKey(r, index, Parts(r)[i]), StageContent(r, index, Parts(r)[i]))'
                 \/ \E j \in DOMAIN todo : todo[j] = Parts(r)[i]
      BY <2>5 DEF Staged
    <3>3. QED
      BY <2>6, <2>7, <3>1, <3>2
  <2>9. Staged(r, pc[r], work[r].todo, work[r].index)'
    <3>1. CASE Len(todo) = 1
      <4>1. pc'[r] = next
        BY <1>1, <1>2, <1>5, <3>1 DEF Goto, Served
      <4>2. DOMAIN Tail(todo) = {}
        BY <2>7, <3>1
      <4>3. Staged(r, next, Tail(todo), index)'
        BY <2>8, <4>2 DEF Staged
      <4>4. QED
        BY <2>3, <4>1, <4>3
    <3>2. CASE Len(todo) # 1
      <4>1. pc'[r] = "stage"
        BY <1>1, <1>2, <1>5, <3>2
      <4>2. Staged(r, "stage", Tail(todo), index)'
        BY <2>7, <2>8, <3>2 DEF Staged
      <4>3. QED
        BY <2>3, <4>1, <4>2
    <3>3. QED
      BY <3>1, <3>2
  <2>10. QED
    BY <1>2, <2>1, <2>2, <2>9 DEF StoreStep
<1>6. QED
  BY <1>1, <1>4, <1>5 DEF StageNext

LEMMA HandlerStores ==
  ASSUME RowsInv, Stored, UNCHANGED damaged, NEW r \in Requests,
         Start(r) \/ Serve(r) \/ SearchTimesOut(r) \/ RebuildFails(r)
  PROVE  StoreStep(r)
<1>0. /\ Served /\ Rows /\ pc[r] \in Places(Op(r))
      /\ Op(r) \in {"import", "build", "retrieve"}
      /\ Staged(r, pc[r], work[r].todo, work[r].index)
  BY OpTypes DEF RowsInv, Served, Stored
<1>a. ASSUME UNCHANGED <<objects, artifacts, tries>>, pc'[r] \notin Staging
      PROVE  StoreStep(r)
  BY <1>0, <1>a, QuietStores
<1>b. ASSUME End(r) PROVE pc'[r] = "idle"
  BY <1>0, <1>b DEF End, Goto, Served
<1>c. ASSUME NEW place, Goto(r, place) PROVE pc'[r] = place
  BY <1>0, <1>c DEF Goto, Served
<1>d. ASSUME UNCHANGED <<objects, artifacts, tries>>, Goto(r, "stage"), NEW index, NEW status,
             \/ work' = [work EXCEPT ![r].todo = Parts(r)]
             \/ work' = [work EXCEPT ![r] = [todo |-> Parts(r), status |-> status,
                                             index |-> index]]
      PROVE  StoreStep(r)
  <2>1. work'[r].todo = Parts(r)
    <3>1. PICK x, y : /\ x = [todo |-> Parts(r), index |-> work[r].index,
                              status |-> work[r].status]
                      /\ y = [todo |-> Parts(r), status |-> status, index |-> index]
      OBVIOUS
    <3>2. work' = [work EXCEPT ![r] = x] \/ work' = [work EXCEPT ![r] = y]
      BY <1>0, <1>d, <3>1, WorkFields
    <3>3. x.todo = Parts(r) /\ y.todo = Parts(r)
      BY <3>1
    <3>4. QED
      BY <1>0, <3>2, <3>3 DEF Served
  <2>2. pc'[r] = "stage"
    BY <1>c, <1>d
  <2>3. QED
    BY <1>0, <1>d, <2>1, <2>2, EnterStage
<1>e. ASSUME NEW i \in DOMAIN Parts(r), pc[r] \in {"commit", "heal"}
      PROVE  Kept(StageKey(r, work[r].index, Parts(r)[i]),
                  StageContent(r, work[r].index, Parts(r)[i]))
  BY <1>0, <1>e DEF Staged
<1>1. CASE Start(r)
  <2>1. UNCHANGED <<objects, artifacts>> /\ tries' = [tries EXCEPT ![r] = tries[r] + 1]
    BY <1>1 DEF Start, Begin, stores
  <2>2. pc'[r] \in {"lookup", "read"}
    BY <1>0, <1>1 DEF Start, Begin, Goto, Served
  <2>3. QED
    BY <1>0, <2>1, <2>2, QuietStores DEF Staging
<1>2. CASE ReadInputs(r)
  <2>1. pc'[r] \in {"idle", "check"} /\ UNCHANGED <<objects, artifacts, tries>>
    BY <1>0, <1>2, <1>b DEF ReadInputs, Goto, Served, stores
  <2>2. QED
    BY <1>a, <2>1 DEF Staging
<1>3. CASE CheckKey(r)
  <2>1. UNCHANGED <<objects, artifacts, tries>>
    BY <1>3 DEF CheckKey, stores
  <2>2. CASE Op(r) # "import" \/ ~Fresh(Key(r))
    <3>1. End(r) \/ (Op(r) # "import" /\ Goto(r, "chunks"))
      BY <1>3, <2>2 DEF CheckKey
    <3>2. pc'[r] \in {"idle", "chunks"}
      BY <1>b, <1>c, <3>1
    <3>3. QED
      BY <1>a, <2>1, <3>2 DEF Staging
  <2>3. CASE Op(r) = "import" /\ Fresh(Key(r))
    <3>1. Goto(r, "stage") /\ work' = [work EXCEPT ![r].todo = Parts(r)]
      BY <1>3, <2>3 DEF CheckKey, Parts
    <3>2. QED
      BY <1>d, <2>1, <3>1
  <2>4. QED
    BY <2>2, <2>3
<1>4. CASE StageSource(r)
  <2>1. Op(r) = "import"
    BY <1>4 DEF StageSource
  <2>2. StageNext(r, StageKey(r, work[r].index, Head(work[r].todo)),
                  StageContent(r, work[r].index, Head(work[r].todo)), "commit")
    BY <1>4, <2>1 DEF StageSource, StageKey, StageContent
  <2>3. QED
    BY <2>2, StageStores
<1>5. CASE CommitImport(r)
  <2>1. /\ Op(r) = "import" /\ pc[r] = "commit" /\ End(r) /\ UNCHANGED <<objects, tries>>
        /\ UNCHANGED artifacts \/ artifacts' = RegisterVerified(artifacts, SourceRefs(r))
    BY <1>5 DEF CommitImport
  <2>2. ASSUME NEW ref \in SourceRefs(r) PROVE Kept(ref.key, ref.sha)
    <3>1. PICK i \in DOMAIN SourceParts :
            ref = Ref(SourceKey(Command[r].source, SourceParts[i]),
                      SourceContent(r, SourceParts[i]))
      BY DEF SourceRefs
    <3>2. Parts(r) = SourceParts
      BY <2>1 DEF Parts
    <3>3. /\ ref.key = StageKey(r, work[r].index, Parts(r)[i])
          /\ ref.sha = StageContent(r, work[r].index, Parts(r)[i])
      BY <2>1, <3>1, <3>2 DEF StageKey, StageContent, Ref
    <3>4. QED
      BY <1>e, <2>1, <3>2, <3>3
  <2>3. pc'[r] \notin Staging
    BY <1>b, <2>1 DEF Staging
  <2>4. QED
    BY <1>0, <2>1, <2>2, <2>3, RegisterStores
<1>6. CASE BuildChunks(r)
  <2>1. Op(r) = "build" /\ UNCHANGED <<objects, artifacts, tries>>
    BY <1>0, <1>6 DEF BuildChunks, stores, Places
  <2>2. CASE End(r)
    BY <1>a, <1>b, <2>1, <2>2 DEF Staging
  <2>3. CASE ~End(r)
    <3>1. PICK index : index = Cached(NoBase, 0, 0, Command[r].sources, FALSE)
      OBVIOUS
    <3>2. /\ Goto(r, "stage")
          /\ work' = [work EXCEPT ![r] = [todo |-> Parts(r), status |-> "NONE",
                                          index |-> index]]
      BY <1>6, <2>1, <2>3, <3>1 DEF BuildChunks, Parts
    <3>3. QED
      BY <1>d, <2>1, <3>2
  <2>4. QED
    BY <2>2, <2>3
<1>7. CASE StageShard(r)
  <2>1. Op(r) = "build"
    BY <1>7 DEF StageShard
  <2>2. StageNext(r, StageKey(r, work[r].index, Head(work[r].todo)),
                  StageContent(r, work[r].index, Head(work[r].todo)), "commit")
    BY <1>7, <2>1 DEF StageShard, StageKey, StageContent
  <2>3. QED
    BY <2>2, StageStores
<1>8. CASE CommitBuild(r)
  <2>1. /\ Op(r) = "build" /\ pc[r] = "commit" /\ UNCHANGED <<objects, tries>>
        /\ UNCHANGED artifacts \/ artifacts' = RegisterVerified(artifacts, ShardRefs(r))
        /\ End(r) \/ Goto(r, "activate")
    BY <1>8 DEF CommitBuild
  <2>2. ASSUME NEW ref \in ShardRefs(r) PROVE Kept(ref.key, ref.sha)
    <3>1. PICK i \in DOMAIN ShardParts :
            ref = Ref(ShardKey(Command[r].label, ShardParts[i]), Of(work[r].index.of))
      BY DEF ShardRefs
    <3>2. Parts(r) = ShardParts
      BY <2>1 DEF Parts
    <3>3. /\ ref.key = StageKey(r, work[r].index, Parts(r)[i])
          /\ ref.sha = StageContent(r, work[r].index, Parts(r)[i])
      BY <2>1, <3>1, <3>2 DEF StageKey, StageContent, Ref
    <3>4. QED
      BY <1>e, <2>1, <3>2, <3>3
  <2>3. pc'[r] \notin Staging
    BY <1>b, <1>c, <2>1 DEF Staging
  <2>4. QED
    BY <1>0, <2>1, <2>2, <2>3, RegisterStores
<1>9. CASE ActivateIndex(r)
  <2>1. UNCHANGED <<objects, artifacts, tries>> /\ End(r)
    BY <1>9 DEF ActivateIndex, stores
  <2>2. QED
    BY <1>a, <1>b, <2>1 DEF Staging
<1>10. CASE Lookup(r)
  <2>1. /\ UNCHANGED <<objects, artifacts, tries>>
        /\ Goto(r, "search") \/ Goto(r, "lock")
    BY <1>10 DEF Lookup, Use, stores
  <2>2. QED
    BY <1>a, <1>c, <2>1 DEF Staging
<1>11. CASE ReadActive(r)
  <2>1. /\ UNCHANGED <<objects, artifacts, tries>>
        /\ End(r) \/ Goto(r, "search") \/ Goto(r, "restore")
    BY <1>11 DEF ReadActive, Use, stores
  <2>2. QED
    BY <1>a, <1>b, <1>c, <2>1 DEF Staging
<1>12. CASE RestoreIndex(r)
  <2>1. Op(r) = "retrieve" /\ UNCHANGED <<objects, artifacts, tries>>
    BY <1>0, <1>12 DEF RestoreIndex, stores, Places
  <2>2. CASE Lost(r) = {}
    <3>1. Goto(r, "search")
      BY <1>12, <2>2 DEF RestoreIndex, Loaded, Use
    <3>2. QED
      BY <1>a, <1>c, <2>1, <3>1 DEF Staging
  <2>3. CASE Lost(r) # {}
    <3>1. PICK index : index = Cached(Index(r).base, Index(r).activation, Index(r).version,
                                      Restored(r), FALSE)
      OBVIOUS
    <3>2. /\ Goto(r, "stage")
          /\ work' = [work EXCEPT ![r] = [todo |-> Parts(r), status |-> "NONE",
                                          index |-> index]]
      BY <1>12, <2>1, <2>3, <3>1 DEF RestoreIndex, Parts
    <3>3. QED
      BY <1>d, <2>1, <3>2
  <2>4. QED
    BY <2>2, <2>3
<1>13. CASE StageRecovery(r)
  <2>1. Op(r) = "retrieve"
    BY <1>13 DEF StageRecovery
  <2>2. StageNext(r, StageKey(r, work[r].index, Head(work[r].todo)),
                  StageContent(r, work[r].index, Head(work[r].todo)), "heal")
    BY <1>13, <2>1 DEF StageRecovery, StageKey, StageContent, Index
  <2>3. QED
    BY <2>2, StageStores
<1>14. CASE CommitRecovery(r)
  <2>1. /\ Op(r) = "retrieve" /\ pc[r] = "heal" /\ UNCHANGED <<objects, tries>>
        /\ UNCHANGED artifacts \/ artifacts' = RegisterVerified(artifacts, RecoveryRefs(r))
        /\ Goto(r, "search")
    <3>1. pc[r] = "heal" /\ UNCHANGED <<objects, tries>> /\ Goto(r, "search")
      BY <1>14 DEF CommitRecovery, Loaded, Use
    <3>2. UNCHANGED artifacts \/ artifacts' = RegisterVerified(artifacts, RecoveryRefs(r))
      BY <1>14 DEF CommitRecovery, Healed, Register
    <3>3. Op(r) = "retrieve"
      BY <1>0, <3>1 DEF Places
    <3>4. QED
      BY <3>1, <3>2, <3>3
  <2>2. ASSUME NEW ref \in RecoveryRefs(r) PROVE Kept(ref.key, ref.sha)
    <3>1. PICK i \in DOMAIN ShardParts :
            ref = Ref(RecoveryKey(Index(r).base, Index(r).version + 2, ShardParts[i]),
                      Of(Index(r).of))
      BY DEF RecoveryRefs
    <3>2. Parts(r) = ShardParts
      BY <2>1 DEF Parts
    <3>3. /\ ref.key = StageKey(r, work[r].index, Parts(r)[i])
          /\ ref.sha = StageContent(r, work[r].index, Parts(r)[i])
      BY <2>1, <3>1, <3>2 DEF StageKey, StageContent, Ref, Index
    <3>4. QED
      BY <1>e, <2>1, <3>2, <3>3
  <2>3. pc'[r] \notin Staging
    BY <1>c, <2>1 DEF Staging
  <2>4. QED
    BY <1>0, <2>1, <2>2, <2>3, RegisterStores
<1>15. ASSUME NEW status, Search(r, status) PROVE StoreStep(r)
  <2>1. UNCHANGED <<objects, artifacts, tries>> /\ Goto(r, "answer")
    BY <1>15 DEF Search, stores
  <2>2. QED
    BY <1>a, <1>c, <2>1 DEF Staging
<1>16. CASE CommitAnswer(r)
  <2>1. UNCHANGED <<objects, artifacts, tries>> /\ End(r)
    BY <1>16 DEF CommitAnswer, stores
  <2>2. QED
    BY <1>a, <1>b, <2>1 DEF Staging
<1>17. CASE RebuildFails(r)
  <2>1. UNCHANGED <<objects, artifacts, tries>> /\ Goto(r, "search")
    BY <1>17 DEF RebuildFails, RestoreDegraded, Loaded, Use, stores
  <2>2. QED
    BY <1>a, <1>c, <2>1 DEF Staging
<1>18. CASE SearchTimesOut(r)
  BY <1>15, <1>18 DEF SearchTimesOut
<1>19. QED
  BY <1>1, <1>2, <1>3, <1>4, <1>5, <1>6, <1>7, <1>8, <1>9, <1>10, <1>11, <1>12, <1>13,
     <1>14, <1>15, <1>16, <1>17, <1>18 DEF Serve

LEMMA StoreStepStored ==
  ASSUME RowsInv, Stored, NEW r \in Requests, RequestStep(r), StoreStep(r)
  PROVE  Stored'
<1>1. PICK place, x : Local(r, place, x)
  BY DEF RequestStep
<1>2. ASSUME NEW q \in Requests, q # r
      PROVE  Staged(q, pc[q], work[q].todo, work[q].index)'
  <2>1. pc'[q] = pc[q] /\ work'[q] = work[q]
    BY <1>1, <1>2 DEF Local, RowsInv, Served
  <2>2. PICK l, todo, index : l = pc[q] /\ todo = work[q].todo /\ index = work[q].index
    OBVIOUS
  <2>3. Staged(q, l, todo, index)
    BY <2>2 DEF Stored
  <2>4. Staged(q, l, todo, index)'
    BY <1>2, <2>3, StagedStays DEF StoreStep
  <2>5. QED
    BY <2>1, <2>2, <2>4
<1>3. QED
  BY <1>2 DEF Stored, StoreStep

\* Steps that are not a request's: what they keep, and what they forget.
LEMMA OtherStores ==
  ASSUME RowsInv, Stored, Persists, UNCHANGED <<artifacts, tries>>,
         \A q \in Requests : \/ pc'[q] = "idle"
                             \/ pc'[q] = pc[q] /\ work'[q] = work[q]
  PROVE  Stored'
<1>1. StoredRows'
  <2>1. PICK refs : refs = {}
    OBVIOUS
  <2>2. \A ref \in refs : Kept(ref.key, ref.sha)
    BY <2>1
  <2>3. QED
    BY <2>2, RowsStored DEF RowsInv
<1>2. ASSUME NEW q \in Requests PROVE Staged(q, pc[q], work[q].todo, work[q].index)'
  <2>1. CASE pc'[q] = "idle"
    BY <2>1 DEF Staged
  <2>2. CASE pc'[q] = pc[q] /\ work'[q] = work[q]
    <3>1. PICK l, todo, index : l = pc[q] /\ todo = work[q].todo /\ index = work[q].index
      OBVIOUS
    <3>2. Staged(q, l, todo, index)
      BY <3>1 DEF Stored
    <3>3. Staged(q, l, todo, index)'
      BY <3>2, StagedStays
    <3>4. QED
      BY <2>2, <3>1, <3>3
  <2>3. QED
    BY <2>1, <2>2
<1>3. QED
  BY <1>1, <1>2 DEF Stored

LEMMA StoredStays ==
  ASSUME RowsInv, Stored, Locked, [Next]_vars
  PROVE  Stored'
<1>1. ASSUME NEW r \in Requests, UNCHANGED damaged,
             Start(r) \/ (Serve(r) /\ UNCHANGED faults) \/ SearchTimesOut(r) \/ RebuildFails(r)
      PROVE  Stored'
  <2>1. RequestStep(r)
    BY <1>1, HandlerStep DEF RowsInv
  <2>2. StoreStep(r)
    BY <1>1, HandlerStores
  <2>3. QED
    BY <2>1, <2>2, StoreStepStored
<1>2. ASSUME NEW d \in Processes, Crash(d), UNCHANGED damaged PROVE Stored'
  <2>1. /\ UNCHANGED <<objects, artifacts, tries>>
        /\ pc' = [r \in Requests |-> IF At(r) = d THEN "idle" ELSE pc[r]]
        /\ work' = [r \in Requests |-> IF At(r) = d THEN NoWork ELSE work[r]]
    BY <1>2 DEF Crash, stores
  <2>2. Persists
    BY <1>2, <2>1, QuietPersists
  <2>3. \A q \in Requests : pc'[q] = "idle" \/ (pc'[q] = pc[q] /\ work'[q] = work[q])
    BY <2>1
  <2>4. QED
    BY <2>1, <2>2, <2>3, OtherStores
<1>3. ASSUME NEW key \in DOMAIN objects, Damage(key) PROVE Stored'
  <2>1. UNCHANGED <<artifacts, tries, pc, work>>
    BY <1>3 DEF Damage
  <2>2. Persists
    BY <1>3, DamagePersists
  <2>3. QED
    BY <2>1, <2>2, OtherStores
<1>4. CASE UNCHANGED vars
  <2>1. UNCHANGED <<objects, damaged, artifacts, tries, pc, work>>
    BY <1>4 DEF vars, stores
  <2>2. Persists
    BY <2>1, QuietPersists
  <2>3. QED
    BY <2>1, <2>2, OtherStores
<1>5. QED
  BY <1>1, <1>2, <1>3, <1>4 DEF Next

\* The object behind a registered artifact is there with the registered content unless the
\* disk damaged or lost what was stored under its key, in whatever order requests stage,
\* commit, crash and come again, and also where two builds of different sources contest one
\* label: the object store never replaces what is there, so the second build cannot stage,
\* and whatever commits has staged every artifact it registers (put, register_verified).
THEOREM RegisteredStaysStored == Spec => []RegisteredIsStored
<1>1. Init => Stored
  BY DEF Init, Stored, StoredRows, Staged
<1>2. RowsInv /\ Locked /\ Stored /\ [Next]_vars => Stored'
  BY StoredStays
<1>3. Stored => RegisteredIsStored
  BY DEF Stored, StoredRows, Kept, RegisteredIsStored
<1>4. QED
  BY <1>1, <1>2, <1>3, RowsAlways, PTL DEF Spec

=============================================================================
