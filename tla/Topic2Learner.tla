--------------------------- MODULE Topic2Learner ---------------------------
(***************************************************************************)
(* One learner in one course (domains/topic2): behaviour events come in,   *)
(* and profiles, memory states and learning paths are computed from them   *)
(* by operations that clients call, retry and abandon.                     *)
(*                                                                         *)
(* An operation of the orchestrator reads in one transaction after another *)
(* and saves in the last, which is SERIALIZABLE: it reserves the           *)
(* idempotency key, takes the learner's advisory lock, and accepts the     *)
(* draft only as the successor of the version that is the latest then.     *)
(* One action is one such transaction; a read whose answer cannot change   *)
(* any more (a profile exists, an operation has its result) is joined with *)
(* the next.  Nothing is kept between the transactions but in the memory   *)
(* of the call, so a refusal, an error, a crash and a lost answer are all  *)
(* Abandon.                                                                *)
(*                                                                         *)
(* An event is received, which stamps received_at, before the transaction  *)
(* that stores it; it is ordered by that stamp and its identifier.  Scores *)
(* and rates are left out: what matters of a profile is which events it    *)
(* counts, of a memory state which reviews it applied.  Clocks are honest: *)
(* nothing has occurred, or is asked for, ahead of the server's time.      *)
(***************************************************************************)
EXTENDS Topic2Planner, FiniteSetsExt

CONSTANTS
  Events,            \* 1..n: the number is the event_id
  Point, Occurred,   \* of an event; all are REVIEW_COMPLETED
  Graphs,            \* the Topic 1 snapshots, in the order they are accepted
  Ops, KindOf,       \* operation_ids and the command each belongs to
  Worlds,            \* sets of operations that the clients of a behaviour call
  Asks,              \* what a path may be asked for: [targets, manual]
  Rankings,          \* orders of points that scores may give
  Calls,             \* calls in progress at a time
  MinSample,         \* minimum_outlier_sample
  BatchLimit,        \* events one rebuild reads
  MaxCalls, MaxClock \* bounds

Points == UNION {Graphs[i].active : i \in 1..Len(Graphs)}

ASSUME Topic2Assumption ==
  /\ Events \subseteq Nat /\ Point \in [Events -> Points] /\ Occurred \in [Events -> Nat]
  /\ Len(Graphs) > 0
  /\ Worlds \subseteq SUBSET Ops
  /\ KindOf \in [Ops -> {"initialize", "rebuild", "restore", "refresh", "due", "path"}]
  /\ {MinSample, BatchLimit, MaxCalls, MaxClock} \subseteq Nat

\* Topic 1 accepts no graph with a cycle, and restricted to its active points a
\* graph has none either.
ASSUME GraphsAssumption ==
  \A i \in 1..Len(Graphs) :
    IsFiniteSet(Graphs[i].active) /\ Acyclic(Graphs[i].active, Pairs(Graphs[i]))

\* Scores tie, identifiers do not.
ASSUME PlansAssumption ==
  /\ \A ask \in Asks : ask.manual \in Seq(Points)
  /\ \A rank \in Rankings : rank \in [Points -> Nat] /\ IsInjective(rank)

VARIABLES
  clock,
  received,   \* received_at of an event, 0 before it is received
  stored,     \* topic2_learning_behavior_events
  profiles,   \* topic2_student_profiles: profiles[v] is version v
  memory,     \* topic2_memory_states, per point
  paths,      \* topic2_learning_path_snapshots
  graph,      \* the latest Topic 1 graph version
  saved,      \* completed idempotency records: key -> digest of the draft
  asked,      \* requested_at of the operations called, 0 before the first call
  call,       \* calls in progress
  started     \* bound: number of calls made

vars == <<clock, received, stored, profiles, memory, paths, graph, saved, asked, call, started>>

NoCursor == <<0, 0>>
NoCounts == [e \in Events |-> 0]
Idle == [at |-> "idle"]

Init ==
  /\ clock = 1
  /\ received = NoCounts
  /\ stored = {}
  /\ profiles = <<>>
  /\ memory = [k \in Points |-> <<>>]
  /\ paths = <<>>
  /\ graph = 1
  /\ saved = <<>>
  /\ \E ops \in Worlds : asked = [op \in ops |-> 0]
  /\ call = [c \in Calls |-> Idle]
  /\ started = 0

tables == <<profiles, memory, paths, saved>>
world == <<clock, received, stored, graph>>

-----------------------------------------------------------------------------
(* The surroundings.                                                       *)

Tick ==
  /\ clock < MaxClock
  /\ clock' = clock + 1
  /\ UNCHANGED <<received, stored, graph, tables, asked, call, started>>

\* The API stamps the event it received.
Receive(e) ==
  /\ received[e] = 0 /\ Occurred[e] <= clock
  /\ received' = [received EXCEPT ![e] = clock]
  /\ UNCHANGED <<clock, stored, graph, tables, asked, call, started>>

\* record_behavior_event commits, in any order with others: it takes no lock.
RecordBehaviorEvent(e) ==
  /\ received[e] > 0 /\ e \notin stored
  /\ stored' = stored \union {e}
  /\ UNCHANGED <<clock, received, graph, tables, asked, call, started>>

AcceptGraph ==
  /\ graph < Len(Graphs)
  /\ graph' = graph + 1
  /\ UNCHANGED <<clock, received, stored, tables, asked, call, started>>

-----------------------------------------------------------------------------
(* Cursors.                                                                *)

Stamp(e) == <<received[e], e>>
Less(s, t) == s[1] < t[1] \/ (s[1] = t[1] /\ s[2] < t[2])

AtOrAfter(e, cursor) == ~Less(Stamp(e), cursor)

\* received_after, received_after_event_id.
After(e, cursor) == Less(cursor, Stamp(e))

Latest(events, cursor) ==
  LET stamps == {Stamp(e) : e \in events} \union {cursor}
  IN CHOOSE s \in stamps : \A t \in stamps : s = t \/ Less(t, s)

Earliest(cursors) ==
  CHOOSE s \in cursors : \A t \in cursors : s = t \/ Less(s, t)

Counting(counts, events) == [e \in Events |-> IF e \in events THEN counts[e] + 1 ELSE counts[e]]

FirstToOccurButOne(events) ==
  {e \in events : Cardinality({d \in events : Occurred[d] <= Occurred[e]}) < BatchLimit}

\* list_behavior_events: the earliest to occur of the events after the cursor.
FirstToOccur(events) ==
  {e \in events :
     Cardinality({d \in events : \/ Occurred[d] < Occurred[e]
                                 \/ Occurred[d] = Occurred[e] /\ d < e}) < BatchLimit}

\* _filter_outliers: with enough values around them, some may be dropped.
Outliers(batch) ==
  IF Cardinality(batch) < MinSample THEN {{}} ELSE SUBSET batch \ {batch}

-----------------------------------------------------------------------------
(* Calls.                                                                  *)

Busy(c, at) == call[c].at = at

Goes(c, next) ==
  /\ call' = [call EXCEPT ![c] = next]
  /\ UNCHANGED <<world, tables, asked, started>>

\* _stabilize_profile, _stabilize_path: what an operation makes is named after
\* its id.
Derived(op) == <<op, {}>>

\* An operation has its result under the identifiers derived from its id.
Recorded(tag) ==
  \/ \E v \in 1..Len(profiles) : profiles[v].tag = tag
  \/ \E k \in Points : \E v \in 1..Len(memory[k]) : memory[k][v].tag = tag
  \/ \E v \in 1..Len(paths) : paths[v].tag = tag

\* The first call of an operation, or a retry with the same request.
Starts(c, op, kind, tag, next) ==
  /\ started < MaxCalls
  /\ Busy(c, "idle")
  /\ KindOf[op] = kind
  /\ ~Recorded(tag)
  /\ started' = started + 1
  /\ asked' = [asked EXCEPT ![op] = IF @ = 0 THEN clock ELSE @]
  /\ call' = [call EXCEPT ![c] = next]
  /\ UNCHANGED <<world, tables>>

Abandon(c) ==
  /\ ~Busy(c, "idle")
  /\ Goes(c, Idle)

\* _reserve_idempotency and _complete_idempotency in the saving transaction:
\* a key that is completed answers for itself or is a conflict.
Reserves(tag, draft) ==
  /\ tag \notin DOMAIN saved
  /\ saved' = [t \in DOMAIN saved \union {tag} |-> IF t = tag THEN draft ELSE saved[t]]

\* _validate_profile_version, _validate_memory_version, _validate_path_version.
IsSuccessorOfAny(versions, parent) == TRUE

IsSuccessor(versions, parent) == Len(versions) = parent

-----------------------------------------------------------------------------
(* Profiles.                                                               *)

AppendProfile(draft) == Append(profiles, draft)

AppendStates(drafts) ==
  [k \in Points |-> IF k \in DOMAIN drafts THEN Append(memory[k], drafts[k]) ELSE memory[k]]

BlankProfile(tag) ==
  [tag |-> tag, base |-> 0, restored |-> FALSE, cursor |-> NoCursor,
   counted |-> NoCounts, seen |-> {}, rejected |-> {}]

\* initialize_state: no review applied yet.
BlankState(tag, at) ==
  [tag |-> tag, cursor |-> NoCursor, computed |-> at, applied |-> NoCounts, seen |-> {}]

\* initialize_learner: a blank profile and blank memory, in one transaction.
StartInitialize(c, op) ==
  /\ profiles = <<>>
  /\ Starts(c, op, "initialize", Derived(op),
            [at |-> "initialize", op |-> op, graph |-> graph])

SaveInitialize(c) ==
  /\ Busy(c, "initialize")
  /\ LET op == call[c].op
         tag == Derived(op)
         active == Graphs[call[c].graph].active
     IN /\ Reserves(tag, [graph |-> call[c].graph])
        /\ IsSuccessor(profiles, 0)
        /\ \A k \in active : IsSuccessor(memory[k], 0)
        /\ profiles' = AppendProfile(BlankProfile(tag))
        /\ memory' = AppendStates([k \in active |-> BlankState(tag, asked[op])])
  /\ call' = [call EXCEPT ![c] = Idle]
  /\ UNCHANGED <<world, paths, asked, started>>

\* rebuild_profile: the latest profile, then the events after its cursor.
StartRebuild(c, op) ==
  Starts(c, op, "rebuild", Derived(op), [at |-> "latest", op |-> op])

ReadLatestProfile(c) ==
  /\ Busy(c, "latest")
  /\ Goes(c, [at |-> "events", op |-> call[c].op, base |-> Len(profiles)])

BaseProfile(v) ==
  IF v = 0 THEN [cursor |-> NoCursor, counted |-> NoCounts] ELSE profiles[v]

\* build_profile: an event that occurred after requested_at is an error; the
\* cursor moves to the last event that was accepted.
ReadEvents(c) ==
  /\ Busy(c, "events")
  /\ LET base == BaseProfile(call[c].base)
         batch == FirstToOccur({e \in stored : After(e, base.cursor)})
     IN /\ \A e \in batch : Occurred[e] <= asked[call[c].op]
        /\ \E rejected \in Outliers(batch) :
             Goes(c, [at |-> "profile", op |-> call[c].op, parent |-> call[c].base,
                      draft |-> [tag |-> Derived(call[c].op), base |-> call[c].base,
                                 restored |-> FALSE,
                                 cursor |-> Latest(batch \ rejected, base.cursor),
                                 counted |-> Counting(base.counted, batch \ rejected),
                                 seen |-> stored, rejected |-> rejected]])

\* restore_profile: a copy of an old profile, its cursor included, becomes
\* the successor of the latest.
StartRestore(c, op, v) ==
  /\ v \in 1..Len(profiles)
  /\ Starts(c, op, "restore", Derived(op), [at |-> "restore", op |-> op, target |-> v])

ReadRestored(c) ==
  /\ Busy(c, "restore")
  /\ LET op == call[c].op
         v == call[c].target
         old == profiles[v]
     IN Goes(c, [at |-> "profile", op |-> op, parent |-> Len(profiles),
                 draft |-> [tag |-> Derived(op), base |-> v, restored |-> TRUE,
                            cursor |-> old.cursor, counted |-> old.counted,
                            seen |-> old.seen, rejected |-> old.rejected]])

SaveProfile(c) ==
  /\ Busy(c, "profile")
  /\ Reserves(call[c].draft.tag, call[c].draft)
  /\ IsSuccessor(profiles, call[c].parent)
  /\ profiles' = AppendProfile(call[c].draft)
  /\ call' = [call EXCEPT ![c] = Idle]
  /\ UNCHANGED <<world, memory, paths, asked, started>>

-----------------------------------------------------------------------------
(* Memory.                                                                 *)

\* refresh_memory takes all active points of the latest graph.
StartRefresh(c, op) ==
  /\ profiles # <<>>
  /\ Starts(c, op, "refresh", Derived(op),
            [at |-> "current", op |-> op, tag |-> Derived(op), points |-> Graphs[graph].active])

\* refresh_due_memory takes those of the active points that are due, and
\* derives the operation id from them.
StartRefreshDue(c, op, due) ==
  /\ profiles # <<>>
  /\ due # {} /\ \A k \in due : memory[k] # <<>>
  /\ due \subseteq Graphs[graph].active
  /\ Starts(c, op, "due", <<op, due>>,
            [at |-> "current", op |-> op, tag |-> <<op, due>>, points |-> due])

ReadCurrent(c) ==
  /\ Busy(c, "current")
  /\ Goes(c, [at |-> "reviews", op |-> call[c].op, tag |-> call[c].tag,
              current |-> [k \in call[c].points |-> Len(memory[k])]])

\* _memory_review_cursor, or the time the state was computed.
ReviewCursor(state) ==
  IF state.cursor # NoCursor THEN state.cursor ELSE <<state.computed, 0>>

\* _pending_review_events: from the smallest cursor, if all points have one.
Window(current) ==
  IF \A k \in DOMAIN current : current[k] > 0
    THEN Earliest({ReviewCursor(memory[k][current[k]]) : k \in DOMAIN current})
    ELSE NoCursor

\* apply_review, in the order of the events: the cursor moves to the last.
Reviewed(state, reviews) ==
  [tag |-> state.tag, cursor |-> Latest(reviews, state.cursor), computed |-> state.computed,
   applied |-> Counting(state.applied, reviews), seen |-> state.seen]

\* refresh_state as of the time the operation was requested for.
Decayed(state, tag, at) ==
  [tag |-> tag, cursor |-> state.cursor, computed |-> at, applied |-> state.applied,
   seen |-> stored]

\* _reviews_after_state_cursor
ReviewsAfterState(k, version, pending) ==
  {e \in pending : /\ Point[e] = k
                   /\ version > 0 => After(e, ReviewCursor(memory[k][version]))}

\* _reconcile_memory_state for one point.
Refreshed(tag, k, version, pending, at) ==
  LET state == IF version > 0 THEN memory[k][version] ELSE BlankState(tag, at)
  IN Decayed(Reviewed(state, ReviewsAfterState(k, version, pending)), tag, at)

ReadReviews(c) ==
  /\ Busy(c, "reviews")
  /\ LET current == call[c].current
         at == asked[call[c].op]
         pending == {e \in stored : /\ After(e, Window(current))
                                    /\ received[e] <= at /\ Occurred[e] <= at}
     IN /\ \A k \in DOMAIN current : current[k] > 0 => memory[k][current[k]].computed <= at
        /\ Goes(c, [at |-> "states", op |-> call[c].op, tag |-> call[c].tag, parents |-> current,
                    draft |-> [k \in DOMAIN current |->
                                 Refreshed(call[c].tag, k, current[k], pending, at)]])

\* save_memory_states: all of the batch or nothing.
SaveMemory(c) ==
  /\ Busy(c, "states")
  /\ LET draft == call[c].draft
     IN /\ Reserves(call[c].tag, draft)
        /\ \A k \in DOMAIN draft : IsSuccessor(memory[k], call[c].parents[k])
        /\ memory' = AppendStates(draft)
  /\ call' = [call EXCEPT ![c] = Idle]
  /\ UNCHANGED <<world, profiles, paths, asked, started>>

-----------------------------------------------------------------------------
(* Learning paths.                                                         *)

\* generate_path reads the graph, the profile, the memory and the path to
\* replace, in this order.
StartPath(c, op) ==
  Starts(c, op, "path", Derived(op), [at |-> "basis", op |-> op, graph |-> graph])

ReadBasis(c) ==
  /\ Busy(c, "basis")
  /\ profiles # <<>>
  /\ Goes(c, [at |-> "plan", op |-> call[c].op, graph |-> call[c].graph,
              profile |-> Len(profiles)])

PlanPath(c, ask, rank) ==
  /\ Busy(c, "plan")
  /\ LET g == Graphs[call[c].graph]
     IN /\ Plannable(g, ask)
        /\ Goes(c, [at |-> "path", op |-> call[c].op, parent |-> Len(paths),
                    draft |-> [tag |-> Derived(call[c].op), graph |-> call[c].graph,
                               profile |-> call[c].profile, ask |-> ask,
                               order |-> Plan(g, ask, rank)]])

AppendPath(draft) == Append(paths, draft)

SavePath(c) ==
  /\ Busy(c, "path")
  /\ Reserves(call[c].draft.tag, call[c].draft)
  /\ IsSuccessor(paths, call[c].parent)
  /\ paths' = AppendPath(call[c].draft)
  /\ call' = [call EXCEPT ![c] = Idle]
  /\ UNCHANGED <<world, profiles, memory, asked, started>>

-----------------------------------------------------------------------------
Next ==
  \/ Tick
  \/ AcceptGraph
  \/ \E e \in Events : Receive(e) \/ RecordBehaviorEvent(e)
  \/ \E c \in Calls :
       \/ \E op \in DOMAIN asked :
            \/ StartInitialize(c, op)
            \/ StartRebuild(c, op)
            \/ \E v \in 1..MaxCalls : StartRestore(c, op, v)
            \/ StartRefresh(c, op)
            \/ \E due \in SUBSET Points : StartRefreshDue(c, op, due)
            \/ StartPath(c, op)
       \/ SaveInitialize(c)
       \/ ReadLatestProfile(c) \/ ReadEvents(c)
       \/ ReadRestored(c) \/ SaveProfile(c)
       \/ ReadCurrent(c) \/ ReadReviews(c) \/ SaveMemory(c)
       \/ ReadBasis(c)
       \/ \E ask \in Asks, rank \in Rankings : PlanPath(c, ask, rank)
       \/ SavePath(c)
       \/ Abandon(c)

Spec == Init /\ [][Next]_vars

-----------------------------------------------------------------------------
(* The rows of the tables.                                                 *)
Tags == Ops \X SUBSET Points
Cursors == Nat \X Nat

ProfileRow ==
  [tag: Tags, base: Nat, restored: BOOLEAN, cursor: Cursors,
   counted: [Events -> Nat], seen: SUBSET Events, rejected: SUBSET Events]

MemoryRow ==
  [tag: Tags, cursor: Cursors, computed: Nat, applied: [Events -> Nat],
   seen: SUBSET Events]

PathRow ==
  [tag: Tags, graph: 1..Len(Graphs), profile: 1..Len(profiles), ask: Asks, order: Seq(Points)]

TypeOK ==
  /\ clock \in 1..MaxClock /\ graph \in 1..Len(Graphs) /\ started \in 0..MaxCalls
  /\ received \in [Events -> 0..MaxClock] /\ \E ops \in Worlds : asked \in [ops -> 0..MaxClock]
  /\ \A e \in stored : received[e] > 0
  /\ profiles \in Seq(ProfileRow)
  /\ memory \in [Points -> Seq(MemoryRow)]
  /\ paths \in Seq(PathRow)

\* However calls of rebuild, refresh and restore interleave, fail and are
\* retried, no profile and no memory state has weighed an event twice.
CountedOnce ==
  \A e \in Events :
    /\ \A v \in 1..Len(profiles) : profiles[v].counted[e] <= 1
    /\ \A k \in Points : \A v \in 1..Len(memory[k]) : memory[k][v].applied[e] <= 1

\* The profiles a profile was computed from, itself included.
Lineage(versions, v) ==
  {i \in 1..v :
     \A line \in SUBSET (1..v) :
       v \in line /\ (\A j \in line : versions[j].base # 0 => versions[j].base \in line)
         => i \in line}

Passed(e, cursor) == ~After(e, cursor)

\* An event that was in the table when a profile or a memory state was
\* computed is weighed in it, unless it was rejected as an outlier or had been
\* overtaken: stored only after a version read past its place in the order.
OnlyOvertakenMissed ==
  /\ \A v \in 1..Len(profiles) : \A e \in profiles[v].seen :
       \/ profiles[v].counted[e] > 0
       \/ \E i \in Lineage(profiles, v) :
            \/ e \in profiles[i].rejected
            \/ e \notin profiles[i].seen /\ Passed(e, profiles[i].cursor)
  /\ \A k \in Points : \A v \in 1..Len(memory[k]) : \A e \in memory[k][v].seen :
       Point[e] = k /\ received[e] <= memory[k][v].computed =>
         \/ memory[k][v].applied[e] > 0
         \/ \E i \in 1..v : /\ e \notin memory[k][i].seen
                            /\ Passed(e, ReviewCursor(memory[k][i]))

\* Two calls that computed from the same version do not both become its
\* successor: evidence a version holds is in all later ones, until a profile
\* is deliberately restored.
EvidenceKept ==
  /\ \A v \in 2..Len(profiles), e \in Events :
       profiles[v].restored \/ profiles[v].counted[e] >= profiles[v - 1].counted[e]
  /\ \A k \in Points : \A v \in 2..Len(memory[k]), e \in Events :
       memory[k][v].applied[e] >= memory[k][v - 1].applied[e]

IsInOrder(order, edges) ==
  \A i, j \in 1..Len(order) :
    (\E e \in edges : e.from = order[i] /\ e.to = order[j]) => i < j

\* A path leads through its targets and all they require, each point once and
\* after its prerequisites; a manual order of all its points that respects the
\* prerequisites is followed exactly.
PathKeepsPrerequisites ==
  \A v \in 1..Len(paths) :
    LET path == paths[v]
        edges == Sanitized(Graphs[path.graph])
        nodes == ToSet(path.order)
    IN /\ IsInjective(path.order)
       /\ path.ask.targets \subseteq nodes
       /\ \A e \in edges : e.to \in nodes /\ e.kind # "SUPPORTING" => e.from \in nodes
       /\ IsInOrder(path.order, edges)
       /\ ToSet(path.ask.manual) = nodes /\ IsInOrder(path.ask.manual, edges)
            => path.order = path.ask.manual
=============================================================================
