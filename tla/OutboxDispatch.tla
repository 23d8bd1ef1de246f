--------------------------- MODULE OutboxDispatch ---------------------------
(***************************************************************************)
(* Delivery of the transactional outbox: API processes that each run one   *)
(* OutboxPublisher (persistence/outbox_publisher.py) over one in-process   *)
(* AsyncMessageBus (messaging/bus.py), all sharing the outbox table and    *)
(* the idempotency records in PostgreSQL.                                  *)
(*                                                                         *)
(* A worker claims a window of each partition, then handles the partitions *)
(* concurrently (asyncio.gather) and the messages of one partition in      *)
(* sequence: sink -> bus.publish -> reserve, mark_processing, handlers,    *)
(* complete -> mark_published.  Each database transaction is one step;     *)
(* rows and records survive a crash, everything else does not.             *)
(***************************************************************************)
EXTENDS Integers, FiniteSets, OutboxTable, IdempotencyStore

CONSTANTS Workers,       \* API processes, identified by service_instance_id
          Partitions,    \* (tenant_id, partition_key) pairs
          Length,        \* messages per partition: sequences 0..Length-1
          BatchSize,     \* outbox_publisher_batch_size
          FaultKinds,    \* the kinds of fault that may happen
          FaultBudget    \* how many faults happen at most

\* Finitely many processes run; a partition has at least one message.
ASSUME DispatchAssumption ==
  /\ IsFiniteSet(Workers)
  /\ Length \in Nat \ {0}
  /\ BatchSize \in Nat \ {0}
  /\ FaultBudget \in Nat
  /\ FaultKinds \subseteq {"crash", "close", "db", "timeout", "handler",
                           "claimStall", "recordStall", "retention"}
  /\ NoWorker \notin Workers /\ NoOwner \notin Workers

Seqs == 0..(Length - 1)

VARIABLES
  rows,      \* outbox rows, by partition and sequence
  recs,      \* idempotency records, by partition and sequence
  proc,      \* life of each process
  win,       \* the window a worker has claimed in a partition
  expected,  \* AsyncMessageBus._expected of the worker's process
  runs,      \* how often the handlers of a message were started
  faults     \* faults so far

durable == <<rows, recs>>
vars == <<rows, recs, proc, win, expected, runs, faults>>

\* Inside wait_for(sink(message)); "accepted" is after it, before
\* mark_published.
Sinking == {"sink", "reserved", "handling", "aborting", "handled"}
Delivering == Sinking \union {"accepted"}
Places == Delivering \union {"idle", "head", "failed", "releasing"}

\* The locals of _process_partition: where it is, the message being
\* delivered, the claimed messages after it, and the published_cursor that
\* claim_batch attached to the head.
Windows ==
  [at: Places, head: Seqs, tail: SUBSET Seqs, cursor: Nat]

NoWindow == [at |-> "idle", head |-> 0, tail |-> {}, cursor |-> 0]

TypeOK ==
  /\ rows \in [Partitions -> [Seqs -> Row(Workers)]]
  /\ recs \in [Partitions -> [Seqs -> Record(Workers)]]
  /\ proc \in [Workers -> {"running", "closing", "cancelled", "down"}]
  /\ win \in [Workers -> [Partitions -> Windows]]
  /\ expected \in [Workers -> [Partitions -> Nat]]
  /\ runs \in [Partitions -> [Seqs -> Nat]]
  /\ faults \in 0..FaultBudget

Init ==
  /\ rows = [p \in Partitions |-> [n \in Seqs |-> AbsentRow]]
  /\ recs = [p \in Partitions |-> [n \in Seqs |-> NoRecord]]
  /\ proc = [w \in Workers |-> "running"]
  /\ win = [w \in Workers |-> [p \in Partitions |-> NoWindow]]
  /\ expected = [w \in Workers |-> [p \in Partitions |-> 0]]
  /\ runs = [p \in Partitions |-> [n \in Seqs |-> 0]]
  /\ faults = 0

-----------------------------------------------------------------------------
\* Helpers

Fault(kind) ==
  /\ kind \in FaultKinds
  /\ faults < FaultBudget
  /\ faults' = faults + 1

\* A database step that raises may or may not have committed.
Uncertain(old, new) == {old, new}

At(w, p) == win[w][p].at

SetWin(w, p, window) == win' = [win EXCEPT ![w][p] = window]

Goto(w, p, place) == SetWin(w, p, [win[w][p] EXCEPT !.at = place])

\* The window that is left to release when the head is dealt with.
TailOnly(window) ==
  IF window.tail = {} THEN NoWindow ELSE [window EXCEPT !.at = "releasing"]

SetRow(p, n, row) == rows' = [rows EXCEPT ![p][n] = row]

SetRec(p, n, rec) == recs' = [recs EXCEPT ![p][n] = rec]

\* The claimed messages of a window that are not yet dealt with.
Held(w, p) ==
  CASE At(w, p) = "idle" -> {}
    [] At(w, p) = "releasing" -> win[w][p].tail
    [] OTHER -> {win[w][p].head} \union win[w][p].tail

\* The sink is working on message n for worker w.
Attending(w, p, n) ==
  /\ At(w, p) \in {"reserved", "handling", "aborting", "handled"}
  /\ win[w][p].head = n

-----------------------------------------------------------------------------
\* The producer: a business transaction commits its outbox row.

Append(p, n) ==
  /\ rows[p][n].state = "ABSENT"
  /\ SetRow(p, n, Appended)
  /\ UNCHANGED <<recs, proc, win, expected, runs, faults>>

-----------------------------------------------------------------------------
\* OutboxPublisher.run_once

\* claim_batch: expired claims are recovered, then every partition gives up a
\* prefix of the claimable run at its published cursor, take[p] rows long.
\* How long the prefixes are depends on priorities, available_at, the
\* candidate window and the round-robin up to the limit; any choice within
\* the limit is allowed here.
ClaimBatch(w, take) ==
  /\ proc[w] = "running"
  /\ \A p \in Partitions : At(w, p) = "idle"
  /\ Cardinality({x \in Partitions \X (1..Length) : x[2] <= take[x[1]]})
       <= BatchSize
  /\ \E c \in [Partitions -> 0..Length] :
       LET now == [p \in Partitions |->
                     [n \in Seqs |-> Recovered(rows[p][n])]]
       IN  /\ \A p \in Partitions :
                /\ IsPublishedCursor(now[p], c[p])
                /\ MayClaimRun(now[p], c[p], take[p])
           /\ rows' = [p \in Partitions |->
                         ClaimedRun(now[p], c[p], take[p], w)]
           /\ win' = [win EXCEPT ![w] = [p \in Partitions |->
                         IF take[p] = 0 THEN NoWindow
                         ELSE [at |-> "head", head |-> c[p], cursor |-> c[p],
                               tail |-> (c[p] + 1)..(c[p] + take[p] - 1)]]]
  /\ UNCHANGED <<recs, proc, expected, runs, faults>>

\* The top of the loop of _process_partition.  A window whose leases are all
\* live goes on to the sink (renewed or not, the abstract row is the same);
\* otherwise renew_claims must find every row of the window.  When it does
\* not, the whole window, head included, is released with its attempts.
EnterDelivery(w, p) ==
  LET held == Held(w, p)
      renewed == [rows EXCEPT ![p] = [n \in Seqs |->
                    IF n \in held THEN Renewed(rows[p][n], w)
                                  ELSE rows[p][n]]]
      abandoned == [win[w][p] EXCEPT !.at = "releasing", !.tail = held]
  IN  /\ At(w, p) = "head"
      /\ \/ /\ \A n \in held : ClaimedBy(rows[p][n], w)
            /\ rows' = renewed
            /\ Goto(w, p, "sink")
            /\ UNCHANGED faults
         \/ /\ \E n \in held : ~ClaimedBy(rows[p][n], w)
            /\ rows' = renewed
            /\ SetWin(w, p, abandoned)
            /\ UNCHANGED faults
         \/ /\ Fault("db")
            /\ rows' \in Uncertain(rows, renewed)
            /\ SetWin(w, p, abandoned)
      /\ UNCHANGED <<recs, proc, expected, runs>>

-----------------------------------------------------------------------------
\* MessageBusOutboxSink and AsyncMessageBus.publish

\* The cursor check, restore_partition_cursor and reserve.  The publishing
\* task is the only one of its process in this partition, so the partition
\* lock is free, the gap buffer is empty and sequence = _expected after the
\* restore.  A message that expired before dispatch is refused ahead of the
\* partition lock (_assert_not_expired): it ends like the reservation below that
\* fails and leaves no record.
SinkReserve(w, p) ==
  LET n == win[w][p].head
      rec == recs[p][n]
      restorable == win[w][p].cursor = n /\ expected[w][p] <= win[w][p].cursor
  IN  /\ At(w, p) = "sink"
      /\ \/ /\ ~restorable
            /\ Goto(w, p, "failed")
            /\ UNCHANGED <<recs, expected, faults>>
         \/ /\ restorable
            /\ expected' = [expected EXCEPT ![w][p] = win[w][p].cursor]
            /\ \/ /\ SetRec(p, n, Reserved(rec, w))
                  /\ Goto(w, p, IF Reservable(rec) THEN "reserved"
                                ELSE IF rec.state = "COMPLETED" THEN "accepted"
                                ELSE "failed")
                  /\ UNCHANGED faults
               \/ /\ Fault("db")
                  /\ recs' \in Uncertain(recs,
                                 [recs EXCEPT ![p][n] = Reserved(rec, w)])
                  /\ Goto(w, p, "failed")
      /\ UNCHANGED <<rows, proc, runs>>

\* mark_processing; the handlers start.  A failure here is outside the try of
\* _execute_reserved: nothing is aborted.
MarkProcessing(w, p) ==
  LET n == win[w][p].head
      rec == recs[p][n]
  IN  /\ At(w, p) = "reserved"
      /\ \/ /\ SetRec(p, n, Processing(rec, w))
            /\ Goto(w, p, IF MayProcess(rec, w) THEN "handling" ELSE "failed")
            /\ runs' = IF MayProcess(rec, w)
                         THEN [runs EXCEPT ![p][n] = @ + 1] ELSE runs
            /\ UNCHANGED faults
         \/ /\ Fault("db")
            /\ recs' \in Uncertain(recs,
                           [recs EXCEPT ![p][n] = Processing(rec, w)])
            /\ Goto(w, p, "failed")
            /\ UNCHANGED runs
      /\ UNCHANGED <<rows, proc, expected>>

HandlerReturns(w, p) ==
  /\ At(w, p) = "handling"
  /\ Goto(w, p, "handled")
  /\ UNCHANGED <<durable, proc, expected, runs, faults>>

HandlerRaises(w, p) ==
  /\ At(w, p) = "handling"
  /\ Fault("handler")
  /\ Goto(w, p, "aborting")
  /\ UNCHANGED <<durable, proc, expected, runs>>

\* The except branch of _execute_reserved; the handler's exception (or the
\* one abort raises) then reaches _process.
AbortReservation(w, p) ==
  LET n == win[w][p].head
  IN  /\ At(w, p) = "aborting"
      /\ \/ SetRec(p, n, Aborted(recs[p][n], w)) /\ UNCHANGED faults
         \/ Fault("db") /\ UNCHANGED recs
      /\ Goto(w, p, "failed")
      /\ UNCHANGED <<rows, proc, expected, runs>>

CompleteDeliverySwallowed(w, p) ==
  LET n == win[w][p].head
      done == [recs EXCEPT ![p][n] = Completed(@, w)]
  IN  /\ At(w, p) = "handled"
      /\ \/ recs' = done /\ UNCHANGED faults
         \/ Fault("db") /\ recs' \in Uncertain(recs, done)
      /\ Goto(w, p, "accepted")
      /\ expected' = [expected EXCEPT ![w][p] = @ + 1]
      /\ UNCHANGED <<rows, proc, runs>>

\* complete, and the cursor advance of publish.
CompleteDelivery(w, p) ==
  LET n == win[w][p].head
      rec == recs[p][n]
      ok == MayComplete(rec, w)
  IN  /\ At(w, p) = "handled"
      /\ \/ /\ SetRec(p, n, Completed(rec, w))
            /\ Goto(w, p, IF ok THEN "accepted" ELSE "failed")
            /\ expected' = IF ok THEN [expected EXCEPT ![w][p] = @ + 1]
                                 ELSE expected
            /\ UNCHANGED faults
         \/ /\ Fault("db")
            /\ recs' \in Uncertain(recs,
                           [recs EXCEPT ![p][n] = Completed(rec, w)])
            /\ Goto(w, p, "failed")
            /\ UNCHANGED expected
      /\ UNCHANGED <<rows, proc, runs>>

\* wait_for(sink) times out: the sink is cancelled where it stands.  A
\* CancelledError passes the except of _execute_reserved, so the record
\* keeps its state.
DeliveryTimeout(w, p) ==
  /\ At(w, p) \in Sinking
  /\ Fault("timeout")
  /\ Goto(w, p, "failed")
  /\ UNCHANGED <<durable, proc, expected, runs>>

-----------------------------------------------------------------------------
\* The rest of _process and _process_partition

\* mark_published; then the next message of the window, in sequence order.
MarkPublished(w, p) ==
  LET n == win[w][p].head
      rest == win[w][p].tail
  IN  /\ At(w, p) = "accepted"
      /\ \/ /\ ClaimedBy(rows[p][n], w)
            /\ SetRow(p, n, Published(rows[p][n], w))
            /\ \/ rest = {} /\ SetWin(w, p, NoWindow)
               \/ \E m \in rest :
                    /\ \A k \in rest : m <= k
                    /\ SetWin(w, p, [at |-> "head", head |-> m,
                                     tail |-> rest \ {m},
                                     cursor |-> win[w][p].cursor + 1])
            /\ UNCHANGED faults
         \/ /\ ~ClaimedBy(rows[p][n], w)
            /\ Goto(w, p, "failed")
            /\ UNCHANGED <<rows, faults>>
         \/ /\ Fault("db")
            /\ rows' \in Uncertain(rows,
                           [rows EXCEPT ![p][n] = Published(rows[p][n], w)])
            /\ Goto(w, p, "failed")
      /\ UNCHANGED <<recs, proc, expected, runs>>

\* _release_claim_safely: an error is logged and swallowed, the row is then
\* left to its lease.
ReleaseHead(w, p) ==
  LET n == win[w][p].head
      released == [rows EXCEPT ![p][n] = Released(rows[p][n], w, 0)]
  IN  /\ At(w, p) = "failed"
      /\ \/ rows' = released /\ UNCHANGED faults
         \/ Fault("db") /\ rows' \in Uncertain(rows, released)
      /\ SetWin(w, p, TailOnly(win[w][p]))
      /\ UNCHANGED <<recs, proc, expected, runs>>

\* _release_partition_tail: one transaction per row, in any order.
ReleaseTail(w, p, n) ==
  LET released == [rows EXCEPT ![p][n] = Released(rows[p][n], w, 1)]
  IN  /\ At(w, p) = "releasing"
      /\ n \in win[w][p].tail
      /\ \/ rows' = released /\ UNCHANGED faults
         \/ Fault("db") /\ rows' \in Uncertain(rows, released)
      /\ SetWin(w, p, TailOnly([win[w][p] EXCEPT !.tail = @ \ {n}]))
      /\ UNCHANGED <<recs, proc, expected, runs>>

-----------------------------------------------------------------------------
\* Processes and time

\* OutboxPublisher.close: no further window is claimed.
Close(w) ==
  /\ proc[w] = "running"
  /\ Fault("close")
  /\ proc' = [proc EXCEPT ![w] = "closing"]
  /\ UNCHANGED <<durable, win, expected, runs>>

\* close gives up waiting and cancels the task; gather passes it to every
\* partition.  _process releases the head and _process_partition the tail
\* (both shielded); a cancelled renewal or a cancelled release leaves the
\* rows to their lease.
Cancel(w) ==
  /\ proc[w] = "closing"
  /\ \E p \in Partitions : At(w, p) # "idle"
  /\ proc' = [proc EXCEPT ![w] = "cancelled"]
  /\ win' = [win EXCEPT ![w] = [p \in Partitions |->
               CASE At(w, p) \in Delivering ->
                      [win[w][p] EXCEPT !.at = "failed"]
                 [] At(w, p) = "failed" -> TailOnly(win[w][p])
                 [] OTHER -> NoWindow]]
  /\ UNCHANGED <<durable, expected, runs, faults>>

Gone(w) ==
  /\ proc' = [proc EXCEPT ![w] = "down"]
  /\ win' = [win EXCEPT ![w] = [p \in Partitions |-> NoWindow]]
  /\ expected' = [expected EXCEPT ![w] = [p \in Partitions |-> 0]]
  /\ UNCHANGED <<durable, runs>>

\* The lifespan ends and takes the bus with it.
Exit(w) ==
  /\ proc[w] \in {"closing", "cancelled"}
  /\ \A p \in Partitions : At(w, p) = "idle"
  /\ Gone(w)
  /\ UNCHANGED faults

Crash(w) ==
  /\ proc[w] # "down"
  /\ Fault("crash")
  /\ Gone(w)

\* The process comes back under the same service_instance_id with a new bus.
Restart(w) ==
  /\ proc[w] = "down"
  /\ proc' = [proc EXCEPT ![w] = "running"]
  /\ UNCHANGED <<durable, win, expected, runs, faults>>

\* A claim lease runs out.  While its worker still works on the window this
\* takes a stall: the window is renewed before a delivery that could outlive
\* the lease.
LapseClaim(p, n) ==
  /\ rows[p][n].state = "CLAIMED" /\ ~rows[p][n].lapsed
  /\ SetRow(p, n, [rows[p][n] EXCEPT !.lapsed = TRUE])
  /\ IF n \in Held(rows[p][n].owner, p) THEN Fault("claimStall")
                                          ELSE UNCHANGED faults
  /\ UNCHANGED <<recs, proc, win, expected, runs>>

\* A processing lease runs out (a stall while its owner is in the sink: the
\* delivery timeout is shorter than the lease), or the retention of a
\* completed record does.
LapseRecord(p, n) ==
  /\ recs[p][n].state # "NONE" /\ ~recs[p][n].lapsed
  /\ SetRec(p, n, [recs[p][n] EXCEPT !.lapsed = TRUE])
  /\ IF recs[p][n].state = "COMPLETED" THEN Fault("retention")
     ELSE IF Attending(recs[p][n].owner, p, n) THEN Fault("recordStall")
     ELSE UNCHANGED faults
  /\ UNCHANGED <<rows, proc, win, expected, runs>>

-----------------------------------------------------------------------------

DeliveryStep(w, p) ==
  \/ EnterDelivery(w, p)
  \/ SinkReserve(w, p)
  \/ MarkProcessing(w, p)
  \/ HandlerReturns(w, p)
  \/ AbortReservation(w, p)
  \/ CompleteDelivery(w, p)
  \/ MarkPublished(w, p)
  \/ ReleaseHead(w, p)
  \/ \E n \in Seqs : ReleaseTail(w, p, n)

Takes == [Partitions -> 0..Length]

Next ==
  \/ \E p \in Partitions, n \in Seqs :
       \/ Append(p, n)
       \/ LapseClaim(p, n)
       \/ LapseRecord(p, n)
  \/ \E w \in Workers :
       \/ \E take \in Takes : ClaimBatch(w, take)
       \/ Close(w)
       \/ Cancel(w)
       \/ Exit(w)
       \/ Crash(w)
       \/ Restart(w)
       \/ \E p \in Partitions :
            \/ DeliveryStep(w, p)
            \/ HandlerRaises(w, p)
            \/ DeliveryTimeout(w, p)

Spec == Init /\ [][Next]_vars

\* Every worker keeps running its steps, polls and comes back after an exit;
\* leases that nobody renews run out.  Nothing makes producers append, or
\* any fault happen.
Fairness ==
  /\ \A w \in Workers :
       /\ WF_vars(\E take \in Takes : ClaimBatch(w, take))
       /\ WF_vars(Exit(w))
       /\ WF_vars(Restart(w))
       /\ \A p \in Partitions : WF_vars(DeliveryStep(w, p))
  /\ \A p \in Partitions, n \in Seqs :
       WF_vars(LapseClaim(p, n) /\ UNCHANGED faults)

FairSpec == Spec /\ Fairness

-----------------------------------------------------------------------------
\* Properties

State(p, n) == rows[p][n].state

\* Sequence skipping is impossible: the confirmed messages of a partition are
\* an initial segment of it, whatever workers, stalls and crashes do between
\* claim_batch and mark_published.
PublishedPrefix ==
  \A p \in Partitions, n \in Seqs :
    State(p, n) = "PUBLISHED" => \A m \in 0..n : State(p, m) = "PUBLISHED"

\* Why it is inductive: until a window fails, everything below the cursor
\* carried by its head is confirmed, and past the sink's check the head is
\* at that cursor.
Advancing == Delivering \union {"head"}

CursorSafe ==
  \A w \in Workers, p \in Partitions :
    At(w, p) \in Advancing =>
      \A m \in Seqs : m < win[w][p].cursor => State(p, m) = "PUBLISHED"

HeadAtCursor ==
  \A w \in Workers, p \in Partitions :
    At(w, p) \in Delivering \ {"sink"} => win[w][p].head = win[w][p].cursor

PrefixInv == TypeOK /\ PublishedPrefix /\ CursorSafe /\ HeadAtCursor

\* No acknowledgement before durable acceptance: a confirmed row has a
\* COMPLETED idempotency record, and its handlers did run (without the
\* "retention" fault, which lets completed records disappear).
PublishedIsAccepted ==
  \A p \in Partitions, n \in Seqs :
    State(p, n) = "PUBLISHED" =>
      recs[p][n].state = "COMPLETED" /\ runs[p][n] > 0

\* Restoring attempts on release never hides a delivery: the handlers of a
\* message are started at most as often as claims are charged to its row, so
\* at most max_attempts times.
RunsWithinAttempts ==
  \A p \in Partitions, n \in Seqs : runs[p][n] <= rows[p][n].attempts

\* A message has no two handlers at once, in whatever processes, as long as
\* no process outlives its own processing lease in the sink (no
\* "recordStall").
HandlersExclusive ==
  \A p \in Partitions, n \in Seqs, v, w \in Workers :
    /\ At(v, p) \in {"handling", "handled"} /\ win[v][p].head = n
    /\ At(w, p) \in {"handling", "handled"} /\ win[w][p].head = n
    => v = w

\* Handlers see each partition in order: a handler starts only when every
\* earlier message of the partition is confirmed.
HandledInOrder ==
  [][\A p \in Partitions, n \in Seqs :
       runs'[p][n] # runs[p][n] =>
         \A m \in 0..(n - 1) : State(p, m) = "PUBLISHED"]_vars

\* A message that was completed stays completed and its handlers are not
\* started again, by a redelivery, a stale worker or an abort that comes late
\* (without "retention").
NoRunAfterCompletion ==
  [][\A p \in Partitions, n \in Seqs :
       recs[p][n].state = "COMPLETED" =>
         recs'[p][n].state = "COMPLETED" /\ runs'[p][n] = runs[p][n]]_vars

\* A row that was confirmed or dead-lettered is never touched again, by the
\* late release, renewal or confirmation of a worker that lost its claim.
SettledIsFinal ==
  [][\A p \in Partitions, n \in Seqs :
       State(p, n) \in {"PUBLISHED", "DEAD"} => rows'[p][n] = rows[p][n]]_vars

\* With finitely many faults a message is confirmed unless it, or a message
\* before it, is missing or dead-lettered: no claim, reservation or window
\* is held for ever.
EventuallyPublished ==
  \A p \in Partitions, n \in Seqs :
    <>[](\A m \in 0..n : State(p, m) \notin {"ABSENT", "DEAD"})
      => <>(State(p, n) = "PUBLISHED")

\* Workers, windows, leases and reservations implement in-order, at-least-once
\* delivery with final confirmation: the dispatch of a partition, seen only
\* through its PUBLISHED rows and its handler starts, behaves as
\* OrderedDelivery.
Confirmed == [p \in Partitions |-> {n \in Seqs : State(p, n) = "PUBLISHED"}]

OD == INSTANCE OrderedDelivery WITH confirmed <- Confirmed

DeliversInOrder == OD!Spec

\* Why a confirmed message has been handled: a COMPLETED record, and a sink
\* past mark_processing, stand for a start of the handlers.
Ran(p, n) == runs[p][n] > 0

AcceptedRan ==
  /\ \A p \in Partitions, n \in Seqs : recs[p][n].state = "COMPLETED" => Ran(p, n)
  /\ \A w \in Workers, p \in Partitions :
       At(w, p) \in {"handling", "handled", "accepted"} => Ran(p, win[w][p].head)

\* Why completion is final: without the "retention" fault a COMPLETED record
\* never expires, and a confirmed or accepted message has one.
CompletedFresh ==
  \A p \in Partitions, n \in Seqs :
    recs[p][n].state = "COMPLETED" => ~recs[p][n].lapsed

AcceptedCompleted ==
  /\ \A p \in Partitions, n \in Seqs :
       State(p, n) = "PUBLISHED" => recs[p][n].state = "COMPLETED"
  /\ \A w \in Workers, p \in Partitions :
       At(w, p) = "accepted" => recs[p][win[w][p].head].state = "COMPLETED"

\* Why handlers exclude each other: without the "recordStall" fault a worker
\* whose handlers run holds a live lease on the record of the message.
HandlingLeased ==
  \A w \in Workers, p \in Partitions :
    At(w, p) \in {"handling", "handled"} =>
      recs[p][win[w][p].head] = Leased("PROCESSING", w)

\* Why restored attempts hide no start: every worker that still has a message
\* before its handlers stands for one claim that is charged and not used up.
UnstartedIn(window) ==
  CASE window.at \in {"head", "sink", "reserved"} ->
         {window.head} \union window.tail
    [] window.at = "idle" -> {}
    [] OTHER -> window.tail

Pending(p, n) == {w \in Workers : n \in UnstartedIn(win[w][p])}

HeadApart(window) ==
  window.at \notin {"idle", "releasing"} => window.head \notin window.tail

StartsCharged ==
  \A p \in Partitions, n \in Seqs :
    runs[p][n] + Cardinality(Pending(p, n)) <= rows[p][n].attempts

ChargedInv ==
  /\ StartsCharged
  /\ \A p \in Partitions, n \in Seqs :
       State(p, n) = "ABSENT" => rows[p][n].attempts = 0
  /\ \A w \in Workers, p \in Partitions : HeadApart(win[w][p])
=============================================================================
