---------------------------- MODULE OutboxProofs ----------------------------
(***************************************************************************)
(* Theorems about OutboxDispatch, for every number of workers, partitions, *)
(* messages, attempts and faults: claims and cursors, the refinement of    *)
(* OrderedDelivery, and what the idempotency records and the charged       *)
(* attempts guarantee.                                                     *)
(***************************************************************************)
EXTENDS OutboxDispatch, FiniteSetTheorems, TLAPS

-----------------------------------------------------------------------------
\* What the transactions do to one row and one record

\* Every transaction of PostgresOutboxDispatcherRepository yields a row.
LEMMA RowOps ==
  ASSUME NEW row \in Row(Workers), NEW w \in Workers
  PROVE  /\ Recovered(row) \in Row(Workers)
         /\ Renewed(row, w) \in Row(Workers)
         /\ Published(row, w) \in Row(Workers)
         /\ Released(row, w, 1) \in Row(Workers)
         /\ Released(row, w, 0) \in Row(Workers)
         /\ Claimable(row) => Claimed(row, w) \in Row(Workers)
         /\ [row EXCEPT !.lapsed = TRUE] \in Row(Workers)
<1>1. \A a \in 0..MaxAttempts : Unclaimed(a) \in Row(Workers)
  BY DEF Row, RowStates, Unclaimed
<1>2. row.attempts \in 0..MaxAttempts
  BY DEF Row
<1>3. Recovered(row) \in Row(Workers)
  BY <1>1, <1>2 DEF Recovered
<1>4. Renewed(row, w) \in Row(Workers)
  BY DEF Row, Renewed
<1>5. Published(row, w) \in Row(Workers)
  BY DEF Row, RowStates, Published
<1>6. row.attempts > 1 => row.attempts - 1 \in 0..MaxAttempts
  BY <1>2, MaxAttemptsAssumption
<1>7. Released(row, w, 1) \in Row(Workers)
  BY <1>1, <1>2, <1>6, MaxAttemptsAssumption DEF Released
<1>8. Released(row, w, 0) \in Row(Workers)
  BY <1>1, <1>2, MaxAttemptsAssumption DEF Released
<1>9. Claimable(row) => Claimed(row, w) \in Row(Workers)
  <2>1. Claimable(row) => row.attempts + 1 \in 0..MaxAttempts
    BY <1>2, MaxAttemptsAssumption DEF Claimable
  <2>2. QED
    BY <2>1 DEF Claimed, Row, RowStates
<1>10. [row EXCEPT !.lapsed = TRUE] \in Row(Workers)
  BY DEF Row
<1>11. QED
  BY <1>3, <1>4, <1>5, <1>7, <1>8, <1>9, <1>10

\* Every transaction of PostgresIdempotencyStore yields a record.
LEMMA RecordOps ==
  ASSUME NEW rec \in Record(Workers), NEW w \in Workers
  PROVE  /\ Reserved(rec, w) \in Record(Workers)
         /\ Processing(rec, w) \in Record(Workers)
         /\ Completed(rec, w) \in Record(Workers)
         /\ Aborted(rec, w) \in Record(Workers)
         /\ [rec EXCEPT !.lapsed = TRUE] \in Record(Workers)
BY DEF Record, RecordStates, Reserved, Reservable, Leased, Processing,
       MayProcess, Unfinished, Completed, Aborted, NoRecord

\* A worker that is not in a partition has a well-formed window.
LEMMA NoWindowType == NoWindow \in Windows
<1>1. 0 \in Seqs /\ 0 \in 0..Length
  BY DispatchAssumption DEF Seqs
<1>2. QED
  BY <1>1 DEF Windows, NoWindow, Places

\* Moves within a window yield a window.
LEMMA WindowOps ==
  ASSUME NEW win1 \in Windows
  PROVE  /\ NoWindow \in Windows
         /\ \A place \in Places : [win1 EXCEPT !.at = place] \in Windows
         /\ TailOnly(win1) \in Windows
         /\ \A s \in SUBSET Seqs :
              [win1 EXCEPT !.at = "releasing", !.tail = s] \in Windows
         /\ \A n : TailOnly([win1 EXCEPT !.tail = @ \ {n}]) \in Windows
<1>1. NoWindow \in Windows
  BY NoWindowType
<1>2. \A place \in Places : [win1 EXCEPT !.at = place] \in Windows
  BY DEF Windows
<1>3. "releasing" \in Places
  BY DEF Places
<1>4. \A win2 \in Windows : TailOnly(win2) \in Windows
  BY <1>1, <1>3 DEF TailOnly, Windows
<1>5. \A s \in SUBSET Seqs :
        [win1 EXCEPT !.at = "releasing", !.tail = s] \in Windows
  BY <1>3 DEF Windows
<1>6. \A n : [win1 EXCEPT !.tail = @ \ {n}] \in Windows
  BY DEF Windows
<1>7. QED
  BY <1>1, <1>2, <1>4, <1>5, <1>6

\* Held rows are rows of the partition.
LEMMA HeldType ==
  ASSUME TypeOK, NEW w \in Workers, NEW p \in Partitions
  PROVE  Held(w, p) \in SUBSET Seqs
BY DEF TypeOK, Windows, Held, At

-----------------------------------------------------------------------------
\* Type correctness

\* The rows after a claim are rows, and the window claimed is a window.
LEMMA ClaimType ==
  ASSUME TypeOK, NEW w \in Workers, NEW take \in Takes, ClaimBatch(w, take)
  PROVE  TypeOK'
<1>1. PICK c \in [Partitions -> 0..Length] :
        LET now == [p \in Partitions |->
                      [n \in Seqs |-> Recovered(rows[p][n])]]
        IN  /\ \A p \in Partitions : MayClaimRun(now[p], c[p], take[p])
            /\ rows' = [p \in Partitions |->
                          ClaimedRun(now[p], c[p], take[p], w)]
            /\ win' = [win EXCEPT ![w] = [p \in Partitions |->
                          IF take[p] = 0 THEN NoWindow
                          ELSE [at |-> "head", head |-> c[p],
                                cursor |-> c[p],
                                tail |-> (c[p] + 1)..(c[p] + take[p] - 1)]]]
  BY DEF ClaimBatch
<1> DEFINE now == [p \in Partitions |->
                     [n \in Seqs |-> Recovered(rows[p][n])]]
<1>2. \A p \in Partitions, n \in Seqs : now[p][n] \in Row(Workers)
  BY RowOps DEF TypeOK
<1>3. \A p \in Partitions : DOMAIN now[p] = Seqs
  OBVIOUS
<1>4. \A p \in Partitions : \A n \in c[p]..(c[p] + take[p] - 1) :
        n \in Seqs /\ Claimable(now[p][n])
  BY <1>1, <1>3 DEF MayClaimRun
<1> HIDE DEF now
<1>5. rows' \in [Partitions -> [Seqs -> Row(Workers)]]
  <2>1. ASSUME NEW p \in Partitions
        PROVE  ClaimedRun(now[p], c[p], take[p], w) \in [Seqs -> Row(Workers)]
    <3>1. ASSUME NEW n \in Seqs, n \in c[p]..(c[p] + take[p] - 1)
          PROVE  Claimed(now[p][n], w) \in Row(Workers)
      BY <1>2, <1>4, <3>1, RowOps
    <3>2. QED
      BY <1>2, <1>3, <3>1 DEF ClaimedRun
  <2>2. rows' = [p \in Partitions |-> ClaimedRun(now[p], c[p], take[p], w)]
    BY <1>1 DEF now
  <2>3. QED
    BY <2>1, <2>2
<1>6. win' \in [Workers -> [Partitions -> Windows]]
  <2>1. ASSUME NEW p \in Partitions, take[p] # 0
        PROVE  [at |-> "head", head |-> c[p], cursor |-> c[p],
                tail |-> (c[p] + 1)..(c[p] + take[p] - 1)] \in Windows
    <3>1. take[p] \in 0..Length /\ c[p] \in 0..Length /\ Length \in Nat
      BY DispatchAssumption DEF Takes
    <3>2. c[p] \in c[p]..(c[p] + take[p] - 1)
      BY <2>1, <3>1
    <3>3. \A n \in (c[p] + 1)..(c[p] + take[p] - 1) :
            n \in c[p]..(c[p] + take[p] - 1)
      BY <3>1
    <3>4. c[p] \in Seqs
      BY <1>4, <3>2
    <3>5. (c[p] + 1)..(c[p] + take[p] - 1) \in SUBSET Seqs
      BY <1>4, <3>3
    <3>6. QED
      BY <3>1, <3>4, <3>5 DEF Windows, Places
  <2>2. QED
    BY <1>1, <2>1, NoWindowType DEF TypeOK
<1>7. QED
  BY <1>5, <1>6 DEF ClaimBatch, TypeOK

\* Every step of the window of one partition keeps the types.
LEMMA DeliveryType ==
  ASSUME TypeOK, NEW w \in Workers, NEW p \in Partitions,
         \/ DeliveryStep(w, p)
         \/ HandlerRaises(w, p)
         \/ DeliveryTimeout(w, p)
  PROVE  TypeOK'
<1> DEFINE n == win[w][p].head
<1>0. /\ win[w][p] \in Windows
      /\ n \in Seqs
      /\ rows[p] \in [Seqs -> Row(Workers)]
      /\ rows[p][n] \in Row(Workers)
      /\ recs[p][n] \in Record(Workers)
      /\ \A kind : Fault(kind) => faults' \in 0..FaultBudget
  BY DispatchAssumption DEF TypeOK, Windows, Fault
<1>1. \A place \in Places :
        Goto(w, p, place) => win' \in [Workers -> [Partitions -> Windows]]
  <2>1. \A place \in Places : [win[w][p] EXCEPT !.at = place] \in Windows
    BY <1>0, WindowOps
  <2>2. QED
    BY <2>1 DEF TypeOK, Goto, SetWin
<1>2. \A window \in Windows :
        SetWin(w, p, window) => win' \in [Workers -> [Partitions -> Windows]]
  BY DEF TypeOK, SetWin
<1>3. \A m \in Seqs, row \in Row(Workers) :
        [rows EXCEPT ![p][m] = row] \in [Partitions -> [Seqs -> Row(Workers)]]
  BY DEF TypeOK
<1>4. \A rec \in Record(Workers) :
        [recs EXCEPT ![p][n] = rec]
          \in [Partitions -> [Seqs -> Record(Workers)]]
  BY <1>0 DEF TypeOK
<1>5. CASE EnterDelivery(w, p)
  <2> DEFINE held == Held(w, p)
             renewed == [rows EXCEPT ![p] = [m \in Seqs |->
                           IF m \in held THEN Renewed(rows[p][m], w)
                                         ELSE rows[p][m]]]
             abandoned == [win[w][p] EXCEPT !.at = "releasing", !.tail = held]
  <2>1. renewed \in [Partitions -> [Seqs -> Row(Workers)]]
    BY <1>0, RowOps DEF TypeOK
  <2>2. abandoned \in Windows
    BY <1>0, HeldType, WindowOps
  <2>3. "sink" \in Places
    BY DEF Places, Delivering, Sinking
  <2>4. /\ rows' \in {rows, renewed}
        /\ Goto(w, p, "sink") \/ SetWin(w, p, abandoned)
        /\ UNCHANGED faults \/ Fault("db")
        /\ UNCHANGED <<recs, proc, expected, runs>>
    BY <1>5 DEF EnterDelivery, Uncertain
  <2>5. QED
    BY <1>0, <1>1, <1>2, <2>1, <2>2, <2>3, <2>4 DEF TypeOK
<1>6. CASE SinkReserve(w, p)
  <2>1. {"failed", "reserved", "accepted"} \subseteq Places
    BY DEF Places, Delivering, Sinking
  <2>2. /\ recs' \in {recs, [recs EXCEPT ![p][n] = Reserved(recs[p][n], w)]}
        /\ \E place \in {"failed", "reserved", "accepted"} : Goto(w, p, place)
        /\ expected' \in
             {expected, [expected EXCEPT ![w][p] = win[w][p].cursor]}
        /\ UNCHANGED faults \/ Fault("db")
        /\ UNCHANGED <<rows, proc, runs>>
    BY <1>6 DEF SinkReserve, SetRec, Uncertain
  <2>3. expected' \in [Workers -> [Partitions -> Nat]]
    <3>1. win[w][p].cursor \in Nat
      BY <1>0 DEF Windows
    <3>2. [expected EXCEPT ![w][p] = win[w][p].cursor]
            \in [Workers -> [Partitions -> Nat]]
      BY <3>1 DEF TypeOK
    <3>3. QED
      BY <2>2, <3>2 DEF TypeOK
  <2>4. recs' \in [Partitions -> [Seqs -> Record(Workers)]]
    <3>1. Reserved(recs[p][n], w) \in Record(Workers)
      BY <1>0, RecordOps
    <3>2. QED
      BY <1>4, <2>2, <3>1 DEF TypeOK
  <2>5. win' \in [Workers -> [Partitions -> Windows]]
    BY <1>1, <2>1, <2>2
  <2>6. QED
    BY <1>0, <2>2, <2>3, <2>4, <2>5 DEF TypeOK
<1>7. CASE MarkProcessing(w, p)
  <2>1. {"failed", "handling"} \subseteq Places
    BY DEF Places, Delivering, Sinking
  <2>2. /\ recs' \in {recs, [recs EXCEPT ![p][n] = Processing(recs[p][n], w)]}
        /\ \E place \in {"failed", "handling"} : Goto(w, p, place)
        /\ runs' \in {runs, [runs EXCEPT ![p][n] = @ + 1]}
        /\ UNCHANGED faults \/ Fault("db")
        /\ UNCHANGED <<rows, proc, expected>>
    BY <1>7 DEF MarkProcessing, SetRec, Uncertain
  <2>3. runs' \in [Partitions -> [Seqs -> Nat]]
    <3>1. runs[p][n] + 1 \in Nat
      BY <1>0 DEF TypeOK
    <3>2. [runs EXCEPT ![p][n] = runs[p][n] + 1]
            \in [Partitions -> [Seqs -> Nat]]
      BY <1>0, <3>1 DEF TypeOK
    <3>3. QED
      BY <2>2, <3>2 DEF TypeOK
  <2>4. recs' \in [Partitions -> [Seqs -> Record(Workers)]]
    <3>1. Processing(recs[p][n], w) \in Record(Workers)
      BY <1>0, RecordOps
    <3>2. QED
      BY <1>4, <2>2, <3>1 DEF TypeOK
  <2>5. win' \in [Workers -> [Partitions -> Windows]]
    BY <1>1, <2>1, <2>2
  <2>6. QED
    BY <1>0, <2>2, <2>3, <2>4, <2>5 DEF TypeOK
<1>8. CASE HandlerReturns(w, p) \/ HandlerRaises(w, p) \/ DeliveryTimeout(w, p)
  <2>1. {"handled", "aborting", "failed"} \subseteq Places
    BY DEF Places, Delivering, Sinking
  <2>2. /\ \E place \in {"handled", "aborting", "failed"} : Goto(w, p, place)
        /\ UNCHANGED faults \/ \E kind : Fault(kind)
        /\ UNCHANGED <<durable, proc, expected, runs>>
    BY <1>8 DEF HandlerReturns, HandlerRaises, DeliveryTimeout
  <2>3. QED
    BY <1>0, <1>1, <2>1, <2>2 DEF TypeOK, durable
<1>9. CASE AbortReservation(w, p)
  <2>1. /\ recs' \in {recs, [recs EXCEPT ![p][n] = Aborted(recs[p][n], w)]}
        /\ Goto(w, p, "failed") /\ "failed" \in Places
        /\ UNCHANGED faults \/ Fault("db")
        /\ UNCHANGED <<rows, proc, expected, runs>>
    BY <1>9 DEF AbortReservation, SetRec, Places
  <2>2. recs' \in [Partitions -> [Seqs -> Record(Workers)]]
    <3>1. Aborted(recs[p][n], w) \in Record(Workers)
      BY <1>0, RecordOps
    <3>2. QED
      BY <1>4, <2>1, <3>1 DEF TypeOK
  <2>3. QED
    BY <1>0, <1>1, <2>1, <2>2 DEF TypeOK
<1>10. CASE CompleteDelivery(w, p)
  <2>1. {"failed", "accepted"} \subseteq Places
    BY DEF Places, Delivering, Sinking
  <2>2. /\ recs' \in {recs, [recs EXCEPT ![p][n] = Completed(recs[p][n], w)]}
        /\ \E place \in {"failed", "accepted"} : Goto(w, p, place)
        /\ expected' \in {expected, [expected EXCEPT ![w][p] = @ + 1]}
        /\ UNCHANGED faults \/ Fault("db")
        /\ UNCHANGED <<rows, proc, runs>>
    BY <1>10 DEF CompleteDelivery, SetRec, Uncertain
  <2>3. expected' \in [Workers -> [Partitions -> Nat]]
    <3>1. expected[w][p] + 1 \in Nat
      BY DEF TypeOK
    <3>2. [expected EXCEPT ![w][p] = expected[w][p] + 1]
            \in [Workers -> [Partitions -> Nat]]
      BY <3>1 DEF TypeOK
    <3>3. QED
      BY <2>2, <3>2 DEF TypeOK
  <2>4. recs' \in [Partitions -> [Seqs -> Record(Workers)]]
    <3>1. Completed(recs[p][n], w) \in Record(Workers)
      BY <1>0, RecordOps
    <3>2. QED
      BY <1>4, <2>2, <3>1 DEF TypeOK
  <2>5. win' \in [Workers -> [Partitions -> Windows]]
    BY <1>1, <2>1, <2>2
  <2>6. QED
    BY <1>0, <2>2, <2>3, <2>4, <2>5 DEF TypeOK
<1>11. CASE MarkPublished(w, p)
  <2>1. /\ rows' \in {rows, [rows EXCEPT ![p][n] = Published(rows[p][n], w)]}
        /\ UNCHANGED faults \/ Fault("db")
        /\ UNCHANGED <<recs, proc, expected, runs>>
    BY <1>11 DEF MarkPublished, SetRow, Uncertain
  <2>2. win' \in [Workers -> [Partitions -> Windows]]
    <3>1. CASE Goto(w, p, "failed") \/ SetWin(w, p, NoWindow)
      BY <1>1, <1>2, <3>1, NoWindowType DEF Places
    <3>2. CASE \E m \in win[w][p].tail :
                 SetWin(w, p, [at |-> "head", head |-> m,
                               tail |-> win[w][p].tail \ {m},
                               cursor |-> win[w][p].cursor + 1])
      <4>1. PICK m \in win[w][p].tail :
                 SetWin(w, p, [at |-> "head", head |-> m,
                               tail |-> win[w][p].tail \ {m},
                               cursor |-> win[w][p].cursor + 1])
        BY <3>2
      <4>2. [at |-> "head", head |-> m, tail |-> win[w][p].tail \ {m},
             cursor |-> win[w][p].cursor + 1] \in Windows
        BY <1>0 DEF Windows, Places
      <4>3. QED
        BY <1>2, <4>1, <4>2
    <3>3. QED
      BY <1>11, <3>1, <3>2 DEF MarkPublished
  <2>3. rows' \in [Partitions -> [Seqs -> Row(Workers)]]
    <3>1. Published(rows[p][n], w) \in Row(Workers)
      BY <1>0, RowOps
    <3>2. [rows EXCEPT ![p][n] = Published(rows[p][n], w)]
            \in [Partitions -> [Seqs -> Row(Workers)]]
      BY <1>0, <1>3, <3>1
    <3>3. QED
      BY <2>1, <3>2 DEF TypeOK
  <2>4. QED
    BY <1>0, <2>1, <2>2, <2>3 DEF TypeOK
<1>12. CASE ReleaseHead(w, p)
  <2>1. /\ rows' \in {rows, [rows EXCEPT ![p][n] =
                              Released(rows[p][n], w, 0)]}
        /\ SetWin(w, p, TailOnly(win[w][p]))
        /\ UNCHANGED faults \/ Fault("db")
        /\ UNCHANGED <<recs, proc, expected, runs>>
    BY <1>12 DEF ReleaseHead, Uncertain
  <2>2. rows' \in [Partitions -> [Seqs -> Row(Workers)]]
    <3>1. Released(rows[p][n], w, 0) \in Row(Workers)
      BY <1>0, RowOps
    <3>2. [rows EXCEPT ![p][n] = Released(rows[p][n], w, 0)]
            \in [Partitions -> [Seqs -> Row(Workers)]]
      BY <1>0, <1>3, <3>1
    <3>3. QED
      BY <2>1, <3>2 DEF TypeOK
  <2>3. TailOnly(win[w][p]) \in Windows
    BY <1>0, WindowOps
  <2>4. QED
    BY <1>0, <1>2, <2>1, <2>2, <2>3 DEF TypeOK
<1>13. CASE \E m \in Seqs : ReleaseTail(w, p, m)
  <2>1. PICK m \in Seqs : ReleaseTail(w, p, m)
    BY <1>13
  <2>2. /\ rows' \in {rows, [rows EXCEPT ![p][m] =
                              Released(rows[p][m], w, 1)]}
        /\ SetWin(w, p, TailOnly([win[w][p] EXCEPT !.tail = @ \ {m}]))
        /\ UNCHANGED faults \/ Fault("db")
        /\ UNCHANGED <<recs, proc, expected, runs>>
    BY <2>1 DEF ReleaseTail, Uncertain
  <2>3. rows[p][m] \in Row(Workers)
    BY DEF TypeOK
  <2>4. rows' \in [Partitions -> [Seqs -> Row(Workers)]]
    <3>1. Released(rows[p][m], w, 1) \in Row(Workers)
      BY <2>3, RowOps
    <3>2. [rows EXCEPT ![p][m] = Released(rows[p][m], w, 1)]
            \in [Partitions -> [Seqs -> Row(Workers)]]
      BY <1>0, <1>3, <3>1
    <3>3. QED
      BY <2>2, <3>2 DEF TypeOK
  <2>5. TailOnly([win[w][p] EXCEPT !.tail = @ \ {m}]) \in Windows
    BY <1>0, WindowOps
  <2>6. QED
    BY <1>0, <1>2, <2>2, <2>4, <2>5 DEF TypeOK
<1>14. QED
  BY <1>5, <1>6, <1>7, <1>8, <1>9, <1>10, <1>11, <1>12, <1>13
     DEF DeliveryStep

\* Appends, process and time steps keep the types.
LEMMA EnvironmentType ==
  ASSUME TypeOK,
         \/ \E p \in Partitions, n \in Seqs :
              Append(p, n) \/ LapseClaim(p, n) \/ LapseRecord(p, n)
         \/ \E w \in Workers :
              Close(w) \/ Cancel(w) \/ Exit(w) \/ Crash(w) \/ Restart(w)
  PROVE  TypeOK'
<1>0. \A kind : Fault(kind) => faults' \in 0..FaultBudget
  BY DispatchAssumption DEF TypeOK, Fault
<1>1. ASSUME NEW p \in Partitions, NEW n \in Seqs, Append(p, n)
      PROVE  TypeOK'
  <2>1. Appended \in Row(Workers)
    BY MaxAttemptsAssumption DEF Appended, Row, RowStates
  <2>2. QED
    BY <1>1, <2>1 DEF Append, SetRow, TypeOK
<1>2. ASSUME NEW p \in Partitions, NEW n \in Seqs, LapseClaim(p, n)
      PROVE  TypeOK'
  <2>1. [rows[p][n] EXCEPT !.lapsed = TRUE] \in Row(Workers)
    <3>1. rows[p][n] \in Row(Workers)
      BY DEF TypeOK
    <3>2. QED
      BY <3>1 DEF Row
  <2>2. rows' \in [Partitions -> [Seqs -> Row(Workers)]]
    BY <1>2, <2>1 DEF LapseClaim, SetRow, TypeOK
  <2>3. QED
    BY <1>0, <1>2, <2>2 DEF LapseClaim, TypeOK
<1>3. ASSUME NEW p \in Partitions, NEW n \in Seqs, LapseRecord(p, n)
      PROVE  TypeOK'
  <2>1. [recs[p][n] EXCEPT !.lapsed = TRUE] \in Record(Workers)
    <3>1. recs[p][n] \in Record(Workers)
      BY DEF TypeOK
    <3>2. QED
      BY <3>1 DEF Record
  <2>2. recs' \in [Partitions -> [Seqs -> Record(Workers)]]
    BY <1>3, <2>1 DEF LapseRecord, SetRec, TypeOK
  <2>3. QED
    BY <1>0, <1>3, <2>2 DEF LapseRecord, TypeOK
<1>4. ASSUME NEW w \in Workers, Close(w) \/ Restart(w)
      PROVE  TypeOK'
  BY <1>0, <1>4 DEF Close, Restart, TypeOK, durable
<1>5. ASSUME NEW w \in Workers, Cancel(w)
      PROVE  TypeOK'
  <2>1. ASSUME NEW p \in Partitions
        PROVE  (CASE At(w, p) \in Delivering ->
                       [win[w][p] EXCEPT !.at = "failed"]
                  [] At(w, p) = "failed" -> TailOnly(win[w][p])
                  [] OTHER -> NoWindow) \in Windows
    <3>1. win[w][p] \in Windows /\ "failed" \in Places
      BY DEF TypeOK, Places
    <3>2. "failed" \notin Delivering
      BY DEF Delivering, Sinking
    <3>3. QED
      BY <3>1, <3>2, WindowOps, NoWindowType
  <2>2. win' \in [Workers -> [Partitions -> Windows]]
    BY <1>5, <2>1 DEF Cancel, TypeOK
  <2>3. QED
    BY <1>5, <2>2 DEF Cancel, TypeOK, durable
<1>6. ASSUME NEW w \in Workers, Exit(w) \/ Crash(w)
      PROVE  TypeOK'
  <2>1. win' \in [Workers -> [Partitions -> Windows]]
    BY <1>6, NoWindowType DEF Exit, Crash, Gone, TypeOK
  <2>2. /\ proc' \in [Workers -> {"running", "closing", "cancelled", "down"}]
        /\ expected' \in [Workers -> [Partitions -> Nat]]
    <3>1. /\ proc' = [proc EXCEPT ![w] = "down"]
          /\ expected' = [expected EXCEPT ![w] = [p \in Partitions |-> 0]]
      BY <1>6 DEF Exit, Crash, Gone
    <3>2. proc' \in [Workers -> {"running", "closing", "cancelled", "down"}]
      BY <3>1 DEF TypeOK
    <3>3. [p \in Partitions |-> 0] \in [Partitions -> Nat]
      OBVIOUS
    <3>4. QED
      BY <3>1, <3>2, <3>3 DEF TypeOK
  <2>3. faults' \in 0..FaultBudget
    BY <1>0, <1>6 DEF Exit, Crash, TypeOK
  <2>4. QED
    BY <1>6, <2>1, <2>2, <2>3 DEF Exit, Crash, Gone, TypeOK, durable
<1>7. QED
  BY <1>1, <1>2, <1>3, <1>4, <1>5, <1>6

\* A fresh table and freshly started processes are well typed.
LEMMA TypeInit == Init => TypeOK
<1>1. AbsentRow \in Row(Workers) /\ NoRecord \in Record(Workers)
  BY MaxAttemptsAssumption
     DEF AbsentRow, Row, RowStates, NoRecord, Record, RecordStates
<1>2. QED
  BY <1>1, NoWindowType, DispatchAssumption DEF Init, TypeOK

\* Every step of Next keeps the types.
LEMMA TypeNext == TypeOK /\ [Next]_vars => TypeOK'
<1>1. ASSUME TypeOK, UNCHANGED vars PROVE TypeOK'
  BY <1>1 DEF vars, TypeOK
<1>2. QED
  BY <1>1, ClaimType, DeliveryType, EnvironmentType DEF Next

\* The type invariant holds in every reachable state.
THEOREM TypeCorrect == Spec => []TypeOK
BY TypeInit, TypeNext, PTL DEF Spec

-----------------------------------------------------------------------------
\* What a step does to the rows

\* A transaction other than a confirmation: a settled row stays as it is,
\* and no row becomes PUBLISHED.
Harmless(old, new) ==
  /\ old.state \in {"PUBLISHED", "DEAD"} => new = old
  /\ new.state = "PUBLISHED" => old.state = "PUBLISHED"

\* All transactions but mark_published are harmless, and mark_published
\* leaves settled rows alone.
LEMMA RowEffects ==
  ASSUME NEW row \in Row(Workers), NEW w \in Workers
  PROVE  /\ Harmless(row, row)
         /\ Harmless(row, Recovered(row))
         /\ Harmless(row, Renewed(row, w))
         /\ Harmless(row, Released(row, w, 1))
         /\ Harmless(row, Released(row, w, 0))
         /\ Claimable(row) => Harmless(row, Claimed(row, w))
         /\ Claimable(Recovered(row)) =>
              Harmless(row, Claimed(Recovered(row), w))
         /\ row.state \in {"PUBLISHED", "DEAD"} => Published(row, w) = row
<1>1. \A a : Unclaimed(a).state # "PUBLISHED"
  BY DEF Unclaimed
<1>2. Harmless(row, row)
  BY DEF Harmless
<1>3. Harmless(row, Recovered(row))
  BY <1>1 DEF Harmless, Recovered
<1>4. Harmless(row, Renewed(row, w))
  <2>1. CASE ClaimedBy(row, w)
    BY <2>1 DEF Harmless, Renewed, ClaimedBy, Row
  <2>2. CASE ~ClaimedBy(row, w)
    BY <2>2 DEF Harmless, Renewed
  <2>3. QED
    BY <2>1, <2>2
<1>5. Harmless(row, Released(row, w, 1))
  BY <1>1 DEF Harmless, Released, ClaimedBy
<1>6. Harmless(row, Released(row, w, 0))
  BY <1>1 DEF Harmless, Released, ClaimedBy
<1>7. Claimable(row) => Harmless(row, Claimed(row, w))
  BY DEF Harmless, Claimable, Claimed
<1>8. Claimable(Recovered(row)) => Harmless(row, Claimed(Recovered(row), w))
  BY DEF Harmless, Claimable, Claimed, Recovered
<1>9. row.state \in {"PUBLISHED", "DEAD"} => Published(row, w) = row
  BY DEF Published, ClaimedBy
<1>10. QED
  BY <1>2, <1>3, <1>4, <1>5, <1>6, <1>7, <1>8, <1>9

\* A step that is no mark_published is harmless to every row.
LEMMA RowsQuiet ==
  ASSUME TypeOK, Next, NEW q \in Partitions, NEW m \in Seqs,
         \A w \in Workers, p \in Partitions : ~MarkPublished(w, p)
  PROVE  Harmless(rows[q][m], rows'[q][m])
<1>0. rows[q][m] \in Row(Workers)
  BY DEF TypeOK
<1>1. CASE rows'[q][m] = rows[q][m]
  BY <1>1 DEF Harmless
<1>2. ASSUME NEW p \in Partitions, NEW n \in Seqs, Append(p, n)
      PROVE  Harmless(rows[q][m], rows'[q][m])
  BY <1>2 DEF Append, SetRow, Appended, Harmless, TypeOK
<1>3. ASSUME NEW p \in Partitions, NEW n \in Seqs, LapseClaim(p, n)
      PROVE  Harmless(rows[q][m], rows'[q][m])
  <2>1. CASE p = q /\ n = m
    <3>1. rows'[q][m] = [rows[q][m] EXCEPT !.lapsed = TRUE]
      BY <1>3, <2>1 DEF LapseClaim, SetRow, TypeOK
    <3>2. rows[q][m].state = "CLAIMED"
      BY <1>3, <2>1 DEF LapseClaim
    <3>3. QED
      BY <1>0, <3>1, <3>2 DEF Harmless, Row
  <2>2. CASE ~(p = q /\ n = m)
    <3>1. rows'[q][m] = rows[q][m]
      BY <1>3, <2>2 DEF LapseClaim, SetRow, TypeOK
    <3>2. QED
      BY <3>1 DEF Harmless
  <2>3. QED
    BY <2>1, <2>2
<1>4. ASSUME NEW w \in Workers, NEW take \in Takes, ClaimBatch(w, take)
      PROVE  Harmless(rows[q][m], rows'[q][m])
  <2> DEFINE now == [p \in Partitions |->
                       [n \in Seqs |-> Recovered(rows[p][n])]]
  <2>1. PICK c \in [Partitions -> 0..Length] :
          /\ \A p \in Partitions : MayClaimRun(now[p], c[p], take[p])
          /\ rows' = [p \in Partitions |->
                        ClaimedRun(now[p], c[p], take[p], w)]
    BY <1>4 DEF ClaimBatch
  <2>2. DOMAIN now[q] = Seqs /\ now[q][m] = Recovered(rows[q][m])
    OBVIOUS
  <2> HIDE DEF now
  <2>3. \/ rows'[q][m] = now[q][m]
        \/ rows'[q][m] = Claimed(now[q][m], w) /\ Claimable(now[q][m])
    BY <2>1, <2>2 DEF ClaimedRun, MayClaimRun
  <2>4. /\ Harmless(rows[q][m], Recovered(rows[q][m]))
        /\ Claimable(Recovered(rows[q][m])) =>
             Harmless(rows[q][m], Claimed(Recovered(rows[q][m]), w))
    BY <1>0, RowEffects
  <2>5. QED
    BY <2>2, <2>3, <2>4
<1>5. ASSUME NEW w \in Workers, NEW p \in Partitions, EnterDelivery(w, p)
      PROVE  Harmless(rows[q][m], rows'[q][m])
  <2>1. rows'[q][m] = rows[q][m] \/ rows'[q][m] = Renewed(rows[q][m], w)
    <3>1. \/ rows' = rows
          \/ rows' = [rows EXCEPT ![p] = [n \in Seqs |->
                        IF n \in Held(w, p) THEN Renewed(rows[p][n], w)
                                            ELSE rows[p][n]]]
      BY <1>5 DEF EnterDelivery, Uncertain
    <3>2. CASE p = q
      BY <3>1, <3>2 DEF TypeOK
    <3>3. CASE p # q
      BY <3>1, <3>3 DEF TypeOK
    <3>4. QED
      BY <3>2, <3>3
  <2>2. QED
    BY <1>0, <2>1, RowEffects
<1>6. ASSUME NEW w \in Workers, NEW p \in Partitions, ReleaseHead(w, p)
      PROVE  Harmless(rows[q][m], rows'[q][m])
  <2>1. \/ rows'[q][m] = rows[q][m]
        \/ rows'[q][m] = Released(rows[q][m], w, 0)
    <3>1. \/ rows' = rows
          \/ rows' = [rows EXCEPT ![p][win[w][p].head] =
                        Released(rows[p][win[w][p].head], w, 0)]
      BY <1>6 DEF ReleaseHead, Uncertain
    <3>2. CASE p = q /\ win[w][p].head = m
      BY <3>1, <3>2 DEF TypeOK
    <3>3. CASE ~(p = q /\ win[w][p].head = m)
      BY <3>1, <3>3 DEF TypeOK
    <3>4. QED
      BY <3>2, <3>3
  <2>2. QED
    BY <1>0, <2>1, RowEffects
<1>7. ASSUME NEW w \in Workers, NEW p \in Partitions, NEW n \in Seqs,
             ReleaseTail(w, p, n)
      PROVE  Harmless(rows[q][m], rows'[q][m])
  <2>1. \/ rows'[q][m] = rows[q][m]
        \/ rows'[q][m] = Released(rows[q][m], w, 1)
    <3>1. \/ rows' = rows
          \/ rows' = [rows EXCEPT ![p][n] = Released(rows[p][n], w, 1)]
      BY <1>7 DEF ReleaseTail, Uncertain
    <3>2. CASE p = q /\ n = m
      BY <3>1, <3>2 DEF TypeOK
    <3>3. CASE p # q
      BY <3>1, <3>3 DEF TypeOK
    <3>4. CASE p = q /\ n # m
      BY <3>1, <3>4 DEF TypeOK
    <3>5. QED
      BY <3>2, <3>3, <3>4
  <2>2. QED
    BY <1>0, <2>1, RowEffects
<1>8. ASSUME NEW w \in Workers, NEW p \in Partitions,
             \/ SinkReserve(w, p) \/ MarkProcessing(w, p)
             \/ HandlerReturns(w, p) \/ HandlerRaises(w, p)
             \/ AbortReservation(w, p) \/ CompleteDelivery(w, p)
             \/ DeliveryTimeout(w, p)
      PROVE  rows' = rows
  BY <1>8 DEF SinkReserve, MarkProcessing, HandlerReturns, HandlerRaises,
         AbortReservation, CompleteDelivery, DeliveryTimeout, durable
<1>9. ASSUME NEW w \in Workers,
              Close(w) \/ Cancel(w) \/ Exit(w) \/ Crash(w) \/ Restart(w)
       PROVE  rows' = rows
  BY <1>9 DEF Close, Cancel, Exit, Crash, Gone, Restart, durable
<1>10. ASSUME NEW p \in Partitions, NEW n \in Seqs, LapseRecord(p, n)
       PROVE  rows' = rows
  BY <1>10 DEF LapseRecord
<1>11. ASSUME NEW w \in Workers, NEW p \in Partitions, DeliveryStep(w, p)
       PROVE  Harmless(rows[q][m], rows'[q][m])
  BY <1>1, <1>5, <1>6, <1>7, <1>8, <1>11 DEF DeliveryStep
<1>12. QED
  BY <1>1, <1>2, <1>3, <1>4, <1>8, <1>9, <1>10, <1>11 DEF Next

\* A step leaves settled rows alone, and only a worker at mark_published
\* confirms a row: the head of its window.
LEMMA RowsStep ==
  ASSUME TypeOK, Next, NEW q \in Partitions, NEW m \in Seqs
  PROVE  \/ Harmless(rows[q][m], rows'[q][m])
         \/ /\ \E w \in Workers : At(w, q) = "accepted" /\ win[w][q].head = m
            /\ State(q, m) \in {"PUBLISHED", "DEAD"} =>
                 rows'[q][m] = rows[q][m]
<1>0. rows[q][m] \in Row(Workers)
  BY DEF TypeOK
<1>1. CASE \A w \in Workers, p \in Partitions : ~MarkPublished(w, p)
  BY <1>1, RowsQuiet
<1>2. ASSUME NEW w \in Workers, NEW p \in Partitions, MarkPublished(w, p)
      PROVE  \/ rows'[q][m] = rows[q][m]
             \/ /\ At(w, q) = "accepted" /\ win[w][q].head = m
                /\ State(q, m) \in {"PUBLISHED", "DEAD"} =>
                     rows'[q][m] = rows[q][m]
  <2>1. \/ rows' = rows
        \/ rows' = [rows EXCEPT ![p][win[w][p].head] =
                      Published(rows[p][win[w][p].head], w)]
    BY <1>2 DEF MarkPublished, SetRow, Uncertain
  <2>2. At(w, p) = "accepted"
    BY <1>2 DEF MarkPublished
  <2>3. CASE p = q /\ win[w][p].head = m
    <3>1. rows'[q][m] = rows[q][m] \/ rows'[q][m] = Published(rows[q][m], w)
      BY <2>1, <2>3 DEF TypeOK
    <3>2. QED
      BY <1>0, <2>2, <2>3, <3>1, RowEffects DEF State
  <2>4. CASE ~(p = q /\ win[w][p].head = m)
    BY <2>1, <2>4 DEF TypeOK
  <2>5. QED
    BY <2>3, <2>4
<1>3. QED
  BY <1>1, <1>2 DEF Harmless

\* Rows that were confirmed or dead-lettered are never touched again.
THEOREM SettledForever == Spec => SettledIsFinal
<1>1. TypeOK /\ Next => \A p \in Partitions, n \in Seqs :
        State(p, n) \in {"PUBLISHED", "DEAD"} => rows'[p][n] = rows[p][n]
  BY RowsStep DEF Harmless, State
<1>2. UNCHANGED vars => \A p \in Partitions, n \in Seqs :
        State(p, n) \in {"PUBLISHED", "DEAD"} => rows'[p][n] = rows[p][n]
  BY DEF vars
<1>3. QED
  BY <1>1, <1>2, TypeCorrect, PTL DEF Spec, SettledIsFinal

-----------------------------------------------------------------------------
\* Confirmed messages form a prefix

PastCheck == Delivering \ {"sink"}

\* A window keeps its message, moves to the next one after a confirmation, or
\* is new and starts at the published cursor.
Kept(w, p) ==
  /\ At(w, p) \in Advancing
  /\ win'[w][p].head = win[w][p].head
  /\ win'[w][p].cursor = win[w][p].cursor
  /\ win'[w][p].at \in PastCheck =>
       At(w, p) \in PastCheck \/ win[w][p].head = win[w][p].cursor

Advanced(w, p) ==
  /\ At(w, p) = "accepted"
  /\ win'[w][p].at = "head"
  /\ win'[w][p].cursor = win[w][p].cursor + 1
  /\ rows'[p][win[w][p].head].state = "PUBLISHED"

New(w, p) ==
  /\ win'[w][p].at = "head"
  /\ \/ win'[w][p].cursor = 0
     \/ \E k \in Seqs : win'[w][p].cursor = k + 1 /\ State(p, k) = "PUBLISHED"

\* Moving within a delivery keeps the message.
LEMMA GotoKeeps ==
  ASSUME TypeOK, NEW w \in Workers, NEW p \in Partitions,
         NEW place \in Places, Goto(w, p, place)
  PROVE  /\ win'[w][p].at = place
         /\ win'[w][p].head = win[w][p].head
         /\ win'[w][p].cursor = win[w][p].cursor
<1>1. win[w][p] \in Windows
  BY DEF TypeOK
<1>2. win'[w][p] = [win[w][p] EXCEPT !.at = place]
  BY DEF Goto, SetWin, TypeOK
<1>3. QED
  BY <1>1, <1>2 DEF Windows

\* The step of one worker in one partition, seen from its own window.
LEMMA OwnWindow ==
  ASSUME TypeOK, NEW w \in Workers, NEW p \in Partitions,
         \/ DeliveryStep(w, p)
         \/ HandlerRaises(w, p)
         \/ DeliveryTimeout(w, p),
         win'[w][p].at \in Advancing
  PROVE  Kept(w, p) \/ Advanced(w, p)
<1>0. /\ win[w][p] \in Windows
      /\ "failed" \notin Advancing /\ "releasing" \notin Advancing
      /\ "idle" \notin Advancing
      /\ {"head", "sink", "reserved", "handling", "handled", "aborting",
          "accepted"} \subseteq Advancing
      /\ Advancing \subseteq Places
      /\ {"reserved", "handling", "handled", "aborting", "accepted"}
           \subseteq PastCheck
      /\ "sink" \notin PastCheck
  BY DEF TypeOK, Advancing, Delivering, Sinking, PastCheck, Places
<1>1. \A window : SetWin(w, p, window) => win'[w][p] = window
  BY DEF SetWin, TypeOK
<1>2. ~Goto(w, p, "failed")
  BY <1>0, GotoKeeps DEF Places
<1>3. ~SetWin(w, p, NoWindow)
  BY <1>0, <1>1 DEF NoWindow
<1>4. \A window \in Windows : ~SetWin(w, p, TailOnly(window))
  BY <1>0, <1>1 DEF TailOnly, NoWindow, Windows
<1>5. CASE EnterDelivery(w, p)
  <2>1. ~SetWin(w, p, [win[w][p] EXCEPT !.at = "releasing",
                                        !.tail = Held(w, p)])
    BY <1>0, <1>1 DEF Windows
  <2>2. Goto(w, p, "sink") /\ At(w, p) = "head"
    BY <1>5, <2>1 DEF EnterDelivery
  <2>3. QED
    BY <1>0, <2>2, GotoKeeps DEF Kept
<1>6. CASE SinkReserve(w, p)
  <2>1. /\ At(w, p) = "sink"
        /\ win[w][p].head = win[w][p].cursor
        /\ \E place \in {"reserved", "accepted"} : Goto(w, p, place)
    BY <1>2, <1>6 DEF SinkReserve
  <2>2. QED
    BY <1>0, <2>1, GotoKeeps DEF Kept
<1>7. CASE MarkProcessing(w, p) \/ HandlerReturns(w, p) \/ HandlerRaises(w, p)
           \/ CompleteDelivery(w, p)
  <2>1. /\ At(w, p) \in {"reserved", "handling", "handled"}
        /\ \E place \in {"handling", "handled", "aborting", "accepted"} :
             Goto(w, p, place)
    BY <1>2, <1>7 DEF MarkProcessing, HandlerReturns, HandlerRaises,
                      CompleteDelivery
  <2>2. QED
    BY <1>0, <2>1, GotoKeeps DEF Kept
<1>8. CASE AbortReservation(w, p) \/ DeliveryTimeout(w, p)
  BY <1>2, <1>8 DEF AbortReservation, DeliveryTimeout
<1>9. CASE MarkPublished(w, p)
  <2>1. PICK m \in win[w][p].tail :
          /\ ClaimedBy(rows[p][win[w][p].head], w)
          /\ SetRow(p, win[w][p].head, Published(rows[p][win[w][p].head], w))
          /\ SetWin(w, p, [at |-> "head", head |-> m,
                           tail |-> win[w][p].tail \ {m},
                           cursor |-> win[w][p].cursor + 1])
    BY <1>2, <1>3, <1>9 DEF MarkPublished
  <2>2. rows'[p][win[w][p].head].state = "PUBLISHED"
    <3>1. win[w][p].head \in Seqs
      BY <1>0 DEF Windows
    <3>2. rows'[p][win[w][p].head] = Published(rows[p][win[w][p].head], w)
      BY <2>1, <3>1 DEF SetRow, TypeOK
    <3>3. QED
      BY <2>1, <3>2 DEF Published
  <2>3. At(w, p) = "accepted"
    BY <1>9 DEF MarkPublished
  <2>4. QED
    BY <1>1, <2>1, <2>2, <2>3 DEF Advanced
<1>10. CASE ReleaseHead(w, p)
  BY <1>0, <1>4, <1>10 DEF ReleaseHead
<1>11. CASE \E n \in Seqs : ReleaseTail(w, p, n)
  <2>1. \A n : [win[w][p] EXCEPT !.tail = @ \ {n}] \in Windows
    BY <1>0 DEF Windows
  <2>2. QED
    BY <1>4, <1>11, <2>1 DEF ReleaseTail
<1>12. QED
  BY <1>5, <1>6, <1>7, <1>8, <1>9, <1>10, <1>11 DEF DeliveryStep

\* A step of one worker in one partition leaves the other windows alone.
LEMMA OtherWindow ==
  ASSUME TypeOK, NEW w \in Workers, NEW p \in Partitions,
         \/ DeliveryStep(w, p)
         \/ HandlerRaises(w, p)
         \/ DeliveryTimeout(w, p),
         NEW v \in Workers, NEW q \in Partitions, v # w \/ q # p
  PROVE  win'[v][q] = win[v][q]
<1>1. \E window : SetWin(w, p, window)
  BY DEF DeliveryStep, EnterDelivery, SinkReserve, MarkProcessing,
         HandlerReturns, HandlerRaises, AbortReservation, CompleteDelivery,
         DeliveryTimeout, MarkPublished, ReleaseHead, ReleaseTail, Goto
<1>2. PICK window : SetWin(w, p, window)
  BY <1>1
<1>3. CASE v # w
  BY <1>2, <1>3 DEF SetWin, TypeOK
<1>4. CASE v = w /\ q # p
  BY <1>2, <1>4 DEF SetWin, TypeOK
<1>5. QED
  BY <1>3, <1>4

\* Every step, seen from any window that goes on after it.
LEMMA WindowStep ==
  ASSUME TypeOK, Next, NEW v \in Workers, NEW q \in Partitions,
         win'[v][q].at \in Advancing
  PROVE  Kept(v, q) \/ Advanced(v, q) \/ New(v, q)
<1>0. "failed" \notin Advancing /\ "releasing" \notin Advancing
      /\ "idle" \notin Advancing /\ Delivering \subseteq Places
  BY DEF Advancing, Delivering, Sinking, Places
<1>1. ASSUME win'[v][q] = win[v][q] PROVE Kept(v, q)
  BY <1>1 DEF Kept, At
<1>2. ASSUME NEW w \in Workers, NEW p \in Partitions,
             DeliveryStep(w, p) \/ HandlerRaises(w, p) \/ DeliveryTimeout(w, p)
      PROVE  Kept(v, q) \/ Advanced(v, q)
  <2>1. CASE v = w /\ q = p
    BY <1>2, <2>1, OwnWindow
  <2>2. CASE v # w \/ q # p
    BY <1>1, <1>2, <2>2, OtherWindow
  <2>3. QED
    BY <2>1, <2>2
<1>3. ASSUME NEW w \in Workers, NEW take \in Takes, ClaimBatch(w, take)
      PROVE  Kept(v, q) \/ New(v, q)
  <2> DEFINE now == [p \in Partitions |->
                       [n \in Seqs |-> Recovered(rows[p][n])]]
  <2>1. PICK c \in [Partitions -> 0..Length] :
          /\ \A p \in Partitions : IsPublishedCursor(now[p], c[p])
          /\ win' = [win EXCEPT ![w] = [p \in Partitions |->
                       IF take[p] = 0 THEN NoWindow
                       ELSE [at |-> "head", head |-> c[p], cursor |-> c[p],
                             tail |-> (c[p] + 1)..(c[p] + take[p] - 1)]]]
    BY <1>3 DEF ClaimBatch
  <2>2. CASE v # w
    BY <1>1, <2>1, <2>2 DEF TypeOK
  <2>3. CASE v = w
    <3>1. win'[v][q] = IF take[q] = 0 THEN NoWindow
                       ELSE [at |-> "head", head |-> c[q], cursor |-> c[q],
                             tail |-> (c[q] + 1)..(c[q] + take[q] - 1)]
      BY <2>1, <2>3 DEF TypeOK
    <3>2. win'[v][q].at = "head" /\ win'[v][q].cursor = c[q]
      BY <1>0, <3>1 DEF NoWindow
    <3>3. c[q] \in Int
      BY DispatchAssumption
    <3>4. c[q] = 0 \/ (c[q] - 1 \in Seqs /\ now[q][c[q] - 1].state = "PUBLISHED")
      BY <2>1 DEF IsPublishedCursor
    <3>5. CASE c[q] = 0
      BY <3>2, <3>5 DEF New
    <3>6. CASE c[q] - 1 \in Seqs /\ now[q][c[q] - 1].state = "PUBLISHED"
      <4>1. now[q][c[q] - 1] = Recovered(rows[q][c[q] - 1])
        BY <3>6
      <4>2. rows[q][c[q] - 1] \in Row(Workers)
        BY <3>6 DEF TypeOK
      <4>3. State(q, c[q] - 1) = "PUBLISHED"
        BY <3>6, <4>1, <4>2, RowEffects DEF Harmless, State
      <4>4. c[q] = (c[q] - 1) + 1
        BY <3>3
      <4>5. QED
        BY <3>2, <3>6, <4>3, <4>4 DEF New
    <3>7. QED
      BY <3>4, <3>5, <3>6
  <2>4. QED
    BY <2>2, <2>3
<1>4. ASSUME NEW w \in Workers, Cancel(w) \/ Exit(w) \/ Crash(w)
      PROVE  win'[v][q] = win[v][q]
  <2>1. CASE v # w
    BY <1>4, <2>1 DEF Cancel, Exit, Crash, Gone, TypeOK
  <2>2. CASE v = w
    <3>1. win'[v][q].at \in {"idle", "releasing", "failed"}
      <4>1. CASE Cancel(w)
        <5>1. win'[v][q] = CASE At(w, q) \in Delivering ->
                                  [win[w][q] EXCEPT !.at = "failed"]
                             [] At(w, q) = "failed" -> TailOnly(win[w][q])
                             [] OTHER -> NoWindow
          BY <2>2, <4>1 DEF Cancel, TypeOK
        <5>2. win[w][q] \in Windows
          BY DEF TypeOK
        <5>3. QED
          BY <1>0, <5>1, <5>2
             DEF Windows, TailOnly, NoWindow, Delivering, Sinking
      <4>2. CASE Exit(w) \/ Crash(w)
        BY <2>2, <4>2 DEF Exit, Crash, Gone, TypeOK, NoWindow
      <4>3. QED
        BY <1>4, <4>1, <4>2
    <3>2. QED
      BY <1>0, <3>1
  <2>3. QED
    BY <2>1, <2>2
<1>5. ASSUME NEW w \in Workers, Close(w) \/ Restart(w)
      PROVE  win'[v][q] = win[v][q]
  BY <1>5 DEF Close, Restart
<1>6. ASSUME NEW p \in Partitions, NEW n \in Seqs,
             Append(p, n) \/ LapseClaim(p, n) \/ LapseRecord(p, n)
      PROVE  win'[v][q] = win[v][q]
  BY <1>6 DEF Append, LapseClaim, LapseRecord
<1>7. QED
  BY <1>1, <1>2, <1>3, <1>4, <1>5, <1>6 DEF Next

\* Before the first append nothing is confirmed and no window is open.
LEMMA PrefixInit == Init => PrefixInv
BY TypeInit DEF Init, PrefixInv, PublishedPrefix, CursorSafe, HeadAtCursor,
       State, At, AbsentRow, NoWindow, Advancing, Delivering, Sinking

\* The prefix, what the open windows know of it and the sink's cursor check
\* are kept together by every step.
LEMMA PrefixNext == PrefixInv /\ [Next]_vars => PrefixInv'
<1> SUFFICES ASSUME PrefixInv, [Next]_vars PROVE PrefixInv'
  OBVIOUS
<1>1. CASE UNCHANGED vars
  BY <1>1 DEF vars, PrefixInv, TypeOK, PublishedPrefix, CursorSafe,
         HeadAtCursor, State, At
<1>2. CASE Next
  <2>0. TypeOK /\ TypeOK'
    BY TypeNext DEF PrefixInv
  <2>1. ASSUME NEW p \in Partitions, NEW n \in Seqs, State(p, n) = "PUBLISHED"
        PROVE  State(p, n)' = "PUBLISHED"
    BY <1>2, <2>0, <2>1, RowsStep DEF Harmless, State
  <2>2. PublishedPrefix'
    <3>1. SUFFICES ASSUME NEW p \in Partitions, NEW n \in Seqs,
                          State(p, n)' = "PUBLISHED", NEW m \in 0..n
                   PROVE  State(p, m)' = "PUBLISHED"
      BY DEF PublishedPrefix
    <3>2. m \in Seqs /\ m <= n
      BY DispatchAssumption DEF Seqs
    <3>3. CASE State(p, n) = "PUBLISHED"
      BY <2>1, <3>2, <3>3 DEF PrefixInv, PublishedPrefix
    <3>4. CASE State(p, n) # "PUBLISHED"
      <4>1. PICK w \in Workers : At(w, p) = "accepted" /\ win[w][p].head = n
        BY <1>2, <2>0, <3>1, <3>4, RowsStep DEF Harmless, State
      <4>2. win[w][p].cursor = n
        BY <4>1 DEF PrefixInv, HeadAtCursor, Delivering, Sinking
      <4>3. m < n => State(p, m) = "PUBLISHED"
        BY <3>2, <4>1, <4>2 DEF PrefixInv, CursorSafe, Advancing, Delivering
      <4>4. m < n \/ m = n
        BY <3>2 DEF Seqs
      <4>5. QED
        BY <2>1, <3>1, <3>2, <4>3, <4>4
    <3>5. QED
      BY <3>3, <3>4
  <2>3. CursorSafe'
    <3>1. SUFFICES ASSUME NEW w \in Workers, NEW p \in Partitions,
                          At(w, p)' \in Advancing,
                          NEW m \in Seqs, m < win'[w][p].cursor
                   PROVE  State(p, m)' = "PUBLISHED"
      BY DEF CursorSafe, Advancing, Delivering, Sinking
    <3>2. Kept(w, p) \/ Advanced(w, p) \/ New(w, p)
      BY <1>2, <2>0, <3>1, WindowStep DEF At
    <3>3. CASE Kept(w, p)
      BY <2>1, <3>1, <3>3 DEF Kept, PrefixInv, CursorSafe
    <3>4. CASE Advanced(w, p)
      <4>1. win[w][p].head = win[w][p].cursor
        BY <3>4 DEF Advanced, PrefixInv, HeadAtCursor, Delivering, Sinking
      <4>2. win[w][p].cursor \in Nat /\ m \in Nat
        BY <2>0, DispatchAssumption DEF TypeOK, Windows, Seqs
      <4>3. m < win[w][p].cursor \/ m = win[w][p].cursor
        BY <3>1, <3>4, <4>2 DEF Advanced
      <4>4. m < win[w][p].cursor => State(p, m) = "PUBLISHED"
        BY <3>4 DEF Advanced, PrefixInv, CursorSafe, Advancing, Delivering
      <4>5. QED
        BY <2>1, <3>4, <4>1, <4>3, <4>4 DEF Advanced, State
    <3>5. CASE New(w, p)
      <4>1. m \in Nat
        BY DispatchAssumption DEF Seqs
      <4>2. PICK k \in Seqs :
              win'[w][p].cursor = k + 1 /\ State(p, k) = "PUBLISHED"
        BY <3>1, <3>5, <4>1 DEF New
      <4>3. m \in 0..k
        BY <3>1, <4>1, <4>2, DispatchAssumption DEF Seqs
      <4>4. QED
        BY <2>1, <4>2, <4>3 DEF PrefixInv, PublishedPrefix
    <3>6. QED
      BY <3>2, <3>3, <3>4, <3>5
  <2>4. HeadAtCursor'
    <3>1. SUFFICES ASSUME NEW w \in Workers, NEW p \in Partitions,
                          At(w, p)' \in PastCheck
                   PROVE  win'[w][p].head = win'[w][p].cursor
      BY DEF HeadAtCursor, PastCheck, Delivering, Sinking
    <3>2. At(w, p)' \in Advancing /\ At(w, p)' # "head"
      BY <3>1 DEF Advancing, PastCheck, Delivering, Sinking
    <3>3. Kept(w, p)
      BY <1>2, <2>0, <3>2, WindowStep DEF At, Advanced, New
    <3>4. QED
      BY <3>1, <3>3 DEF Kept, PrefixInv, HeadAtCursor, PastCheck, At
  <2>5. QED
    BY <2>0, <2>2, <2>3, <2>4 DEF PrefixInv
<1>3. QED
  BY <1>1, <1>2

\* The confirmed messages of every partition are a prefix of it, for any
\* number of workers, messages, crashes, stalls and database errors.
THEOREM PrefixHolds == Spec => []PublishedPrefix
<1>1. PrefixInv => PublishedPrefix
  BY DEF PrefixInv
<1>2. QED
  BY <1>1, PrefixInit, PrefixNext, PTL DEF Spec

-----------------------------------------------------------------------------
\* Order of the handlers

\* Only mark_processing starts handlers, of the head of a window past the
\* sink's cursor check.
LEMMA RunsStep ==
  ASSUME TypeOK, Next, NEW p \in Partitions, NEW n \in Seqs,
         runs'[p][n] # runs[p][n]
  PROVE  \E w \in Workers : At(w, p) = "reserved" /\ win[w][p].head = n
<1>1. PICK w \in Workers, q \in Partitions : MarkProcessing(w, q)
  <2>1. runs' # runs
    OBVIOUS
  <2>2. ASSUME NEW w \in Workers, NEW q \in Partitions,
               \/ DeliveryStep(w, q)
               \/ HandlerRaises(w, q)
               \/ DeliveryTimeout(w, q)
        PROVE  MarkProcessing(w, q)
    BY <2>1, <2>2 DEF DeliveryStep, EnterDelivery, SinkReserve,
           HandlerReturns, AbortReservation, CompleteDelivery, MarkPublished,
           ReleaseHead, ReleaseTail, HandlerRaises, DeliveryTimeout
  <2>3. QED
    BY <2>1, <2>2 DEF Next, Append, LapseClaim, LapseRecord, ClaimBatch,
           Close, Cancel, Exit, Crash, Gone, Restart
<1>2. At(w, q) = "reserved"
  BY <1>1 DEF MarkProcessing
<1>3. runs' = [runs EXCEPT ![q][win[w][q].head] = @ + 1] \/ runs' = runs
  BY <1>1 DEF MarkProcessing
<1>4. runs \in [Partitions -> [Seqs -> Nat]]
  BY DEF TypeOK
<1>5. q = p
  BY <1>3, <1>4
<1>6. win[w][q].head = n
  <2>1. DEFINE h == win[w][q].head
  <2>2. runs'[p] = [runs[p] EXCEPT ![h] = @ + 1] \/ runs'[p] = runs[p]
    BY <1>3, <1>4, <1>5
  <2>3. h # n => runs'[p][n] = runs[p][n]
    BY <1>4, <2>2
  <2>4. QED
    BY <2>3
<1>7. QED
  BY <1>2, <1>5, <1>6

\* Handlers see every partition in order: the sink lets a message through
\* only at the published cursor, below which everything stays confirmed.
THEOREM OrderHolds == Spec => HandledInOrder
<1>1. ASSUME PrefixInv, Next
      PROVE  \A p \in Partitions, n \in Seqs :
               runs'[p][n] # runs[p][n] =>
                 \A m \in 0..(n - 1) : State(p, m) = "PUBLISHED"
  <2>1. SUFFICES ASSUME NEW p \in Partitions, NEW n \in Seqs,
                        runs'[p][n] # runs[p][n], NEW m \in 0..(n - 1)
                 PROVE  State(p, m) = "PUBLISHED"
    OBVIOUS
  <2>2. PICK w \in Workers : At(w, p) = "reserved" /\ win[w][p].head = n
    BY <1>1, <2>1, RunsStep DEF PrefixInv
  <2>3. win[w][p].cursor = n
    BY <1>1, <2>2 DEF PrefixInv, HeadAtCursor, Delivering, Sinking
  <2>4. m \in Seqs /\ m < n
    BY DispatchAssumption DEF Seqs
  <2>5. QED
    BY <1>1, <2>2, <2>3, <2>4
       DEF PrefixInv, CursorSafe, Advancing, Delivering, Sinking
<1>2. UNCHANGED vars =>
        \A p \in Partitions, n \in Seqs :
          runs'[p][n] # runs[p][n] =>
            \A m \in 0..(n - 1) : State(p, m) = "PUBLISHED"
  BY DEF vars
<1>3. QED
  BY <1>1, <1>2, PrefixInit, PrefixNext, PTL DEF Spec, HandledInOrder

-----------------------------------------------------------------------------
\* Handler starts

\* A step starts the handlers of no message, or of one: the head of a window
\* that has its reservation.
LEMMA RunsChange ==
  ASSUME TypeOK, Next
  PROVE  \/ runs' = runs
         \/ \E w \in Workers, p \in Partitions :
              /\ MarkProcessing(w, p)
              /\ At(w, p) = "reserved"
              /\ runs' = [runs EXCEPT ![p][win[w][p].head] = @ + 1]
<1>1. ASSUME NEW w \in Workers, NEW p \in Partitions,
             \/ DeliveryStep(w, p)
             \/ HandlerRaises(w, p)
             \/ DeliveryTimeout(w, p)
      PROVE  runs' = runs \/ MarkProcessing(w, p)
  BY <1>1 DEF DeliveryStep, EnterDelivery, SinkReserve,
         HandlerReturns, AbortReservation, CompleteDelivery, MarkPublished,
         ReleaseHead, ReleaseTail, HandlerRaises, DeliveryTimeout
<1>2. \/ runs' = runs
      \/ \E w \in Workers, p \in Partitions : MarkProcessing(w, p)
  BY <1>1 DEF Next, Append, LapseClaim, LapseRecord, ClaimBatch,
         Close, Cancel, Exit, Crash, Gone, Restart
<1>3. ASSUME NEW w \in Workers, NEW p \in Partitions, MarkProcessing(w, p)
      PROVE  /\ At(w, p) = "reserved"
             /\ \/ runs' = runs
                \/ runs' = [runs EXCEPT ![p][win[w][p].head] = @ + 1]
  BY <1>3 DEF MarkProcessing
<1>4. QED
  BY <1>2, <1>3

\* The count of starts of a message never falls.
LEMMA RanStays ==
  ASSUME TypeOK, Next, NEW p \in Partitions, NEW n \in Seqs, Ran(p, n)
  PROVE  Ran(p, n)'
<1>0. runs \in [Partitions -> [Seqs -> Nat]]
  BY DEF TypeOK
<1>1. CASE runs' = runs
  BY <1>1 DEF Ran
<1>2. ASSUME NEW w \in Workers, NEW q \in Partitions,
             runs' = [runs EXCEPT ![q][win[w][q].head] = @ + 1]
      PROVE  Ran(p, n)'
  <2>1. win[w][q].head \in Seqs
    BY DEF TypeOK, Windows
  <2>2. CASE q = p /\ win[w][q].head = n
    <3>1. runs'[p][n] = runs[p][n] + 1
      BY <1>0, <1>2, <2>1, <2>2
    <3>2. QED
      BY <1>0, <3>1 DEF Ran
  <2>3. CASE q # p
    <3>1. runs'[p][n] = runs[p][n]
      BY <1>0, <1>2, <2>3
    <3>2. QED
      BY <3>1 DEF Ran
  <2>4. CASE q = p /\ win[w][q].head # n
    <3>1. runs'[p][n] = runs[p][n]
      BY <1>0, <1>2, <2>1, <2>4
    <3>2. QED
      BY <3>1 DEF Ran
  <2>5. QED
    BY <2>2, <2>3, <2>4
<1>3. QED
  BY <1>1, <1>2, RunsChange

\* A record becomes COMPLETED only for the head of a window whose handlers
\* have returned.
LEMMA RecsStep ==
  ASSUME TypeOK, Next, NEW p \in Partitions, NEW n \in Seqs,
         recs'[p][n].state = "COMPLETED"
  PROVE  \/ recs[p][n].state = "COMPLETED"
         \/ \E w \in Workers : At(w, p) = "handled" /\ win[w][p].head = n
<1>0. /\ recs \in [Partitions -> [Seqs -> Record(Workers)]]
      /\ \A w \in Workers, q \in Partitions : win[w][q].head \in Seqs
  BY DEF TypeOK, Windows
<1>1. CASE recs' = recs
  BY <1>1
<1>2. ASSUME NEW w \in Workers, NEW q \in Partitions, NEW rec,
             recs' = [recs EXCEPT ![q][win[w][q].head] = rec],
             \/ rec.state # "COMPLETED"
             \/ rec = recs[q][win[w][q].head]
             \/ At(w, q) = "handled"
      PROVE  \/ recs[p][n].state = "COMPLETED"
             \/ \E v \in Workers : At(v, p) = "handled" /\ win[v][p].head = n
  <2>1. CASE q = p /\ win[w][q].head = n
    <3>1. recs'[p][n] = rec
      BY <1>0, <1>2, <2>1
    <3>2. QED
      BY <1>2, <2>1, <3>1
  <2>2. CASE q # p
    <3>1. recs'[p][n] = recs[p][n]
      BY <1>0, <1>2, <2>2
    <3>2. QED
      BY <3>1
  <2>3. CASE q = p /\ win[w][q].head # n
    <3>1. recs'[p][n] = recs[p][n]
      BY <1>0, <1>2, <2>3
    <3>2. QED
      BY <3>1
  <2>4. QED
    BY <2>1, <2>2, <2>3
<1>3. ASSUME NEW w \in Workers, NEW q \in Partitions,
             \/ SinkReserve(w, q) \/ MarkProcessing(w, q)
             \/ AbortReservation(w, q)
      PROVE  \/ recs' = recs
             \/ \E rec : /\ recs' = [recs EXCEPT ![q][win[w][q].head] = rec]
                         /\ \/ rec.state # "COMPLETED"
                            \/ rec = recs[q][win[w][q].head]
  <2>1. \A r \in Record(Workers) :
          /\ Reserved(r, w).state # "COMPLETED" \/ Reserved(r, w) = r
          /\ Processing(r, w).state # "COMPLETED" \/ Processing(r, w) = r
          /\ Aborted(r, w).state # "COMPLETED" \/ Aborted(r, w) = r
    BY DEF Reserved, Processing, Aborted, Leased, NoRecord
  <2>2. recs[q][win[w][q].head] \in Record(Workers)
    BY <1>0
  <2>3. \/ recs' = recs
        \/ recs' = [recs EXCEPT ![q][win[w][q].head] =
                      Reserved(recs[q][win[w][q].head], w)]
        \/ recs' = [recs EXCEPT ![q][win[w][q].head] =
                      Processing(recs[q][win[w][q].head], w)]
        \/ recs' = [recs EXCEPT ![q][win[w][q].head] =
                      Aborted(recs[q][win[w][q].head], w)]
    BY <1>3 DEF SinkReserve, MarkProcessing, AbortReservation, SetRec,
           Uncertain
  <2>4. QED
    BY <2>1, <2>2, <2>3
<1>4. ASSUME NEW w \in Workers, NEW q \in Partitions, CompleteDelivery(w, q)
      PROVE  /\ At(w, q) = "handled"
             /\ \/ recs' = recs
                \/ \E rec : recs' = [recs EXCEPT ![q][win[w][q].head] = rec]
  BY <1>4 DEF CompleteDelivery, SetRec, Uncertain
<1>5. ASSUME NEW q \in Partitions, NEW m \in Seqs, LapseRecord(q, m)
      PROVE  recs[p][n].state = "COMPLETED"
  <2>1. recs' = [recs EXCEPT ![q][m] = [recs[q][m] EXCEPT !.lapsed = TRUE]]
    BY <1>5 DEF LapseRecord, SetRec
  <2>2. recs[q][m] \in Record(Workers)
    BY <1>0
  <2>3. [recs[q][m] EXCEPT !.lapsed = TRUE].state = recs[q][m].state
    BY <2>2 DEF Record
  <2>4. CASE q = p /\ m = n
    <3>1. recs'[p][n] = [recs[q][m] EXCEPT !.lapsed = TRUE]
      BY <1>0, <2>1, <2>4
    <3>2. QED
      BY <2>3, <2>4, <3>1
  <2>5. CASE q # p
    <3>1. recs'[p][n] = recs[p][n]
      BY <1>0, <2>1, <2>5
    <3>2. QED
      BY <3>1
  <2>6. CASE q = p /\ m # n
    <3>1. recs'[p][n] = recs[p][n]
      BY <1>0, <2>1, <2>6
    <3>2. QED
      BY <3>1
  <2>7. QED
    BY <2>4, <2>5, <2>6
<1>6. ASSUME NEW w \in Workers, NEW q \in Partitions,
             \/ EnterDelivery(w, q) \/ HandlerReturns(w, q)
             \/ MarkPublished(w, q) \/ ReleaseHead(w, q)
             \/ \E m \in Seqs : ReleaseTail(w, q, m)
             \/ HandlerRaises(w, q) \/ DeliveryTimeout(w, q)
      PROVE  recs' = recs
  BY <1>6 DEF EnterDelivery, HandlerReturns, MarkPublished, ReleaseHead,
         ReleaseTail, HandlerRaises, DeliveryTimeout, durable
<1>7. ASSUME \/ \E q \in Partitions, m \in Seqs :
                  Append(q, m) \/ LapseClaim(q, m)
             \/ \E w \in Workers :
                  \/ \E take \in Takes : ClaimBatch(w, take)
                  \/ Close(w) \/ Cancel(w) \/ Exit(w) \/ Crash(w)
                  \/ Restart(w)
      PROVE  recs' = recs
  BY <1>7 DEF Append, LapseClaim, ClaimBatch, Close, Cancel, Exit, Crash,
         Gone, Restart, durable
<1>8. ASSUME NEW w \in Workers, NEW q \in Partitions,
             DeliveryStep(w, q) \/ HandlerRaises(w, q) \/ DeliveryTimeout(w, q)
      PROVE  \/ recs[p][n].state = "COMPLETED"
             \/ \E v \in Workers : At(v, p) = "handled" /\ win[v][p].head = n
  <2>1. CASE \/ SinkReserve(w, q) \/ MarkProcessing(w, q)
             \/ AbortReservation(w, q)
    <3>1. \/ recs' = recs
          \/ \E rec : /\ recs' = [recs EXCEPT ![q][win[w][q].head] = rec]
                      /\ \/ rec.state # "COMPLETED"
                         \/ rec = recs[q][win[w][q].head]
      BY <1>3, <2>1
    <3>2. ASSUME NEW rec, recs' = [recs EXCEPT ![q][win[w][q].head] = rec],
                 \/ rec.state # "COMPLETED"
                 \/ rec = recs[q][win[w][q].head]
          PROVE  \/ recs[p][n].state = "COMPLETED"
                 \/ \E v \in Workers : At(v, p) = "handled"
                                       /\ win[v][p].head = n
      BY <1>2, <3>2
    <3>3. QED
      BY <1>1, <3>1, <3>2
  <2>2. CASE CompleteDelivery(w, q)
    <3>1. \/ recs' = recs
          \/ \E rec : recs' = [recs EXCEPT ![q][win[w][q].head] = rec]
      BY <1>4, <2>2
    <3>2. At(w, q) = "handled"
      BY <1>4, <2>2
    <3>3. ASSUME NEW rec, recs' = [recs EXCEPT ![q][win[w][q].head] = rec]
          PROVE  \/ recs[p][n].state = "COMPLETED"
                 \/ \E v \in Workers : At(v, p) = "handled"
                                       /\ win[v][p].head = n
      BY <1>2, <3>2, <3>3
    <3>4. QED
      BY <1>1, <3>1, <3>3
  <2>3. CASE ~(\/ SinkReserve(w, q) \/ MarkProcessing(w, q)
               \/ AbortReservation(w, q) \/ CompleteDelivery(w, q))
    <3>1. \/ EnterDelivery(w, q) \/ HandlerReturns(w, q)
          \/ MarkPublished(w, q) \/ ReleaseHead(w, q)
          \/ \E m \in Seqs : ReleaseTail(w, q, m)
          \/ HandlerRaises(w, q) \/ DeliveryTimeout(w, q)
      BY <1>8, <2>3 DEF DeliveryStep
    <3>2. QED
      BY <1>1, <1>6, <3>1
  <2>4. QED
    BY <2>1, <2>2, <2>3
<1>9. QED
  BY <1>1, <1>5, <1>7, <1>8 DEF Next
-----------------------------------------------------------------------------
\* A confirmed message has been handled

\* A window comes to stand at or behind its handlers by one of four steps of
\* its own, none of which changes the message.
LEMMA EnterStep ==
  ASSUME TypeOK, Next, NEW v \in Workers, NEW q \in Partitions,
         win'[v][q].at \in {"handling", "handled", "accepted"}
  PROVE  /\ win'[v][q].head = win[v][q].head
         /\ \/ win'[v][q] = win[v][q]
            \/ win'[v][q].at = "handling" /\ MarkProcessing(v, q)
            \/ win'[v][q].at = "handled" /\ HandlerReturns(v, q)
            \/ win'[v][q].at = "accepted" /\ SinkReserve(v, q)
            \/ win'[v][q].at = "accepted" /\ CompleteDelivery(v, q)
<1> DEFINE Past == {"handling", "handled", "accepted"}
           Entered == \/ win'[v][q].at = "handling" /\ MarkProcessing(v, q)
                      \/ win'[v][q].at = "handled" /\ HandlerReturns(v, q)
                      \/ win'[v][q].at = "accepted" /\ SinkReserve(v, q)
                      \/ win'[v][q].at = "accepted" /\ CompleteDelivery(v, q)
<1>0. /\ win \in [Workers -> [Partitions -> Windows]]
      /\ win[v][q] \in Windows
  BY DEF TypeOK
<1>2. ASSUME NEW place \in Places, Goto(v, q, place)
      PROVE  win'[v][q].at = place /\ win'[v][q].head = win[v][q].head
  BY <1>2, GotoKeeps
<1>3. ASSUME EnterDelivery(v, q) \/ MarkPublished(v, q) \/ ReleaseHead(v, q)
             \/ (\E n \in Seqs : ReleaseTail(v, q, n))
             \/ AbortReservation(v, q) \/ HandlerRaises(v, q)
             \/ DeliveryTimeout(v, q)
      PROVE  win'[v][q].at \notin Past
  <2>1. \A at, head, tail, cursor :
          [at |-> at, head |-> head, tail |-> tail, cursor |-> cursor].at = at
    OBVIOUS
  <2>2. ASSUME NEW window, SetWin(v, q, window)
        PROVE  win'[v][q] = window
    BY <1>0, <2>2 DEF SetWin
  <2>3. \A x \in Windows : TailOnly(x).at \in {"idle", "releasing"}
    BY DEF TailOnly, NoWindow, Windows
  <2>4. /\ \A place : [win[v][q] EXCEPT !.at = place].at = place
        /\ \A s : [win[v][q] EXCEPT !.at = "releasing", !.tail = s].at
                    = "releasing"
        /\ \A n : [win[v][q] EXCEPT !.tail = @ \ {n}] \in Windows
    BY <1>0 DEF Windows
  <2>5. \E window : SetWin(v, q, window)
                    /\ window.at \in {"sink", "releasing", "idle", "head",
                                      "failed", "aborting"}
    <3>1. CASE EnterDelivery(v, q)
      BY <2>4, <3>1 DEF EnterDelivery, Goto
    <3>2. CASE MarkPublished(v, q)
      <4>1. \/ SetWin(v, q, NoWindow)
            \/ \E m : SetWin(v, q, [at |-> "head", head |-> m,
                                   tail |-> win[v][q].tail \ {m},
                                   cursor |-> win[v][q].cursor + 1])
            \/ SetWin(v, q, [win[v][q] EXCEPT !.at = "failed"])
        BY <3>2 DEF MarkPublished, Goto
      <4>2. NoWindow.at = "idle"
        BY DEF NoWindow
      <4>3. QED
        <5>1. CASE SetWin(v, q, NoWindow)
          BY <4>2, <5>1
        <5>2. ASSUME NEW m, SetWin(v, q, [at |-> "head", head |-> m,
                                          tail |-> win[v][q].tail \ {m},
                                          cursor |-> win[v][q].cursor + 1])
              PROVE  \E window : SetWin(v, q, window) /\ window.at = "head"
          <6> DEFINE next == [at |-> "head", head |-> m,
                              tail |-> win[v][q].tail \ {m},
                              cursor |-> win[v][q].cursor + 1]
          <6>1. next.at = "head"
            OBVIOUS
          <6>2. SetWin(v, q, next)
            BY <5>2
          <6> HIDE DEF next
          <6>3. QED
            BY <6>1, <6>2
        <5>3. CASE SetWin(v, q, [win[v][q] EXCEPT !.at = "failed"])
          BY <2>4, <5>3
        <5>4. QED
          BY <4>1, <5>1, <5>2, <5>3
    <3>3. CASE ReleaseHead(v, q)
      BY <1>0, <2>3, <3>3 DEF ReleaseHead
    <3>4. CASE \E n \in Seqs : ReleaseTail(v, q, n)
      <4>1. PICK n \in Seqs : ReleaseTail(v, q, n)
        BY <3>4
      <4>2. SetWin(v, q, TailOnly([win[v][q] EXCEPT !.tail = @ \ {n}]))
        BY <4>1 DEF ReleaseTail
      <4>3. [win[v][q] EXCEPT !.tail = @ \ {n}] \in Windows
        BY <2>4
      <4>4. QED
        BY <2>3, <4>2, <4>3
    <3>5. CASE AbortReservation(v, q) \/ HandlerRaises(v, q)
               \/ DeliveryTimeout(v, q)
      BY <2>4, <3>5 DEF AbortReservation, HandlerRaises, DeliveryTimeout, Goto
    <3>6. QED
      BY <1>3, <3>1, <3>2, <3>3, <3>4, <3>5
  <2>6. QED
    BY <2>2, <2>5
<1>4. ASSUME SinkReserve(v, q) \/ MarkProcessing(v, q)
             \/ HandlerReturns(v, q) \/ CompleteDelivery(v, q)
      PROVE  win'[v][q].head = win[v][q].head /\ Entered
  <2>1. {"failed", "reserved", "accepted", "handling", "handled"}
          \subseteq Places
    BY DEF Places, Delivering, Sinking
  <2>2. CASE SinkReserve(v, q)
    <3>1. \E place \in {"failed", "reserved", "accepted"} : Goto(v, q, place)
      BY <2>2 DEF SinkReserve
    <3>2. QED
      BY <1>2, <2>1, <2>2, <3>1
  <2>3. CASE MarkProcessing(v, q)
    <3>1. \E place \in {"failed", "handling"} : Goto(v, q, place)
      BY <2>3 DEF MarkProcessing
    <3>2. QED
      BY <1>2, <2>1, <2>3, <3>1
  <2>4. CASE HandlerReturns(v, q)
    <3>1. Goto(v, q, "handled")
      BY <2>4 DEF HandlerReturns
    <3>2. QED
      BY <1>2, <2>1, <2>4, <3>1
  <2>5. CASE CompleteDelivery(v, q)
    <3>1. \E place \in {"failed", "accepted"} : Goto(v, q, place)
      BY <2>5 DEF CompleteDelivery
    <3>2. QED
      BY <1>2, <2>1, <2>5, <3>1
  <2>6. QED
    BY <1>4, <2>2, <2>3, <2>4, <2>5
<1>5. ASSUME NEW w \in Workers, NEW p \in Partitions,
             DeliveryStep(w, p) \/ HandlerRaises(w, p) \/ DeliveryTimeout(w, p)
      PROVE  \/ win'[v][q] = win[v][q]
             \/ win'[v][q].head = win[v][q].head /\ Entered
  <2>1. CASE w = v /\ p = q
    BY <1>3, <1>4, <1>5, <2>1 DEF DeliveryStep
  <2>2. CASE w # v \/ p # q
    BY <1>5, <2>2, OtherWindow
  <2>3. QED
    BY <2>1, <2>2
<1>6. ASSUME NEW w \in Workers, NEW take \in Takes, ClaimBatch(w, take)
      PROVE  win'[v][q] = win[v][q] \/ win'[v][q].at \notin Past
  <2>1. PICK c \in [Partitions -> 0..Length] :
          win' = [win EXCEPT ![w] = [p \in Partitions |->
                    IF take[p] = 0 THEN NoWindow
                    ELSE [at |-> "head", head |-> c[p], cursor |-> c[p],
                          tail |-> (c[p] + 1)..(c[p] + take[p] - 1)]]]
    BY <1>6 DEF ClaimBatch
  <2>2. CASE w = v
    BY <1>0, <2>1, <2>2 DEF NoWindow
  <2>3. CASE w # v
    BY <1>0, <2>1, <2>3
  <2>4. QED
    BY <2>2, <2>3
<1>7. ASSUME NEW w \in Workers, Cancel(w) \/ Exit(w) \/ Crash(w)
      PROVE  win'[v][q] = win[v][q] \/ win'[v][q].at \notin Past
  <2>1. CASE w # v
    BY <1>0, <1>7, <2>1 DEF Cancel, Exit, Crash, Gone
  <2>2. CASE w = v /\ Cancel(w)
    <3>1. win'[v][q] = CASE At(v, q) \in Delivering ->
                              [win[v][q] EXCEPT !.at = "failed"]
                         [] At(v, q) = "failed" -> TailOnly(win[v][q])
                         [] OTHER -> NoWindow
      BY <1>0, <2>2 DEF Cancel
    <3>2. QED
      BY <1>0, <3>1 DEF TailOnly, NoWindow, Windows
  <2>3. CASE w = v /\ (Exit(w) \/ Crash(w))
    BY <1>0, <2>3 DEF Exit, Crash, Gone, NoWindow
  <2>4. QED
    BY <1>7, <2>1, <2>2, <2>3
<1>8. \/ win' = win
      \/ \E w \in Workers :
           \/ \E p \in Partitions :
                \/ DeliveryStep(w, p)
                \/ HandlerRaises(w, p)
                \/ DeliveryTimeout(w, p)
           \/ \E take \in Takes : ClaimBatch(w, take)
           \/ Cancel(w) \/ Exit(w) \/ Crash(w)
  BY DEF Next, Append, LapseClaim, LapseRecord, Close, Restart
<1>9. QED
  BY <1>5, <1>6, <1>7, <1>8

\* A window at or behind its handlers stands for a start of them: its own, or
\* the one behind the COMPLETED record that it found.
LEMMA PlaceStep ==
  ASSUME TypeOK, Next, NEW v \in Workers, NEW q \in Partitions,
         win'[v][q].at \in {"handling", "handled", "accepted"}
  PROVE  /\ win'[v][q].head = win[v][q].head
         /\ \/ At(v, q) \in {"handling", "handled", "accepted"}
            \/ recs[q][win[v][q].head].state = "COMPLETED"
            \/ Ran(q, win[v][q].head)'
<1>0. /\ win[v][q].head \in Seqs
      /\ runs \in [Partitions -> [Seqs -> Nat]]
  BY DEF TypeOK, Windows
<1>1. \A place \in {"reserved", "failed"} :
        Goto(v, q, place) => win'[v][q].at = place
  BY GotoKeeps DEF Places, Delivering, Sinking
<1>2. CASE win'[v][q].at = "handling" /\ MarkProcessing(v, q)
  <2>1. runs' = [runs EXCEPT ![q][win[v][q].head] = @ + 1]
    BY <1>1, <1>2 DEF MarkProcessing
  <2>2. runs'[q][win[v][q].head] > 0
    BY <1>0, <2>1
  <2>3. QED
    BY <2>2, EnterStep DEF Ran
<1>3. CASE win'[v][q].at = "accepted" /\ SinkReserve(v, q)
  <2>1. recs[q][win[v][q].head].state = "COMPLETED"
    BY <1>1, <1>3 DEF SinkReserve
  <2>2. QED
    BY <2>1, EnterStep
<1>4. CASE HandlerReturns(v, q) \/ CompleteDelivery(v, q)
  BY <1>4, EnterStep DEF HandlerReturns, CompleteDelivery
<1>5. CASE win'[v][q] = win[v][q]
  BY <1>5 DEF At
<1>6. QED
  BY <1>2, <1>3, <1>4, <1>5, EnterStep

\* Only mark_published confirms, the head of a window that was accepted.
LEMMA ConfirmStep ==
  ASSUME TypeOK, Next, Confirmed' # Confirmed
  PROVE  \E w \in Workers, p \in Partitions :
           /\ At(w, p) = "accepted"
           /\ \/ rows' = rows
              \/ rows' = [rows EXCEPT ![p][win[w][p].head] =
                            Published(rows[p][win[w][p].head], w)]
<1>1. ASSUME \A w \in Workers, p \in Partitions : ~MarkPublished(w, p)
      PROVE  Confirmed' = Confirmed
  <2>1. ASSUME NEW q \in Partitions, NEW m \in Seqs
        PROVE  Harmless(rows[q][m], rows'[q][m])
    BY <1>1, <2>1, RowsQuiet
  <2>2. ASSUME NEW q \in Partitions, NEW m \in Seqs
        PROVE  rows'[q][m].state = "PUBLISHED" <=> rows[q][m].state = "PUBLISHED"
    BY <2>1, <2>2 DEF Harmless
  <2>3. QED
    BY <2>2 DEF Confirmed, State
<1>2. PICK w \in Workers, p \in Partitions : MarkPublished(w, p)
  BY <1>1
<1>3. QED
  BY <1>2 DEF MarkPublished, SetRow, Uncertain

\* COMPLETED records and accepted deliveries stand for handler starts, in
\* every reachable state.
LEMMA RanInit == Init => AcceptedRan
BY DEF Init, AcceptedRan, NoRecord, At, NoWindow

LEMMA RanNext == TypeOK /\ AcceptedRan /\ [Next]_vars => AcceptedRan'
<1> SUFFICES ASSUME TypeOK, AcceptedRan, [Next]_vars PROVE AcceptedRan'
  OBVIOUS
<1>1. CASE UNCHANGED vars
  BY <1>1 DEF vars, AcceptedRan, Ran, At
<1>2. CASE Next
  <2>1. ASSUME NEW p \in Partitions, NEW n \in Seqs,
               recs'[p][n].state = "COMPLETED"
        PROVE  Ran(p, n)'
    <3>1. \/ recs[p][n].state = "COMPLETED"
          \/ \E w \in Workers : At(w, p) = "handled" /\ win[w][p].head = n
      BY <1>2, <2>1, RecsStep
    <3>2. Ran(p, n)
      BY <3>1 DEF AcceptedRan
    <3>3. QED
      BY <1>2, <3>2, RanStays
  <2>2. ASSUME NEW w \in Workers, NEW p \in Partitions,
               win'[w][p].at \in {"handling", "handled", "accepted"}
        PROVE  runs'[p][win'[w][p].head] > 0
    <3>1. /\ win'[w][p].head = win[w][p].head
          /\ \/ At(w, p) \in {"handling", "handled", "accepted"}
             \/ recs[p][win[w][p].head].state = "COMPLETED"
             \/ Ran(p, win[w][p].head)'
      BY <1>2, <2>2, PlaceStep
    <3>2. win[w][p].head \in Seqs
      BY DEF TypeOK, Windows
    <3>3. CASE Ran(p, win[w][p].head)'
      BY <3>3 DEF Ran
    <3>4. CASE Ran(p, win[w][p].head)
      <4>1. PICK n \in Seqs : n = win[w][p].head
        BY <3>2
      <4>2. Ran(p, n)'
        BY <1>2, <3>4, <4>1, RanStays
      <4>3. QED
        BY <3>1, <4>1, <4>2 DEF Ran
    <3>5. QED
      BY <3>1, <3>2, <3>3, <3>4 DEF AcceptedRan
  <2>3. QED
    BY <2>1, <2>2 DEF AcceptedRan, At, Ran
<1>3. QED
  BY <1>1, <1>2

-----------------------------------------------------------------------------
\* The refinement

\* Writing back what an entry of a table of rows already holds changes nothing.
LEMMA UnchangedExcept ==
  ASSUME NEW T, NEW f \in [Partitions -> [Seqs -> T]], NEW p \in Partitions,
         NEW n \in Seqs
  PROVE  [f EXCEPT ![p][n] = f[p][n]] = f
<1>1. f[p] = [f[p] EXCEPT ![n] = f[p][n]]
  OBVIOUS
<1>2. QED
  BY <1>1

\* Every step of the dispatcher starts the handlers of one message in turn,
\* confirms one message in turn that has been handled, or changes nothing a
\* consumer sees.
LEMMA StepRefines ==
  PrefixInv /\ AcceptedRan /\ [Next]_vars => [OD!Next]_(OD!vars)
<1> SUFFICES ASSUME PrefixInv, AcceptedRan, [Next]_vars
             PROVE  [OD!Next]_(OD!vars)
  OBVIOUS
<1>0. TypeOK /\ OD!Messages = Seqs
  BY DEF PrefixInv, OD!Messages, Seqs
<1>1. CASE UNCHANGED vars
  <2>1. Confirmed' = Confirmed /\ runs' = runs
    BY <1>1 DEF vars, Confirmed, State
  <2>2. QED
    BY <2>1 DEF OD!vars
<1>2. CASE Next
  <2>1. ASSUME NEW p \in Partitions, NEW n \in Seqs,
               NEW w \in Workers, At(w, p) \in {"reserved", "accepted"},
               win[w][p].head = n
        PROVE  OD!InTurn(p, n)
    <3>1. At(w, p) \in Advancing /\ At(w, p) \in Delivering \ {"sink"}
      BY <2>1 DEF Advancing, Delivering, Sinking
    <3>2. win[w][p].cursor = n
      BY <2>1, <3>1 DEF PrefixInv, HeadAtCursor
    <3>3. \A m \in 0..(n - 1) : m \in Seqs /\ m < n
      BY DispatchAssumption DEF Seqs
    <3>4. \A m \in Seqs : m < n => State(p, m) = "PUBLISHED"
      BY <3>1, <3>2 DEF PrefixInv, CursorSafe
    <3>5. \A m \in 0..(n - 1) : m \in Confirmed[p]
      BY <3>3, <3>4 DEF Confirmed
    <3>6. QED
      BY <3>5 DEF OD!InTurn
  <2>2. CASE runs' # runs
    <3>1. PICK w \in Workers, p \in Partitions :
            /\ MarkProcessing(w, p)
            /\ At(w, p) = "reserved"
            /\ runs' = [runs EXCEPT ![p][win[w][p].head] = @ + 1]
      BY <1>0, <1>2, <2>2, RunsChange
    <3>2. PICK n \in Seqs : n = win[w][p].head
      BY <1>0 DEF TypeOK, Windows
    <3>3. rows' = rows
      BY <3>1 DEF MarkProcessing
    <3>4. Confirmed' = Confirmed
      BY <3>3 DEF Confirmed, State
    <3>5. OD!InTurn(p, n)
      BY <2>1, <3>1, <3>2
    <3>6. OD!Start(p, n)
      BY <3>1, <3>2, <3>4, <3>5 DEF OD!Start
    <3>7. QED
      BY <1>0, <3>6 DEF OD!Next
  <2>3. CASE runs' = runs /\ Confirmed' = Confirmed
    BY <2>3 DEF OD!vars
  <2>4. CASE runs' = runs /\ Confirmed' # Confirmed
    <3>1. PICK w \in Workers, p \in Partitions :
            /\ At(w, p) = "accepted"
            /\ \/ rows' = rows
               \/ rows' = [rows EXCEPT ![p][win[w][p].head] =
                             Published(rows[p][win[w][p].head], w)]
      BY <1>0, <1>2, <2>4, ConfirmStep
    <3>2. PICK n \in Seqs : n = win[w][p].head
      BY <1>0 DEF TypeOK, Windows
    <3>3. rows' = [rows EXCEPT ![p][n] = Published(rows[p][n], w)]
      <4>1. rows' # rows
        BY <2>4 DEF Confirmed, State
      <4>2. QED
        BY <3>1, <3>2, <4>1
    <3>4. OD!InTurn(p, n)
      BY <2>1, <3>1, <3>2
    <3>5. runs[p][n] > 0
      BY <3>1, <3>2 DEF AcceptedRan, Ran
    <3>6. /\ \A q \in Partitions \ {p} : rows'[q] = rows[q]
          /\ \A m \in Seqs \ {n} : rows'[p][m] = rows[p][m]
          /\ rows'[p][n] = Published(rows[p][n], w)
      BY <1>0, <3>3 DEF TypeOK
    <3>7. /\ \A q \in Partitions \ {p} : Confirmed'[q] = Confirmed[q]
          /\ \A m \in Seqs \ {n} : m \in Confirmed'[p] <=> m \in Confirmed[p]
      BY <3>6 DEF Confirmed, State
    <3>8. n \notin Confirmed[p] /\ n \in Confirmed'[p]
      <4>1. ASSUME State(p, n) = "PUBLISHED" PROVE FALSE
        <5>1. rows'[p][n] = rows[p][n]
          BY <3>6, <4>1 DEF Published, ClaimedBy, State
        <5>2. rows' = rows
          BY <1>0, <3>3, <3>6, <5>1, UnchangedExcept DEF TypeOK
        <5>3. QED
          BY <2>4, <5>2 DEF Confirmed, State
      <4>2. ASSUME rows'[p][n].state # "PUBLISHED" PROVE FALSE
        <5>1. rows'[p][n] = rows[p][n]
          BY <3>6, <4>2 DEF Published
        <5>2. rows' = rows
          BY <1>0, <3>3, <3>6, <5>1, UnchangedExcept DEF TypeOK
        <5>3. QED
          BY <2>4, <5>2 DEF Confirmed, State
      <4>3. QED
        BY <4>1, <4>2 DEF Confirmed, State
    <3>9. Confirmed'[p] = Confirmed[p] \union {n}
      <4>1. Confirmed[p] \subseteq Seqs /\ Confirmed'[p] \subseteq Seqs
        BY DEF Confirmed
      <4>2. QED
        BY <3>7, <3>8, <4>1
    <3>10. Confirmed' = [Confirmed EXCEPT ![p] = @ \union {n}]
      <4>1. /\ Confirmed = [q \in Partitions |-> Confirmed[q]]
            /\ Confirmed' = [q \in Partitions |-> Confirmed'[q]]
        BY DEF Confirmed
      <4>2. QED
        BY <3>7, <3>9, <4>1
    <3>11. OD!Confirm(p, n)
      BY <2>4, <3>4, <3>5, <3>8, <3>10 DEF OD!Confirm
    <3>12. QED
      BY <1>0, <3>11 DEF OD!Next
  <2>5. QED
    BY <2>2, <2>3, <2>4
<1>3. QED
  BY <1>1, <1>2

\* The dispatcher implements OrderedDelivery: whatever workers, leases,
\* stalls, crashes and lost answers do, consumers see in-order, at-least-once
\* delivery with final confirmation.
THEOREM DeliversInOrderHolds == Spec => DeliversInOrder
<1>1. Init => OD!Init
  BY DEF Init, OD!Init, OD!Messages, Seqs, Confirmed, State, AbsentRow
<1>2. QED
  BY <1>1, PrefixInit, PrefixNext, RanInit, RanNext, StepRefines, PTL
     DEF Spec, DeliversInOrder, OD!Spec, PrefixInv

-----------------------------------------------------------------------------
\* Records and attempts

\* No completed record expires / no process outlives its lease in the sink.
NoRetention == "retention" \notin FaultKinds
NoRecordStall == "recordStall" \notin FaultKinds

-----------------------------------------------------------------------------
\* What a step does to one record

\* The transaction of worker w on the record of the message it delivers; the
\* window moves on with it.
WorkerRecord(w, p, n) ==
  /\ win[w][p].head = n
  /\ win'[w][p] # win[w][p]
  /\ \/ At(w, p) = "sink" /\ recs'[p][n] = Reserved(recs[p][n], w)
     \/ At(w, p) = "reserved" /\ recs'[p][n] = Processing(recs[p][n], w)
     \/ At(w, p) = "aborting" /\ recs'[p][n] = Aborted(recs[p][n], w)
     \/ At(w, p) = "handled" /\ recs'[p][n] = Completed(recs[p][n], w)

\* A record expires; of a COMPLETED one this is the "retention" fault, and
\* while its owner is in the sink the "recordStall" fault.
LapsedRecord(p, n) ==
  /\ recs[p][n].state # "NONE" /\ ~recs[p][n].lapsed
  /\ recs'[p][n] = [recs[p][n] EXCEPT !.lapsed = TRUE]
  /\ recs[p][n].state = "COMPLETED" => ~NoRetention
  /\ recs[p][n].state # "COMPLETED" /\ Attending(recs[p][n].owner, p, n)
       => ~NoRecordStall

\* A step leaves a record alone, runs one transaction of a worker on it, or
\* lets it expire.
LEMMA RecordStep ==
  ASSUME TypeOK, Next, NEW p \in Partitions, NEW n \in Seqs
  PROVE  \/ recs'[p][n] = recs[p][n]
         \/ \E w \in Workers : WorkerRecord(w, p, n)
         \/ LapsedRecord(p, n)
<1>0. /\ recs \in [Partitions -> [Seqs -> Record(Workers)]]
      /\ \A w \in Workers, q \in Partitions : win[w][q].head \in Seqs
  BY DEF TypeOK, Windows
<1>1. ASSUME NEW q \in Partitions, NEW m \in Seqs, NEW rec,
             recs' = [recs EXCEPT ![q][m] = rec]
      PROVE  recs'[p][n] = IF q = p /\ m = n THEN rec ELSE recs[p][n]
  <2>1. CASE q = p /\ m = n
    BY <1>0, <1>1, <2>1
  <2>2. CASE q # p
    BY <1>0, <1>1, <2>2
  <2>3. CASE q = p /\ m # n
    BY <1>0, <1>1, <2>3
  <2>4. QED
    BY <2>1, <2>2, <2>3
<1>2. ASSUME NEW w \in Workers, NEW q \in Partitions,
             \/ SinkReserve(w, q) \/ MarkProcessing(w, q)
             \/ AbortReservation(w, q) \/ CompleteDelivery(w, q)
      PROVE  recs'[p][n] = recs[p][n] \/ WorkerRecord(w, p, n)
  <2> DEFINE m == win[w][q].head
             rec == recs[q][m]
             Write(new) == recs' = [recs EXCEPT ![q][m] = new]
  <2>1. \/ recs' = recs
        \/ At(w, q) = "sink" /\ Write(Reserved(rec, w))
        \/ At(w, q) = "reserved" /\ Write(Processing(rec, w))
        \/ At(w, q) = "aborting" /\ Write(Aborted(rec, w))
        \/ At(w, q) = "handled" /\ Write(Completed(rec, w))
    BY <1>2 DEF SinkReserve, MarkProcessing, AbortReservation,
           CompleteDelivery, SetRec, Uncertain
  <2>2. m \in Seqs
    BY <1>0
  <2>3. \A new : Write(new) =>
          recs'[p][n] = IF q = p /\ m = n THEN new ELSE recs[p][n]
    BY <1>1, <2>2
  <2> HIDE DEF Write
  <2>4. win'[w][q] # win[w][q]
    <3>1. \E place \in Places : place # At(w, q) /\ Goto(w, q, place)
      BY <1>2 DEF SinkReserve, MarkProcessing, AbortReservation,
             CompleteDelivery, Places, Delivering, Sinking
    <3>2. QED
      BY <3>1, GotoKeeps DEF At
  <2>5. QED
    BY <2>1, <2>3, <2>4 DEF WorkerRecord
<1>3. ASSUME NEW q \in Partitions, NEW m \in Seqs, LapseRecord(q, m)
      PROVE  recs'[p][n] = recs[p][n] \/ LapsedRecord(p, n)
  <2>1. recs' = [recs EXCEPT ![q][m] = [recs[q][m] EXCEPT !.lapsed = TRUE]]
    BY <1>3 DEF LapseRecord, SetRec
  <2>2. recs'[p][n] = IF q = p /\ m = n
                        THEN [recs[q][m] EXCEPT !.lapsed = TRUE]
                        ELSE recs[p][n]
    BY <1>1, <2>1
  <2>3. CASE q = p /\ m = n
    <3>1. /\ recs[p][n].state = "COMPLETED" => Fault("retention")
          /\ recs[p][n].state # "COMPLETED" /\ Attending(recs[p][n].owner, p, n)
               => Fault("recordStall")
      BY <1>3, <2>3 DEF LapseRecord
    <3>2. QED
      BY <1>3, <2>2, <2>3, <3>1
         DEF LapseRecord, LapsedRecord, Fault, NoRetention, NoRecordStall
  <2>4. QED
    BY <2>2, <2>3
<1>4. ASSUME NEW w \in Workers, NEW q \in Partitions,
             DeliveryStep(w, q) \/ HandlerRaises(w, q) \/ DeliveryTimeout(w, q)
      PROVE  recs'[p][n] = recs[p][n] \/ WorkerRecord(w, p, n)
  <2>1. \/ recs' = recs
        \/ SinkReserve(w, q) \/ MarkProcessing(w, q)
        \/ AbortReservation(w, q) \/ CompleteDelivery(w, q)
    BY <1>4 DEF DeliveryStep, EnterDelivery, HandlerReturns, MarkPublished,
           ReleaseHead, ReleaseTail, HandlerRaises, DeliveryTimeout, durable
  <2>2. QED
    BY <1>2, <2>1
<1>5. \/ recs' = recs
      \/ \E w \in Workers, q \in Partitions :
           DeliveryStep(w, q) \/ HandlerRaises(w, q) \/ DeliveryTimeout(w, q)
      \/ \E q \in Partitions, m \in Seqs : LapseRecord(q, m)
  BY DEF Next, Append, LapseClaim, ClaimBatch, Close, Cancel, Exit, Crash,
         Gone, Restart, durable
<1>6. QED
  BY <1>3, <1>4, <1>5

-----------------------------------------------------------------------------
\* Completion is final

\* No transaction touches a COMPLETED record that has not expired.
LEMMA CompletedStands ==
  ASSUME NEW rec \in Record(Workers), NEW w \in Workers,
         rec.state = "COMPLETED", ~rec.lapsed
  PROVE  /\ Reserved(rec, w) = rec
         /\ Processing(rec, w) = rec
         /\ Aborted(rec, w) = rec
         /\ Completed(rec, w) = rec
BY DEF Reserved, Reservable, Processing, MayProcess, Unfinished, Aborted,
       Completed

LEMMA CompletedKept ==
  ASSUME NoRetention, TypeOK, CompletedFresh, Next,
         NEW p \in Partitions, NEW n \in Seqs, recs[p][n].state = "COMPLETED"
  PROVE  recs'[p][n] = recs[p][n]
<1>1. recs[p][n] \in Record(Workers) /\ ~recs[p][n].lapsed
  BY DEF TypeOK, CompletedFresh
<1>2. ~LapsedRecord(p, n)
  BY DEF LapsedRecord
<1>3. ASSUME NEW w \in Workers, WorkerRecord(w, p, n)
      PROVE  recs'[p][n] = recs[p][n]
  BY <1>1, <1>3, CompletedStands DEF WorkerRecord
<1>4. QED
  BY <1>2, <1>3, RecordStep

\* Only complete makes a record COMPLETED, and it makes it a fresh one.
LEMMA FreshInit == Init => CompletedFresh
BY DEF Init, CompletedFresh, NoRecord

LEMMA FreshNext ==
  ASSUME NoRetention
  PROVE  TypeOK /\ CompletedFresh /\ [Next]_vars => CompletedFresh'
<1> SUFFICES ASSUME TypeOK, CompletedFresh, [Next]_vars,
                    NEW p \in Partitions, NEW n \in Seqs,
                    recs'[p][n].state = "COMPLETED"
             PROVE  ~recs'[p][n].lapsed
  BY DEF CompletedFresh
<1>0. recs[p][n] \in Record(Workers)
  BY DEF TypeOK
<1>1. CASE recs'[p][n] = recs[p][n]
  BY <1>1 DEF CompletedFresh
<1>2. ASSUME NEW w \in Workers, WorkerRecord(w, p, n)
      PROVE  ~recs'[p][n].lapsed
  <2>1. CASE recs[p][n].state = "COMPLETED"
    BY <1>0, <1>2, <2>1, CompletedStands DEF WorkerRecord, CompletedFresh
  <2>2. CASE recs[p][n].state # "COMPLETED"
    BY <1>2, <2>2 DEF WorkerRecord, Reserved, Leased, Processing, Aborted,
           NoRecord, Completed
  <2>3. QED
    BY <2>1, <2>2
<1>3. ~LapsedRecord(p, n)
  <2>1. [recs[p][n] EXCEPT !.lapsed = TRUE].state = recs[p][n].state
    BY <1>0 DEF Record
  <2>2. QED
    BY <2>1 DEF LapsedRecord
<1>4. CASE UNCHANGED vars
  BY <1>1, <1>4 DEF vars
<1>5. QED
  BY <1>1, <1>2, <1>3, <1>4, RecordStep

\* A message that was completed stays completed and its handlers are not
\* started again, for any number of processes, redeliveries and late aborts.
THEOREM CompletionIsFinal == NoRetention => (Spec => NoRunAfterCompletion)
<1> SUFFICES ASSUME NoRetention PROVE Spec => NoRunAfterCompletion
  OBVIOUS
<1>1. TypeOK /\ CompletedFresh /\ [Next]_vars =>
        \A p \in Partitions, n \in Seqs :
          recs[p][n].state = "COMPLETED" =>
            recs'[p][n].state = "COMPLETED" /\ runs'[p][n] = runs[p][n]
  <2> SUFFICES ASSUME TypeOK, CompletedFresh, Next, NEW p \in Partitions,
                      NEW n \in Seqs, recs[p][n].state = "COMPLETED"
               PROVE  /\ recs'[p][n].state = "COMPLETED"
                      /\ runs'[p][n] = runs[p][n]
    BY DEF vars
  <2>1. recs'[p][n] = recs[p][n]
    BY CompletedKept
  <2>2. ASSUME NEW w \in Workers, NEW q \in Partitions, MarkProcessing(w, q),
               runs' = [runs EXCEPT ![q][win[w][q].head] = @ + 1]
        PROVE  runs'[p][n] = runs[p][n]
    <3>1. runs \in [Partitions -> [Seqs -> Nat]] /\ win[w][q].head \in Seqs
      BY DEF TypeOK, Windows
    <3>2. CASE q = p /\ win[w][q].head = n
      <4>1. ~MayProcess(recs[p][n], w)
        BY DEF MayProcess, Unfinished
      <4>2. runs' = runs
        BY <2>2, <3>2, <4>1 DEF MarkProcessing
      <4>3. QED
        BY <4>2
    <3>3. CASE q # p
      BY <2>2, <3>1, <3>3
    <3>4. CASE q = p /\ win[w][q].head # n
      BY <2>2, <3>1, <3>4
    <3>5. QED
      BY <3>2, <3>3, <3>4
  <2>3. runs'[p][n] = runs[p][n]
    BY <2>2, RunsChange
  <2>4. QED
    BY <2>1, <2>3
<1>2. TypeOK /\ CompletedFresh /\ [Next]_vars => CompletedFresh'
  BY FreshNext
<1>3. QED
  BY <1>1, <1>2, FreshInit, TypeCorrect, PTL DEF Spec, NoRunAfterCompletion

-----------------------------------------------------------------------------
\* Confirmed messages were accepted

LEMMA AcceptedInit == Init => AcceptedCompleted
BY DEF Init, AcceptedCompleted, State, AbsentRow, At, NoWindow

\* A delivery is accepted with a COMPLETED record, nothing takes that record
\* away, and mark_published confirms accepted deliveries only.
LEMMA AcceptedNext ==
  ASSUME NoRetention
  PROVE  TypeOK /\ CompletedFresh /\ AcceptedCompleted /\ [Next]_vars
           => AcceptedCompleted'
<1> SUFFICES ASSUME TypeOK, CompletedFresh, AcceptedCompleted, [Next]_vars
             PROVE  AcceptedCompleted'
  OBVIOUS
<1>1. CASE UNCHANGED vars
  BY <1>1 DEF vars, AcceptedCompleted, State, At
<1>2. CASE Next
  <2>1. ASSUME NEW p \in Partitions, NEW n \in Seqs,
               State(p, n)' = "PUBLISHED"
        PROVE  recs'[p][n].state = "COMPLETED"
    <3>1. \/ State(p, n) = "PUBLISHED"
          \/ \E w \in Workers : At(w, p) = "accepted" /\ win[w][p].head = n
      BY <1>2, <2>1, RowsStep DEF Harmless, State
    <3>2. recs[p][n].state = "COMPLETED"
      BY <3>1 DEF AcceptedCompleted
    <3>3. QED
      BY <1>2, <3>2, CompletedKept
  <2>2. ASSUME NEW w \in Workers, NEW p \in Partitions,
               At(w, p)' = "accepted"
        PROVE  recs'[p][win'[w][p].head].state = "COMPLETED"
    <3>1. win'[w][p].at = "accepted"
      BY <2>2 DEF At
    <3>2. /\ win'[w][p].head = win[w][p].head
          /\ \/ win'[w][p] = win[w][p]
             \/ SinkReserve(w, p)
             \/ CompleteDelivery(w, p)
      BY <1>2, <3>1, EnterStep
    <3>3. PICK n \in Seqs : n = win[w][p].head
      BY DEF TypeOK, Windows
    <3>4. CASE win'[w][p] = win[w][p]
      BY <1>2, <3>1, <3>3, <3>4, CompletedKept DEF AcceptedCompleted, At
    <3>5. ASSUME NEW place \in Places, Goto(w, p, place)
          PROVE  place = "accepted"
      BY <3>1, <3>5, GotoKeeps
    <3>6. ~Goto(w, p, "failed") /\ ~Goto(w, p, "reserved")
      BY <3>5 DEF Places, Delivering, Sinking
    <3>7. CASE SinkReserve(w, p)
      <4>1. recs[p][n].state = "COMPLETED"
        BY <3>3, <3>6, <3>7 DEF SinkReserve
      <4>2. QED
        BY <1>2, <3>2, <3>3, <4>1, CompletedKept
    <3>8. CASE CompleteDelivery(w, p)
      <4>1. /\ MayComplete(recs[p][n], w)
            /\ recs' = [recs EXCEPT ![p][n] = Completed(recs[p][n], w)]
        BY <3>3, <3>6, <3>8 DEF CompleteDelivery, SetRec
      <4>2. recs'[p][n] = Completed(recs[p][n], w)
        BY <4>1 DEF TypeOK
      <4>3. Completed(recs[p][n], w).state = "COMPLETED"
        BY <4>1 DEF MayComplete, Completed
      <4>4. QED
        BY <3>2, <3>3, <4>2, <4>3
    <3>9. QED
      BY <3>2, <3>4, <3>7, <3>8
  <2>3. QED
    BY <2>1, <2>2 DEF AcceptedCompleted, State, At
<1>3. QED
  BY <1>1, <1>2

\* Every confirmed message has a COMPLETED record and its handlers did run:
\* nothing is acknowledged before it is durably accepted.
THEOREM PublishedWasAccepted == NoRetention => (Spec => []PublishedIsAccepted)
<1> SUFFICES ASSUME NoRetention PROVE Spec => []PublishedIsAccepted
  OBVIOUS
<1>1. AcceptedCompleted /\ AcceptedRan => PublishedIsAccepted
  BY DEF AcceptedCompleted, AcceptedRan, PublishedIsAccepted, Ran
<1>2. TypeOK /\ CompletedFresh /\ [Next]_vars => CompletedFresh'
  BY FreshNext
<1>3. TypeOK /\ CompletedFresh /\ AcceptedCompleted /\ [Next]_vars
        => AcceptedCompleted'
  BY AcceptedNext
<1>4. QED
  BY <1>1, <1>2, <1>3, FreshInit, AcceptedInit, RanInit, RanNext, TypeCorrect,
     PTL DEF Spec

-----------------------------------------------------------------------------
\* Handlers exclude each other

LEMMA LeasedInit == Init => HandlingLeased
BY DEF Init, HandlingLeased, At, NoWindow

\* A live PROCESSING lease is untouched by the transactions of other workers,
\* and by those of its owner before complete.
LEMMA LeaseStands ==
  ASSUME NEW w \in Workers, NEW v \in Workers, v # w
  PROVE  LET rec == Leased("PROCESSING", w)
         IN  /\ Reserved(rec, v) = rec
             /\ Processing(rec, v) = rec
             /\ Aborted(rec, v) = rec
             /\ Completed(rec, v) = rec
BY DEF Leased, Reserved, Reservable, Processing, MayProcess, Unfinished,
       Aborted, Completed

LEMMA LeasedNext ==
  ASSUME NoRecordStall
  PROVE  TypeOK /\ HandlingLeased /\ [Next]_vars => HandlingLeased'
<1> SUFFICES ASSUME TypeOK, HandlingLeased, [Next]_vars,
                    NEW w \in Workers, NEW p \in Partitions,
                    At(w, p)' \in {"handling", "handled"}
             PROVE  recs'[p][win'[w][p].head] = Leased("PROCESSING", w)
  BY DEF HandlingLeased
<1>1. CASE UNCHANGED vars
  BY <1>1 DEF vars, HandlingLeased, At
<1>2. CASE Next
  <2>1. PICK n \in Seqs : n = win[w][p].head
    BY DEF TypeOK, Windows
  <2>2. /\ win'[w][p].head = n
        /\ \/ win'[w][p] = win[w][p]
           \/ MarkProcessing(w, p)
           \/ HandlerReturns(w, p)
    BY <1>2, <2>1, EnterStep DEF At
  <2>3. CASE MarkProcessing(w, p)
    <3>1. ~Goto(w, p, "failed")
      BY GotoKeeps DEF At, Places
    <3>2. /\ MayProcess(recs[p][n], w)
          /\ recs' = [recs EXCEPT ![p][n] = Processing(recs[p][n], w)]
      BY <2>1, <2>3, <3>1 DEF MarkProcessing, SetRec
    <3>3. recs'[p][n] = Processing(recs[p][n], w)
      BY <3>2 DEF TypeOK
    <3>4. QED
      BY <2>2, <3>2, <3>3 DEF Processing
  <2>4. CASE HandlerReturns(w, p)
    BY <2>1, <2>2, <2>4 DEF HandlerReturns, HandlingLeased, durable
  <2>5. CASE win'[w][p] = win[w][p]
    <3>1. At(w, p) \in {"handling", "handled"}
      BY <2>5 DEF At
    <3>2. recs[p][n] = Leased("PROCESSING", w)
      BY <2>1, <3>1 DEF HandlingLeased
    <3>3. ~LapsedRecord(p, n)
      <4>1. Attending(w, p, n)
        BY <2>1, <3>1 DEF Attending
      <4>2. recs[p][n].owner = w /\ recs[p][n].state = "PROCESSING"
        BY <3>2 DEF Leased
      <4>3. QED
        BY <4>1, <4>2 DEF LapsedRecord
    <3>4. ASSUME NEW v \in Workers, WorkerRecord(v, p, n)
          PROVE  recs'[p][n] = recs[p][n]
      <4>1. CASE v # w
        BY <3>2, <3>4, <4>1, LeaseStands DEF WorkerRecord
      <4>2. CASE v = w
        BY <2>5, <3>4, <4>2 DEF WorkerRecord
      <4>3. QED
        BY <4>1, <4>2
    <3>5. QED
      BY <1>2, <2>2, <3>2, <3>3, <3>4, RecordStep
  <2>6. QED
    BY <2>2, <2>3, <2>4, <2>5
<1>3. QED
  BY <1>1, <1>2

\* No message has two handlers at once, in whatever processes.
THEOREM HandlersExclude == NoRecordStall => (Spec => []HandlersExclusive)
<1> SUFFICES ASSUME NoRecordStall PROVE Spec => []HandlersExclusive
  OBVIOUS
<1>1. HandlingLeased => HandlersExclusive
  <2> SUFFICES ASSUME HandlingLeased,
                      NEW p \in Partitions, NEW n \in Seqs,
                      NEW v \in Workers, NEW w \in Workers,
                      At(v, p) \in {"handling", "handled"}, win[v][p].head = n,
                      At(w, p) \in {"handling", "handled"}, win[w][p].head = n
               PROVE  v = w
    BY DEF HandlersExclusive
  <2>1. recs[p][n] = Leased("PROCESSING", v) /\ recs[p][n] = Leased("PROCESSING", w)
    BY DEF HandlingLeased
  <2>2. recs[p][n].owner = v /\ recs[p][n].owner = w
    BY <2>1 DEF Leased
  <2>3. QED
    BY <2>2
<1>2. TypeOK /\ HandlingLeased /\ [Next]_vars => HandlingLeased'
  BY LeasedNext
<1>3. QED
  BY <1>1, <1>2, LeasedInit, TypeCorrect, PTL DEF Spec

-----------------------------------------------------------------------------
\* Starts and attempts

\* A window keeps only messages it had before their handlers, and its head
\* stays apart from its tail, whatever it does.
Shrinks(old, new) ==
  /\ UnstartedIn(new) \subseteq UnstartedIn(old)
  /\ HeadApart(new)

\* The moves of a window, by the places it can take.
LEMMA WindowMoves ==
  ASSUME NEW old \in Windows, HeadApart(old)
  PROVE  /\ \A place \in Places \ {"idle", "releasing", "head"} :
              /\ old.at \notin {"idle", "releasing"}
              /\ place \in {"sink", "reserved"} =>
                   old.at \in {"head", "sink", "reserved"}
              => Shrinks(old, [old EXCEPT !.at = place])
         /\ old.at # "idle" => Shrinks(old, TailOnly(old))
         /\ \A m : old.at = "releasing" =>
              /\ Shrinks(old, TailOnly([old EXCEPT !.tail = @ \ {m}]))
              /\ m \notin UnstartedIn(TailOnly([old EXCEPT !.tail = @ \ {m}]))
         /\ old.at = "head" =>
              Shrinks(old, [old EXCEPT !.at = "releasing",
                                       !.tail = {old.head} \union old.tail])
         /\ \A m \in old.tail : old.at # "idle" =>
              Shrinks(old, [at |-> "head", head |-> m, tail |-> old.tail \ {m},
                            cursor |-> old.cursor + 1])
         /\ Shrinks(old, NoWindow)
<1>1. ASSUME NEW place \in Places \ {"idle", "releasing", "head"},
             old.at \notin {"idle", "releasing"},
             place \in {"sink", "reserved"} =>
               old.at \in {"head", "sink", "reserved"}
      PROVE  Shrinks(old, [old EXCEPT !.at = place])
  <2>1. /\ [old EXCEPT !.at = place].at = place
        /\ [old EXCEPT !.at = place].head = old.head
        /\ [old EXCEPT !.at = place].tail = old.tail
    BY DEF Windows
  <2>2. UnstartedIn([old EXCEPT !.at = place]) \subseteq UnstartedIn(old)
    BY <1>1, <2>1 DEF UnstartedIn
  <2>3. QED
    BY <1>1, <2>1, <2>2 DEF Shrinks, HeadApart
<1>2. ASSUME NEW w2 \in Windows
      PROVE  /\ UnstartedIn(TailOnly(w2)) \subseteq w2.tail
             /\ HeadApart(TailOnly(w2))
  <2>1. CASE w2.tail = {}
    BY <2>1 DEF TailOnly, NoWindow, UnstartedIn, HeadApart
  <2>2. CASE w2.tail # {}
    <3>1. /\ TailOnly(w2).at = "releasing"
          /\ TailOnly(w2).tail = w2.tail
      BY <2>2 DEF TailOnly, Windows
    <3>2. QED
      BY <3>1 DEF UnstartedIn, HeadApart
  <2>3. QED
    BY <2>1, <2>2
<1>3. old.at # "idle" => old.tail \subseteq UnstartedIn(old)
  BY DEF UnstartedIn
<1>4. old.at # "idle" => Shrinks(old, TailOnly(old))
  BY <1>2, <1>3 DEF Shrinks
<1>5. ASSUME NEW m, old.at = "releasing"
      PROVE  /\ Shrinks(old, TailOnly([old EXCEPT !.tail = @ \ {m}]))
             /\ m \notin UnstartedIn(TailOnly([old EXCEPT !.tail = @ \ {m}]))
  <2>1. /\ [old EXCEPT !.tail = @ \ {m}] \in Windows
        /\ [old EXCEPT !.tail = @ \ {m}].tail = old.tail \ {m}
    BY DEF Windows
  <2>2. QED
    BY <1>2, <1>3, <1>5, <2>1 DEF Shrinks
<1>6. old.at = "head" =>
        Shrinks(old, [old EXCEPT !.at = "releasing",
                                 !.tail = {old.head} \union old.tail])
  <2>1. LET new == [old EXCEPT !.at = "releasing",
                               !.tail = {old.head} \union old.tail]
        IN  new.at = "releasing" /\ new.tail = {old.head} \union old.tail
    BY DEF Windows
  <2>2. QED
    BY <2>1 DEF Shrinks, UnstartedIn, HeadApart
<1>7. ASSUME NEW m \in old.tail, old.at # "idle"
      PROVE  Shrinks(old, [at |-> "head", head |-> m, tail |-> old.tail \ {m},
                           cursor |-> old.cursor + 1])
  <2> DEFINE new == [at |-> "head", head |-> m, tail |-> old.tail \ {m},
                     cursor |-> old.cursor + 1]
  <2>1. new.at = "head" /\ new.head = m /\ new.tail = old.tail \ {m}
    OBVIOUS
  <2> HIDE DEF new
  <2>2. UnstartedIn(new) = old.tail /\ HeadApart(new)
    BY <2>1 DEF UnstartedIn, HeadApart
  <2>3. QED
    BY <1>3, <1>7, <2>2 DEF Shrinks, new
<1>8. Shrinks(old, NoWindow)
  BY DEF Shrinks, NoWindow, UnstartedIn, HeadApart
<1>9. QED
  BY <1>1, <1>4, <1>5, <1>6, <1>7, <1>8

\* The step of a worker in a partition: its window shrinks, and a started or
\* released message leaves it.
LEMMA OwnShrinks ==
  ASSUME TypeOK, ChargedInv, NEW w \in Workers, NEW p \in Partitions,
         \/ DeliveryStep(w, p)
         \/ HandlerRaises(w, p)
         \/ DeliveryTimeout(w, p)
  PROVE  Shrinks(win[w][p], win'[w][p])
<1> DEFINE old == win[w][p]
<1>0. old \in Windows /\ HeadApart(old)
  BY DEF TypeOK, ChargedInv
<1>1. ASSUME NEW window, SetWin(w, p, window)
      PROVE  win'[w][p] = window
  BY <1>1 DEF SetWin, TypeOK
<1>2. ASSUME NEW place \in Places \ {"idle", "releasing", "head"},
             Goto(w, p, place), old.at \notin {"idle", "releasing"},
             place \in {"sink", "reserved"} =>
               old.at \in {"head", "sink", "reserved"}
      PROVE  Shrinks(old, win'[w][p])
  BY <1>0, <1>1, <1>2, WindowMoves DEF Goto
<1>3. {"failed", "sink", "reserved", "handling", "handled", "aborting",
       "accepted"} \subseteq Places \ {"idle", "releasing", "head"}
  BY DEF Places, Delivering, Sinking
<1>4. CASE EnterDelivery(w, p)
  <2>1. /\ old.at = "head" /\ Held(w, p) = {old.head} \union old.tail
        /\ \/ Goto(w, p, "sink")
           \/ SetWin(w, p, [old EXCEPT !.at = "releasing",
                                       !.tail = Held(w, p)])
    BY <1>4 DEF EnterDelivery, Held, At
  <2>2. QED
    BY <1>0, <1>1, <1>2, <1>3, <2>1, WindowMoves
<1>5. CASE \/ SinkReserve(w, p) \/ MarkProcessing(w, p)
           \/ HandlerReturns(w, p) \/ HandlerRaises(w, p)
           \/ AbortReservation(w, p) \/ CompleteDelivery(w, p)
           \/ DeliveryTimeout(w, p)
  <2>1. /\ old.at \in Sinking
        /\ \E place \in {"failed", "handling", "handled", "aborting",
                          "accepted", "reserved"} :
             Goto(w, p, place) /\ (place = "reserved" => old.at = "sink")
    BY <1>5 DEF SinkReserve, MarkProcessing, HandlerReturns, HandlerRaises,
           AbortReservation, CompleteDelivery, DeliveryTimeout, At, Sinking
  <2>2. QED
    BY <1>2, <1>3, <2>1 DEF Sinking
<1>6. CASE MarkPublished(w, p)
  <2>1. /\ old.at = "accepted"
        /\ \/ Goto(w, p, "failed")
           \/ SetWin(w, p, NoWindow)
           \/ \E m \in old.tail :
                SetWin(w, p, [at |-> "head", head |-> m,
                              tail |-> old.tail \ {m},
                              cursor |-> old.cursor + 1])
    BY <1>6 DEF MarkPublished, At
  <2>2. QED
    BY <1>0, <1>1, <1>2, <1>3, <2>1, WindowMoves
<1>7. CASE ReleaseHead(w, p)
  <2>1. old.at = "failed" /\ SetWin(w, p, TailOnly(old))
    BY <1>7 DEF ReleaseHead, At
  <2>2. QED
    BY <1>0, <1>1, <2>1, WindowMoves
<1>8. ASSUME NEW m \in Seqs, ReleaseTail(w, p, m)
      PROVE  Shrinks(old, win'[w][p])
  <2>1. /\ old.at = "releasing"
        /\ SetWin(w, p, TailOnly([old EXCEPT !.tail = @ \ {m}]))
    BY <1>8 DEF ReleaseTail, At
  <2>2. QED
    BY <1>0, <1>1, <2>1, WindowMoves
<1>9. QED
  BY <1>4, <1>5, <1>6, <1>7, <1>8 DEF DeliveryStep

\* A process that is cancelled, exits or crashes drops messages and takes none.
LEMMA WindowsEnd ==
  ASSUME TypeOK, ChargedInv, NEW w \in Workers, Cancel(w) \/ Exit(w) \/ Crash(w),
         NEW v \in Workers, NEW p \in Partitions
  PROVE  Shrinks(win[v][p], win'[v][p])
<1>0. /\ win \in [Workers -> [Partitions -> Windows]]
      /\ win[v][p] \in Windows /\ HeadApart(win[v][p])
  BY DEF TypeOK, ChargedInv
<1>1. CASE v # w
  <2>1. win'[v][p] = win[v][p]
    BY <1>0, <1>1 DEF Cancel, Exit, Crash, Gone
  <2>2. QED
    BY <1>0, <2>1 DEF Shrinks
<1>2. CASE v = w /\ Cancel(w)
  <2>1. \/ /\ win[v][p].at \in Delivering
           /\ win'[v][p] = [win[v][p] EXCEPT !.at = "failed"]
        \/ /\ win[v][p].at = "failed"
           /\ win'[v][p] = TailOnly(win[v][p])
        \/ win'[v][p] = NoWindow
    <3>1. win'[v][p] = CASE At(w, p) \in Delivering ->
                              [win[w][p] EXCEPT !.at = "failed"]
                         [] At(w, p) = "failed" -> TailOnly(win[w][p])
                         [] OTHER -> NoWindow
      BY <1>0, <1>2 DEF Cancel
    <3>2. QED
      BY <1>2, <3>1 DEF At
  <2>2. "failed" \in Places \ {"idle", "releasing", "head"}
    BY DEF Places
  <2>3. Delivering \intersect {"idle", "releasing"} = {}
    BY DEF Delivering, Sinking
  <2>4. QED
    BY <1>0, <2>1, <2>2, <2>3, WindowMoves
<1>3. CASE v = w /\ (Exit(w) \/ Crash(w))
  <2>1. win'[v][p] = NoWindow
    BY <1>0, <1>3 DEF Exit, Crash, Gone
  <2>2. QED
    BY <1>0, <2>1, WindowMoves
<1>4. QED
  BY <1>1, <1>2, <1>3

\* The attempts of a row end up at least k above what they were, and no row
\* becomes absent.
Charges(old, new, k) ==
  /\ new.attempts >= old.attempts + k
  /\ new.state = "ABSENT" => new = old

\* Time charges nothing.
LEMMA RowTime ==
  ASSUME NEW row \in Row(Workers)
  PROVE  /\ Charges(row, row, 0)
         /\ Charges(row, Recovered(row), 0)
         /\ row.state # "ABSENT" =>
              Charges(row, [row EXCEPT !.lapsed = TRUE], 0)
<1>0. row.attempts \in Nat
  BY MaxAttemptsAssumption DEF Row
<1>1. \A a : Unclaimed(a).attempts = a /\ Unclaimed(a).state # "ABSENT"
  BY DEF Unclaimed
<1>2. Charges(row, row, 0)
  BY <1>0 DEF Charges
<1>3. Charges(row, Recovered(row), 0)
  BY <1>0, <1>1 DEF Charges, Recovered
<1>4. row.state # "ABSENT" => Charges(row, [row EXCEPT !.lapsed = TRUE], 0)
  <2>1. /\ [row EXCEPT !.lapsed = TRUE].attempts = row.attempts
        /\ [row EXCEPT !.lapsed = TRUE].state = row.state
    BY DEF Row
  <2>2. QED
    BY <1>0, <2>1 DEF Charges
<1>5. QED
  BY <1>2, <1>3, <1>4

\* Only a claim charges an attempt, and only a release gives one back.
LEMMA RowCharges ==
  ASSUME NEW row \in Row(Workers), NEW w \in Workers
  PROVE  /\ Charges(row, Renewed(row, w), 0)
         /\ Charges(row, Published(row, w), 0)
         /\ Charges(row, Released(row, w, 0), 0)
         /\ Charges(row, Released(row, w, 1), -1)
         /\ Charges(row, Claimed(Recovered(row), w), 1)
<1>0. row.attempts \in Nat
  BY MaxAttemptsAssumption DEF Row
<1>1. \A a : Unclaimed(a).attempts = a /\ Unclaimed(a).state # "ABSENT"
  BY DEF Unclaimed
<1>2. Charges(row, Renewed(row, w), 0)
  <2>1. /\ [row EXCEPT !.lapsed = FALSE].attempts = row.attempts
        /\ [row EXCEPT !.lapsed = FALSE].state = row.state
    BY DEF Row
  <2>2. QED
    BY <1>0, <2>1 DEF Charges, Renewed, ClaimedBy
<1>3. Charges(row, Published(row, w), 0)
  BY <1>0 DEF Charges, Published
<1>4. /\ Charges(row, Released(row, w, 0), 0)
      /\ Charges(row, Released(row, w, 1), -1)
  BY <1>0, <1>1 DEF Charges, Released
<1>5. Charges(row, Claimed(Recovered(row), w), 1)
  <2>1. Recovered(row).attempts = row.attempts
    BY <1>1 DEF Recovered
  <2>2. QED
    BY <1>0, <2>1 DEF Charges, Claimed
<1>6. QED
  BY <1>2, <1>3, <1>4, <1>5

\* What a step does to the starts, the pending claims and the row of one
\* message: nothing that adds to a side of StartsCharged without the other.
Balanced(p, n, k) ==
  /\ Charges(rows[p][n], rows'[p][n], k)
  /\ runs'[p][n] = runs[p][n]

Settles(p, n, w) ==
  w \in Pending(p, n) /\ Pending(p, n)' \subseteq Pending(p, n) \ {w}

ChargeMove(p, n) ==
  \/ Balanced(p, n, 0) /\ Pending(p, n)' \subseteq Pending(p, n)
  \/ /\ \E w \in Workers : Settles(p, n, w)
     /\ Charges(rows[p][n], rows'[p][n], 0)
     /\ runs'[p][n] = runs[p][n] + 1
  \/ /\ \E w \in Workers : Settles(p, n, w)
     /\ Balanced(p, n, -1)
  \/ /\ \E w \in Workers : Pending(p, n)' \subseteq Pending(p, n) \union {w}
     /\ Balanced(p, n, 1)

\* The step of a worker in a partition.
LEMMA DeliveryCharge ==
  ASSUME TypeOK, ChargedInv, NEW w \in Workers, NEW q \in Partitions,
         \/ DeliveryStep(w, q)
         \/ HandlerRaises(w, q)
         \/ DeliveryTimeout(w, q),
         NEW p \in Partitions, NEW n \in Seqs
  PROVE  ChargeMove(p, n)
<1> DEFINE h == win[w][q].head
<1>0. /\ rows \in [Partitions -> [Seqs -> Row(Workers)]]
      /\ runs \in [Partitions -> [Seqs -> Nat]]
      /\ win[w][q] \in Windows /\ h \in Seqs
      /\ rows[p][n] \in Row(Workers)
      /\ Charges(rows[p][n], rows[p][n], 0)
  <2>1. /\ rows[p][n] \in Row(Workers)
        /\ win[w][q] \in Windows /\ h \in Seqs
    BY DEF TypeOK, Windows
  <2>2. Charges(rows[p][n], rows[p][n], 0)
    BY <2>1, RowTime
  <2>3. QED
    BY <2>1, <2>2 DEF TypeOK
<1>1. Shrinks(win[w][q], win'[w][q])
  BY OwnShrinks
<1>2. Pending(p, n)' \subseteq Pending(p, n)
  <2>1. ASSUME NEW v \in Workers, n \in UnstartedIn(win'[v][p])
        PROVE  n \in UnstartedIn(win[v][p])
    <3>1. CASE v = w /\ p = q
      BY <1>1, <2>1, <3>1 DEF Shrinks
    <3>2. CASE v # w \/ p # q
      BY <2>1, <3>2, OtherWindow
    <3>3. QED
      BY <3>1, <3>2
  <2>2. QED
    BY <2>1 DEF Pending
<1>3. ASSUME NEW m \in Seqs, NEW row, rows' = [rows EXCEPT ![q][m] = row]
      PROVE  rows'[p][n] = IF p = q /\ n = m THEN row ELSE rows[p][n]
  <2>1. CASE p = q /\ n = m
    BY <1>0, <1>3, <2>1
  <2>2. CASE p # q
    BY <1>0, <1>3, <2>2
  <2>3. CASE p = q /\ n # m
    BY <1>0, <1>3, <2>3
  <2>4. QED
    BY <2>1, <2>2, <2>3
<1>4. CASE runs' = runs /\ Charges(rows[p][n], rows'[p][n], 0)
  BY <1>2, <1>4 DEF ChargeMove, Balanced
<1>5. CASE MarkProcessing(w, q) /\ runs' # runs
  <2>1. /\ At(w, q) = "reserved" /\ rows' = rows
        /\ Goto(w, q, "handling")
        /\ runs' = [runs EXCEPT ![q][h] = @ + 1]
    BY <1>5 DEF MarkProcessing
  <2>2. CASE p = q /\ n = h
    <3>1. w \in Pending(p, n)
      BY <2>1, <2>2 DEF Pending, UnstartedIn, At
    <3>2. w \notin Pending(p, n)'
      <4>1. win'[w][q] = [win[w][q] EXCEPT !.at = "handling"]
        BY <2>1 DEF Goto, SetWin, TypeOK
      <4>2. /\ win'[w][q].at = "handling"
            /\ win'[w][q].tail = win[w][q].tail
        BY <1>0, <4>1 DEF Windows
      <4>3. h \notin win[w][q].tail
        BY <2>1 DEF ChargedInv, HeadApart, At
      <4>4. n \notin UnstartedIn(win'[w][p])
        BY <2>2, <4>2, <4>3 DEF UnstartedIn
      <4>5. QED
        BY <4>4 DEF Pending
    <3>3. runs'[p][n] = runs[p][n] + 1
      BY <1>0, <2>1, <2>2
    <3>4. QED
      BY <1>0, <1>2, <2>1, <3>1, <3>2, <3>3 DEF ChargeMove, Settles
  <2>3. CASE ~(p = q /\ n = h)
    <3>1. runs'[p][n] = runs[p][n]
      <4>1. CASE p # q
        BY <1>0, <2>1, <4>1
      <4>2. CASE p = q /\ n # h
        BY <1>0, <2>1, <4>2
      <4>3. QED
        BY <2>3, <4>1, <4>2
    <3>2. QED
      BY <1>0, <1>2, <2>1, <3>1 DEF ChargeMove, Balanced
  <2>4. QED
    BY <2>2, <2>3
<1>6. ASSUME NEW m \in Seqs, ReleaseTail(w, q, m)
      PROVE  ChargeMove(p, n)
  <2>1. /\ \/ rows' = rows
           \/ rows' = [rows EXCEPT ![q][m] = Released(rows[q][m], w, 1)]
        /\ runs' = runs
        /\ At(w, q) = "releasing" /\ m \in win[w][q].tail
        /\ win'[w][q] = TailOnly([win[w][q] EXCEPT !.tail = @ \ {m}])
    BY <1>6 DEF ReleaseTail, Uncertain, SetWin, TypeOK
  <2>2. CASE p = q /\ n = m
    <3>1. w \in Pending(p, n)
      BY <2>1, <2>2 DEF Pending, UnstartedIn, At
    <3>2. w \notin Pending(p, n)'
      <4>1. n \notin UnstartedIn(win'[w][p])
        BY <1>0, <2>1, <2>2, WindowMoves DEF At, ChargedInv
      <4>2. QED
        BY <4>1 DEF Pending
    <3>3. Charges(rows[p][n], rows'[p][n], -1)
      <4>1. CASE rows' = rows
        BY <1>0, <4>1, MaxAttemptsAssumption DEF Charges, Row
      <4>2. CASE rows' = [rows EXCEPT ![q][m] = Released(rows[q][m], w, 1)]
        BY <1>0, <1>3, <2>2, <4>2, RowCharges
      <4>3. QED
        BY <2>1, <4>1, <4>2
    <3>4. QED
      BY <1>2, <2>1, <3>1, <3>2, <3>3 DEF ChargeMove, Settles, Balanced
  <2>3. CASE ~(p = q /\ n = m)
    BY <1>0, <1>2, <1>3, <2>1, <2>3 DEF ChargeMove, Balanced
  <2>4. QED
    BY <2>2, <2>3
<1>7. CASE EnterDelivery(w, q)
  <2>1. /\ runs' = runs
        /\ \/ rows' = rows
           \/ rows' = [rows EXCEPT ![q] = [m \in Seqs |->
                         IF m \in Held(w, q) THEN Renewed(rows[q][m], w)
                                             ELSE rows[q][m]]]
    BY <1>7 DEF EnterDelivery, Uncertain
  <2>2. rows'[p][n] = rows[p][n] \/ rows'[p][n] = Renewed(rows[p][n], w)
    <3>1. CASE p = q
      BY <1>0, <2>1, <3>1
    <3>2. CASE p # q
      BY <1>0, <2>1, <3>2
    <3>3. QED
      BY <3>1, <3>2
  <2>3. QED
    BY <1>0, <1>4, <2>1, <2>2, RowCharges
<1>8. CASE MarkPublished(w, q) \/ ReleaseHead(w, q)
  <2>1. /\ runs' = runs
        /\ \/ rows' = rows
           \/ rows' = [rows EXCEPT ![q][h] = Published(rows[q][h], w)]
           \/ rows' = [rows EXCEPT ![q][h] = Released(rows[q][h], w, 0)]
    BY <1>8 DEF MarkPublished, ReleaseHead, SetRow, Uncertain
  <2>2. \/ rows'[p][n] = rows[p][n]
        \/ rows'[p][n] = Published(rows[p][n], w)
        \/ rows'[p][n] = Released(rows[p][n], w, 0)
    BY <1>0, <1>3, <2>1
  <2>3. QED
    BY <1>0, <1>4, <2>1, <2>2, RowCharges
<1>9. CASE \/ SinkReserve(w, q) \/ HandlerReturns(w, q)
           \/ HandlerRaises(w, q) \/ AbortReservation(w, q)
           \/ CompleteDelivery(w, q) \/ DeliveryTimeout(w, q)
           \/ MarkProcessing(w, q) /\ runs' = runs
  <2>1. runs' = runs /\ rows' = rows
    BY <1>9 DEF SinkReserve, HandlerReturns, HandlerRaises, AbortReservation,
           CompleteDelivery, DeliveryTimeout, MarkProcessing, durable
  <2>2. QED
    BY <1>0, <1>4, <2>1
<1>10. QED
  BY <1>5, <1>6, <1>7, <1>8, <1>9 DEF DeliveryStep

\* A claim charges every row that it adds to a window; appends, process and
\* time steps add nothing to any side.
LEMMA ChargeStep ==
  ASSUME TypeOK, ChargedInv, Next, NEW p \in Partitions, NEW n \in Seqs
  PROVE  ChargeMove(p, n)
<1>0. /\ rows \in [Partitions -> [Seqs -> Row(Workers)]]
      /\ win \in [Workers -> [Partitions -> Windows]]
      /\ rows[p][n] \in Row(Workers)
  BY DEF TypeOK
<1>1. CASE /\ win' = win /\ runs' = runs
           /\ Charges(rows[p][n], rows'[p][n], 0)
  BY <1>1 DEF ChargeMove, Balanced, Pending
<1>2. ASSUME NEW q \in Partitions, NEW m \in Seqs,
             Append(q, m) \/ LapseClaim(q, m) \/ LapseRecord(q, m)
      PROVE  ChargeMove(p, n)
  <2>1. CASE Append(q, m)
    <3>1. rows'[p][n] = rows[p][n] \/ (/\ rows[p][n].state = "ABSENT"
                                      /\ rows'[p][n] = Appended)
      BY <1>0, <2>1 DEF Append, SetRow
    <3>2. ASSUME rows[p][n].state = "ABSENT", rows'[p][n] = Appended
          PROVE  Charges(rows[p][n], rows'[p][n], 0)
      <4>1. rows[p][n].attempts = 0
        BY <3>2 DEF ChargedInv, State
      <4>2. QED
        BY <3>2, <4>1 DEF Charges, Appended
    <3>3. QED
      BY <1>0, <1>1, <2>1, <3>1, <3>2, RowTime DEF Append
  <2>2. CASE LapseClaim(q, m)
    <3>1. \/ rows'[p][n] = rows[p][n]
          \/ /\ rows[p][n].state = "CLAIMED"
             /\ rows'[p][n] = [rows[p][n] EXCEPT !.lapsed = TRUE]
      BY <1>0, <2>2 DEF LapseClaim, SetRow
    <3>2. QED
      BY <1>0, <1>1, <2>2, <3>1, RowTime DEF LapseClaim
  <2>3. CASE LapseRecord(q, m)
    BY <1>0, <1>1, <2>3, RowTime DEF LapseRecord
  <2>4. QED
    BY <1>2, <2>1, <2>2, <2>3
<1>3. ASSUME NEW w \in Workers, Close(w) \/ Restart(w)
      PROVE  ChargeMove(p, n)
  BY <1>0, <1>1, <1>3, RowTime DEF Close, Restart, durable
<1>4. ASSUME NEW w \in Workers, Cancel(w) \/ Exit(w) \/ Crash(w)
      PROVE  ChargeMove(p, n)
  <2>1. rows' = rows /\ runs' = runs
    BY <1>4 DEF Cancel, Exit, Crash, Gone, durable
  <2>2. ASSUME NEW v \in Workers
        PROVE  UnstartedIn(win'[v][p]) \subseteq UnstartedIn(win[v][p])
    BY <1>4, WindowsEnd DEF Shrinks
  <2>3. Pending(p, n)' \subseteq Pending(p, n)
    BY <2>2 DEF Pending
  <2>4. QED
    BY <1>0, <2>1, <2>3, RowTime DEF ChargeMove, Balanced
<1>5. ASSUME NEW w \in Workers, NEW take \in Takes, ClaimBatch(w, take)
      PROVE  ChargeMove(p, n)
  <2> DEFINE now == [q \in Partitions |->
                       [m \in Seqs |-> Recovered(rows[q][m])]]
  <2>1. PICK c \in [Partitions -> 0..Length] :
          /\ rows' = [q \in Partitions |->
                        ClaimedRun(now[q], c[q], take[q], w)]
          /\ win' = [win EXCEPT ![w] = [q \in Partitions |->
                       IF take[q] = 0 THEN NoWindow
                       ELSE [at |-> "head", head |-> c[q], cursor |-> c[q],
                             tail |-> (c[q] + 1)..(c[q] + take[q] - 1)]]]
    BY <1>5 DEF ClaimBatch
  <2>2. DOMAIN now[p] = Seqs /\ now[p][n] = Recovered(rows[p][n])
    OBVIOUS
  <2> HIDE DEF now
  <2>3. rows'[p][n] = IF n \in c[p]..(c[p] + take[p] - 1)
                        THEN Claimed(Recovered(rows[p][n]), w)
                        ELSE Recovered(rows[p][n])
    BY <2>1, <2>2 DEF ClaimedRun
  <2>4. runs' = runs
    BY <1>5 DEF ClaimBatch
  <2>5. \A v \in Workers : v # w => win'[v][p] = win[v][p]
    BY <1>0, <2>1
  <2>6. CASE n \in c[p]..(c[p] + take[p] - 1)
    <3>1. Pending(p, n)' \subseteq Pending(p, n) \union {w}
      BY <2>5 DEF Pending
    <3>2. Charges(rows[p][n], rows'[p][n], 1)
      BY <1>0, <2>3, <2>6, RowCharges
    <3>3. QED
      BY <2>4, <3>1, <3>2 DEF ChargeMove, Balanced
  <2>7. CASE n \notin c[p]..(c[p] + take[p] - 1)
    <3>1. UnstartedIn(win'[w][p]) \subseteq c[p]..(c[p] + take[p] - 1)
      <4>0. c[p] \in Int /\ take[p] \in Nat
        BY DispatchAssumption DEF Takes
      <4>1. win'[w][p] = IF take[p] = 0 THEN NoWindow
                         ELSE [at |-> "head", head |-> c[p], cursor |-> c[p],
                               tail |-> (c[p] + 1)..(c[p] + take[p] - 1)]
        BY <1>0, <2>1
      <4>2. CASE take[p] = 0
        BY <4>1, <4>2 DEF UnstartedIn, NoWindow
      <4>3. CASE take[p] # 0
        <5>1. /\ win'[w][p].at = "head" /\ win'[w][p].head = c[p]
              /\ win'[w][p].tail = (c[p] + 1)..(c[p] + take[p] - 1)
          BY <4>1, <4>3
        <5>2. UnstartedIn(win'[w][p]) =
                {c[p]} \union (c[p] + 1)..(c[p] + take[p] - 1)
          BY <5>1 DEF UnstartedIn
        <5>3. QED
          BY <4>0, <4>3, <5>2
      <4>4. QED
        BY <4>2, <4>3
    <3>2. Pending(p, n)' \subseteq Pending(p, n)
      BY <2>5, <2>7, <3>1 DEF Pending
    <3>3. QED
      BY <1>0, <2>3, <2>4, <2>7, <3>2, RowTime DEF ChargeMove, Balanced
  <2>8. QED
    BY <2>6, <2>7
<1>6. QED
  BY <1>2, <1>3, <1>4, <1>5, DeliveryCharge DEF Next

\* The head of a window is never one of the messages after it.
LEMMA ApartStep ==
  ASSUME TypeOK, ChargedInv, Next, NEW v \in Workers, NEW p \in Partitions
  PROVE  HeadApart(win'[v][p])
<1>0. win \in [Workers -> [Partitions -> Windows]] /\ HeadApart(win[v][p])
  BY DEF TypeOK, ChargedInv
<1>1. ASSUME NEW w \in Workers, NEW q \in Partitions,
             DeliveryStep(w, q) \/ HandlerRaises(w, q) \/ DeliveryTimeout(w, q)
      PROVE  HeadApart(win'[v][p])
  <2>1. CASE v = w /\ p = q
    BY <1>1, <2>1, OwnShrinks DEF Shrinks
  <2>2. CASE v # w \/ p # q
    <3>1. win'[v][p] = win[v][p]
      BY <1>1, <2>2, OtherWindow
    <3>2. QED
      BY <1>0, <3>1
  <2>3. QED
    BY <2>1, <2>2
<1>2. ASSUME NEW w \in Workers, NEW take \in Takes, ClaimBatch(w, take)
      PROVE  HeadApart(win'[v][p])
  <2>1. PICK c \in [Partitions -> 0..Length] :
          win' = [win EXCEPT ![w] = [q \in Partitions |->
                    IF take[q] = 0 THEN NoWindow
                    ELSE [at |-> "head", head |-> c[q], cursor |-> c[q],
                          tail |-> (c[q] + 1)..(c[q] + take[q] - 1)]]]
    BY <1>2 DEF ClaimBatch
  <2>2. win'[v][p] = IF v # w THEN win[v][p]
                     ELSE IF take[p] = 0 THEN NoWindow
                     ELSE [at |-> "head", head |-> c[p], cursor |-> c[p],
                           tail |-> (c[p] + 1)..(c[p] + take[p] - 1)]
    BY <1>0, <2>1
  <2>3. c[p] \in Int /\ c[p] \notin (c[p] + 1)..(c[p] + take[p] - 1)
    BY DispatchAssumption DEF Takes
  <2>4. CASE v # w
    BY <1>0, <2>2, <2>4
  <2>5. CASE v = w /\ take[p] = 0
    BY <2>2, <2>5 DEF HeadApart, NoWindow
  <2>6. CASE v = w /\ take[p] # 0
    <3>1. /\ win'[v][p].head = c[p]
          /\ win'[v][p].tail = (c[p] + 1)..(c[p] + take[p] - 1)
      BY <2>2, <2>6
    <3>2. QED
      BY <2>3, <3>1 DEF HeadApart
  <2>7. QED
    BY <2>4, <2>5, <2>6
<1>3. ASSUME NEW w \in Workers, Cancel(w) \/ Exit(w) \/ Crash(w)
      PROVE  HeadApart(win'[v][p])
  BY <1>3, WindowsEnd DEF Shrinks
<1>4. \/ win' = win
      \/ \E w \in Workers :
           \/ \E q \in Partitions :
                \/ DeliveryStep(w, q)
                \/ HandlerRaises(w, q)
                \/ DeliveryTimeout(w, q)
           \/ \E take \in Takes : ClaimBatch(w, take)
           \/ Cancel(w) \/ Exit(w) \/ Crash(w)
  BY DEF Next, Append, LapseClaim, LapseRecord, Close, Restart
<1>5. QED
  BY <1>0, <1>1, <1>2, <1>3, <1>4

\* Before the first append nothing is started or charged.
LEMMA ChargedInit == Init => ChargedInv
<1> SUFFICES ASSUME Init PROVE ChargedInv
  OBVIOUS
<1>1. \A p \in Partitions, n \in Seqs : Pending(p, n) = {}
  BY DEF Init, Pending, UnstartedIn, NoWindow
<1>2. StartsCharged
  <2>1. SUFFICES ASSUME NEW p \in Partitions, NEW n \in Seqs
                 PROVE  runs[p][n] + Cardinality(Pending(p, n))
                          <= rows[p][n].attempts
    BY DEF StartsCharged
  <2>2. Cardinality(Pending(p, n)) = 0
    BY <1>1, FS_EmptySet
  <2>3. runs[p][n] = 0 /\ rows[p][n].attempts = 0
    BY DEF Init, AbsentRow
  <2>4. QED
    BY <2>2, <2>3
<1>3. QED
  BY <1>2 DEF Init, ChargedInv, AbsentRow, State, HeadApart, NoWindow

\* Starts and pending claims stay within the charged attempts.
LEMMA ChargedNext == TypeOK /\ ChargedInv /\ [Next]_vars => ChargedInv'
<1> SUFFICES ASSUME TypeOK, ChargedInv, [Next]_vars PROVE ChargedInv'
  OBVIOUS
<1>1. CASE UNCHANGED vars
  BY <1>1 DEF vars, ChargedInv, StartsCharged, Pending, State
<1>2. CASE Next
  <2>1. ASSUME NEW p \in Partitions, NEW n \in Seqs
        PROVE  runs'[p][n] + Cardinality(Pending(p, n)') <= rows'[p][n].attempts
    <3> DEFINE old == Cardinality(Pending(p, n))
               new == Cardinality(Pending(p, n)')
    <3>1. IsFiniteSet(Workers)
      BY DispatchAssumption
    <3>2. /\ IsFiniteSet(Pending(p, n)) /\ old \in Nat
          /\ IsFiniteSet(Pending(p, n)') /\ new \in Nat
      <4>1. Pending(p, n) \subseteq Workers /\ Pending(p, n)' \subseteq Workers
        BY DEF Pending
      <4>2. IsFiniteSet(Pending(p, n)) /\ IsFiniteSet(Pending(p, n)')
        BY <3>1, <4>1, FS_Subset
      <4>3. QED
        BY <4>2, FS_CardinalityType
    <3>3. /\ runs[p][n] \in Nat
          /\ rows[p][n].attempts \in Nat /\ rows'[p][n].attempts \in Nat
      <4>1. TypeOK'
        BY TypeNext
      <4>2. rows[p][n] \in Row(Workers) /\ rows'[p][n] \in Row(Workers)
        BY <4>1 DEF TypeOK
      <4>3. QED
        BY <4>2, MaxAttemptsAssumption DEF TypeOK, Row
    <3>4. runs[p][n] + old <= rows[p][n].attempts
      BY DEF ChargedInv, StartsCharged
    <3>5. Pending(p, n)' \subseteq Pending(p, n) => new <= old
      BY <3>2, FS_Subset
    <3>6. \A w \in Workers : Settles(p, n, w) => new <= old - 1
      <4>1. SUFFICES ASSUME NEW w \in Workers, Settles(p, n, w)
                     PROVE  new <= old - 1
        OBVIOUS
      <4>2. /\ IsFiniteSet(Pending(p, n) \ {w})
            /\ Cardinality(Pending(p, n) \ {w}) = old - 1
        BY <3>2, <4>1, FS_RemoveElement DEF Settles
      <4>3. QED
        BY <4>1, <4>2, FS_Subset DEF Settles
    <3>7. \A w \in Workers :
            Pending(p, n)' \subseteq Pending(p, n) \union {w} => new <= old + 1
      <4>1. SUFFICES ASSUME NEW w \in Workers,
                            Pending(p, n)' \subseteq Pending(p, n) \union {w}
                     PROVE  new <= old + 1
        OBVIOUS
      <4>2. /\ IsFiniteSet(Pending(p, n) \union {w})
            /\ Cardinality(Pending(p, n) \union {w}) \in {old, old + 1}
        BY <3>2, FS_AddElement
      <4>3. new <= Cardinality(Pending(p, n) \union {w})
        BY <4>1, <4>2, FS_Subset
      <4>4. QED
        BY <3>2, <4>2, <4>3
    <3> HIDE DEF old, new
    <3>8. ChargeMove(p, n)
      BY <1>2, ChargeStep
    <3>9. runs'[p][n] + new <= rows'[p][n].attempts
      <4>1. CASE Balanced(p, n, 0) /\ Pending(p, n)' \subseteq Pending(p, n)
        BY <3>2, <3>3, <3>4, <3>5, <4>1 DEF Balanced, Charges
      <4>2. CASE /\ \E w \in Workers : Settles(p, n, w)
                 /\ Charges(rows[p][n], rows'[p][n], 0)
                 /\ runs'[p][n] = runs[p][n] + 1
        BY <3>2, <3>3, <3>4, <3>6, <4>2 DEF Charges
      <4>3. CASE /\ \E w \in Workers : Settles(p, n, w)
                 /\ Balanced(p, n, -1)
        BY <3>2, <3>3, <3>4, <3>6, <4>3 DEF Balanced, Charges
      <4>4. CASE /\ \E w \in Workers :
                        Pending(p, n)' \subseteq Pending(p, n) \union {w}
                 /\ Balanced(p, n, 1)
        BY <3>2, <3>3, <3>4, <3>7, <4>4 DEF Balanced, Charges
      <4>5. QED
        BY <3>8, <4>1, <4>2, <4>3, <4>4 DEF ChargeMove
    <3>10. QED
      BY <3>9 DEF new
  <2>2. ASSUME NEW p \in Partitions, NEW n \in Seqs, State(p, n)' = "ABSENT"
        PROVE  rows'[p][n].attempts = 0
    <3>1. rows'[p][n] = rows[p][n]
      BY <1>2, <2>2, ChargeStep
         DEF ChargeMove, Balanced, Charges, State
    <3>2. QED
      BY <2>2, <3>1 DEF ChargedInv, State
  <2>3. ASSUME NEW v \in Workers, NEW p \in Partitions
        PROVE  HeadApart(win'[v][p])
    BY <1>2, ApartStep
  <2>4. QED
    BY <2>1, <2>2, <2>3 DEF ChargedInv, StartsCharged, State
<1>3. QED
  BY <1>1, <1>2

\* The handlers of a message are started at most as often as claims are
\* charged to its row, although a release gives attempts back.
THEOREM StartsWithinAttempts == Spec => []RunsWithinAttempts
<1>1. TypeOK /\ ChargedInv => RunsWithinAttempts
  <2> SUFFICES ASSUME TypeOK, ChargedInv, NEW p \in Partitions, NEW n \in Seqs
               PROVE  runs[p][n] <= rows[p][n].attempts
    BY DEF RunsWithinAttempts
  <2>1. IsFiniteSet(Pending(p, n))
    BY DispatchAssumption, FS_Subset DEF Pending
  <2>2. Cardinality(Pending(p, n)) \in Nat
    BY <2>1, FS_CardinalityType
  <2>3. runs[p][n] \in Nat /\ rows[p][n].attempts \in Nat
    <3>1. rows[p][n] \in Row(Workers)
      BY DEF TypeOK
    <3>2. QED
      BY <3>1, MaxAttemptsAssumption DEF TypeOK, Row
  <2>4. runs[p][n] + Cardinality(Pending(p, n)) <= rows[p][n].attempts
    BY DEF ChargedInv, StartsCharged
  <2>5. QED
    BY <2>2, <2>3, <2>4
<1>2. QED
  BY <1>1, ChargedInit, ChargedNext, TypeCorrect, PTL DEF Spec

=============================================================================
