-------------------------- MODULE IdempotencyStore --------------------------
(***************************************************************************)
(* The durable idempotency record of one message and the four transactions *)
(* that PostgresIdempotencyStore runs on it (messaging/                     *)
(* postgres_idempotency.py).  Every method locks the row (INSERT ... ON    *)
(* CONFLICT or SELECT ... FOR UPDATE) and commits, so each is one atomic   *)
(* function of the record.                                                 *)
(*                                                                         *)
(* The lease and retention deadlines are abstracted to one flag:           *)
(* rec.lapsed says lease_expires_at <= now for an unfinished record and    *)
(* expires_at <= now for a COMPLETED one.  reserve takes the record over   *)
(* in both cases.  The digest is left out: a key is used for one message.  *)
(***************************************************************************)
CONSTANTS NoOwner

RecordStates == {"NONE", "BUFFERED", "PROCESSING", "COMPLETED"}

Record(Owners) ==
  [state: RecordStates, owner: Owners \union {NoOwner}, lapsed: BOOLEAN]

NoRecord == [state |-> "NONE", owner |-> NoOwner, lapsed |-> FALSE]

Leased(st, w) == [state |-> st, owner |-> w, lapsed |-> FALSE]

Unfinished(rec) == rec.state \in {"BUFFERED", "PROCESSING"}

\* Variants with a defect, named for it, stand before the operator they
\* change; the properties are run against them.
ReservableIgnoringLease(rec) == rec.state # "COMPLETED" \/ rec.lapsed

ReservableAgain(rec) == ~Unfinished(rec) \/ rec.lapsed

\* The ReservationDecision of reserve(); anything else is DUPLICATE_<state>.
Reservable(rec) == rec.state = "NONE" \/ rec.lapsed

Reserved(rec, w) == IF Reservable(rec) THEN Leased("BUFFERED", w) ELSE rec

\* mark_processing() raises when the record is missing or COMPLETED, or is
\* leased by another instance; otherwise it (re)takes the lease.
MayProcess(rec, w) ==
  /\ Unfinished(rec)
  /\ rec.owner = w \/ rec.lapsed

Processing(rec, w) ==
  IF MayProcess(rec, w) THEN Leased("PROCESSING", w) ELSE rec

\* complete() is idempotent on a COMPLETED record and otherwise demands a
\* PROCESSING record of this instance; the lease deadline is not looked at.
MayComplete(rec, w) ==
  \/ rec.state = "COMPLETED"
  \/ rec.state = "PROCESSING" /\ rec.owner = w

Completed(rec, w) ==
  IF rec.state = "PROCESSING" /\ rec.owner = w
    THEN [state |-> "COMPLETED", owner |-> NoOwner, lapsed |-> FALSE]
    ELSE rec

\* abort() refuses only a PROCESSING record of another instance.  A BUFFERED
\* record is deleted whoever reserved it.
Aborted(rec, w) ==
  IF \/ rec.state = "COMPLETED"
     \/ rec.state = "PROCESSING" /\ rec.owner # w
    THEN rec
    ELSE NoRecord
=============================================================================
