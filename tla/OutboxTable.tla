----------------------------- MODULE OutboxTable -----------------------------
(***************************************************************************)
(* One row of the outbox table and the transactions that                   *)
(* PostgresOutboxDispatcherRepository runs on it (persistence/             *)
(* postgres_outbox_dispatcher.py).  The claim deadline is abstracted to    *)
(* row.lapsed: claim_expires_at <= now.                                    *)
(***************************************************************************)
EXTENDS Integers

CONSTANTS NoWorker,      \* claimed_by IS NULL
          MaxAttempts    \* max_attempts of every row (3 by default)

ASSUME MaxAttemptsAssumption == MaxAttempts \in Nat \ {0}

RowStates == {"ABSENT", "PENDING", "CLAIMED", "PUBLISHED", "DEAD"}

Row(Workers) ==
  [state: RowStates, owner: Workers \union {NoWorker},
   attempts: 0..MaxAttempts, lapsed: BOOLEAN]

\* The row before the business transaction that appends it has committed.
AbsentRow ==
  [state |-> "ABSENT", owner |-> NoWorker, attempts |-> 0, lapsed |-> FALSE]

Appended ==
  [state |-> "PENDING", owner |-> NoWorker, attempts |-> 0, lapsed |-> FALSE]

\* claimed_by = NULL, with the state a row falls back to: DEAD once the
\* attempts are used up.
Unclaimed(attempts) ==
  [state |-> IF attempts >= MaxAttempts THEN "DEAD" ELSE "PENDING",
   owner |-> NoWorker, attempts |-> attempts, lapsed |-> FALSE]

ClaimedBy(row, w) == row.state = "CLAIMED" /\ row.owner = w

\* Variants with a defect, named for it, stand before the operator they
\* change; the properties are run against them.
RecoveredOnlyFresh(row) ==
  IF row.state = "CLAIMED" /\ row.lapsed /\ row.attempts = 0
    THEN Unclaimed(row.attempts) ELSE row

\* _recover_expired_claims: an abandoned attempt stays charged.
Recovered(row) ==
  IF row.state = "CLAIMED" /\ row.lapsed THEN Unclaimed(row.attempts) ELSE row

Claimable(row) == row.state = "PENDING" /\ row.attempts < MaxAttempts

Claimed(row, w) ==
  [state |-> "CLAIMED", owner |-> w, attempts |-> row.attempts + 1,
   lapsed |-> FALSE]

\* renew_claims updates the rows still claimed by the worker, then raises if
\* it did not find all of them.
Renewed(row, w) ==
  IF ClaimedBy(row, w) THEN [row EXCEPT !.lapsed = FALSE] ELSE row

\* mark_published compares claimed_by only, not claim_expires_at.
Published(row, w) ==
  IF ClaimedBy(row, w)
    THEN [state |-> "PUBLISHED", owner |-> NoWorker,
          attempts |-> row.attempts, lapsed |-> FALSE]
    ELSE row

ReleasedUnchecked(row, w, back) ==
  Unclaimed(IF row.attempts > back THEN row.attempts - back ELSE 0)

ReleasedAlwaysRestored(row, w, back) ==
  IF ClaimedBy(row, w) THEN Unclaimed(row.attempts - 1) ELSE row

\* release_claim; back is 1 with restore_attempt, which gives the attempt of
\* this claim back, and 0 without.
Released(row, w, back) ==
  IF ClaimedBy(row, w)
    THEN Unclaimed(IF row.attempts > back THEN row.attempts - back ELSE 0)
    ELSE row

IsSettledCursor(rows, c) ==
  LET settled == {"PUBLISHED", "DEAD"}
  IN  /\ \A n \in DOMAIN rows : rows[n].state \in settled => n < c
      /\ c = 0 \/ (c - 1 \in DOMAIN rows /\ rows[c - 1].state \in settled)

\* max(sequence) + 1 over the PUBLISHED rows of a partition, or 0: the least
\* number above them all.
IsPublishedCursor(rows, c) ==
  /\ \A n \in DOMAIN rows : rows[n].state = "PUBLISHED" => n < c
  /\ c = 0 \/ (c - 1 \in DOMAIN rows /\ rows[c - 1].state = "PUBLISHED")

\* The claim of claim_batch in one partition: the first k rows of the run of
\* claimable rows that starts at the published cursor c.
ClaimedRun(rows, c, k, w) ==
  [n \in DOMAIN rows |-> IF n \in c..(c + k - 1) THEN Claimed(rows[n], w)
                                                 ELSE rows[n]]

MayClaimRun(rows, c, k) ==
  \A n \in c..(c + k - 1) : n \in DOMAIN rows /\ Claimable(rows[n])
=============================================================================
