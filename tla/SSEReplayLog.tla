---------------------------- MODULE SSEReplayLog ----------------------------
(***************************************************************************)
(* The durable event log of one tenant and the transactions of             *)
(* PostgresSSEReplayLog on it (streaming/postgres_replay.py).  rows are    *)
(* the sequence numbers stored, live those with expires_at > now; the      *)
(* content of an event is left out.  append holds an advisory lock for the *)
(* tenant, so numbers are assigned one at a time.                          *)
(***************************************************************************)
EXTENDS Integers, FiniteSets, FiniteSetsExt

CONSTANTS ReplayLimit    \* max_replay_events

ASSUME ReplayAssumption == ReplayLimit \in Nat \ {0}

None == -2      \* no cursor, no row
Start == -1     \* the cursor before the first event

Latest(rows) == IF rows = {} THEN None ELSE Max(rows)

NextSequence(rows) == IF rows = {} THEN 0 ELSE Max(rows) + 1

After(S, cursor) == {n \in S : n > cursor}

Contiguous(S, cursor) == S = {} \/ S = (cursor + 1)..Max(S)

\* delete_expired spares the greatest number, from which append goes on.
Deletable(rows, live) == {n \in rows \ live : n < Max(rows)}

\* _validate_cursor, and the event budget of replay.
StaleCursor(rows, live, cursor) ==
  /\ cursor # None
  /\ \/ rows = {} \/ cursor > Latest(rows)
     \/ live # {} /\ cursor < Min(live) - 1
     \/ live = {} /\ cursor < Latest(rows)
     \/ Cardinality(After(live, cursor)) > ReplayLimit

\* The events replay returns: those after the cursor or, without one, the
\* last ReplayLimit.
Page(live, cursor) ==
  IF cursor # None THEN After(live, cursor)
  ELSE {n \in live : Cardinality(After(live, n)) < ReplayLimit}
=============================================================================
