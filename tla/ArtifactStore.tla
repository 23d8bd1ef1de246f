--------------------------- MODULE ArtifactStore ---------------------------
(***************************************************************************)
(* The immutable object store (filesystem_artifacts.py) and the table of   *)
(* registered artifacts (postgres_artifacts.py), as operators on           *)
(*                                                                         *)
(*   objects    the files: from object keys to their content               *)
(*   artifacts  the rows: records of an object key, the digest registered  *)
(*              for it and the status of the row                           *)
(*                                                                         *)
(* A digest stands for the content it was taken of.  An object is written  *)
(* before and outside the transaction that registers it, so a crash or a   *)
(* refused transaction leaves an object without a row.                     *)
(***************************************************************************)
EXTENDS Naturals, Sequences, FiniteSets, TLC

\* A table with a row, or a directory with a file, under key.
With(table, key, value) ==
  [k \in DOMAIN table \union {key} |-> IF k = key THEN value ELSE table[k]]

ArtifactStatus == {"STAGED", "VERIFIED", "PUBLISHED", "REJECTED", "SUPERSEDED", "DELETED"}

ALLOWED_STATUS_TRANSITIONS ==
  {<<"STAGED", "VERIFIED">>, <<"STAGED", "REJECTED">>, <<"VERIFIED", "PUBLISHED">>,
   <<"VERIFIED", "REJECTED">>, <<"PUBLISHED", "SUPERSEDED">>, <<"REJECTED", "DELETED">>,
   <<"SUPERSEDED", "DELETED">>}

PutAlways(objects, key, content) == TRUE

\* put: an existing object is never replaced; the same content again is accepted.
PutAccepted(objects, key, content) ==
  key \in DOMAIN objects => objects[key] = content

PutAtomic(objects, key, content) == With(objects, key, content)

\* read: the digest the caller expects decides.
ReadVerified(objects, key, sha) ==
  key \in DOMAIN objects /\ objects[key] = sha

\* add and transition_status: a new row is STAGED and its object key unique.
MayRegister(artifacts, refs) ==
  \A ref \in refs : \A row \in artifacts : row.key # ref.key

Add(artifacts, refs) ==
  artifacts \union {[key |-> ref.key, sha |-> ref.sha, status |-> "STAGED"] : ref \in refs}

Transition(artifacts, refs, from, to) ==
  LET moved == {row \in artifacts :
                  row.status = from /\ \E ref \in refs : ref.key = row.key}
  IN  IF <<from, to>> \in ALLOWED_STATUS_TRANSITIONS
      THEN (artifacts \ moved) \union {[row EXCEPT !.status = to] : row \in moved}
      ELSE artifacts

\* KnowledgeArtifactWriter.register_verified.
RegisterVerified(artifacts, refs) ==
  Transition(Add(artifacts, refs), refs, "STAGED", "VERIFIED")

=============================================================================
