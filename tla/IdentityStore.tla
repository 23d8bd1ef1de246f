--------------------------- MODULE IdentityStore ---------------------------
(* The tables of domains/identity, the identity provider (Keycloak) and the  *)
(* transaction helpers that the registration saga, the account mutations and *)
(* the reconciler share.                                                     *)
(*                                                                           *)
(* One identifier, hence at most one Keycloak user and one account.  The     *)
(* representation of the user is the set of mutation keys whose change it    *)
(* shows; the projection keeps the same set, so the two agree exactly when   *)
(* the sets are equal.  Instants are flags set by timer steps: a lease that  *)
(* lapsed, a job that is due, a challenge that expired.                      *)
EXTENDS Naturals, FiniteSets

CONSTANTS Requests,      \* client requests; two of them may carry one key
          Keys,          \* idempotency keys
          KeyOf,         \* the key a request carries
          OpOf,          \* what a key asks for: REGISTER, PROFILE, CONTACT, STATUS
          Challenges,    \* challenge rows that may be created
          UsesOf,        \* the challenge a key names (REGISTER and CONTACT)
          Workers,       \* reconciliation workers
          MaxAttempts,   \* reconciliation attempts before a job is FAILED
          MaxTries,      \* wrong codes before a challenge is LOCKED
          MaxSends,      \* challenges per rate-limit window
          MaxFaults,     \* bound on failures, lost answers, crashes, early timers
          Worlds         \* the sets of requests that run together, with the faults
                         \* that may then happen

(* A request names a challenge of its own purpose: one for a registration is *)
(* never used for a contact change.                                          *)
ASSUME IdentityAssumption ==
    /\ KeyOf \in [Requests -> Keys]
    /\ OpOf \in [Keys -> {"REGISTER", "PROFILE", "CONTACT", "STATUS"}]
    /\ UsesOf \in [Keys -> Challenges]
    /\ Keys \cap Requests = {} /\ "NONE" \notin Keys \cup Requests \cup Workers
    /\ \A g, c \in Keys : OpOf[g] = "REGISTER" /\ OpOf[c] = "CONTACT" => UsesOf[g] # UsesOf[c]
    /\ {MaxAttempts, MaxTries, MaxSends} \subseteq Nat \ {0}
    /\ MaxFaults \in Nat
    /\ Worlds \subseteq [requests : SUBSET Requests, budget : 0..MaxFaults]

VARIABLES challenge,     \* verification challenges
          sends,         \* requests counted in the rate-limit window
          snapshot,      \* latest registration snapshot of a key
          user,          \* the Keycloak user: its id (0: none), the registration that
                         \* created it, the changes it shows; born counts the ids
          account,       \* the projection, bound to the user id it was made for
          job,           \* reconciliation jobs, by registration key or by request
          key,           \* idempotency records
          client,        \* the requests' control state
          worker,        \* the jobs a worker holds
          consumedBy,    \* history: what each challenge was consumed for
          drift,         \* history: a mutation was built on a representation that
                         \* was not the projection's or outlived its own job,
                         \* or a worker restored under a lost claim
          blind,         \* history: scheduling a reconciliation failed as well
          faults

vars == <<challenge, sends, snapshot, user, account, job, key, client, worker,
          consumedBy, drift, blind, faults>>

RegKeys == {k \in Keys : OpOf[k] = "REGISTER"}
MutRequests == {r \in Requests : OpOf[KeyOf[r]] # "REGISTER"}
JobIds == RegKeys \cup MutRequests
None == "NONE"

NoJob == [state |-> None, attempts |-> 0, due |-> FALSE, stale |-> FALSE,
          token |-> None, user |-> 0, restore |-> {}]

Active(j) == job[j].state \in {"PENDING", "RUNNING"}

(* A failure the environment injects: a call that fails, an answer that is   *)
(* lost, a crash, a timer that fires on a process still at work.             *)
Fault == faults < MaxFaults /\ faults' = faults + 1
NoFault == UNCHANGED faults

Running(r) == client[r].pc \notin {"off", "idle", "done", "crashed"}

(* _reserve_idempotency: absent or lapsed keys are taken; a live lease       *)
(* refuses and a COMPLETED key replays its result.                           *)
Reservable(k) == key[k].state \in {"ABSENT", "LAPSED"}
Reserved(k, version) ==
    [key EXCEPT ![k] = [state |-> "HELD",
                        version |-> IF @.state = "ABSENT" THEN version ELSE @.version]]

(* Mutant of Released: a COMPLETED key is released as well. *)
ReleasedAlways(k) == [key EXCEPT ![k].state = "LAPSED"]

(* _complete_idempotency and _release_idempotency_in_transaction. *)
Completed(k) == [key EXCEPT ![k].state = "COMPLETED"]
Released(k) == [key EXCEPT ![k].state = IF @ = "COMPLETED" THEN @ ELSE "LAPSED"]

(* _enforce_rate_limits: a challenge is sent only within the window's limit. *)
WithinRateLimit == sends < MaxSends

Goto(r, pc) == client' = [client EXCEPT ![r].pc = pc]
Answer(r, a) ==
    client' = [client EXCEPT ![r] = [pc |-> "done", user |-> @.user, seen |-> @.seen,
                                     answer |-> a]]

(* A verified challenge that a request may still be based on. *)
Usable(h) == challenge[h].state = "VERIFIED" /\ ~challenge[h].expired

Consume(h, k) ==
    /\ challenge' = [challenge EXCEPT ![h].state = "CONSUMED"]
    /\ consumedBy' = [consumedBy EXCEPT ![h] = @ \cup {k}]

AppendSnapshot(k, state) == [snapshot EXCEPT ![k] = state]

(* The account of a user, made when the identifier has none. *)
NewAccount(uid) == IF account.subject = uid THEN account ELSE [account EXCEPT !.subject = uid]

(* The representation kept, encrypted, in a compensation job. *)
Restored(m) == [user EXCEPT !.changes = job[m].restore]

(* The document a PUT carries: the representation it was built from with the *)
(* one field of the operation replaced (_user_update_document).              *)
WithChange(changes, k) == {d \in changes : OpOf[d] # OpOf[k]} \cup {k}

(* The rows, as the schema and its CHECK constraints admit them. *)
ChallengeRow ==
    [state : {"ABSENT", "PENDING", "VERIFIED", "CONSUMED", "EXPIRED", "LOCKED"},
     expired : BOOLEAN, registration : RegKeys \cup {None}, tries : 0..MaxTries]

SnapshotStates == {None, "KEYCLOAK_PENDING", "PROJECTION_PENDING", "COMPLETED"}

AccountRow == [subject : Nat, changes : SUBSET Keys, flagged : BOOLEAN, version : Nat]

UserRow == [id : Nat, owner : RegKeys \cup {None}, changes : SUBSET Keys, born : Nat]

(* A RUNNING job is held under the token of its worker, and only then. *)
JobRow ==
    {j \in [state : {None, "PENDING", "RUNNING", "COMPLETED", "FAILED"},
            attempts : 0..MaxAttempts, due : BOOLEAN, stale : BOOLEAN,
            token : Workers \cup {None}, user : Nat, restore : SUBSET Keys] :
       (j.state = "RUNNING") = (j.token # None)}

KeyRow == [state : {"ABSENT", "HELD", "LAPSED", "COMPLETED"}, version : Nat]

Places == {"off", "idle", "done", "crashed", "prepared", "created", "failing",
           "undo", "begun", "read", "armed", "put", "abort"}

ClientRow == [pc : Places, user : Nat, seen : SUBSET Keys, answer : {None, "ok", "error"}]

WorkerRow == [holds : SUBSET JobIds, spent : SUBSET JobIds, at : JobIds \cup {None},
              ok : BOOLEAN]

StoreTypeOK ==
    /\ challenge \in [Challenges -> ChallengeRow]
    /\ sends \in 0..MaxSends
    /\ snapshot \in [RegKeys -> SnapshotStates]
    /\ user \in UserRow
    /\ account \in AccountRow
    /\ \A j \in JobIds : job[j] \in JobRow
    /\ key \in [Keys -> KeyRow]
    /\ client \in [Requests -> ClientRow]
    /\ worker \in [Workers -> WorkerRow]
    /\ consumedBy \in [Challenges -> SUBSET Keys]
=============================================================================
