------------------------------ MODULE Identity ------------------------------
(* The identity runtime: challenges, registrations, account mutations and    *)
(* the reconciler over one database and one Keycloak realm, with crashes,    *)
(* lost answers, leases that lapse and timers that fire early.               *)
EXTENDS IdentityMutation, IdentityReconciler

(* The challenges some request of a world names; the others are old rows. *)
Named(world) ==
    {UsesOf[KeyOf[r]] : r \in {q \in world : OpOf[KeyOf[q]] \in {"REGISTER", "CONTACT"}}}

(* The two starting points: nobody is registered, or (when no request of the *)
(* world registers) an account that was registered earlier exists.           *)
Init ==
    \E chosen \in Worlds :
      LET world == chosen.requests
          fresh == \E r \in world : OpOf[KeyOf[r]] = "REGISTER" IN
      /\ challenge = [h \in Challenges |->
           [state |-> IF h \in Named(world) THEN "ABSENT" ELSE "EXPIRED",
            expired |-> h \notin Named(world), registration |-> None, tries |-> 0]]
      /\ sends = 0
      /\ snapshot = [k \in RegKeys |-> None]
      /\ user = [id |-> IF fresh THEN 0 ELSE 1, owner |-> None, changes |-> {},
                 born |-> IF fresh THEN 0 ELSE 1]
      /\ account = [subject |-> IF fresh THEN 0 ELSE 1, changes |-> {},
                    flagged |-> FALSE, version |-> 1]
      /\ job = [j \in JobIds |-> NoJob]
      /\ key = [k \in Keys |-> [state |-> "ABSENT", version |-> 0]]
      /\ client = [r \in Requests |-> [pc |-> IF r \in world THEN "idle" ELSE "off",
                                       user |-> 0, seen |-> {}, answer |-> None]]
      /\ worker = [w \in Workers |-> [holds |-> {}, spent |-> {}, at |-> None, ok |-> FALSE]]
      /\ consumedBy = [h \in Challenges |-> {}]
      /\ drift = FALSE
      /\ blind = FALSE
      /\ faults = MaxFaults - chosen.budget

(* The process serving a request dies; its transactions and calls so far     *)
(* stay, the rest never happens.                                             *)
CrashRequest(r) ==
    /\ Running(r) /\ Fault
    /\ Goto(r, "crashed")
    /\ UNCHANGED <<challenge, sends, snapshot, user, account, job, key, worker, consumedBy, drift, blind>>

(* A worker dies, or a transaction of its cycle fails and the cycle is       *)
(* abandoned: the jobs it held stay RUNNING until their lease is over.       *)
CycleAborts(w) ==
    /\ worker[w].holds # {} \/ worker[w].at # None
    /\ Fault
    /\ worker' = [worker EXCEPT ![w] = [holds |-> {}, spent |-> {}, at |-> None, ok |-> @.ok]]
    /\ UNCHANGED <<challenge, sends, snapshot, user, account, job, key, client, consumedBy, drift, blind>>

KeyLapses(k) ==
    /\ key[k].state = "HELD"
    /\ IF \E r \in Requests : KeyOf[r] = k /\ Running(r) THEN Fault ELSE NoFault
    /\ key' = [key EXCEPT ![k].state = "LAPSED"]
    /\ UNCHANGED <<challenge, sends, snapshot, user, account, job, client, worker, consumedBy, drift, blind>>

(* next_attempt_at passes.  For an armed mutation that is after three Keycloak *)
(* timeouts, when its request has normally ended.                              *)
JobDue(j) ==
    /\ job[j].state = "PENDING" /\ ~job[j].due
    /\ IF j \in MutRequests /\ Running(j) THEN Fault ELSE NoFault
    /\ job' = [job EXCEPT ![j].due = TRUE]
    /\ UNCHANGED <<challenge, sends, snapshot, user, account, key, client, worker, consumedBy, drift, blind>>

ClaimLapses(j) ==
    /\ job[j].state = "RUNNING" /\ ~job[j].stale
    /\ IF \E w \in Workers : job[j].token = w /\ (j \in worker[w].holds \/ worker[w].at = j)
         THEN Fault ELSE NoFault
    /\ job' = [job EXCEPT ![j].stale = TRUE]
    /\ UNCHANGED <<challenge, sends, snapshot, user, account, key, client, worker, consumedBy, drift, blind>>

Timer == (\E k \in Keys : KeyLapses(k)) \/ (\E j \in JobIds : JobDue(j) \/ ClaimLapses(j))

Next ==
    \/ \E r \in Requests : RegistrationStep(r) \/ MutationStep(r) \/ CrashRequest(r)
    \/ \E w \in Workers : WorkerStep(w) \/ CycleAborts(w)
    \/ \E h \in Challenges : RequestChallenge(h) \/ ChallengeExpires(h)
         \/ \E matches \in BOOLEAN : VerifyChallenge(h, matches)
    \/ EnsureAccountProjection
    \/ Timer

(* The worker runs its cycle again and again and leases are wall-clock time; *)
(* a request that was started runs to its end or to a crash.                 *)
Fairness ==
    /\ \A w \in Workers : WF_vars(WorkerStep(w))
    /\ \A r \in Requests : WF_vars(Running(r) /\ (RegistrationStep(r) \/ MutationStep(r)))
    /\ WF_vars(\E j \in JobIds : JobDue(j))
    /\ WF_vars(\E j \in JobIds : ClaimLapses(j))

Spec == Init /\ [][Next]_vars /\ Fairness

TypeOK == StoreTypeOK /\ {drift, blind} \subseteq BOOLEAN /\ faults \in 0..MaxFaults

(* A registration recorded as COMPLETED has its Keycloak user and its        *)
(* account, bound to each other, whatever the order in which a retried       *)
(* request, a slow first request, the reconciler and the compensating        *)
(* deletion ran, unless the deletion ran because even scheduling the         *)
(* reconciliation had failed.                                                *)
CompletedHasUser ==
    \A k \in RegKeys : snapshot[k] = "COMPLETED" /\ ~blind =>
        /\ user.id # 0 /\ account.subject = user.id /\ user.owner = k
        /\ consumedBy[UsesOf[k]] = {k}

(* The profile version counts the committed mutations, one per key, plus the *)
(* flag of an exhausted compensation: a retried key, a second request that   *)
(* took over a lapsed lease, or a commit whose answer was lost is applied    *)
(* once, and a request that was told "ok" is among those counted.            *)
CommittedOncePerKey ==
    LET mutations == {k \in Keys \ RegKeys : key[k].state = "COMPLETED"} IN
    /\ account.version = 1 + Cardinality(mutations) + (IF account.flagged THEN 1 ELSE 0)
    /\ \A r \in Requests : client[r].answer = "ok" => key[KeyOf[r]].state = "COMPLETED"
    /\ \A h \in Challenges : Cardinality(consumedBy[h]) <= 1

(* When no compensation is outstanding and the account is not flagged,       *)
(* Keycloak shows exactly what the projection has committed, unless a        *)
(* mutation was armed with a representation that another one had already     *)
(* changed or outlived its own job, or a worker restored after its claim had *)
(* been taken over.                                                          *)
SettledAgree ==
    (/\ \A m \in MutRequests : ~Active(m) /\ client[m].pc # "put"
     /\ user.id # 0 /\ account.subject = user.id /\ ~account.flagged /\ ~drift)
    => user.changes = account.changes

(* A compensation job that ended stays as it ended: a worker whose claim was *)
(* taken over, or a request that commits late, cannot reopen it or turn a    *)
(* restored mutation into a committed one.                                   *)
EndedJobStands ==
    [][\A m \in MutRequests : job[m].state \in {"COMPLETED", "FAILED"} =>
         /\ job'[m] = job[m]
         /\ job[m].state = "FAILED" => account'.flagged]_vars

(* Every armed compensation ends: it is committed, restored, or given up     *)
(* with the account flagged, also after crashes of the request and of the    *)
(* workers.                                                                  *)
CompensationSettles ==
    \A m \in MutRequests : Active(m) ~> job[m].state \in {"COMPLETED", "FAILED"}

-----------------------------------------------------------------------------
(* The inductive invariant behind these properties.                          *)

Registering == {"prepared", "created", "failing", "undo"}
Mutating == {"begun", "read", "armed", "put", "abort"}

(* A job that a worker holds or is about to finish was scheduled; the        *)
(* attempts are charged with the claim.                                      *)
WorkHolds ==
    /\ job = [j \in JobIds |-> job[j]]
    /\ \A j \in JobIds : job[j].state = "RUNNING" => job[j].attempts > 0
    /\ \A h \in Challenges :
         challenge[h].state \in {"ABSENT", "PENDING"} => challenge[h].tries < MaxTries
    /\ \A r \in Requests :
         /\ client[r].pc \in Registering => r \notin MutRequests
         /\ client[r].pc \in Mutating => r \in MutRequests
    /\ \A w \in Workers, j \in JobIds :
         j \in worker[w].holds \cup worker[w].spent \/ worker[w].at = j => job[j].state # None

(* The version has moved past every version a committed key was used with,   *)
(* so that no second commit under a key finds the version it expects.        *)
Mutated == {k \in Keys \ RegKeys : key[k].state = "COMPLETED"}

VersionCounts ==
    /\ IsFiniteSet(Mutated)
    /\ account.version = 1 + Cardinality(Mutated) + (IF account.flagged THEN 1 ELSE 0)
    /\ \A k \in Mutated : key[k].version < account.version
    /\ \A r \in Requests : client[r].answer = "ok" => key[KeyOf[r]].state = "COMPLETED"

(* A challenge for registrations is bound to the first that uses it, which   *)
(* may consume it again; one for a contact change is consumed once.          *)
ForRegistration == {UsesOf[k] : k \in RegKeys}

BoundTo(k) == challenge[UsesOf[k]].registration = k

ChallengesBound ==
    /\ \A r \in Requests : client[r].pc \in Registering => BoundTo(KeyOf[r])
    /\ \A k \in RegKeys : job[k].state # None => BoundTo(k)
    /\ \A k \in RegKeys : snapshot[k] = "COMPLETED" => consumedBy[UsesOf[k]] = {k}
    /\ \A h \in ForRegistration : consumedBy[h] \subseteq {challenge[h].registration}
    /\ \A h \in Challenges \ ForRegistration :
         \/ consumedBy[h] = {}
         \/ challenge[h].state = "CONSUMED" /\ \E k \in Keys : consumedBy[h] = {k}

(* As long as no scheduling failed, no user is deleted: the one there is     *)
(* belongs to every registration that goes on.                               *)
Owns(k, uid) == user.id # 0 /\ user.id = uid /\ user.owner = k

UserStands ==
    /\ \A r \in Requests : client[r].pc = "undo" => blind
    /\ ~blind =>
         /\ \A r \in Requests :
              client[r].pc \in {"created", "failing"} => Owns(KeyOf[r], client[r].user)
         /\ \A k \in RegKeys : job[k].state # None => Owns(k, job[k].user)
         /\ \A k \in RegKeys : snapshot[k] = "COMPLETED" => Owns(k, account.subject)

(* A mutation has its job from arming on, one is active at a time, and a     *)
(* mutation whose job no worker has touched is still its only actor.         *)
Untouched(m, pcs) == client[m].pc \in pcs /\ job[m].attempts = 0

JobsHold ==
    /\ \A m \in MutRequests :
         /\ client[m].pc \in {"off", "idle", "begun", "read"} => job[m].state = None
         /\ job[m].state = "FAILED" => account.flagged
         /\ Untouched(m, {"armed", "put"}) => job[m].state = "PENDING"
    /\ \A m, q \in MutRequests : Active(m) /\ Active(q) => m = q
    /\ account.subject <= user.born /\ user.id <= user.born
    /\ \A r \in Requests : client[r].user <= user.born
    /\ account.subject = 0 =>
         /\ account.changes = {} /\ user.changes = {}
         /\ \A m \in MutRequests : job[m].state = None /\ client[m].pc \notin Mutating

(* Without drift, an active job can restore what the projection shows, and   *)
(* the representation is what the projection shows unless one is active.     *)
ChangesAgree ==
    user.id # 0 /\ account.subject = user.id /\ ~drift =>
      /\ (\A m \in MutRequests : ~Active(m)) /\ ~account.flagged
           => user.changes = account.changes
      /\ \A m \in MutRequests :
           /\ Active(m) => job[m].restore = account.changes
           /\ Untouched(m, {"armed"}) => client[m].seen = account.changes
           /\ Untouched(m, {"put"}) => user.changes = WithChange(account.changes, KeyOf[m])
           /\ \A w \in Workers : worker[w].at = m /\ worker[w].ok /\ Mine(w, m)
                => user.changes = account.changes

IdentityInv ==
    TypeOK /\ WorkHolds /\ VersionCounts /\ ChallengesBound /\ UserStands
      /\ JobsHold /\ ChangesAgree

=============================================================================
