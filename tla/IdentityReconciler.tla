------------------------- MODULE IdentityReconciler -------------------------
(* The reconciliation worker of domains/identity: jobs are claimed under a   *)
(* lease with a fresh token, carried out one after the other, and finished   *)
(* only by the holder of the token.                                          *)
EXTENDS IdentityRegistration

(* Mutant of Claimable: claims are ownership, not leases. *)
ClaimablePendingOnly(j) ==
    job[j].state = "PENDING" /\ job[j].due /\ job[j].attempts < MaxAttempts

Claimable(j) ==
    \/ job[j].state = "PENDING" /\ job[j].due /\ job[j].attempts < MaxAttempts
    \/ job[j].state = "RUNNING" /\ job[j].stale

ClaimedJob(row, w) ==
    [state |-> "RUNNING",
     attempts |-> IF row.attempts >= MaxAttempts THEN row.attempts ELSE row.attempts + 1,
     due |-> row.due, stale |-> FALSE, token |-> w, user |-> row.user, restore |-> row.restore]

(* The claim transaction of _reconcile_tenant.  A worker holds a claim until *)
(* it has processed it, so its own name serves as the claim token.  A job    *)
(* whose attempts are spent is claimed only to be failed.                    *)
Claim(w) ==
    LET batch == {j \in JobIds : Claimable(j)}
        spent == {j \in batch : job[j].attempts >= MaxAttempts} IN
    /\ worker[w].holds = {} /\ worker[w].at = None /\ batch # {}
    /\ job' = [j \in JobIds |-> IF j \in batch THEN ClaimedJob(job[j], w) ELSE job[j]]
    /\ worker' = [worker EXCEPT ![w] = [holds |-> batch, spent |-> spent, at |-> @.at,
                                        ok |-> @.ok]]
    /\ UNCHANGED <<challenge, sends, snapshot, user, account, key, client, consumedBy, drift, blind, faults>>

(* Mutant of Mine: the finishing transaction ignores the claim. *)
MineAlways(w, j) == job[j].state # None

(* The claim is still the worker's: what the finishing transaction compares. *)
Mine(w, j) == job[j].state = "RUNNING" /\ job[j].token = w

Processed(w, j, ok) ==
    worker' = [worker EXCEPT ![w] = [holds |-> @.holds \ {j}, spent |-> @.spent \ {j},
                                     at |-> j, ok |-> ok]]

(* Carrying a claimed job out: FINALIZE_PROJECTION reads the user the job    *)
(* names and repeats the finalize transaction; the compensations put back    *)
(* the representation the job holds.                                         *)
FinalizeProjection(w, g) ==
    LET ok == user.id = job[g].user /\ user.id # 0 /\ MayFinalize(g, user.id)
        projected == ProjectRegistration(g, user.id) IN
    /\ g \in worker[w].holds \ worker[w].spent /\ g \in RegKeys
    /\ \/ ok /\ projected /\ NoFault /\ Processed(w, g, TRUE)
       \/ ok /\ projected /\ Fault /\ Processed(w, g, FALSE)
       \/ /\ IF ok THEN Fault ELSE NoFault
          /\ Processed(w, g, FALSE)
          /\ UNCHANGED <<account, challenge, consumedBy, snapshot, key>>
    /\ UNCHANGED <<sends, user, job, client, drift, blind>>

RestoreUser(w, m) ==
    LET there == user.id = job[m].user IN
    /\ m \in worker[w].holds \ worker[w].spent /\ m \in MutRequests
    /\ drift' = (drift \/ job[m].state # "RUNNING" \/ job[m].token # w)
    /\ \/ there /\ user' = Restored(m) /\ NoFault /\ Processed(w, m, TRUE)
       \/ /\ IF there THEN Fault ELSE NoFault
          /\ user' \in (IF there THEN {user, Restored(m)} ELSE {user})
          /\ Processed(w, m, FALSE)
    /\ UNCHANGED <<challenge, sends, snapshot, account, job, key, client, consumedBy, blind>>

SkipSpent(w, j) ==
    /\ j \in worker[w].spent
    /\ Processed(w, j, FALSE)
    /\ UNCHANGED <<challenge, sends, snapshot, user, account, job, key, client, consumedBy, drift, blind, faults>>

(* _finish_reconciliation_job: nothing happens unless the job is RUNNING     *)
(* under this claim.  A compensation that ends releases the key of its       *)
(* request; one that is exhausted flags the account for an operator.         *)
FinishJob(w) ==
    LET j == worker[w].at
        mine == Mine(w, j)
        exhausted == ~worker[w].ok /\ job[j].attempts >= MaxAttempts
        ended == IF worker[w].ok THEN "COMPLETED"
                 ELSE IF exhausted THEN "FAILED" ELSE "PENDING"
        flags == mine /\ exhausted /\ j \in MutRequests /\ ~account.flagged IN
    /\ j # None
    /\ worker' = [worker EXCEPT ![w].at = None]
    /\ job' = IF mine
              THEN [job EXCEPT ![j] = [state |-> ended, attempts |-> @.attempts,
                                       due |-> @.due /\ worker[w].ok, stale |-> @.stale,
                                       token |-> None, user |-> @.user, restore |-> @.restore]]
              ELSE job
    /\ key' = IF mine /\ worker[w].ok /\ j \in MutRequests THEN Released(KeyOf[j]) ELSE key
    /\ account' = IF flags THEN [subject |-> account.subject, changes |-> account.changes,
                                 flagged |-> TRUE, version |-> account.version + 1]
                  ELSE account
    /\ UNCHANGED <<challenge, sends, snapshot, user, client, consumedBy, drift, blind, faults>>

WorkerStep(w) ==
    \/ Claim(w) \/ FinishJob(w)
    \/ worker[w].at = None /\ \E j \in JobIds :
         FinalizeProjection(w, j) \/ RestoreUser(w, j) \/ SkipSpent(w, j)
=============================================================================
