------------------------ MODULE IdentityRegistration ------------------------
(* Verification challenges and the registration saga of domains/identity:    *)
(* a transaction that reserves the key, the creation of the Keycloak user, a *)
(* transaction that projects it, and what is left behind when one of these   *)
(* fails.  A disjunct with Fault is a call that fails; after an effect it is *)
(* an answer that is lost.                                                   *)
EXTENDS IdentityStore

(* request_challenge: a new row within the rate limit.  A request inside the *)
(* cooldown returns the latest receipt and changes nothing.                  *)
RequestChallenge(h) ==
    /\ challenge[h].state = "ABSENT"
    /\ WithinRateLimit
    /\ challenge' = [challenge EXCEPT ![h].state = "PENDING"]
    /\ sends' = sends + 1
    /\ UNCHANGED <<snapshot, user, account, job, key, client, worker, consumedBy, drift, blind, faults>>

(* verify_challenge: an expired row is marked first, whatever the code; only *)
(* a PENDING row can be verified, and too many wrong codes lock it.          *)
Verified(row, matches) ==
    CASE row.expired /\ row.state \in {"PENDING", "VERIFIED"} -> [row EXCEPT !.state = "EXPIRED"]
      [] ~row.expired /\ row.state = "PENDING" /\ matches -> [row EXCEPT !.state = "VERIFIED"]
      [] ~row.expired /\ row.state = "PENDING" /\ ~matches ->
           [state |-> IF row.tries + 1 >= MaxTries THEN "LOCKED" ELSE "PENDING",
            expired |-> FALSE, registration |-> row.registration, tries |-> row.tries + 1]
      [] OTHER -> row

VerifyChallenge(h, matches) ==
    /\ challenge' = [challenge EXCEPT ![h] = Verified(@, matches)]
    /\ challenge' # challenge
    /\ UNCHANGED <<sends, snapshot, user, account, job, key, client, worker, consumedBy, drift, blind, faults>>

ChallengeExpires(h) ==
    /\ challenge[h].state # "ABSENT" /\ ~challenge[h].expired
    /\ challenge' = [challenge EXCEPT ![h].expired = TRUE]
    /\ UNCHANGED <<sends, snapshot, user, account, job, key, client, worker, consumedBy, drift, blind, faults>>

(* _prepare_registration_transaction.  A refusal rolls the reservation back. *)
Prepare(r) ==
    LET k == KeyOf[r]  h == UsesOf[k] IN
    /\ client[r].pc = "idle" /\ OpOf[k] = "REGISTER"
    /\ \/ /\ key[k].state = "COMPLETED"
          /\ Answer(r, "ok")
          /\ UNCHANGED <<challenge, snapshot, key>>
       \/ /\ Reservable(k)
          /\ Usable(h) /\ challenge[h].registration \in {None, k}
          /\ key' = Reserved(k, 0)
          /\ challenge' = [challenge EXCEPT ![h].registration = k]
          /\ snapshot' = AppendSnapshot(k, "KEYCLOAK_PENDING")
          /\ Goto(r, "prepared")
    /\ UNCHANGED <<sends, user, account, job, worker, consumedBy, drift, blind, faults>>

(* KeycloakAdminClient.create_learner: the user of this registration is      *)
(* found or created; one that another registration owns is a 409.            *)
Created(k) == IF user.id # 0 THEN user
              ELSE [id |-> user.born + 1, owner |-> k, changes |-> {}, born |-> user.born + 1]

CreateLearner(r) ==
    LET k == KeyOf[r]  conflict == user.id # 0 /\ user.owner # k IN
    /\ client[r].pc = "prepared"
    /\ \/ /\ ~conflict /\ NoFault
          /\ user' = Created(k)
          /\ client' = [client EXCEPT ![r] = [pc |-> "created", user |-> user'.id,
                                              seen |-> @.seen, answer |-> @.answer]]
          /\ UNCHANGED key
       \/ /\ IF conflict THEN NoFault ELSE Fault
          /\ user' \in (IF conflict THEN {user} ELSE {user, Created(k)})
          /\ key' = Released(k)
          /\ Answer(r, "error")
    /\ UNCHANGED <<challenge, sends, snapshot, account, job, worker, consumedBy, drift, blind>>

(* The transaction of _finalize_registration: a completed key is replayed;   *)
(* otherwise the challenge must be VERIFIED or CONSUMED (its expiry is not   *)
(* looked at again) and no other user may have an account with this contact. *)
MayFinalize(k, uid) ==
    \/ key[k].state = "COMPLETED"
    \/ /\ challenge[UsesOf[k]].state \in {"VERIFIED", "CONSUMED"}
       /\ account.subject \in {0, uid}

ProjectRegistration(k, uid) ==
    IF key[k].state = "COMPLETED"
      THEN UNCHANGED <<account, challenge, consumedBy, snapshot, key>>
      ELSE /\ account' = NewAccount(uid)
           /\ Consume(UsesOf[k], k)
           /\ snapshot' = AppendSnapshot(k, "COMPLETED")
           /\ key' = Completed(k)

FinalizeRegistration(r) ==
    LET k == KeyOf[r]  uid == client[r].user  projected == ProjectRegistration(k, uid) IN
    /\ client[r].pc = "created"
    /\ \/ MayFinalize(k, uid) /\ projected /\ NoFault /\ Answer(r, "ok")
       \/ MayFinalize(k, uid) /\ projected /\ Fault /\ Goto(r, "failing")
       \/ /\ IF MayFinalize(k, uid) THEN Fault ELSE NoFault
          /\ Goto(r, "failing")
          /\ UNCHANGED <<account, challenge, consumedBy, snapshot, key>>
    /\ UNCHANGED <<sends, user, job, worker, drift, blind>>

(* _schedule_registration_reconciliation: nothing to do for a registration   *)
(* that is COMPLETED; else the job is inserted, or an existing one put back  *)
(* to PENDING with the attempts it has already spent.  The claim of a job    *)
(* that is RUNNING is not cleared, and the row is refused by the CHECK       *)
(* claim_ownership: that too is a failure to schedule.                       *)
MaySchedule(k) == snapshot[k] = "COMPLETED" \/ job[k].state # "RUNNING"

Scheduled(k, uid) ==
    IF snapshot[k] = "COMPLETED"
      THEN UNCHANGED <<snapshot, job>>
      ELSE /\ snapshot' = AppendSnapshot(k, "PROJECTION_PENDING")
           /\ job' = [job EXCEPT ![k] = [state |-> "PENDING", attempts |-> @.attempts,
                                         due |-> TRUE, stale |-> @.stale, token |-> @.token,
                                         user |-> uid, restore |-> @.restore]]

(* Mutant of ScheduleReconciliation: a registration found COMPLETED counts as *)
(* not scheduled.                                                             *)
ScheduleUnlessCompleted(r) ==
    LET k == KeyOf[r]  uid == client[r].user IN
    /\ client[r].pc = "failing"
    /\ \/ snapshot[k] # "COMPLETED" /\ MaySchedule(k) /\ Scheduled(k, uid) /\ NoFault
          /\ Answer(r, "error")
       \/ snapshot[k] = "COMPLETED" /\ UNCHANGED <<snapshot, job>> /\ NoFault /\ Goto(r, "undo")
    /\ UNCHANGED <<challenge, sends, user, account, key, worker, consumedBy, drift, blind>>

ScheduleReconciliation(r) ==
    LET k == KeyOf[r]  uid == client[r].user IN
    /\ client[r].pc = "failing"
    /\ \/ MaySchedule(k) /\ Scheduled(k, uid) /\ NoFault /\ Answer(r, "error") /\ UNCHANGED blind
       \/ MaySchedule(k) /\ Scheduled(k, uid) /\ Fault /\ Goto(r, "undo") /\ blind' = TRUE
       \/ /\ UNCHANGED <<snapshot, job>>
          /\ IF MaySchedule(k) THEN Fault ELSE NoFault
          /\ Goto(r, "undo") /\ blind' = TRUE
    /\ UNCHANGED <<challenge, sends, user, account, key, worker, consumedBy, drift>>

(* delete_user, whose failure is only logged, and the release of the key. *)
UndoRegistration(r) ==
    LET gone == IF user.id = client[r].user
                  THEN [id |-> 0, owner |-> None, changes |-> {}, born |-> user.born] ELSE user IN
    /\ client[r].pc = "undo"
    /\ \/ user' = gone /\ NoFault
       \/ user' = user /\ Fault
    /\ key' = Released(KeyOf[r])
    /\ Answer(r, "error")
    /\ UNCHANGED <<challenge, sends, snapshot, account, job, worker, consumedBy, drift, blind>>

(* _ensure_account_projection: the first authenticated request of a user     *)
(* that has no account projects what Keycloak shows.                         *)
EnsureAccountProjection ==
    /\ user.id # 0 /\ account.subject = 0
    /\ account' = [subject |-> user.id, changes |-> user.changes,
                   flagged |-> account.flagged, version |-> account.version]
    /\ UNCHANGED <<challenge, sends, snapshot, user, job, key, client, worker, consumedBy, drift, blind, faults>>

RegistrationStep(r) ==
    Prepare(r) \/ CreateLearner(r) \/ FinalizeRegistration(r)
      \/ ScheduleReconciliation(r) \/ UndoRegistration(r)
=============================================================================
