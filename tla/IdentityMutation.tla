-------------------------- MODULE IdentityMutation --------------------------
(* update_profile, change_contact and set_account_enabled of domains/        *)
(* identity: the key is reserved, the Keycloak representation is read, a     *)
(* compensation job that holds it is armed, Keycloak is written, and the     *)
(* projection commit completes the job.  The three operations differ in the  *)
(* field they write and in the challenge a contact change consumes.          *)
EXTENDS IdentityStore

Contact(k) == OpOf[k] = "CONTACT"

(* _begin_authenticated_mutation: the version the client expects is the one  *)
(* the key was first used with.                                              *)
Begin(r) ==
    LET k == KeyOf[r] IN
    /\ client[r].pc = "idle" /\ r \in MutRequests /\ account.subject # 0
    /\ \/ /\ key[k].state = "COMPLETED"
          /\ Answer(r, "ok")
          /\ UNCHANGED key
       \/ /\ Reservable(k) /\ ~account.flagged
          /\ key[k].state = "LAPSED" => key[k].version = account.version
          /\ key' = Reserved(k, account.version)
          /\ Goto(r, "begun")
    /\ UNCHANGED <<challenge, sends, snapshot, user, account, job, worker, consumedBy, drift, blind, faults>>

(* _assert_contact_challenge and get_user.  A failure before the job is      *)
(* armed releases the key.                                                   *)
ReadUser(r) ==
    LET k == KeyOf[r]
        ok == (Contact(k) => Usable(UsesOf[k])) /\ user.id = account.subject IN
    /\ client[r].pc = "begun"
    /\ \/ /\ ok /\ NoFault
          /\ client' = [client EXCEPT ![r] = [pc |-> "read", user |-> user.id,
                                              seen |-> user.changes, answer |-> @.answer]]
          /\ UNCHANGED key
       \/ /\ IF ok THEN Fault ELSE NoFault
          /\ Answer(r, "error")
          /\ key' = Released(k)
    /\ UNCHANGED <<challenge, sends, snapshot, user, account, job, worker, consumedBy, drift, blind>>

(* _arm_account_compensation, and the partial unique index behind it. *)
MayArm(r) ==
    /\ account.version = key[KeyOf[r]].version
    /\ ~account.flagged
    /\ account.subject = client[r].user
    /\ \A q \in MutRequests : ~Active(q)

ArmCompensation(r) ==
    /\ client[r].pc = "read"
    /\ \/ /\ MayArm(r) /\ NoFault
          /\ job' = [job EXCEPT ![r] = [state |-> "PENDING", attempts |-> 0, due |-> FALSE,
                                        stale |-> FALSE, token |-> None,
                                        user |-> client[r].user, restore |-> client[r].seen]]
          /\ drift' = (drift \/ client[r].seen # account.changes)
          /\ Goto(r, "armed")
          /\ UNCHANGED key
       \/ /\ IF MayArm(r) THEN Fault ELSE NoFault
          /\ Answer(r, "error")
          /\ key' = Released(KeyOf[r])
          /\ UNCHANGED <<job, drift>>
    /\ UNCHANGED <<challenge, sends, snapshot, user, account, worker, consumedBy, blind>>

(* The PUT, built from the representation read before the job was armed. *)
UpdateKeycloak(r) ==
    LET put == [user EXCEPT !.changes = WithChange(client[r].seen, KeyOf[r])]
        there == user.id = client[r].user IN
    /\ client[r].pc = "armed"
    /\ drift' = (drift \/ job[r].attempts > 0)
    /\ \/ there /\ user' = put /\ NoFault /\ Goto(r, "put")
       \/ /\ IF there THEN Fault ELSE NoFault
          /\ user' \in (IF there THEN {user, put} ELSE {user})
          /\ Goto(r, "abort")
    /\ UNCHANGED <<challenge, sends, snapshot, account, job, key, worker, consumedBy, blind>>

(* _commit_profile_update, _commit_contact_change, _commit_account_status:   *)
(* the job must still be PENDING.                                            *)
MayCommit(r) ==
    /\ account.version = key[KeyOf[r]].version
    /\ Contact(KeyOf[r]) => Usable(UsesOf[KeyOf[r]])
    /\ job[r].state = "PENDING"

CommittedAccount(k) ==
    [subject |-> account.subject, changes |-> WithChange(account.changes, k),
     flagged |-> account.flagged, version |-> account.version + 1]

(* Mutant of Committed: the commit leaves the compensation job runnable. *)
CommittedLeavesJob(r) ==
    LET k == KeyOf[r] IN
    /\ account' = CommittedAccount(k)
    /\ IF Contact(k) THEN Consume(UsesOf[k], k) ELSE UNCHANGED <<challenge, consumedBy>>
    /\ key' = Completed(k)
    /\ UNCHANGED job

Committed(r) ==
    LET k == KeyOf[r] IN
    /\ account' = CommittedAccount(k)
    /\ IF Contact(k) THEN Consume(UsesOf[k], k) ELSE UNCHANGED <<challenge, consumedBy>>
    /\ job' = [job EXCEPT ![r].state = "COMPLETED"]
    /\ key' = Completed(k)

CommitMutation(r) ==
    /\ client[r].pc = "put"
    /\ drift' = (drift \/ job[r].attempts > 0)
    /\ \/ MayCommit(r) /\ Committed(r) /\ NoFault /\ Answer(r, "ok")
       \/ MayCommit(r) /\ Committed(r) /\ Fault /\ Goto(r, "abort")
       \/ /\ IF MayCommit(r) THEN Fault ELSE NoFault
          /\ Goto(r, "abort")
          /\ UNCHANGED <<account, challenge, consumedBy, job, key>>
    /\ UNCHANGED <<sends, snapshot, user, worker, blind>>

(* _queue_account_compensation: a PENDING job becomes due now. *)
QueueCompensation(r) ==
    /\ client[r].pc = "abort"
    /\ Answer(r, "error")
    /\ \/ job' = [job EXCEPT ![r].due = @ \/ job[r].state = "PENDING"] /\ NoFault
       \/ UNCHANGED job /\ Fault
    /\ UNCHANGED <<challenge, sends, snapshot, user, account, key, worker, consumedBy, drift, blind>>

MutationStep(r) ==
    Begin(r) \/ ReadUser(r) \/ ArmCompensation(r) \/ UpdateKeycloak(r)
      \/ CommitMutation(r) \/ QueueCompensation(r)
=============================================================================
