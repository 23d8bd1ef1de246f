--------------------------- MODULE IdentityProofs ---------------------------
(* Theorems about Identity, for any requests, keys, challenges, workers,     *)
(* attempts, limits, worlds and faults.                                      *)
(*                                                                           *)
(* The invariant IdentityInv is shown step by step.  First the effect of     *)
(* each transaction helper on the rows it changes (...Does); then, for each  *)
(* part of the invariant, what a step must leave alone for it to stand       *)
(* (...Kept); then each action, from the two (...Keeps).                     *)
EXTENDS Identity, FiniteSetTheorems, TLAPS

-----------------------------------------------------------------------------
\* Types

\* What a request carries, and the two kinds of jobs.
LEMMA Sorts ==
  /\ \A r \in Requests : KeyOf[r] \in Keys /\ UsesOf[KeyOf[r]] \in Challenges
  /\ \A r \in Requests : r \in MutRequests \/ KeyOf[r] \in RegKeys
  /\ \A k \in RegKeys : k \in Keys /\ k \in JobIds /\ k \notin MutRequests
                        /\ UsesOf[k] \in Challenges
  /\ \A m \in MutRequests : m \in Requests /\ m \in JobIds /\ m \notin RegKeys
                            /\ KeyOf[m] \in Keys \ RegKeys
  /\ None \notin JobIds /\ None \notin Keys /\ None \notin Workers
  /\ JobIds = RegKeys \cup MutRequests
  /\ MaxAttempts \in Nat \ {0} /\ MaxTries \in Nat \ {0} /\ MaxSends \in Nat \ {0}
  /\ MaxFaults \in Nat
BY IdentityAssumption DEF RegKeys, MutRequests, JobIds, None

Base == TypeOK /\ WorkHolds

USE DEF None

\* The effect of the transaction helpers on the row they change.
Only(f, g, S, x) == \A y \in S \ {x} : g[y] = f[y]

LEMMA GotoDoes ==
  ASSUME StoreTypeOK, NEW r \in Requests, NEW pc \in Places, Goto(r, pc)
  PROVE  /\ client' \in [Requests -> ClientRow] /\ Only(client, client', Requests, r)
         /\ client'[r].pc = pc /\ client'[r].user = client[r].user
         /\ client'[r].seen = client[r].seen /\ client'[r].answer = client[r].answer
BY DEF StoreTypeOK, Goto, ClientRow, Only

LEMMA AnswerDoes ==
  ASSUME StoreTypeOK, NEW r \in Requests, NEW a \in {"ok", "error"}, Answer(r, a)
  PROVE  /\ client' \in [Requests -> ClientRow] /\ Only(client, client', Requests, r)
         /\ client'[r].pc = "done" /\ client'[r].user = client[r].user
         /\ client'[r].seen = client[r].seen /\ client'[r].answer = a
BY DEF StoreTypeOK, Answer, ClientRow, Only, Places

LEMMA ReservedDoes ==
  ASSUME StoreTypeOK, NEW k \in Keys, NEW v \in Nat, key' = Reserved(k, v), Reservable(k)
  PROVE  /\ key' \in [Keys -> KeyRow] /\ Only(key, key', Keys, k)
         /\ key[k].state \in {"ABSENT", "LAPSED"} /\ key'[k].state = "HELD"
BY DEF StoreTypeOK, Reserved, Reservable, KeyRow, Only

LEMMA CompletedDoes ==
  ASSUME StoreTypeOK, NEW k \in Keys, key' = Completed(k)
  PROVE  /\ key' \in [Keys -> KeyRow] /\ Only(key, key', Keys, k)
         /\ key'[k].state = "COMPLETED" /\ key'[k].version = key[k].version
BY DEF StoreTypeOK, Completed, KeyRow, Only

\* Neither a release nor a lapse touches a completed key.
Loosened == \A k \in Keys : \/ key'[k] = key[k]
                            \/ key[k].state # "COMPLETED" /\ key'[k].state = "LAPSED"

LEMMA ReleasedDoes ==
  ASSUME StoreTypeOK, NEW k \in Keys, key' = Released(k)
  PROVE  key' \in [Keys -> KeyRow] /\ Loosened
BY DEF StoreTypeOK, Released, KeyRow, Loosened

LEMMA ConsumeDoes ==
  ASSUME StoreTypeOK, NEW h \in Challenges, NEW k \in Keys, Consume(h, k)
  PROVE  /\ challenge' \in [Challenges -> ChallengeRow] /\ consumedBy' \in [Challenges -> SUBSET Keys]
         /\ Only(challenge, challenge', Challenges, h) /\ Only(consumedBy, consumedBy', Challenges, h)
         /\ challenge'[h].state = "CONSUMED" /\ challenge'[h].tries = challenge[h].tries
         /\ challenge'[h].registration = challenge[h].registration
         /\ consumedBy'[h] = consumedBy[h] \cup {k}
BY DEF StoreTypeOK, Consume, ChallengeRow, Only

LEMMA JobsTyped ==
  ASSUME Base
  PROVE  job \in [JobIds -> JobRow]
<1>1. job = [j \in JobIds |-> job[j]] /\ \A j \in JobIds : job[j] \in JobRow
  BY DEF Base, TypeOK, StoreTypeOK, WorkHolds
<1>2. QED
  BY <1>1

\* The transactions on one job row.
LEMMA ScheduledDoes ==
  ASSUME Base, NEW k \in RegKeys, NEW uid \in Nat, MaySchedule(k), Scheduled(k, uid)
  PROVE  /\ snapshot' \in [RegKeys -> SnapshotStates] /\ job' \in [JobIds -> JobRow]
         /\ Only(snapshot, snapshot', RegKeys, k) /\ Only(job, job', JobIds, k)
         /\ snapshot'[k] = "COMPLETED" <=> snapshot[k] = "COMPLETED"
         /\ job'[k] = job[k] \/ (job'[k].state = "PENDING" /\ job'[k].user = uid)
<1>1. CASE snapshot[k] = "COMPLETED"
  BY <1>1, JobsTyped DEF Scheduled, Only, Base, TypeOK, StoreTypeOK
<1>2. CASE snapshot[k] # "COMPLETED"
  <2>1. job[k] \in JobRow /\ job[k].state # "RUNNING" /\ k \in JobIds
    BY <1>2, JobsTyped, Sorts DEF MaySchedule
  <2>2. job' = [job EXCEPT ![k] = [state |-> "PENDING", attempts |-> @.attempts,
                                   due |-> TRUE, stale |-> @.stale, token |-> @.token,
                                   user |-> uid, restore |-> @.restore]]
        /\ snapshot' = [snapshot EXCEPT ![k] = "PROJECTION_PENDING"]
    BY <1>2 DEF Scheduled, AppendSnapshot
  <2>3. [state |-> "PENDING", attempts |-> job[k].attempts, due |-> TRUE, stale |-> job[k].stale,
         token |-> job[k].token, user |-> uid, restore |-> job[k].restore] \in JobRow
    BY <2>1 DEF JobRow
  <2>4. job' \in [JobIds -> JobRow] /\ Only(job, job', JobIds, k)
        /\ job'[k].state = "PENDING" /\ job'[k].user = uid
    BY <2>1, <2>2, <2>3, JobsTyped DEF Only
  <2>5. snapshot' \in [RegKeys -> SnapshotStates] /\ Only(snapshot, snapshot', RegKeys, k)
        /\ snapshot'[k] = "PROJECTION_PENDING"
    BY <2>2 DEF Only, Base, TypeOK, StoreTypeOK, SnapshotStates
  <2>6. QED
    BY <1>2, <2>4, <2>5
<1>3. QED
  BY <1>1, <1>2

LEMMA ArmedDoes ==
  ASSUME Base, NEW m \in MutRequests,
         job' = [job EXCEPT ![m] = [state |-> "PENDING", attempts |-> 0, due |-> FALSE,
                                    stale |-> FALSE, token |-> None,
                                    user |-> client[m].user, restore |-> client[m].seen]]
  PROVE  /\ job' \in [JobIds -> JobRow] /\ Only(job, job', JobIds, m)
         /\ job'[m].state = "PENDING" /\ job'[m].attempts = 0
         /\ job'[m].user = client[m].user /\ job'[m].restore = client[m].seen
<1>1. client[m] \in ClientRow /\ m \in JobIds /\ MaxAttempts \in Nat
  BY Sorts DEF Base, TypeOK, StoreTypeOK
<1>2. [state |-> "PENDING", attempts |-> 0, due |-> FALSE, stale |-> FALSE, token |-> None,
       user |-> client[m].user, restore |-> client[m].seen] \in JobRow
  BY <1>1 DEF JobRow, ClientRow
<1>3. QED
  BY <1>1, <1>2, JobsTyped DEF Only

\* A job is marked, or ended, and keeps the rest of its row.
SameWork(old, new) ==
  new.attempts = old.attempts /\ new.user = old.user /\ new.restore = old.restore

LEMMA MarkedDoes ==
  ASSUME Base, NEW j \in JobIds, NEW b \in BOOLEAN,
         \/ job' = [job EXCEPT ![j].due = b]
         \/ job' = [job EXCEPT ![j].stale = b]
  PROVE  /\ job' \in [JobIds -> JobRow] /\ Only(job, job', JobIds, j)
         /\ SameWork(job[j], job'[j]) /\ job'[j].state = job[j].state
         /\ job'[j].token = job[j].token
BY JobsTyped DEF JobRow, Only, SameWork

LEMMA EndedDoes ==
  ASSUME Base, NEW j \in JobIds, job[j].state = "PENDING",
         job' = [job EXCEPT ![j].state = "COMPLETED"]
  PROVE  /\ job' \in [JobIds -> JobRow] /\ Only(job, job', JobIds, j)
         /\ SameWork(job[j], job'[j]) /\ job'[j].state = "COMPLETED"
         /\ job'[j].token = job[j].token
BY JobsTyped DEF JobRow, Only, SameWork

\* The claim of a batch charges each job whose attempts are not spent.
LEMMA ClaimDoes ==
  ASSUME Base, NEW w \in Workers, Claim(w)
  PROVE  /\ job' \in [JobIds -> JobRow] /\ worker' \in [Workers -> WorkerRow]
         /\ \A j \in JobIds :
              \/ job'[j] = job[j] /\ ~Claimable(j)
              \/ /\ Claimable(j) /\ job'[j].state = "RUNNING" /\ job'[j].token = w
                 /\ job'[j].attempts > 0 /\ job'[j].attempts >= job[j].attempts
                 /\ job'[j].user = job[j].user /\ job'[j].restore = job[j].restore
         /\ Only(worker, worker', Workers, w)
         /\ worker'[w].at = None /\ worker'[w].ok = worker[w].ok
         /\ \A j \in JobIds :
              /\ j \in worker'[w].holds <=> Claimable(j)
              /\ j \in worker'[w].spent => Claimable(j)
<1> DEFINE batch == {j \in JobIds : Claimable(j)}
           spent == {j \in batch : job[j].attempts >= MaxAttempts}
<1>1. /\ job' = [j \in JobIds |-> IF j \in batch THEN ClaimedJob(job[j], w) ELSE job[j]]
      /\ worker' = [worker EXCEPT ![w] = [holds |-> batch, spent |-> spent, at |-> @.at, ok |-> @.ok]]
      /\ worker[w].at = None /\ batch # {}
  BY DEF Claim
<1>2. ASSUME NEW j \in JobIds
      PROVE  /\ ClaimedJob(job[j], w) \in JobRow
             /\ ClaimedJob(job[j], w).state = "RUNNING" /\ ClaimedJob(job[j], w).token = w
             /\ ClaimedJob(job[j], w).attempts > 0
             /\ ClaimedJob(job[j], w).attempts >= job[j].attempts
             /\ ClaimedJob(job[j], w).user = job[j].user
             /\ ClaimedJob(job[j], w).restore = job[j].restore
  <2>1. job[j] \in JobRow /\ MaxAttempts \in Nat \ {0} /\ w # None
    BY JobsTyped, Sorts
  <2>2. job[j].attempts \in 0..MaxAttempts /\ job[j].due \in BOOLEAN /\ job[j].user \in Nat
        /\ job[j].restore \in SUBSET Keys
    BY <2>1 DEF JobRow
  <2>3. QED
    BY <2>1, <2>2 DEF ClaimedJob, JobRow
<1>3. worker \in [Workers -> WorkerRow] /\ worker[w].ok \in BOOLEAN
  BY DEF Base, TypeOK, StoreTypeOK, WorkerRow
<1>4. [holds |-> batch, spent |-> spent, at |-> worker[w].at, ok |-> worker[w].ok] \in WorkerRow
  BY <1>1, <1>3 DEF WorkerRow
<1>5. /\ worker' \in [Workers -> WorkerRow] /\ Only(worker, worker', Workers, w)
      /\ worker'[w].at = None /\ worker'[w].ok = worker[w].ok
      /\ worker'[w].holds = batch /\ worker'[w].spent = spent
  BY <1>1, <1>3, <1>4 DEF Only
<1>6. \A j \in JobIds : job'[j] = IF j \in batch THEN ClaimedJob(job[j], w) ELSE job[j]
  BY <1>1
<1>7. job' \in [JobIds -> JobRow]
  BY <1>1, <1>2, JobsTyped
<1>8. QED
  BY <1>2, <1>5, <1>6, <1>7

LEMMA ProcessedDoes ==
  ASSUME Base, NEW w \in Workers, NEW j \in JobIds, NEW ok \in BOOLEAN, Processed(w, j, ok)
  PROVE  /\ worker' \in [Workers -> WorkerRow] /\ Only(worker, worker', Workers, w)
         /\ worker'[w].at = j /\ worker'[w].ok = ok
         /\ worker'[w].holds \subseteq worker[w].holds /\ worker'[w].spent \subseteq worker[w].spent
<1>1. worker \in [Workers -> WorkerRow]
  BY DEF Base, TypeOK, StoreTypeOK
<1>2. [holds |-> worker[w].holds \ {j}, spent |-> worker[w].spent \ {j}, at |-> j, ok |-> ok]
        \in WorkerRow
  BY <1>1 DEF WorkerRow
<1>3. QED
  BY <1>1, <1>2 DEF Processed, Only

LEMMA IdleDoes ==
  ASSUME Base, NEW w \in Workers,
         \/ worker' = [worker EXCEPT ![w].at = None]
         \/ worker' = [worker EXCEPT ![w] = [holds |-> {}, spent |-> {}, at |-> None, ok |-> @.ok]]
  PROVE  /\ worker' \in [Workers -> WorkerRow] /\ Only(worker, worker', Workers, w)
         /\ worker'[w].at = None
         /\ worker'[w].holds \subseteq worker[w].holds /\ worker'[w].spent \subseteq worker[w].spent
<1>1. worker \in [Workers -> WorkerRow]
  BY DEF Base, TypeOK, StoreTypeOK
<1>2. [holds |-> {}, spent |-> {}, at |-> None, ok |-> worker[w].ok] \in WorkerRow
  BY <1>1 DEF WorkerRow
<1>3. [worker[w] EXCEPT !.at = None] \in WorkerRow
  BY <1>1 DEF WorkerRow
<1>4. QED
  BY <1>1, <1>2, <1>3 DEF Only, WorkerRow

\* What a finished job is left as, for the worker that still holds the claim.
LEMMA FinishDoes ==
  ASSUME Base, NEW w \in Workers, FinishJob(w)
  PROVE  LET j == worker[w].at IN
         /\ j \in JobIds
         /\ job' \in [JobIds -> JobRow] /\ Only(job, job', JobIds, j)
         /\ ~Mine(w, j) => job' = job
         /\ Mine(w, j) =>
              /\ SameWork(job[j], job'[j])
              /\ \/ job'[j].state = "COMPLETED" /\ worker[w].ok
                 \/ job'[j].state = "PENDING" /\ ~worker[w].ok
                 \/ job'[j].state = "FAILED" /\ ~worker[w].ok
         /\ job'[j].state = "FAILED" /\ job[j].state # "FAILED" /\ j \in MutRequests => account'.flagged
         /\ \/ account' = account
            \/ /\ ~account.flagged /\ account'.flagged /\ account'.version = account.version + 1
               /\ account' \in AccountRow
               /\ account'.subject = account.subject /\ account'.changes = account.changes
         /\ key' \in [Keys -> KeyRow] /\ Loosened
<1> DEFINE j == worker[w].at
           ok == worker[w].ok
           exhausted == ~ok /\ job[j].attempts >= MaxAttempts
           ended == IF ok THEN "COMPLETED" ELSE IF exhausted THEN "FAILED" ELSE "PENDING"
           flags == Mine(w, j) /\ exhausted /\ j \in MutRequests /\ ~account.flagged
           row == [state |-> ended, attempts |-> job[j].attempts, due |-> job[j].due /\ ok,
                   stale |-> job[j].stale, token |-> None, user |-> job[j].user,
                   restore |-> job[j].restore]
<1>1. /\ j # None
      /\ job' = IF Mine(w, j) THEN [job EXCEPT ![j] = row] ELSE job
      /\ key' = IF Mine(w, j) /\ ok /\ j \in MutRequests THEN Released(KeyOf[j]) ELSE key
      /\ account' = IF flags THEN [subject |-> account.subject, changes |-> account.changes,
                                   flagged |-> TRUE, version |-> account.version + 1]
                    ELSE account
  <2>1. j # None
    BY DEF FinishJob
  <2>2. j \in JobIds
    BY <2>1 DEF Base, TypeOK, StoreTypeOK, WorkerRow
  <2>3. [job EXCEPT ![j] = [state |-> ended, attempts |-> @.attempts, due |-> @.due /\ ok,
                            stale |-> @.stale, token |-> None, user |-> @.user,
                            restore |-> @.restore]] = [job EXCEPT ![j] = row]
    BY <2>2, JobsTyped
  <2>4. QED
    BY <2>1, <2>3 DEF FinishJob
<1>2. j \in JobIds /\ ok \in BOOLEAN
  BY <1>1 DEF Base, TypeOK, StoreTypeOK, WorkerRow
<1>3. job[j] \in JobRow
  BY <1>2, JobsTyped
<1>4. row \in JobRow
  BY <1>2, <1>3, Sorts DEF JobRow
<1>5. /\ job' \in [JobIds -> JobRow] /\ Only(job, job', JobIds, j)
      /\ ~Mine(w, j) => job' = job
      /\ Mine(w, j) => job'[j] = row
  BY <1>1, <1>2, <1>4, JobsTyped DEF Only
<1>6. Mine(w, j) =>
        /\ SameWork(job[j], job'[j])
        /\ \/ job'[j].state = "COMPLETED" /\ ok
           \/ job'[j].state = "PENDING" /\ ~ok
           \/ job'[j].state = "FAILED" /\ exhausted
  BY <1>5 DEF SameWork
<1>7. account \in AccountRow
  BY DEF Base, TypeOK, StoreTypeOK
<1>8. [subject |-> account.subject, changes |-> account.changes, flagged |-> TRUE,
       version |-> account.version + 1] \in AccountRow
  BY <1>7 DEF AccountRow
<1>9. /\ flags => /\ account'.flagged /\ account'.version = account.version + 1
                  /\ account' \in AccountRow
                  /\ account'.subject = account.subject /\ account'.changes = account.changes
      /\ ~flags => account' = account
  BY <1>1, <1>8
<1>10. job'[j].state = "FAILED" /\ job[j].state # "FAILED" /\ j \in MutRequests => account'.flagged
  BY <1>5, <1>6, <1>9
<1>11. key' \in [Keys -> KeyRow] /\ Loosened
  <2>1. CASE Mine(w, j) /\ ok /\ j \in MutRequests
    BY <2>1, <1>1, ReleasedDoes, Sorts DEF Base, TypeOK
  <2>2. CASE ~(Mine(w, j) /\ ok /\ j \in MutRequests)
    BY <2>2, <1>1 DEF Base, TypeOK, StoreTypeOK, Loosened
  <2>3. QED
    BY <2>1, <2>2
<1>12. QED
  BY <1>2, <1>5, <1>6, <1>9, <1>10, <1>11

\* What a step may do to the user's identity, which only creation and deletion
\* change, and to the changes it shows.
LEMMA UserTyped ==
  ASSUME Base, NEW k \in RegKeys, NEW c \in SUBSET Keys
  PROVE  /\ user \in UserRow /\ user.id \in Nat /\ user.born \in Nat
         /\ Created(k) \in UserRow
         /\ user.id = 0 => /\ Created(k).id = user.born + 1 /\ Created(k).born = user.born + 1
                           /\ Created(k).owner = k /\ Created(k).changes = {}
         /\ user.id # 0 => Created(k) = user
         /\ [user EXCEPT !.changes = c] \in UserRow
         /\ [user EXCEPT !.changes = c].id = user.id /\ [user EXCEPT !.changes = c].born = user.born
         /\ [user EXCEPT !.changes = c].owner = user.owner
         /\ [user EXCEPT !.changes = c].changes = c
         /\ [id |-> 0, owner |-> None, changes |-> {}, born |-> user.born] \in UserRow
<1>1. user \in UserRow
  BY DEF Base, TypeOK, StoreTypeOK
<1>2. QED
  BY <1>1 DEF UserRow, Created

LEMMA AccountTyped ==
  ASSUME Base, NEW uid \in Nat, NEW k \in Keys
  PROVE  /\ account \in AccountRow
         /\ account.subject \in Nat /\ account.version \in Nat /\ account.flagged \in BOOLEAN
         /\ NewAccount(uid) \in AccountRow /\ NewAccount(uid).subject = uid
         /\ NewAccount(uid).changes = account.changes /\ NewAccount(uid).flagged = account.flagged
         /\ NewAccount(uid).version = account.version
         /\ WithChange(account.changes, k) \in SUBSET Keys
         /\ CommittedAccount(k) \in AccountRow /\ CommittedAccount(k).subject = account.subject
         /\ CommittedAccount(k).changes = WithChange(account.changes, k)
         /\ CommittedAccount(k).flagged = account.flagged
         /\ CommittedAccount(k).version = account.version + 1
<1>1. account \in AccountRow
  BY DEF Base, TypeOK, StoreTypeOK
<1>2. account.subject \in Nat /\ account.version \in Nat /\ account.flagged \in BOOLEAN
      /\ account.changes \in SUBSET Keys
  BY <1>1 DEF AccountRow
<1>3. NewAccount(uid) \in AccountRow /\ NewAccount(uid).subject = uid
      /\ NewAccount(uid).changes = account.changes /\ NewAccount(uid).flagged = account.flagged
      /\ NewAccount(uid).version = account.version
  BY <1>1 DEF NewAccount, AccountRow
<1>4. WithChange(account.changes, k) \in SUBSET Keys
  BY <1>2 DEF WithChange
<1>5. QED
  BY <1>1, <1>2, <1>3, <1>4 DEF CommittedAccount, AccountRow

\* The finalize transaction replays a completed key, or does all of this.
Consumes(h, k) ==
  /\ Only(challenge, challenge', Challenges, h) /\ Only(consumedBy, consumedBy', Challenges, h)
  /\ challenge'[h].state = "CONSUMED" /\ challenge'[h].tries = challenge[h].tries
  /\ challenge'[h].registration = challenge[h].registration
  /\ consumedBy'[h] = consumedBy[h] \cup {k}

ProjectsTo(k, uid) ==
  /\ account.subject \in {0, uid} /\ account'.subject = uid
  /\ account'.changes = account.changes
  /\ account'.flagged = account.flagged /\ account'.version = account.version
  /\ Consumes(UsesOf[k], k)
  /\ Only(snapshot, snapshot', RegKeys, k) /\ snapshot'[k] = "COMPLETED"
  /\ Only(key, key', Keys, k)
  /\ key[k].state # "COMPLETED" /\ key'[k].state = "COMPLETED"

LEMMA ProjectDoes ==
  ASSUME Base, NEW k \in RegKeys, NEW uid \in Nat, MayFinalize(k, uid), ProjectRegistration(k, uid)
  PROVE  /\ account' \in AccountRow /\ key' \in [Keys -> KeyRow]
         /\ challenge' \in [Challenges -> ChallengeRow]
         /\ consumedBy' \in [Challenges -> SUBSET Keys]
         /\ snapshot' \in [RegKeys -> SnapshotStates]
         /\ \/ /\ UNCHANGED <<account, challenge, consumedBy, snapshot, key>>
               /\ key[k].state = "COMPLETED"
            \/ ProjectsTo(k, uid)
<1>1. CASE key[k].state = "COMPLETED"
  BY <1>1 DEF ProjectRegistration, Base, TypeOK, StoreTypeOK
<1>2. CASE key[k].state # "COMPLETED"
  <2>1. /\ account' = NewAccount(uid) /\ Consume(UsesOf[k], k)
        /\ snapshot' = [snapshot EXCEPT ![k] = "COMPLETED"] /\ key' = Completed(k)
        /\ account.subject \in {0, uid}
    BY <1>2 DEF ProjectRegistration, MayFinalize, AppendSnapshot
  <2>2. StoreTypeOK /\ k \in Keys /\ UsesOf[k] \in Challenges
    BY Sorts DEF Base, TypeOK
  <2>3. snapshot' \in [RegKeys -> SnapshotStates] /\ Only(snapshot, snapshot', RegKeys, k)
        /\ snapshot'[k] = "COMPLETED"
    BY <2>1, <2>2 DEF StoreTypeOK, SnapshotStates, Only
  <2>4. account' \in AccountRow /\ account'.subject = uid /\ account'.changes = account.changes
        /\ account'.flagged = account.flagged /\ account'.version = account.version
    BY <2>1, <2>2, AccountTyped
  <2>5. key' \in [Keys -> KeyRow] /\ Only(key, key', Keys, k) /\ key'[k].state = "COMPLETED"
    BY <2>1, <2>2, CompletedDoes
  <2>6. /\ challenge' \in [Challenges -> ChallengeRow] /\ consumedBy' \in [Challenges -> SUBSET Keys]
        /\ Consumes(UsesOf[k], k)
    BY <2>1, <2>2, ConsumeDoes DEF Consumes
  <2>7. QED
    BY <1>2, <2>1, <2>3, <2>4, <2>5, <2>6 DEF ProjectsTo
<1>3. QED
  BY <1>1, <1>2

\* The commit of a mutation.
Commits(m) ==
  /\ job[m].state = "PENDING" /\ account.version = key[KeyOf[m]].version
  /\ account'.subject = account.subject /\ account'.flagged = account.flagged
  /\ account'.changes = WithChange(account.changes, KeyOf[m])
  /\ account'.version = account.version + 1
  /\ Only(job, job', JobIds, m) /\ job'[m].state = "COMPLETED" /\ SameWork(job[m], job'[m])
  /\ Only(key, key', Keys, KeyOf[m]) /\ key'[KeyOf[m]].state = "COMPLETED"
  /\ key'[KeyOf[m]].version = key[KeyOf[m]].version
  /\ \/ UNCHANGED <<challenge, consumedBy>>
     \/ /\ Contact(KeyOf[m]) /\ challenge[UsesOf[KeyOf[m]]].state = "VERIFIED"
        /\ Consumes(UsesOf[KeyOf[m]], KeyOf[m])

LEMMA CommittedDoes ==
  ASSUME Base, NEW m \in MutRequests, MayCommit(m), Committed(m)
  PROVE  /\ account' \in AccountRow /\ key' \in [Keys -> KeyRow] /\ job' \in [JobIds -> JobRow]
         /\ challenge' \in [Challenges -> ChallengeRow]
         /\ consumedBy' \in [Challenges -> SUBSET Keys]
         /\ Commits(m)
<1> DEFINE k == KeyOf[m]
<1>1. StoreTypeOK /\ k \in Keys /\ m \in JobIds /\ UsesOf[k] \in Challenges
  BY Sorts DEF Base, TypeOK
<1>2. /\ account' = CommittedAccount(k) /\ key' = Completed(k)
      /\ job' = [job EXCEPT ![m].state = "COMPLETED"]
      /\ IF Contact(k) THEN Consume(UsesOf[k], k) ELSE UNCHANGED <<challenge, consumedBy>>
  BY DEF Committed
<1>3. /\ account.version = key[k].version /\ job[m].state = "PENDING"
      /\ Contact(k) => challenge[UsesOf[k]].state = "VERIFIED"
  BY DEF MayCommit, Usable
<1> HIDE DEF k
<1>4. account' \in AccountRow /\ account'.subject = account.subject
      /\ account'.flagged = account.flagged
      /\ account'.changes = WithChange(account.changes, k)
      /\ account'.version = account.version + 1
  BY <1>1, <1>2, AccountTyped
<1>5. key' \in [Keys -> KeyRow] /\ Only(key, key', Keys, k) /\ key'[k].state = "COMPLETED"
      /\ key'[k].version = key[k].version
  BY <1>1, <1>2, CompletedDoes
<1>6. job' \in [JobIds -> JobRow] /\ Only(job, job', JobIds, m) /\ job'[m].state = "COMPLETED"
      /\ SameWork(job[m], job'[m])
  BY <1>1, <1>2, <1>3, EndedDoes
<1>7. /\ challenge' \in [Challenges -> ChallengeRow] /\ consumedBy' \in [Challenges -> SUBSET Keys]
      /\ \/ UNCHANGED <<challenge, consumedBy>>
         \/ Contact(k) /\ challenge[UsesOf[k]].state = "VERIFIED" /\ Consumes(UsesOf[k], k)
  <2>1. CASE Contact(k)
    BY <2>1, <1>1, <1>2, <1>3, ConsumeDoes DEF Consumes
  <2>2. CASE ~Contact(k)
    BY <2>2, <1>1, <1>2 DEF StoreTypeOK
  <2>3. QED
    BY <2>1, <2>2
<1>8. QED
  BY <1>3, <1>4, <1>5, <1>6, <1>7 DEF Commits, k

\* Steps of a challenge alone: what was consumed stays consumed, and a binding
\* is not changed.
ChallengeMoves(h) ==
  /\ Only(challenge, challenge', Challenges, h)
  /\ challenge'[h].registration = challenge[h].registration
  /\ challenge[h].state = "CONSUMED" => challenge'[h].state = "CONSUMED"

LEMMA ChallengeDoes ==
  ASSUME Base, NEW h \in Challenges, NEW matches \in BOOLEAN,
         RequestChallenge(h) \/ VerifyChallenge(h, matches) \/ ChallengeExpires(h)
  PROVE  /\ challenge' \in [Challenges -> ChallengeRow] /\ ChallengeMoves(h)
         /\ challenge'[h].state \in {"ABSENT", "PENDING"} => challenge'[h].tries < MaxTries
<1>1. /\ challenge \in [Challenges -> ChallengeRow] /\ challenge[h] \in ChallengeRow
      /\ challenge[h].state \in {"ABSENT", "PENDING"} => challenge[h].tries < MaxTries
  BY DEF Base, TypeOK, StoreTypeOK, WorkHolds
<1>2. challenge[h].tries \in 0..MaxTries /\ MaxTries \in Nat \ {0}
  BY <1>1, Sorts DEF ChallengeRow
<1>3. CASE RequestChallenge(h)
  BY <1>1, <1>2, <1>3 DEF RequestChallenge, ChallengeRow, ChallengeMoves, Only
<1>4. CASE ChallengeExpires(h)
  BY <1>1, <1>2, <1>4 DEF ChallengeExpires, ChallengeRow, ChallengeMoves, Only
<1>5. CASE VerifyChallenge(h, matches)
  <2>1. challenge' = [challenge EXCEPT ![h] = Verified(challenge[h], matches)]
    BY <1>5 DEF VerifyChallenge
  <2>2. LET row == challenge[h]  new == Verified(row, matches) IN
        /\ new \in ChallengeRow /\ new.registration = row.registration
        /\ row.state = "CONSUMED" => new.state = "CONSUMED"
        /\ new.state \in {"ABSENT", "PENDING"} => new.tries < MaxTries
    BY <1>1, <1>2 DEF Verified, ChallengeRow
  <2>3. QED
    BY <1>1, <2>1, <2>2 DEF ChallengeMoves, Only
<1>6. QED
  BY <1>3, <1>4, <1>5

-----------------------------------------------------------------------------
\* Types of a step

ClientsTyped ==
  /\ client \in [Requests -> ClientRow]
  /\ \A r \in Requests : /\ client[r].pc \in Registering => r \notin MutRequests
                         /\ client[r].pc \in Mutating => r \in MutRequests

JobsSound ==
  /\ job \in [JobIds -> JobRow]
  /\ \A j \in JobIds : job[j].state = "RUNNING" => job[j].attempts > 0

ChallengesSound ==
  /\ challenge \in [Challenges -> ChallengeRow] /\ consumedBy \in [Challenges -> SUBSET Keys]
  /\ \A h \in Challenges : challenge[h].state \in {"ABSENT", "PENDING"} =>
                             challenge[h].tries < MaxTries

RowsTyped ==
  /\ snapshot \in [RegKeys -> SnapshotStates] /\ user \in UserRow /\ account \in AccountRow
  /\ key \in [Keys -> KeyRow]

WorkersSound ==
  /\ worker \in [Workers -> WorkerRow]
  /\ \A w \in Workers, j \in JobIds :
       j \in worker[w].holds \cup worker[w].spent \/ worker[w].at = j => job[j].state # None

CountsTyped ==
  sends \in 0..MaxSends /\ drift \in BOOLEAN /\ blind \in BOOLEAN /\ faults \in 0..MaxFaults

LEMMA BaseParts ==
  /\ Base => /\ ClientsTyped /\ JobsSound /\ ChallengesSound /\ RowsTyped /\ WorkersSound
             /\ CountsTyped
  /\ ClientsTyped /\ JobsSound /\ ChallengesSound /\ RowsTyped /\ WorkersSound /\ CountsTyped
       => Base
BY JobsTyped DEF Base, TypeOK, StoreTypeOK, WorkHolds, ClientsTyped, JobsSound, ChallengesSound,
   RowsTyped, WorkersSound, CountsTyped

LEMMA BaseNext ==
  ASSUME ClientsTyped', JobsSound', ChallengesSound', RowsTyped', WorkersSound', CountsTyped'
  PROVE  Base'
BY DEF Base, TypeOK, StoreTypeOK, WorkHolds, ClientsTyped, JobsSound, ChallengesSound,
   RowsTyped, WorkersSound, CountsTyped

LEMMA WorkersStay ==
  ASSUME WorkersSound, worker' = worker, \A j \in JobIds : job[j].state # None => job'[j].state # None
  PROVE  WorkersSound'
BY DEF WorkersSound

-----------------------------------------------------------------------------
\* What leaves an invariant alone

\* Completed keys keep their versions, and no mutation is completed.
KeysKept ==
  /\ \A k \in Keys : key[k].state = "COMPLETED" =>
       key'[k].state = "COMPLETED" /\ key'[k].version = key[k].version
  /\ \A k \in Keys \ RegKeys : key'[k].state = "COMPLETED" => key[k].state = "COMPLETED"

AnswersKept ==
  \A r \in Requests : client'[r].answer = "ok" =>
    client[r].answer = "ok" \/ key'[KeyOf[r]].state = "COMPLETED"

LEMMA VersionKept ==
  ASSUME VersionCounts, KeysKept, AnswersKept,
         account'.version = account.version, account'.flagged = account.flagged
  PROVE  VersionCounts'
<1>1. Mutated' = Mutated
  BY DEF KeysKept, Mutated
<1>2. \A k \in Mutated : key'[k].version = key[k].version
  BY DEF KeysKept, Mutated
<1>3. \A r \in Requests : client'[r].answer = "ok" => key'[KeyOf[r]].state = "COMPLETED"
  BY Sorts DEF KeysKept, AnswersKept, VersionCounts
<1>4. QED
  BY <1>1, <1>2, <1>3 DEF VersionCounts

LEMMA KeysLoosened ==
  ASSUME Loosened \/ key' = key \/ (\E k \in Keys : /\ Only(key, key', Keys, k)
                                     /\ key[k].state # "COMPLETED"
                                     /\ (key'[k].state # "COMPLETED" \/ k \in RegKeys))
  PROVE  KeysKept
BY DEF Loosened, KeysKept, Only

\* Bindings stay, and nothing new is bound, consumed or completed.
BindingsKept ==
  /\ consumedBy' = consumedBy
  /\ \A h \in Challenges : /\ challenge'[h].registration = challenge[h].registration
                           /\ challenge[h].state = "CONSUMED" => challenge'[h].state = "CONSUMED"

RegistrationsKept ==
  /\ \A r \in Requests : client'[r].pc \in Registering => client[r].pc \in Registering
  /\ \A k \in RegKeys : job'[k].state # None =>
       job[k].state # None \/ \E r \in Requests : client[r].pc \in Registering /\ KeyOf[r] = k
  /\ \A k \in RegKeys : snapshot'[k] = "COMPLETED" => snapshot[k] = "COMPLETED"

LEMMA ChallengesKept ==
  ASSUME ChallengesBound, BindingsKept, RegistrationsKept
  PROVE  ChallengesBound'
<1>1. \A k \in Keys : BoundTo(k) => BoundTo(k)'
  BY IdentityAssumption DEF BindingsKept, BoundTo
<1>2. \A r \in Requests : client'[r].pc \in Registering => BoundTo(KeyOf[r])'
  BY <1>1, Sorts DEF ChallengesBound, RegistrationsKept
<1>3. \A k \in RegKeys : job'[k].state # None => BoundTo(k)'
  BY <1>1, Sorts DEF ChallengesBound, RegistrationsKept
<1>4. \A k \in RegKeys : snapshot'[k] = "COMPLETED" => consumedBy'[UsesOf[k]] = {k}
  BY DEF ChallengesBound, RegistrationsKept, BindingsKept
<1>5. \A h \in ForRegistration : h \in Challenges
  BY Sorts DEF ForRegistration
<1>6. \A h \in ForRegistration : consumedBy'[h] \subseteq {challenge'[h].registration}
  BY <1>5 DEF ChallengesBound, BindingsKept
<1>7. \A h \in Challenges \ ForRegistration :
        \/ consumedBy'[h] = {}
        \/ challenge'[h].state = "CONSUMED" /\ \E k \in Keys : consumedBy'[h] = {k}
  BY DEF ChallengesBound, BindingsKept
<1>8. QED
  BY <1>2, <1>3, <1>4, <1>6, <1>7 DEF ChallengesBound

\* The user stays whose it is, and no registration comes to rely on another.
OwnersKept ==
  /\ user'.id = user.id /\ user'.owner = user.owner
  /\ blind => blind'
  /\ user.id # 0 /\ account.subject = user.id => account'.subject = user.id
  /\ \A r \in Requests :
       /\ client'[r].pc = "undo" => client[r].pc = "undo"
       /\ client'[r].pc \in {"created", "failing"} =>
            client[r].pc \in {"created", "failing"} /\ client'[r].user = client[r].user
  /\ \A k \in RegKeys : job'[k].state # None =>
       job[k].state # None /\ job'[k].user = job[k].user
  /\ \A k \in RegKeys : snapshot'[k] = "COMPLETED" => snapshot[k] = "COMPLETED"

LEMMA UserKept ==
  ASSUME UserStands, OwnersKept
  PROVE  UserStands'
<1>1. \A r \in Requests : client'[r].pc = "undo" => blind'
  BY DEF UserStands, OwnersKept
<1>2. ASSUME ~blind'
      PROVE  /\ \A r \in Requests :
                  client'[r].pc \in {"created", "failing"} => Owns(KeyOf[r], client[r].user)'
             /\ \A k \in RegKeys : job'[k].state # None => Owns(k, job[k].user)'
             /\ \A k \in RegKeys : snapshot'[k] = "COMPLETED" => Owns(k, account.subject)'
  BY <1>2 DEF UserStands, OwnersKept, Owns
<1>3. QED
  BY <1>1, <1>2 DEF UserStands

\* Mutation jobs only pass between workers, their requests go no further, and
\* no worker comes to have restored one.
QuietJobs ==
  \A m \in MutRequests :
    /\ job'[m].state # job[m].state =>
         Active(m) /\ Active(m)' /\ job'[m].attempts # 0
    /\ job'[m].attempts = 0 => job[m].attempts = 0
    /\ Active(m) => job'[m].restore = job[m].restore

Unstarted == {"off", "idle", "begun", "read"}

QuietClients ==
  \A m \in MutRequests :
    /\ client'[m].pc \in Unstarted => client[m].pc \in Unstarted
    /\ client'[m].pc \in {"armed", "put"} =>
         client'[m].pc = client[m].pc /\ client'[m].seen = client[m].seen
    /\ client'[m].pc \in Mutating => client[m].pc \in Mutating \/ account.subject # 0

Restorer(w, m) == worker[w].at = m /\ worker[w].ok /\ Mine(w, m)

QuietWorkers ==
  \A w \in Workers, m \in MutRequests : Restorer(w, m)' => Restorer(w, m)

LEMMA JobsKept ==
  ASSUME JobsHold, QuietJobs, QuietClients, account.flagged => account'.flagged,
         account'.subject <= user'.born, user'.id <= user'.born,
         \A r \in Requests : client'[r].user <= user'.born,
         account'.subject = 0 =>
           account.subject = 0 /\ account'.changes = {} /\ user'.changes = {}
  PROVE  JobsHold'
<1>1. ASSUME NEW m \in MutRequests
      PROVE  /\ client'[m].pc \in {"off", "idle", "begun", "read"} => job'[m].state = None
             /\ job'[m].state = "FAILED" => account'.flagged
             /\ Untouched(m, {"armed", "put"})' => job'[m].state = "PENDING"
             /\ Active(m)' => Active(m)
             /\ account'.subject = 0 => job'[m].state = None /\ client'[m].pc \notin Mutating
  BY DEF JobsHold, QuietJobs, QuietClients, Unstarted, Untouched, Active
<1>2. QED
  BY <1>1 DEF JobsHold

LEMMA AgreeKept ==
  ASSUME JobsHold, ChangesAgree, QuietJobs, QuietClients, QuietWorkers,
         user' = user, account'.subject = account.subject, account'.changes = account.changes,
         account.flagged => account'.flagged, drift => drift'
  PROVE  ChangesAgree'
<1>1. ASSUME NEW m \in MutRequests
      PROVE  /\ Active(m) <=> Active(m)'
             /\ Active(m)' => job'[m].restore = job[m].restore
             /\ Untouched(m, {"armed"})' => Untouched(m, {"armed"}) /\ client'[m].seen = client[m].seen
             /\ Untouched(m, {"put"})' => Untouched(m, {"put"})
  BY DEF QuietJobs, QuietClients, Untouched, Active
<1>2. SUFFICES ASSUME user.id # 0, account.subject = user.id, ~drift'
               PROVE  ChangesAgree'
  BY DEF ChangesAgree
<1>3. /\ (\A m \in MutRequests : ~Active(m)) /\ ~account.flagged => user.changes = account.changes
      /\ \A m \in MutRequests :
           /\ Active(m) => job[m].restore = account.changes
           /\ Untouched(m, {"armed"}) => client[m].seen = account.changes
           /\ Untouched(m, {"put"}) => user.changes = WithChange(account.changes, KeyOf[m])
           /\ \A w \in Workers : Restorer(w, m) => user.changes = account.changes
  BY <1>2 DEF ChangesAgree, Restorer
<1>4. (\A m \in MutRequests : ~Active(m)') /\ ~account'.flagged => user'.changes = account'.changes
  BY <1>1, <1>3
<1>5. ASSUME NEW m \in MutRequests
      PROVE  /\ Active(m)' => job'[m].restore = account'.changes
             /\ Untouched(m, {"armed"})' => client'[m].seen = account'.changes
             /\ \A w \in Workers : Restorer(w, m)' => user'.changes = account'.changes
  BY <1>1, <1>3 DEF QuietWorkers
<1>6. ASSUME NEW m \in MutRequests, Untouched(m, {"put"})'
      PROVE  user'.changes = WithChange(account'.changes, KeyOf[m])
  BY <1>1, <1>3, <1>6 DEF WithChange
<1>7. QED
  BY <1>4, <1>5, <1>6 DEF ChangesAgree, Restorer

\* Nothing is claimed while the two belong to different users.
LEMMA AgreeVoid ==
  ASSUME user'.id = 0 \/ account'.subject # user'.id
  PROVE  ChangesAgree'
BY DEF ChangesAgree

\* Before the first projection there are no changes to agree on.
LEMMA AgreeFresh ==
  ASSUME JobsHold, QuietJobs, QuietClients, account.subject = 0,
         account'.changes = {}, user'.changes = {}
  PROVE  ChangesAgree'
<1>1. \A m \in MutRequests :
        job[m].state = None /\ client[m].pc \notin Mutating
  BY DEF JobsHold
<1>2. \A m \in MutRequests :
        job'[m].state = None /\ client'[m].pc \notin Mutating
  BY <1>1 DEF QuietJobs, QuietClients, Active
<1>3. \A m \in MutRequests : ~Active(m)' /\ ~Untouched(m, {"armed"})' /\ ~Untouched(m, {"put"})'
                             /\ \A w \in Workers : ~Mine(w, m)'
  BY <1>2 DEF Active, Untouched, Mutating, Mine
<1>4. QED
  BY <1>3 DEF ChangesAgree

LEMMA Unmoved ==
  /\ job' = job => QuietJobs
  /\ job' = job /\ worker' = worker => QuietWorkers
  /\ client' = client => QuietClients
  /\ \A r \in Requests \ MutRequests : Only(client, client', Requests, r) => QuietClients
<1>1. job' = job => QuietJobs
  BY DEF QuietJobs
<1>2. job' = job /\ worker' = worker => QuietWorkers
  BY DEF QuietWorkers, Restorer, Mine
<1>3. client' = client => QuietClients
  BY DEF QuietClients
<1>4. \A r \in Requests \ MutRequests : Only(client, client', Requests, r) => QuietClients
  BY Sorts DEF QuietClients, Only
<1>5. QED
  BY <1>1, <1>2, <1>3, <1>4

\* The account and the user of the mutations are as they were.
LEMMA MutationsKept ==
  ASSUME JobsHold, ChangesAgree, QuietJobs, QuietClients, QuietWorkers,
         \A r \in Requests : client'[r].user <= user.born,
         user' = user, account' = account, drift => drift'
  PROVE  JobsHold' /\ ChangesAgree'
<1>1. /\ account'.subject <= user'.born /\ user'.id <= user'.born
      /\ account'.subject = 0 =>
           account.subject = 0 /\ account'.changes = {} /\ user'.changes = {}
  BY DEF JobsHold
<1>2. JobsHold'
  BY <1>1, JobsKept
<1>3. ChangesAgree'
  BY AgreeKept
<1>4. QED
  BY <1>2, <1>3

LEMMA FaultDoes ==
  ASSUME Base, Fault \/ NoFault
  PROVE  faults' \in 0..MaxFaults
BY Sorts DEF Base, TypeOK, Fault, NoFault

\* A request ends, or a mutation goes on without having armed its job: nothing
\* but keys that are not completed changes with it.
LEMMA ClientStep ==
  ASSUME IdentityInv, Base, NEW r \in Requests,
         client' \in [Requests -> ClientRow], Only(client, client', Requests, r),
         client'[r].pc \in {"done", "crashed", "begun", "read", "abort"},
         client'[r].user \in {client[r].user, user.id},
         client'[r].pc \in Unstarted => client[r].pc \in Unstarted,
         client'[r].pc \in Mutating =>
           r \in MutRequests /\ (client[r].pc \in Mutating \/ account.subject # 0),
         client'[r].answer = "ok" =>
           client[r].answer = "ok" \/ key'[KeyOf[r]].state = "COMPLETED",
         key' \in [Keys -> KeyRow], KeysKept,
         UNCHANGED <<challenge, snapshot, user, account, job, worker, consumedBy, blind>>,
         drift => drift', CountsTyped'
  PROVE  IdentityInv'
<1>1. Base'
  <2>1. ClientsTyped'
    <3>1. client'[r].pc \notin Registering
      BY DEF Registering
    <3>2. QED
      BY <3>1, BaseParts DEF ClientsTyped, Only
  <2>2. WorkersSound'
    BY BaseParts, WorkersStay
  <2>3. JobsSound' /\ ChallengesSound' /\ RowsTyped'
    BY BaseParts DEF JobsSound, ChallengesSound, RowsTyped
  <2>4. QED
    BY <2>1, <2>2, <2>3, BaseNext
<1>2. VersionCounts'
  <2>1. AnswersKept
    BY DEF AnswersKept, Only
  <2>2. QED
    BY <2>1, VersionKept DEF IdentityInv
<1>3. ChallengesBound' /\ UserStands'
  <2>1. BindingsKept
    BY DEF BindingsKept
  <2>2. RegistrationsKept
    BY DEF RegistrationsKept, Only, Registering
  <2>3. OwnersKept
    BY DEF OwnersKept, Only
  <2>4. QED
    BY <2>1, <2>2, <2>3, ChallengesKept, UserKept DEF IdentityInv
<1>4. JobsHold' /\ ChangesAgree'
  <2>1. \A m \in MutRequests : m \in Requests /\ (m # r => client'[m] = client[m])
    BY Sorts DEF Only
  <2>2. QuietClients
    BY <2>1 DEF QuietClients
  <2>3. \A q \in Requests : client'[q].user <= user.born
    BY DEF Only, IdentityInv, JobsHold
  <2>4. QED
    BY <2>2, <2>3, Unmoved, MutationsKept DEF IdentityInv
<1>5. QED
  BY <1>1, <1>2, <1>3, <1>4 DEF IdentityInv, Base

\* The key of a registration that is not completed is reserved.
LEMMA PrepareKeeps ==
  ASSUME IdentityInv, Base, NEW r \in Requests, Prepare(r)
  PROVE  IdentityInv'
<1> DEFINE k == KeyOf[r]
           h == UsesOf[k]
<1>1. /\ client[r].pc = "idle" /\ OpOf[k] = "REGISTER"
      /\ UNCHANGED <<sends, user, account, job, worker, consumedBy, drift, blind, faults>>
      /\ \/ key[k].state = "COMPLETED" /\ Answer(r, "ok") /\ UNCHANGED <<challenge, snapshot, key>>
         \/ /\ Reservable(k) /\ challenge[h].state = "VERIFIED"
            /\ challenge[h].registration \in {None, k} /\ key' = Reserved(k, 0)
            /\ challenge' = [challenge EXCEPT ![h].registration = k]
            /\ snapshot' = [snapshot EXCEPT ![k] = "KEYCLOAK_PENDING"]
            /\ Goto(r, "prepared")
  BY DEF Prepare, AppendSnapshot, Usable
<1>2. k \in RegKeys /\ k \in Keys /\ h \in Challenges /\ r \in Requests \ MutRequests
  BY <1>1, Sorts DEF RegKeys, MutRequests
<1>3. StoreTypeOK /\ CountsTyped'
  BY <1>1, BaseParts DEF Base, TypeOK, CountsTyped
<1>4. CASE key[k].state = "COMPLETED" /\ Answer(r, "ok") /\ UNCHANGED <<challenge, snapshot, key>>
  <2>1. KeysKept /\ key' \in [Keys -> KeyRow]
    BY <1>3, <1>4, KeysLoosened DEF StoreTypeOK
  <2>2. QED
    BY <1>1, <1>3, <1>4, <2>1, AnswerDoes, ClientStep DEF Unstarted, Mutating
<1>5. ASSUME Reservable(k), challenge[h].state = "VERIFIED",
             challenge[h].registration \in {None, k}, key' = Reserved(k, 0),
             challenge' = [challenge EXCEPT ![h].registration = k],
             snapshot' = [snapshot EXCEPT ![k] = "KEYCLOAK_PENDING"], Goto(r, "prepared")
      PROVE  IdentityInv'
  <2>1. /\ client' \in [Requests -> ClientRow] /\ Only(client, client', Requests, r)
        /\ client'[r].pc = "prepared" /\ client'[r].answer = client[r].answer
        /\ client'[r].user = client[r].user
    BY <1>3, <1>5, GotoDoes DEF Places
  <2>2. /\ key' \in [Keys -> KeyRow] /\ Only(key, key', Keys, k)
        /\ key[k].state # "COMPLETED" /\ key'[k].state = "HELD"
    BY <1>2, <1>3, <1>5, ReservedDoes
  <2>3. /\ challenge' \in [Challenges -> ChallengeRow] /\ Only(challenge, challenge', Challenges, h)
        /\ challenge'[h].registration = k /\ challenge'[h].state = "VERIFIED"
        /\ challenge'[h].tries = challenge[h].tries
    BY <1>2, <1>3, <1>5 DEF StoreTypeOK, ChallengeRow, Only
  <2>4. /\ snapshot' \in [RegKeys -> SnapshotStates] /\ Only(snapshot, snapshot', RegKeys, k)
        /\ snapshot'[k] # "COMPLETED"
    BY <1>2, <1>3, <1>5 DEF StoreTypeOK, SnapshotStates, Only
  <2>5. Base'
    <3>1. ClientsTyped'
      BY <1>2, <2>1, BaseParts DEF ClientsTyped, Only, Registering, Mutating
    <3>2. ChallengesSound'
      BY <1>1, <2>3, BaseParts DEF ChallengesSound, Only
    <3>3. WorkersSound' /\ JobsSound' /\ RowsTyped'
      BY <1>1, <2>2, <2>4, BaseParts, WorkersStay DEF JobsSound, RowsTyped
    <3>4. QED
      BY <1>3, <3>1, <3>2, <3>3, BaseNext
  <2>6. VersionCounts'
    <3>1. KeysKept
      BY <1>2, <2>2, KeysLoosened
    <3>2. AnswersKept
      BY <2>1 DEF AnswersKept, Only
    <3>3. QED
      BY <1>1, <3>1, <3>2, VersionKept DEF IdentityInv
  <2>7. ChallengesBound'
    <3>1. \A q \in Keys : BoundTo(q) => BoundTo(q)'
      <4>1. \A q \in Keys : UsesOf[q] \in Challenges
        BY IdentityAssumption
      <4>2. \A q \in Keys : challenge[UsesOf[q]].registration = q => UsesOf[q] # h \/ q = k
        BY <1>2, <1>5, Sorts
      <4>3. QED
        BY <4>1, <4>2, <2>3 DEF BoundTo, Only
    <3>2. BoundTo(k)'
      BY <2>3 DEF BoundTo, h
    <3>3. \A q \in Requests : client'[q].pc \in Registering => BoundTo(KeyOf[q])'
      <4>1. \A q \in Requests \ {r} : client'[q].pc \in Registering => BoundTo(KeyOf[q])'
        BY <2>1, <3>1, Sorts DEF IdentityInv, ChallengesBound, Only
      <4>2. QED
        BY <3>2, <4>1
    <3>4. \A q \in RegKeys : job'[q].state # None => BoundTo(q)'
      BY <1>1, <3>1, Sorts DEF IdentityInv, ChallengesBound
    <3>5. \A q \in RegKeys : snapshot'[q] = "COMPLETED" => consumedBy'[UsesOf[q]] = {q}
      BY <1>1, <2>4 DEF IdentityInv, ChallengesBound, Only
    <3>6. \A g \in ForRegistration : consumedBy'[g] \subseteq {challenge'[g].registration}
      <4>1. ASSUME NEW g \in ForRegistration
            PROVE  consumedBy[g] \subseteq {challenge'[g].registration}
        <5>1. g \in Challenges /\ consumedBy[g] \subseteq {challenge[g].registration}
              /\ consumedBy[g] \subseteq Keys
          BY <1>3, Sorts DEF ForRegistration, IdentityInv, ChallengesBound, StoreTypeOK
        <5>2. CASE g = h
          BY <5>1, <5>2, <1>5, <2>3, Sorts
        <5>3. CASE g # h
          BY <5>1, <5>3, <2>3 DEF Only
        <5>4. QED
          BY <5>2, <5>3
      <4>2. QED
        BY <1>1, <4>1
    <3>7. \A g \in Challenges \ ForRegistration :
            \/ consumedBy'[g] = {}
            \/ challenge'[g].state = "CONSUMED" /\ \E q \in Keys : consumedBy'[g] = {q}
      BY <1>1, <1>2, <2>3 DEF IdentityInv, ChallengesBound, Only, ForRegistration, h
    <3>8. QED
      BY <3>3, <3>4, <3>5, <3>6, <3>7 DEF ChallengesBound
  <2>8. UserStands'
    <3>1. OwnersKept
      BY <1>1, <2>1, <2>4 DEF OwnersKept, Only
    <3>2. QED
      BY <3>1, UserKept DEF IdentityInv
  <2>9. JobsHold' /\ ChangesAgree'
    <3>1. \A q \in Requests : client'[q].user <= user.born
      BY <2>1 DEF Only, IdentityInv, JobsHold
    <3>2. QED
      BY <1>1, <1>2, <2>1, <3>1, Unmoved, MutationsKept DEF IdentityInv
  <2>10. QED
    BY <2>5, <2>6, <2>7, <2>8, <2>9 DEF IdentityInv, Base
<1>6. QED
  BY <1>1, <1>4, <1>5

\* The user is found, or made where there is none.
LEMMA CreateKeeps ==
  ASSUME IdentityInv, Base, NEW r \in Requests, CreateLearner(r)
  PROVE  IdentityInv'
<1> DEFINE k == KeyOf[r]
           conflict == user.id # 0 /\ user.owner # k
           found == user' = user /\ user.id # 0 /\ user.owner = k
           made == /\ user.id = 0 /\ user'.id = user.born + 1 /\ user'.born = user.born + 1
                   /\ user'.owner = k /\ user'.changes = {}
<1>1. /\ client[r].pc = "prepared"
      /\ UNCHANGED <<challenge, sends, snapshot, account, job, worker, consumedBy, drift, blind>>
      /\ \/ /\ ~conflict /\ NoFault /\ user' = Created(k) /\ UNCHANGED key
            /\ client' = [client EXCEPT ![r] = [pc |-> "created", user |-> user'.id,
                                                seen |-> @.seen, answer |-> @.answer]]
         \/ /\ IF conflict THEN NoFault ELSE Fault
            /\ user' \in (IF conflict THEN {user} ELSE {user, Created(k)})
            /\ key' = Released(k) /\ Answer(r, "error")
  BY DEF CreateLearner
<1>2. r \in Requests \ MutRequests /\ k \in RegKeys /\ k \in Keys /\ StoreTypeOK
  <2>1. r \notin MutRequests
    BY <1>1, BaseParts DEF ClientsTyped, Registering
  <2>2. QED
    BY <2>1, Sorts DEF Base, TypeOK
<1>3. /\ user' \in UserRow /\ user.id \in Nat /\ user.born \in Nat
      /\ user' = user \/ found \/ made
      /\ client'[r].pc = "created" => found \/ made
  <2>1. /\ user \in UserRow /\ user.id \in Nat /\ user.born \in Nat /\ Created(k) \in UserRow
        /\ user.id = 0 => /\ Created(k).id = user.born + 1 /\ Created(k).born = user.born + 1
                          /\ Created(k).owner = k /\ Created(k).changes = {}
        /\ user.id # 0 => Created(k) = user
    BY <1>2, UserTyped
  <2>2. user' = Created(k) /\ ~conflict => found \/ made
    BY <2>1
  <2>3. Answer(r, "error") => client'[r].pc # "created"
    BY <1>2, AnswerDoes
  <2>4. QED
    BY <1>1, <2>1, <2>2, <2>3
<1>4. /\ client' \in [Requests -> ClientRow] /\ Only(client, client', Requests, r)
      /\ client'[r].pc \in {"created", "done"}
      /\ client'[r].pc = "created" => client'[r].user = user'.id
      /\ client'[r].user \in {client[r].user, user'.id}
      /\ client'[r].answer # "ok" \/ client'[r].answer = client[r].answer
      /\ key' \in [Keys -> KeyRow] /\ KeysKept
  <2>1. CASE /\ UNCHANGED key
             /\ client' = [client EXCEPT ![r] = [pc |-> "created", user |-> user'.id,
                                                 seen |-> @.seen, answer |-> @.answer]]
    <3>1. client \in [Requests -> ClientRow] /\ user'.id \in Nat /\ key \in [Keys -> KeyRow]
      BY <1>2, <1>3 DEF StoreTypeOK, UserRow
    <3>2. [pc |-> "created", user |-> user'.id, seen |-> client[r].seen,
           answer |-> client[r].answer] \in ClientRow
      BY <3>1 DEF ClientRow, Places
    <3>3. QED
      BY <2>1, <3>1, <3>2, KeysLoosened DEF Only
  <2>2. CASE key' = Released(k) /\ Answer(r, "error")
    BY <2>2, <1>2, AnswerDoes, ReleasedDoes, KeysLoosened
  <2>3. QED
    BY <1>1, <2>1, <2>2
<1>5. CountsTyped'
  BY <1>1, BaseParts, FaultDoes DEF CountsTyped
<1> HIDE DEF k
<1>6. Base'
  <2>1. ClientsTyped'
    BY <1>2, <1>4, BaseParts DEF ClientsTyped, Only, Registering, Mutating
  <2>2. WorkersSound' /\ JobsSound' /\ ChallengesSound' /\ RowsTyped'
    BY <1>1, <1>3, <1>4, BaseParts, WorkersStay DEF JobsSound, ChallengesSound, RowsTyped
  <2>3. QED
    BY <1>5, <2>1, <2>2, BaseNext
<1>7. VersionCounts'
  <2>1. AnswersKept
    BY <1>4 DEF AnswersKept, Only
  <2>2. QED
    BY <1>1, <1>4, <2>1, VersionKept DEF IdentityInv
<1>8. ChallengesBound'
  <2>1. BindingsKept
    BY <1>1 DEF BindingsKept
  <2>2. RegistrationsKept
    BY <1>1, <1>4 DEF RegistrationsKept, Only, Registering
  <2>3. QED
    BY <2>1, <2>2, ChallengesKept DEF IdentityInv
<1>9. UserStands'
  <2>1. \A q \in Requests : client'[q].pc = "undo" => blind'
    BY <1>1, <1>4 DEF IdentityInv, UserStands, Only
  <2>2. ASSUME ~blind
        PROVE  /\ \A q \in Requests :
                    client'[q].pc \in {"created", "failing"} => Owns(KeyOf[q], client[q].user)'
               /\ \A q \in RegKeys : job'[q].state # None => Owns(q, job[q].user)'
               /\ \A q \in RegKeys : snapshot'[q] = "COMPLETED" => Owns(q, account.subject)'
    <3>1. /\ \A q \in Requests :
               client[q].pc \in {"created", "failing"} => Owns(KeyOf[q], client[q].user)
          /\ \A q \in RegKeys : job[q].state # None => Owns(q, job[q].user)
          /\ \A q \in RegKeys : snapshot[q] = "COMPLETED" => Owns(q, account.subject)
      BY <2>2 DEF IdentityInv, UserStands
    <3>2. CASE user' = user
      <4>1. client'[r].pc = "created" => Owns(k, client[r].user)'
        BY <1>3, <1>4, <3>2 DEF Owns
      <4>2. QED
        BY <1>1, <1>4, <3>1, <3>2, <4>1 DEF Owns, Only, k
    <3>3. CASE made
      <4>1. /\ \A q \in Requests : client[q].pc \notin {"created", "failing"}
            /\ \A q \in RegKeys : job[q].state = None /\ snapshot[q] # "COMPLETED"
        BY <3>1, <3>3 DEF Owns
      <4>2. client'[r].pc = "created" => Owns(k, client[r].user)'
        BY <1>3, <1>4, <3>3 DEF Owns
      <4>3. QED
        BY <1>1, <1>4, <4>1, <4>2 DEF Only, k
    <3>4. QED
      BY <1>3, <3>2, <3>3
  <2>3. QED
    BY <1>1, <2>1, <2>2 DEF UserStands
<1>10. JobsHold' /\ ChangesAgree'
  <2>1. QuietJobs /\ QuietClients /\ QuietWorkers
    BY <1>1, <1>2, <1>4, Unmoved
  <2>2. CASE user' = user
    <3>1. \A q \in Requests : client'[q].user <= user.born
      BY <1>4, <2>2 DEF Only, IdentityInv, JobsHold
    <3>2. QED
      BY <1>1, <2>1, <2>2, <3>1, MutationsKept DEF IdentityInv
  <2>3. CASE made
    <3>1. account.subject \in Nat /\ account.subject <= user.born
      BY AccountTyped, <1>2 DEF IdentityInv, JobsHold, StoreTypeOK, AccountRow
    <3>2. account'.subject <= user'.born /\ user'.id <= user'.born /\ account'.subject # user'.id
      BY <1>1, <1>3, <2>3, <3>1
    <3>3. account'.subject = 0 =>
            account.subject = 0 /\ account'.changes = {} /\ user'.changes = {}
      BY <1>1, <2>3 DEF IdentityInv, JobsHold
    <3>4. \A q \in Requests : client'[q].user <= user'.born
      <4>1. \A q \in Requests : client[q].user \in Nat /\ client[q].user <= user.born
        BY <1>2 DEF IdentityInv, JobsHold, StoreTypeOK, ClientRow
      <4>2. QED
        BY <1>3, <1>4, <2>3, <4>1 DEF Only
    <3>5. QED
      BY <1>1, <2>1, <3>2, <3>3, <3>4, JobsKept, AgreeVoid DEF IdentityInv
  <2>4. QED
    BY <1>3, <2>2, <2>3
<1>11. QED
  BY <1>6, <1>7, <1>8, <1>9, <1>10 DEF IdentityInv, Base

\* The finalize transaction, from a request or from the reconciler: the parts
\* of the invariant that do not speak of who ran it.
LEMMA ProjectKeeps ==
  ASSUME IdentityInv, Base, NEW k \in RegKeys, NEW uid \in Nat,
         \/ MayFinalize(k, uid) /\ ProjectRegistration(k, uid)
         \/ UNCHANGED <<account, challenge, consumedBy, snapshot, key>>,
         BoundTo(k), ~blind => Owns(k, uid), uid <= user.born,
         QuietJobs, QuietClients, QuietWorkers, AnswersKept,
         \A r \in Requests : /\ client'[r].pc \in Registering => client[r].pc \in Registering
                             /\ client'[r].user = client[r].user
                             /\ client'[r].pc \in {"undo", "created", "failing"} =>
                                  \/ client'[r].pc = client[r].pc
                                  \/ client[r].pc = "created" /\ client'[r].pc = "failing",
         UNCHANGED <<user, job, drift, blind>>
  PROVE  /\ ChallengesSound' /\ RowsTyped'
         /\ VersionCounts' /\ ChallengesBound' /\ UserStands' /\ JobsHold' /\ ChangesAgree'
<1> DEFINE h == UsesOf[k]
<1>1. /\ account' \in AccountRow /\ key' \in [Keys -> KeyRow]
      /\ challenge' \in [Challenges -> ChallengeRow]
      /\ consumedBy' \in [Challenges -> SUBSET Keys]
      /\ snapshot' \in [RegKeys -> SnapshotStates]
      /\ \/ UNCHANGED <<account, challenge, consumedBy, snapshot, key>>
         \/ ProjectsTo(k, uid)
  BY ProjectDoes, BaseParts DEF RowsTyped, ChallengesSound
<1>2. k \in Keys /\ h \in Challenges /\ h \in ForRegistration
  BY Sorts DEF ForRegistration
<1>3. ChallengesSound'
  <2>1. CASE UNCHANGED <<challenge, consumedBy>>
    BY <2>1, BaseParts DEF ChallengesSound
  <2>2. CASE ProjectsTo(k, uid)
    BY <1>1, <1>2, <2>2, BaseParts DEF ChallengesSound, ProjectsTo, Consumes, Only
  <2>3. QED
    BY <1>1, <2>1, <2>2
<1>4. RowsTyped'
  BY <1>1, BaseParts DEF RowsTyped
<1>5. VersionCounts'
  <2>1. KeysKept
    <3>1. CASE key' = key
      BY <3>1, KeysLoosened
    <3>2. CASE ProjectsTo(k, uid)
      BY <1>2, <3>2, KeysLoosened DEF ProjectsTo
    <3>3. QED
      BY <1>1, <3>1, <3>2
  <2>2. account'.version = account.version /\ account'.flagged = account.flagged
    BY <1>1 DEF ProjectsTo
  <2>3. QED
    BY <2>1, <2>2, VersionKept DEF IdentityInv
<1>6. ASSUME UNCHANGED <<account, challenge, consumedBy, snapshot, key>>
      PROVE  ChallengesBound' /\ UserStands' /\ JobsHold' /\ ChangesAgree'
  <2>1. BindingsKept /\ RegistrationsKept
    BY <1>6 DEF BindingsKept, RegistrationsKept
  <2>2. UserStands'
    BY <1>6 DEF IdentityInv, UserStands, Owns
  <2>3. \A r \in Requests : client'[r].user <= user.born
    BY DEF IdentityInv, JobsHold
  <2>4. QED
    BY <1>6, <2>1, <2>2, <2>3, ChallengesKept, MutationsKept DEF IdentityInv
<1>7. ASSUME ProjectsTo(k, uid)
      PROVE  ChallengesBound' /\ UserStands' /\ JobsHold' /\ ChangesAgree'
  <2>1. /\ account.subject \in {0, uid} /\ account'.subject = uid
        /\ account'.changes = account.changes /\ account'.flagged = account.flagged
        /\ Only(challenge, challenge', Challenges, h)
        /\ Only(consumedBy, consumedBy', Challenges, h)
        /\ challenge'[h].registration = challenge[h].registration
        /\ consumedBy'[h] = consumedBy[h] \cup {k}
        /\ Only(snapshot, snapshot', RegKeys, k) /\ snapshot'[k] = "COMPLETED"
    BY <1>7 DEF ProjectsTo, Consumes
  <2>2. consumedBy[h] \subseteq {k} /\ challenge[h].registration = k
    BY <1>2 DEF IdentityInv, ChallengesBound, BoundTo
  <2>3. ChallengesBound'
    <3>1. \A q \in Keys : BoundTo(q) => BoundTo(q)'
      BY <1>2, <2>1, IdentityAssumption DEF BoundTo, Only
    <3>2. \A q \in Requests : client'[q].pc \in Registering => BoundTo(KeyOf[q])'
      BY <3>1, Sorts DEF IdentityInv, ChallengesBound
    <3>3. \A q \in RegKeys : job'[q].state # None => BoundTo(q)'
      BY <3>1, Sorts DEF IdentityInv, ChallengesBound
    <3>4. ASSUME NEW q \in RegKeys, snapshot'[q] = "COMPLETED"
          PROVE  consumedBy'[UsesOf[q]] = {q}
      <4>1. CASE q = k
        BY <4>1, <2>1, <2>2
      <4>2. CASE q # k
        <5>1. consumedBy[UsesOf[q]] = {q} /\ UsesOf[q] \in Challenges
          BY <3>4, <4>2, <2>1, Sorts DEF Only, IdentityInv, ChallengesBound
        <5>2. UsesOf[q] # h
          BY <5>1, <2>2, <4>2
        <5>3. QED
          BY <5>1, <5>2, <2>1 DEF Only
      <4>3. QED
        BY <4>1, <4>2
    <3>5. ASSUME NEW g \in ForRegistration
          PROVE  consumedBy'[g] \subseteq {challenge'[g].registration}
      <4>1. g \in Challenges /\ consumedBy[g] \subseteq {challenge[g].registration}
        BY Sorts DEF ForRegistration, IdentityInv, ChallengesBound
      <4>2. CASE g = h
        BY <4>2, <2>1, <2>2
      <4>3. CASE g # h
        BY <4>1, <4>3, <2>1 DEF Only
      <4>4. QED
        BY <4>2, <4>3
    <3>6. \A g \in Challenges \ ForRegistration :
            \/ consumedBy'[g] = {}
            \/ challenge'[g].state = "CONSUMED" /\ \E q \in Keys : consumedBy'[g] = {q}
      BY <1>2, <2>1 DEF IdentityInv, ChallengesBound, Only
    <3>7. QED
      BY <3>2, <3>3, <3>4, <3>5, <3>6 DEF ChallengesBound
  <2>4. UserStands'
    <3>1. \A q \in Requests : client'[q].pc = "undo" => blind'
      BY DEF IdentityInv, UserStands
    <3>2. ASSUME ~blind
          PROVE  /\ \A q \in Requests :
                      client'[q].pc \in {"created", "failing"} => Owns(KeyOf[q], client[q].user)'
                 /\ \A q \in RegKeys : job'[q].state # None => Owns(q, job[q].user)'
                 /\ \A q \in RegKeys : snapshot'[q] = "COMPLETED" => Owns(q, account.subject)'
      <4>1. /\ \A q \in Requests :
                 client[q].pc \in {"created", "failing"} => Owns(KeyOf[q], client[q].user)
            /\ \A q \in RegKeys : job[q].state # None => Owns(q, job[q].user)
            /\ \A q \in RegKeys : snapshot[q] = "COMPLETED" => Owns(q, account.subject)
            /\ Owns(k, uid)
        BY <3>2 DEF IdentityInv, UserStands
      <4>2. \A q \in RegKeys : snapshot'[q] = "COMPLETED" => Owns(q, uid)
        BY <2>1, <4>1 DEF Owns, Only
      <4>3. QED
        BY <2>1, <4>1, <4>2 DEF Owns
    <3>3. QED
      BY <3>1, <3>2 DEF UserStands
  <2>5. JobsHold'
    <3>1. account'.subject = 0 =>
            account.subject = 0 /\ account'.changes = {} /\ user'.changes = {}
      BY <2>1 DEF IdentityInv, JobsHold
    <3>2. /\ account'.subject <= user'.born /\ user'.id <= user'.born
          /\ \A r \in Requests : client'[r].user <= user'.born
      BY <2>1 DEF IdentityInv, JobsHold
    <3>3. QED
      BY <2>1, <3>1, <3>2, JobsKept DEF IdentityInv
  <2>6. ChangesAgree'
    <3>1. CASE account.subject = 0
      <4>1. account'.changes = {} /\ user'.changes = {}
        BY <2>1, <3>1 DEF IdentityInv, JobsHold
      <4>2. QED
        BY <3>1, <4>1, AgreeFresh DEF IdentityInv
    <3>2. CASE account.subject = account'.subject
      BY <2>1, <3>2, AgreeKept DEF IdentityInv
    <3>3. QED
      BY <2>1, <3>1, <3>2
  <2>7. QED
    BY <2>3, <2>4, <2>5, <2>6
<1>8. QED
  BY <1>1, <1>3, <1>4, <1>5, <1>6, <1>7

LEMMA FinalizeKeeps ==
  ASSUME IdentityInv, Base, NEW r \in Requests, FinalizeRegistration(r)
  PROVE  IdentityInv'
<1> DEFINE k == KeyOf[r]
           uid == client[r].user
           projected == MayFinalize(k, uid) /\ ProjectRegistration(k, uid)
<1>1. /\ client[r].pc = "created"
      /\ UNCHANGED <<sends, user, job, worker, drift, blind>>
      /\ \/ projected /\ Answer(r, "ok")
         \/ projected /\ Goto(r, "failing")
         \/ UNCHANGED <<account, challenge, consumedBy, snapshot, key>> /\ Goto(r, "failing")
      /\ Fault \/ NoFault
  BY DEF FinalizeRegistration
<1>2. r \in Requests \ MutRequests /\ k \in RegKeys /\ k \in Keys /\ StoreTypeOK /\ uid \in Nat
  <2>1. r \notin MutRequests
    BY <1>1, BaseParts DEF ClientsTyped, Registering
  <2>2. QED
    BY <2>1, Sorts DEF Base, TypeOK, StoreTypeOK, ClientRow
<1>3. /\ client' \in [Requests -> ClientRow] /\ Only(client, client', Requests, r)
      /\ client'[r].pc \in {"done", "failing"} /\ client'[r].user = uid
      /\ client'[r].answer = "ok" => client[r].answer = "ok" \/ projected
  BY <1>1, <1>2, AnswerDoes, GotoDoes DEF Places
<1>4. AnswersKept
  <2>1. projected => key'[k].state = "COMPLETED"
    BY <1>2, ProjectDoes DEF ProjectsTo
  <2>2. QED
    BY <1>3, <2>1 DEF AnswersKept, Only
<1>5. QuietJobs /\ QuietClients /\ QuietWorkers
  BY <1>1, <1>2, <1>3, Unmoved
<1>6. BoundTo(k) /\ (~blind => Owns(k, uid)) /\ uid <= user.born
  BY <1>1 DEF IdentityInv, ChallengesBound, UserStands, JobsHold, Registering
<1>7. \A q \in Requests : /\ client'[q].pc \in Registering => client[q].pc \in Registering
                          /\ client'[q].user = client[q].user
                          /\ client'[q].pc \in {"undo", "created", "failing"} =>
                               \/ client'[q].pc = client[q].pc
                               \/ client[q].pc = "created" /\ client'[q].pc = "failing"
  BY <1>1, <1>3 DEF Only, Registering
<1>8. projected \/ UNCHANGED <<account, challenge, consumedBy, snapshot, key>>
  BY <1>1
<1> HIDE DEF k, uid
<1>9. /\ ChallengesSound' /\ RowsTyped'
      /\ VersionCounts' /\ ChallengesBound' /\ UserStands' /\ JobsHold' /\ ChangesAgree'
  BY <1>1, <1>2, <1>4, <1>5, <1>6, <1>7, <1>8, ProjectKeeps
<1>10. Base'
  <2>1. ClientsTyped'
    BY <1>2, <1>3, BaseParts DEF ClientsTyped, Only, Registering, Mutating
  <2>2. WorkersSound' /\ JobsSound' /\ CountsTyped'
    BY <1>1, BaseParts, WorkersStay, FaultDoes DEF JobsSound, CountsTyped
  <2>3. QED
    BY <1>9, <2>1, <2>2, BaseNext
<1>11. QED
  BY <1>9, <1>10 DEF IdentityInv, Base

LEMMA ScheduleKeeps ==
  ASSUME IdentityInv, Base, NEW r \in Requests, ScheduleReconciliation(r)
  PROVE  IdentityInv'
<1> DEFINE k == KeyOf[r]
           uid == client[r].user
           scheduled == MaySchedule(k) /\ Scheduled(k, uid)
<1>1. /\ client[r].pc = "failing"
      /\ UNCHANGED <<challenge, sends, user, account, key, worker, consumedBy, drift>>
      /\ \/ scheduled /\ Answer(r, "error") /\ UNCHANGED blind
         \/ /\ scheduled \/ UNCHANGED <<snapshot, job>>
            /\ Goto(r, "undo") /\ blind' = TRUE
      /\ Fault \/ NoFault
  BY DEF ScheduleReconciliation
<1>2. r \in Requests \ MutRequests /\ k \in RegKeys /\ k \in Keys /\ StoreTypeOK /\ uid \in Nat
  <2>1. r \notin MutRequests
    BY <1>1, BaseParts DEF ClientsTyped, Registering
  <2>2. QED
    BY <2>1, Sorts DEF Base, TypeOK, StoreTypeOK, ClientRow
<1>3. /\ client' \in [Requests -> ClientRow] /\ Only(client, client', Requests, r)
      /\ client'[r].user = uid
      /\ client'[r].answer # "ok" \/ client'[r].answer = client[r].answer
      /\ client'[r].pc \in {"done", "undo"} /\ (client'[r].pc = "undo" => blind')
      /\ blind => blind'
  BY <1>1, <1>2, AnswerDoes, GotoDoes DEF Places
<1>4. /\ snapshot' \in [RegKeys -> SnapshotStates] /\ job' \in [JobIds -> JobRow]
      /\ Only(job, job', JobIds, k)
      /\ \A q \in RegKeys : snapshot'[q] = "COMPLETED" <=> snapshot[q] = "COMPLETED"
      /\ job'[k] = job[k] \/ (job'[k].state = "PENDING" /\ job'[k].user = uid)
  <2>1. CASE scheduled
    BY <2>1, <1>2, ScheduledDoes DEF Only
  <2>2. CASE UNCHANGED <<snapshot, job>>
    BY <2>2, <1>2, JobsTyped DEF StoreTypeOK, Only
  <2>3. QED
    BY <1>1, <2>1, <2>2
<1> HIDE DEF k, uid
<1>5. Base'
  <2>1. ClientsTyped'
    BY <1>2, <1>3, BaseParts DEF ClientsTyped, Only, Registering, Mutating
  <2>2. JobsSound' /\ \A j \in JobIds : job[j].state # None => job'[j].state # None
    BY <1>2, <1>4, Sorts, BaseParts DEF JobsSound, Only
  <2>3. ChallengesSound' /\ RowsTyped' /\ WorkersSound' /\ CountsTyped'
    BY <1>1, <1>4, <2>2, BaseParts, WorkersStay, FaultDoes
       DEF ChallengesSound, RowsTyped, CountsTyped
  <2>4. QED
    BY <2>1, <2>2, <2>3, BaseNext
<1>6. VersionCounts'
  <2>1. KeysKept /\ AnswersKept
    BY <1>1, <1>3, KeysLoosened DEF AnswersKept, Only
  <2>2. QED
    BY <1>1, <2>1, VersionKept DEF IdentityInv
<1>7. ChallengesBound'
  <2>1. BindingsKept
    BY <1>1 DEF BindingsKept
  <2>2. RegistrationsKept
    <3>1. \A q \in RegKeys : q # k => job'[q] = job[q]
      BY <1>4, Sorts DEF Only
    <3>2. client[r].pc \in Registering /\ KeyOf[r] = k
      BY <1>1 DEF Registering, k
    <3>3. \A q \in Requests : client'[q].pc \in Registering => client[q].pc \in Registering
      BY <1>1, <1>3 DEF Only, Registering
    <3>4. QED
      BY <1>4, <3>1, <3>2, <3>3 DEF RegistrationsKept
  <2>3. QED
    BY <2>1, <2>2, ChallengesKept DEF IdentityInv
<1>8. UserStands'
  <2>1. \A q \in Requests : client'[q].pc = "undo" => blind'
    BY <1>3 DEF IdentityInv, UserStands, Only
  <2>2. ASSUME ~blind'
        PROVE  /\ \A q \in Requests :
                    client'[q].pc \in {"created", "failing"} => Owns(KeyOf[q], client[q].user)'
               /\ \A q \in RegKeys : job'[q].state # None => Owns(q, job[q].user)'
               /\ \A q \in RegKeys : snapshot'[q] = "COMPLETED" => Owns(q, account.subject)'
    <3>1. /\ \A q \in Requests :
               client[q].pc \in {"created", "failing"} => Owns(KeyOf[q], client[q].user)
          /\ \A q \in RegKeys : job[q].state # None => Owns(q, job[q].user)
          /\ \A q \in RegKeys : snapshot[q] = "COMPLETED" => Owns(q, account.subject)
      BY <1>3, <2>2 DEF IdentityInv, UserStands
    <3>2. Owns(k, uid)
      BY <1>1, <3>1 DEF k, uid
    <3>3. \A q \in Requests :
            client'[q].pc \in {"created", "failing"} => Owns(KeyOf[q], client[q].user)'
      BY <1>1, <1>3, <3>1 DEF Owns, Only
    <3>4. \A q \in RegKeys : job'[q].state # None => Owns(q, job[q].user)'
      BY <1>1, <1>4, <3>1, <3>2, Sorts DEF Owns, Only
    <3>5. \A q \in RegKeys : snapshot'[q] = "COMPLETED" => Owns(q, account.subject)'
      BY <1>1, <1>4, <3>1 DEF Owns
    <3>6. QED
      BY <3>3, <3>4, <3>5
  <2>3. QED
    BY <2>1, <2>2 DEF UserStands
<1>9. JobsHold' /\ ChangesAgree'
  <2>1. \A m \in MutRequests : job'[m] = job[m]
    BY <1>2, <1>4, Sorts DEF Only
  <2>2. QuietJobs /\ QuietWorkers
    BY <1>1, <2>1 DEF QuietJobs, QuietWorkers, Restorer, Mine
  <2>3. QuietClients
    BY <1>2, <1>3, Unmoved
  <2>4. \A q \in Requests : client'[q].user <= user.born
    <3>1. \A q \in Requests : client[q].user <= user.born
      BY DEF IdentityInv, JobsHold
    <3>2. \A q \in Requests : client'[q].user = client[q].user
      BY <1>3 DEF Only, uid
    <3>3. QED
      BY <3>1, <3>2
  <2>5. QED
    BY <1>1, <2>2, <2>3, <2>4, MutationsKept DEF IdentityInv
<1>10. QED
  BY <1>5, <1>6, <1>7, <1>8, <1>9 DEF IdentityInv, Base

\* The user is deleted only where scheduling had failed.
LEMMA UndoKeeps ==
  ASSUME IdentityInv, Base, NEW r \in Requests, UndoRegistration(r)
  PROVE  IdentityInv'
<1> DEFINE gone == [id |-> 0, owner |-> None, changes |-> {}, born |-> user.born]
<1>1. /\ client[r].pc = "undo" /\ (user' = user \/ user' = gone)
      /\ key' = Released(KeyOf[r]) /\ Answer(r, "error") /\ (Fault \/ NoFault)
      /\ UNCHANGED <<challenge, sends, snapshot, account, job, worker, consumedBy, drift, blind>>
  BY DEF UndoRegistration
<1>2. r \in Requests \ MutRequests /\ KeyOf[r] \in Keys /\ StoreTypeOK /\ blind /\ blind'
  <2>1. r \notin MutRequests
    BY <1>1, BaseParts DEF ClientsTyped, Registering
  <2>2. QED
    BY <1>1, <2>1, Sorts DEF Base, TypeOK, IdentityInv, UserStands
<1>3. /\ client' \in [Requests -> ClientRow] /\ Only(client, client', Requests, r)
      /\ client'[r].pc = "done" /\ client'[r].user = client[r].user
      /\ client'[r].answer # "ok" /\ key' \in [Keys -> KeyRow] /\ KeysKept
  BY <1>1, <1>2, AnswerDoes, ReleasedDoes, KeysLoosened
<1>4. user' \in UserRow /\ user'.born = user.born
  BY <1>1, <1>2 DEF StoreTypeOK, UserRow
<1>5. Base'
  <2>1. ClientsTyped'
    BY <1>3, BaseParts DEF ClientsTyped, Only, Registering, Mutating
  <2>2. JobsSound' /\ ChallengesSound' /\ RowsTyped' /\ WorkersSound' /\ CountsTyped'
    BY <1>1, <1>3, <1>4, BaseParts, WorkersStay, FaultDoes
       DEF JobsSound, ChallengesSound, RowsTyped, CountsTyped
  <2>3. QED
    BY <2>1, <2>2, BaseNext
<1>6. VersionCounts'
  <2>1. AnswersKept
    BY <1>3 DEF AnswersKept, Only
  <2>2. QED
    BY <1>1, <1>3, <2>1, VersionKept DEF IdentityInv
<1>7. ChallengesBound'
  <2>1. BindingsKept /\ RegistrationsKept
    BY <1>1, <1>3 DEF BindingsKept, RegistrationsKept, Only, Registering
  <2>2. QED
    BY <2>1, ChallengesKept DEF IdentityInv
<1>8. UserStands'
  BY <1>2 DEF UserStands
<1>9. QuietJobs /\ QuietClients /\ QuietWorkers
  BY <1>1, <1>2, <1>3, Unmoved
<1>10. \A q \in Requests : client'[q].user <= user.born
  BY <1>3 DEF Only, IdentityInv, JobsHold
<1>11. JobsHold' /\ ChangesAgree'
  <2>1. CASE user' = user
    BY <1>1, <1>9, <1>10, <2>1, MutationsKept DEF IdentityInv
  <2>2. CASE user' = gone
    <3>1. user.born \in Nat /\ user'.id = 0 /\ user'.changes = {} /\ user'.born = user.born
      BY <1>2, <2>2 DEF StoreTypeOK, UserRow
    <3>2. /\ account'.subject <= user'.born /\ user'.id <= user'.born
          /\ account'.subject = 0 =>
               account.subject = 0 /\ account'.changes = {} /\ user'.changes = {}
      BY <1>1, <3>1 DEF IdentityInv, JobsHold
    <3>3. QED
      BY <1>1, <1>9, <1>10, <3>1, <3>2, JobsKept, AgreeVoid DEF IdentityInv
  <2>3. QED
    BY <1>1, <2>1, <2>2
<1>12. QED
  BY <1>5, <1>6, <1>7, <1>8, <1>11 DEF IdentityInv, Base

LEMMA EnsureKeeps ==
  ASSUME IdentityInv, Base, EnsureAccountProjection
  PROVE  IdentityInv'
<1>1. /\ user.id # 0 /\ account.subject = 0
      /\ account' = [subject |-> user.id, changes |-> user.changes,
                     flagged |-> account.flagged, version |-> account.version]
      /\ UNCHANGED <<challenge, sends, snapshot, user, job, key, client, worker, consumedBy,
                     drift, blind, faults>>
  BY DEF EnsureAccountProjection
<1>2. /\ account' \in AccountRow /\ account'.subject = user.id /\ account'.changes = user.changes
      /\ account'.flagged = account.flagged /\ account'.version = account.version
  BY <1>1 DEF Base, TypeOK, StoreTypeOK, UserRow, AccountRow
<1>3. Base'
  <2>1. ClientsTyped' /\ JobsSound' /\ ChallengesSound' /\ RowsTyped' /\ WorkersSound' /\ CountsTyped'
    BY <1>1, <1>2, BaseParts, WorkersStay
       DEF ClientsTyped, JobsSound, ChallengesSound, RowsTyped, CountsTyped
  <2>2. QED
    BY <2>1, BaseNext
<1>4. VersionCounts'
  <2>1. KeysKept /\ AnswersKept
    BY <1>1, KeysLoosened DEF AnswersKept
  <2>2. QED
    BY <1>2, <2>1, VersionKept DEF IdentityInv
<1>5. ChallengesBound'
  <2>1. BindingsKept /\ RegistrationsKept
    BY <1>1 DEF BindingsKept, RegistrationsKept
  <2>2. QED
    BY <2>1, ChallengesKept DEF IdentityInv
<1>6. UserStands'
  <2>1. ~blind => \A k \in RegKeys : snapshot[k] # "COMPLETED"
    BY <1>1 DEF IdentityInv, UserStands, Owns
  <2>2. QED
    BY <1>1, <2>1 DEF IdentityInv, UserStands, Owns
<1>7. QuietJobs /\ QuietClients
  BY <1>1, Unmoved
<1>8. JobsHold' /\ ChangesAgree'
  <2>1. user'.changes = {} /\ account'.changes = {}
    BY <1>1, <1>2 DEF IdentityInv, JobsHold
  <2>2. /\ account'.subject <= user'.born /\ user'.id <= user'.born
        /\ \A r \in Requests : client'[r].user <= user'.born
    BY <1>1, <1>2 DEF IdentityInv, JobsHold
  <2>3. QED
    BY <1>1, <1>2, <1>7, <2>1, <2>2, JobsKept, AgreeFresh DEF IdentityInv
<1>9. QED
  BY <1>3, <1>4, <1>5, <1>6, <1>8 DEF IdentityInv, Base

LEMMA CrashKeeps ==
  ASSUME IdentityInv, Base, NEW r \in Requests, CrashRequest(r)
  PROVE  IdentityInv'
<1>1. /\ Fault /\ Goto(r, "crashed")
      /\ UNCHANGED <<challenge, sends, snapshot, user, account, job, key, worker, consumedBy,
                     drift, blind>>
  BY DEF CrashRequest
<1>2. StoreTypeOK /\ key' \in [Keys -> KeyRow] /\ KeysKept
  BY <1>1, KeysLoosened DEF Base, TypeOK, StoreTypeOK
<1>3. /\ client' \in [Requests -> ClientRow] /\ Only(client, client', Requests, r)
      /\ client'[r].pc = "crashed" /\ client'[r].user = client[r].user
      /\ client'[r].answer = client[r].answer
  BY <1>1, <1>2, GotoDoes DEF Places
<1>4. CountsTyped'
  BY <1>1, BaseParts, FaultDoes DEF CountsTyped
<1>5. QED
  BY <1>1, <1>2, <1>3, <1>4, ClientStep DEF Unstarted, Mutating

LEMMA BeginKeeps ==
  ASSUME IdentityInv, Base, NEW r \in Requests, Begin(r)
  PROVE  IdentityInv'
<1> DEFINE k == KeyOf[r]
<1>1. /\ client[r].pc = "idle" /\ r \in MutRequests /\ account.subject # 0
      /\ UNCHANGED <<challenge, sends, snapshot, user, account, job, worker, consumedBy, drift,
                     blind, faults>>
      /\ \/ key[k].state = "COMPLETED" /\ Answer(r, "ok") /\ UNCHANGED key
         \/ Reservable(k) /\ key' = Reserved(k, account.version) /\ Goto(r, "begun")
  BY DEF Begin
<1>2. StoreTypeOK /\ k \in Keys /\ account.version \in Nat /\ CountsTyped'
  BY <1>1, Sorts, BaseParts, AccountTyped DEF Base, TypeOK, CountsTyped
<1>3. /\ client' \in [Requests -> ClientRow] /\ Only(client, client', Requests, r)
      /\ client'[r].pc \in {"done", "begun"} /\ client'[r].user = client[r].user
      /\ client'[r].answer = "ok" => client[r].answer = "ok" \/ key'[k].state = "COMPLETED"
  BY <1>1, <1>2, AnswerDoes, GotoDoes DEF Places
<1>4. key' \in [Keys -> KeyRow] /\ KeysKept
  BY <1>1, <1>2, ReservedDoes, KeysLoosened DEF StoreTypeOK
<1>5. QED
  BY <1>1, <1>2, <1>3, <1>4, ClientStep DEF Unstarted, Mutating

LEMMA ReadUserKeeps ==
  ASSUME IdentityInv, Base, NEW r \in Requests, ReadUser(r)
  PROVE  IdentityInv'
<1> DEFINE read == client' = [client EXCEPT ![r] = [pc |-> "read", user |-> user.id,
                                                    seen |-> user.changes, answer |-> @.answer]]
<1>1. /\ client[r].pc = "begun" /\ (Fault \/ NoFault)
      /\ UNCHANGED <<challenge, sends, snapshot, user, account, job, worker, consumedBy, drift,
                     blind>>
      /\ \/ read /\ UNCHANGED key
         \/ Answer(r, "error") /\ key' = Released(KeyOf[r])
  BY DEF ReadUser
<1>2. /\ StoreTypeOK /\ KeyOf[r] \in Keys /\ CountsTyped'
      /\ r \in MutRequests
  BY <1>1, Sorts, BaseParts, FaultDoes DEF Base, TypeOK, CountsTyped, ClientsTyped, Mutating
<1>3. /\ client' \in [Requests -> ClientRow] /\ Only(client, client', Requests, r)
      /\ client'[r].pc \in {"done", "read"} /\ client'[r].user \in {client[r].user, user.id}
      /\ client'[r].answer = "ok" => client[r].answer = "ok"
  <2>1. CASE read
    <3>1. client \in [Requests -> ClientRow] /\ user \in UserRow
      BY <1>2 DEF StoreTypeOK
    <3>2. [pc |-> "read", user |-> user.id, seen |-> user.changes, answer |-> client[r].answer]
            \in ClientRow
      BY <3>1 DEF ClientRow, UserRow, Places
    <3>3. QED
      BY <2>1, <3>1, <3>2 DEF Only
  <2>2. CASE Answer(r, "error")
    BY <2>2, <1>2, AnswerDoes
  <2>3. QED
    BY <1>1, <2>1, <2>2
<1>4. key' \in [Keys -> KeyRow] /\ KeysKept
  BY <1>1, <1>2, ReleasedDoes, KeysLoosened DEF StoreTypeOK
<1>5. QED
  BY <1>1, <1>2, <1>3, <1>4, ClientStep DEF Unstarted, Mutating

\* A job is marked due or stale, at most with the end of a request.
LEMMA MarkKeeps ==
  ASSUME IdentityInv, Base, NEW j \in JobIds,
         job' \in [JobIds -> JobRow], Only(job, job', JobIds, j), SameWork(job[j], job'[j]),
         job'[j].state = job[j].state, job'[j].token = job[j].token,
         client' \in [Requests -> ClientRow],
         \A r \in Requests : \/ client'[r] = client[r]
                             \/ /\ client'[r].pc = "done" /\ client'[r].user = client[r].user
                                /\ client'[r].answer # "ok",
         UNCHANGED <<challenge, snapshot, user, account, key, worker, consumedBy, drift, blind>>,
         CountsTyped'
  PROVE  IdentityInv'
<1>1. \A i \in JobIds : job'[i].state = job[i].state /\ job'[i].token = job[i].token
                        /\ SameWork(job[i], job'[i])
  BY DEF Only, SameWork
<1>2. Base'
  <2>1. ClientsTyped'
    BY BaseParts DEF ClientsTyped, Registering, Mutating
  <2>2. JobsSound' /\ ChallengesSound' /\ RowsTyped' /\ WorkersSound'
    BY <1>1, BaseParts, WorkersStay DEF JobsSound, ChallengesSound, RowsTyped, SameWork
  <2>3. QED
    BY <2>1, <2>2, BaseNext
<1>3. VersionCounts'
  <2>1. KeysKept /\ AnswersKept
    BY KeysLoosened DEF AnswersKept
  <2>2. QED
    BY <2>1, VersionKept DEF IdentityInv
<1>4. ChallengesBound' /\ UserStands'
  <2>1. BindingsKept
    BY DEF BindingsKept
  <2>2. RegistrationsKept
    BY <1>1, Sorts DEF RegistrationsKept, Registering
  <2>3. OwnersKept
    BY <1>1, Sorts DEF OwnersKept, SameWork
  <2>4. QED
    BY <2>1, <2>2, <2>3, ChallengesKept, UserKept DEF IdentityInv
<1>5. JobsHold' /\ ChangesAgree'
  <2>1. QuietJobs
    BY <1>1, Sorts DEF QuietJobs, SameWork
  <2>2. QuietWorkers
    BY <1>1, Sorts DEF QuietWorkers, Restorer, Mine
  <2>3. QuietClients
    BY Sorts DEF QuietClients, Unstarted, Mutating
  <2>4. \A r \in Requests : client'[r].user <= user.born
    BY DEF IdentityInv, JobsHold
  <2>5. QED
    BY <2>1, <2>2, <2>3, <2>4, MutationsKept DEF IdentityInv
<1>6. QED
  BY <1>2, <1>3, <1>4, <1>5 DEF IdentityInv, Base

LEMMA QueueKeeps ==
  ASSUME IdentityInv, Base, NEW r \in Requests, QueueCompensation(r)
  PROVE  IdentityInv'
<1>1. /\ client[r].pc = "abort" /\ Answer(r, "error") /\ (Fault \/ NoFault)
      /\ \/ job' = [job EXCEPT ![r].due = @ \/ job[r].state = "PENDING"]
         \/ UNCHANGED job
      /\ UNCHANGED <<challenge, sends, snapshot, user, account, key, worker, consumedBy, drift,
                     blind>>
  BY DEF QueueCompensation
<1>2. r \in MutRequests /\ r \in JobIds /\ StoreTypeOK /\ CountsTyped'
  BY <1>1, Sorts, BaseParts, FaultDoes DEF Base, TypeOK, CountsTyped, ClientsTyped, Mutating
<1>3. /\ client' \in [Requests -> ClientRow] /\ Only(client, client', Requests, r)
      /\ client'[r].pc = "done" /\ client'[r].user = client[r].user
      /\ client'[r].answer # "ok"
  BY <1>1, <1>2, AnswerDoes
<1>4. /\ job' \in [JobIds -> JobRow] /\ Only(job, job', JobIds, r)
      /\ SameWork(job[r], job'[r]) /\ job'[r].state = job[r].state
      /\ job'[r].token = job[r].token
  <2>1. CASE UNCHANGED job
    BY <2>1, JobsTyped DEF Only, SameWork
  <2>2. CASE job' = [job EXCEPT ![r].due = @ \/ job[r].state = "PENDING"]
    <3>1. PICK b \in BOOLEAN : b = (job[r].due \/ job[r].state = "PENDING")
      OBVIOUS
    <3>2. job' = [job EXCEPT ![r].due = b]
      BY <1>2, <2>2, <3>1, JobsTyped
    <3>3. QED
      BY <1>2, <3>2, MarkedDoes
  <2>3. QED
    BY <1>1, <2>1, <2>2
<1>5. \A q \in Requests : \/ client'[q] = client[q]
                          \/ /\ client'[q].pc = "done" /\ client'[q].user = client[q].user
                             /\ client'[q].answer # "ok"
  BY <1>3 DEF Only
<1>6. QED
  BY <1>1, <1>2, <1>3, <1>4, <1>5, MarkKeeps

LEMMA JobTimersKeep ==
  ASSUME IdentityInv, Base, NEW j \in JobIds, JobDue(j) \/ ClaimLapses(j)
  PROVE  IdentityInv'
<1>1. /\ job' = [job EXCEPT ![j].due = TRUE] \/ job' = [job EXCEPT ![j].stale = TRUE]
      /\ Fault \/ NoFault
      /\ UNCHANGED <<challenge, sends, snapshot, user, account, key, client, worker, consumedBy,
                     drift, blind>>
  BY DEF JobDue, ClaimLapses
<1>2. /\ job' \in [JobIds -> JobRow] /\ Only(job, job', JobIds, j)
      /\ SameWork(job[j], job'[j]) /\ job'[j].state = job[j].state
      /\ job'[j].token = job[j].token
  BY <1>1, MarkedDoes
<1>3. CountsTyped' /\ client' \in [Requests -> ClientRow]
  BY <1>1, BaseParts, FaultDoes DEF CountsTyped, ClientsTyped
<1>4. QED
  BY <1>1, <1>2, <1>3, MarkKeeps

\* The job is armed with what was read, which is what the projection shows
\* unless another mutation came between.
LEMMA ArmKeeps ==
  ASSUME IdentityInv, Base, NEW r \in Requests, ArmCompensation(r)
  PROVE  IdentityInv'
<1> DEFINE armed == [job EXCEPT ![r] = [state |-> "PENDING", attempts |-> 0, due |-> FALSE,
                                        stale |-> FALSE, token |-> None,
                                        user |-> client[r].user, restore |-> client[r].seen]]
<1>1. /\ client[r].pc = "read" /\ (Fault \/ NoFault)
      /\ UNCHANGED <<challenge, sends, snapshot, user, account, worker, consumedBy, blind>>
      /\ \/ /\ MayArm(r) /\ job' = armed /\ drift' = (drift \/ client[r].seen # account.changes)
            /\ Goto(r, "armed") /\ UNCHANGED key
         \/ Answer(r, "error") /\ key' = Released(KeyOf[r]) /\ UNCHANGED <<job, drift>>
  BY DEF ArmCompensation
<1>2. r \in MutRequests /\ r \in JobIds /\ KeyOf[r] \in Keys /\ StoreTypeOK
  BY <1>1, Sorts, BaseParts DEF Base, TypeOK, ClientsTyped, Mutating
<1>3. CASE Answer(r, "error") /\ key' = Released(KeyOf[r]) /\ UNCHANGED <<job, drift>>
  <2>1. CountsTyped'
    BY <1>1, <1>3, BaseParts, FaultDoes DEF CountsTyped
  <2>2. key' \in [Keys -> KeyRow] /\ KeysKept
    BY <1>2, <1>3, ReleasedDoes, KeysLoosened
  <2>3. /\ client' \in [Requests -> ClientRow] /\ Only(client, client', Requests, r)
        /\ client'[r].pc = "done" /\ client'[r].user = client[r].user
        /\ client'[r].answer # "ok"
    BY <1>2, <1>3, AnswerDoes
  <2>4. QED
    BY <1>1, <1>3, <2>1, <2>2, <2>3, ClientStep DEF Unstarted, Mutating
<1>4. ASSUME MayArm(r), job' = armed, drift' = (drift \/ client[r].seen # account.changes),
             Goto(r, "armed"), UNCHANGED key
      PROVE  IdentityInv'
  <2>1. /\ job' \in [JobIds -> JobRow] /\ Only(job, job', JobIds, r)
        /\ job'[r].state = "PENDING" /\ job'[r].attempts = 0
        /\ job'[r].user = client[r].user /\ job'[r].restore = client[r].seen
    BY <1>2, <1>4, ArmedDoes
  <2>2. /\ client' \in [Requests -> ClientRow] /\ Only(client, client', Requests, r)
        /\ client'[r].pc = "armed" /\ client'[r].user = client[r].user
        /\ client'[r].seen = client[r].seen /\ client'[r].answer = client[r].answer
    BY <1>2, <1>4, GotoDoes DEF Places
  <2>3. /\ ~account.flagged /\ account.subject = client[r].user
        /\ \A q \in MutRequests : ~Active(q)
    BY <1>4 DEF MayArm
  <2>4. Base'
    <3>1. ClientsTyped'
      BY <1>2, <2>2, BaseParts DEF ClientsTyped, Only, Registering, Mutating
    <3>2. JobsSound' /\ \A j \in JobIds : job[j].state # None => job'[j].state # None
      BY <1>2, <2>1, BaseParts DEF JobsSound, Only
    <3>3. drift' \in BOOLEAN
      BY <1>4
    <3>4. ChallengesSound' /\ RowsTyped' /\ WorkersSound' /\ CountsTyped'
      BY <1>1, <1>4, <3>2, <3>3, BaseParts, WorkersStay, FaultDoes
         DEF ChallengesSound, RowsTyped, CountsTyped
    <3>5. QED
      BY <3>1, <3>2, <3>4, BaseNext
  <2>5. VersionCounts'
    <3>1. KeysKept /\ AnswersKept
      BY <1>4, <2>2, KeysLoosened DEF AnswersKept, Only
    <3>2. QED
      BY <1>1, <3>1, VersionKept DEF IdentityInv
  <2>6. \A k \in RegKeys : job'[k] = job[k]
    BY <1>2, <2>1, Sorts DEF Only
  <2>7. ChallengesBound' /\ UserStands'
    <3>1. BindingsKept
      BY <1>1 DEF BindingsKept
    <3>2. RegistrationsKept
      BY <1>1, <2>2, <2>6 DEF RegistrationsKept, Only, Registering
    <3>3. OwnersKept
      BY <1>1, <2>2, <2>6 DEF OwnersKept, Only
    <3>4. QED
      BY <3>1, <3>2, <3>3, ChallengesKept, UserKept DEF IdentityInv
  <2>8. \A m \in MutRequests : m # r => job'[m] = job[m] /\ client'[m] = client[m]
    BY <2>1, <2>2, Sorts DEF Only
  <2>9. \A m \in MutRequests : m # r => ~Active(m)' /\ ~Untouched(m, {"armed", "put"})'
    <3>1. \A m \in MutRequests : ~Untouched(m, {"armed", "put"})
      BY <2>3 DEF IdentityInv, JobsHold, Active
    <3>2. QED
      BY <2>3, <2>8, <3>1 DEF Active, Untouched
  <2>10. JobsHold'
    <3>1. /\ account'.subject <= user'.born /\ user'.id <= user'.born /\ account'.subject # 0
          /\ \A q \in Requests : client'[q].user <= user'.born
      BY <1>1, <1>2, <2>2 DEF IdentityInv, JobsHold, Only, Mutating
    <3>2. \A m \in MutRequests :
            /\ client'[m].pc \in {"off", "idle", "begun", "read"} => job'[m].state = None
            /\ job'[m].state = "FAILED" => account'.flagged
            /\ Untouched(m, {"armed", "put"})' => job'[m].state = "PENDING"
      BY <1>1, <2>1, <2>2, <2>8, <2>9 DEF IdentityInv, JobsHold
    <3>3. QED
      BY <2>9, <3>1, <3>2 DEF JobsHold
  <2>11. ChangesAgree'
    <3>1. SUFFICES ASSUME user.id # 0, account.subject = user.id, ~drift'
                   PROVE  ChangesAgree'
      BY <1>1 DEF ChangesAgree
    <3>2. ~drift /\ client[r].seen = account.changes
      BY <1>4, <3>1
    <3>3. Active(r)' /\ job'[r].restore = account'.changes /\ client'[r].seen = account'.changes
          /\ ~Untouched(r, {"put"})' /\ \A w \in Workers : ~Mine(w, r)'
      BY <1>1, <2>1, <2>2, <3>2 DEF Active, Untouched, Mine
    <3>4. ASSUME NEW m \in MutRequests, m # r
          PROVE  ~Active(m)' /\ ~Untouched(m, {"armed"})' /\ ~Untouched(m, {"put"})'
                 /\ \A w \in Workers : ~Mine(w, m)'
      BY <2>9, <3>4 DEF Active, Untouched, Mine
    <3>5. QED
      BY <1>2, <3>3, <3>4 DEF ChangesAgree
  <2>12. QED
    BY <2>4, <2>5, <2>7, <2>10, <2>11 DEF IdentityInv, Base
<1>5. QED
  BY <1>1, <1>3, <1>4

\* While no worker has touched its job, a mutation that is armed or has
\* written is the only one under way.
LEMMA OnlyActor ==
  ASSUME JobsHold, NEW r \in MutRequests, Untouched(r, {"armed", "put"})
  PROVE  /\ Active(r) /\ job[r].state = "PENDING"
         /\ \A m \in MutRequests : m # r => /\ ~Active(m) /\ ~Untouched(m, {"armed"})
                                            /\ ~Untouched(m, {"put"}) /\ \A w \in Workers : ~Mine(w, m)
         /\ \A w \in Workers : ~Mine(w, r)
<1>1. Active(r) /\ job[r].state = "PENDING"
  BY DEF JobsHold, Active
<1>2. \A m \in MutRequests : m # r => ~Active(m)
  BY <1>1 DEF JobsHold
<1>3. \A m \in MutRequests : Untouched(m, {"armed"}) \/ Untouched(m, {"put"}) => Active(m)
  BY DEF JobsHold, Active, Untouched
<1>4. \A w \in Workers, m \in MutRequests : Mine(w, m) => Active(m) /\ job[m].state # "PENDING"
  BY DEF Mine, Active
<1>5. QED
  BY <1>1, <1>2, <1>3, <1>4

\* The PUT shows the change of its request, if it is still the only actor.
LEMMA UpdateKeeps ==
  ASSUME IdentityInv, Base, NEW r \in Requests, UpdateKeycloak(r)
  PROVE  IdentityInv'
<1> DEFINE put == [user EXCEPT !.changes = WithChange(client[r].seen, KeyOf[r])]
<1>1. /\ client[r].pc = "armed" /\ (Fault \/ NoFault)
      /\ drift' = (drift \/ job[r].attempts > 0)
      /\ \/ user' = put /\ (Goto(r, "put") \/ Goto(r, "abort"))
         \/ user' = user /\ Goto(r, "abort")
      /\ UNCHANGED <<challenge, sends, snapshot, account, job, key, worker, consumedBy, blind>>
  BY DEF UpdateKeycloak
<1>2. /\ r \in MutRequests /\ r \in JobIds /\ KeyOf[r] \in Keys /\ StoreTypeOK
      /\ job[r].attempts \in Nat
  BY <1>1, Sorts, BaseParts, JobsTyped DEF Base, TypeOK, ClientsTyped, Mutating, JobRow
<1>3. /\ client' \in [Requests -> ClientRow] /\ Only(client, client', Requests, r)
      /\ client'[r].pc \in {"put", "abort"} /\ client'[r].user = client[r].user
      /\ client'[r].seen = client[r].seen /\ client'[r].answer = client[r].answer
      /\ user' = user => user' = put \/ client'[r].pc = "abort"
  BY <1>1, <1>2, GotoDoes DEF Places
<1>4. key' \in [Keys -> KeyRow] /\ KeysKept /\ CountsTyped'
  <2>1. drift' \in BOOLEAN
    BY <1>1
  <2>2. QED
    BY <1>1, <1>2, <2>1, BaseParts, FaultDoes, KeysLoosened DEF StoreTypeOK, CountsTyped
<1>5. CASE user' = user /\ client'[r].pc = "abort"
  BY <1>1, <1>2, <1>3, <1>4, <1>5, ClientStep DEF Unstarted, Mutating
<1>6. ASSUME user' = put
      PROVE  IdentityInv'
  <2>1. /\ user' \in UserRow /\ user'.id = user.id /\ user'.owner = user.owner
        /\ user'.born = user.born
        /\ user'.changes = WithChange(client[r].seen, KeyOf[r])
    <3>1. user \in UserRow /\ WithChange(client[r].seen, KeyOf[r]) \in SUBSET Keys
      BY <1>2 DEF StoreTypeOK, ClientRow, WithChange
    <3>2. QED
      BY <1>6, <3>1 DEF UserRow
  <2>2. Base'
    <3>1. ClientsTyped'
      BY <1>2, <1>3, BaseParts DEF ClientsTyped, Only, Registering, Mutating
    <3>2. JobsSound' /\ ChallengesSound' /\ RowsTyped' /\ WorkersSound'
      BY <1>1, <1>4, <2>1, BaseParts, WorkersStay DEF JobsSound, ChallengesSound, RowsTyped
    <3>3. QED
      BY <1>4, <3>1, <3>2, BaseNext
  <2>3. VersionCounts'
    <3>1. AnswersKept
      BY <1>3 DEF AnswersKept, Only
    <3>2. QED
      BY <1>1, <1>4, <3>1, VersionKept DEF IdentityInv
  <2>4. ChallengesBound' /\ UserStands'
    <3>1. BindingsKept
      BY <1>1 DEF BindingsKept
    <3>2. RegistrationsKept
      BY <1>1, <1>3 DEF RegistrationsKept, Only, Registering
    <3>3. OwnersKept
      BY <1>1, <1>3, <2>1 DEF OwnersKept, Only
    <3>4. QED
      BY <3>1, <3>2, <3>3, ChallengesKept, UserKept DEF IdentityInv
  <2>5. \A m \in MutRequests : m # r => client'[m] = client[m]
    BY <1>3, Sorts DEF Only
  <2>6. JobsHold'
    <3>1. /\ account'.subject <= user'.born /\ user'.id <= user'.born /\ account'.subject # 0
          /\ \A q \in Requests : client'[q].user <= user'.born
      BY <1>1, <1>2, <1>3, <2>1 DEF IdentityInv, JobsHold, Only, Mutating
    <3>2. ASSUME NEW m \in MutRequests
          PROVE  /\ client'[m].pc \in {"off", "idle", "begun", "read"} => job'[m].state = None
                 /\ job'[m].state = "FAILED" => account'.flagged
                 /\ Untouched(m, {"armed", "put"})' => job'[m].state = "PENDING"
      <4>1. Untouched(m, {"armed", "put"})' => Untouched(m, {"armed", "put"})
        BY <1>1, <1>3, <2>5 DEF Untouched
      <4>2. client'[m].pc \in {"off", "idle", "begun", "read"} => client'[m] = client[m]
        BY <1>3, <2>5
      <4>3. QED
        BY <1>1, <4>1, <4>2 DEF IdentityInv, JobsHold
    <3>3. \A m, q \in MutRequests : Active(m)' /\ Active(q)' => m = q
      BY <1>1 DEF IdentityInv, JobsHold, Active
    <3>4. QED
      BY <3>1, <3>2, <3>3 DEF JobsHold
  <2>7. ChangesAgree'
    <3>1. SUFFICES ASSUME user.id # 0, account.subject = user.id, ~drift'
                   PROVE  ChangesAgree'
      BY <1>1, <2>1 DEF ChangesAgree
    <3>2. ~drift /\ job[r].attempts = 0
      <4>1. ~drift /\ ~(job[r].attempts > 0)
        BY <1>1, <3>1, Zenon
      <4>2. QED
        BY <1>2, <4>1
    <3>3. Untouched(r, {"armed"}) /\ Untouched(r, {"armed", "put"})
      BY <1>1, <3>2 DEF Untouched
    <3>4. /\ Active(r) /\ ~Untouched(r, {"armed"})'
          /\ \A m \in MutRequests : m # r => /\ ~Active(m) /\ ~Untouched(m, {"armed"})
                                             /\ ~Untouched(m, {"put"})
          /\ \A w \in Workers, m \in MutRequests : ~Mine(w, m)
      BY <1>2, <1>3, <3>3, OnlyActor DEF IdentityInv, Untouched
    <3>5. client[r].seen = account.changes /\ job[r].restore = account.changes
      BY <1>2, <3>1, <3>2, <3>3, <3>4 DEF IdentityInv, ChangesAgree
    <3>6. user'.changes = WithChange(account'.changes, KeyOf[r])
      BY <1>1, <2>1, <3>5
    <3>7. ASSUME NEW m \in MutRequests, m # r
          PROVE  ~Active(m)' /\ ~Untouched(m, {"armed"})' /\ ~Untouched(m, {"put"})'
      BY <1>1, <2>5, <3>4, <3>7 DEF Active, Untouched
    <3>8. Active(r)' /\ job'[r].restore = account'.changes
      BY <1>1, <3>4, <3>5 DEF Active
    <3>9. \A w \in Workers, m \in MutRequests : ~Mine(w, m)'
      BY <1>1, <3>4 DEF Mine
    <3>10. QED
      BY <1>2, <3>4, <3>6, <3>7, <3>8, <3>9 DEF ChangesAgree
  <2>8. QED
    BY <2>2, <2>3, <2>4, <2>6, <2>7 DEF IdentityInv, Base
<1>7. QED
  BY <1>1, <1>3, <1>5, <1>6

\* A commit moves the version past the one its key was used with.
LEMMA VersionMoves ==
  ASSUME VersionCounts, Base, NEW m \in MutRequests, Commits(m), AnswersKept
  PROVE  VersionCounts'
<1> DEFINE k == KeyOf[m]
<1>1. /\ k \in Keys \ RegKeys /\ account.version = key[k].version
      /\ account'.flagged = account.flagged /\ account'.version = account.version + 1
      /\ Only(key, key', Keys, k) /\ key'[k].state = "COMPLETED"
      /\ key'[k].version = key[k].version
  BY Sorts DEF Commits
<1>2. account.version \in Nat /\ \A q \in Keys : key[q].version \in Nat
  BY DEF Base, TypeOK, StoreTypeOK, AccountRow, KeyRow
<1>3. k \notin Mutated
  BY <1>1, <1>2 DEF VersionCounts
<1>4. Mutated' = Mutated \cup {k}
  BY <1>1 DEF Mutated, Only
<1>5. /\ IsFiniteSet(Mutated') /\ Cardinality(Mutated) \in Nat
      /\ Cardinality(Mutated') = Cardinality(Mutated) + 1
  BY <1>3, <1>4, FS_AddElement, FS_CardinalityType DEF VersionCounts
<1>6. account'.version = 1 + Cardinality(Mutated') + (IF account'.flagged THEN 1 ELSE 0)
  BY <1>1, <1>2, <1>5 DEF VersionCounts
<1>7. \A q \in Mutated' : key'[q].version < account'.version
  <2>1. \A q \in Mutated : q \in Keys /\ key'[q].version = key[q].version
    BY <1>1 DEF Mutated, Only
  <2>2. QED
    BY <1>1, <1>2, <1>4, <2>1 DEF VersionCounts
<1>8. \A r \in Requests : client'[r].answer = "ok" => key'[KeyOf[r]].state = "COMPLETED"
  BY <1>1, Sorts DEF VersionCounts, AnswersKept, Only
<1>9. QED
  BY <1>5, <1>6, <1>7, <1>8 DEF VersionCounts

\* The contact challenge of a commit was not consumed before.
LEMMA CommitBinds ==
  ASSUME IdentityInv, Base, NEW m \in MutRequests, Commits(m), RegistrationsKept,
         snapshot' = snapshot
  PROVE  ChallengesBound'
<1> DEFINE k == KeyOf[m]
           h == UsesOf[k]
<1>1. CASE UNCHANGED <<challenge, consumedBy>>
  <2>1. BindingsKept
    BY <1>1 DEF BindingsKept
  <2>2. QED
    BY <2>1, ChallengesKept DEF IdentityInv
<1>2. ASSUME Contact(k), challenge[h].state = "VERIFIED", Consumes(h, k)
      PROVE  ChallengesBound'
  <2>1. k \in Keys /\ h \in Challenges \ ForRegistration
    BY <1>2, Sorts, IdentityAssumption DEF Contact, ForRegistration, RegKeys
  <2>2. /\ Only(challenge, challenge', Challenges, h) /\ Only(consumedBy, consumedBy', Challenges, h)
        /\ challenge'[h].state = "CONSUMED" /\ challenge'[h].registration = challenge[h].registration
        /\ consumedBy'[h] = consumedBy[h] \cup {k}
    BY <1>2 DEF Consumes
  <2>3. consumedBy[h] = {}
    BY <1>2, <2>1 DEF IdentityInv, ChallengesBound
  <2> HIDE DEF k, h
  <2>4. \A q \in Keys : BoundTo(q) => BoundTo(q)'
    BY <2>2, IdentityAssumption DEF BoundTo, Only
  <2>5. \A q \in Requests : client'[q].pc \in Registering => BoundTo(KeyOf[q])'
    BY <2>4, Sorts DEF IdentityInv, ChallengesBound, RegistrationsKept
  <2>6. \A q \in RegKeys : job'[q].state # None => BoundTo(q)'
    BY <2>4, Sorts DEF IdentityInv, ChallengesBound, RegistrationsKept
  <2>7. \A g \in ForRegistration : g \in Challenges /\ consumedBy'[g] = consumedBy[g]
                                   /\ challenge'[g] = challenge[g]
    BY <2>1, <2>2, Sorts DEF ForRegistration, Only
  <2>8. \A q \in RegKeys : snapshot'[q] = "COMPLETED" => consumedBy'[UsesOf[q]] = {q}
    BY <2>7 DEF IdentityInv, ChallengesBound, ForRegistration
  <2>9. \A g \in ForRegistration : consumedBy'[g] \subseteq {challenge'[g].registration}
    BY <2>7 DEF IdentityInv, ChallengesBound
  <2>10. ASSUME NEW g \in Challenges \ ForRegistration
         PROVE  \/ consumedBy'[g] = {}
                \/ challenge'[g].state = "CONSUMED" /\ \E q \in Keys : consumedBy'[g] = {q}
    <3>1. CASE g = h
      BY <3>1, <2>1, <2>2, <2>3
    <3>2. CASE g # h
      BY <3>2, <2>2 DEF Only, IdentityInv, ChallengesBound
    <3>3. QED
      BY <3>1, <3>2
  <2>11. QED
    BY <2>5, <2>6, <2>8, <2>9, <2>10 DEF ChallengesBound
<1>3. QED
  BY <1>1, <1>2 DEF Commits

LEMMA CommitKeeps ==
  ASSUME IdentityInv, Base, NEW r \in Requests, CommitMutation(r)
  PROVE  IdentityInv'
<1> DEFINE k == KeyOf[r]
           committed == MayCommit(r) /\ Committed(r)
<1>1. /\ client[r].pc = "put" /\ (Fault \/ NoFault)
      /\ drift' = (drift \/ job[r].attempts > 0)
      /\ \/ committed /\ (Answer(r, "ok") \/ Goto(r, "abort"))
         \/ Goto(r, "abort") /\ UNCHANGED <<account, challenge, consumedBy, job, key>>
      /\ UNCHANGED <<sends, snapshot, user, worker, blind>>
  BY DEF CommitMutation
<1>2. /\ r \in MutRequests /\ r \in JobIds /\ k \in Keys \ RegKeys /\ StoreTypeOK
      /\ job[r].attempts \in Nat
  BY <1>1, Sorts, BaseParts, JobsTyped DEF Base, TypeOK, ClientsTyped, Mutating, JobRow
<1>3. /\ client' \in [Requests -> ClientRow] /\ Only(client, client', Requests, r)
      /\ client'[r].pc \in {"done", "abort"} /\ client'[r].user = client[r].user
      /\ client'[r].answer = "ok" => client[r].answer = "ok" \/ committed
  BY <1>1, <1>2, GotoDoes, AnswerDoes DEF Places
<1>4. CountsTyped'
  <2>1. drift' \in BOOLEAN
    BY <1>1
  <2>2. QED
    BY <1>1, <2>1, BaseParts, FaultDoes DEF CountsTyped
<1>5. CASE Goto(r, "abort") /\ UNCHANGED <<account, challenge, consumedBy, job, key>>
  <2>1. key' \in [Keys -> KeyRow] /\ KeysKept
    BY <1>2, <1>5, KeysLoosened DEF StoreTypeOK
  <2>2. client'[r].pc = "abort" /\ client'[r].answer = client[r].answer
    BY <1>2, <1>5, GotoDoes DEF Places
  <2>3. QED
    BY <1>1, <1>2, <1>3, <1>4, <1>5, <2>1, <2>2, ClientStep DEF Unstarted, Mutating
<1>6. ASSUME committed
      PROVE  IdentityInv'
  <2>1. /\ account' \in AccountRow /\ key' \in [Keys -> KeyRow] /\ job' \in [JobIds -> JobRow]
        /\ challenge' \in [Challenges -> ChallengeRow]
        /\ consumedBy' \in [Challenges -> SUBSET Keys]
        /\ Commits(r)
    BY <1>2, <1>6, CommittedDoes
  <2>2. /\ job[r].state = "PENDING" /\ job'[r].state = "COMPLETED" /\ Only(job, job', JobIds, r)
        /\ account'.subject = account.subject /\ account'.flagged = account.flagged
        /\ account'.changes = WithChange(account.changes, k)
        /\ key'[k].state = "COMPLETED"
    BY <2>1 DEF Commits
  <2> HIDE DEF k
  <2>3. Base'
    <3>1. ClientsTyped'
      BY <1>2, <1>3, BaseParts DEF ClientsTyped, Only, Registering, Mutating
    <3>2. JobsSound' /\ \A j \in JobIds : job[j].state # None => job'[j].state # None
      BY <1>2, <2>1, <2>2, BaseParts DEF JobsSound, Only
    <3>3. ChallengesSound'
      BY <1>2, <2>1, Sorts, BaseParts DEF ChallengesSound, Commits, Consumes, Only
    <3>4. RowsTyped' /\ WorkersSound'
      BY <1>1, <2>1, <3>2, BaseParts DEF RowsTyped, WorkersSound
    <3>5. QED
      BY <1>4, <3>1, <3>2, <3>3, <3>4, BaseNext
  <2>4. VersionCounts'
    <3>1. AnswersKept
      BY <1>3, <2>2 DEF AnswersKept, Only, k
    <3>2. QED
      BY <1>2, <2>1, <3>1, VersionMoves DEF IdentityInv
  <2>5. \A q \in RegKeys : job'[q] = job[q]
    BY <1>2, <2>2, Sorts DEF Only
  <2>6. ChallengesBound'
    <3>1. RegistrationsKept
      BY <1>1, <1>3, <2>5 DEF RegistrationsKept, Only, Registering
    <3>2. QED
      BY <1>1, <1>2, <2>1, <3>1, CommitBinds
  <2>7. UserStands'
    <3>1. OwnersKept
      BY <1>1, <1>3, <2>2, <2>5 DEF OwnersKept, Only
    <3>2. QED
      BY <3>1, UserKept DEF IdentityInv
  <2>8. \A m \in MutRequests : m # r => client'[m] = client[m] /\ job'[m] = job[m]
    BY <1>3, <2>2, Sorts DEF Only
  <2>9. JobsHold'
    <3>1. /\ account'.subject <= user'.born /\ user'.id <= user'.born /\ account'.subject # 0
          /\ \A q \in Requests : client'[q].user <= user'.born
      BY <1>1, <1>2, <1>3, <2>2 DEF IdentityInv, JobsHold, Only, Mutating
    <3>2. ASSUME NEW m \in MutRequests
          PROVE  /\ client'[m].pc \in {"off", "idle", "begun", "read"} => job'[m].state = None
                 /\ job'[m].state = "FAILED" => account'.flagged
                 /\ Untouched(m, {"armed", "put"})' => job'[m].state = "PENDING"
                 /\ Active(m)' => Active(m)
      BY <1>3, <2>2, <2>8 DEF IdentityInv, JobsHold, Untouched, Active
    <3>3. QED
      BY <3>1, <3>2 DEF IdentityInv, JobsHold
  <2>10. ChangesAgree'
    <3>1. SUFFICES ASSUME user.id # 0, account.subject = user.id, ~drift'
                   PROVE  ChangesAgree'
      BY <1>1, <2>2 DEF ChangesAgree
    <3>2. ~drift /\ job[r].attempts = 0
      <4>1. ~drift /\ ~(job[r].attempts > 0)
        BY <1>1, <3>1, Zenon
      <4>2. QED
        BY <1>2, <4>1
    <3>3. Untouched(r, {"put"}) /\ Untouched(r, {"armed", "put"})
      BY <1>1, <3>2 DEF Untouched
    <3>4. /\ \A m \in MutRequests : m # r => /\ ~Active(m) /\ ~Untouched(m, {"armed"})
                                             /\ ~Untouched(m, {"put"})
          /\ \A w \in Workers, m \in MutRequests : ~Mine(w, m)
      BY <1>2, <3>3, OnlyActor DEF IdentityInv
    <3>5. user'.changes = account'.changes
      BY <1>1, <1>2, <2>2, <3>1, <3>2, <3>3 DEF IdentityInv, ChangesAgree, k
    <3>6. ASSUME NEW m \in MutRequests
          PROVE  /\ ~Active(m)' /\ ~Untouched(m, {"armed"})' /\ ~Untouched(m, {"put"})'
                 /\ \A w \in Workers : ~Mine(w, m)'
      BY <1>3, <2>2, <2>8, <3>4 DEF Active, Untouched, Mine
    <3>7. QED
      BY <3>5, <3>6 DEF ChangesAgree
  <2>11. QED
    BY <2>3, <2>4, <2>6, <2>7, <2>9, <2>10 DEF IdentityInv, Base
<1>7. QED
  BY <1>1, <1>5, <1>6

-----------------------------------------------------------------------------
\* Worker steps

\* A worker takes up or drops a claim, and nothing else changes.
LEMMA WorkerKeeps ==
  ASSUME IdentityInv, Base, WorkersSound', QuietWorkers, CountsTyped',
         UNCHANGED <<challenge, snapshot, user, account, job, key, client, consumedBy, drift,
                     blind>>
  PROVE  IdentityInv'
<1>1. Base'
  <2>1. ClientsTyped' /\ JobsSound' /\ ChallengesSound' /\ RowsTyped'
    BY BaseParts DEF ClientsTyped, JobsSound, ChallengesSound, RowsTyped
  <2>2. QED
    BY <2>1, BaseNext
<1>2. VersionCounts'
  <2>1. KeysKept /\ AnswersKept
    BY KeysLoosened DEF AnswersKept
  <2>2. QED
    BY <2>1, VersionKept DEF IdentityInv
<1>3. ChallengesBound' /\ UserStands'
  <2>1. BindingsKept /\ RegistrationsKept /\ OwnersKept
    BY DEF BindingsKept, RegistrationsKept, OwnersKept
  <2>2. QED
    BY <2>1, ChallengesKept, UserKept DEF IdentityInv
<1>4. JobsHold' /\ ChangesAgree'
  <2>1. \A r \in Requests : client'[r].user <= user.born
    BY DEF IdentityInv, JobsHold
  <2>2. QED
    BY <2>1, Unmoved, MutationsKept DEF IdentityInv
<1>5. QED
  BY <1>1, <1>2, <1>3, <1>4 DEF IdentityInv, Base

LEMMA SkipKeeps ==
  ASSUME IdentityInv, Base, NEW w \in Workers, NEW j \in JobIds, SkipSpent(w, j)
  PROVE  IdentityInv'
<1>1. /\ j \in worker[w].spent /\ Processed(w, j, FALSE)
      /\ UNCHANGED <<challenge, sends, snapshot, user, account, job, key, client, consumedBy, drift,
                     blind, faults>>
  BY DEF SkipSpent
<1>2. /\ worker' \in [Workers -> WorkerRow] /\ Only(worker, worker', Workers, w)
      /\ worker'[w].at = j /\ worker'[w].ok = FALSE
      /\ worker'[w].holds \subseteq worker[w].holds /\ worker'[w].spent \subseteq worker[w].spent
  BY <1>1, ProcessedDoes
<1>3. WorkersSound'
  BY <1>1, <1>2, BaseParts DEF WorkersSound, Only
<1>4. QuietWorkers
  BY <1>1, <1>2 DEF QuietWorkers, Restorer, Mine, Only
<1>5. CountsTyped'
  BY <1>1, BaseParts DEF CountsTyped
<1>6. QED
  BY <1>1, <1>3, <1>4, <1>5, WorkerKeeps

LEMMA CycleAbortsKeeps ==
  ASSUME IdentityInv, Base, NEW w \in Workers, CycleAborts(w)
  PROVE  IdentityInv'
<1>1. /\ Fault
      /\ worker' = [worker EXCEPT ![w] = [holds |-> {}, spent |-> {}, at |-> None, ok |-> @.ok]]
      /\ UNCHANGED <<challenge, sends, snapshot, user, account, job, key, client, consumedBy, drift,
                     blind>>
  BY DEF CycleAborts
<1>2. /\ worker' \in [Workers -> WorkerRow] /\ Only(worker, worker', Workers, w)
      /\ worker'[w].at = None
      /\ worker'[w].holds \subseteq worker[w].holds /\ worker'[w].spent \subseteq worker[w].spent
  BY <1>1, IdleDoes
<1>3. WorkersSound'
  BY <1>1, <1>2, Sorts, BaseParts DEF WorkersSound, Only
<1>4. QuietWorkers
  BY <1>1, <1>2, Sorts DEF QuietWorkers, Restorer, Mine, Only
<1>5. CountsTyped'
  BY <1>1, BaseParts, FaultDoes DEF CountsTyped
<1>6. QED
  BY <1>1, <1>3, <1>4, <1>5, WorkerKeeps

\* A claim charges the attempts, so that no claimed job looks untouched.
LEMMA ClaimKeeps ==
  ASSUME IdentityInv, Base, NEW w \in Workers, Claim(w)
  PROVE  IdentityInv'
<1>1. UNCHANGED <<challenge, sends, snapshot, user, account, key, client, consumedBy, drift, blind,
                  faults>>
  BY DEF Claim
<1>2. /\ job' \in [JobIds -> JobRow] /\ worker' \in [Workers -> WorkerRow]
      /\ \A j \in JobIds :
           \/ job'[j] = job[j] /\ ~Claimable(j)
           \/ /\ Claimable(j) /\ job'[j].state = "RUNNING" /\ job'[j].token = w
              /\ job'[j].attempts > 0 /\ job'[j].attempts >= job[j].attempts
              /\ job'[j].user = job[j].user /\ job'[j].restore = job[j].restore
      /\ Only(worker, worker', Workers, w)
      /\ worker'[w].at = None
      /\ \A j \in JobIds :
           /\ j \in worker'[w].holds <=> Claimable(j)
           /\ j \in worker'[w].spent => Claimable(j)
  BY ClaimDoes
<1>3. \A j \in JobIds : Claimable(j) => job[j].state \in {"PENDING", "RUNNING"}
  BY DEF Claimable
<1>4. Base'
  <2>1. WorkersSound'
    <3>1. \A j \in JobIds : job[j].state # None => job'[j].state # None
      BY <1>2
    <3>2. \A j \in JobIds : Claimable(j) => job'[j].state # None
      BY <1>2
    <3>3. QED
      BY <1>2, <3>1, <3>2, Sorts, BaseParts DEF WorkersSound, Only
  <2>2. JobsSound'
    BY <1>2, BaseParts DEF JobsSound
  <2>3. ClientsTyped' /\ ChallengesSound' /\ RowsTyped' /\ CountsTyped'
    BY <1>1, BaseParts DEF ClientsTyped, ChallengesSound, RowsTyped, CountsTyped
  <2>4. QED
    BY <2>1, <2>2, <2>3, BaseNext
<1>5. VersionCounts'
  <2>1. KeysKept /\ AnswersKept
    BY <1>1, KeysLoosened DEF AnswersKept
  <2>2. QED
    BY <1>1, <2>1, VersionKept DEF IdentityInv
<1>6. \A k \in RegKeys : job'[k].state # None =>
        job[k].state # None /\ job'[k].user = job[k].user
  BY <1>2, <1>3, Sorts
<1>7. ChallengesBound' /\ UserStands'
  <2>1. BindingsKept /\ RegistrationsKept /\ OwnersKept
    BY <1>1, <1>6 DEF BindingsKept, RegistrationsKept, OwnersKept
  <2>2. QED
    BY <2>1, ChallengesKept, UserKept DEF IdentityInv
<1>8. JobsHold' /\ ChangesAgree'
  <2>1. QuietJobs
    <3>1. \A j \in JobIds : job[j].attempts \in Nat
      BY JobsTyped DEF JobRow
    <3>2. QED
      BY <1>2, <1>3, <3>1, Sorts DEF QuietJobs, Active
  <2>2. QuietWorkers
    <3>1. ASSUME NEW v \in Workers, NEW m \in MutRequests, Restorer(v, m)'
          PROVE  Restorer(v, m)
      <4>1. v # w /\ worker'[v] = worker[v]
        BY <1>2, <3>1, Sorts DEF Restorer, Only
      <4>2. job'[m] = job[m]
        BY <1>2, <3>1, <4>1, Sorts DEF Restorer, Mine
      <4>3. QED
        BY <3>1, <4>1, <4>2 DEF Restorer, Mine
    <3>2. QED
      BY <3>1 DEF QuietWorkers
  <2>3. QuietClients /\ \A r \in Requests : client'[r].user <= user.born
    BY <1>1, Unmoved DEF IdentityInv, JobsHold
  <2>4. QED
    BY <1>1, <2>1, <2>2, <2>3, MutationsKept DEF IdentityInv
<1>9. QED
  BY <1>4, <1>5, <1>7, <1>8 DEF IdentityInv, Base

LEMMA FinalizeProjectionKeeps ==
  ASSUME IdentityInv, Base, NEW w \in Workers, NEW g \in JobIds, FinalizeProjection(w, g)
  PROVE  IdentityInv'
<1> DEFINE uid == user.id
           projected == MayFinalize(g, uid) /\ ProjectRegistration(g, uid)
<1>1. /\ g \in worker[w].holds /\ g \in RegKeys /\ (Fault \/ NoFault)
      /\ projected \/ UNCHANGED <<account, challenge, consumedBy, snapshot, key>>
      /\ Processed(w, g, TRUE) \/ Processed(w, g, FALSE)
      /\ UNCHANGED <<sends, user, job, client, drift, blind>>
  BY DEF FinalizeProjection
<1>2. /\ worker' \in [Workers -> WorkerRow] /\ Only(worker, worker', Workers, w)
      /\ worker'[w].at = g
      /\ worker'[w].holds \subseteq worker[w].holds /\ worker'[w].spent \subseteq worker[w].spent
  BY <1>1, ProcessedDoes
<1>3. job[g].state # None
  BY <1>1, BaseParts DEF WorkersSound
<1>4. BoundTo(g) /\ (~blind => Owns(g, uid)) /\ uid <= user.born /\ uid \in Nat
  BY <1>1, <1>3 DEF IdentityInv, ChallengesBound, UserStands, JobsHold, Owns, Base, TypeOK,
     StoreTypeOK, UserRow
<1>5. QuietJobs /\ QuietClients
  BY <1>1, Unmoved
<1>6. QuietWorkers
  <2>1. \A m \in MutRequests : m # g
    BY <1>1, Sorts
  <2>2. QED
    BY <1>1, <1>2, <2>1 DEF QuietWorkers, Restorer, Mine, Only
<1>7. AnswersKept
  BY <1>1 DEF AnswersKept
<1>8. /\ ChallengesSound' /\ RowsTyped'
      /\ VersionCounts' /\ ChallengesBound' /\ UserStands' /\ JobsHold' /\ ChangesAgree'
  <2> HIDE DEF uid
  <2>1. QED
    BY <1>1, <1>4, <1>5, <1>6, <1>7, ProjectKeeps
<1>9. Base'
  <2>1. WorkersSound'
    BY <1>1, <1>2, <1>3, BaseParts DEF WorkersSound, Only
  <2>2. ClientsTyped' /\ JobsSound' /\ CountsTyped'
    BY <1>1, BaseParts, FaultDoes DEF ClientsTyped, JobsSound, CountsTyped
  <2>3. QED
    BY <1>8, <2>1, <2>2, BaseNext
<1>10. QED
  BY <1>8, <1>9 DEF IdentityInv, Base

\* A worker that still holds its claim restores what the projection shows.
LEMMA RestoreKeeps ==
  ASSUME IdentityInv, Base, NEW w \in Workers, NEW m \in JobIds, RestoreUser(w, m)
  PROVE  IdentityInv'
<1>1. /\ m \in worker[w].holds /\ m \in MutRequests /\ (Fault \/ NoFault)
      /\ drift' = (drift \/ job[m].state # "RUNNING" \/ job[m].token # w)
      /\ \/ user' = Restored(m) /\ Processed(w, m, TRUE)
         \/ user' \in {user, Restored(m)} /\ Processed(w, m, FALSE)
      /\ UNCHANGED <<challenge, sends, snapshot, account, job, key, client, consumedBy, blind>>
  BY DEF RestoreUser
<1>2. /\ worker' \in [Workers -> WorkerRow] /\ Only(worker, worker', Workers, w)
      /\ worker'[w].at = m
      /\ worker'[w].holds \subseteq worker[w].holds /\ worker'[w].spent \subseteq worker[w].spent
      /\ worker'[w].ok => user' = Restored(m)
  BY <1>1, ProcessedDoes
<1>3. /\ Restored(m) \in UserRow /\ Restored(m).id = user.id /\ Restored(m).owner = user.owner
      /\ Restored(m).born = user.born /\ Restored(m).changes = job[m].restore
      /\ user \in UserRow
  BY JobsTyped DEF Restored, Base, TypeOK, StoreTypeOK, UserRow, JobRow
<1>4. /\ user' \in UserRow /\ user'.id = user.id /\ user'.owner = user.owner
      /\ user'.born = user.born
      /\ worker'[w].ok => user'.changes = job[m].restore
  BY <1>1, <1>2, <1>3
<1>5. job[m].state # None /\ account.subject # 0
  BY <1>1, BaseParts DEF WorkersSound, IdentityInv, JobsHold
<1>6. Base'
  <2>1. WorkersSound'
    BY <1>1, <1>2, <1>5, BaseParts DEF WorkersSound, Only
  <2>2. drift' \in BOOLEAN
    BY <1>1
  <2>3. ClientsTyped' /\ JobsSound' /\ ChallengesSound' /\ RowsTyped' /\ CountsTyped'
    BY <1>1, <1>4, <2>2, BaseParts, FaultDoes
       DEF ClientsTyped, JobsSound, ChallengesSound, RowsTyped, CountsTyped
  <2>4. QED
    BY <2>1, <2>3, BaseNext
<1>7. VersionCounts'
  <2>1. KeysKept /\ AnswersKept
    BY <1>1, KeysLoosened DEF AnswersKept
  <2>2. QED
    BY <1>1, <2>1, VersionKept DEF IdentityInv
<1>8. ChallengesBound' /\ UserStands'
  <2>1. BindingsKept /\ RegistrationsKept /\ OwnersKept
    BY <1>1, <1>4 DEF BindingsKept, RegistrationsKept, OwnersKept
  <2>2. QED
    BY <2>1, ChallengesKept, UserKept DEF IdentityInv
<1>9. JobsHold'
  <2>1. QuietJobs /\ QuietClients
    BY <1>1, Unmoved
  <2>2. /\ account'.subject <= user'.born /\ user'.id <= user'.born /\ account'.subject # 0
        /\ \A q \in Requests : client'[q].user <= user'.born
    BY <1>1, <1>4, <1>5 DEF IdentityInv, JobsHold
  <2>3. QED
    BY <1>1, <2>1, <2>2, JobsKept DEF IdentityInv
<1>10. ChangesAgree'
  <2>1. SUFFICES ASSUME user.id # 0, account.subject = user.id, ~drift'
                 PROVE  ChangesAgree'
    BY <1>1, <1>4 DEF ChangesAgree
  <2>2. ~drift /\ Mine(w, m)
    BY <1>1, <2>1, Zenon DEF Mine
  <2>3. Active(m) /\ job[m].state = "RUNNING" /\ job[m].token = w
    BY <2>2 DEF Mine, Active
  <2>4. job[m].restore = account.changes
        /\ \A q \in MutRequests : Untouched(q, {"armed"}) => client[q].seen = account.changes
    BY <1>1, <2>1, <2>2, <2>3 DEF IdentityInv, ChangesAgree
  <2>5. \A q \in MutRequests : Active(q) => q = m
    BY <1>1, <2>3 DEF IdentityInv, JobsHold
  <2>6. \A q \in MutRequests : ~Untouched(q, {"put"})
    BY <2>3, <2>5 DEF IdentityInv, JobsHold, Untouched, Active
  <2>7. ASSUME NEW v \in Workers, NEW q \in MutRequests, worker'[v].ok, Mine(v, q)
        PROVE  user'.changes = account.changes
    <3>1. q = m /\ v = w
      BY <2>3, <2>5, <2>7 DEF Mine, Active
    <3>2. QED
      BY <1>4, <2>4, <2>7, <3>1
  <2>8. /\ \A q \in MutRequests : Active(q)' = Active(q)
        /\ \A q \in MutRequests : Untouched(q, {"armed"})' = Untouched(q, {"armed"})
        /\ \A q \in MutRequests : Untouched(q, {"put"})' = Untouched(q, {"put"})
        /\ \A v \in Workers, q \in MutRequests : Mine(v, q)' = Mine(v, q)
    BY <1>1 DEF Active, Untouched, Mine
  <2>9. QED
    BY <1>1, <2>3, <2>4, <2>5, <2>6, <2>7, <2>8 DEF ChangesAgree
<1>11. QED
  BY <1>6, <1>7, <1>8, <1>9, <1>10 DEF IdentityInv, Base

\* A job that ends as COMPLETED was restored by its worker; one that is given
\* up flags the account.
LEMMA FinishKeeps ==
  ASSUME IdentityInv, Base, NEW w \in Workers, FinishJob(w)
  PROVE  IdentityInv'
<1> DEFINE j == worker[w].at
<1>1. /\ UNCHANGED <<challenge, sends, snapshot, user, client, consumedBy, drift, blind, faults>>
      /\ worker' = [worker EXCEPT ![w].at = None]
  BY DEF FinishJob
<1>2. /\ j \in JobIds
      /\ job' \in [JobIds -> JobRow] /\ Only(job, job', JobIds, j)
      /\ ~Mine(w, j) => job' = job
      /\ Mine(w, j) =>
           /\ SameWork(job[j], job'[j])
           /\ \/ job'[j].state = "COMPLETED" /\ worker[w].ok
              \/ job'[j].state = "PENDING" /\ ~worker[w].ok
              \/ job'[j].state = "FAILED" /\ ~worker[w].ok
      /\ job'[j].state = "FAILED" /\ job[j].state # "FAILED" /\ j \in MutRequests => account'.flagged
      /\ \/ account' = account
         \/ /\ ~account.flagged /\ account'.flagged /\ account'.version = account.version + 1
            /\ account' \in AccountRow
            /\ account'.subject = account.subject /\ account'.changes = account.changes
      /\ key' \in [Keys -> KeyRow] /\ Loosened
  BY FinishDoes
<1>3. /\ worker' \in [Workers -> WorkerRow] /\ Only(worker, worker', Workers, w)
      /\ worker'[w].at = None
      /\ worker'[w].holds \subseteq worker[w].holds /\ worker'[w].spent \subseteq worker[w].spent
  BY <1>1, IdleDoes
<1> HIDE DEF j
<1>4. \A i \in JobIds :
        \/ job'[i] = job[i]
        \/ /\ i = j /\ Mine(w, j) /\ SameWork(job[i], job'[i])
           /\ job[i].state = "RUNNING" /\ job[i].attempts > 0
           /\ \/ job'[i].state = "COMPLETED" /\ worker[w].ok
              \/ job'[i].state = "PENDING"
              \/ job'[i].state = "FAILED"
  BY <1>2, BaseParts DEF Only, Mine, JobsSound
<1>5. Base'
  <2>1. JobsSound' /\ \A i \in JobIds : job[i].state # None => job'[i].state # None
    BY <1>2, <1>4, BaseParts DEF JobsSound
  <2>2. WorkersSound'
    BY <1>1, <1>3, <2>1, Sorts, BaseParts DEF WorkersSound, Only
  <2>3. ClientsTyped' /\ ChallengesSound' /\ RowsTyped' /\ CountsTyped'
    BY <1>1, <1>2, BaseParts DEF ClientsTyped, ChallengesSound, RowsTyped, CountsTyped
  <2>4. QED
    BY <2>1, <2>2, <2>3, BaseNext
<1>6. KeysKept /\ AnswersKept
  BY <1>1, <1>2, KeysLoosened DEF AnswersKept
<1>7. VersionCounts'
  <2>1. CASE account' = account
    BY <2>1, <1>6, VersionKept DEF IdentityInv
  <2>2. CASE ~account.flagged /\ account'.flagged /\ account'.version = account.version + 1
    <3>1. Mutated' = Mutated /\ \A k \in Mutated : key'[k].version = key[k].version
      BY <1>6 DEF KeysKept, Mutated
    <3>2. Cardinality(Mutated) \in Nat /\ \A k \in Mutated : key[k].version \in Nat
      BY FS_CardinalityType DEF IdentityInv, VersionCounts, Mutated, Base, TypeOK, StoreTypeOK,
         KeyRow
    <3>3. /\ IsFiniteSet(Mutated) /\ account.version = 1 + Cardinality(Mutated)
          /\ \A k \in Mutated : key[k].version < account.version
      BY <2>2, <3>2 DEF IdentityInv, VersionCounts
    <3>4. account'.version = 1 + Cardinality(Mutated') + (IF account'.flagged THEN 1 ELSE 0)
      BY <2>2, <3>1, <3>2, <3>3
    <3>5. \A k \in Mutated' : key'[k].version < account'.version
      BY <2>2, <3>1, <3>2, <3>3
    <3>6. \A r \in Requests : client'[r].answer = "ok" => key'[KeyOf[r]].state = "COMPLETED"
      BY <1>6, Sorts DEF KeysKept, AnswersKept, IdentityInv, VersionCounts
    <3>7. QED
      BY <3>1, <3>3, <3>4, <3>5, <3>6 DEF VersionCounts
  <2>3. QED
    BY <1>2, <2>1, <2>2
<1>8. \A k \in RegKeys : job'[k].state # None =>
        job[k].state # None /\ job'[k].user = job[k].user
  BY <1>4, Sorts DEF SameWork
<1>9. /\ account'.subject = account.subject /\ account'.changes = account.changes
      /\ account.flagged => account'.flagged
  BY <1>2
<1>10. ChallengesBound' /\ UserStands'
  <2>1. BindingsKept /\ RegistrationsKept /\ OwnersKept
    BY <1>1, <1>8, <1>9 DEF BindingsKept, RegistrationsKept, OwnersKept
  <2>2. QED
    BY <2>1, ChallengesKept, UserKept DEF IdentityInv
<1>11. ASSUME NEW m \in MutRequests
       PROVE  /\ job'[m].state = None <=> job[m].state = None
              /\ Active(m)' => Active(m) /\ job'[m].restore = job[m].restore
              /\ \A pcs : Untouched(m, pcs)' => Untouched(m, pcs) /\ job'[m] = job[m]
              /\ job'[m].state = "FAILED" => account'.flagged
              /\ Active(m) /\ ~Active(m)' => \/ Restorer(w, m)
                                             \/ account'.flagged
  <2>1. m \in JobIds
    BY Sorts
  <2>2. CASE job'[m] = job[m]
    BY <1>1, <1>9, <2>2 DEF Active, Untouched, IdentityInv, JobsHold
  <2>3. CASE job'[m] # job[m]
    <3>1. /\ m = j /\ Mine(w, j) /\ SameWork(job[m], job'[m])
          /\ job[m].state = "RUNNING" /\ job[m].attempts > 0
          /\ \/ job'[m].state = "COMPLETED" /\ worker[w].ok
             \/ job'[m].state = "PENDING"
             \/ job'[m].state = "FAILED"
      BY <1>4, <2>1, <2>3
    <3>2. job'[m].state = "FAILED" => account'.flagged
      BY <1>2, <3>1
    <3>3. Restorer(w, m) \/ ~worker[w].ok
      BY <3>1 DEF Restorer, j
    <3>4. job[m].attempts # 0
      BY <3>1
    <3>5. QED
      BY <3>1, <3>2, <3>3, <3>4 DEF Active, Untouched, SameWork
  <2>4. QED
    BY <2>2, <2>3
<1>12. JobsHold'
  <2>1. \A m \in MutRequests :
          /\ client'[m].pc \in {"off", "idle", "begun", "read"} => job'[m].state = None
          /\ job'[m].state = "FAILED" => account'.flagged
          /\ Untouched(m, {"armed", "put"})' => job'[m].state = "PENDING"
    BY <1>1, <1>11 DEF IdentityInv, JobsHold
  <2>2. /\ account'.subject <= user'.born /\ user'.id <= user'.born
        /\ \A r \in Requests : client'[r].user <= user'.born
    BY <1>1, <1>9 DEF IdentityInv, JobsHold
  <2>3. account'.subject = 0 =>
          /\ account'.changes = {} /\ user'.changes = {}
          /\ \A m \in MutRequests : job'[m].state = None /\ client'[m].pc \notin Mutating
    BY <1>1, <1>9, <1>11 DEF IdentityInv, JobsHold
  <2>4. \A m, q \in MutRequests : Active(m)' /\ Active(q)' => m = q
    BY <1>11 DEF IdentityInv, JobsHold
  <2>5. QED
    BY <2>1, <2>2, <2>3, <2>4 DEF JobsHold
<1>13. ChangesAgree'
  <2>1. SUFFICES ASSUME user.id # 0, account.subject = user.id, ~drift
                 PROVE  ChangesAgree'
    BY <1>1, <1>9 DEF ChangesAgree
  <2>2. /\ (\A m \in MutRequests : ~Active(m)) /\ ~account.flagged => user.changes = account.changes
        /\ \A m \in MutRequests :
             /\ Active(m) => job[m].restore = account.changes
             /\ Untouched(m, {"armed"}) => client[m].seen = account.changes
             /\ Untouched(m, {"put"}) => user.changes = WithChange(account.changes, KeyOf[m])
             /\ \A v \in Workers : Restorer(v, m) => user.changes = account.changes
    BY <2>1 DEF IdentityInv, ChangesAgree, Restorer
  <2>3. (\A m \in MutRequests : ~Active(m)') /\ ~account'.flagged => user'.changes = account'.changes
    BY <1>1, <1>9, <1>11, <2>2
  <2>4. ASSUME NEW m \in MutRequests
        PROVE  /\ Active(m)' => job'[m].restore = account'.changes
               /\ Untouched(m, {"armed"})' => client'[m].seen = account'.changes
    BY <1>1, <1>9, <1>11, <2>2
  <2>5. ASSUME NEW m \in MutRequests, Untouched(m, {"put"})'
        PROVE  user'.changes = WithChange(account'.changes, KeyOf[m])
    BY <1>1, <1>9, <1>11, <2>2, <2>5 DEF WithChange
  <2>6. ASSUME NEW v \in Workers, NEW m \in MutRequests, Restorer(v, m)'
        PROVE  user'.changes = account'.changes
    <3>1. v # w /\ worker'[v] = worker[v]
      BY <1>3, <2>6, Sorts DEF Restorer, Only
    <3>2. job'[m] = job[m]
      BY <1>4, <2>6, Sorts DEF Restorer, Mine
    <3>3. Restorer(v, m)
      BY <2>6, <3>1, <3>2 DEF Restorer, Mine
    <3>4. QED
      BY <1>1, <1>9, <2>2, <3>3
  <2>7. QED
    BY <2>3, <2>4, <2>5, <2>6 DEF ChangesAgree, Restorer
<1>14. QED
  BY <1>5, <1>7, <1>10, <1>12, <1>13 DEF IdentityInv, Base

-----------------------------------------------------------------------------
\* Challenges and key leases

LEMMA TablesKeep ==
  ASSUME IdentityInv, Base, ChallengesSound', BindingsKept, CountsTyped',
         key' \in [Keys -> KeyRow], KeysKept,
         UNCHANGED <<snapshot, user, account, job, client, worker, drift, blind>>
  PROVE  IdentityInv'
<1>1. Base'
  <2>1. ClientsTyped' /\ JobsSound' /\ RowsTyped' /\ WorkersSound'
    BY BaseParts DEF ClientsTyped, JobsSound, RowsTyped, WorkersSound
  <2>2. QED
    BY <2>1, BaseNext
<1>2. VersionCounts'
  <2>1. AnswersKept
    BY DEF AnswersKept
  <2>2. QED
    BY <2>1, VersionKept DEF IdentityInv
<1>3. ChallengesBound' /\ UserStands'
  <2>1. RegistrationsKept /\ OwnersKept
    BY DEF RegistrationsKept, OwnersKept
  <2>2. QED
    BY <2>1, ChallengesKept, UserKept DEF IdentityInv
<1>4. JobsHold' /\ ChangesAgree'
  <2>1. \A r \in Requests : client'[r].user <= user.born
    BY DEF IdentityInv, JobsHold
  <2>2. QED
    BY <2>1, Unmoved, MutationsKept DEF IdentityInv
<1>5. QED
  BY <1>1, <1>2, <1>3, <1>4 DEF IdentityInv, Base

LEMMA ChallengeKeeps ==
  ASSUME IdentityInv, Base, NEW h \in Challenges, NEW matches \in BOOLEAN,
         RequestChallenge(h) \/ VerifyChallenge(h, matches) \/ ChallengeExpires(h)
  PROVE  IdentityInv'
<1>1. /\ UNCHANGED <<snapshot, user, account, job, key, client, worker, consumedBy, drift, blind, faults>>
      /\ sends' = sends \/ (sends < MaxSends /\ sends' = sends + 1)
  BY DEF RequestChallenge, VerifyChallenge, ChallengeExpires, WithinRateLimit
<1>2. /\ challenge' \in [Challenges -> ChallengeRow] /\ ChallengeMoves(h)
      /\ challenge'[h].state \in {"ABSENT", "PENDING"} => challenge'[h].tries < MaxTries
  BY ChallengeDoes
<1>3. ChallengesSound' /\ BindingsKept
  BY <1>1, <1>2, BaseParts DEF ChallengesSound, BindingsKept, ChallengeMoves, Only
<1>4. CountsTyped'
  BY <1>1, Sorts, BaseParts DEF CountsTyped
<1>5. key' \in [Keys -> KeyRow] /\ KeysKept
  BY <1>1, BaseParts, KeysLoosened DEF RowsTyped
<1>6. QED
  BY <1>1, <1>3, <1>4, <1>5, TablesKeep

LEMMA KeyLapsesKeeps ==
  ASSUME IdentityInv, Base, NEW k \in Keys, KeyLapses(k)
  PROVE  IdentityInv'
<1>1. /\ key[k].state = "HELD" /\ key' = [key EXCEPT ![k].state = "LAPSED"] /\ (Fault \/ NoFault)
      /\ UNCHANGED <<challenge, sends, snapshot, user, account, job, client, worker, consumedBy,
                     drift, blind>>
  BY DEF KeyLapses
<1>2. key' \in [Keys -> KeyRow] /\ Loosened
  BY <1>1, BaseParts DEF RowsTyped, KeyRow, Loosened
<1>3. ChallengesSound' /\ BindingsKept /\ CountsTyped' /\ KeysKept
  BY <1>1, <1>2, BaseParts, FaultDoes, KeysLoosened DEF ChallengesSound, BindingsKept, CountsTyped
<1>4. QED
  BY <1>1, <1>2, <1>3, TablesKeep

-----------------------------------------------------------------------------
\* The invariant

LEMMA InitEstablishes ==
  ASSUME Init
  PROVE  IdentityInv
<1>1. PICK chosen \in Worlds :
        LET world == chosen.requests
            fresh == \E r \in world : OpOf[KeyOf[r]] = "REGISTER" IN
        /\ challenge = [h \in Challenges |->
             [state |-> IF h \in Named(world) THEN "ABSENT" ELSE "EXPIRED",
              expired |-> h \notin Named(world), registration |-> None, tries |-> 0]]
        /\ sends = 0
        /\ snapshot = [k \in RegKeys |-> None]
        /\ user = [id |-> IF fresh THEN 0 ELSE 1, owner |-> None, changes |-> {},
                   born |-> IF fresh THEN 0 ELSE 1]
        /\ account = [subject |-> IF fresh THEN 0 ELSE 1, changes |-> {},
                      flagged |-> FALSE, version |-> 1]
        /\ job = [j \in JobIds |-> NoJob]
        /\ key = [k \in Keys |-> [state |-> "ABSENT", version |-> 0]]
        /\ client = [r \in Requests |-> [pc |-> IF r \in world THEN "idle" ELSE "off",
                                         user |-> 0, seen |-> {}, answer |-> None]]
        /\ worker = [w \in Workers |-> [holds |-> {}, spent |-> {}, at |-> None, ok |-> FALSE]]
        /\ consumedBy = [h \in Challenges |-> {}]
        /\ drift = FALSE
        /\ blind = FALSE
        /\ faults = MaxFaults - chosen.budget
  BY DEF Init
<1>2. PICK id \in {0, 1} : id = IF \E r \in chosen.requests : OpOf[KeyOf[r]] = "REGISTER" THEN 0 ELSE 1
  OBVIOUS
<1>3. /\ user = [id |-> id, owner |-> None, changes |-> {}, born |-> id]
      /\ account = [subject |-> id, changes |-> {}, flagged |-> FALSE, version |-> 1]
  BY <1>1, <1>2
<1>4. chosen.budget \in 0..MaxFaults
  BY IdentityAssumption
<1>5. ChallengesSound
  BY <1>1, Sorts DEF ChallengesSound, ChallengeRow
<1>6. JobsSound
  BY <1>1, Sorts DEF JobsSound, JobRow, NoJob
<1>7. ClientsTyped
  BY <1>1 DEF ClientsTyped, ClientRow, Places, Registering, Mutating
<1>8. RowsTyped
  BY <1>1, <1>3 DEF RowsTyped, SnapshotStates, UserRow, AccountRow, KeyRow
<1>9. WorkersSound
  BY <1>1, Sorts DEF WorkersSound, WorkerRow
<1>10. CountsTyped
  <2>1. MaxSends \in Nat /\ MaxFaults \in Nat /\ chosen.budget \in 0..MaxFaults
    BY <1>4, Sorts
  <2>2. 0 \in 0..MaxSends /\ MaxFaults - chosen.budget \in 0..MaxFaults
    BY <2>1
  <2>3. sends = 0 /\ drift = FALSE /\ blind = FALSE /\ faults = MaxFaults - chosen.budget
    BY <1>1
  <2>4. QED
    BY <2>2, <2>3 DEF CountsTyped
<1>11. Base
  BY <1>5, <1>6, <1>7, <1>8, <1>9, <1>10, BaseParts
<1>12. \A j \in JobIds : job[j].state = None
  BY <1>1 DEF NoJob
<1>13. \A r \in Requests : client[r].pc \in {"off", "idle"} /\ client[r].user = 0
                           /\ client[r].answer = None
  BY <1>1
<1>14. VersionCounts
  <2>1. Mutated = {}
    BY <1>1 DEF Mutated
  <2>2. QED
    BY <1>3, <1>13, <2>1, FS_EmptySet DEF VersionCounts
<1>15. ChallengesBound
  <2>1. \A h \in Challenges : consumedBy[h] = {}
    BY <1>1
  <2>2. \A h \in ForRegistration : h \in Challenges
    BY Sorts DEF ForRegistration
  <2>3. QED
    BY <1>1, <1>12, <1>13, <2>1, <2>2, Sorts DEF ChallengesBound, Registering
<1>16. UserStands
  BY <1>1, <1>12, <1>13, Sorts DEF UserStands
<1>17. JobsHold
  BY <1>3, <1>12, <1>13, Sorts DEF JobsHold, Untouched, Active, Mutating
<1>18. ChangesAgree
  BY <1>3, <1>12, <1>13, Sorts DEF ChangesAgree, Untouched, Active, Mine
<1>19. QED
  BY <1>11, <1>14, <1>15, <1>16, <1>17, <1>18 DEF IdentityInv, Base

LEMMA StutterKeeps ==
  ASSUME IdentityInv, UNCHANGED vars
  PROVE  IdentityInv'
<1>1. Base
  BY DEF IdentityInv, Base
<1>2. CountsTyped' /\ WorkersSound' /\ QuietWorkers
  BY <1>1, BaseParts DEF vars, CountsTyped, WorkersSound, QuietWorkers, Restorer, Mine
<1>3. QED
  BY <1>1, <1>2, WorkerKeeps DEF vars

LEMMA NextKeeps ==
  ASSUME IdentityInv, Next
  PROVE  IdentityInv'
<1>1. Base
  BY DEF IdentityInv, Base
<1>2. ASSUME NEW r \in Requests, RegistrationStep(r)
      PROVE  IdentityInv'
  BY <1>1, <1>2, PrepareKeeps, CreateKeeps, FinalizeKeeps, ScheduleKeeps, UndoKeeps
     DEF RegistrationStep
<1>3. ASSUME NEW r \in Requests, MutationStep(r)
      PROVE  IdentityInv'
  BY <1>1, <1>3, BeginKeeps, ReadUserKeeps, ArmKeeps, UpdateKeeps, CommitKeeps, QueueKeeps
     DEF MutationStep
<1>4. ASSUME NEW w \in Workers, WorkerStep(w)
      PROVE  IdentityInv'
  BY <1>1, <1>4, ClaimKeeps, FinishKeeps, FinalizeProjectionKeeps, RestoreKeeps, SkipKeeps
     DEF WorkerStep
<1>5. ASSUME NEW h \in Challenges, NEW matches \in BOOLEAN,
             RequestChallenge(h) \/ VerifyChallenge(h, matches) \/ ChallengeExpires(h)
      PROVE  IdentityInv'
  BY <1>1, <1>5, ChallengeKeeps
<1>6. ASSUME Timer
      PROVE  IdentityInv'
  BY <1>1, <1>6, KeyLapsesKeeps, JobTimersKeep DEF Timer
<1>7. \A r \in Requests : CrashRequest(r) => IdentityInv'
  BY <1>1, CrashKeeps
<1>8. \A w \in Workers : CycleAborts(w) => IdentityInv'
  BY <1>1, CycleAbortsKeeps
<1>9. \A h \in Challenges : RequestChallenge(h) \/ ChallengeExpires(h) => IdentityInv'
  <2>1. TRUE \in BOOLEAN
    OBVIOUS
  <2>2. QED
    BY <1>5, <2>1
<1>10. EnsureAccountProjection => IdentityInv'
  BY <1>1, EnsureKeeps
<1>11. QED
  BY <1>2, <1>3, <1>4, <1>5, <1>6, <1>7, <1>8, <1>9, <1>10 DEF Next

\* Whatever the order in which requests, their retries, the reconciler's
\* workers, crashes and lapsed leases interleave, the parts of IdentityInv hold.
THEOREM IdentityInvariant == Spec => []IdentityInv
<1>1. IdentityInv /\ [Next]_vars => IdentityInv'
  BY NextKeeps, StutterKeeps
<1>2. QED
  BY InitEstablishes, <1>1, PTL DEF Spec

\* A registration recorded as COMPLETED has its Keycloak user and its account,
\* bound to each other and to its own challenge, unless scheduling a
\* reconciliation had failed.
THEOREM CompletedUserStands == Spec => []CompletedHasUser
<1>1. IdentityInv => CompletedHasUser
  BY DEF IdentityInv, UserStands, ChallengesBound, CompletedHasUser, Owns
<1>2. QED
  BY <1>1, IdentityInvariant, PTL

\* The profile version counts the committed keys, each once, a request that was
\* told "ok" is among them, and a challenge is consumed for one key at most.
THEOREM CommitsCountOnce == Spec => []CommittedOncePerKey
<1>1. ASSUME IdentityInv
      PROVE  CommittedOncePerKey
  <2>1. ASSUME NEW h \in Challenges
        PROVE  Cardinality(consumedBy[h]) <= 1
    <3>1. \E x : consumedBy[h] \subseteq {x}
      <4>1. CASE h \in ForRegistration
        BY <1>1, <4>1 DEF IdentityInv, ChallengesBound
      <4>2. CASE h \notin ForRegistration
        BY <1>1, <4>2 DEF IdentityInv, ChallengesBound
      <4>3. QED
        BY <4>1, <4>2
    <3>2. PICK x : consumedBy[h] = {} \/ consumedBy[h] = {x}
      BY <3>1
    <3>3. CASE consumedBy[h] = {}
      BY <3>3, FS_EmptySet
    <3>4. CASE consumedBy[h] = {x}
      <4>1. Cardinality({x}) = 1
        BY FS_Singleton
      <4>2. QED
        BY <3>4, <4>1
    <3>5. QED
      BY <3>2, <3>3, <3>4
  <2>2. /\ account.version = 1 + Cardinality(Mutated) + (IF account.flagged THEN 1 ELSE 0)
        /\ \A r \in Requests : client[r].answer = "ok" => key[KeyOf[r]].state = "COMPLETED"
    BY <1>1 DEF IdentityInv, VersionCounts
  <2>3. QED
    BY <2>1, <2>2 DEF CommittedOncePerKey, Mutated
<1>2. QED
  BY <1>1, IdentityInvariant, PTL

\* Once no compensation is outstanding, Keycloak shows what the projection has
\* committed, unless the account is flagged or a mutation was built on a
\* representation that was not the projection's.
THEOREM SettledAgrees == Spec => []SettledAgree
<1>1. IdentityInv => SettledAgree
  BY DEF IdentityInv, ChangesAgree, SettledAgree
<1>2. QED
  BY <1>1, IdentityInvariant, PTL

\* No step changes the job of a mutation that was committed, restored or given
\* up, and one given up leaves its account flagged.
THEOREM EndedJobsStand == Spec => EndedJobStands
<1> DEFINE Stands == \A m \in MutRequests : job[m].state \in {"COMPLETED", "FAILED"} =>
                       /\ job'[m] = job[m]
                       /\ job[m].state = "FAILED" => account'.flagged
<1>1. ASSUME IdentityInv, IdentityInv', [Next]_vars
      PROVE  Stands
  <2>1. SUFFICES ASSUME NEW m \in MutRequests, job[m].state \in {"COMPLETED", "FAILED"}
                 PROVE  job'[m] = job[m]
    BY <1>1 DEF IdentityInv, JobsHold
  <2>2. Base /\ m \in JobIds /\ m \notin RegKeys
    BY <1>1, Sorts DEF IdentityInv, Base
  <2>3. ASSUME NEW r \in Requests, RegistrationStep(r)
        PROVE  job'[m] = job[m]
    <3>1. CASE ScheduleReconciliation(r)
      <4>1. job' = job \/ Scheduled(KeyOf[r], client[r].user)
        BY <3>1 DEF ScheduleReconciliation
      <4>2. m # KeyOf[r]
        BY <2>1, Sorts, IdentityAssumption
      <4>3. QED
        BY <2>2, <4>1, <4>2, JobsTyped DEF Scheduled
    <3>2. CASE ~ScheduleReconciliation(r)
      BY <2>3, <3>2 DEF RegistrationStep, Prepare, CreateLearner, FinalizeRegistration,
         UndoRegistration
    <3>3. QED
      BY <3>1, <3>2
  <2>4. ASSUME NEW r \in Requests, MutationStep(r)
        PROVE  job'[m] = job[m]
    <3>1. CASE ArmCompensation(r)
      <4>1. client[r].pc = "read"
        BY <3>1 DEF ArmCompensation
      <4>2. m # r
        BY <1>1, <2>1, <4>1 DEF IdentityInv, JobsHold
      <4>3. QED
        BY <2>2, <3>1, <4>2, JobsTyped DEF ArmCompensation
    <3>2. CASE CommitMutation(r)
      <4>1. job' = job \/ (job[r].state = "PENDING" /\ job' = [job EXCEPT ![r].state = "COMPLETED"])
        BY <3>2 DEF CommitMutation, MayCommit, Committed
      <4>2. QED
        BY <2>1, <2>2, <4>1, JobsTyped
    <3>3. CASE QueueCompensation(r)
      <4>1. job' = job \/ job' = [job EXCEPT ![r].due = @ \/ job[r].state = "PENDING"]
        BY <3>3 DEF QueueCompensation
      <4>2. job[m] \in JobRow
        BY <2>2, JobsTyped
      <4>3. [job[m] EXCEPT !.due = job[m].due \/ job[m].state = "PENDING"] = job[m]
        BY <2>1, <4>2 DEF JobRow
      <4>4. QED
        BY <2>2, <4>1, <4>3, JobsTyped
    <3>4. CASE Begin(r) \/ ReadUser(r) \/ UpdateKeycloak(r)
      BY <3>4 DEF Begin, ReadUser, UpdateKeycloak
    <3>5. QED
      BY <2>4, <3>1, <3>2, <3>3, <3>4 DEF MutationStep
  <2>5. ASSUME NEW w \in Workers, WorkerStep(w)
        PROVE  job'[m] = job[m]
    <3>1. CASE Claim(w)
      BY <2>1, <2>2, <3>1, ClaimDoes DEF Claimable
    <3>2. CASE FinishJob(w)
      BY <2>1, <2>2, <3>2, FinishDoes DEF Mine, Only
    <3>3. CASE \E j \in JobIds : FinalizeProjection(w, j) \/ RestoreUser(w, j) \/ SkipSpent(w, j)
      BY <3>3 DEF FinalizeProjection, RestoreUser, SkipSpent
    <3>4. QED
      BY <2>5, <3>1, <3>2, <3>3 DEF WorkerStep
  <2>6. ASSUME NEW j \in JobIds, JobDue(j) \/ ClaimLapses(j)
        PROVE  job'[m] = job[m]
    BY <2>1, <2>2, <2>6, JobsTyped DEF JobDue, ClaimLapses
  <2>7. CASE UNCHANGED job
    BY <2>7
  <2>8. QED
    BY <1>1, <2>3, <2>4, <2>5, <2>6, <2>7
       DEF Next, Timer, vars, CrashRequest, CycleAborts, RequestChallenge, ChallengeExpires,
           VerifyChallenge, EnsureAccountProjection, KeyLapses
<1>2. QED
  BY <1>1, IdentityInvariant, PTL DEF Spec, EndedJobStands
=============================================================================
