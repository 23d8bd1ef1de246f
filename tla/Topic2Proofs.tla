---------------------------- MODULE Topic2Proofs ----------------------------
(* Theorems about Topic2Learner, for any events, graphs, operations, asks,   *)
(* rankings, calls and limits.                                               *)
(*                                                                           *)
(* LearnerInv says of every row, and of every draft a call carries towards a *)
(* save, that it is sound: it has weighed each event at most once, and only  *)
(* events behind its cursor.  Tables only grow and the stamps of stored      *)
(* events stand, so what a call read stays true however old it is            *)
(* (...Stays); a save needs the successor check only to place its rows.      *)
(* ExplainedInv says why an event that was in the table is not weighed.      *)
(* PathInv says of every path, saved or planned, that it keeps the           *)
(* prerequisites of the graph it was planned on.                             *)
(* Predicates of rows and drafts take the tables as arguments, so that they  *)
(* can be compared between a state and the next.                             *)
EXTENDS Topic2Learner, FiniteSetTheorems, WellFoundedInduction, TLAPS

-----------------------------------------------------------------------------
(* The inductive invariant.                                                  *)

\* Of the tables: R is received, S stored, P profiles, M memory.
PassedIn(R, e, cursor) == ~Less(cursor, <<R[e], e>>)

WorldOK ==
  /\ clock \in Nat /\ received \in [Events -> Nat] /\ stored \subseteq Events
  /\ \A e \in Events : received[e] <= clock /\ (received[e] > 0 => Occurred[e] <= received[e])
  /\ \A e \in stored : received[e] > 0
  /\ \E n \in Nat : \A e \in stored : e <= n
  /\ graph \in 1..Len(Graphs)
  /\ DOMAIN asked \subseteq Ops /\ \A op \in DOMAIN asked : asked[op] \in Nat

\* An event is counted once, and only one that is stored and that the cursor
\* has passed: no later batch will hold it.
Weighed(counts, cursor, S, R) ==
  /\ counts \in [Events -> {0, 1}]
  /\ \A e \in Events : counts[e] = 1 => e \in S /\ PassedIn(R, e, cursor)

ProfileSound(p, S, R) ==
  p \in ProfileRow /\ p.seen \subseteq S /\ Weighed(p.counted, p.cursor, S, R)
StateSound(s, S, R) ==
  /\ s \in MemoryRow /\ s.seen \subseteq S /\ s.cursor[1] <= s.computed
  /\ Weighed(s.applied, s.cursor, S, R)

\* All evidence of one is in the other.
Covers(more, less) == \A e \in Events : more[e] >= less[e]

ProfilesOK ==
  /\ profiles \in Seq(ProfileRow)
  /\ \A v \in 1..Len(profiles) :
       /\ ProfileSound(profiles[v], stored, received) /\ profiles[v].base < v
       /\ v > 1 /\ ~profiles[v].restored => Covers(profiles[v].counted, profiles[v - 1].counted)
MemoryOK ==
  /\ memory \in [Points -> Seq(MemoryRow)]
  /\ \A k \in Points : \A v \in 1..Len(memory[k]) :
       /\ StateSound(memory[k][v], stored, received)
       /\ v > 1 => Covers(memory[k][v].applied, memory[k][v - 1].applied)

\* What a call holds between its transactions.
DraftOK(x, P, S, R) ==
  /\ x.parent \in 0..Len(P) /\ ProfileSound(x.draft, S, R) /\ x.draft.base \in 0..Len(P)
  /\ x.parent > 0 /\ ~x.draft.restored => Covers(x.draft.counted, P[x.parent].counted)
StatesOK(x, M, S, R) ==
  /\ DOMAIN x.draft \subseteq Points
  /\ \A k \in DOMAIN x.draft :
       /\ x.parents[k] \in 0..Len(M[k]) /\ StateSound(x.draft[k], S, R)
       /\ x.parents[k] > 0 => Covers(x.draft[k].applied, M[k][x.parents[k]].applied)

CallOK(x, P, M, S, R, D) ==
  /\ x.at \in {"initialize", "latest", "events", "restore", "current", "reviews"} => x.op \in D
  /\ x.at = "initialize" => x.graph \in 1..Len(Graphs)
  /\ x.at = "events" => x.base \in 0..Len(P)
  /\ x.at = "restore" => x.target \in 1..Len(P)
  /\ x.at = "profile" => DraftOK(x, P, S, R)
  /\ x.at = "current" => x.tag \in Tags /\ x.points \subseteq Points
  /\ x.at = "reviews" => /\ x.tag \in Tags /\ DOMAIN x.current \subseteq Points
                         /\ \A k \in DOMAIN x.current : x.current[k] \in 0..Len(M[k])
  /\ x.at = "states" => StatesOK(x, M, S, R)

CallsOK ==
  /\ call = [c \in Calls |-> call[c]]
  /\ \A c \in Calls : CallOK(call[c], profiles, memory, stored, received, DOMAIN asked)

LearnerInv == WorldOK /\ ProfilesOK /\ MemoryOK /\ CallsOK

-----------------------------------------------------------------------------
(* Why an event that was stored is not weighed: a version before rejected    *)
(* it, or had passed its place in the order before it was stored.            *)
MissedAt(p, e, R) == e \in p.rejected \/ (e \notin p.seen /\ PassedIn(R, e, p.cursor))
ProfileExplained(p, P, R) ==
  \A e \in p.seen : \/ p.counted[e] > 0 \/ e \in p.rejected
                    \/ p.base # 0 /\ \E i \in Lineage(P, p.base) : MissedAt(P[i], e, R)
StateExplained(s, k, m, n, R) ==
  \A e \in s.seen : Point[e] = k /\ R[e] <= s.computed =>
     s.applied[e] > 0 \/ \E i \in 1..n : e \notin m[i].seen /\ PassedIn(R, e, ReviewCursor(m[i]))
CallExplained(x, P, M, R) ==
  /\ x.at = "profile" => ProfileExplained(x.draft, P, R)
  /\ x.at = "states" => \A k \in DOMAIN x.draft :
                          StateExplained(x.draft[k], k, M[k], x.parents[k], R)

ExplainedInv ==
  /\ \A v \in 1..Len(profiles) : ProfileExplained(profiles[v], profiles, received)
  /\ \A k \in Points : \A v \in 1..Len(memory[k]) :
       StateExplained(memory[k][v], k, memory[k], v, received)
  /\ \A c \in Calls : CallExplained(call[c], profiles, memory, received)

-----------------------------------------------------------------------------
(* Least and greatest stamps.                                                *)

LEMMA LeastOf ==
  ASSUME NEW T \in SUBSET Nat, T # {}
  PROVE  \E n \in T : \A m \in T : n <= m
<1>1. PICK n \in T : \A m \in T : <<m, n>> \notin OpToRel(<, Nat)
  BY WFMin, NatLessThanWellFounded, Zenon
<1>2. \A m \in T : ~(m < n)
  BY <1>1, Zenon DEF OpToRel
<1> QED
  BY <1>2

LEMMA EarliestOf ==
  ASSUME NEW T \in SUBSET (Nat \X Nat), T # {}
  PROVE  \E s \in T : \A t \in T : s = t \/ Less(s, t)
<1> DEFINE F == {t[1] : t \in T}
<1>1. F \in SUBSET Nat /\ F # {}
  OBVIOUS
<1>2. PICK a \in F : \A m \in F : a <= m
  <2> HIDE DEF F
  <2> QED BY <1>1, LeastOf
<1> DEFINE G == {t[2] : t \in {t \in T : t[1] = a}}
<1>3. G \in SUBSET Nat /\ G # {}
  BY <1>1, <1>2
<1>4. PICK b \in G : \A m \in G : b <= m
  <2> HIDE DEF G
  <2> QED BY <1>3, LeastOf
<1>5. PICK s \in T : s[1] = a /\ s[2] = b
  BY <1>4
<1>6. \A t \in T : s = t \/ Less(s, t)
  <2> TAKE t \in T
  <2>1. a \in Nat /\ b \in Nat /\ t[1] \in Nat /\ t[2] \in Nat /\ t = <<t[1], t[2]>> /\ s = <<a, b>>
    BY <1>5, <1>1, <1>3
  <2>2. a <= t[1] /\ (t[1] = a => b <= t[2])
    BY <1>2, <1>4
  <2> QED BY <2>1, <2>2, <1>5 DEF Less
<1> QED BY <1>6

LEMMA LatestOf ==
  ASSUME NEW T \in SUBSET (Nat \X Nat), T # {},
         NEW n \in Nat, NEW m \in Nat, \A t \in T : t[1] <= n /\ t[2] <= m
  PROVE  \E s \in T : \A t \in T : s = t \/ Less(t, s)
<1> DEFINE U == {<<n - t[1], m - t[2]>> : t \in T}
<1>1. U \in SUBSET (Nat \X Nat) /\ U # {}
  <2>1. \A t \in T : n - t[1] \in Nat /\ m - t[2] \in Nat
    <3> TAKE t \in T
    <3>1. t[1] \in Nat /\ t[2] \in Nat /\ t[1] <= n /\ t[2] <= m
      OBVIOUS
    <3> QED BY <3>1
  <2>2. U \in SUBSET (Nat \X Nat)
    BY <2>1
  <2>3. PICK t \in T : TRUE
    OBVIOUS
  <2>4. <<n - t[1], m - t[2]>> \in U
    OBVIOUS
  <2> QED BY <2>2, <2>4
<1>2. PICK u \in U : \A w \in U : u = w \/ Less(u, w)
  <2> HIDE DEF U
  <2> QED BY <1>1, EarliestOf
<1>3. PICK s \in T : u = <<n - s[1], m - s[2]>>
  BY <1>2
<1>4. \A t \in T : s = t \/ Less(t, s)
  <2> TAKE t \in T
  <2>1. <<n - t[1], m - t[2]>> \in U
    OBVIOUS
  <2>2. u = <<n - t[1], m - t[2]>> \/ Less(u, <<n - t[1], m - t[2]>>)
    BY <2>1, <1>2
  <2>3. /\ t[1] \in Nat /\ t[2] \in Nat /\ t = <<t[1], t[2]>>
        /\ s[1] \in Nat /\ s[2] \in Nat /\ s = <<s[1], s[2]>>
    OBVIOUS
  <2>4. (n - s[1] = n - t[1] /\ m - s[2] = m - t[2])
        \/ n - s[1] < n - t[1] \/ (n - s[1] = n - t[1] /\ m - s[2] < m - t[2])
    BY <2>2, <1>3 DEF Less
  <2>5. (s[1] = t[1] /\ s[2] = t[2]) \/ t[1] < s[1] \/ (t[1] = s[1] /\ t[2] < s[2])
    BY <2>3, <2>4
  <2> QED BY <2>3, <2>5 DEF Less
<1> QED BY <1>4

-----------------------------------------------------------------------------
(* What the operators of the model give.                                     *)

LEMMA Sorts ==
  /\ Events \subseteq Nat /\ Point \in [Events -> Points] /\ Occurred \in [Events -> Nat]
  /\ MinSample \in Nat /\ BatchLimit \in Nat /\ MaxCalls \in Nat /\ MaxClock \in Nat
  /\ \A ops \in Worlds : ops \subseteq Ops
  /\ Len(Graphs) \in Nat
BY Topic2Assumption

\* The cursor behind a batch: everything in the batch, and everything the old
\* cursor had passed, is passed.
LEMMA LatestDoes ==
  ASSUME WorldOK, NEW E \in SUBSET stored, NEW cursor \in Nat \X Nat
  PROVE  /\ Latest(E, cursor) \in Nat \X Nat
         /\ \A e \in E : PassedIn(received, e, Latest(E, cursor))
         /\ \A e \in Events : PassedIn(received, e, cursor)
                                => PassedIn(received, e, Latest(E, cursor))
         /\ \A n \in Nat : cursor[1] <= n /\ (\A e \in E : received[e] <= n)
                             => Latest(E, cursor)[1] <= n
<1> DEFINE T == {Stamp(e) : e \in E} \union {cursor}
           top == Latest(E, cursor)
<1>1. \A e \in Events : e \in Nat /\ received[e] \in Nat /\ received[e] <= clock
  BY Sorts DEF WorldOK
<1>2. E \subseteq Events /\ clock \in Nat
  BY DEF WorldOK
<1>3. PICK b \in Nat : \A e \in stored : e <= b
  BY DEF WorldOK
<1>4. T \in SUBSET (Nat \X Nat) /\ T # {}
  BY <1>1, <1>2 DEF Stamp
<1>5. PICK n \in Nat : clock <= n /\ cursor[1] <= n
  <2>1. cursor[1] \in Nat
    OBVIOUS
  <2>2. clock + cursor[1] \in Nat /\ clock <= clock + cursor[1] /\ cursor[1] <= clock + cursor[1]
    BY <2>1, <1>2
  <2> QED BY <2>2
<1>6. PICK m \in Nat : b <= m /\ cursor[2] <= m
  <2>1. cursor[2] \in Nat
    OBVIOUS
  <2>2. b + cursor[2] \in Nat /\ b <= b + cursor[2] /\ cursor[2] <= b + cursor[2]
    BY <2>1
  <2> QED BY <2>2
<1>7. \A t \in T : t[1] <= n /\ t[2] <= m
  <2>1. \A e \in E : received[e] <= n /\ e <= m
    <3> TAKE e \in E
    <3>1. e \in Nat /\ received[e] \in Nat /\ received[e] <= clock /\ e <= b
      BY <1>1, <1>2, <1>3
    <3> QED BY <3>1, <1>5, <1>6, <1>2
  <2> QED BY <2>1, <1>5, <1>6 DEF Stamp
<1>8. \E s \in T : \A t \in T : s = t \/ Less(t, s)
  <2> HIDE DEF T
  <2> QED BY <1>4, <1>7, LatestOf
<1>9. top \in T /\ \A t \in T : top = t \/ Less(t, top)
  BY <1>8 DEF Latest
<1>10. top \in Nat \X Nat
  BY <1>4, <1>9
<1>11. \A t \in T : ~Less(top, t)
  <2> TAKE t \in T
  <2>1. t[1] \in Nat /\ t[2] \in Nat /\ top[1] \in Nat /\ top[2] \in Nat
    BY <1>4, <1>10
  <2> QED BY <1>9, <2>1 DEF Less
<1>12. \A e \in E : PassedIn(received, e, top)
  <2> TAKE e \in E
  <2>1. Stamp(e) \in T
    OBVIOUS
  <2> QED BY <2>1, <1>11 DEF PassedIn, Stamp
<1>13. \A e \in Events : PassedIn(received, e, cursor) => PassedIn(received, e, top)
  <2> TAKE e \in Events
  <2>1. /\ top[1] \in Nat /\ top[2] \in Nat /\ cursor[1] \in Nat /\ cursor[2] \in Nat
        /\ e \in Nat /\ received[e] \in Nat
    BY <1>10, <1>1
  <2>2. top = cursor \/ Less(cursor, top)
    BY <1>9
  <2>3. CASE top = cursor
    BY <2>3
  <2>4. CASE Less(cursor, top)
    BY <2>1, <2>4 DEF Less, PassedIn
  <2> QED BY <2>2, <2>3, <2>4
<1>14. \A k \in Nat : cursor[1] <= k /\ (\A e \in E : received[e] <= k) => top[1] <= k
  BY <1>9 DEF Stamp
<1> QED BY <1>10, <1>12, <1>13, <1>14

\* Counting a batch that the cursor has not passed keeps counts at one.
LEMMA CountingDoes ==
  ASSUME NEW S \in SUBSET Events, NEW R, NEW counts, NEW cursor, NEW next, NEW E \in SUBSET S,
         Weighed(counts, cursor, S, R),
         \A e \in E : ~PassedIn(R, e, cursor) /\ PassedIn(R, e, next),
         \A e \in Events : PassedIn(R, e, cursor) => PassedIn(R, e, next)
  PROVE  /\ Weighed(Counting(counts, E), next, S, R)
         /\ Covers(Counting(counts, E), counts)
         /\ \A e \in E : Counting(counts, E)[e] > 0
<1> DEFINE more == Counting(counts, E)
<1>1. \A e \in Events : counts[e] \in {0, 1}
  BY DEF Weighed
<1>2. \A e \in E : counts[e] = 0 /\ e \in Events
  BY <1>1 DEF Weighed
<1>3. \A e \in Events : more[e] = IF e \in E THEN 1 ELSE counts[e]
  BY <1>2 DEF Counting
<1>4. more \in [Events -> {0, 1}]
  BY <1>1, <1>2 DEF Counting
<1>5. \A e \in Events : more[e] = 1 => e \in S /\ PassedIn(R, e, next)
  BY <1>3 DEF Weighed
<1>6. Covers(more, counts)
  BY <1>1, <1>3 DEF Covers
<1>7. \A e \in E : more[e] > 0
  BY <1>2, <1>3
<1> HIDE DEF more
<1>8. Weighed(more, next, S, R)
  BY <1>4, <1>5 DEF Weighed
<1> QED BY <1>6, <1>7, <1>8 DEF more

-----------------------------------------------------------------------------
(* Tables grow, and what was sound stays so.                                 *)

Extends(s, t) == Len(s) <= Len(t) /\ \A i \in 1..Len(s) : t[i] = s[i]

KeepsEvents(S, S2, R, R2) == S \subseteq S2 /\ \A e \in S : R2[e] = R[e]

Grows(P, P2, M, M2, S, S2, R, R2) ==
  /\ P \in Seq(ProfileRow) /\ P2 \in Seq(ProfileRow) /\ Extends(P, P2)
  /\ \A k \in Points : /\ M[k] \in Seq(MemoryRow) /\ M2[k] \in Seq(MemoryRow)
                       /\ Extends(M[k], M2[k])
  /\ KeepsEvents(S, S2, R, R2)

LEMMA WeighedStays ==
  ASSUME NEW counts, NEW cursor, NEW S, NEW S2, NEW R, NEW R2,
         KeepsEvents(S, S2, R, R2), Weighed(counts, cursor, S, R)
  PROVE  Weighed(counts, cursor, S2, R2)
BY DEF KeepsEvents, Weighed, PassedIn

LEMMA ProfileStays ==
  ASSUME NEW p, NEW S, NEW S2, NEW R, NEW R2,
         KeepsEvents(S, S2, R, R2), ProfileSound(p, S, R)
  PROVE  ProfileSound(p, S2, R2)
<1>1. Weighed(p.counted, p.cursor, S2, R2)
  BY WeighedStays DEF ProfileSound
<1> QED BY <1>1 DEF ProfileSound, KeepsEvents

LEMMA StateStays ==
  ASSUME NEW s, NEW S, NEW S2, NEW R, NEW R2,
         KeepsEvents(S, S2, R, R2), StateSound(s, S, R)
  PROVE  StateSound(s, S2, R2)
<1>1. Weighed(s.applied, s.cursor, S2, R2)
  BY WeighedStays DEF StateSound
<1> QED BY <1>1 DEF StateSound, KeepsEvents

LEMMA CallStays ==
  ASSUME NEW x, NEW P, NEW P2, NEW M, NEW M2, NEW S, NEW S2, NEW R, NEW R2, NEW D,
         Grows(P, P2, M, M2, S, S2, R, R2), CallOK(x, P, M, S, R, D)
  PROVE  CallOK(x, P2, M2, S2, R2, D)
<1>1. Len(P) \in Nat /\ Len(P2) \in Nat /\ Len(P) <= Len(P2) /\ \A i \in 1..Len(P) : P2[i] = P[i]
  BY DEF Grows, Extends
<1>2. \A k \in Points : /\ Len(M[k]) \in Nat /\ Len(M2[k]) \in Nat /\ Len(M[k]) <= Len(M2[k])
                        /\ \A i \in 1..Len(M[k]) : M2[k][i] = M[k][i]
  BY DEF Grows, Extends
<1>3. KeepsEvents(S, S2, R, R2)
  BY DEF Grows
<1>4. ASSUME DraftOK(x, P, S, R) PROVE DraftOK(x, P2, S2, R2)
  <2>1. ProfileSound(x.draft, S2, R2)
    BY <1>3, <1>4, ProfileStays DEF DraftOK
  <2>2. x.parent \in 0..Len(P2) /\ x.draft.base \in 0..Len(P2)
    BY <1>1, <1>4 DEF DraftOK
  <2>3. x.parent > 0 => P2[x.parent] = P[x.parent]
    BY <1>1, <1>4 DEF DraftOK
  <2> QED BY <1>4, <2>1, <2>2, <2>3 DEF DraftOK
<1>5. ASSUME StatesOK(x, M, S, R) PROVE StatesOK(x, M2, S2, R2)
  <2>1. ASSUME NEW k \in DOMAIN x.draft
        PROVE  /\ x.parents[k] \in 0..Len(M2[k]) /\ StateSound(x.draft[k], S2, R2)
               /\ x.parents[k] > 0 => Covers(x.draft[k].applied, M2[k][x.parents[k]].applied)
    <3>1. k \in Points /\ x.parents[k] \in 0..Len(M[k]) /\ StateSound(x.draft[k], S, R)
      BY <1>5 DEF StatesOK
    <3>2. StateSound(x.draft[k], S2, R2)
      BY <1>3, <3>1, StateStays
    <3>3. x.parents[k] \in 0..Len(M2[k])
      BY <1>2, <3>1
    <3>4. x.parents[k] > 0 => M2[k][x.parents[k]] = M[k][x.parents[k]]
      BY <1>2, <3>1
    <3> QED BY <1>5, <3>2, <3>3, <3>4 DEF StatesOK
  <2> QED BY <1>5, <2>1 DEF StatesOK
<1>6. x.at = "events" => x.base \in 0..Len(P2)
  BY <1>1 DEF CallOK
<1>7. x.at = "restore" => x.target \in 1..Len(P2)
  BY <1>1 DEF CallOK
<1>8. x.at = "reviews" => \A k \in DOMAIN x.current : x.current[k] \in 0..Len(M2[k])
  BY <1>2 DEF CallOK
<1> QED BY <1>4, <1>5, <1>6, <1>7, <1>8 DEF CallOK

-----------------------------------------------------------------------------
(* The steps.                                                                *)

LEMMA CallsKept ==
  ASSUME LearnerInv, NEW c \in Calls, NEW next, call' = [call EXCEPT ![c] = next],
         DOMAIN asked' = DOMAIN asked,
         Grows(profiles, profiles', memory, memory', stored, stored', received, received'),
         CallOK(next, profiles', memory', stored', received', DOMAIN asked)
  PROVE  CallsOK'
<1>1. call' = [d \in Calls |-> call'[d]]
  BY DEF LearnerInv, CallsOK
<1>2. ASSUME NEW d \in Calls
      PROVE  CallOK(call'[d], profiles', memory', stored', received', DOMAIN asked)
  <2>1. CASE d = c
    BY <2>1 DEF LearnerInv, CallsOK
  <2>2. CASE d # c
    <3>1. call'[d] = call[d] /\ CallOK(call[d], profiles, memory, stored, received, DOMAIN asked)
      BY <2>2 DEF LearnerInv, CallsOK
    <3> QED BY <3>1, CallStays
  <2> QED BY <2>1, <2>2
<1> QED BY <1>1, <1>2 DEF CallsOK

LEMMA Stands ==
  ASSUME LearnerInv
  PROVE  /\ Grows(profiles, profiles, memory, memory, stored, stored, received, received)
         /\ \A v \in 1..Len(profiles) : profiles[v] \in ProfileRow
         /\ \A k \in Points : Len(memory[k]) \in Nat
         /\ Len(profiles) \in Nat
<1>1. profiles \in Seq(ProfileRow) /\ \A k \in Points : memory[k] \in Seq(MemoryRow)
  BY DEF LearnerInv, ProfilesOK, MemoryOK
<1> QED BY <1>1 DEF Grows, Extends, KeepsEvents

\* A step that changes neither the tables nor the world.
LEMMA GoesKeeps ==
  ASSUME LearnerInv, NEW c \in Calls, NEW next, Goes(c, next),
         CallOK(next, profiles, memory, stored, received, DOMAIN asked)
  PROVE  LearnerInv'
<1>1. UNCHANGED <<clock, received, stored, graph, profiles, memory, asked>>
  BY DEF Goes, world, tables
<1>2. CallsOK'
  BY <1>1, CallsKept, Stands DEF Goes
<1>3. WorldOK' /\ ProfilesOK' /\ MemoryOK'
  BY <1>1 DEF LearnerInv, WorldOK, ProfilesOK, MemoryOK
<1> QED BY <1>2, <1>3 DEF LearnerInv

LEMMA StartsKeeps ==
  ASSUME LearnerInv, NEW c \in Calls, NEW op \in DOMAIN asked, NEW kind, NEW tag, NEW next,
         Starts(c, op, kind, tag, next),
         CallOK(next, profiles, memory, stored, received, DOMAIN asked)
  PROVE  LearnerInv'
<1>1. UNCHANGED <<clock, received, stored, graph, profiles, memory>>
  BY DEF Starts, world, tables
<1>2. DOMAIN asked' = DOMAIN asked /\ \A o \in DOMAIN asked : asked'[o] \in Nat
  BY DEF Starts, LearnerInv, WorldOK
<1>3. CallsOK'
  BY <1>1, <1>2, CallsKept, Stands DEF Starts
<1>4. WorldOK' /\ ProfilesOK' /\ MemoryOK'
  BY <1>1, <1>2 DEF LearnerInv, WorldOK, ProfilesOK, MemoryOK
<1> QED BY <1>3, <1>4 DEF LearnerInv

LEMMA StartsKeep ==
  ASSUME LearnerInv, NEW c \in Calls, NEW op \in DOMAIN asked,
         \/ StartInitialize(c, op)
         \/ StartRebuild(c, op)
         \/ \E v \in 1..MaxCalls : StartRestore(c, op, v)
         \/ StartRefresh(c, op)
         \/ \E due \in SUBSET Points : StartRefreshDue(c, op, due)
         \/ StartPath(c, op)
  PROVE  LearnerInv'
<1>1. op \in Ops /\ graph \in 1..Len(Graphs) /\ Derived(op) \in Tags
  BY DEF LearnerInv, WorldOK, Derived, Tags
<1>2. CASE StartInitialize(c, op)
  BY <1>1, <1>2, StartsKeeps DEF StartInitialize, CallOK
<1>3. CASE StartRebuild(c, op)
  BY <1>3, StartsKeeps DEF StartRebuild, CallOK
<1>4. ASSUME NEW v \in 1..MaxCalls, StartRestore(c, op, v) PROVE LearnerInv'
  BY <1>4, StartsKeeps DEF StartRestore, CallOK
<1>5. CASE StartRefresh(c, op)
  <2>1. Graphs[graph].active \subseteq Points
    BY <1>1 DEF Points
  <2> QED BY <1>1, <1>5, <2>1, StartsKeeps DEF StartRefresh, CallOK
<1>6. ASSUME NEW due \in SUBSET Points, StartRefreshDue(c, op, due) PROVE LearnerInv'
  <2>1. <<op, due>> \in Tags
    BY <1>1 DEF Tags
  <2> QED BY <1>6, <2>1, StartsKeeps DEF StartRefreshDue, CallOK
<1>7. CASE StartPath(c, op)
  BY <1>7, StartsKeeps DEF StartPath, CallOK
<1> QED BY <1>2, <1>3, <1>4, <1>5, <1>6, <1>7

LEMMA WorldKeeps ==
  ASSUME LearnerInv,
         Tick \/ AcceptGraph \/ \E e \in Events : Receive(e) \/ RecordBehaviorEvent(e)
  PROVE  LearnerInv' /\ KeepsEvents(stored, stored', received, received')
                     /\ UNCHANGED <<profiles, memory, call>>
<1>1. UNCHANGED <<profiles, memory, asked, call>>
  BY DEF Tick, AcceptGraph, Receive, RecordBehaviorEvent, tables
<1>2. WorldOK' /\ KeepsEvents(stored, stored', received, received')
  <2>1. CASE Tick
    BY <2>1 DEF LearnerInv, WorldOK, Tick, KeepsEvents
  <2>2. CASE AcceptGraph
    <3>1. graph' \in 1..Len(Graphs)
      BY <2>2, Sorts DEF LearnerInv, WorldOK, AcceptGraph
    <3> QED BY <2>2, <3>1 DEF LearnerInv, WorldOK, AcceptGraph, KeepsEvents
  <2>3. ASSUME NEW e \in Events, Receive(e)
        PROVE  WorldOK' /\ KeepsEvents(stored, stored', received, received')
    BY <2>3 DEF LearnerInv, WorldOK, Receive, KeepsEvents
  <2>4. ASSUME NEW e \in Events, RecordBehaviorEvent(e)
        PROVE  WorldOK' /\ KeepsEvents(stored, stored', received, received')
    <3>1. PICK n \in Nat : \A d \in stored : d <= n
      BY DEF LearnerInv, WorldOK
    <3>2. e \in Nat /\ \A d \in stored : d \in Nat
      BY Sorts DEF LearnerInv, WorldOK
    <3>3. n + e \in Nat /\ \A d \in stored' : d <= n + e
      BY <2>4, <3>1, <3>2 DEF RecordBehaviorEvent
    <3>4. \E b \in Nat : \A d \in stored' : d <= b
      BY <3>3
    <3> QED BY <2>4, <3>4 DEF LearnerInv, WorldOK, RecordBehaviorEvent, KeepsEvents
  <2> QED BY <2>1, <2>2, <2>3, <2>4
<1>3. Grows(profiles, profiles', memory, memory', stored, stored', received, received')
  BY <1>1, <1>2, Stands DEF Grows
<1>4. ASSUME NEW c \in Calls
      PROVE  CallOK(call'[c], profiles', memory', stored', received', DOMAIN asked')
  <2>1. CallOK(call[c], profiles, memory, stored, received, DOMAIN asked)
    BY DEF LearnerInv, CallsOK
  <2>2. CallOK(call[c], profiles', memory', stored', received', DOMAIN asked)
    BY <1>3, <2>1, CallStays
  <2> QED BY <1>1, <2>2
<1>5. CallsOK'
  BY <1>1, <1>4 DEF LearnerInv, CallsOK
<1>6. ProfilesOK'
  <2>1. \A v \in 1..Len(profiles) : ProfileSound(profiles[v], stored', received')
    BY <1>2, ProfileStays DEF LearnerInv, ProfilesOK
  <2> QED BY <1>1, <2>1 DEF LearnerInv, ProfilesOK
<1>7. MemoryOK'
  <2>1. \A k \in Points : \A v \in 1..Len(memory[k]) : StateSound(memory[k][v], stored', received')
    BY <1>2, StateStays DEF LearnerInv, MemoryOK
  <2> QED BY <1>1, <2>1 DEF LearnerInv, MemoryOK
<1> QED BY <1>1, <1>2, <1>5, <1>6, <1>7 DEF LearnerInv

LEMMA BaseSound ==
  ASSUME LearnerInv, NEW v \in 0..Len(profiles)
  PROVE  /\ BaseProfile(v).cursor \in Nat \X Nat
         /\ Weighed(BaseProfile(v).counted, BaseProfile(v).cursor, stored, received)
<1>1. CASE v = 0
  BY <1>1 DEF BaseProfile, NoCounts, NoCursor, Weighed
<1>2. CASE v # 0
  <2>1. v \in 1..Len(profiles) /\ BaseProfile(v) = profiles[v]
    BY <1>2, Stands DEF BaseProfile
  <2>2. ProfileSound(profiles[v], stored, received)
    BY <2>1 DEF LearnerInv, ProfilesOK
  <2> QED BY <2>1, <2>2 DEF ProfileSound, ProfileRow, Cursors
<1> QED BY <1>1, <1>2

LEMMA ReadEventsKeeps ==
  ASSUME LearnerInv, NEW c \in Calls, ReadEvents(c)
  PROVE  LearnerInv'
<1> DEFINE op == call[c].op
           b == call[c].base
           base == BaseProfile(b)
           batch == FirstToOccur({e \in stored : After(e, base.cursor)})
<1>1. op \in Ops /\ b \in 0..Len(profiles) /\ Derived(op) \in Tags
  BY DEF ReadEvents, Busy, LearnerInv, CallsOK, CallOK, WorldOK, Derived, Tags
<1>2. PICK rejected \in Outliers(batch) :
        Goes(c, [at |-> "profile", op |-> op, parent |-> b,
                 draft |-> [tag |-> Derived(op), base |-> b, restored |-> FALSE,
                            cursor |-> Latest(batch \ rejected, base.cursor),
                            counted |-> Counting(base.counted, batch \ rejected),
                            seen |-> stored, rejected |-> rejected]])
  BY Zenon DEF ReadEvents
<1> DEFINE E == batch \ rejected
           top == Latest(E, base.cursor)
<1>3. batch \subseteq {e \in stored : After(e, base.cursor)}
  BY DEF FirstToOccur
<1>4. rejected \subseteq batch
  BY <1>2 DEF Outliers
<1>5. stored \subseteq Events /\ WorldOK
  BY DEF LearnerInv, WorldOK
<1>6. /\ base.cursor \in Nat \X Nat
      /\ Weighed(base.counted, base.cursor, stored, received)
  BY <1>1, BaseSound
<1>7. E \in SUBSET stored /\ \A e \in E : ~PassedIn(received, e, base.cursor)
  BY <1>3 DEF After, PassedIn, Stamp
<1> HIDE DEF E, base, batch
<1>8. /\ top \in Nat \X Nat
      /\ \A e \in E : PassedIn(received, e, top)
      /\ \A e \in Events : PassedIn(received, e, base.cursor) => PassedIn(received, e, top)
  BY <1>5, <1>6, <1>7, LatestDoes
<1> HIDE DEF top
<1>9. /\ Weighed(Counting(base.counted, E), top, stored, received)
      /\ Covers(Counting(base.counted, E), base.counted)
  BY <1>5, <1>6, <1>7, <1>8, CountingDoes
<1> DEFINE draft == [tag |-> Derived(op), base |-> b, restored |-> FALSE, cursor |-> top,
                     counted |-> Counting(base.counted, E), seen |-> stored,
                     rejected |-> rejected]
           next == [at |-> "profile", op |-> op, parent |-> b, draft |-> draft]
<1>10. draft \in ProfileRow
  <2>1. Counting(base.counted, E) \in [Events -> Nat]
    BY <1>9 DEF Weighed
  <2>2. b \in Nat /\ rejected \subseteq Events /\ stored \subseteq Events
    BY <1>1, <1>3, <1>4, <1>5, Stands
  <2> QED BY <1>1, <1>8, <2>1, <2>2 DEF ProfileRow, Cursors
<1>11. ProfileSound(draft, stored, received)
  BY <1>9, <1>10 DEF ProfileSound
<1>12. b > 0 => base = profiles[b]
  BY <1>1, Stands DEF base, BaseProfile
<1>13. DraftOK(next, profiles, stored, received)
  <2>1. b > 0 => Covers(draft.counted, profiles[b].counted)
    BY <1>9, <1>12
  <2> HIDE DEF draft
  <2>2. draft.base = b
    BY DEF draft
  <2> QED BY <1>1, <1>11, <2>1, <2>2 DEF DraftOK
<1>14. CallOK(next, profiles, memory, stored, received, DOMAIN asked)
  BY <1>13 DEF CallOK
<1>15. Goes(c, next)
  BY <1>2 DEF top, E
<1> QED BY <1>14, <1>15, GoesKeeps

LEMMA ReadRestoredKeeps ==
  ASSUME LearnerInv, NEW c \in Calls, ReadRestored(c)
  PROVE  LearnerInv'
<1> DEFINE op == call[c].op
           v == call[c].target
           old == profiles[v]
           draft == [tag |-> Derived(op), base |-> v, restored |-> TRUE, cursor |-> old.cursor,
                     counted |-> old.counted, seen |-> old.seen, rejected |-> old.rejected]
           next == [at |-> "profile", op |-> op, parent |-> Len(profiles), draft |-> draft]
<1>1. op \in Ops /\ v \in 1..Len(profiles) /\ Derived(op) \in Tags
  BY DEF ReadRestored, Busy, LearnerInv, CallsOK, CallOK, WorldOK, Derived, Tags
<1>2. ProfileSound(old, stored, received)
  BY <1>1 DEF LearnerInv, ProfilesOK
<1>3. ProfileSound(draft, stored, received)
  <2>1. draft \in ProfileRow
    BY <1>1, <1>2, Stands DEF ProfileSound, ProfileRow
  <2> QED BY <1>2, <2>1 DEF ProfileSound
<1>4. Len(profiles) \in Nat
  BY Stands
<1>5. draft.restored = TRUE /\ draft.base = v
  OBVIOUS
<1> HIDE DEF draft
<1>6. DraftOK(next, profiles, stored, received)
  BY <1>1, <1>3, <1>4, <1>5 DEF DraftOK
<1>7. CallOK(next, profiles, memory, stored, received, DOMAIN asked)
  BY <1>6 DEF CallOK
<1>8. Goes(c, next)
  BY DEF ReadRestored, draft
<1> QED BY <1>7, <1>8, GoesKeeps

LEMMA ReviewCursorDoes ==
  ASSUME LearnerInv, NEW k \in Points, NEW v \in 1..Len(memory[k])
  PROVE  /\ memory[k][v] \in MemoryRow
         /\ ReviewCursor(memory[k][v]) \in Nat \X Nat
         /\ ReviewCursor(memory[k][v])[1] <= memory[k][v].computed
         /\ \A e \in Events : memory[k][v].applied[e] = 1
                                => PassedIn(received, e, ReviewCursor(memory[k][v]))
<1> DEFINE s == memory[k][v]
<1>1. StateSound(s, stored, received)
  BY DEF LearnerInv, MemoryOK
<1>2. /\ s \in MemoryRow /\ s.cursor \in Nat \X Nat /\ s.computed \in Nat
      /\ s.cursor[1] <= s.computed
  BY <1>1 DEF StateSound, MemoryRow, Cursors
<1>3. \A e \in stored : received[e] > 0 /\ received[e] \in Nat
  BY DEF LearnerInv, WorldOK
<1>4. \A e \in Events : s.applied[e] = 1 => e \in stored /\ PassedIn(received, e, s.cursor)
  BY <1>1 DEF StateSound, Weighed
<1> HIDE DEF s
<1>5. CASE s.cursor # NoCursor
  BY <1>2, <1>4, <1>5 DEF ReviewCursor, s
<1>6. CASE s.cursor = NoCursor
  <2>1. \A e \in Events : s.applied[e] # 1
    BY <1>3, <1>4, <1>6 DEF PassedIn, NoCursor, Less
  <2>2. ReviewCursor(s) = <<s.computed, 0>>
    BY <1>6 DEF ReviewCursor
  <2> QED BY <1>2, <2>1, <2>2 DEF s
<1> QED BY <1>5, <1>6

\* The cursor from which the reviews of a batch are read is not ahead of that
\* of any of its points.
LEMMA WindowDoes ==
  ASSUME LearnerInv, NEW current, DOMAIN current \subseteq Points,
         \A k \in DOMAIN current : current[k] \in 0..Len(memory[k]),
         NEW k \in DOMAIN current, NEW e \in stored,
         current[k] > 0 => After(e, ReviewCursor(memory[k][current[k]]))
  PROVE  After(e, Window(current))
<1>1. e \in Nat /\ received[e] \in Nat /\ received[e] > 0
  BY Sorts DEF LearnerInv, WorldOK
<1>2. CASE ~\A j \in DOMAIN current : current[j] > 0
  BY <1>1, <1>2 DEF Window, After, Stamp, NoCursor, Less
<1>3. CASE \A j \in DOMAIN current : current[j] > 0
  <2> DEFINE T == {ReviewCursor(memory[j][current[j]]) : j \in DOMAIN current}
             mine == ReviewCursor(memory[k][current[k]])
             first == Earliest(T)
  <2>1. \A j \in DOMAIN current : j \in Points /\ current[j] \in 1..Len(memory[j])
    BY <1>3, Stands
  <2>2. T \in SUBSET (Nat \X Nat) /\ mine \in T
    BY <2>1, ReviewCursorDoes
  <2>3. \E s \in T : \A t \in T : s = t \/ Less(s, t)
    <3> HIDE DEF T, mine
    <3> QED BY <2>2, EarliestOf
  <2>4. first \in T /\ \A t \in T : first = t \/ Less(first, t)
    BY <2>3 DEF Earliest
  <2>5. first = Window(current)
    BY <1>3 DEF Window
  <2>6. Less(mine, Stamp(e))
    BY <1>3 DEF After
  <2> HIDE DEF T, mine, first
  <2>7. /\ first[1] \in Nat /\ first[2] \in Nat /\ mine[1] \in Nat /\ mine[2] \in Nat
        /\ first = mine \/ Less(first, mine)
    BY <2>2, <2>4
  <2>8. Less(first, Stamp(e))
    BY <2>6, <2>7, <1>1 DEF Less, Stamp
  <2> QED BY <2>5, <2>8 DEF After
<1> QED BY <1>2, <1>3

\* The state a refresh makes of one point.
LEMMA RefreshedDoes ==
  ASSUME LearnerInv, NEW tag \in Tags, NEW k \in Points, NEW version \in 0..Len(memory[k]),
         NEW pending \in SUBSET stored, NEW at \in Nat,
         version > 0 => memory[k][version].computed <= at,
         \A e \in pending : received[e] <= at
  PROVE  LET s == Refreshed(tag, k, version, pending, at)
         IN  /\ StateSound(s, stored, received)
             /\ s.seen = stored /\ s.computed = at
             /\ version > 0 => Covers(s.applied, memory[k][version].applied)
             /\ \A e \in ReviewsAfterState(k, version, pending) : s.applied[e] > 0
<1> DEFINE state == IF version > 0 THEN memory[k][version] ELSE BlankState(tag, at)
           E == ReviewsAfterState(k, version, pending)
           top == Latest(E, state.cursor)
           more == Counting(state.applied, E)
           s == [tag |-> tag, cursor |-> top, computed |-> at, applied |-> more, seen |-> stored]
<1>1. s = Refreshed(tag, k, version, pending, at)
  BY DEF Refreshed, Decayed, Reviewed
<1>2. version > 0 => version \in 1..Len(memory[k])
  BY Stands
<1>3. WorldOK /\ stored \in SUBSET Events
      /\ \A e \in stored : received[e] > 0 /\ received[e] \in Nat
  BY DEF LearnerInv, WorldOK
<1>4. state \in MemoryRow /\ Weighed(state.applied, state.cursor, stored, received)
  <2>1. CASE version > 0
    BY <1>2, <2>1 DEF LearnerInv, MemoryOK, StateSound
  <2>2. CASE ~(version > 0)
    <3>1. NoCounts \in [Events -> Nat] /\ Weighed(NoCounts, NoCursor, stored, received)
      BY DEF NoCounts, Weighed
    <3>2. BlankState(tag, at) \in MemoryRow
      BY <3>1 DEF BlankState, MemoryRow, Cursors, NoCursor
    <3> QED BY <2>2, <3>1, <3>2 DEF BlankState
  <2> QED BY <2>1, <2>2
<1>5. /\ state.cursor \in Nat \X Nat /\ state.cursor[1] <= at
  <2>1. CASE version > 0
    <3>1. StateSound(memory[k][version], stored, received)
      BY <1>2, <2>1 DEF LearnerInv, MemoryOK
    <3> QED BY <2>1, <3>1 DEF StateSound, MemoryRow, Cursors
  <2>2. CASE ~(version > 0)
    BY <2>2 DEF BlankState, NoCursor
  <2> QED BY <2>1, <2>2
<1>6. E \in SUBSET stored /\ \A e \in E : received[e] <= at
  BY DEF ReviewsAfterState
<1>7. ASSUME NEW e \in E PROVE ~PassedIn(received, e, state.cursor)
  <2>0. e \in stored /\ received[e] > 0 /\ received[e] \in Nat
    BY <1>3, <1>6
  <2>1. CASE state.cursor = NoCursor
    BY <2>0, <2>1 DEF PassedIn, NoCursor, Less
  <2>2. CASE state.cursor # NoCursor
    <3>1. version > 0
      BY <2>2 DEF BlankState
    <3>2. After(e, ReviewCursor(state))
      BY <3>1, <1>7 DEF ReviewsAfterState
    <3> QED BY <2>2, <3>2 DEF ReviewCursor, After, Stamp, PassedIn
  <2> QED BY <2>1, <2>2
<1> HIDE DEF E, state
<1>8. /\ top \in Nat \X Nat /\ top[1] <= at
      /\ \A e \in E : PassedIn(received, e, top)
      /\ \A e \in Events : PassedIn(received, e, state.cursor) => PassedIn(received, e, top)
  BY <1>3, <1>5, <1>6, LatestDoes
<1> HIDE DEF top
<1>9. /\ Weighed(more, top, stored, received)
      /\ Covers(more, state.applied)
      /\ \A e \in E : more[e] > 0
  BY <1>3, <1>4, <1>6, <1>7, <1>8, CountingDoes
<1> HIDE DEF more
<1>10. s \in MemoryRow
  <2>1. more \in [Events -> Nat]
    BY <1>9 DEF Weighed
  <2> QED BY <1>3, <1>8, <2>1 DEF MemoryRow, Cursors
<1>11. StateSound(s, stored, received)
  BY <1>8, <1>9, <1>10 DEF StateSound
<1>12. version > 0 => Covers(s.applied, memory[k][version].applied)
  BY <1>9 DEF state
<1>13. /\ s.seen = stored /\ s.computed = at /\ \A e \in E : s.applied[e] > 0
  BY <1>9
<1> HIDE DEF s
<1> QED BY <1>1, <1>11, <1>12, <1>13 DEF E

LEMMA ReadReviewsDoes ==
  ASSUME LearnerInv, NEW c \in Calls, ReadReviews(c)
  PROVE  LET current == call[c].current
             at == asked[call[c].op]
             pending == {e \in stored : /\ After(e, Window(current))
                                        /\ received[e] <= at /\ Occurred[e] <= at}
         IN  /\ at \in Nat /\ call[c].tag \in Tags /\ DOMAIN current \subseteq Points
             /\ \A k \in DOMAIN current :
                  /\ k \in Points /\ current[k] \in 0..Len(memory[k])
                  /\ current[k] > 0 => memory[k][current[k]].computed <= at
             /\ Goes(c, [at |-> "states", op |-> call[c].op, tag |-> call[c].tag,
                         parents |-> current,
                         draft |-> [k \in DOMAIN current |->
                                      Refreshed(call[c].tag, k, current[k], pending, at)]])
<1>1. call[c].at = "reviews" /\ CallOK(call[c], profiles, memory, stored, received, DOMAIN asked)
  BY DEF ReadReviews, Busy, LearnerInv, CallsOK
<1>2. call[c].op \in DOMAIN asked /\ call[c].tag \in Tags /\ DOMAIN call[c].current \subseteq Points
      /\ \A k \in DOMAIN call[c].current : call[c].current[k] \in 0..Len(memory[k])
  BY <1>1 DEF CallOK
<1>3. asked[call[c].op] \in Nat
  BY <1>2 DEF LearnerInv, WorldOK
<1> QED BY <1>2, <1>3 DEF ReadReviews

LEMMA ReadReviewsKeeps ==
  ASSUME LearnerInv, NEW c \in Calls, ReadReviews(c)
  PROVE  LearnerInv'
<1> DEFINE current == call[c].current
           at == asked[call[c].op]
           pending == {e \in stored : /\ After(e, Window(current))
                                      /\ received[e] <= at /\ Occurred[e] <= at}
           draft == [k \in DOMAIN current |->
                       Refreshed(call[c].tag, k, current[k], pending, at)]
           next == [at |-> "states", op |-> call[c].op, tag |-> call[c].tag,
                    parents |-> current, draft |-> draft]
<1>1. /\ at \in Nat /\ call[c].tag \in Tags /\ DOMAIN current \subseteq Points
      /\ \A k \in DOMAIN current :
           /\ k \in Points /\ current[k] \in 0..Len(memory[k])
           /\ current[k] > 0 => memory[k][current[k]].computed <= at
      /\ Goes(c, next)
  BY ReadReviewsDoes
<1>2. pending \in SUBSET stored /\ \A e \in pending : received[e] <= at
  OBVIOUS
<1> HIDE DEF pending, at
<1>3. ASSUME NEW k \in DOMAIN current
      PROVE  /\ StateSound(draft[k], stored, received)
             /\ current[k] > 0 => Covers(draft[k].applied, memory[k][current[k]].applied)
  <2>1. draft[k] = Refreshed(call[c].tag, k, current[k], pending, at)
    OBVIOUS
  <2> DEFINE v == current[k]
             tag == call[c].tag
  <2>2. /\ tag \in Tags /\ k \in Points /\ v \in 0..Len(memory[k])
        /\ v > 0 => memory[k][v].computed <= at
    BY <1>1
  <2> HIDE DEF draft, current, v, tag
  <2>3. /\ StateSound(Refreshed(tag, k, v, pending, at), stored, received)
        /\ v > 0 => Covers(Refreshed(tag, k, v, pending, at).applied, memory[k][v].applied)
    BY <1>1, <1>2, <2>2, RefreshedDoes
  <2> QED BY <2>1, <2>3 DEF v, tag
<1>4. DOMAIN draft = DOMAIN current
  OBVIOUS
<1> HIDE DEF draft, current
<1>5. StatesOK(next, memory, stored, received)
  BY <1>1, <1>3, <1>4 DEF StatesOK
<1>6. CallOK(next, profiles, memory, stored, received, DOMAIN asked)
  BY <1>5 DEF CallOK
<1> HIDE DEF next
<1> QED BY <1>1, <1>6, GoesKeeps

LEMMA OthersKeep ==
  ASSUME LearnerInv, NEW c \in Calls,
         \/ ReadLatestProfile(c) \/ ReadCurrent(c) \/ ReadBasis(c) \/ Abandon(c)
         \/ \E ask \in Asks, rank \in Rankings : PlanPath(c, ask, rank)
         \/ SavePath(c)
  PROVE  LearnerInv'
<1>1. CallOK(call[c], profiles, memory, stored, received, DOMAIN asked)
  BY DEF LearnerInv, CallsOK
<1>2. CASE ReadLatestProfile(c)
  <2>1. call[c].op \in DOMAIN asked /\ Len(profiles) \in 0..Len(profiles)
    BY <1>1, <1>2, Stands DEF ReadLatestProfile, Busy, CallOK
  <2> QED BY <1>2, <2>1, GoesKeeps DEF ReadLatestProfile, CallOK
<1>3. CASE ReadCurrent(c)
  <2> DEFINE current == [k \in call[c].points |-> Len(memory[k])]
             next == [at |-> "reviews", op |-> call[c].op, tag |-> call[c].tag,
                      current |-> current]
  <2>1. call[c].op \in DOMAIN asked /\ call[c].tag \in Tags /\ call[c].points \subseteq Points
    BY <1>1, <1>3 DEF ReadCurrent, Busy, CallOK
  <2>2. DOMAIN current \subseteq Points
        /\ \A k \in DOMAIN current : current[k] \in 0..Len(memory[k])
    BY <2>1, Stands
  <2> HIDE DEF current
  <2>3. CallOK(next, profiles, memory, stored, received, DOMAIN asked)
    BY <2>1, <2>2 DEF CallOK
  <2>4. Goes(c, next)
    BY <1>3 DEF ReadCurrent, current
  <2> HIDE DEF next
  <2> QED BY <2>3, <2>4, GoesKeeps
<1>4. CASE ReadBasis(c)
  BY <1>4, GoesKeeps DEF ReadBasis, CallOK
<1>5. CASE Abandon(c)
  BY <1>5, GoesKeeps DEF Abandon, CallOK, Idle
<1>6. ASSUME NEW ask \in Asks, NEW rank \in Rankings, PlanPath(c, ask, rank)
      PROVE  LearnerInv'
  <2>1. PICK next : Goes(c, next) /\ next.at = "path"
    <3> DEFINE next == [at |-> "path", op |-> call[c].op, parent |-> Len(paths),
                        draft |-> [tag |-> Derived(call[c].op), graph |-> call[c].graph,
                                   profile |-> call[c].profile, ask |-> ask,
                                   order |-> Plan(Graphs[call[c].graph], ask, rank)]]
    <3>1. Goes(c, next)
      BY <1>6 DEF PlanPath
    <3>2. next.at = "path"
      OBVIOUS
    <3> HIDE DEF next
    <3> QED BY <3>1, <3>2
  <2>2. CallOK(next, profiles, memory, stored, received, DOMAIN asked)
    BY <2>1 DEF CallOK
  <2> QED BY <2>1, <2>2, GoesKeeps
<1>7. CASE SavePath(c)
  <2>1. UNCHANGED <<clock, received, stored, graph, profiles, memory, asked>>
        /\ call' = [call EXCEPT ![c] = Idle]
    BY <1>7 DEF SavePath, world
  <2>2. CallOK(Idle, profiles, memory, stored, received, DOMAIN asked)
    BY DEF CallOK, Idle
  <2>3. CallsOK'
    BY <2>1, <2>2, CallsKept, Stands
  <2>4. WorldOK' /\ ProfilesOK' /\ MemoryOK'
    BY <2>1 DEF LearnerInv, WorldOK, ProfilesOK, MemoryOK
  <2> QED BY <2>3, <2>4 DEF LearnerInv
<1> QED BY <1>2, <1>3, <1>4, <1>5, <1>6, <1>7

-----------------------------------------------------------------------------
(* The transactions that save.                                               *)

LEMMA AppendDoes ==
  ASSUME NEW T, NEW s \in Seq(T), NEW x \in T
  PROVE  /\ Append(s, x) \in Seq(T) /\ Extends(s, Append(s, x))
         /\ Len(s) \in Nat /\ Len(Append(s, x)) = Len(s) + 1
         /\ Append(s, x)[Len(s) + 1] = x
         /\ \A i \in 1..(Len(s) + 1) : i = Len(s) + 1 \/ (i \in 1..Len(s) /\ Append(s, x)[i] = s[i])
BY DEF Extends

LEMMA ProfileAdded ==
  ASSUME LearnerInv, NEW p, profiles' = Append(profiles, p),
         ProfileSound(p, stored, received), p.base \in 0..Len(profiles),
         UNCHANGED <<stored, received>>,
         Len(profiles) > 0 /\ ~p.restored => Covers(p.counted, profiles[Len(profiles)].counted)
  PROVE  ProfilesOK' /\ Extends(profiles, profiles')
<1>1. p \in ProfileRow /\ profiles \in Seq(ProfileRow)
  BY DEF ProfileSound, LearnerInv, ProfilesOK
<1> DEFINE n == Len(profiles)
<1>2. /\ profiles' \in Seq(ProfileRow) /\ Extends(profiles, profiles')
      /\ n \in Nat /\ Len(profiles') = n + 1 /\ profiles'[n + 1] = p
      /\ \A i \in 1..(n + 1) : i = n + 1 \/ (i \in 1..n /\ profiles'[i] = profiles[i])
  BY <1>1, AppendDoes
<1>3. ASSUME NEW v \in 1..(n + 1)
      PROVE  /\ ProfileSound(profiles'[v], stored', received') /\ profiles'[v].base < v
             /\ v > 1 /\ ~profiles'[v].restored
                  => Covers(profiles'[v].counted, profiles'[v - 1].counted)
  <2>1. CASE v = n + 1
    <3>1. n > 0 => profiles'[n] = profiles[n]
      BY <1>2
    <3>2. profiles'[v] = p /\ p.base < v
      BY <2>1, <1>2
    <3> QED BY <2>1, <1>2, <3>1, <3>2
  <2>2. CASE v # n + 1
    <3>1. v \in 1..n /\ profiles'[v] = profiles[v] /\ (v > 1 => profiles'[v - 1] = profiles[v - 1])
      BY <2>2, <1>2
    <3>2. /\ ProfileSound(profiles[v], stored, received) /\ profiles[v].base < v
          /\ v > 1 /\ ~profiles[v].restored => Covers(profiles[v].counted, profiles[v - 1].counted)
      BY <3>1 DEF LearnerInv, ProfilesOK
    <3> QED BY <3>1, <3>2
  <2> QED BY <2>1, <2>2
<1> QED BY <1>2, <1>3 DEF ProfilesOK

LEMMA StatesAdded ==
  ASSUME LearnerInv, NEW drafts, memory' = AppendStates(drafts), DOMAIN drafts \subseteq Points,
         UNCHANGED <<stored, received>>,
         \A k \in DOMAIN drafts :
           /\ StateSound(drafts[k], stored, received)
           /\ Len(memory[k]) > 0 => Covers(drafts[k].applied, memory[k][Len(memory[k])].applied)
  PROVE  MemoryOK' /\ \A k \in Points : Extends(memory[k], memory'[k])
<1>1. memory \in [Points -> Seq(MemoryRow)]
  BY DEF LearnerInv, MemoryOK
<1>2. ASSUME NEW k \in Points
      PROVE  /\ memory'[k] \in Seq(MemoryRow) /\ Extends(memory[k], memory'[k])
             /\ \A v \in 1..Len(memory'[k]) :
                  /\ StateSound(memory'[k][v], stored', received')
                  /\ v > 1 => Covers(memory'[k][v].applied, memory'[k][v - 1].applied)
  <2> DEFINE m == memory[k]
             n == Len(m)
  <2>1. m \in Seq(MemoryRow) /\ n \in Nat
    BY <1>1
  <2>2. \A v \in 1..n : /\ StateSound(m[v], stored, received)
                        /\ v > 1 => Covers(m[v].applied, m[v - 1].applied)
    BY DEF LearnerInv, MemoryOK
  <2>3. CASE k \notin DOMAIN drafts
    <3>1. memory'[k] = m
      BY <2>3 DEF AppendStates
    <3>2. Extends(m, m)
      BY <2>1 DEF Extends
    <3> HIDE DEF m
    <3> QED BY <2>1, <2>2, <3>1, <3>2 DEF m
  <2>4. CASE k \in DOMAIN drafts
    <3> DEFINE s == drafts[k]
               m2 == Append(m, s)
    <3>1. memory'[k] = m2
      BY <2>4 DEF AppendStates
    <3>2. StateSound(s, stored, received) /\ (n > 0 => Covers(s.applied, m[n].applied))
      BY <2>4
    <3>3. s \in MemoryRow
      BY <3>2 DEF StateSound
    <3> HIDE DEF m, s
    <3>4. /\ m2 \in Seq(MemoryRow) /\ Extends(m, m2) /\ Len(m2) = n + 1 /\ m2[n + 1] = s
          /\ \A i \in 1..(n + 1) : i = n + 1 \/ (i \in 1..n /\ m2[i] = m[i])
      BY <2>1, <3>3, AppendDoes
    <3> HIDE DEF m2, n
    <3>5. ASSUME NEW v \in 1..(n + 1)
          PROVE  /\ StateSound(m2[v], stored, received)
                 /\ v > 1 => Covers(m2[v].applied, m2[v - 1].applied)
      <4>1. CASE v = n + 1
        <5>1. n > 0 => m2[n] = m[n]
          BY <2>1, <3>4
        <5> QED BY <2>1, <3>2, <3>4, <4>1, <5>1
      <4>2. CASE v # n + 1
        <5>1. v \in 1..n /\ m2[v] = m[v] /\ (v > 1 => m2[v - 1] = m[v - 1])
          BY <2>1, <3>4, <4>2
        <5> QED BY <2>2, <5>1
      <4> QED BY <4>1, <4>2
    <3> QED BY <3>1, <3>4, <3>5 DEF m
  <2> QED BY <2>3, <2>4
<1>3. memory' \in [Points -> Seq(MemoryRow)]
  BY <1>2 DEF AppendStates
<1> QED BY <1>2, <1>3 DEF MemoryOK

\* What is left to show of a saving transaction is what it saves.
LEMMA SavesKeep ==
  ASSUME LearnerInv, NEW c \in Calls, call' = [call EXCEPT ![c] = Idle],
         UNCHANGED <<clock, received, stored, graph, asked>>,
         ProfilesOK', MemoryOK', Extends(profiles, profiles'),
         \A k \in Points : Extends(memory[k], memory'[k])
  PROVE  LearnerInv' /\ Grows(profiles, profiles', memory, memory', stored, stored', received, received')
<1>1. Grows(profiles, profiles', memory, memory', stored, stored', received, received')
  BY DEF LearnerInv, ProfilesOK, MemoryOK, Grows, KeepsEvents
<1>2. CallOK(Idle, profiles', memory', stored', received', DOMAIN asked)
  BY DEF CallOK, Idle
<1>3. CallsOK'
  BY <1>1, <1>2, CallsKept
<1>4. WorldOK'
  BY DEF LearnerInv, WorldOK
<1> QED BY <1>1, <1>3, <1>4 DEF LearnerInv

LEMMA SaveInitializeKeeps ==
  ASSUME LearnerInv, NEW c \in Calls, SaveInitialize(c)
  PROVE  LearnerInv' /\ Grows(profiles, profiles', memory, memory', stored, stored', received, received')
<1> DEFINE op == call[c].op
           tag == Derived(op)
           active == Graphs[call[c].graph].active
           p == BlankProfile(tag)
           s == BlankState(tag, asked[op])
           drafts == [k \in active |-> s]
<1>1. /\ op \in DOMAIN asked /\ op \in Ops /\ call[c].graph \in 1..Len(Graphs)
      /\ tag \in Tags /\ asked[op] \in Nat
  BY DEF SaveInitialize, Busy, LearnerInv, CallsOK, CallOK, WorldOK, Derived, Tags
<1>2. active \subseteq Points
  BY <1>1 DEF Points
<1>3. NoCounts \in [Events -> Nat] /\ Weighed(NoCounts, NoCursor, stored, received)
  BY DEF NoCounts, Weighed
<1>4. ProfileSound(p, stored, received) /\ p.base = 0
  <2>1. p \in ProfileRow
    BY <1>1, <1>3 DEF BlankProfile, ProfileRow, Cursors, NoCursor
  <2> QED BY <1>3, <2>1 DEF BlankProfile, ProfileSound
<1>5. StateSound(s, stored, received)
  <2>1. s \in MemoryRow
    BY <1>1, <1>3 DEF BlankState, MemoryRow, Cursors, NoCursor
  <2> QED BY <1>1, <1>3, <2>1 DEF BlankState, StateSound, NoCursor
<1>6. /\ Len(profiles) = 0 /\ \A k \in active : Len(memory[k]) = 0
      /\ profiles' = Append(profiles, p) /\ memory' = AppendStates(drafts)
      /\ call' = [call EXCEPT ![c] = Idle]
      /\ UNCHANGED <<clock, received, stored, graph, asked>>
  BY DEF SaveInitialize, IsSuccessor, AppendProfile, world
<1> HIDE DEF p, s
<1>7. ProfilesOK' /\ Extends(profiles, profiles')
  BY <1>4, <1>6, ProfileAdded
<1>8. \A k \in DOMAIN drafts :
        /\ StateSound(drafts[k], stored, received)
        /\ Len(memory[k]) > 0 => Covers(drafts[k].applied, memory[k][Len(memory[k])].applied)
  BY <1>5, <1>6
<1>9. DOMAIN drafts \subseteq Points
  BY <1>2
<1> HIDE DEF drafts
<1>10. MemoryOK' /\ \A k \in Points : Extends(memory[k], memory'[k])
  BY <1>6, <1>8, <1>9, StatesAdded
<1> QED BY <1>6, <1>7, <1>10, SavesKeep

LEMMA SaveProfileKeeps ==
  ASSUME LearnerInv, NEW c \in Calls, SaveProfile(c)
  PROVE  LearnerInv' /\ Grows(profiles, profiles', memory, memory', stored, stored', received, received')
<1> DEFINE p == call[c].draft
<1>1. DraftOK(call[c], profiles, stored, received)
  BY DEF SaveProfile, Busy, LearnerInv, CallsOK, CallOK
<1>2. /\ Len(profiles) = call[c].parent /\ profiles' = Append(profiles, p)
      /\ call' = [call EXCEPT ![c] = Idle]
      /\ UNCHANGED <<clock, received, stored, graph, asked, memory>>
  BY DEF SaveProfile, IsSuccessor, AppendProfile, world
<1>3. /\ ProfileSound(p, stored, received) /\ p.base \in 0..Len(profiles)
      /\ Len(profiles) > 0 /\ ~p.restored => Covers(p.counted, profiles[Len(profiles)].counted)
  BY <1>1, <1>2 DEF DraftOK
<1>4. ProfilesOK' /\ Extends(profiles, profiles')
  <2> HIDE DEF p
  <2> QED BY <1>2, <1>3, ProfileAdded
<1>5. MemoryOK' /\ \A k \in Points : Extends(memory[k], memory'[k])
  BY <1>2, Stands DEF LearnerInv, MemoryOK, Grows
<1> QED BY <1>2, <1>4, <1>5, SavesKeep

LEMMA SaveMemoryKeeps ==
  ASSUME LearnerInv, NEW c \in Calls, SaveMemory(c)
  PROVE  LearnerInv' /\ Grows(profiles, profiles', memory, memory', stored, stored', received, received')
<1> DEFINE drafts == call[c].draft
<1>1. StatesOK(call[c], memory, stored, received)
  BY DEF SaveMemory, Busy, LearnerInv, CallsOK, CallOK
<1>2. /\ \A k \in DOMAIN drafts : Len(memory[k]) = call[c].parents[k]
      /\ memory' = AppendStates(drafts) /\ call' = [call EXCEPT ![c] = Idle]
      /\ UNCHANGED <<clock, received, stored, graph, asked, profiles>>
  BY DEF SaveMemory, IsSuccessor, world
<1>3. /\ DOMAIN drafts \subseteq Points
      /\ \A k \in DOMAIN drafts :
           /\ StateSound(drafts[k], stored, received)
           /\ Len(memory[k]) > 0 => Covers(drafts[k].applied, memory[k][Len(memory[k])].applied)
  BY <1>1, <1>2 DEF StatesOK
<1>4. MemoryOK' /\ \A k \in Points : Extends(memory[k], memory'[k])
  <2> HIDE DEF drafts
  <2> QED BY <1>2, <1>3, StatesAdded
<1>5. ProfilesOK' /\ Extends(profiles, profiles')
  BY <1>2, Stands DEF LearnerInv, ProfilesOK, Grows
<1> QED BY <1>2, <1>4, <1>5, SavesKeep

LEMMA InitHolds == Init => LearnerInv
<1> SUFFICES ASSUME Init PROVE LearnerInv
  OBVIOUS
<1>1. WorldOK
  <2>1. DOMAIN asked \subseteq Ops /\ \A op \in DOMAIN asked : asked[op] = 0
    BY Sorts DEF Init
  <2>2. 1 \in 1..Len(Graphs)
    BY Topic2Assumption
  <2>3. received \in [Events -> Nat] /\ \A e \in Events : received[e] = 0
    BY DEF Init, NoCounts
  <2> QED BY <2>1, <2>2, <2>3 DEF Init, WorldOK
<1>2. ProfilesOK /\ MemoryOK
  BY DEF Init, ProfilesOK, MemoryOK
<1>3. CallsOK
  BY DEF Init, CallsOK, CallOK, Idle
<1> QED BY <1>1, <1>2, <1>3 DEF LearnerInv

LEMMA NextKeeps == LearnerInv /\ [Next]_vars => LearnerInv'
<1> SUFFICES ASSUME LearnerInv, [Next]_vars PROVE LearnerInv'
  OBVIOUS
<1>1. CASE UNCHANGED vars
  BY <1>1 DEF vars, LearnerInv, WorldOK, ProfilesOK, MemoryOK, CallsOK
<1>2. CASE Tick \/ AcceptGraph \/ \E e \in Events : Receive(e) \/ RecordBehaviorEvent(e)
  BY <1>2, WorldKeeps
<1>3. ASSUME NEW c \in Calls, NEW op \in DOMAIN asked,
             \/ StartInitialize(c, op)
             \/ StartRebuild(c, op)
             \/ \E v \in 1..MaxCalls : StartRestore(c, op, v)
             \/ StartRefresh(c, op)
             \/ \E due \in SUBSET Points : StartRefreshDue(c, op, due)
             \/ StartPath(c, op)
      PROVE  LearnerInv'
  BY <1>3, StartsKeep
<1>4. ASSUME NEW c \in Calls,
             \/ SaveInitialize(c) \/ ReadEvents(c) \/ ReadRestored(c) \/ SaveProfile(c)
             \/ ReadReviews(c) \/ SaveMemory(c)
      PROVE  LearnerInv'
  BY <1>4, SaveInitializeKeeps, ReadEventsKeeps, ReadRestoredKeeps, SaveProfileKeeps,
     ReadReviewsKeeps, SaveMemoryKeeps
<1>5. ASSUME NEW c \in Calls,
             \/ ReadLatestProfile(c) \/ ReadCurrent(c) \/ ReadBasis(c) \/ Abandon(c)
             \/ \E ask \in Asks, rank \in Rankings : PlanPath(c, ask, rank)
             \/ SavePath(c)
      PROVE  LearnerInv'
  BY <1>5, OthersKeep
<1> QED BY <1>1, <1>2, <1>3, <1>4, <1>5 DEF Next

\* Every profile, every memory state and every draft on its way to a save
\* (rebuild_profile, restore_profile, refresh_memory, save_memory_states) is
\* sound in the sense of LearnerInv, in every state that is reached.
THEOREM LearnerInvariant == Spec => []LearnerInv
BY InitHolds, NextKeeps, PTL DEF Spec

\* However rebuilds, refreshes and restores interleave, are abandoned and are
\* retried, no profile and no memory state has weighed a behaviour event twice
\* (the cursors of rebuild_profile and _reviews_after_state_cursor).
THEOREM EventsCountOnce == Spec => []CountedOnce
<1>1. LearnerInv => CountedOnce
  BY DEF LearnerInv, ProfilesOK, MemoryOK, ProfileSound, StateSound, Weighed, CountedOnce
<1> QED BY <1>1, LearnerInvariant, PTL

\* A version holds all evidence of the one before it, unless it restores an
\* older profile: _validate_profile_version and _validate_memory_version let
\* only the successor of the version that was read be saved.
THEOREM EvidenceIsKept == Spec => []EvidenceKept
<1>1. LearnerInv => EvidenceKept
  <2> SUFFICES ASSUME LearnerInv PROVE EvidenceKept
    OBVIOUS
  <2>1. \A v \in 2..Len(profiles) : v \in 1..Len(profiles) /\ v > 1
    BY Stands
  <2>2. \A k \in Points : \A v \in 2..Len(memory[k]) : v \in 1..Len(memory[k]) /\ v > 1
    BY Stands
  <2> QED BY <2>1, <2>2 DEF LearnerInv, ProfilesOK, MemoryOK, Covers, EvidenceKept
<1> QED BY <1>1, LearnerInvariant, PTL

-----------------------------------------------------------------------------
(* What was missed.                                                          *)

\* One rebuild can read all events: a batch cut off at its limit loses those
\* that the cursor then passes (list_behavior_events orders by occurrence, the
\* cursor by reception).
Fits == IsFiniteSet(Events) /\ Cardinality(Events) <= BatchLimit

LEMMA FirstIsAll ==
  ASSUME Fits, NEW X \in SUBSET Events
  PROVE  FirstToOccur(X) = X
<1>1. ASSUME NEW e \in X
      PROVE  Cardinality({d \in X : \/ Occurred[d] < Occurred[e]
                                    \/ Occurred[d] = Occurred[e] /\ d < e}) < BatchLimit
  <2> DEFINE Y == {d \in X : \/ Occurred[d] < Occurred[e]
                             \/ Occurred[d] = Occurred[e] /\ d < e}
             Z == Events \ {e}
  <2>1. e \in Events /\ e \in Nat /\ Occurred[e] \in Nat
    BY Sorts
  <2>2. Y \in SUBSET Z
    <3>1. e \notin Y
      BY <2>1
    <3>2. \A d \in Y : d \in X /\ d # e
      BY <3>1
    <3> HIDE DEF Y
    <3> QED BY <3>2
  <2>3. IsFiniteSet(Z) /\ Cardinality(Z) = Cardinality(Events) - 1
    BY <2>1, FS_RemoveElement DEF Fits
  <2> HIDE DEF Y, Z
  <2>4. IsFiniteSet(Y) /\ Cardinality(Y) <= Cardinality(Z)
    BY <2>2, <2>3, FS_Subset
  <2>5. Cardinality(Y) \in Nat /\ Cardinality(Events) \in Nat
    BY <2>4, FS_CardinalityType DEF Fits
  <2>6. Cardinality(Y) < BatchLimit
    BY <2>3, <2>4, <2>5, Sorts DEF Fits
  <2> QED BY <2>6 DEF Y
<1> QED BY <1>1 DEF FirstToOccur

LEMMA LineageOfBase ==
  ASSUME NEW P, NEW v \in Nat \ {0}, P[v].base # 0,
         \A j \in 1..v : P[j].base \in Nat /\ P[j].base < j
  PROVE  Lineage(P, P[v].base) \subseteq Lineage(P, v)
<1> DEFINE b == P[v].base
<1>1. b \in 1..v /\ b < v
  OBVIOUS
<1>2. ASSUME NEW i \in Lineage(P, b) PROVE i \in Lineage(P, v)
  <2>1. i \in 1..b /\ i \in 1..v
    BY <1>1 DEF Lineage
  <2>2. ASSUME NEW line \in SUBSET (1..v), v \in line,
               \A j \in line : P[j].base # 0 => P[j].base \in line
        PROVE  i \in line
    <3> DEFINE low == line \cap (1..b)
    <3>1. low \in SUBSET (1..b) /\ b \in low
      BY <1>1, <2>2
    <3>2. ASSUME NEW j \in low, P[j].base # 0 PROVE P[j].base \in low
      <4>1. j \in 1..b /\ j \in 1..v /\ P[j].base \in line
        BY <2>2, <3>2
      <4>2. P[j].base \in Nat /\ P[j].base < j
        BY <4>1
      <4> QED BY <1>1, <3>2, <4>1, <4>2
    <3>3. i \in low
      <4> HIDE DEF low, b
      <4> QED BY <3>1, <3>2 DEF Lineage
    <3> QED BY <3>3
  <2> QED BY <2>1, <2>2 DEF Lineage
<1> QED BY <1>2

LEMMA LineageStays ==
  ASSUME NEW P, NEW P2, NEW v, \A i \in 1..v : P2[i].base = P[i].base
  PROVE  Lineage(P2, v) = Lineage(P, v)
<1>1. \A line \in SUBSET (1..v) : \A j \in line : P2[j].base = P[j].base
  OBVIOUS
<1> QED BY <1>1 DEF Lineage

LEMMA ProfileExplainedStays ==
  ASSUME NEW P, NEW P2, NEW S, NEW S2, NEW R, NEW R2, NEW p,
         P \in Seq(ProfileRow), Extends(P, P2), KeepsEvents(S, S2, R, R2),
         p.seen \subseteq S, p.base \in 0..Len(P), ProfileExplained(p, P, R)
  PROVE  ProfileExplained(p, P2, R2)
<1>1. \A i \in 1..p.base : P2[i] = P[i]
  BY DEF Extends
<1>2. Lineage(P2, p.base) = Lineage(P, p.base)
  <2> DEFINE b == p.base
  <2>1. \A i \in 1..b : P2[i].base = P[i].base
    BY <1>1
  <2> HIDE DEF b
  <2>2. Lineage(P2, b) = Lineage(P, b)
    BY <2>1, LineageStays
  <2> QED BY <2>2 DEF b
<1>4. Lineage(P, p.base) \subseteq 1..p.base
  BY DEF Lineage
<1>3. \A e \in S, i \in 1..p.base : MissedAt(P[i], e, R) => MissedAt(P2[i], e, R2)
  BY <1>1 DEF MissedAt, PassedIn, KeepsEvents
<1> QED BY <1>2, <1>3, <1>4 DEF ProfileExplained

LEMMA StateExplainedStays ==
  ASSUME NEW m, NEW m2, NEW S, NEW S2, NEW R, NEW R2, NEW s, NEW k, NEW n \in 0..Len(m), NEW n2 \in Nat,
         m \in Seq(MemoryRow), Extends(m, m2), KeepsEvents(S, S2, R, R2), n <= n2,
         s.seen \subseteq S, StateExplained(s, k, m, n, R)
  PROVE  StateExplained(s, k, m2, n2, R2)
<1>1. \A i \in 1..n : m2[i] = m[i] /\ i \in 1..n2
  BY DEF Extends
<1>2. \A e \in s.seen : R2[e] = R[e]
  BY DEF KeepsEvents
<1> QED BY <1>1, <1>2 DEF StateExplained, PassedIn

\* What a row leaves out, a version of its lineage accounts for.
LEMMA RowAccounts ==
  ASSUME LearnerInv, ExplainedInv, NEW v \in 1..Len(profiles), NEW e \in profiles[v].seen
  PROVE  \/ profiles[v].counted[e] > 0
         \/ \E i \in Lineage(profiles, v) : MissedAt(profiles[i], e, received)
<1> DEFINE b == profiles[v].base
<1>1. /\ v \in Nat \ {0} /\ v \in 1..v
      /\ \A j \in 1..v : /\ j \in 1..Len(profiles) /\ profiles[j].base \in Nat
                         /\ profiles[j].base < j
  <2>1. Len(profiles) \in Nat /\ \A j \in 1..Len(profiles) : profiles[j].base \in Nat
    BY Stands DEF ProfileRow
  <2> QED BY <2>1 DEF LearnerInv, ProfilesOK
<1>2. ProfileExplained(profiles[v], profiles, received)
  BY DEF ExplainedInv
<1>3. v \in Lineage(profiles, v)
  BY <1>1 DEF Lineage
<1>4. b # 0 => Lineage(profiles, b) \subseteq Lineage(profiles, v)
  <2> SUFFICES ASSUME b # 0 PROVE Lineage(profiles, b) \subseteq Lineage(profiles, v)
    OBVIOUS
  <2> QED BY <1>1, LineageOfBase
<1>5. \/ profiles[v].counted[e] > 0 \/ e \in profiles[v].rejected
      \/ b # 0 /\ \E i \in Lineage(profiles, b) : MissedAt(profiles[i], e, received)
  BY <1>2 DEF ProfileExplained
<1>6. e \in profiles[v].rejected => MissedAt(profiles[v], e, received)
  BY DEF MissedAt
<1> HIDE DEF b
<1> QED BY <1>3, <1>4, <1>5, <1>6

LEMMA ReadEventsExplains ==
  ASSUME Fits, LearnerInv, ExplainedInv, NEW c \in Calls, ReadEvents(c)
  PROVE  \E next : Goes(c, next) /\ CallExplained(next, profiles, memory, received)
<1> DEFINE op == call[c].op
           b == call[c].base
           base == BaseProfile(b)
           X == {e \in stored : After(e, base.cursor)}
           batch == FirstToOccur(X)
<1>1. b \in 0..Len(profiles) /\ b \in Nat
  BY Stands DEF ReadEvents, Busy, LearnerInv, CallsOK, CallOK
<1>2. PICK rejected \in Outliers(batch) :
        Goes(c, [at |-> "profile", op |-> op, parent |-> b,
                 draft |-> [tag |-> Derived(op), base |-> b, restored |-> FALSE,
                            cursor |-> Latest(batch \ rejected, base.cursor),
                            counted |-> Counting(base.counted, batch \ rejected),
                            seen |-> stored, rejected |-> rejected]])
  BY Zenon DEF ReadEvents
<1>3. stored \subseteq Events
      /\ \A e \in stored : e \in Nat /\ received[e] \in Nat /\ received[e] > 0
  BY Sorts DEF LearnerInv, WorldOK
<1>4. batch = X
  <2>1. X \in SUBSET Events
    BY <1>3
  <2> HIDE DEF X
  <2> QED BY <2>1, FirstIsAll
<1> DEFINE E == batch \ rejected
           more == Counting(base.counted, E)
           draft == [tag |-> Derived(op), base |-> b, restored |-> FALSE,
                     cursor |-> Latest(E, base.cursor), counted |-> more,
                     seen |-> stored, rejected |-> rejected]
           next == [at |-> "profile", op |-> op, parent |-> b, draft |-> draft]
<1>5. \A e \in Events : base.counted[e] \in {0, 1}
  BY <1>1, BaseSound DEF Weighed
<1>6. \A e \in stored : (e \in E \/ base.counted[e] > 0) => more[e] > 0
  BY <1>3, <1>5 DEF Counting
<1>7. ASSUME NEW e \in stored
      PROVE  \/ more[e] > 0 \/ e \in rejected
             \/ b # 0 /\ \E i \in Lineage(profiles, b) : MissedAt(profiles[i], e, received)
  <2>1. CASE After(e, base.cursor)
    <3>1. e \in X
      BY <2>1
    <3>2. e \in E \/ e \in rejected
      BY <1>4, <3>1
    <3> QED BY <1>6, <3>2
  <2>2. CASE ~After(e, base.cursor)
    <3>1. b # 0
      BY <1>3, <2>2 DEF BaseProfile, NoCursor, After, Less, Stamp
    <3>2. b \in 1..Len(profiles) /\ base = profiles[b]
      BY <1>1, <3>1, Stands DEF BaseProfile
    <3>3. CASE e \in profiles[b].seen
      <4>1. \/ profiles[b].counted[e] > 0
            \/ \E i \in Lineage(profiles, b) : MissedAt(profiles[i], e, received)
        BY <3>2, <3>3, RowAccounts
      <4> QED BY <1>6, <3>1, <3>2, <4>1
    <3>4. CASE e \notin profiles[b].seen
      <4>1. MissedAt(profiles[b], e, received)
        BY <2>2, <3>2, <3>4 DEF MissedAt, PassedIn, After, Stamp
      <4>2. b \in Lineage(profiles, b)
        BY <3>1, <1>1 DEF Lineage
      <4> QED BY <3>1, <4>1, <4>2
    <3> QED BY <3>3, <3>4
  <2> QED BY <2>1, <2>2
<1>8. draft.seen = stored /\ draft.counted = more /\ draft.rejected = rejected /\ draft.base = b
  OBVIOUS
<1>9. Goes(c, next)
  BY <1>2
<1> HIDE DEF draft, more, b
<1>10. ProfileExplained(draft, profiles, received)
  BY <1>7, <1>8 DEF ProfileExplained
<1>11. CallExplained(next, profiles, memory, received)
  BY <1>10 DEF CallExplained
<1> QED BY <1>9, <1>11

LEMMA ReadRestoredExplains ==
  ASSUME LearnerInv, ExplainedInv, NEW c \in Calls, ReadRestored(c)
  PROVE  \E next : Goes(c, next) /\ CallExplained(next, profiles, memory, received)
<1> DEFINE op == call[c].op
           v == call[c].target
           old == profiles[v]
           draft == [tag |-> Derived(op), base |-> v, restored |-> TRUE, cursor |-> old.cursor,
                     counted |-> old.counted, seen |-> old.seen, rejected |-> old.rejected]
           next == [at |-> "profile", op |-> op, parent |-> Len(profiles), draft |-> draft]
<1>1. v \in 1..Len(profiles) /\ v # 0
  BY DEF ReadRestored, Busy, LearnerInv, CallsOK, CallOK
<1>2. \A e \in old.seen :
        \/ old.counted[e] > 0
        \/ \E i \in Lineage(profiles, v) : MissedAt(profiles[i], e, received)
  BY <1>1, RowAccounts
<1>3. draft.seen = old.seen /\ draft.counted = old.counted /\ draft.base = v
  OBVIOUS
<1>4. Goes(c, next)
  BY DEF ReadRestored
<1> HIDE DEF draft, v
<1>5. ProfileExplained(draft, profiles, received)
  BY <1>1, <1>2, <1>3 DEF ProfileExplained
<1>6. CallExplained(next, profiles, memory, received)
  BY <1>5 DEF CallExplained
<1> QED BY <1>4, <1>6

LEMMA ReadReviewsExplains ==
  ASSUME LearnerInv, ExplainedInv, NEW c \in Calls, ReadReviews(c)
  PROVE  \E next : Goes(c, next) /\ CallExplained(next, profiles, memory, received)
<1> DEFINE current == call[c].current
           at == asked[call[c].op]
           pending == {e \in stored : /\ After(e, Window(current))
                                      /\ received[e] <= at /\ Occurred[e] <= at}
           draft == [k \in DOMAIN current |->
                       Refreshed(call[c].tag, k, current[k], pending, at)]
           next == [at |-> "states", op |-> call[c].op, tag |-> call[c].tag,
                    parents |-> current, draft |-> draft]
<1>1. /\ at \in Nat /\ call[c].tag \in Tags /\ DOMAIN current \subseteq Points
      /\ \A k \in DOMAIN current :
           /\ k \in Points /\ current[k] \in 0..Len(memory[k])
           /\ current[k] > 0 => memory[k][current[k]].computed <= at
      /\ Goes(c, next)
  BY ReadReviewsDoes
<1>2. pending \in SUBSET stored /\ \A e \in pending : received[e] <= at
  OBVIOUS
<1>3. \A e \in stored : /\ e \in Events /\ e \in Nat /\ received[e] \in Nat /\ received[e] > 0
                        /\ Occurred[e] \in Nat /\ Occurred[e] <= received[e]
  BY Sorts DEF LearnerInv, WorldOK
<1>4. ASSUME NEW k \in DOMAIN current
      PROVE  StateExplained(draft[k], k, memory[k], current[k], received)
  <2> DEFINE v == current[k]
             tag == call[c].tag
             s == Refreshed(tag, k, v, pending, at)
             m == memory[k]
  <2>1. draft[k] = s
    OBVIOUS
  <2>2. /\ tag \in Tags /\ k \in Points /\ v \in 0..Len(memory[k])
        /\ v > 0 => memory[k][v].computed <= at
    BY <1>1
  <2>3. v > 0 => v \in 1..Len(memory[k])
    BY <2>2, Stands
  <2>4. ASSUME NEW e \in stored, Point[e] = k, received[e] <= at,
               v > 0 => After(e, ReviewCursor(memory[k][v]))
        PROVE  e \in ReviewsAfterState(k, v, pending)
    <3>1. After(e, Window(current))
      <4>1. \A j \in DOMAIN current : current[j] \in 0..Len(memory[j])
        BY <1>1
      <4>2. current[k] > 0 => After(e, ReviewCursor(memory[k][current[k]]))
        BY <2>4
      <4> HIDE DEF current, v
      <4> QED BY <1>1, <4>1, <4>2, WindowDoes
    <3>2. received[e] \in Nat /\ Occurred[e] \in Nat /\ Occurred[e] <= received[e]
      BY <1>3
    <3>3. Occurred[e] <= at
      <4> HIDE DEF at
      <4> QED BY <3>2, <2>4, <1>1
    <3>4. e \in pending
      BY <2>4, <3>1, <3>3
    <3> HIDE DEF pending, v
    <3> QED BY <2>4, <3>4 DEF ReviewsAfterState
  <2> HIDE DEF pending, at, draft, current, v, tag
  <2>5. /\ s.seen = stored /\ s.computed = at
        /\ v > 0 => Covers(s.applied, memory[k][v].applied)
        /\ \A e \in ReviewsAfterState(k, v, pending) : s.applied[e] > 0
        /\ StateSound(s, stored, received)
    <3>1. StateSound(s, stored, received)
      BY <1>1, <1>2, <2>2, RefreshedDoes
    <3>4. s.seen = stored
      BY DEF Refreshed, Decayed
    <3>5. s.computed = at
      BY <1>1, <1>2, <2>2, RefreshedDoes
    <3>2. v > 0 => Covers(s.applied, memory[k][v].applied)
      BY <1>1, <1>2, <2>2, RefreshedDoes
    <3>3. \A e \in ReviewsAfterState(k, v, pending) : s.applied[e] > 0
      BY <1>1, <1>2, <2>2, RefreshedDoes
    <3> QED BY <3>1, <3>2, <3>3, <3>4, <3>5
  <2> HIDE DEF s
  <2>6. ASSUME NEW e \in stored, Point[e] = k, received[e] <= at
        PROVE  \/ s.applied[e] > 0
               \/ \E i \in 1..v : e \notin m[i].seen /\ PassedIn(received, e, ReviewCursor(m[i]))
    <3>1. CASE v > 0 => After(e, ReviewCursor(memory[k][v]))
      BY <2>4, <2>5, <2>6, <3>1
    <3>2. CASE v > 0 /\ ~After(e, ReviewCursor(memory[k][v]))
      <4> DEFINE old == memory[k][v]
      <4>1. v \in 1..Len(memory[k]) /\ v \in 1..v /\ m[v] = old
        BY <2>3, <3>2
      <4>2. PassedIn(received, e, ReviewCursor(old))
        BY <3>2 DEF PassedIn, After, Stamp
      <4>3. CASE e \notin old.seen
        BY <4>1, <4>2, <4>3
      <4>4. CASE e \in old.seen
        <5>1. /\ old \in MemoryRow /\ ReviewCursor(old) \in Nat \X Nat
              /\ ReviewCursor(old)[1] <= old.computed
          BY <2>2, <4>1, ReviewCursorDoes
        <5>2. old.computed \in Nat /\ ReviewCursor(old)[1] \in Nat /\ ReviewCursor(old)[2] \in Nat
          BY <5>1 DEF MemoryRow
        <5>3. received[e] <= old.computed
          <6> HIDE DEF old
          <6> QED BY <1>3, <4>2, <5>1, <5>2 DEF PassedIn, Less
        <5>4. StateExplained(old, k, memory[k], v, received)
          BY <2>2, <4>1 DEF ExplainedInv
        <5>5. \/ old.applied[e] > 0
              \/ \E i \in 1..v : /\ e \notin memory[k][i].seen
                                 /\ PassedIn(received, e, ReviewCursor(memory[k][i]))
          BY <2>6, <4>4, <5>3, <5>4 DEF StateExplained
        <5>6. old.applied[e] > 0 => s.applied[e] > 0
          <6>1. old.applied[e] \in Nat /\ s.applied[e] \in {0, 1}
            BY <1>3, <2>5, <5>1 DEF MemoryRow, StateSound, Weighed
          <6>2. s.applied[e] >= old.applied[e]
            BY <1>3, <2>5, <3>2 DEF Covers
          <6> HIDE DEF old
          <6> QED BY <6>1, <6>2
        <5> QED BY <5>5, <5>6
      <4> QED BY <4>3, <4>4
    <3> QED BY <3>1, <3>2
  <2>7. StateExplained(s, k, m, v, received)
    BY <2>5, <2>6 DEF StateExplained
  <2> QED BY <2>1, <2>7 DEF v
<1>5. DOMAIN draft = DOMAIN current
  OBVIOUS
<1> HIDE DEF draft, current
<1>6. CallExplained(next, profiles, memory, received)
  BY <1>4, <1>5 DEF CallExplained
<1> QED BY <1>1, <1>6

\* What a step must add for the account to stand: the rows and the calls that
\* are new.
LEMMA ExplainedKept ==
  ASSUME LearnerInv, ExplainedInv,
         Grows(profiles, profiles', memory, memory', stored, stored', received, received'),
         \A v \in 1..Len(profiles') :
           v \in 1..Len(profiles) \/ ProfileExplained(profiles'[v], profiles', received'),
         \A k \in Points : \A v \in 1..Len(memory'[k]) :
           v \in 1..Len(memory[k]) \/ StateExplained(memory'[k][v], k, memory'[k], v, received'),
         \A c \in Calls :
           call'[c] = call[c] \/ CallExplained(call'[c], profiles', memory', received')
  PROVE  ExplainedInv'
<1>1. /\ profiles \in Seq(ProfileRow) /\ Extends(profiles, profiles')
      /\ KeepsEvents(stored, stored', received, received')
      /\ \A k \in Points : memory[k] \in Seq(MemoryRow) /\ Extends(memory[k], memory'[k])
  BY DEF Grows
<1>2. ASSUME NEW p, ProfileSound(p, stored, received), p.base \in 0..Len(profiles),
             ProfileExplained(p, profiles, received)
      PROVE  ProfileExplained(p, profiles', received')
  BY <1>1, <1>2, ProfileExplainedStays DEF ProfileSound
<1>3. ASSUME NEW s, NEW k \in Points, NEW n \in 0..Len(memory[k]),
             StateSound(s, stored, received), StateExplained(s, k, memory[k], n, received)
      PROVE  StateExplained(s, k, memory'[k], n, received')
  <2>1. n \in Nat /\ n <= n /\ s.seen \subseteq stored
    BY <1>3, Stands DEF StateSound
  <2> QED BY <1>1, <1>3, <2>1, StateExplainedStays
<1>4. ASSUME NEW v \in 1..Len(profiles') PROVE ProfileExplained(profiles'[v], profiles', received')
  <2>1. CASE v \in 1..Len(profiles)
    <3>1. /\ profiles'[v] = profiles[v] /\ ProfileSound(profiles[v], stored, received)
          /\ profiles[v].base < v /\ ProfileExplained(profiles[v], profiles, received)
      BY <1>1, <2>1 DEF Extends, LearnerInv, ProfilesOK, ExplainedInv
    <3>2. profiles[v].base \in 0..Len(profiles)
      BY <2>1, <3>1, Stands DEF ProfileRow
    <3> QED BY <1>2, <3>1, <3>2
  <2> QED BY <2>1
<1>5. ASSUME NEW k \in Points, NEW v \in 1..Len(memory'[k])
      PROVE  StateExplained(memory'[k][v], k, memory'[k], v, received')
  <2>1. CASE v \in 1..Len(memory[k])
    <3>1. /\ memory'[k][v] = memory[k][v] /\ StateSound(memory[k][v], stored, received)
          /\ StateExplained(memory[k][v], k, memory[k], v, received) /\ v \in 0..Len(memory[k])
      BY <1>1, <2>1 DEF Extends, LearnerInv, MemoryOK, ExplainedInv
    <3> QED BY <1>3, <3>1
  <2> QED BY <2>1
<1>6. ASSUME NEW c \in Calls PROVE CallExplained(call'[c], profiles', memory', received')
  <2> DEFINE x == call[c]
  <2>1. /\ CallOK(x, profiles, memory, stored, received, DOMAIN asked)
        /\ CallExplained(x, profiles, memory, received)
    BY DEF LearnerInv, CallsOK, ExplainedInv
  <2>2. CASE call'[c] = x
    <3> HIDE DEF x
    <3>1. ASSUME x.at = "profile" PROVE ProfileExplained(x.draft, profiles', received')
      <4>1. /\ ProfileSound(x.draft, stored, received) /\ x.draft.base \in 0..Len(profiles)
            /\ ProfileExplained(x.draft, profiles, received)
        BY <2>1, <3>1 DEF CallOK, DraftOK, CallExplained
      <4> QED BY <1>2, <4>1
    <3>2. ASSUME x.at = "states", NEW k \in DOMAIN x.draft
          PROVE  StateExplained(x.draft[k], k, memory'[k], x.parents[k], received')
      <4>1. /\ k \in Points /\ x.parents[k] \in 0..Len(memory[k])
            /\ StateSound(x.draft[k], stored, received)
            /\ StateExplained(x.draft[k], k, memory[k], x.parents[k], received)
        BY <2>1, <3>2 DEF CallOK, StatesOK, CallExplained
      <4> QED BY <1>3, <4>1
    <3> QED BY <2>2, <3>1, <3>2 DEF CallExplained
  <2> QED BY <2>2
<1> QED BY <1>4, <1>5, <1>6 DEF ExplainedInv

\* A step of a call that saves nothing.
LEMMA ExplainedGoes ==
  ASSUME LearnerInv, ExplainedInv, NEW c \in Calls, NEW next, call' = [call EXCEPT ![c] = next],
         UNCHANGED <<profiles, memory, stored, received>>,
         CallExplained(next, profiles, memory, received)
  PROVE  ExplainedInv'
<1>1. Grows(profiles, profiles', memory, memory', stored, stored', received, received')
  BY Stands
<1>2. \A d \in Calls :
        call'[d] = call[d] \/ CallExplained(call'[d], profiles', memory', received')
  BY DEF LearnerInv, CallsOK
<1> QED BY <1>1, <1>2, ExplainedKept

LEMMA SavesExplain ==
  ASSUME LearnerInv, ExplainedInv, NEW c \in Calls,
         SaveInitialize(c) \/ SaveProfile(c) \/ SaveMemory(c)
  PROVE  ExplainedInv'
<1>1. Grows(profiles, profiles', memory, memory', stored, stored', received, received')
  BY SaveInitializeKeeps, SaveProfileKeeps, SaveMemoryKeeps
<1>2. \A d \in Calls :
        call'[d] = call[d] \/ CallExplained(call'[d], profiles', memory', received')
  BY DEF LearnerInv, CallsOK, SaveInitialize, SaveProfile, SaveMemory, CallExplained, Idle
<1>3. UNCHANGED <<stored, received>>
  BY DEF SaveInitialize, SaveProfile, SaveMemory, world
<1>4. /\ profiles \in Seq(ProfileRow) /\ Extends(profiles, profiles')
      /\ KeepsEvents(stored, stored', received, received')
      /\ \A k \in Points : memory[k] \in Seq(MemoryRow) /\ Extends(memory[k], memory'[k])
  BY <1>1 DEF Grows
<1>5. ASSUME NEW p, profiles' = Append(profiles, p), ProfileExplained(p, profiles', received'),
             NEW v \in 1..Len(profiles')
      PROVE  v \in 1..Len(profiles) \/ ProfileExplained(profiles'[v], profiles', received')
  <2>1. Len(profiles') = Len(profiles) + 1 /\ profiles'[Len(profiles) + 1] = p
    BY <1>4, <1>5
  <2> QED BY <2>1, <1>5, Stands
<1>6. ASSUME NEW drafts, memory' = AppendStates(drafts), NEW k \in Points,
             k \in DOMAIN drafts =>
               StateExplained(drafts[k], k, memory'[k], Len(memory[k]) + 1, received'),
             NEW v \in 1..Len(memory'[k])
      PROVE  v \in 1..Len(memory[k]) \/ StateExplained(memory'[k][v], k, memory'[k], v, received')
  <2>1. CASE k \in DOMAIN drafts
    <3>1. memory'[k] = Append(memory[k], drafts[k])
      BY <1>6, <2>1, <1>4 DEF AppendStates, LearnerInv, MemoryOK
    <3>2. /\ Len(memory'[k]) = Len(memory[k]) + 1
          /\ memory'[k][Len(memory[k]) + 1] = drafts[k]
      BY <1>4, <3>1
    <3> QED BY <1>6, <2>1, <3>2, Stands
  <2>2. CASE k \notin DOMAIN drafts
    BY <1>6, <2>2 DEF AppendStates
  <2> QED BY <2>1, <2>2
<1>7. CASE SaveInitialize(c)
  <2> DEFINE op == call[c].op
             active == Graphs[call[c].graph].active
             p == BlankProfile(Derived(op))
             s == BlankState(Derived(op), asked[op])
             drafts == [k \in active |-> s]
  <2>1. p.seen = {} /\ s.seen = {}
    BY DEF BlankProfile, BlankState
  <2>2. profiles' = Append(profiles, p) /\ memory' = AppendStates(drafts)
    BY <1>7 DEF SaveInitialize, AppendProfile
  <2> HIDE DEF p, s
  <2>3. ProfileExplained(p, profiles', received')
    BY <2>1 DEF ProfileExplained
  <2>4. \A k \in DOMAIN drafts :
          StateExplained(drafts[k], k, memory'[k], Len(memory[k]) + 1, received')
    BY <2>1 DEF StateExplained
  <2> HIDE DEF drafts
  <2>5. \A v \in 1..Len(profiles') :
          v \in 1..Len(profiles) \/ ProfileExplained(profiles'[v], profiles', received')
    BY <1>5, <2>2, <2>3
  <2>6. \A k \in Points : \A v \in 1..Len(memory'[k]) :
          v \in 1..Len(memory[k]) \/ StateExplained(memory'[k][v], k, memory'[k], v, received')
    BY <1>6, <2>2, <2>4
  <2> QED BY <1>1, <1>2, <2>5, <2>6, ExplainedKept
<1>8. CASE SaveProfile(c)
  <2> DEFINE p == call[c].draft
  <2>1. /\ profiles' = Append(profiles, p) /\ UNCHANGED memory
        /\ DraftOK(call[c], profiles, stored, received)
        /\ ProfileExplained(p, profiles, received)
    BY <1>8 DEF SaveProfile, AppendProfile, Busy, LearnerInv, CallsOK, CallOK, ExplainedInv,
                CallExplained
  <2>2. p.seen \subseteq stored /\ p.base \in 0..Len(profiles)
    BY <2>1 DEF DraftOK, ProfileSound
  <2> HIDE DEF p
  <2>3. ProfileExplained(p, profiles', received')
    BY <1>4, <2>1, <2>2, ProfileExplainedStays
  <2>4. \A v \in 1..Len(profiles') :
          v \in 1..Len(profiles) \/ ProfileExplained(profiles'[v], profiles', received')
    BY <1>5, <2>1, <2>3
  <2> QED BY <1>1, <1>2, <2>1, <2>4, ExplainedKept
<1>9. CASE SaveMemory(c)
  <2> DEFINE drafts == call[c].draft
  <2>1. /\ memory' = AppendStates(drafts) /\ UNCHANGED profiles
        /\ \A k \in DOMAIN drafts : call[c].parents[k] = Len(memory[k])
        /\ StatesOK(call[c], memory, stored, received)
        /\ CallExplained(call[c], profiles, memory, received) /\ call[c].at = "states"
    BY <1>9 DEF SaveMemory, IsSuccessor, Busy, LearnerInv, CallsOK, CallOK, ExplainedInv
  <2>2. ASSUME NEW k \in DOMAIN drafts
        PROVE  StateExplained(drafts[k], k, memory'[k], Len(memory[k]) + 1, received')
    <3>1. /\ k \in Points /\ StateSound(drafts[k], stored, received)
          /\ StateExplained(drafts[k], k, memory[k], Len(memory[k]), received)
      BY <2>1 DEF StatesOK, CallExplained
    <3>2. drafts[k].seen \subseteq stored
      BY <3>1 DEF StateSound
    <3>3. /\ Len(memory[k]) \in 0..Len(memory[k]) /\ Len(memory[k]) + 1 \in Nat
          /\ Len(memory[k]) <= Len(memory[k]) + 1
      BY <3>1, Stands
    <3> HIDE DEF drafts
    <3> QED BY <1>4, <3>1, <3>2, <3>3, StateExplainedStays
  <2> HIDE DEF drafts
  <2>3. \A k \in Points : \A v \in 1..Len(memory'[k]) :
          v \in 1..Len(memory[k]) \/ StateExplained(memory'[k][v], k, memory'[k], v, received')
    BY <1>6, <2>1, <2>2
  <2> QED BY <1>1, <1>2, <2>1, <2>3, ExplainedKept
<1> QED BY <1>7, <1>8, <1>9

LEMMA ExplainedNext == Fits /\ LearnerInv /\ ExplainedInv /\ [Next]_vars => ExplainedInv'
<1> SUFFICES ASSUME Fits, LearnerInv, ExplainedInv, [Next]_vars PROVE ExplainedInv'
  OBVIOUS
<1>1. ASSUME KeepsEvents(stored, stored', received, received'),
             UNCHANGED <<profiles, memory, call>>
      PROVE  ExplainedInv'
  <2>1. Grows(profiles, profiles', memory, memory', stored, stored', received, received')
    BY <1>1, Stands DEF Grows
  <2> QED BY <1>1, <2>1, ExplainedKept
<1>2. CASE UNCHANGED vars
  BY <1>1, <1>2 DEF vars, KeepsEvents
<1>3. CASE Tick \/ AcceptGraph \/ \E e \in Events : Receive(e) \/ RecordBehaviorEvent(e)
  BY <1>1, <1>3, WorldKeeps
<1>4. ASSUME NEW c \in Calls, NEW next, Goes(c, next),
             CallExplained(next, profiles, memory, received)
      PROVE  ExplainedInv'
  BY <1>4, ExplainedGoes DEF Goes, world, tables
<1>5. ASSUME NEW c \in Calls, NEW op, NEW kind, NEW tag, NEW next,
             Starts(c, op, kind, tag, next), next.at \notin {"profile", "states"}
      PROVE  ExplainedInv'
  <2>1. CallExplained(next, profiles, memory, received)
    BY <1>5 DEF CallExplained
  <2> QED BY <1>5, <2>1, ExplainedGoes DEF Starts, world, tables
<1>6. ASSUME NEW c \in Calls, NEW op \in DOMAIN asked,
             \/ StartInitialize(c, op)
             \/ StartRebuild(c, op)
             \/ \E v \in 1..MaxCalls : StartRestore(c, op, v)
             \/ StartRefresh(c, op)
             \/ \E due \in SUBSET Points : StartRefreshDue(c, op, due)
             \/ StartPath(c, op)
      PROVE  ExplainedInv'
  <2>1. CASE StartInitialize(c, op)
    BY <1>5, <2>1 DEF StartInitialize
  <2>2. CASE StartRebuild(c, op)
    BY <1>5, <2>2 DEF StartRebuild
  <2>3. ASSUME NEW v \in 1..MaxCalls, StartRestore(c, op, v) PROVE ExplainedInv'
    BY <1>5, <2>3 DEF StartRestore
  <2>4. CASE StartRefresh(c, op)
    BY <1>5, <2>4 DEF StartRefresh
  <2>5. ASSUME NEW due \in SUBSET Points, StartRefreshDue(c, op, due) PROVE ExplainedInv'
    BY <1>5, <2>5 DEF StartRefreshDue
  <2>6. CASE StartPath(c, op)
    BY <1>5, <2>6 DEF StartPath
  <2> QED BY <1>6, <2>1, <2>2, <2>3, <2>4, <2>5, <2>6
<1>7. ASSUME NEW c \in Calls,
             \/ ReadLatestProfile(c) \/ ReadCurrent(c) \/ ReadBasis(c) \/ Abandon(c)
             \/ \E ask \in Asks, rank \in Rankings : PlanPath(c, ask, rank)
      PROVE  ExplainedInv'
  <2>1. ASSUME NEW next, Goes(c, next), next.at \notin {"profile", "states"}
        PROVE  ExplainedInv'
    BY <1>4, <2>1 DEF CallExplained
  <2>2. CASE ReadLatestProfile(c)
    BY <2>1, <2>2 DEF ReadLatestProfile
  <2>3. CASE ReadCurrent(c)
    BY <2>1, <2>3 DEF ReadCurrent
  <2>4. CASE ReadBasis(c)
    BY <2>1, <2>4 DEF ReadBasis
  <2>5. CASE Abandon(c)
    BY <2>1, <2>5 DEF Abandon, Idle
  <2>6. ASSUME NEW ask \in Asks, NEW rank \in Rankings, PlanPath(c, ask, rank)
        PROVE  ExplainedInv'
    BY <2>1, <2>6 DEF PlanPath
  <2> QED BY <1>7, <2>2, <2>3, <2>4, <2>5, <2>6
<1>8. ASSUME NEW c \in Calls, ReadEvents(c) \/ ReadRestored(c) \/ ReadReviews(c)
      PROVE  ExplainedInv'
  BY <1>4, <1>8, ReadEventsExplains, ReadRestoredExplains, ReadReviewsExplains
<1>9. ASSUME NEW c \in Calls, SaveInitialize(c) \/ SaveProfile(c) \/ SaveMemory(c)
      PROVE  ExplainedInv'
  BY <1>9, SavesExplain
<1>10. ASSUME NEW c \in Calls, SavePath(c) PROVE ExplainedInv'
  <2>1. CallExplained(Idle, profiles, memory, received)
    BY DEF CallExplained, Idle
  <2>2. /\ call' = [call EXCEPT ![c] = Idle]
        /\ UNCHANGED <<profiles, memory, stored, received>>
    BY <1>10 DEF SavePath, world
  <2> QED BY <2>1, <2>2, ExplainedGoes
<1> QED BY <1>2, <1>3, <1>6, <1>7, <1>8, <1>9, <1>10 DEF Next

\* An event that was stored when a profile or a memory state was computed is
\* weighed in it, or was rejected as an outlier, or had been overtaken before it
\* was stored (the cursors of rebuild_profile and _pending_review_events).
THEOREM OnlyOvertakenAreMissed ==
  ASSUME Fits
  PROVE  Spec => []OnlyOvertakenMissed
<1>1. Init => ExplainedInv
  BY DEF Init, ExplainedInv, CallExplained, Idle
<1>2. LearnerInv /\ ExplainedInv /\ [Next]_vars => ExplainedInv'
  BY ExplainedNext
<1>3. LearnerInv /\ ExplainedInv => OnlyOvertakenMissed
  <2> SUFFICES ASSUME LearnerInv, ExplainedInv PROVE OnlyOvertakenMissed
    OBVIOUS
  <2>1. \A v \in 1..Len(profiles) : \A e \in profiles[v].seen :
          \/ profiles[v].counted[e] > 0
          \/ \E i \in Lineage(profiles, v) : MissedAt(profiles[i], e, received)
    BY RowAccounts
  <2> QED BY <2>1 DEF OnlyOvertakenMissed, MissedAt, PassedIn, Passed, After, Stamp,
                      ExplainedInv, StateExplained
<1> QED BY <1>1, <1>2, <1>3, InitHolds, NextKeeps, PTL DEF Spec

-----------------------------------------------------------------------------
(* Learning paths.                                                           *)

\* A step repeated k times from a: the recursive functions of the planner.
Repeats(f, k, a, F) == f = [i \in 0..k |-> IF i = 0 THEN a ELSE F[f[i - 1]]]

LEMMA Repeated ==
  ASSUME NEW D, NEW a \in D, NEW F \in [D -> D], NEW k \in Nat
  PROVE  \E f \in [0..k -> D] : Repeats(f, k, a, F)
<1> DEFINE T == {j \in Nat : ~\E f \in [0..j -> D] : Repeats(f, j, a, F)}
<1>1. ASSUME T # {} PROVE FALSE
  <2>1. PICK j \in T : \A m \in T : j <= m
    <3>1. T \in SUBSET Nat
      OBVIOUS
    <3> HIDE DEF T
    <3> QED BY <1>1, <3>1, LeastOf
  <2>2. CASE j = 0
    <3> DEFINE f == [i \in 0..0 |-> a]
    <3>1. Repeats(f, 0, a, F) /\ f \in [0..0 -> D]
      BY DEF Repeats
    <3> QED BY <2>1, <2>2, <3>1
  <2>3. CASE j # 0
    <3>1. j \in Nat /\ j - 1 \in Nat /\ j - 1 \notin T
      BY <2>1, <2>3
    <3>2. PICK f \in [0..(j - 1) -> D] : Repeats(f, j - 1, a, F)
      BY <3>1
    <3> DEFINE h == [i \in 0..j |-> IF i = j THEN F[f[j - 1]] ELSE f[i]]
               next == [i \in 0..j |-> IF i = 0 THEN a ELSE F[h[i - 1]]]
    <3>3. ASSUME NEW i \in 0..j PROVE h[i] \in D /\ h[i] = next[i]
      <4>1. CASE i = j
        <5>1. j - 1 \in 0..(j - 1) /\ j - 1 \in 0..j /\ j - 1 # j
          BY <3>1
        <5> QED BY <4>1, <5>1, <2>3
      <4>2. CASE i # j
        <5>1. i \in 0..(j - 1) /\ h[i] = f[i] /\ f[i] \in D
          BY <3>1, <4>2
        <5>2. f[i] = IF i = 0 THEN a ELSE F[f[i - 1]]
          BY <3>2, <5>1 DEF Repeats
        <5>3. i # 0 => i - 1 \in 0..j /\ i - 1 # j /\ h[i - 1] = f[i - 1]
          BY <3>1, <4>2
        <5> QED BY <5>1, <5>2, <5>3
      <4> QED BY <4>1, <4>2
    <3>4. h \in [0..j -> D] /\ h = next
      BY <3>3
    <3>5. Repeats(h, j, a, F)
      <4> HIDE DEF h
      <4> QED BY <3>4 DEF Repeats
    <3> HIDE DEF h, next
    <3> QED BY <2>1, <3>4, <3>5
  <2> QED BY <2>2, <2>3
<1> QED BY <1>1

\* One round of _select_nodes.
Grow(g, known) ==
  known \union {e.from : e \in {d \in Sanitized(g) : d.to \in known /\ d.kind # "SUPPORTING"}}

GrownOf(g, targets, k, grown) ==
  grown = [i \in 0..k |-> IF i = 0 THEN targets ELSE Grow(g, grown[i - 1])]

\* What is selected contains the targets and all they require.
LEMMA SelectDoes ==
  ASSUME NEW g, IsFiniteSet(g.active), NEW targets \in SUBSET g.active,
         NEW S, S = SelectNodes(g, targets)
  PROVE  /\ S \subseteq g.active /\ targets \subseteq S
         /\ \A e \in Sanitized(g) : e.to \in S /\ e.kind # "SUPPORTING" => e.from \in S
<1> DEFINE D == SUBSET g.active
           F == [known \in D |-> Grow(g, known)]
<1>1. PICK k \in Nat : k = Cardinality(g.active)
  BY FS_CardinalityType
<1>2. F \in [D -> D]
  BY DEF Grow, Sanitized
<1>3. \E grown : GrownOf(g, targets, k, grown)
  <2>1. targets \in D
    OBVIOUS
  <2>2. PICK f \in [0..k -> D] : Repeats(f, k, targets, F)
    <3> HIDE DEF F, D
    <3> QED BY <1>2, <2>1, Repeated
  <2>3. \A i \in 0..k : i # 0 => F[f[i - 1]] = Grow(g, f[i - 1])
    <3> TAKE i \in 0..k
    <3> HAVE i # 0
    <3>1. f[i - 1] \in D
      <4>1. i - 1 \in 0..k
        OBVIOUS
      <4> HIDE DEF D, F
      <4> QED BY <4>1
    <3> QED BY <3>1
  <2> HIDE DEF F
  <2>4. GrownOf(g, targets, k, f)
    BY <2>2, <2>3 DEF GrownOf, Repeats
  <2> QED BY <2>4
<1>4. PICK grown : GrownOf(g, targets, k, grown) /\ S = grown[k]
  <2>1. PICK grown : grown = CHOOSE f : GrownOf(g, targets, k, f)
    OBVIOUS
  <2>2. GrownOf(g, targets, k, grown)
    BY <1>3, <2>1, Zenon
  <2>3. SelectNodes(g, targets) = grown[k]
    BY <1>1, <2>1, Zenon DEF SelectNodes, GrownOf, Grow
  <2> QED BY <2>2, <2>3
<1> DEFINE Closed(known) ==
      \A e \in Sanitized(g) : e.to \in known /\ e.kind # "SUPPORTING" => e.from \in known
    Fine(i) == /\ grown[i] \subseteq g.active /\ targets \subseteq grown[i]
               /\ Closed(grown[i]) \/ Cardinality(grown[i]) >= i
    T == {i \in 0..k : ~Fine(i)}
<1>5. ASSUME T # {} PROVE FALSE
  <2>1. PICK i \in T : \A j \in T : i <= j
    <3>1. T \in SUBSET Nat
      OBVIOUS
    <3> HIDE DEF T
    <3> QED BY <1>5, <3>1, LeastOf
  <2>2. CASE i = 0
    <3>1. grown[0] = targets
      BY <1>4 DEF GrownOf
    <3>2. Cardinality(targets) \in Nat
      BY FS_Subset, FS_CardinalityType
    <3> QED BY <2>1, <2>2, <3>1, <3>2
  <2>3. CASE i # 0
    <3>1. i - 1 \in 0..k /\ i - 1 \notin T /\ (i - 1) + 1 = i
      BY <2>1, <2>3
    <3>2. PICK known : known = grown[i - 1]
      OBVIOUS
    <3>3. /\ known \subseteq g.active /\ targets \subseteq known
          /\ Closed(known) \/ Cardinality(known) >= i - 1
      BY <3>1, <3>2
    <3>4. grown[i] = Grow(g, known)
      BY <1>4, <2>1, <2>3, <3>2 DEF GrownOf
    <3>5. known \subseteq Grow(g, known) /\ Grow(g, known) \subseteq g.active
      BY <3>3 DEF Grow, Sanitized
    <3>6. CASE Closed(known)
      <4>1. Grow(g, known) = known
        BY <3>6 DEF Grow
      <4> QED BY <2>1, <3>3, <3>4, <3>6, <4>1
    <3>7. CASE ~Closed(known)
      <4>1. PICK e \in Sanitized(g) : e.to \in known /\ e.kind # "SUPPORTING" /\ e.from \notin known
        BY <3>7
      <4>2. e.from \in Grow(g, known)
        BY <4>1 DEF Grow
      <4>3. IsFiniteSet(known) /\ IsFiniteSet(Grow(g, known))
        BY <3>3, <3>5, FS_Subset
      <4>4. IsFiniteSet(known \union {e.from})
            /\ Cardinality(known \union {e.from}) = Cardinality(known) + 1
        BY <4>1, <4>3, FS_AddElement
      <4>5. Cardinality(known \union {e.from}) <= Cardinality(Grow(g, known))
        BY <3>5, <4>2, <4>3, FS_Subset
      <4>6. Cardinality(known) \in Nat /\ Cardinality(Grow(g, known)) \in Nat
        BY <4>3, FS_CardinalityType
      <4>7. Cardinality(known) >= i - 1
        BY <3>3, <3>7
      <4>8. Cardinality(Grow(g, known)) >= i
        BY <2>1, <4>4, <4>5, <4>6, <4>7
      <4> QED BY <2>1, <3>3, <3>4, <3>5, <4>8
    <3> QED BY <3>6, <3>7
  <2> QED BY <2>2, <2>3
<1>6. Fine(k)
  BY <1>5
<1>7. Closed(S)
  <2>1. CASE Cardinality(S) >= k
    <3>1. Cardinality(S) = k /\ S \subseteq g.active
      <4>1. S \subseteq g.active /\ IsFiniteSet(S) /\ Cardinality(S) <= Cardinality(g.active)
        BY <1>4, <1>6, FS_Subset
      <4>2. Cardinality(S) \in Nat
        BY <4>1, FS_CardinalityType
      <4> QED BY <1>1, <2>1, <4>1, <4>2
    <3>2. S = g.active
      BY <1>1, <3>1, FS_Subset
    <3> QED BY <3>2 DEF Sanitized
  <2> QED BY <1>4, <1>6, <2>1
<1> QED BY <1>4, <1>6, <1>7

\* On an acyclic graph every group of points has one that builds on none of them.
LEMMA AcyclicHasFirst ==
  ASSUME NEW g, IsFiniteSet(g.active), Acyclic(g.active, Pairs(g)),
         NEW rest \in SUBSET g.active, rest # {}
  PROVE  \E n \in rest : \A e \in Sanitized(g) : e.to = n => e.from \notin rest
<1> DEFINE Long(k, n) == Walk(g.active, Pairs(g), k, n)
           T == {k \in Nat : \E n \in rest : ~Long(k, n)}
<1>1. SUFFICES ASSUME \A n \in rest : \E p \in rest : <<p, n>> \in Pairs(g) PROVE FALSE
  BY DEF Pairs
<1>2. ASSUME T # {} PROVE FALSE
  <2>1. PICK k \in T : \A j \in T : k <= j
    <3>1. T \in SUBSET Nat
      OBVIOUS
    <3> HIDE DEF T
    <3> QED BY <1>2, <3>1, LeastOf
  <2>2. PICK m \in rest : ~Long(k, m)
    BY <2>1
  <2>3. CASE k = 0
    <3> DEFINE s == [i \in 0..0 |-> m]
    <3>1. s \in [0..0 -> g.active] /\ s[0] = m
      OBVIOUS
    <3> HIDE DEF s
    <3>2. Long(0, m)
      BY <3>1 DEF Walk
    <3> QED BY <2>2, <2>3, <3>2
  <2>4. CASE k # 0
    <3>1. k \in Nat /\ k - 1 \in Nat /\ k - 1 \notin T
      BY <2>1, <2>4
    <3>2. PICK p \in rest : <<p, m>> \in Pairs(g)
      BY <1>1
    <3>3. Long(k - 1, p)
      BY <3>1
    <3>4. PICK s \in [0..(k - 1) -> g.active] :
            s[k - 1] = p /\ \A i \in 0..(k - 1 - 1) : <<s[i], s[i + 1]>> \in Pairs(g)
      BY <3>3 DEF Walk
    <3> DEFINE t == [i \in 0..k |-> IF i = k THEN m ELSE s[i]]
    <3>5. \A i \in 0..(k - 1) : i \in 0..k /\ i # k /\ t[i] = s[i] /\ s[i] \in g.active
      BY <3>1, <3>4
    <3>6. t \in [0..k -> g.active] /\ t[k] = m
      BY <3>1, <3>5
    <3> HIDE DEF t
    <3>7. \A i \in 0..(k - 1) : <<t[i], t[i + 1]>> \in Pairs(g)
      <4> TAKE i \in 0..(k - 1)
      <4>1. CASE i = k - 1
        <5>1. i + 1 = k /\ t[i] = p
          BY <3>1, <3>4, <3>5, <4>1
        <5> QED BY <5>1, <3>2, <3>6
      <4>2. CASE i # k - 1
        <5>1. i \in 0..(k - 1 - 1) /\ i + 1 \in 0..(k - 1)
          BY <3>1, <4>2
        <5> QED BY <5>1, <3>4, <3>5
      <4> QED BY <4>1, <4>2
    <3>8. Long(k, m)
      BY <3>6, <3>7 DEF Walk
    <3> QED BY <2>2, <3>8
  <2> QED BY <2>3, <2>4
<1>3. PICK n \in rest : Long(Cardinality(g.active), n)
  BY <1>2, FS_CardinalityType
<1> QED BY <1>3 DEF Acyclic

\* Scores and identifiers put any points in an order.
Ranked(rank, nodes) ==
  /\ \A k \in nodes : rank[k] \in Nat
  /\ \A j, k \in nodes : rank[j] = rank[k] => j = k

\* The order of the heap has a first among the ready points.
LEMMA FirstReady ==
  ASSUME NEW P, NEW manual \in Seq(P), NEW nodes, IsFiniteSet(nodes),
         NEW ready \in SUBSET nodes, ready # {},
         NEW rank, Ranked(rank, nodes)
  PROVE  \E k \in ready : \A j \in ready \ {k} : Before(manual, nodes, rank, k, j)
<1> DEFINE key(k) == <<ManualIndex(manual, nodes, k), rank[k]>>
           Keys == {key(k) : k \in ready}
<1>1. \A k \in nodes : ManualIndex(manual, nodes, k) \in Nat
  BY FS_CardinalityType DEF ManualIndex
<1>2. Keys \in SUBSET (Nat \X Nat) /\ Keys # {}
  <2>1. \A k \in ready : key(k) \in Nat \X Nat
    BY <1>1 DEF Ranked
  <2> HIDE DEF key
  <2> QED BY <2>1
<1>3. PICK s \in Keys : \A t \in Keys : s = t \/ Less(s, t)
  <2> HIDE DEF Keys
  <2> QED BY <1>2, EarliestOf
<1>4. PICK k \in ready : s = key(k)
  BY <1>3
<1>5. \A j \in ready \ {k} : Before(manual, nodes, rank, k, j)
  <2> TAKE j \in ready \ {k}
  <2>1. key(k) = key(j) \/ Less(key(k), key(j))
    BY <1>3, <1>4
  <2>2. rank[k] # rank[j]
    BY DEF Ranked
  <2> QED BY <2>1, <2>2 DEF Before, Less
<1> QED BY <1>5

\* One turn of _ordered_nodes.
Follow(manual, nodes, rank, edges, sofar) ==
  LET ready == ReadyNodes(nodes, edges, ToSet(sofar))
  IN IF ready = {} THEN sofar
     ELSE Append(sofar, CHOOSE k \in ready :
                   \A j \in ready \ {k} : Before(manual, nodes, rank, k, j))

OrdersOf(manual, nodes, rank, edges, k, run) ==
  run = [i \in 0..k |-> IF i = 0 THEN <<>>
                        ELSE Follow(manual, nodes, rank, edges, run[i - 1])]

\* A beginning of the path: points once each, and after all they build on.
Begun(nodes, edges, s) ==
  /\ s \in Seq(nodes)
  /\ \A i, j \in 1..Len(s) : s[i] = s[j] => i = j
  /\ \A j \in 1..Len(s), e \in edges :
       e.to = s[j] /\ e.from \in nodes => \E i \in 1..Len(s) : i < j /\ s[i] = e.from

\* From s to t a path has grown by the first of the points that were ready.
Extended(manual, nodes, rank, s, t, ready) ==
  \/ ready = {} /\ t = s
  \/ \E k \in ready : /\ \A j \in ready \ {k} : Before(manual, nodes, rank, k, j)
                      /\ t = Append(s, k)

\* A turn adds the first of the ready points, if there is one.
LEMMA FollowDoes ==
  ASSUME NEW P, NEW manual \in Seq(P), NEW nodes, IsFiniteSet(nodes), NEW edges,
         NEW rank, Ranked(rank, nodes), NEW s, Begun(nodes, edges, s),
         NEW t, t = Follow(manual, nodes, rank, edges, s),
         NEW ready, ready = ReadyNodes(nodes, edges, ToSet(s))
  PROVE  Begun(nodes, edges, t) /\ Extended(manual, nodes, rank, s, t, ready)
<1>1. CASE ready = {}
  BY <1>1 DEF Follow, Extended
<1>2. CASE ready # {}
  <2>1. ready \subseteq nodes
    BY DEF ReadyNodes
  <2>2. PICK k : k = CHOOSE x \in ready : \A j \in ready \ {x} : Before(manual, nodes, rank, x, j)
    OBVIOUS
  <2>3. k \in ready /\ \A j \in ready \ {k} : Before(manual, nodes, rank, k, j)
    <3>1. \E x \in ready : \A j \in ready \ {x} : Before(manual, nodes, rank, x, j)
      BY <1>2, <2>1, FirstReady
    <3> QED BY <2>2, <3>1, Zenon
  <2>4. t = Append(s, k)
    BY <1>2, <2>2, Zenon DEF Follow
  <2>5. k \in nodes /\ k \notin ToSet(s)
        /\ \A e \in edges : e.to = k /\ e.from \in nodes => e.from \in ToSet(s)
    BY <2>3 DEF ReadyNodes
  <2>6. PICK n \in Nat : n = Len(s) /\ s \in [1..n -> nodes]
    BY DEF Begun
  <2>7. ToSet(s) = {s[i] : i \in 1..n}
    BY <2>6 DEF ToSet
  <2>8. /\ t \in Seq(nodes) /\ Len(t) = n + 1 /\ t[n + 1] = k
        /\ \A i \in 1..n : t[i] = s[i]
    BY <2>4, <2>5, <2>6 DEF Begun
  <2>9. \A i \in 1..(n + 1) : i \in 1..n \/ i = n + 1
    BY <2>6
  <2>10. \A i, j \in 1..(n + 1) : t[i] = t[j] => i = j
    <3>1. \A i, j \in 1..n : s[i] = s[j] => i = j
      BY <2>6 DEF Begun
    <3>2. \A i \in 1..n : s[i] # k
      BY <2>5, <2>7
    <3> QED BY <2>8, <2>9, <3>1, <3>2
  <2>11. \A j \in 1..(n + 1), e \in edges :
           e.to = t[j] /\ e.from \in nodes => \E i \in 1..(n + 1) : i < j /\ t[i] = e.from
    <3> TAKE j \in 1..(n + 1), e \in edges
    <3> HAVE e.to = t[j] /\ e.from \in nodes
    <3>1. CASE j \in 1..n
      <4>1. PICK i \in 1..n : i < j /\ s[i] = e.from
        BY <2>6, <2>8, <3>1 DEF Begun
      <4>2. i \in 1..(n + 1) /\ t[i] = e.from
        BY <2>6, <2>8, <4>1
      <4> QED BY <4>1, <4>2
    <3>2. CASE j = n + 1
      <4>1. PICK i \in 1..n : s[i] = e.from
        BY <2>5, <2>7, <2>8, <3>2
      <4>2. i \in 1..(n + 1) /\ t[i] = e.from /\ i < j
        BY <2>6, <2>8, <3>2, <4>1
      <4> QED BY <4>2
    <3> QED BY <2>9, <3>1, <3>2
  <2>12. Begun(nodes, edges, t)
    BY <2>8, <2>10, <2>11 DEF Begun
  <2> QED BY <2>3, <2>4, <2>12 DEF Extended
<1> QED BY <1>1, <1>2

\* A manual order of exactly the selected points that respects all edges.
Obeyable(manual, nodes, edges) ==
  ToSet(manual) = nodes /\ IsInjective(manual) /\ IsInOrder(manual, edges)

StartsAs(s, manual) ==
  Len(s) <= Len(manual) /\ \A i \in 1..Len(s) : s[i] = manual[i]

\* As long as the path follows such an order, its next point is the one to add.
LEMMA FollowObeys ==
  ASSUME NEW P, NEW manual \in Seq(P), NEW nodes, NEW edges, NEW rank,
         Obeyable(manual, nodes, edges),
         NEW s, Begun(nodes, edges, s), StartsAs(s, manual),
         NEW ready, ready = ReadyNodes(nodes, edges, ToSet(s)),
         NEW k \in ready, \A j \in ready \ {k} : Before(manual, nodes, rank, k, j)
  PROVE  StartsAs(Append(s, k), manual)
<1>1. PICK n \in Nat : n = Len(s) /\ s \in [1..n -> nodes]
  BY DEF Begun
<1>2. PICK l \in Nat : l = Len(manual) /\ manual \in [1..l -> P]
  OBVIOUS
<1>3. /\ ToSet(s) = {s[i] : i \in 1..n} /\ nodes = {manual[i] : i \in 1..l}
      /\ \A i, j \in 1..l : manual[i] = manual[j] => i = j
  BY <1>1, <1>2 DEF ToSet, Obeyable, IsInjective
<1>4. n <= l /\ \A i \in 1..n : s[i] = manual[i] /\ i \in 1..l
  BY <1>1, <1>2 DEF StartsAs
<1>5. \A m \in 1..l : manual[m] \in ToSet(s) => m <= n
  BY <1>3, <1>4
<1>6. \A m \in 1..l : ManualIndex(manual, nodes, manual[m]) = m
  <2> TAKE m \in 1..l
  <2>1. \E i \in 1..Len(manual) : manual[i] = manual[m]
    BY <1>2
  <2>2. PICK c : c = CHOOSE i \in 1..Len(manual) : manual[i] = manual[m]
    OBVIOUS
  <2>3. c \in 1..l /\ manual[c] = manual[m]
    BY <1>2, <2>1, <2>2
  <2>4. ManualIndex(manual, nodes, manual[m]) = c
    BY <2>1, <2>2 DEF ManualIndex
  <2> QED BY <1>3, <2>3, <2>4
<1>7. k \in nodes /\ k \notin ToSet(s)
  BY DEF ReadyNodes
<1>8. PICK m \in 1..l : k = manual[m]
  BY <1>3, <1>7
<1>9. m > n
  <2>1. m <= n => m \in 1..n
    BY <1>1
  <2> QED BY <1>1, <1>3, <1>4, <1>7, <1>8, <2>1
<1>10. n + 1 \in 1..l
  BY <1>1, <1>2, <1>9
<1>11. PICK x : x = manual[n + 1]
  OBVIOUS
<1>12. x \in ready
  <2>1. x \in nodes /\ x \notin ToSet(s)
    <3>1. ~(n + 1 <= n)
      BY <1>1
    <3> QED BY <1>3, <1>5, <1>10, <1>11, <3>1
  <2>2. ASSUME NEW e \in edges, e.to = x, e.from \in nodes PROVE e.from \in ToSet(s)
    <3>1. PICK i \in 1..l : manual[i] = e.from
      BY <1>3, <2>2
    <3>2. i < n + 1
      BY <1>2, <1>10, <1>11, <2>2, <3>1 DEF Obeyable, IsInOrder
    <3>3. i \in 1..n
      BY <1>1, <3>2
    <3> QED BY <1>3, <1>4, <3>1, <3>3
  <2> QED BY <2>1, <2>2 DEF ReadyNodes
<1>13. m = n + 1
  <2>1. ASSUME k # x PROVE FALSE
    <3>1. Before(manual, nodes, rank, k, x)
      BY <1>12, <2>1
    <3>2. ManualIndex(manual, nodes, k) = m /\ ManualIndex(manual, nodes, x) = n + 1
      BY <1>6, <1>8, <1>10, <1>11
    <3>3. m # n + 1
      BY <1>8, <1>11, <2>1
    <3> QED BY <1>1, <1>9, <3>1, <3>2, <3>3 DEF Before
  <2> QED BY <1>3, <1>8, <1>10, <1>11, <2>1
<1>14. /\ Len(Append(s, k)) = n + 1 /\ Append(s, k)[n + 1] = k
       /\ \A i \in 1..n : Append(s, k)[i] = s[i]
  <2>1. s \in Seq(nodes)
    BY DEF Begun
  <2> QED BY <1>1, <1>7, <2>1
<1>15. \A i \in 1..(n + 1) : i \in 1..n \/ i = n + 1
  BY <1>1
<1> QED BY <1>2, <1>4, <1>8, <1>10, <1>13, <1>14, <1>15 DEF StartsAs

\* The path holds the selected points, in an order that begins nowhere too early,
\* and is the manual order where that can be obeyed.
LEMMA OrderDoes ==
  ASSUME NEW g, IsFiniteSet(g.active), Acyclic(g.active, Pairs(g)),
         NEW nodes \in SUBSET g.active, NEW P, NEW manual \in Seq(P),
         NEW rank, Ranked(rank, nodes),
         NEW order, order = OrderedNodes(g, nodes, manual, rank),
         NEW edges, edges = Sanitized(g)
  PROVE  /\ Begun(nodes, edges, order) /\ ToSet(order) = nodes
         /\ Obeyable(manual, nodes, edges) => order = manual
<1>1. IsFiniteSet(nodes)
  BY FS_Subset
<1>2. PICK size \in Nat : size = Cardinality(nodes)
  BY <1>1, FS_CardinalityType
<1> DEFINE D == Seq(nodes)
           F == [s \in D |-> Follow(manual, nodes, rank, edges, s)]
<1>3. F \in [D -> D]
  <2> SUFFICES ASSUME NEW s \in Seq(nodes)
               PROVE  Follow(manual, nodes, rank, edges, s) \in Seq(nodes)
    OBVIOUS
  <2>1. PICK ready : ready = ReadyNodes(nodes, edges, ToSet(s))
    OBVIOUS
  <2>2. CASE ready = {}
    BY <2>1, <2>2 DEF Follow
  <2>3. CASE ready # {}
    <3>1. PICK k : k = CHOOSE x \in ready : \A j \in ready \ {x} : Before(manual, nodes, rank, x, j)
      OBVIOUS
    <3>2. k \in ready
      <4>1. ready \in SUBSET nodes
        BY <2>1 DEF ReadyNodes
      <4>2. \E x \in ready : \A j \in ready \ {x} : Before(manual, nodes, rank, x, j)
        BY <1>1, <2>3, <4>1, FirstReady
      <4> QED BY <3>1, <4>2, Zenon
    <3>3. Follow(manual, nodes, rank, edges, s) = Append(s, k)
      BY <2>1, <2>3, <3>1, Zenon DEF Follow
    <3>4. k \in nodes
      BY <2>1, <3>2 DEF ReadyNodes
    <3> QED BY <3>3, <3>4
  <2> QED BY <2>2, <2>3
<1>4. \E run : OrdersOf(manual, nodes, rank, edges, size, run)
  <2>1. <<>> \in D
    OBVIOUS
  <2>2. PICK f \in [0..size -> D] : Repeats(f, size, <<>>, F)
    <3> HIDE DEF F, D
    <3> QED BY <1>3, <2>1, Repeated
  <2>3. \A i \in 0..size : i # 0 => F[f[i - 1]] = Follow(manual, nodes, rank, edges, f[i - 1])
    <3> TAKE i \in 0..size
    <3> HAVE i # 0
    <3>1. f[i - 1] \in D
      <4>1. i - 1 \in 0..size
        OBVIOUS
      <4> HIDE DEF D, F
      <4> QED BY <4>1
    <3> QED BY <3>1
  <2> HIDE DEF F
  <2>4. OrdersOf(manual, nodes, rank, edges, size, f)
    BY <2>2, <2>3 DEF OrdersOf, Repeats
  <2> QED BY <2>4
<1>5. PICK run : OrdersOf(manual, nodes, rank, edges, size, run) /\ order = run[size]
  <2>1. PICK run : run = CHOOSE f : OrdersOf(manual, nodes, rank, edges, size, f)
    OBVIOUS
  <2>2. OrdersOf(manual, nodes, rank, edges, size, run)
    BY <1>4, <2>1, Zenon
  <2>3. OrderedNodes(g, nodes, manual, rank)
          = (CHOOSE f : OrdersOf(manual, nodes, rank, Sanitized(g), Cardinality(nodes), f))
              [Cardinality(nodes)]
    BY Zenon DEF OrderedNodes, OrdersOf, Follow
  <2>4. OrderedNodes(g, nodes, manual, rank) = run[size]
    BY <1>2, <2>1, <2>3, Zenon
  <2> QED BY <2>2, <2>4
<1> DEFINE Fine(i) ==
      /\ Begun(nodes, edges, run[i])
      /\ ReadyNodes(nodes, edges, ToSet(run[i])) = {} \/ Len(run[i]) = i
      /\ Obeyable(manual, nodes, edges) => StartsAs(run[i], manual)
    T == {i \in 0..size : ~Fine(i)}
<1> HIDE DEF D, F, Fine
<1>6. ASSUME T # {} PROVE FALSE
  <2>1. PICK i \in T : \A j \in T : i <= j
    <3>1. T \in SUBSET Nat
      OBVIOUS
    <3> HIDE DEF T
    <3> QED BY <1>6, <3>1, LeastOf
  <2>2. CASE i = 0
    <3>1. run[0] = <<>>
      BY <1>5 DEF OrdersOf
    <3>2. Fine(0)
      BY <3>1 DEF Begun, StartsAs, Fine
    <3> QED BY <2>1, <2>2, <3>2
  <2>3. CASE i # 0
    <3>1. i - 1 \in 0..size /\ i - 1 \notin T /\ (i - 1) + 1 = i
      BY <2>1, <2>3
    <3>2. PICK s : s = run[i - 1]
      OBVIOUS
    <3>3. PICK t : t = run[i]
      OBVIOUS
    <3>4. t = Follow(manual, nodes, rank, edges, s)
      BY <1>5, <2>1, <2>3, <3>2, <3>3 DEF OrdersOf
    <3>5. /\ Begun(nodes, edges, s)
          /\ ReadyNodes(nodes, edges, ToSet(s)) = {} \/ Len(s) = i - 1
          /\ Obeyable(manual, nodes, edges) => StartsAs(s, manual)
      BY <3>1, <3>2 DEF Fine
    <3>6. PICK ready : ready = ReadyNodes(nodes, edges, ToSet(s))
      OBVIOUS
    <3>7. /\ Begun(nodes, edges, t)
          /\ \/ ready = {} /\ t = s
             \/ \E k \in ready : /\ \A j \in ready \ {k} : Before(manual, nodes, rank, k, j)
                                 /\ t = Append(s, k)
      <4>1. Begun(nodes, edges, s)
        BY <3>5
      <4>2. Begun(nodes, edges, t) /\ Extended(manual, nodes, rank, s, t, ready)
        BY <1>1, <3>4, <3>6, <4>1, FollowDoes
      <4> QED BY <4>2 DEF Extended
    <3>8. CASE ready = {} /\ t = s
      <4>1. Fine(i)
        BY <3>3, <3>5, <3>6, <3>8 DEF Fine
      <4> QED BY <2>1, <4>1
    <3>9. ASSUME NEW k \in ready, t = Append(s, k),
                 \A j \in ready \ {k} : Before(manual, nodes, rank, k, j)
          PROVE  FALSE
      <4>1. Obeyable(manual, nodes, edges) => StartsAs(t, manual)
        BY <3>5, <3>6, <3>9, FollowObeys
      <4>2. Len(s) = i - 1 /\ s \in Seq(nodes)
        BY <3>5, <3>6, <3>9 DEF Begun
      <4>3. Len(t) = i
        BY <3>1, <3>9, <4>2
      <4>4. Fine(i)
        BY <3>3, <3>7, <4>1, <4>3 DEF Fine
      <4> QED BY <2>1, <4>4
    <3> QED BY <3>7, <3>8, <3>9
  <2> QED BY <2>2, <2>3
<1>7. /\ Begun(nodes, edges, order)
      /\ ReadyNodes(nodes, edges, ToSet(order)) = {} \/ Len(order) = size
      /\ Obeyable(manual, nodes, edges) => StartsAs(order, manual)
  <2>1. size \in 0..size /\ T = {}
    BY <1>6
  <2>2. Fine(size)
    BY <2>1
  <2> QED BY <1>5, <2>2 DEF Fine
<1>8. PICK n \in Nat : n = Len(order) /\ order \in [1..n -> nodes]
  BY <1>7 DEF Begun
<1>9. ToSet(order) = {order[i] : i \in 1..n} /\ ToSet(order) \subseteq nodes
  BY <1>8 DEF ToSet
<1>10. ToSet(order) = nodes
  <2>1. CASE ReadyNodes(nodes, edges, ToSet(order)) = {}
    <3> SUFFICES ASSUME nodes \ ToSet(order) # {} PROVE FALSE
      BY <1>9
    <3>1. PICK k \in nodes \ ToSet(order) :
            \A e \in Sanitized(g) : e.to = k => e.from \notin nodes \ ToSet(order)
      BY AcyclicHasFirst
    <3>2. k \in ReadyNodes(nodes, edges, ToSet(order))
      BY <3>1 DEF ReadyNodes
    <3> QED BY <2>1, <3>2
  <2>2. CASE n = size
    <3>1. IsFiniteSet(1..n) /\ Cardinality(1..n) = n
      <4>1. 1 \in Int /\ n \in Int
        OBVIOUS
      <4>2. /\ IsFiniteSet(1..n)
            /\ Cardinality(1..n) = IF 1 > n THEN 0 ELSE n - 1 + 1
        BY <4>1, FS_Interval
      <4> QED BY <4>2
    <3>2. order \in Injection(1..n, nodes)
      BY <1>7, <1>8 DEF Begun, Injection, IsInjective
    <3>3. order \in Surjection(1..n, nodes)
      BY <1>1, <1>2, <2>2, <3>1, <3>2, FS_Injection
    <3> QED BY <1>9, <3>3 DEF Surjection
  <2> QED BY <1>7, <1>8, <2>1, <2>2
<1>11. ASSUME Obeyable(manual, nodes, edges) PROVE order = manual
  <2>1. PICK l \in Nat : l = Len(manual) /\ manual \in [1..l -> P]
    OBVIOUS
  <2>2. n <= l /\ \A i \in 1..n : order[i] = manual[i] /\ i \in 1..l
    <3>1. StartsAs(order, manual)
      BY <1>7, <1>11
    <3>2. Len(order) <= Len(manual) /\ \A i \in 1..Len(order) : order[i] = manual[i]
      BY <3>1 DEF StartsAs
    <3> QED BY <1>8, <2>1, <3>2
  <2>3. ASSUME n < l PROVE FALSE
    <3>1. n + 1 \in 1..l
      BY <1>8, <2>1, <2>3
    <3>2. manual[n + 1] \in nodes
      BY <1>11, <2>1, <3>1 DEF Obeyable, ToSet
    <3>3. PICK i \in 1..n : order[i] = manual[n + 1]
      BY <1>9, <1>10, <3>2
    <3>4. i = n + 1
      BY <1>11, <2>1, <2>2, <3>1, <3>3 DEF Obeyable, IsInjective
    <3> QED BY <3>4
  <2>4. n = l
    <3>1. n <= l /\ ~(n < l)
      BY <2>2, <2>3
    <3> QED BY <3>1
  <2>5. order \in [1..l -> nodes] /\ \A i \in 1..l : order[i] = manual[i]
    BY <1>8, <2>2, <2>4
  <2> QED BY <2>1, <2>5
<1> QED BY <1>7, <1>10, <1>11

\* What PathKeepsPrerequisites asks of one path.
KeepsPrerequisites(path) ==
  LET edges == Sanitized(Graphs[path.graph])
      nodes == ToSet(path.order)
  IN /\ IsInjective(path.order)
     /\ path.ask.targets \subseteq nodes
     /\ \A e \in edges : e.to \in nodes /\ e.kind # "SUPPORTING" => e.from \in nodes
     /\ IsInOrder(path.order, edges)
     /\ ToSet(path.ask.manual) = nodes /\ IsInOrder(path.ask.manual, edges)
          => path.order = path.ask.manual

\* A plan has it, on any graph and for any request and ranking.
LEMMA PlanKeeps ==
  ASSUME NEW i \in 1..Len(Graphs), NEW ask \in Asks, NEW rank \in Rankings,
         Plannable(Graphs[i], ask),
         NEW x, x.graph = i, x.ask = ask, x.order = Plan(Graphs[i], ask, rank)
  PROVE  KeepsPrerequisites(x)
<1>1. PICK g : g = Graphs[i]
  OBVIOUS
<1>2. PICK edges : edges = Sanitized(g)
  OBVIOUS
<1>3. PICK nodes : nodes = SelectNodes(g, ask.targets)
  OBVIOUS
<1>4. PICK order : order = x.order
  OBVIOUS
<1>5. IsFiniteSet(g.active) /\ Acyclic(g.active, Pairs(g)) /\ g.active \subseteq Points
  BY <1>1, GraphsAssumption DEF Points
<1>6. /\ ask.targets \subseteq g.active /\ ask.manual \in Seq(Points)
      /\ IsInjective(ask.manual)
  BY <1>1, PlansAssumption DEF Plannable
<1>7. /\ nodes \subseteq g.active /\ ask.targets \subseteq nodes
      /\ \A e \in edges : e.to \in nodes /\ e.kind # "SUPPORTING" => e.from \in nodes
  BY <1>2, <1>3, <1>5, <1>6, SelectDoes
<1>8. Ranked(rank, nodes)
  BY <1>5, <1>7, PlansAssumption DEF Ranked, IsInjective
<1>9. PICK manual : manual = ask.manual
  OBVIOUS
<1>10. order = OrderedNodes(g, nodes, manual, rank)
  BY <1>1, <1>3, <1>4, <1>9 DEF Plan
<1>11. /\ Begun(nodes, edges, order) /\ ToSet(order) = nodes
       /\ Obeyable(manual, nodes, edges) => order = manual
  BY <1>2, <1>5, <1>6, <1>7, <1>8, <1>9, <1>10, OrderDoes
<1>12. IsInjective(order)
  BY <1>11 DEF Begun, IsInjective
<1>13. IsInOrder(order, edges)
  <2> SUFFICES ASSUME NEW j \in 1..Len(order), NEW k \in 1..Len(order),
                      NEW e \in edges, e.from = order[j], e.to = order[k]
               PROVE  j < k
    BY DEF IsInOrder
  <2>1. order[j] \in nodes
    BY <1>11 DEF Begun
  <2>2. PICK h \in 1..Len(order) : h < k /\ order[h] = e.from
    BY <1>11, <2>1 DEF Begun
  <2>3. h = j
    BY <1>11, <2>2 DEF Begun
  <2> QED BY <2>2, <2>3
<1>14. ToSet(manual) = nodes /\ IsInOrder(manual, edges) => order = manual
  BY <1>6, <1>9, <1>11 DEF Obeyable
<1> QED BY <1>1, <1>2, <1>4, <1>7, <1>9, <1>11, <1>12, <1>13, <1>14 DEF KeepsPrerequisites

\* The paths, and what a call carries towards one.
CallPlans(x) ==
  /\ x.at \in {"basis", "plan"} => x.graph \in 1..Len(Graphs)
  /\ x.at = "path" => KeepsPrerequisites(x.draft)

PathInv ==
  /\ \E T : paths \in Seq(T)
  /\ \A v \in 1..Len(paths) : KeepsPrerequisites(paths[v])
  /\ \A c \in Calls : CallPlans(call[c])

\* A call that moves on with something of the kind keeps it.
LEMMA PathGoes ==
  ASSUME PathInv, LearnerInv, NEW c \in Calls, NEW next, CallPlans(next),
         call' = [call EXCEPT ![c] = next],
         \/ UNCHANGED paths
         \/ paths' = Append(paths, call[c].draft) /\ call[c].at = "path"
  PROVE  PathInv'
<1>1. \A d \in Calls : call'[d] = IF d = c THEN next ELSE call[d]
  BY DEF LearnerInv, CallsOK
<1>2. \A d \in Calls : CallPlans(call'[d])
  BY <1>1 DEF PathInv
<1>3. CASE UNCHANGED paths
  BY <1>2, <1>3 DEF PathInv
<1>4. CASE paths' = Append(paths, call[c].draft) /\ call[c].at = "path"
  <2>1. PICK x : x = call[c].draft
    OBVIOUS
  <2>2. KeepsPrerequisites(x)
    BY <1>4, <2>1 DEF PathInv, CallPlans
  <2>3. PICK T : paths \in Seq(T)
    BY DEF PathInv
  <2>4. PICK U : U = T \union {x}
    OBVIOUS
  <2>5. paths \in Seq(U) /\ x \in U
    BY <2>3, <2>4
  <2>6. /\ paths' \in Seq(U) /\ Len(paths) \in Nat /\ Len(paths') = Len(paths) + 1
        /\ paths'[Len(paths) + 1] = x
        /\ \A v \in 1..(Len(paths) + 1) :
             v = Len(paths) + 1 \/ (v \in 1..Len(paths) /\ paths'[v] = paths[v])
    BY <1>4, <2>1, <2>5, AppendDoes
  <2>7. \A v \in 1..Len(paths') : KeepsPrerequisites(paths'[v])
    BY <2>2, <2>6 DEF PathInv
  <2> QED BY <1>2, <2>6, <2>7 DEF PathInv
<1> QED BY <1>3, <1>4

LEMMA PathNext ==
  ASSUME PathInv, LearnerInv, [Next]_vars
  PROVE  PathInv'
<1>1. CASE UNCHANGED vars
  BY <1>1 DEF vars, PathInv
<1>2. CASE Tick \/ AcceptGraph \/ \E e \in Events : Receive(e) \/ RecordBehaviorEvent(e)
  <2>1. UNCHANGED <<paths, call>>
    BY <1>2 DEF Tick, AcceptGraph, Receive, RecordBehaviorEvent, tables
  <2> QED BY <2>1 DEF PathInv
<1>3. ASSUME NEW c \in Calls, NEW next, Goes(c, next), CallPlans(next) PROVE PathInv'
  BY <1>3, PathGoes DEF Goes, tables
<1>4. ASSUME NEW c \in Calls, NEW op, NEW kind, NEW tag, NEW next,
             Starts(c, op, kind, tag, next), CallPlans(next)
      PROVE  PathInv'
  BY <1>4, PathGoes DEF Starts, tables
<1>5. ASSUME NEW c \in Calls, NEW op \in DOMAIN asked,
             \/ StartInitialize(c, op)
             \/ StartRebuild(c, op)
             \/ \E v \in 1..MaxCalls : StartRestore(c, op, v)
             \/ StartRefresh(c, op)
             \/ \E due \in SUBSET Points : StartRefreshDue(c, op, due)
             \/ StartPath(c, op)
      PROVE  PathInv'
  <2>1. graph \in 1..Len(Graphs)
    BY DEF LearnerInv, WorldOK
  <2>2. CASE StartInitialize(c, op)
    BY <1>4, <2>2 DEF StartInitialize, CallPlans
  <2>3. CASE StartRebuild(c, op)
    BY <1>4, <2>3 DEF StartRebuild, CallPlans
  <2>4. ASSUME NEW v \in 1..MaxCalls, StartRestore(c, op, v) PROVE PathInv'
    BY <1>4, <2>4 DEF StartRestore, CallPlans
  <2>5. CASE StartRefresh(c, op)
    BY <1>4, <2>5 DEF StartRefresh, CallPlans
  <2>6. ASSUME NEW due \in SUBSET Points, StartRefreshDue(c, op, due) PROVE PathInv'
    BY <1>4, <2>6 DEF StartRefreshDue, CallPlans
  <2>7. CASE StartPath(c, op)
    BY <1>4, <2>1, <2>7 DEF StartPath, CallPlans
  <2> QED BY <1>5, <2>2, <2>3, <2>4, <2>5, <2>6, <2>7
<1>6. ASSUME NEW c \in Calls,
             \/ ReadLatestProfile(c) \/ ReadCurrent(c) \/ ReadBasis(c) \/ Abandon(c)
             \/ ReadEvents(c) \/ ReadRestored(c) \/ ReadReviews(c)
      PROVE  PathInv'
  <2>1. CallPlans(call[c])
    BY DEF PathInv
  <2>2. ASSUME NEW next, Goes(c, next), next.at \notin {"basis", "plan", "path"}
        PROVE  PathInv'
    BY <1>3, <2>2 DEF CallPlans
  <2>3. CASE ReadLatestProfile(c)
    BY <2>2, <2>3 DEF ReadLatestProfile
  <2>4. CASE ReadCurrent(c)
    BY <2>2, <2>4 DEF ReadCurrent
  <2>5. CASE ReadBasis(c)
    BY <1>3, <2>1, <2>5 DEF ReadBasis, CallPlans, Busy
  <2>6. CASE Abandon(c)
    BY <2>2, <2>6 DEF Abandon, Idle
  <2>7. CASE ReadEvents(c)
    BY <2>2, <2>7 DEF ReadEvents
  <2>8. CASE ReadRestored(c)
    BY <2>2, <2>8 DEF ReadRestored
  <2>9. CASE ReadReviews(c)
    BY <2>2, <2>9 DEF ReadReviews
  <2> QED BY <1>6, <2>3, <2>4, <2>5, <2>6, <2>7, <2>8, <2>9
<1>7. ASSUME NEW c \in Calls, NEW ask \in Asks, NEW rank \in Rankings, PlanPath(c, ask, rank)
      PROVE  PathInv'
  <2>1. PICK i : i = call[c].graph
    OBVIOUS
  <2>2. i \in 1..Len(Graphs) /\ Plannable(Graphs[i], ask)
    BY <1>7, <2>1 DEF PathInv, CallPlans, PlanPath, Busy
  <2>3. PICK order : order = Plan(Graphs[i], ask, rank)
    OBVIOUS
  <2> DEFINE draft == [tag |-> Derived(call[c].op), graph |-> i, profile |-> call[c].profile,
                       ask |-> ask, order |-> order]
             next == [at |-> "path", op |-> call[c].op, parent |-> Len(paths), draft |-> draft]
  <2>4. Goes(c, next)
    BY <1>7, <2>1, <2>3 DEF PlanPath
  <2>5. next.at = "path" /\ next.draft = draft
    OBVIOUS
  <2>6. draft.graph = i /\ draft.ask = ask /\ draft.order = order
    OBVIOUS
  <2> HIDE DEF draft
  <2>7. KeepsPrerequisites(draft)
    BY <2>2, <2>3, <2>6, PlanKeeps
  <2> HIDE DEF next
  <2> QED BY <1>3, <2>4, <2>5, <2>7 DEF CallPlans
<1>8. ASSUME NEW c \in Calls, SaveInitialize(c) \/ SaveProfile(c) \/ SaveMemory(c) \/ SavePath(c)
      PROVE  PathInv'
  <2>1. CallPlans(Idle)
    BY DEF CallPlans, Idle
  <2>2. /\ call' = [call EXCEPT ![c] = Idle]
        /\ \/ UNCHANGED paths
           \/ paths' = Append(paths, call[c].draft) /\ call[c].at = "path"
    BY <1>8 DEF SaveInitialize, SaveProfile, SaveMemory, SavePath, AppendPath, Busy
  <2> QED BY <2>1, <2>2, PathGoes
<1> QED BY <1>1, <1>2, <1>5, <1>6, <1>7, <1>8 DEF Next

\* Every path that is ever saved leads through its targets and all they require,
\* each point once and after its prerequisites, and follows a manual order that
\* can be followed (generate_path, and the removal of nothing by sanitize_graph).
THEOREM PathsKeepPrerequisites == Spec => []PathKeepsPrerequisites
<1>1. Init => PathInv
  <2> SUFFICES ASSUME Init PROVE PathInv
    OBVIOUS
  <2>1. paths = <<>> /\ \A c \in Calls : call[c] = Idle
    BY DEF Init
  <2>2. paths \in Seq({}) /\ Len(paths) = 0
    BY <2>1
  <2> QED BY <2>1, <2>2 DEF PathInv, CallPlans, Idle
<1>2. LearnerInv /\ PathInv /\ [Next]_vars => PathInv'
  BY PathNext
<1>3. PathInv => PathKeepsPrerequisites
  BY DEF PathInv, PathKeepsPrerequisites, KeepsPrerequisites
<1> QED BY <1>1, <1>2, <1>3, InitHolds, NextKeeps, PTL DEF Spec
=============================================================================
