------------------------- MODULE VerificationStates -------------------------
(***************************************************************************)
(* The verification state machine of Topic 4                               *)
(* (domains/verification/state_machine.py) and the sequences of changes    *)
(* that one transaction appends (VerificationService._state_sequence).  A  *)
(* change is the latest row of the append-only state history: the state,   *)
(* its version and the revision round.                                     *)
(***************************************************************************)
EXTENDS Naturals

TerminalStates == {"RELEASED", "BLOCKED", "FAILED", "EXPIRED", "CANCELLED"}

Working == {"SNAPSHOT_VALIDATING", "CLAIM_EXTRACTING", "CLAIMS_READY",
            "MODULE_DISPATCHING", "VERIFYING", "AGGREGATING",
            "REVISION_PLANNING", "REVISION_WAITING", "REVERIFYING",
            "RELEASE_PENDING"}

VerificationStates ==
  TerminalStates \union Working \union {"ACCEPTED", "REVIEW_REQUIRED"}

MaxRounds == 2

\* Where a state goes when nothing goes wrong.
Forward(state) ==
  CASE state = "ACCEPTED" -> {"SNAPSHOT_VALIDATING"}
    [] state = "SNAPSHOT_VALIDATING" -> {"CLAIM_EXTRACTING"}
    [] state = "CLAIM_EXTRACTING" -> {"CLAIMS_READY"}
    [] state = "CLAIMS_READY" -> {"MODULE_DISPATCHING"}
    [] state = "MODULE_DISPATCHING" -> {"VERIFYING"}
    [] state = "VERIFYING" -> {"AGGREGATING"}
    [] state = "AGGREGATING" -> {"RELEASE_PENDING", "REVISION_PLANNING"}
    [] state = "REVISION_PLANNING" -> {"REVISION_WAITING"}
    [] state = "REVISION_WAITING" -> {"REVERIFYING"}
    [] state = "REVERIFYING" -> {"SNAPSHOT_VALIDATING"}
    [] state = "RELEASE_PENDING" -> {"RELEASED"}
    [] state = "REVIEW_REQUIRED" -> {"RELEASE_PENDING", "REVISION_PLANNING"}
    [] OTHER -> {}

\* ALLOWED_TRANSITIONS
Allowed(state) ==
  Forward(state) \union
    CASE state = "ACCEPTED" -> {"CANCELLED", "EXPIRED", "FAILED"}
      [] state = "REVIEW_REQUIRED" -> {"BLOCKED", "EXPIRED", "CANCELLED"}
      [] state \in Working -> {"REVIEW_REQUIRED", "BLOCKED", "EXPIRED",
                               "FAILED", "CANCELLED"}
      [] OTHER -> {}

Change == [state: VerificationStates, version: Nat, round: 0..MaxRounds]

MayTransition(change, target) ==
  /\ change.state \notin TerminalStates
  /\ target \in Allowed(change.state)
  /\ target = "REVISION_PLANNING" => change.round < MaxRounds
  /\ ~(change.state = "REVERIFYING" /\ change.round = 0)

Transitioned(change, target) ==
  [state |-> target,
   version |-> change.version + 1,
   round |-> change.round + (IF target = "REVISION_PLANNING" THEN 1 ELSE 0)]

\* _state_sequence appends its changes one after the other: all of them are
\* legal, or the transaction fails.
MayPass(change, first, second) ==
  /\ MayTransition(change, first)
  /\ MayTransition(Transitioned(change, first), second)

Passed(change, first, second) ==
  Transitioned(Transitioned(change, first), second)

=============================================================================
