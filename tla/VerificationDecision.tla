------------------------ MODULE VerificationDecision ------------------------
(***************************************************************************)
(* What a persisted module execution amounts to: the aggregation policy of *)
(* domains/verification/aggregation.py, over what BoundedModuleExecutor    *)
(* can hand to it, and the states its decisions and those of a human       *)
(* reviewer lead to.                                                       *)
(***************************************************************************)
EXTENDS PolicyVerifiers

Verdicts == {"SUPPORTED", "PARTIALLY_SUPPORTED", "CONTRADICTED",
             "INSUFFICIENT_EVIDENCE", "NOT_APPLICABLE", "UNSAFE", "ERROR"}

Decisions ==
  {"RELEASE", "RELEASE_WITH_DISCLOSURE", "REVISE", "REVIEW_REQUIRED", "BLOCK"}

\* A bundle gives the results of the modules of every claim, MISSING where
\* there is none.
Found(b, c) == {b[c][m] : m \in DOMAIN b[c]} \ {"MISSING"}

Incomplete(b, c) == \E m \in DOMAIN b[c] : b[c][m] = "MISSING"

\* _claim_verdict has something to work on for every claim; otherwise
\* AggregationError.
Aggregable(b) == \A c \in DOMAIN b : Found(b, c) # {}

\* _resolve_verdict
ResolveVerdict(found, missing) ==
  IF "UNSAFE" \in found THEN "UNSAFE"
  ELSE IF "ERROR" \in found \/ missing THEN "ERROR"
  ELSE IF "CONTRADICTED" \in found THEN "CONTRADICTED"
  ELSE IF "INSUFFICIENT_EVIDENCE" \in found THEN "INSUFFICIENT_EVIDENCE"
  ELSE IF "PARTIALLY_SUPPORTED" \in found THEN "PARTIALLY_SUPPORTED"
  ELSE IF found = {"NOT_APPLICABLE"} THEN "NOT_APPLICABLE"
  ELSE "SUPPORTED"

ClaimVerdict(b, c) == ResolveVerdict(Found(b, c), Incomplete(b, c))

NonWaivable == {"C9", "C10", "C11"}

NonWaivableFinding(b, c) ==
  \/ ClaimVerdict(b, c) = "UNSAFE"
  \/ \E m \in NonWaivable : b[c][m] \in {"UNSAFE", "CONTRADICTED"}

\* _candidate_decision and _decision; risk maps claims to their levels.
Decision(b, risk, round) ==
  LET is(verdicts) == \E c \in DOMAIN b : ClaimVerdict(b, c) \in verdicts
      again == IF round < 2 THEN "REVISE" ELSE "REVIEW_REQUIRED"
      partial == {c \in DOMAIN b : ClaimVerdict(b, c) = "PARTIALLY_SUPPORTED"}
  IN  IF \E c \in DOMAIN b : NonWaivableFinding(b, c) THEN "BLOCK"
      ELSE IF \E c \in DOMAIN b :
                /\ risk[c] = "CRITICAL"
                /\ ClaimVerdict(b, c) \notin {"SUPPORTED", "NOT_APPLICABLE"}
        THEN "REVIEW_REQUIRED"
      ELSE IF is({"CONTRADICTED", "INSUFFICIENT_EVIDENCE", "ERROR"}) THEN again
      ELSE IF partial = {} THEN "RELEASE"
      ELSE IF \A c \in partial : risk[c] \in {"LOW", "MEDIUM"}
        THEN "RELEASE_WITH_DISCLOSURE"
      ELSE again

DecisionTarget(decision) ==
  CASE decision \in {"RELEASE", "RELEASE_WITH_DISCLOSURE"} -> "RELEASE_PENDING"
    [] decision = "REVISE" -> "REVISION_PLANNING"
    [] decision = "REVIEW_REQUIRED" -> "REVIEW_REQUIRED"
    [] OTHER -> "BLOCKED"

Reviews == {"APPROVE", "APPROVE_WITH_DISCLOSURE", "REVISE", "BLOCK"}

ReviewDecisionTarget(review) ==
  CASE review \in {"APPROVE", "APPROVE_WITH_DISCLOSURE"} -> "RELEASE_PENDING"
    [] review = "REVISE" -> "REVISION_PLANNING"
    [] OTHER -> "BLOCKED"

\* The decision a release mode stands for.
ModeDecision(mode) ==
  IF mode = "FULL" THEN "RELEASE" ELSE "RELEASE_WITH_DISCLOSURE"

=============================================================================
