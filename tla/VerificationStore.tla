-------------------------- MODULE VerificationStore --------------------------
(***************************************************************************)
(* The Topic 4 tables of one verification and one authorization, as        *)
(* PostgresVerificationRepository (domains/verification) and               *)
(* PostgresAtomicReleaseRepository (domains/release) append to them and    *)
(* the migrations constrain them.  Every table is append-only: a trigger   *)
(* refuses updates, so what counts is the latest row, and a row that would *)
(* repeat a unique key makes its whole transaction fail.                   *)
(***************************************************************************)
EXTENDS VerificationStates, VerificationDecision

CONSTANT NoAnswer   \* nothing: no bundle, no risk, no process

\* topic4_verifications and topic4_verification_states: the latest state.
Absent == [state |-> "NONE", version |-> 0, round |-> 0]

StateRows == Change \union {Absent}

\* topic4_claims and topic4_claim_risks
RiskRows(claims) == [claims -> RiskLevels] \union {NoAnswer}

\* topic4_module_runs and topic4_module_results
ModuleRows(bundles) == bundles \union {NoAnswer}

\* topic4_claim_verdicts, topic4_aggregation_results and the report of it
ReportRows == Decisions \union {"NONE"}

\* topic4_human_review_tasks and topic4_human_review_decisions
ReviewRows == {"NONE", "OPEN", "DECIDED"}

NoResult == [risk |-> NoAnswer, bundle |-> NoAnswer, decision |-> "NONE",
             task |-> "NONE", packages |-> {}]

Modes == {"FULL", "DISCLOSED"}

\* topic4_release_authorizations, topic4_release_authorization_consumptions
AuthorizationRows == {"issued", "consumed"}

-----------------------------------------------------------------------------
\* Appends

AppendVerification(states, v) ==
  [states EXCEPT ![v] = [state |-> "ACCEPTED", version |-> 1, round |-> 0]]

AppendState(states, v, change) == [states EXCEPT ![v] = change]

\* append_claims, append_risks and append_dispatch_plan
AppendRisks(row, risk) == [row EXCEPT !.risk = risk]

\* append_module_runs and append_module_results
AppendModuleRuns(row, bundle) == [row EXCEPT !.bundle = bundle]

\* append_claim_verdicts, append_aggregation and append_report
AppendReport(row, decision) == [row EXCEPT !.decision = decision]

AppendReviewTask(row, needed) ==
  IF needed THEN [row EXCEPT !.task = "OPEN"] ELSE row

AppendReviewDecision(row) == [row EXCEPT !.task = "DECIDED"]

\* The latest snapshot of the review task takes a decision once.
ReviewOpen(row) == row.task = "OPEN"

\* One set of claims, runs and risks per verification.
Unprepared(row) == row.risk = NoAnswer

Unverified(row) == row.bundle = NoAnswer

\* The non-waivable findings submit_human_review looks for.
NonWaivableResult(row) ==
  /\ row.bundle # NoAnswer
  /\ \E c \in DOMAIN row.bundle, m \in NonWaivable :
       row.bundle[c][m] \in {"UNSAFE", "CONTRADICTED"}

\* _validate_persisted_release_authority: the mode stands for the decision of
\* the persisted report and aggregation.
ReleaseAuthority(row, mode) == row.decision = ModeDecision(mode)

\* One authorization per report.
AuthorizationFree(rows, v) == \A r \in rows : r.v # v

=============================================================================
