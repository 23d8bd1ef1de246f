-------------------------- MODULE PolicyVerifiers --------------------------
(***************************************************************************)
(* What one module of a dispatch plan says of one claim.  C2 retrieves the *)
(* passages the others work on (C2RetrievalHandler of                      *)
(* domains/verification/runtime.py); C3 to C7 judge the claim; C9 looks    *)
(* for threats (domains/security) and C10 for personal data                *)
(* (domains/privacy) in the whole candidate; C11 audits the supply chain   *)
(* of code (domains/compliance).  A module that has no handler, times out  *)
(* twice or cannot write its artifact leaves no result (execution.py).     *)
(***************************************************************************)
EXTENDS ClaimControl, AcademicVerifier, ResourceVerifiers

CONSTANTS MaxMatches,      \* max_matches of the two detectors
          MaxStringLength  \* max_string_length, characters of one string

ASSUME DetectorAssumption ==
  /\ MaxMatches \in Nat \ {0}
  /\ MaxStringLength \in Nat \ {0}

\* What the retrieval of a claim comes to: a search, perhaps degraded; a
\* search that failed, so that no evidence bundle is stored; an exception; a
\* locale C2 does not serve.
Retrievals == {"SUCCEEDED", "DEGRADED", "FAILED", "RAISED", "LOCALE"}

Searched(retrieval) == retrieval \in {"SUCCEEDED", "DEGRADED"}

\* The passages a module finds for its claim.
EvidenceOf(block, retrieval) ==
  IF Searched(retrieval) THEN block.passages ELSE << >>

\* C2RetrievalHandler.verify
RetrievalVerdict(retrieval, evidence) ==
  IF retrieval = "LOCALE" THEN "UNSAFE"
  ELSE IF retrieval = "RAISED" THEN "ERROR"
  ELSE IF evidence = << >> \/ retrieval = "FAILED" THEN "INSUFFICIENT_EVIDENCE"
  ELSE IF retrieval = "DEGRADED" THEN "PARTIALLY_SUPPORTED"
  ELSE "SUPPORTED"

\* The vertical module of a claim.  The Topic 1 snapshot comes with the
\* stored evidence bundle: without one C4 to C7 stop before they parse.
VerticalVerdict(block, retrieval, snapshot) ==
  LET kind == ClaimKind(block)
      evidence == EvidenceOf(block, retrieval)
  IN  IF kind \in {"TEXT", "FORMULA"} THEN AcademicVerdict(block.says, evidence)
      ELSE IF ~Searched(retrieval) THEN "INSUFFICIENT_EVIDENCE"
      ELSE IF kind = "GRAPH" THEN GraphVerdict(block.says, snapshot, evidence)
      ELSE IF kind = "QUIZ" THEN QuizVerdict(block.says, snapshot, evidence)
      ELSE IF kind = "CODE" THEN CodeVerdict(block.says, evidence)
      ELSE ExtensionVerdict(block.says, snapshot, evidence)

-----------------------------------------------------------------------------
\* What C9 and C10 can find.  A block lies in one string of the candidate;
\* "string" is the place of that string on the walk, and blocks of a long
\* string share it.  A finding [is, at] is a pattern the text shows when its
\* first "at" characters are read; a value under a key that names personal
\* data is one finding and hides the others.

\* value[:max_string_length]
Legible(finding) == finding.at <= MaxStringLength

\* Every pattern counts once per string.
SeenIn(content, findings, string) ==
  UNION {{f.is : f \in {g \in findings[b] : Legible(g)}} :
           b \in {d \in DOMAIN content : content[d].string = string}}

MatchesBefore(content, findings, string) ==
  UNION {{r} \X SeenIn(content, findings, r) :
           r \in {content[b].string : b \in DOMAIN content} \intersect 0..(string - 1)}

\* The walk ends before a string once there are max_matches.
Reached(content, findings, string) ==
  Cardinality(MatchesBefore(content, findings, string)) < MaxMatches

Detected(content, findings) ==
  UNION {SeenIn(content, findings, content[b].string) :
           b \in {d \in DOMAIN content :
                    Reached(content, findings, content[d].string)}}

ThreatsOf(content) == [b \in DOMAIN content |-> content[b].threats]

PersonalOf(content) == [b \in DOMAIN content |-> content[b].personal]

\* DeterministicSecurityDetector.scan walks every string of the candidate,
\* those that make no claim too.
Threats(content) == Detected(content, ThreatsOf(content))

\* C9SecurityHandler.verify
SecurityVerdict(content, evidence) ==
  IF evidence = << >> THEN "INSUFFICIENT_EVIDENCE"
  ELSE IF Threats(content) # {} THEN "UNSAFE"
  ELSE "SUPPORTED"

\* DeterministicPIIDetector.scan and _action
PersonalData(content) == Detected(content, PersonalOf(content))

BlockedTypes == {"NATIONAL_ID", "BIOMETRIC", "CREDENTIAL"}

\* C10PrivacyHandler.verify and _privacy_result
PrivacyVerdict(content, evidence) ==
  IF evidence = << >> THEN "INSUFFICIENT_EVIDENCE"
  ELSE IF PersonalData(content) \intersect BlockedTypes # {} THEN "UNSAFE"
  ELSE IF PersonalData(content) # {} THEN "PARTIALLY_SUPPORTED"
  ELSE "SUPPORTED"

-----------------------------------------------------------------------------
\* C11.  A package is what was imported for the code of a claim: its components
\* (licences, whether internal), vulnerabilities, provenance and expiry.

AllowedLicences ==
  {"0BSD", "APACHE-2.0", "BSD-2-CLAUSE", "BSD-3-CLAUSE", "ISC", "MIT",
   "MPL-2.0", "PSF-2.0", "UNICODE-3.0", "ZLIB"}

\* _audit finds nothing.  The packages of the project itself need no licence.
AuditClean(claim, package) ==
  LET components == package.components
  IN  /\ \A f \in claim.files : f.imports \subseteq DOMAIN components
      /\ \A name \in DOMAIN components :
           \/ components[name].internal
           \/ /\ components[name].licences # {}
              /\ components[name].licences \subseteq AllowedLicences
      /\ \A v \in package.vulnerabilities :
           /\ ~(v.status = "OPEN" /\ v.severity \in {"HIGH", "CRITICAL"})
           /\ ~(v.status = "ACCEPTED_RISK" /\ ~v.waivable)
      /\ components # << >>
      /\ package.reproducible

\* ComplianceEvidenceService.load wants the persisted C6 result of the same
\* claim and a package that has not expired; C11ComplianceHandler.verify.
ComplianceVerdict(block, codeResult, packages, evidence) ==
  IF ClaimKind(block) # "CODE" THEN "NOT_APPLICABLE"
  ELSE IF ~codeResult THEN "UNSAFE"
  ELSE IF ~(\E p \in packages : ~p.expired) THEN "UNSAFE"
  ELSE IF evidence = << >> THEN "INSUFFICIENT_EVIDENCE"
  ELSE IF \A p \in packages : AuditClean(block.says, p) THEN "SUPPORTED"
  ELSE "UNSAFE"

-----------------------------------------------------------------------------
\* BoundedModuleExecutor: the fate of an item beside its handler's verdict.

Fates == {"answers", "refuses", "fails", "silent"}

\* A binding or integrity check that fails is a ValueError and UNSAFE, any
\* other exception an ERROR.
FatedVerdict(fate, verdict) ==
  CASE fate = "answers" -> verdict
    [] fate = "refuses" -> "UNSAFE"
    [] fate = "fails" -> "ERROR"
    [] OTHER -> "MISSING"

ModuleVerdict(m, content, c, retrieval, snapshot, codeResult, packages) ==
  LET block == content[c]
      evidence == EvidenceOf(block, retrieval)
  IN  CASE m = "C2" -> RetrievalVerdict(retrieval, evidence)
        [] m = "C9" -> SecurityVerdict(content, evidence)
        [] m = "C10" -> PrivacyVerdict(content, evidence)
        [] m = "C11" -> ComplianceVerdict(block, codeResult, packages, evidence)
        [] OTHER -> VerticalVerdict(block, retrieval, snapshot)

\* The results of the items of one claim, in the waves of the plan: C2 first,
\* and without its result the others are skipped.
ItemResults(fates, judged) ==
  [m \in DOMAIN judged |->
     IF fates["C2"] = "silent" THEN "MISSING"
                               ELSE FatedVerdict(fates[m], judged[m])]

=============================================================================
