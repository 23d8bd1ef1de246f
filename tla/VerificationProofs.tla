------------------------- MODULE VerificationProofs -------------------------
(***************************************************************************)
(* Theorems about VerificationRuntime, for any processes, candidates,      *)
(* contents, snapshot, authorizations and number of faults.                *)
(***************************************************************************)
EXTENDS VerificationRuntime, FiniteSetTheorems, SequenceTheorems,
        WellFoundedInduction, TLAPS

-----------------------------------------------------------------------------
\* What the verdict of a module means

\* Any verdicts have a worst one.
LEMMA WorstPresent ==
  ASSUME NEW present, present \subseteq 1..7, present # {}
  PROVE  \E n \in present : \A k \in present : n <= k
<1>1. CASE 1 \in present
  BY <1>1
<1>2. CASE 1 \notin present /\ 2 \in present
  BY <1>2
<1>3. CASE present \intersect 1..2 = {} /\ 3 \in present
  BY <1>3
<1>4. CASE present \intersect 1..3 = {} /\ 4 \in present
  BY <1>4
<1>5. CASE present \intersect 1..4 = {} /\ 5 \in present
  BY <1>5
<1>6. CASE present \intersect 1..5 = {} /\ 6 \in present
  BY <1>6
<1>7. CASE present \intersect 1..6 = {}
  <2>1. \A n \in present : n = 7
    BY <1>7
  <2>2. 7 \in present
    BY <2>1
  <2>3. QED
    BY <2>1, <2>2
<1>8. QED
  BY <1>1, <1>2, <1>3, <1>4, <1>5, <1>6, <1>7

\* No finding is worse than the strictest of them.
LEMMA StrictestOf ==
  ASSUME NEW S, StrictestVerdict(S) \in {"SUPPORTED", "PARTIALLY_SUPPORTED",
                                         "NOT_APPLICABLE"}
  PROVE  {"UNSAFE", "CONTRADICTED", "ERROR", "INSUFFICIENT_EVIDENCE"} \intersect S = {}
<1> DEFINE present == {n \in DOMAIN Severity : Severity[n] \in S}
<1>1. DOMAIN Severity = 1..7
  BY DEF Severity
<1>2. SUFFICES ASSUME \E n \in 1..4 : n \in present
               PROVE  FALSE
  BY <1>1 DEF Severity
<1>3. PICK least \in present : \A k \in present : least <= k
  BY <1>1, <1>2, WorstPresent
<1>4. least \in 1..4
  BY <1>1, <1>2, <1>3
<1>5. (CHOOSE n \in present : \A k \in present : n <= k) = least
  BY <1>1, <1>3
<1>6. StrictestVerdict(S) = Severity[least]
  BY <1>3, <1>5 DEF StrictestVerdict
<1>7. QED
  BY <1>4, <1>6 DEF Severity

\* Every module answers with a verdict.
LEMMA VerdictsOfModules ==
  ASSUME NEW m, NEW content, NEW c, NEW retrieval, NEW codeResult, NEW packages
  PROVE  ModuleVerdict(m, content, c, retrieval, Snapshot, codeResult, packages)
           \in Verdicts
<1>1. \A evidence : RetrievalVerdict(retrieval, evidence) \in Verdicts
  BY DEF RetrievalVerdict, Verdicts
<1>2. \A evidence : SecurityVerdict(content, evidence) \in Verdicts
  BY DEF SecurityVerdict, Verdicts
<1>3. \A evidence : PrivacyVerdict(content, evidence) \in Verdicts
  BY DEF PrivacyVerdict, Verdicts
<1>4. \A block, evidence :
        ComplianceVerdict(block, codeResult, packages, evidence) \in Verdicts
  BY DEF ComplianceVerdict, Verdicts
<1>5. \A S : StrictestVerdict(S) \in Verdicts
  <2> TAKE S
  <2> DEFINE present == {n \in DOMAIN Severity : Severity[n] \in S}
  <2>1. DOMAIN Severity = 1..7 /\ \A n \in 1..7 : Severity[n] \in Verdicts
    BY DEF Severity, Verdicts
  <2>2. CASE present = {}
    BY <2>2 DEF StrictestVerdict, Verdicts
  <2>3. CASE present # {}
    <3>1. PICK least \in present : \A k \in present : least <= k
      BY <2>1, <2>3, WorstPresent
    <3>2. (CHOOSE n \in present : \A k \in present : n <= k) \in present
      BY <3>1
    <3>3. QED
      BY <2>1, <2>3, <3>2 DEF StrictestVerdict
  <2>4. QED
    BY <2>2, <2>3
<1>6. \A claim, evidence : AcademicVerdict(claim, evidence) \in Verdicts
  BY <1>5 DEF AcademicVerdict, Verdicts
<1>7. \A claim, evidence : GraphVerdict(claim, Snapshot, evidence) \in Verdicts
  BY DEF GraphVerdict, MindMapVerdict, Verdicts
<1>8. \A claim, evidence : QuizVerdict(claim, Snapshot, evidence) \in Verdicts
  BY DEF QuizVerdict, QuestionVerdict, Verdicts
<1>9. \A claim, evidence : CodeVerdict(claim, evidence) \in Verdicts
  BY DEF CodeVerdict, CodeResult, Verdicts
<1>10. \A claim, evidence : ExtensionVerdict(claim, Snapshot, evidence) \in Verdicts
  BY DEF ExtensionVerdict, ResourceVerdict, Verdicts
<1>11. \A block : VerticalVerdict(block, retrieval, Snapshot) \in Verdicts
  BY <1>6, <1>7, <1>8, <1>9, <1>10 DEF VerticalVerdict, Verdicts
<1>12. QED
  BY <1>1, <1>2, <1>3, <1>4, <1>11 DEF ModuleVerdict

\* The verdicts nothing is released on.
Bad == {"MISSING", "UNSAFE", "ERROR", "CONTRADICTED", "INSUFFICIENT_EVIDENCE"}

\* A releasing decision means that no module found anything against its claim,
\* and that it disclosed what is only partly supported.
LEMMA ReleasingDecision ==
  ASSUME NEW b, NEW risk, NEW round, NEW mode \in Modes,
         Decision(b, risk, round) = ModeDecision(mode),
         NEW c \in DOMAIN b, NEW m \in DOMAIN b[c]
  PROVE  /\ b[c][m] \notin Bad
         /\ b[c][m] = "PARTIALLY_SUPPORTED" =>
              mode = "DISCLOSED" /\ risk[c] \in {"LOW", "MEDIUM"}
<1> DEFINE verdict == ClaimVerdict(b, c)
           partial == {d \in DOMAIN b : ClaimVerdict(b, d) = "PARTIALLY_SUPPORTED"}
<1>1. ModeDecision(mode) = IF mode = "FULL" THEN "RELEASE"
                                            ELSE "RELEASE_WITH_DISCLOSURE"
  BY DEF ModeDecision
<1>2. ~NonWaivableFinding(b, c)
  BY <1>1 DEF Decision
<1>3. verdict \notin {"CONTRADICTED", "INSUFFICIENT_EVIDENCE", "ERROR"}
  BY <1>1 DEF Decision
<1>4. /\ partial = {} \/ \A d \in partial : risk[d] \in {"LOW", "MEDIUM"}
      /\ partial = {} <=> mode = "FULL"
  BY <1>1 DEF Decision, Modes
<1>5. verdict # "UNSAFE"
  BY <1>2 DEF NonWaivableFinding
<1>6. b[c][m] # "MISSING"
  BY <1>3, <1>5 DEF ClaimVerdict, ResolveVerdict, Incomplete
<1>7. b[c][m] \in Found(b, c)
  BY <1>6 DEF Found
<1>8. b[c][m] \notin Bad
  BY <1>3, <1>5, <1>6, <1>7 DEF ClaimVerdict, ResolveVerdict, Bad
<1>9. ASSUME b[c][m] = "PARTIALLY_SUPPORTED"
      PROVE  verdict = "PARTIALLY_SUPPORTED"
  BY <1>3, <1>5, <1>7, <1>9 DEF ClaimVerdict, ResolveVerdict
<1>10. QED
  BY <1>4, <1>8, <1>9 DEF Modes

LEMMA Scaled ==
  \A a, b, x, y \in Int : a # 0 /\ x = 0 /\ a * y = x * b => y = 0
OBVIOUS

LEMMA SignProduct ==
  \A x, y \in Int : x * y >= 0 /\ (x = 0 <=> y = 0) =>
                      (x > 0 <=> y > 0) /\ (x < 0 <=> y < 0)
OBVIOUS

\* Equations and inequalities that compare as equivalent agree wherever they
\* are evaluated, sampled or not.
LEMMA EquivalentAgree ==
  ASSUME NEW points, NEW p \in points,
         NEW f, f.at \in [points -> Int], f.relation \in Relations,
         NEW g, g.at \in [points -> Int], g.relation \in Relations,
         Equivalent(f, g), f.relation # "none"
  PROVE  RelationTruth(f.relation, f.at[p]) <=> RelationTruth(g.relation, g.at[p])
<1>1. SymbolicEquivalence(f, g) = "yes" /\ f.relation = g.relation
  BY DEF Equivalent, NumericEquivalence, SymbolicEquivalence
<1>2. CASE f.at = g.at
  BY <1>1, <1>2
<1>3. CASE f.at # g.at
  <2>1. /\ ~Vanishes(f) /\ ~Vanishes(g) /\ Proportional(f, g)
        /\ f.relation = "=" \/ SameSign(f, g)
    BY <1>1, <1>3 DEF SymbolicEquivalence, SameResidual
  <2>2. DOMAIN f.at = points /\ DOMAIN g.at = points
    OBVIOUS
  <2>3. PICK q \in points : f.at[q] # 0
    BY <2>1, <2>2 DEF Vanishes
  <2>4. PICK r \in points : g.at[r] # 0
    BY <2>1, <2>2 DEF Vanishes
  <2> DEFINE x == f.at[p]
             y == g.at[p]
  <2>5. /\ x \in Int /\ y \in Int /\ f.at[q] \in Int /\ g.at[r] \in Int
        /\ f.at[q] * y = x * g.at[q] /\ g.at[r] * x = y * f.at[r]
        /\ g.at[q] \in Int /\ f.at[r] \in Int
    BY <2>1, <2>2 DEF Proportional
  <2> HIDE DEF x, y
  <2>6. x = 0 => y = 0
    BY <2>3, <2>5, Scaled
  <2>7. y = 0 => x = 0
    BY <2>4, <2>5, Scaled
  <2>8. CASE f.relation = "="
    BY <1>1, <2>5, <2>6, <2>7, <2>8 DEF RelationTruth, x, y
  <2>9. CASE SameSign(f, g)
    <3>1. x * y >= 0
      BY <2>2, <2>9 DEF SameSign, x, y
    <3>2. (x > 0 <=> y > 0) /\ (x < 0 <=> y < 0)
      BY <2>5, <2>6, <2>7, <3>1, SignProduct
    <3>3. QED
      BY <1>1, <2>5, <2>6, <2>7, <3>2 DEF RelationTruth, Relations, x, y
  <2>10. QED
    BY <2>1, <2>8, <2>9
<1>4. QED
  BY <1>2, <1>3

\* A claim C3 does not object to has a sound derivation.
LEMMA AcademicSound ==
  ASSUME NEW claim, NEW evidence, Derivation(claim.formulas),
         AcademicVerdict(claim, evidence)
           \in {"SUPPORTED", "PARTIALLY_SUPPORTED", "NOT_APPLICABLE"},
         NEW n \in 1..(Len(claim.formulas) - 1),
         claim.formulas[n].relation # "none",
         NEW p \in DOMAIN claim.formulas[n].at
  PROVE  RelationTruth(claim.formulas[n].relation, claim.formulas[n].at[p])
           <=> RelationTruth(claim.formulas[n + 1].relation,
                             claim.formulas[n + 1].at[p])
<1> DEFINE steps == claim.formulas
           points == DOMAIN steps[1].at
<1>1. CASE steps = << >>
  BY <1>1
<1>2. CASE steps # << >>
  <2>1. steps \in FormulasOn(points) /\ Len(steps) \in Nat
    BY <1>2 DEF Derivation, FormulasOn
  <2>2. FormulaVerdict(claim, evidence)
          \notin {"CONTRADICTED", "INSUFFICIENT_EVIDENCE"}
    <3> DEFINE S == {FormulaVerdict(claim, evidence), FactVerdict(evidence),
                     NumericVerdict(claim, evidence), StabilityVerdict(claim),
                     TheoremVerdict(claim, evidence)}
    <3>1. StrictestVerdict(S) \in {"SUPPORTED", "PARTIALLY_SUPPORTED",
                                   "NOT_APPLICABLE"}
      BY DEF AcademicVerdict
    <3>2. {"UNSAFE", "CONTRADICTED", "ERROR", "INSUFFICIENT_EVIDENCE"}
            \intersect S = {}
      BY <3>1, StrictestOf
    <3>3. QED
      BY <3>2
  <2>3. Equivalent(steps[n], steps[n + 1])
    BY <1>2, <2>2 DEF FormulaVerdict, DerivationVerdict
  <2>4. /\ n \in 1..Len(steps) /\ n + 1 \in 1..Len(steps)
    BY <2>1
  <2>5. /\ steps[n].at \in [points -> Int] /\ steps[n].relation \in Relations
        /\ steps[n + 1].at \in [points -> Int] /\ steps[n + 1].relation \in Relations
    <3>1. \A i \in 1..Len(steps) :
            steps[i].at \in [points -> Int] /\ steps[i].relation \in Relations
      <4> DEFINE F == [relation: Relations, at: [points -> Int],
                       samples: SUBSET (points \intersect Assignments),
                       applied: BOOLEAN, symbols: SUBSET STRING]
      <4> HIDE DEF points
      <4>1. steps \in Seq(F)
        BY <2>1 DEF FormulasOn
      <4>2. \A x \in F : x.at \in [points -> Int] /\ x.relation \in Relations
        OBVIOUS
      <4> HIDE DEF F
      <4> QED BY <4>1, <4>2, ElementOfSeq
    <3> QED BY <2>4, <3>1
  <2>6. p \in points
    BY <2>5
  <2>7. PICK f, g : f = steps[n] /\ g = steps[n + 1]
    OBVIOUS
  <2>8. f.relation # "none"
    BY <2>7
  <2>9. RelationTruth(f.relation, f.at[p]) <=> RelationTruth(g.relation, g.at[p])
    <3>1. /\ f.at \in [points -> Int] /\ f.relation \in Relations
          /\ g.at \in [points -> Int] /\ g.relation \in Relations
          /\ Equivalent(f, g)
      BY <2>3, <2>5, <2>7
    <3> HIDE DEF points
    <3>2. QED
      BY <3>1, <2>6, <2>8, EquivalentAgree
  <2>10. QED
    BY <2>7, <2>9
<1>3. QED
  BY <1>1, <1>2

\* A detector that finds nothing has walked to the end: the first string with
\* something legible in it would have been reached.
LEMMA NothingDetected ==
  ASSUME NEW content, NEW findings, Detected(content, findings) = {},
         \A b \in DOMAIN content : content[b].string \in Nat,
         NEW b \in DOMAIN content, NEW f \in findings[b]
  PROVE  ~Legible(f)
<1> SUFFICES ASSUME Legible(f) PROVE FALSE
  OBVIOUS
<1> DEFINE seen(r) == SeenIn(content, findings, r)
           strings == {content[d].string : d \in DOMAIN content}
           T == {r \in strings : seen(r) # {}}
<1>1. content[b].string \in T
  <2>1. f.is \in seen(content[b].string)
    BY DEF SeenIn
  <2> QED BY <2>1
<1>2. PICK s \in T : s \in Nat /\ \A r \in T : ~(r < s)
  <2> DEFINE R == {x \in Nat \X Nat : x[1] < x[2]}
  <2>1. T \subseteq Nat /\ T # {}
    BY <1>1
  <2>2. IsWellFoundedOn(R, Nat)
    BY NatLessThanWellFounded, Zenon DEF OpToRel
  <2> HIDE DEF T
  <2>3. PICK s \in T : \A r \in T : ~(<<r, s>> \in R)
    <3> HIDE DEF R
    <3> QED BY <2>1, <2>2, WFMin
  <2>4. \A r \in T : ~(r < s)
    BY <2>1, <2>3
  <2> QED BY <2>1, <2>3, <2>4
<1>3. \A r \in strings \intersect 0..(s - 1) : SeenIn(content, findings, r) = {}
  <2> TAKE r \in strings \intersect 0..(s - 1)
  <2>1. r < s
    BY <1>2
  <2> QED BY <1>2, <2>1
<1>4. MatchesBefore(content, findings, s) = {}
  <2> HIDE DEF T, seen
  <2> QED BY <1>3 DEF MatchesBefore
<1>5. Reached(content, findings, s)
  <2>1. Cardinality(MatchesBefore(content, findings, s)) = 0
    BY <1>4, FS_EmptySet, Zenon
  <2>2. 0 < MaxMatches
    BY DetectorAssumption
  <2> QED BY <2>1, <2>2 DEF Reached
<1>6. SeenIn(content, findings, s) \subseteq Detected(content, findings)
  <2>1. PICK d \in DOMAIN content : s = content[d].string
    BY <1>2
  <2> QED BY <1>5, <2>1 DEF Detected
<1>7. QED
  BY <1>2, <1>6

\* What is legible in a string it reaches is detected.
LEMMA ReachedIsDetected ==
  ASSUME NEW content, NEW findings, NEW b \in DOMAIN content, NEW f \in findings[b],
         Reached(content, findings, content[b].string), Legible(f)
  PROVE  f.is \in Detected(content, findings)
<1>1. f.is \in SeenIn(content, findings, content[b].string)
  BY DEF SeenIn
<1>2. QED
  BY <1>1 DEF Detected

\* What a bundle says of a claim, unless a module did not answer.
Judged(k, c, retrieval) ==
  [m \in MandatoryModules(ClaimKind(Contents[k][c])) |->
     ModuleVerdict(m, Contents[k], c, retrieval, Snapshot, FALSE, {})]

\* What a released bundle says of a claim.
Vouched(k, b, c, risk, mode, retrieval) ==
  /\ DOMAIN b[c] = MandatoryModules(ClaimKind(Contents[k][c]))
  /\ \A m \in DOMAIN b[c] :
       /\ b[c][m] = ModuleVerdict(m, Contents[k], c, retrieval, Snapshot, FALSE, {})
       /\ b[c][m] \in {"SUPPORTED", "PARTIALLY_SUPPORTED", "NOT_APPLICABLE"}
       /\ b[c][m] = "PARTIALLY_SUPPORTED" =>
            mode = "DISCLOSED" /\ risk[c] \in {"LOW", "MEDIUM"}

LEMMA BundleOf ==
  ASSUME NEW k \in Offered, NEW n \in 0..MaxOutages, NEW b \in Bundles[k][n]
  PROVE  /\ DOMAIN b = ClaimsOf(Contents[k])
         /\ \A c \in DOMAIN b : \E fates, retrieval :
              b[c] = ItemResults(fates, Judged(k, c, retrieval))
<1> DEFINE claims == ClaimsOf(Contents[k])
           per == [c \in claims |-> ResultsOf(Contents[k], c, n)]
<1>1. b \in {d \in [claims -> UNION {per[c] : c \in claims}] :
               \A c \in claims : d[c] \in per[c]}
  BY DEF Bundles
<1>2. DOMAIN b = claims
  BY <1>1
<1>3. ASSUME NEW c \in claims
      PROVE  \E fates, retrieval :
               b[c] = ItemResults(fates, Judged(k, c, retrieval))
  <2>1. b[c] \in ResultsOf(Contents[k], c, n)
    BY <1>1
  <2>2. ResultsOf(Contents[k], c, n)
          = {ItemResults(fates, Judged(k, c, retrieval)) :
               fates \in PlanFates(ClaimKind(Contents[k][c]), n),
               retrieval \in RetrievalChoices}
    BY DEF ResultsOf, Judged
  <2>3. QED
    BY <2>1, <2>2
<1>4. QED
  BY <1>2, <1>3

\* A bundle that leads to a releasing decision answers for every mandatory
\* module of every claim, and its content is sound.
LEMMA ReleasedIsSound ==
  ASSUME NEW k \in Offered, NEW n \in 0..MaxOutages, NEW b \in Bundles[k][n],
         NEW risk, NEW round, NEW mode \in Modes,
         Decision(b, risk, round) = ModeDecision(mode),
         Extractable(Contents[k])
  PROVE  /\ Sound(Contents[k])
         /\ \A c \in ClaimsOf(Contents[k]) :
              /\ DOMAIN b[c] = MandatoryModules(ClaimKind(Contents[k][c]))
              /\ \A m \in DOMAIN b[c] :
                   \/ b[c][m] \in {"SUPPORTED", "NOT_APPLICABLE"}
                   \/ /\ b[c][m] = "PARTIALLY_SUPPORTED"
                      /\ mode = "DISCLOSED"
                      /\ risk[c] \in {"LOW", "MEDIUM"}
<1> DEFINE content == Contents[k]
           modules(c) == MandatoryModules(ClaimKind(content[c]))
           good == {"SUPPORTED", "PARTIALLY_SUPPORTED", "NOT_APPLICABLE"}
<1>1. DOMAIN b = ClaimsOf(content)
  BY BundleOf
<1>2. ASSUME NEW c \in ClaimsOf(content)
      PROVE  \E retrieval : Vouched(k, b, c, risk, mode, retrieval)
  <2>1. PICK fates, retrieval :
               b[c] = ItemResults(fates, Judged(k, c, retrieval))
    BY <1>1, BundleOf
  <2>2. DOMAIN b[c] = modules(c)
    BY <2>1 DEF ItemResults, Judged
  <2>3. ASSUME NEW m \in modules(c)
        PROVE  /\ b[c][m] = ModuleVerdict(m, content, c, retrieval, Snapshot,
                                          FALSE, {})
               /\ b[c][m] \in good
               /\ b[c][m] = "PARTIALLY_SUPPORTED" =>
                    mode = "DISCLOSED" /\ risk[c] \in {"LOW", "MEDIUM"}
    <3> DEFINE verdict == ModuleVerdict(m, content, c, retrieval, Snapshot, FALSE, {})
    <3>1. /\ b[c][m] \notin Bad
          /\ b[c][m] = "PARTIALLY_SUPPORTED" =>
               mode = "DISCLOSED" /\ risk[c] \in {"LOW", "MEDIUM"}
      BY <1>1, <2>2, ReleasingDecision
    <3>2. Judged(k, c, retrieval)[m] = verdict /\ m \in DOMAIN Judged(k, c, retrieval)
      BY DEF Judged
    <3> HIDE DEF verdict
    <3>3. b[c][m] = verdict
      BY <2>1, <3>1, <3>2 DEF ItemResults, FatedVerdict, Bad
    <3>4. verdict \in Verdicts
      BY VerdictsOfModules DEF verdict
    <3>5. QED
      BY <3>1, <3>3, <3>4 DEF Verdicts, Bad, verdict
  <2>4. Vouched(k, b, c, risk, mode, retrieval)
    BY <2>2, <2>3 DEF Vouched
  <2>5. QED
    BY <2>4
<1>3. PICK c \in ClaimsOf(content) : TRUE
  BY DEF Extractable
<1>4. PICK retrieval : Vouched(k, b, c, risk, mode, retrieval)
  BY <1>2
<1>5. \A m \in {"C9", "C10"} :
        ModuleVerdict(m, content, c, retrieval, Snapshot, FALSE, {}) \in good
  BY <1>4 DEF MandatoryModules, Vouched
<1>6. Threats(content) = {}
  <2>1. ModuleVerdict("C9", content, c, retrieval, Snapshot, FALSE, {})
          = SecurityVerdict(content, EvidenceOf(content[c], retrieval))
    BY DEF ModuleVerdict
  <2>2. SecurityVerdict(content, EvidenceOf(content[c], retrieval)) \in good
    BY <1>5, <2>1
  <2>3. QED
    BY <2>2 DEF SecurityVerdict
<1>7. PersonalData(content) \intersect BlockedTypes = {}
  <2>1. ModuleVerdict("C10", content, c, retrieval, Snapshot, FALSE, {})
          = PrivacyVerdict(content, EvidenceOf(content[c], retrieval))
    BY DEF ModuleVerdict
  <2>2. PrivacyVerdict(content, EvidenceOf(content[c], retrieval)) \in good
    BY <1>5, <2>1
  <2>3. QED
    BY <2>2 DEF PrivacyVerdict
<1>8. ASSUME NEW d \in DOMAIN content
      PROVE  /\ \A f \in content[d].threats : ~Legible(f)
             /\ \A f \in content[d].personal :
                  /\ f.is \in BlockedTypes
                  /\ Reached(content, PersonalOf(content), content[d].string)
                  => ~Legible(f)
  <2>1. \A e \in DOMAIN content : content[e].string \in Nat
    BY RuntimeAssumption DEF Contents
  <2>2. ThreatsOf(content)[d] = content[d].threats
        /\ PersonalOf(content)[d] = content[d].personal
    BY DEF ThreatsOf, PersonalOf
  <2>3. /\ Detected(content, ThreatsOf(content)) = {}
        /\ Detected(content, PersonalOf(content)) \intersect BlockedTypes = {}
    BY <1>6, <1>7 DEF Threats, PersonalData
  <2> HIDE DEF content
  <2>4. \A f \in content[d].threats : ~Legible(f)
    BY <2>1, <2>2, <2>3, NothingDetected
  <2>5. ASSUME NEW f \in content[d].personal, f.is \in BlockedTypes,
               Reached(content, PersonalOf(content), content[d].string)
        PROVE  ~Legible(f)
    BY <2>2, <2>3, <2>5, ReachedIsDetected
  <2> QED BY <2>4, <2>5
<1>9. ASSUME NEW d \in ClaimsOf(content), ClaimKind(content[d]) \in {"TEXT", "FORMULA"},
             NEW i \in 1..(Len(content[d].says.formulas) - 1),
             NEW p \in DOMAIN content[d].says.formulas[i].at,
             content[d].says.formulas[i].relation # "none"
      PROVE  RelationTruth(content[d].says.formulas[i].relation,
                           content[d].says.formulas[i].at[p])
               <=> RelationTruth(content[d].says.formulas[i + 1].relation,
                                 content[d].says.formulas[i + 1].at[p])
  <2>1. PICK searched : Vouched(k, b, d, risk, mode, searched)
    BY <1>2, <1>9
  <2>2. "C3" \in modules(d)
    BY <1>9 DEF MandatoryModules, VerticalModule
  <2>3. ModuleVerdict("C3", content, d, searched, Snapshot, FALSE, {}) \in good
    BY <2>1, <2>2 DEF Vouched
  <2>4. AcademicVerdict(content[d].says, EvidenceOf(content[d], searched)) \in good
    BY <1>9, <2>3 DEF ModuleVerdict, VerticalVerdict
  <2>5. Derivation(content[d].says.formulas)
    BY <1>9, RuntimeAssumption DEF Contents, ClaimsOf
  <2>6. PICK claim, evidence :
           claim = content[d].says /\ evidence = EvidenceOf(content[d], searched)
    OBVIOUS
  <2>7. QED
    BY <1>9, <2>4, <2>5, <2>6, AcademicSound
<1>10. Sound(content)
  BY <1>8, <1>9 DEF Sound
<1>11. QED
  BY <1>2, <1>10 DEF Vouched

-----------------------------------------------------------------------------
\* What a step may do to a verification

Kept(v) ==
  /\ result'[v].bundle = result[v].bundle /\ result'[v].risk = result[v].risk
  /\ result'[v].decision = result[v].decision

Stays(v) == ver'[v] = ver[v] /\ Kept(v)

Opens(v) ==
  /\ ~Exists(v) /\ v[2] <= Len(cand'[v[1]])
  /\ ver'[v].state = "ACCEPTED" /\ Kept(v)

Prepares(v) ==
  /\ ver[v].state = "ACCEPTED" /\ Extractable(ContentOf(v))
  /\ ver'[v].state \in {"MODULE_DISPATCHING", "REVIEW_REQUIRED"}
  /\ result'[v].bundle = result[v].bundle /\ result'[v].decision = result[v].decision

Verifies(v) ==
  /\ ver[v].state = "MODULE_DISPATCHING" /\ ver'[v].state = "VERIFYING"
  /\ Kept(v)

Runs(v) ==
  /\ ver[v].state = "VERIFYING" /\ ver'[v] = ver[v]
  /\ result[v].bundle = NoAnswer
  /\ \E outages \in 0..MaxOutages :
       result'[v].bundle \in Bundles[NameOf(v)][outages]
  /\ result'[v].decision = result[v].decision

Decides(v) ==
  /\ ver[v].state = "VERIFYING" /\ ver'[v].state \in Outcomes
  /\ result[v].bundle # NoAnswer
  /\ result'[v].bundle = result[v].bundle /\ result'[v].risk = result[v].risk
  /\ result'[v].decision = Decision(result[v].bundle, result[v].risk, ver[v].round)

Resumes(v) ==
  /\ ver[v].state = "REVIEW_REQUIRED" /\ ver'[v].state \in Outcomes
  /\ Kept(v)

Releases(v) ==
  /\ ver[v].state = "RELEASE_PENDING" /\ ver'[v].state = "RELEASED"
  /\ Kept(v)

Quiet(v) ==
  \/ Stays(v) \/ Opens(v) \/ Prepares(v) \/ Verifies(v) \/ Runs(v) \/ Decides(v)
  \/ Resumes(v)

Move(v) == Quiet(v) \/ Releases(v)

\* The contents of the versions made so far stand.
Stands ==
  \A v \in Vids : v[2] <= Len(cand[v[1]]) =>
    v[2] <= Len(cand'[v[1]]) /\ cand'[v[1]][v[2]] = cand[v[1]][v[2]]

Advances ==
  \A i \in Instances, v \in Vids :
    At(i, v)' \in {"reread", "finalize"} =>
      At(i, v) \in {"reread", "finalize"} \/ ~Unverified(result[v])'

LEMMA Kinds ==
  ASSUME Rows, NEW v \in Vids
  PROVE  /\ v[1] \in Candidates /\ v[2] \in Nat /\ v[2] >= 1
         /\ cand[v[1]] \in Seq(Offered)
         /\ v[2] <= Len(cand[v[1]]) => NameOf(v) \in Offered
<1>1. v[1] \in Candidates /\ v[2] \in 1..MaxVersion
  BY DEF Vids
<1>2. v[2] \in Nat /\ v[2] >= 1
  BY <1>1, RuntimeAssumption
<1>3. cand[v[1]] \in Seq(Offered)
  BY <1>1 DEF Rows
<1>4. ASSUME v[2] <= Len(cand[v[1]])
      PROVE  cand[v[1]][v[2]] \in Offered
  BY <1>2, <1>3, <1>4, ElementOfSeq
<1>5. QED
  BY <1>1, <1>2, <1>3, <1>4 DEF NameOf

\* A bundle that was persisted stays.
LEMMA BundleStays ==
  ASSUME NEW v \in Vids, Grounded(v), Move(v), result[v].bundle # NoAnswer
  PROVE  result'[v].bundle = result[v].bundle
BY DEF Move, Quiet, Stays, Opens, Prepares, Verifies, Runs, Decides, Resumes,
       Releases, Kept

\* So does a decision.
LEMMA DecisionStays ==
  ASSUME NEW v \in Vids, Grounded(v), Move(v), result[v].decision # "NONE"
  PROVE  result'[v].decision = result[v].decision /\ result'[v].risk = result[v].risk
BY DEF Move, Quiet, Stays, Opens, Prepares, Verifies, Runs, Decides, Resumes,
       Releases, Kept, Grounded, Open

LEMMA MoveKeepsGrounds ==
  ASSUME Rows, Stands, NEW v \in Vids, Grounded(v), Move(v)
  PROVE  Grounded(v)'
<1>1. /\ Exists(v) => v[2] <= Len(cand[v[1]])
      /\ v[2] <= Len(cand[v[1]]) =>
           /\ v[2] <= Len(cand'[v[1]]) /\ NameOf(v)' = NameOf(v)
           /\ ContentOf(v)' = ContentOf(v)
  BY DEF Grounded, Stands, NameOf, ContentOf
<1>2. (Exists(v) => v[2] <= Len(cand[v[1]]))'
  BY <1>1 DEF Move, Quiet, Stays, Opens, Prepares, Verifies, Runs, Decides, Resumes,
              Releases, Exists
<1>3. (ver[v].state \in {"NONE", "ACCEPTED", "MODULE_DISPATCHING"} =>
         result[v].bundle = NoAnswer)'
  BY DEF Move, Quiet, Stays, Opens, Prepares, Verifies, Runs, Decides, Resumes,
         Releases, Kept, Grounded, Exists, Outcomes
<1>4. (ver[v].state \in Open => result[v].decision = "NONE")'
  BY DEF Move, Quiet, Stays, Opens, Prepares, Verifies, Runs, Decides, Resumes,
         Releases, Kept, Grounded, Exists, Outcomes, Open
<1>5. (ver[v].state \notin {"NONE", "ACCEPTED"} => Extractable(ContentOf(v)))'
  BY <1>1 DEF Move, Quiet, Stays, Opens, Prepares, Verifies, Runs, Decides, Resumes,
              Releases, Grounded, Exists, Outcomes
<1>6. (result[v].bundle # NoAnswer =>
         \E outages \in 0..MaxOutages : result[v].bundle \in Bundles[NameOf(v)][outages])'
  <2>1. CASE result[v].bundle = NoAnswer /\ ~Runs(v)
    BY <2>1 DEF Move, Quiet, Stays, Opens, Prepares, Verifies, Decides, Resumes,
                Releases, Kept
  <2>2. CASE Runs(v)
    BY <1>1, <2>2 DEF Runs, Exists
  <2>3. CASE result[v].bundle # NoAnswer
    <3>1. Exists(v) /\ result'[v].bundle = result[v].bundle
      BY <2>3, BundleStays DEF Grounded, Exists
    <3>2. QED
      BY <1>1, <2>3, <3>1 DEF Grounded
  <2>4. QED
    BY <2>1, <2>2, <2>3
<1>7. (result[v].decision # "NONE" =>
         /\ result[v].bundle # NoAnswer
         /\ \E round \in 0..MaxRounds :
              result[v].decision = Decision(result[v].bundle, result[v].risk, round))'
  <2>1. CASE result[v].decision # "NONE"
    <3>1. result[v].bundle # NoAnswer
      BY <2>1 DEF Grounded
    <3>2. QED
      BY <2>1, <3>1, BundleStays, DecisionStays DEF Grounded
  <2>2. CASE Decides(v)
    <3>1. ver[v].round \in 0..MaxRounds
      BY DEF Rows
    <3>2. QED
      BY <2>2, <3>1 DEF Decides
  <2>3. CASE result[v].decision = "NONE" /\ ~Decides(v)
    BY <2>3 DEF Move, Quiet, Stays, Opens, Prepares, Verifies, Runs, Resumes,
                Releases, Kept
  <2>4. QED
    BY <2>1, <2>2, <2>3
<1>8. QED
  BY <1>2, <1>3, <1>4, <1>5, <1>6, <1>7 DEF Grounded

LEMMA ExecutedKept ==
  ASSUME \A v \in Vids : Grounded(v) /\ Move(v), Executed, Advances
  PROVE  Executed'
BY BundleStays DEF Executed, Advances, Unverified

\* Nothing but a publication touches what an authorization stands for.
LEMMA AuthorityKept ==
  ASSUME Rows, Authorized, \A v \in Vids : Grounded(v) /\ Quiet(v), UNCHANGED auth
  PROVE  Authorized'
<1>1. \A a \in Auths : auth[a].v \in Vids /\ auth[a].mode \in Modes
  BY DEF Rows
<1>2. ASSUME NEW a \in Auths, auth[a].at # "none"
      PROVE  ReleaseAuthority(result[auth[a].v], auth[a].mode)'
  <2> DEFINE v == auth[a].v
  <2>1. result[v].decision = ModeDecision(auth[a].mode)
    BY <1>2 DEF Authorized, ReleaseAuthority
  <2>2. result[v].decision # "NONE"
    BY <2>1 DEF ModeDecision
  <2>3. result'[v].decision = result[v].decision
    BY <1>1, <2>2, DecisionStays DEF Move
  <2>4. QED
    BY <2>1, <2>3 DEF ReleaseAuthority
<1>3. \A v \in Vids : ver'[v].state = "RELEASED" <=> ver[v].state = "RELEASED"
  BY DEF Quiet, Stays, Opens, Prepares, Verifies, Runs, Decides, Resumes, Exists,
         Outcomes
<1>4. QED
  BY <1>1, <1>2, <1>3 DEF Authorized, Consumed, HasRow

-----------------------------------------------------------------------------
\* The steps

\* What every step but those of an authorization does.
Ordinary ==
  /\ Rows' /\ Stands /\ Advances
  /\ \A v \in Vids : Quiet(v)
  /\ UNCHANGED auth

LEMMA Same ==
  ASSUME Rows, UNCHANGED <<cand, ver, result>>
  PROVE  Stands /\ \A v \in Vids : Quiet(v)
BY DEF Stands, Quiet, Stays, Kept

\* One execution is put somewhere else.
Put(i, v, row) == exec' = [exec EXCEPT ![i][v] = row]

MayBeAt(i, v, place) ==
  place \in {"reread", "finalize"} =>
    At(i, v) \in {"reread", "finalize"} \/ ~Unverified(result[v])'

LEMMA Placed ==
  ASSUME Rows, NEW i \in Instances, NEW v \in Vids, NEW row,
         Put(i, v, row), MayBeAt(i, v, row.at)
  PROVE  /\ exec' = [j \in Instances |-> [w \in Vids |-> exec'[j][w]]]
         /\ Advances
<1>1. \A j \in Instances, w \in Vids :
        exec'[j][w] = IF j = i /\ w = v THEN row ELSE exec[j][w]
  BY DEF Rows, Put
<1>2. Advances
  BY <1>1 DEF Advances, At, MayBeAt
<1>3. \A j \in Instances : exec[j] = [w \in Vids |-> exec[j][w]]
  BY DEF Rows
<1>4. /\ exec'[i] = [exec[i] EXCEPT ![v] = row]
      /\ \A j \in Instances : j # i => exec'[j] = exec[j]
  BY DEF Rows, Put
<1>5. \A j \in Instances : exec'[j] = [w \in Vids |-> exec'[j][w]]
  BY <1>3, <1>4
<1>6. exec' = [j \in Instances |-> exec'[j]]
  BY DEF Rows, Put
<1>7. exec' = [j \in Instances |-> [w \in Vids |-> exec'[j][w]]]
  BY <1>5, <1>6
<1>8. QED
  BY <1>2, <1>7

LEMMA GotoPuts ==
  ASSUME NEW i, NEW v, NEW place, NEW seen, Goto(i, v, place, seen)
  PROVE  \E row : Put(i, v, row) /\ row.at = place
<1> DEFINE row == [at |-> place, seen |-> seen, tries |-> exec[i][v].tries]
<1>1. Put(i, v, row)
  BY DEF Goto, Put
<1>2. row.at = place
  OBVIOUS
<1>3. QED
  BY <1>1, <1>2

LEMMA StopPuts ==
  ASSUME NEW i, NEW v, Stop(i, v)
  PROVE  \E row : Put(i, v, row) /\ row.at = "idle"
<1>1. Put(i, v, NotRunning) /\ NotRunning.at = "idle"
  BY DEF Stop, Put, NotRunning
<1>2. QED
  BY <1>1

\* Steps that only read.
LEMMA ReadingSteps ==
  ASSUME Rows, NEW i \in Instances, NEW v \in Vids,
         \/ ReadState(i, v) \/ Prepared(i, v) \/ Verified(i, v) \/ ReadInputs(i, v)
         \/ Reread(i, v) \/ StartTask(i, v) \/ TaskFails(i, v) \/ TaskTimesOut(i, v)
  PROVE  Ordinary
<1>1. UNCHANGED <<cand, ver, result, auth>>
  BY DEF ReadState, Prepared, Verified, ReadInputs, Reread, StartTask, TaskFails,
         TaskTimesOut, stored
<1>2. \E row : Put(i, v, row) /\ MayBeAt(i, v, row.at)
  <2> DEFINE started(tries) == [at |-> "start", seen |-> 0, tries |-> tries]
  <2>1. \/ Stop(i, v)
        \/ \E place, seen : Goto(i, v, place, seen) /\ MayBeAt(i, v, place)
        \/ \E tries : Put(i, v, started(tries))
    <3>1. CASE ReadState(i, v) \/ Prepared(i, v)
      <4>1. PICK place : /\ IF place = "idle" THEN Stop(i, v)
                                              ELSE Goto(i, v, place, ver[v].version)
                         /\ place \in {"prepare", "verify", "inputs", "idle"}
        BY <3>1 DEF ReadState, Prepared, Onward
      <4>2. QED
        BY <4>1 DEF MayBeAt
    <3>2. CASE Verified(i, v)
      BY <3>2 DEF Verified, MayBeAt
    <3>3. CASE ReadInputs(i, v)
      BY <1>1, <3>3 DEF ReadInputs, MayBeAt, Unverified
    <3>4. CASE Reread(i, v)
      BY <3>4 DEF Reread, MayBeAt
    <3>5. CASE StartTask(i, v) \/ TaskFails(i, v) \/ TaskTimesOut(i, v)
      BY <3>5 DEF StartTask, TaskFails, TaskTimesOut, Put
    <3>6. QED
      BY <3>1, <3>2, <3>3, <3>4, <3>5
  <2>2. CASE Stop(i, v)
    BY <2>2, StopPuts DEF MayBeAt
  <2>3. CASE \E place, seen : Goto(i, v, place, seen) /\ MayBeAt(i, v, place)
    BY <2>3, GotoPuts
  <2>4. ASSUME NEW tries, Put(i, v, started(tries))
        PROVE  \E row : Put(i, v, row) /\ MayBeAt(i, v, row.at)
    <3>1. started(tries).at = "start"
      OBVIOUS
    <3>2. QED
      BY <2>4, <3>1 DEF MayBeAt
  <2>5. QED
    BY <2>1, <2>2, <2>3, <2>4
<1>3. /\ exec' = [j \in Instances |-> [w \in Vids |-> exec'[j][w]]]
      /\ Advances
  BY <1>2, Placed
<1>4. QED
  BY <1>1, <1>3, Same DEF Ordinary, Rows

\* Steps of the queue, the event and time.
LEMMA OutsideSteps ==
  ASSUME Rows,
         \/ \E i \in Instances : \/ DeliverFinalized(i) \/ FinishDelivery(i)
                               \/ \E v \in Vids : ApiExecute(i, v) \/ TaskRejected(i, v)
         \/ \E v \in Vids : DeadlinePasses(v) \/ ReviewDuePasses(v)
         \/ UNCHANGED vars
  PROVE  Ordinary
<1>1. UNCHANGED <<cand, ver, result, exec, auth>>
  BY DEF ApiExecute, DeliverFinalized, FinishDelivery, TaskRejected, DeadlinePasses,
         ReviewDuePasses, stored, execution, vars
<1>2. Advances
  BY <1>1 DEF Advances, At
<1>3. QED
  BY <1>1, <1>2, Same DEF Ordinary, Rows

LEMMA CrashStep ==
  ASSUME Rows, NEW i \in Instances, Crash(i)
  PROVE  Ordinary
<1>1. /\ UNCHANGED <<cand, ver, result, auth>>
      /\ exec' = [exec EXCEPT ![i] = [v \in Vids |-> NotRunning]]
  BY DEF Crash, stored
<1>2. \A j \in Instances : exec'[j] = IF j = i THEN [v \in Vids |-> NotRunning] ELSE exec[j]
  BY <1>1 DEF Rows
<1>3. exec' = [j \in Instances |-> [w \in Vids |-> exec'[j][w]]]
  BY <1>1, <1>2 DEF Rows
<1>4. Advances
  BY <1>1, <1>2 DEF Advances, At, NotRunning
<1>5. QED
  BY <1>1, <1>3, <1>4, Same DEF Ordinary, Rows

\* The rows of one verification are replaced.
LEMMA StateAppended ==
  ASSUME Rows, NEW v \in Vids, NEW change,
         change \in [state: Open \union Outcomes \union {"RELEASED"},
                    version: Nat, round: 0..MaxRounds],
         ver' = AppendState(ver, v, change)
  PROVE  /\ ver' \in [Vids -> [state: Open \union Outcomes \union {"RELEASED"},
                               version: Nat, round: 0..MaxRounds]]
         /\ \A w \in Vids : ver'[w] = IF w = v THEN change ELSE ver[w]
BY DEF AppendState, Rows

LEMMA ResultAppended ==
  ASSUME Rows, NEW v \in Vids, NEW row, ResultRow(row),
         result' = [result EXCEPT ![v] = row]
  PROVE  /\ result' = [w \in Vids |-> result'[w]]
         /\ \A w \in Vids : ResultRow(result'[w])
         /\ \A w \in Vids : result'[w] = IF w = v THEN row ELSE result[w]
BY DEF Rows

LEMMA RowFields ==
  ASSUME NEW row, ResultRow(row)
  PROVE  /\ \A y : [row EXCEPT !.risk = y]
                     = [risk |-> y, bundle |-> row.bundle, decision |-> row.decision,
                        task |-> row.task, packages |-> row.packages]
         /\ \A y : [row EXCEPT !.bundle = y]
                     = [risk |-> row.risk, bundle |-> y, decision |-> row.decision,
                        task |-> row.task, packages |-> row.packages]
         /\ \A y : [row EXCEPT !.decision = y]
                     = [risk |-> row.risk, bundle |-> row.bundle, decision |-> y,
                        task |-> row.task, packages |-> row.packages]
         /\ \A y : [row EXCEPT !.task = y]
                     = [risk |-> row.risk, bundle |-> row.bundle,
                        decision |-> row.decision, task |-> y,
                        packages |-> row.packages]
         /\ \A y : [row EXCEPT !.packages = y]
                     = [risk |-> row.risk, bundle |-> row.bundle,
                        decision |-> row.decision, task |-> row.task,
                        packages |-> y]
BY DEF ResultRow

\* An acceptance, or none, with the contents that stand.
LEMMA AcceptSteps ==
  ASSUME Rows, Stands, cand' \in [Candidates -> Seq(Offered)],
         UNCHANGED <<result, exec, auth>>,
         \/ UNCHANGED ver
         \/ \E v \in Vids : /\ ~Exists(v) /\ v[2] <= Len(cand'[v[1]])
                           /\ ver' = AppendVerification(ver, v)
  PROVE  Ordinary
<1>1. Advances
  BY DEF Advances, At
<1>2. CASE UNCHANGED ver
  BY <1>1, <1>2 DEF Ordinary, Rows, Quiet, Stays, Kept
<1>3. ASSUME NEW v \in Vids, ~Exists(v), v[2] <= Len(cand'[v[1]]),
             ver' = AppendVerification(ver, v)
      PROVE  Ordinary
  <2> DEFINE change == [state |-> "ACCEPTED", version |-> 1, round |-> 0]
  <2>1. ver' = AppendState(ver, v, change)
    BY <1>3 DEF AppendVerification, AppendState
  <2>2. change \in [state: Open \union Outcomes \union {"RELEASED"},
                    version: Nat, round: 0..MaxRounds]
    BY DEF Open, MaxRounds
  <2>3. /\ ver' \in [Vids -> [state: Open \union Outcomes \union {"RELEASED"},
                              version: Nat, round: 0..MaxRounds]]
        /\ \A w \in Vids : ver'[w] = IF w = v THEN change ELSE ver[w]
    BY <2>1, <2>2, StateAppended
  <2>4. \A w \in Vids : Quiet(w)
    BY <1>3, <2>3 DEF Quiet, Stays, Opens, Kept
  <2>5. QED
    BY <1>1, <2>3, <2>4 DEF Ordinary, Rows
<1>4. QED
  BY <1>2, <1>3

\* The verification of a version a delivery has come to.
LEMMA EventVid ==
  ASSUME event \in Deliveries, NEW x \in event.todo
  PROVE  <<x[1], x[2], "initial">> \in Vids
<1>1. x \in Versions
  BY DEF Deliveries
<1>2. x[1] \in Candidates /\ x[2] \in 1..MaxVersion
  BY <1>1 DEF Versions
<1>3. QED
  BY <1>2 DEF Vids

LEMMA AcceptingSteps ==
  ASSUME Rows, event \in Deliveries, NEW i \in Instances,
         ConsumeCandidate(i) \/ \E v \in Vids : ApiAccept(i, v)
  PROVE  Ordinary
<1>1. UNCHANGED <<cand, result, exec, auth>>
  BY DEF ConsumeCandidate, ApiAccept
<1>2. Stands /\ cand' \in [Candidates -> Seq(Offered)]
  BY <1>1 DEF Stands, Rows
<1>3. CASE \E v \in Vids : ApiAccept(i, v)
  BY <1>1, <1>2, <1>3, AcceptSteps DEF ApiAccept, Acceptable, Accept
<1>4. CASE ConsumeCandidate(i)
  <2>1. PICK x \in event.todo :
           LET v == <<x[1], x[2], "initial">>
           IN  UNCHANGED ver \/ (Acceptable(v) /\ ver' = AppendVerification(ver, v))
    BY <1>4 DEF ConsumeCandidate, Accept
  <2>2. PICK v : v = <<x[1], x[2], "initial">>
    OBVIOUS
  <2>3. /\ v \in Vids
        /\ UNCHANGED ver \/ (Acceptable(v) /\ ver' = AppendVerification(ver, v))
    BY <2>1, <2>2, EventVid
  <2>4. QED
    BY <1>1, <1>2, <2>3, AcceptSteps DEF Acceptable
<1>5. QED
  BY <1>3, <1>4

\* C8 adds a version and leaves the others alone.
LEMMA VersionMade ==
  ASSUME Rows, NEW c \in Candidates, NEW n, Bound(c, n), MakeVersion(c, n)
  PROVE  /\ cand' \in [Candidates -> Seq(Offered)] /\ Stands
         /\ n + 1 <= Len(cand'[c])
<1>1. /\ cand[c] \in Seq(Offered) /\ Len(cand[c]) \in Nat /\ n \in 1..Len(cand[c])
  BY DEF Rows, Bound
<1>2. CASE RevisedAlready(c, n)
  BY <1>1, <1>2 DEF RevisedAlready, MakeVersion, Rows, Stands
<1>3. CASE ~RevisedAlready(c, n)
  <2>1. PICK k \in Offered : cand' = [cand EXCEPT ![c] = Append(cand[c], k)]
    BY <1>3 DEF MakeVersion, Revised
  <2>2. /\ Append(cand[c], k) \in Seq(Offered)
        /\ Len(Append(cand[c], k)) = Len(cand[c]) + 1
        /\ \A m \in 1..Len(cand[c]) : Append(cand[c], k)[m] = cand[c][m]
    BY <1>1, AppendProperties
  <2>3. /\ cand' \in [Candidates -> Seq(Offered)]
        /\ \A d \in Candidates :
             cand'[d] = IF d = c THEN Append(cand[c], k) ELSE cand[d]
    BY <2>1, <2>2 DEF Rows
  <2>4. ASSUME NEW v \in Vids, v[2] <= Len(cand[v[1]])
        PROVE  v[2] <= Len(cand'[v[1]]) /\ cand'[v[1]][v[2]] = cand[v[1]][v[2]]
    <3>1. v[1] \in Candidates /\ v[2] \in Nat /\ v[2] >= 1
      BY Kinds
    <3>2. CASE v[1] = c
      BY <1>1, <2>2, <2>3, <2>4, <3>1, <3>2
    <3>3. CASE v[1] # c
      BY <2>3, <2>4, <3>1, <3>3
    <3>4. QED
      BY <3>2, <3>3
  <2>5. QED
    BY <1>1, <1>3, <2>2, <2>3, <2>4 DEF Stands, RevisedAlready
<1>4. QED
  BY <1>2, <1>3

LEMMA ReviseStep ==
  ASSUME Rows, NEW i \in Instances, NEW c \in Candidates, NEW n \in 1..MaxVersion,
         Revise(i, c, n)
  PROVE  Ordinary
<1> DEFINE v == <<c, n + 1, "child">>
<1>1. /\ Bound(c, n) /\ MakeVersion(c, n) /\ n < MaxVersion
      /\ UNCHANGED <<result, exec, auth>>
      /\ UNCHANGED ver \/ (~Exists(v) /\ ver' = AppendVerification(ver, v))
  BY DEF Revise, Accept
<1>2. v \in Vids /\ v[1] = c /\ v[2] = n + 1
  BY <1>1, RuntimeAssumption DEF Vids
<1>3. /\ cand' \in [Candidates -> Seq(Offered)] /\ Stands
      /\ v[2] <= Len(cand'[v[1]])
  BY <1>1, <1>2, VersionMade
<1>4. QED
  BY <1>1, <1>2, <1>3, AcceptSteps

\* A row of the latest state that a transaction may append.
StateRow == [state: Open \union Outcomes \union {"RELEASED"}, version: Nat,
             round: 0..MaxRounds]

\* A transaction that replaces the rows of one verification.
LEMMA Appended ==
  ASSUME Rows, NEW v \in Vids, NEW change \in StateRow, NEW row, ResultRow(row),
         ver' = AppendState(ver, v, change), result' = [result EXCEPT ![v] = row],
         UNCHANGED <<cand, auth>>, Quiet(v),
         \/ UNCHANGED exec
         \/ \E i \in Instances, w \in Vids : \E at :
              Put(i, w, at) /\ MayBeAt(i, w, at.at)
  PROVE  Ordinary
<1>1. /\ ver' \in [Vids -> StateRow]
      /\ \A u \in Vids : ver'[u] = IF u = v THEN change ELSE ver[u]
  BY StateAppended DEF StateRow
<1>2. /\ result' = [u \in Vids |-> result'[u]] /\ \A u \in Vids : ResultRow(result'[u])
      /\ \A u \in Vids : result'[u] = IF u = v THEN row ELSE result[u]
  BY ResultAppended
<1>3. /\ exec' = [j \in Instances |-> [u \in Vids |-> exec'[j][u]]]
      /\ Advances
  <2>1. CASE UNCHANGED exec
    BY <2>1 DEF Rows, Advances, At
  <2>2. QED
    BY <2>1, Placed
<1>4. \A u \in Vids : Quiet(u)
  BY <1>1, <1>2 DEF Quiet, Stays, Kept
<1>5. Rows'
  BY <1>1, <1>2, <1>3 DEF Rows, StateRow
<1>6. QED
  BY <1>3, <1>4, <1>5 DEF Ordinary, Stands

\* A transaction that was refused, or answered from its completed record.
LEMMA Refused ==
  ASSUME Rows, NEW i \in Instances, NEW v \in Vids, UNCHANGED <<cand, ver, result, auth>>,
         Stop(i, v) \/ \E place, seen : /\ Goto(i, v, place, seen)
                                       /\ place \in {"prepared", "verified"}
  PROVE  Ordinary
<1>1. PICK at : Put(i, v, at) /\ at.at \in {"idle", "prepared", "verified"}
  BY GotoPuts, StopPuts
<1>2. /\ exec' = [j \in Instances |-> [w \in Vids |-> exec'[j][w]]]
      /\ Advances
  BY <1>1, Placed DEF MayBeAt
<1>3. QED
  BY <1>2, Same DEF Ordinary, Rows

LEMMA Changes ==
  ASSUME Rows, NEW v \in Vids
  PROVE  /\ ver[v] \in StateRow /\ ResultRow(result[v])
         /\ \A target \in {"VERIFYING", "RELEASE_PENDING", "REVIEW_REQUIRED",
                           "REVISION_PLANNING", "BLOCKED", "RELEASED"} :
              (target = "REVISION_PLANNING" => ver[v].round < MaxRounds) =>
                /\ Transitioned(ver[v], target) \in StateRow
                /\ Transitioned(ver[v], target).state = target
<1>1. ver[v] \in StateRow /\ ResultRow(result[v])
  BY DEF Rows, StateRow
<1>2. PICK change : change = ver[v]
  OBVIOUS
<1>3. ASSUME NEW target \in {"VERIFYING", "RELEASE_PENDING", "REVIEW_REQUIRED",
                           "REVISION_PLANNING", "BLOCKED", "RELEASED"},
             target = "REVISION_PLANNING" => change.round < MaxRounds
      PROVE  /\ Transitioned(change, target) \in StateRow
             /\ Transitioned(change, target).state = target
  <2>1. /\ change.version + 1 \in Nat
        /\ change.round + (IF target = "REVISION_PLANNING" THEN 1 ELSE 0)
             \in 0..MaxRounds
    BY <1>1, <1>2, <1>3 DEF StateRow, MaxRounds
  <2>2. target \in Open \union Outcomes \union {"RELEASED"}
    BY DEF Open, Outcomes
  <2>3. QED
    BY <2>1, <2>2 DEF Transitioned, StateRow
<1>4. QED
  BY <1>1, <1>2, <1>3

LEMMA PrepareStep ==
  ASSUME Rows, NEW i \in Instances, NEW v \in Vids, Prepare(i, v)
  PROVE  Ordinary
<1> DEFINE seen == exec[i][v].seen
           risk == Risks[NameOf(v)]
           half == Passed(ver[v], "SNAPSHOT_VALIDATING", "CLAIM_EXTRACTING")
           target == IF Critical(risk) THEN "REVIEW_REQUIRED"
                                       ELSE "MODULE_DISPATCHING"
           change == Passed(half, "CLAIMS_READY", target)
           row == AppendReviewTask(AppendRisks(result[v], risk), Critical(risk))
<1>1. CASE UNCHANGED stored
  BY <1>1, Refused DEF Prepare, stored
<1>2. CASE ~UNCHANGED stored
  <2>1. /\ UNCHANGED <<cand, auth>> /\ Goto(i, v, "prepared", seen)
        /\ ver[v].state \in {"ACCEPTED", "REVERIFYING"}
        /\ Extractable(ContentOf(v))
        /\ ver' = AppendState(ver, v, change)
        /\ result' = [result EXCEPT ![v] = row]
    BY <1>2 DEF Prepare
  <2>2. ver[v].state = "ACCEPTED"
    BY <2>1, Changes DEF StateRow, Open, Outcomes
  <2>3. change \in StateRow /\ change.state = target
    <3>1. PICK old \in StateRow : old = ver[v]
      BY Changes
    <3>2. Passed(Passed(old, "SNAPSHOT_VALIDATING", "CLAIM_EXTRACTING"),
                 "CLAIMS_READY", target)
            = [state |-> target, version |-> old.version + 1 + 1 + 1 + 1,
               round |-> old.round + 0 + 0 + 0 + 0]
      BY DEF Passed, Transitioned
    <3>3. target \in Open \union Outcomes
      BY DEF Open, Outcomes
    <3>4. /\ old.version + 1 + 1 + 1 + 1 \in Nat
          /\ old.round + 0 + 0 + 0 + 0 \in 0..MaxRounds
      BY <3>1 DEF StateRow, MaxRounds
    <3> HIDE DEF target
    <3>5. QED
      BY <3>1, <3>2, <3>3, <3>4 DEF StateRow
  <2>4. /\ ResultRow(row) /\ row.bundle = result[v].bundle
        /\ row.decision = result[v].decision
    <3>1. PICK old : old = result[v] /\ ResultRow(old)
      BY Changes
    <3>2. PICK half_ : half_ = AppendRisks(old, risk)
      OBVIOUS
    <3>3. /\ ResultRow(half_) /\ half_.bundle = old.bundle
          /\ half_.decision = old.decision
      BY <3>1, <3>2, RowFields DEF AppendRisks, ResultRow
    <3>4. row = IF Critical(risk) THEN [half_ EXCEPT !.task = "OPEN"] ELSE half_
      BY <3>1, <3>2 DEF AppendReviewTask
    <3>5. QED
      BY <3>1, <3>3, <3>4, RowFields DEF ResultRow
  <2>5. ver'[v] = change /\ result'[v] = row
    BY <2>1 DEF AppendState, Rows
  <2>6. Quiet(v)
    BY <2>1, <2>2, <2>3, <2>4, <2>5 DEF Quiet, Prepares
  <2>7. \E at : Put(i, v, at) /\ MayBeAt(i, v, at.at)
    BY <2>1, GotoPuts DEF MayBeAt
  <2> HIDE DEF change, row
  <2>8. QED
    BY <2>1, <2>3, <2>4, <2>6, <2>7, Appended
<1>3. QED
  BY <1>1, <1>2

\* The state machine enters VERIFYING from one state.
LEMMA VerifyingFrom ==
  ASSUME NEW state \in Open \union Outcomes \union {"RELEASED"},
         "VERIFYING" \in Allowed(state)
  PROVE  state = "MODULE_DISPATCHING"
BY DEF Allowed, Forward, Open, Outcomes, Working

LEMMA VerifyStep ==
  ASSUME Rows, NEW i \in Instances, NEW v \in Vids, Verify(i, v)
  PROVE  Ordinary
<1>1. CASE UNCHANGED stored
  BY <1>1, Refused DEF Verify, stored
<1>2. CASE ~UNCHANGED stored
  <2> DEFINE change == Transitioned(ver[v], "VERIFYING")
  <2>1. /\ UNCHANGED <<cand, result, auth>>
        /\ Goto(i, v, "verified", exec[i][v].seen)
        /\ MayTransition(ver[v], "VERIFYING")
        /\ ver' = AppendState(ver, v, change)
    BY <1>2 DEF Verify
  <2>2. change \in StateRow /\ change.state = "VERIFYING"
    BY Changes
  <2>3. ver[v].state = "MODULE_DISPATCHING"
    BY <2>1, Changes, VerifyingFrom DEF MayTransition, StateRow
  <2>4. ver'[v] = change
    BY <2>1 DEF AppendState, Rows
  <2>5. Quiet(v)
    BY <2>1, <2>2, <2>3, <2>4 DEF Quiet, Verifies, Kept
  <2>6. \E at : Put(i, v, at) /\ MayBeAt(i, v, at.at)
    BY <2>1, GotoPuts DEF MayBeAt
  <2>7. result' = [result EXCEPT ![v] = result[v]]
    BY <2>1 DEF Rows
  <2> HIDE DEF change
  <2>8. QED
    BY <2>1, <2>2, <2>5, <2>6, <2>7, Changes, Appended
<1>3. QED
  BY <1>1, <1>2

LEMMA RunModulesStep ==
  ASSUME Rows, NEW i \in Instances, NEW v \in Vids, Grounded(v), RunModules(i, v)
  PROVE  Ordinary
<1>1. UNCHANGED <<cand, ver, auth>>
  BY DEF RunModules
<1>2. CASE Stop(i, v) /\ UNCHANGED result
  BY <1>1, <1>2, Refused
<1>3. CASE ~(Stop(i, v) /\ UNCHANGED result)
  <2>1. /\ Persistable(v, exec[i][v].seen)
        /\ Goto(i, v, "reread", exec[i][v].seen)
    BY <1>3 DEF RunModules
  <2>2. PICK outages, bundle :
          /\ outages \in 0..MaxOutages /\ bundle \in Bundles[NameOf(v)][outages]
          /\ result' = [result EXCEPT ![v] = AppendModuleRuns(result[v], bundle)]
    BY <1>3, RuntimeAssumption DEF RunModules
  <2>3. PICK row : row = AppendModuleRuns(result[v], bundle)
    OBVIOUS
  <2>4. /\ ResultRow(row) /\ row.bundle = bundle
        /\ row.decision = result[v].decision
    <3>1. PICK old : old = result[v] /\ ResultRow(old)
      BY Changes
    <3>2. QED
      BY <2>3, <3>1, RowFields DEF AppendModuleRuns, ResultRow
  <2>5. result'[v] = row
    BY <2>2, <2>3 DEF Rows
  <2>6. bundle # NoAnswer
    <3>1. NameOf(v) \in Offered
      BY <2>1, Kinds DEF Grounded, Persistable, Exists
    <3>2. QED
      BY <2>2, <3>1, NoBundleAssumption
  <2>7. Quiet(v)
    BY <1>1, <2>1, <2>2, <2>4, <2>5 DEF Quiet, Runs, Persistable, Unverified
  <2>8. \E at : Put(i, v, at) /\ MayBeAt(i, v, at.at)
    BY <2>1, <2>4, <2>5, <2>6, GotoPuts DEF MayBeAt, Unverified
  <2>9. ver' = AppendState(ver, v, ver[v])
    BY <1>1 DEF AppendState, Rows
  <2>10. result' = [result EXCEPT ![v] = row]
    BY <2>2, <2>3
  <2>11. QED
    BY <1>1, <2>4, <2>7, <2>8, <2>9, <2>10, Changes, Appended
<1>4. QED
  BY <1>2, <1>3

\* What aggregation decides leads to an outcome.
LEMMA Targets ==
  /\ \A decision : DecisionTarget(decision) \in Outcomes
  /\ \A review : ReviewDecisionTarget(review) \in Outcomes
BY DEF DecisionTarget, ReviewDecisionTarget, Outcomes

LEMMA FinalizeStep ==
  ASSUME Rows, Executed, NEW i \in Instances, NEW v \in Vids, Finalize(i, v)
  PROVE  Ordinary
<1>1. Stop(i, v) /\ UNCHANGED auth
  BY DEF Finalize
<1>2. CASE UNCHANGED stored
  BY <1>1, <1>2, Refused DEF stored
<1>3. CASE ~UNCHANGED stored
  <2> DEFINE decision == Decision(result[v].bundle, result[v].risk, ver[v].round)
             target == DecisionTarget(decision)
             change == Passed(ver[v], "AGGREGATING", target)
             row == ResultReview(result[v], decision)
  <2>1. /\ UNCHANGED cand /\ ver[v].state = "VERIFYING"
        /\ MayPass(ver[v], "AGGREGATING", target)
        /\ ver' = AppendState(ver, v, change)
        /\ result' = [result EXCEPT ![v] = row]
    BY <1>3 DEF Finalize
  <2>2. result[v].bundle # NoAnswer
    BY DEF Finalize, Executed, Unverified
  <2>3. change \in StateRow /\ change.state = target /\ target \in Outcomes
    <3>1. PICK old \in StateRow : old = ver[v]
      BY Changes
    <3>2. target \in Outcomes
      BY Targets
    <3> HIDE DEF target
    <3>3. target = "REVISION_PLANNING" => old.round + 0 < MaxRounds
      BY <2>1, <3>1 DEF MayPass, MayTransition, Transitioned
    <3>4. Passed(old, "AGGREGATING", target)
            = [state |-> target, version |-> old.version + 1 + 1,
               round |-> old.round + 0 + (IF target = "REVISION_PLANNING" THEN 1 ELSE 0)]
      BY DEF Passed, Transitioned
    <3>5. /\ old.version + 1 + 1 \in Nat
          /\ old.round + 0 + (IF target = "REVISION_PLANNING" THEN 1 ELSE 0)
               \in 0..MaxRounds
      BY <3>1, <3>3 DEF StateRow, MaxRounds
    <3>6. QED
      BY <3>1, <3>2, <3>4, <3>5 DEF StateRow
  <2>4. /\ ResultRow(row) /\ row.bundle = result[v].bundle
        /\ row.risk = result[v].risk /\ row.decision = decision
    <3>1. PICK old : old = result[v] /\ ResultRow(old)
      BY Changes
    <3> HIDE DEF decision
    <3>2. PICK reported : reported = AppendReport(old, decision)
      OBVIOUS
    <3>3. /\ ResultRow(reported) /\ reported.bundle = old.bundle
          /\ reported.risk = old.risk /\ reported.decision = decision
      BY <3>1, <3>2, RowFields DEF AppendReport, ResultRow
    <3>4. row = IF decision = "REVIEW_REQUIRED" THEN [reported EXCEPT !.task = "OPEN"]
                                                ELSE reported
      BY <3>1, <3>2 DEF ResultReview, AppendReviewTask
    <3>5. QED
      BY <3>1, <3>3, <3>4, RowFields DEF ResultRow
  <2>5. ver'[v] = change /\ result'[v] = row
    BY <2>1 DEF AppendState, Rows
  <2> HIDE DEF change, row, target
  <2>6. Quiet(v)
    BY <2>1, <2>2, <2>3, <2>4, <2>5 DEF Quiet, Decides
  <2>7. \E at : Put(i, v, at) /\ MayBeAt(i, v, at.at)
    BY <1>1, StopPuts DEF MayBeAt
  <2>8. QED
    BY <1>1, <2>1, <2>3, <2>4, <2>6, <2>7, Appended
<1>4. QED
  BY <1>2, <1>3

LEMMA ReviewStep ==
  ASSUME Rows, NEW v \in Vids, NEW review \in Reviews, SubmitReview(v, review)
  PROVE  Ordinary
<1> DEFINE target == ReviewDecisionTarget(review)
           change == Transitioned(ver[v], target)
           row == AppendReviewDecision(result[v])
<1>1. /\ ver[v].state = "REVIEW_REQUIRED" /\ MayTransition(ver[v], target)
      /\ ver' = AppendState(ver, v, change) /\ result' = [result EXCEPT ![v] = row]
      /\ UNCHANGED <<cand, exec, auth>>
  BY DEF SubmitReview, execution
<1>2. target \in Outcomes
  BY Targets
<1> HIDE DEF target
<1>3. change \in StateRow /\ change.state = target
  BY <1>1, <1>2, Changes DEF MayTransition, Outcomes
<1>4. /\ ResultRow(row) /\ row.bundle = result[v].bundle
      /\ row.risk = result[v].risk /\ row.decision = result[v].decision
  <2>1. PICK old : old = result[v] /\ ResultRow(old)
    BY Changes
  <2>2. QED
    BY <2>1, RowFields DEF AppendReviewDecision, ResultRow
<1>5. ver'[v] = change /\ result'[v] = row
  BY <1>1 DEF AppendState, Rows
<1> HIDE DEF change, row
<1>6. Quiet(v)
  BY <1>1, <1>2, <1>3, <1>4, <1>5 DEF Quiet, Resumes, Kept
<1>7. QED
  BY <1>1, <1>3, <1>4, <1>6, Appended

LEMMA ImportStep ==
  ASSUME Rows, NEW v \in Vids, NEW c \in Claims, ImportPackage(v, c)
  PROVE  Ordinary
<1>1. /\ result' = [result EXCEPT ![v].packages = result[v].packages \union {c}]
      /\ UNCHANGED <<cand, ver, exec, auth>>
  BY DEF ImportPackage, execution
<1>2. PICK old : old = result[v] /\ ResultRow(old)
  BY Changes
<1>3. PICK row : row = [old EXCEPT !.packages = result[v].packages \union {c}]
  OBVIOUS
<1>4. /\ ResultRow(row) /\ row.bundle = old.bundle
      /\ row.risk = old.risk /\ row.decision = old.decision
  BY <1>2, <1>3, RowFields DEF ResultRow
<1>5. result' = [result EXCEPT ![v] = row]
  BY <1>1, <1>2, <1>3 DEF Rows
<1>6. result'[v] = row
  BY <1>5 DEF Rows
<1>7. Quiet(v)
  BY <1>1, <1>2, <1>4, <1>6 DEF Quiet, Stays, Kept
<1>8. ver' = AppendState(ver, v, ver[v])
  BY <1>1 DEF AppendState, Rows
<1>9. QED
  BY <1>1, <1>4, <1>5, <1>7, <1>8, Changes, Appended

-----------------------------------------------------------------------------
\* The steps of an authorization

\* They leave everything but the state of a released verification alone.
LEMMA Apart ==
  ASSUME Rows, auth' \in [Auths -> [at: AuthorizationRows \union {"none", "derived"},
                                   v: Vids, mode: Modes, late: BOOLEAN,
                                   asked: BOOLEAN]],
         UNCHANGED <<cand, result, exec>>,
         ver' \in [Vids -> StateRow]
  PROVE  Rows' /\ Stands /\ Advances
BY DEF Rows, Stands, Advances, At, StateRow

LEMMA DeriveStep ==
  ASSUME Rows, Authorized, NEW a \in Auths, NEW v \in Vids, NEW mode \in Modes,
         DeriveAuthorization(a, v, mode)
  PROVE  Rows' /\ Stands /\ Advances /\ Authorized' /\ \A w \in Vids : Stays(w)
<1> DEFINE row == [at |-> "derived", v |-> v, mode |-> mode, late |-> FALSE,
                   asked |-> FALSE]
<1>1. /\ auth[a].at = "none" /\ ReleaseAuthority(result[v], mode)
      /\ auth' = [auth EXCEPT ![a] = row] /\ UNCHANGED <<cand, ver, result, exec>>
  BY DEF DeriveAuthorization, stored, execution
<1>2. \A b \in Auths : auth'[b] = IF b = a THEN row ELSE auth[b]
  BY <1>1 DEF Rows
<1>3. Rows' /\ Stands /\ Advances
  BY <1>1, Apart DEF Rows, StateRow
<1>4. Authorized'
  BY <1>1, <1>2 DEF Authorized, Consumed, HasRow, ReleaseAuthority, AuthorizationRows
<1>5. QED
  BY <1>1, <1>3, <1>4 DEF Stays, Kept

LEMMA IssueStep ==
  ASSUME Rows, Authorized, NEW a \in Auths, IssueAuthorization(a)
  PROVE  Rows' /\ Stands /\ Advances /\ Authorized' /\ \A w \in Vids : Stays(w)
<1>1. auth[a].at = "derived" /\ UNCHANGED <<cand, ver, result, exec>>
  BY DEF IssueAuthorization, stored, execution
<1>2. CASE AuthorizationFree({auth[b] : b \in {c \in Auths : HasRow(c)}}, auth[a].v)
  <2>1. auth' = [auth EXCEPT ![a].at = "issued"]
    BY <1>2 DEF IssueAuthorization
  <2>2. \A b \in Auths : /\ auth'[b].at = IF b = a THEN "issued" ELSE auth[b].at
                         /\ auth'[b].v = auth[b].v /\ auth'[b].mode = auth[b].mode
    BY <2>1 DEF Rows
  <2>3. \A b \in Auths : HasRow(b) => auth[b].v # auth[a].v
    BY <1>2 DEF AuthorizationFree
  <2>4. Rows' /\ Stands /\ Advances
    <3> DEFINE Row == [at: AuthorizationRows \union {"none", "derived"}, v: Vids,
                       mode: Modes, late: BOOLEAN, asked: BOOLEAN]
    <3>1. auth \in [Auths -> Row] /\ "issued" \in AuthorizationRows
      BY DEF Rows, AuthorizationRows
    <3>2. auth' \in [Auths -> Row]
      BY <2>1, <3>1
    <3>3. QED
      BY <1>1, <3>2, Apart DEF Rows, StateRow
  <2>5. Authorized'
    BY <1>1, <2>2, <2>3 DEF Authorized, Consumed, HasRow, ReleaseAuthority,
                            AuthorizationRows
  <2>6. QED
    BY <1>1, <2>4, <2>5 DEF Stays, Kept
<1>3. CASE ~AuthorizationFree({auth[b] : b \in {c \in Auths : HasRow(c)}}, auth[a].v)
  <2>1. auth' = [auth EXCEPT ![a] = NoAuth]
    BY <1>3 DEF IssueAuthorization
  <2>2. \A b \in Auths : auth'[b] = IF b = a THEN NoAuth ELSE auth[b]
    BY <2>1 DEF Rows
  <2>3. auth[a].v \in Vids
    BY DEF Rows
  <2>4. Rows' /\ Stands /\ Advances
    <3>1. NoAuth \in [at: AuthorizationRows \union {"none", "derived"},
                      v: Vids, mode: Modes, late: BOOLEAN, asked: BOOLEAN]
      BY RuntimeAssumption DEF NoAuth, Vids, Candidates, Modes
    <3>2. QED
      BY <1>1, <2>1, <3>1, Apart DEF Rows, StateRow
  <2>5. Authorized'
    BY <1>1, <2>2 DEF Authorized, Consumed, HasRow, ReleaseAuthority,
                      AuthorizationRows, NoAuth
  <2>6. QED
    BY <1>1, <2>4, <2>5 DEF Stays, Kept
<1>4. QED
  BY <1>2, <1>3

\* Steps that only say whether it may still be used, or is.
LEMMA MarkStep ==
  ASSUME Rows, Authorized, NEW a \in Auths, UNCHANGED <<cand, ver, result, exec>>,
         \/ auth' = [auth EXCEPT ![a].late = TRUE]
         \/ auth' = [auth EXCEPT ![a].asked = TRUE]
         \/ auth' = [auth EXCEPT ![a].asked = FALSE]
  PROVE  Rows' /\ Stands /\ Advances /\ Authorized' /\ \A w \in Vids : Stays(w)
<1> DEFINE Row == [at: AuthorizationRows \union {"none", "derived"}, v: Vids,
                   mode: Modes, late: BOOLEAN, asked: BOOLEAN]
           Marked(b) == /\ auth'[b].at = auth[b].at /\ auth'[b].v = auth[b].v
                        /\ auth'[b].mode = auth[b].mode
<1>0. auth \in [Auths -> Row]
  BY DEF Rows
<1>1. auth' \in [Auths -> Row] /\ \A b \in Auths : Marked(b)
  <2>1. CASE auth' = [auth EXCEPT ![a].late = TRUE]
    BY <1>0, <2>1
  <2>2. CASE auth' = [auth EXCEPT ![a].asked = TRUE]
    BY <1>0, <2>2
  <2>3. CASE auth' = [auth EXCEPT ![a].asked = FALSE]
    BY <1>0, <2>3
  <2>4. QED
    BY <2>1, <2>2, <2>3
<1>2. Rows' /\ Stands /\ Advances
  BY <1>1, Apart DEF Rows, StateRow
<1>3. Authorized'
  BY <1>1 DEF Authorized, Consumed, HasRow, ReleaseAuthority
<1>4. QED
  BY <1>2, <1>3 DEF Stays, Kept

\* The publication: the one row of the report is consumed as its verification
\* is released.
LEMMA PublishStep ==
  ASSUME Rows, Authorized, NEW a \in Auths, ConsumeAndPublish(a)
  PROVE  Rows' /\ Stands /\ Advances /\ Authorized' /\ \A w \in Vids : Move(w)
<1> DEFINE v == auth[a].v
           row == [at |-> "consumed", v |-> v, mode |-> auth[a].mode,
                   late |-> FALSE, asked |-> FALSE]
           change == ReleasedBy(ver[v])
<1>1. UNCHANGED <<cand, result, exec>> /\ v \in Vids /\ auth[a].mode \in Modes
  BY DEF ConsumeAndPublish, execution, Rows
<1>2. CASE auth' = [auth EXCEPT ![a].asked = FALSE] /\ UNCHANGED ver
  BY <1>1, <1>2, MarkStep DEF Move, Quiet
<1>3. CASE ~(auth' = [auth EXCEPT ![a].asked = FALSE] /\ UNCHANGED ver)
  <2>1. /\ auth[a].at = "issued" /\ ver[v].state = "RELEASE_PENDING"
        /\ ver' = AppendState(ver, v, change) /\ auth' = [auth EXCEPT ![a] = row]
    BY <1>3 DEF ConsumeAndPublish
  <2>2. change \in StateRow /\ change.state = "RELEASED"
    BY <1>1, Changes DEF ReleasedBy
  <2> HIDE DEF v, change
  <2>3. /\ ver' \in [Vids -> StateRow]
        /\ \A w \in Vids : ver'[w] = IF w = v THEN change ELSE ver[w]
    BY <1>1, <2>1, <2>2, StateAppended DEF StateRow
  <2>4. \A b \in Auths : auth'[b] = IF b = a THEN row ELSE auth[b]
    BY <2>1 DEF Rows
  <2>5. Rows' /\ Stands /\ Advances
    BY <1>1, <2>1, <2>3, Apart DEF Rows, AuthorizationRows
  <2>6. Authorized'
    <3>1. auth'[a].at = "consumed" /\ auth'[a].v = v /\ auth'[a].mode = auth[a].mode
      BY <2>4
    <3>2. \A b \in Auths : auth'[b].v = auth[b].v /\ auth'[b].mode = auth[b].mode
      BY <2>4 DEF v
    <3>3. \A b \in Auths : b # a => auth'[b].at = auth[b].at
      BY <2>4
    <3>4. ver'[v].state = "RELEASED" /\ \A w \in Vids : w # v => ver'[w] = ver[w]
      BY <1>1, <2>2, <2>3
    <3>5. \A b \in Auths : auth'[b].at # "none" =>
            ReleaseAuthority(result'[auth'[b].v], auth'[b].mode)
      BY <1>1, <2>1, <3>2, <3>3 DEF Authorized
    <3>6. \A b \in Auths : auth'[b].at = "consumed" =>
            ver'[auth'[b].v].state = "RELEASED"
      <4>1. TAKE b \in Auths
      <4>2. CASE auth[b].v = v
        BY <3>2, <3>4, <4>2
      <4>3. CASE auth[b].v # v
        <5>1. auth[b].v \in Vids /\ b # a
          BY <4>3 DEF Rows, v
        <5>2. QED
          BY <3>2, <3>3, <3>4, <4>3, <5>1 DEF Authorized
      <4>4. QED
        BY <4>2, <4>3
    <3>7. ASSUME NEW w \in Vids, ver'[w].state = "RELEASED"
          PROVE  \E b \in Auths : auth'[b].at = "consumed" /\ auth'[b].v = w
      <4>1. CASE w = v
        BY <3>1, <4>1
      <4>2. CASE w # v
        <5>1. PICK b \in Auths : auth[b].at = "consumed" /\ auth[b].v = w
          BY <3>4, <3>7, <4>2 DEF Authorized, Consumed
        <5>2. QED
          BY <2>1, <3>2, <3>3, <5>1
      <4>3. QED
        BY <4>1, <4>2
    <3>8. \A b \in Auths : HasRow(b)' <=> HasRow(b)
      BY <2>1, <3>1, <3>3 DEF HasRow, AuthorizationRows
    <3>9. \A b, c \in Auths : HasRow(b)' /\ HasRow(c)' /\ auth'[b].v = auth'[c].v => b = c
      BY <3>2, <3>8 DEF Authorized
    <3>10. QED
      BY <3>5, <3>6, <3>7, <3>9 DEF Authorized, Consumed
  <2>7. \A w \in Vids : Move(w)
    BY <1>1, <2>1, <2>2, <2>3 DEF Move, Quiet, Stays, Releases, Kept
  <2>8. QED
    BY <2>5, <2>6, <2>7
<1>4. QED
  BY <1>2, <1>3

-----------------------------------------------------------------------------
\* The invariant

LEMMA InitLawful ==
  ASSUME Init
  PROVE  Lawful
<1>1. event \in Deliveries
  BY RuntimeAssumption DEF Init, Deliveries
<1>2. cand \in [Candidates -> Seq(Offered)]
  <2>1. \A k \in Offered : <<k>> \in Seq(Offered)
    OBVIOUS
  <2>2. \A c \in {<<k>> : k \in Offered} : c \in Seq(Offered)
    BY <2>1
  <2>3. cand \in [Candidates -> {<<k>> : k \in Offered}]
    BY DEF Init
  <2>4. QED
    BY <2>2, <2>3
<1>3. /\ ver \in [Vids -> StateRow] /\ \A v \in Vids : ver[v].state = "NONE"
  BY DEF Init, Absent, StateRow, Open, MaxRounds
<1>4. /\ result = [v \in Vids |-> result[v]]
      /\ \A v \in Vids : ResultRow(result[v])
      /\ \A v \in Vids : result[v].bundle = NoAnswer /\ result[v].decision = "NONE"
  BY DEF Init, NoResult, ResultRow
<1>5. /\ exec = [i \in Instances |-> [v \in Vids |-> exec[i][v]]]
      /\ \A i \in Instances, v \in Vids : At(i, v) = "idle"
  BY DEF Init, At, NotRunning
<1>6. /\ auth \in [Auths -> [at: AuthorizationRows \union {"none", "derived"},
                             v: Vids, mode: Modes, late: BOOLEAN, asked: BOOLEAN]]
      /\ \A a \in Auths : auth[a].at = "none"
  BY RuntimeAssumption DEF Init, NoAuth, Vids, Candidates, Modes
<1>7. Rows
  BY <1>2, <1>3, <1>4, <1>5, <1>6 DEF Rows, StateRow
<1>8. Executed
  BY <1>5 DEF Executed
<1>9. \A v \in Vids : Grounded(v)
  BY <1>3, <1>4 DEF Grounded, Exists
<1>10. Authorized
  BY <1>3, <1>6 DEF Authorized, HasRow, AuthorizationRows
<1>11. QED
  BY <1>1, <1>7, <1>8, <1>9, <1>10 DEF Lawful

LEMMA DeliveriesKept ==
  ASSUME event \in Deliveries, [Next]_vars
  PROVE  event' \in Deliveries
<1>1. CASE UNCHANGED event
  BY <1>1
<1>2. ASSUME NEW i \in Instances, DeliverFinalized(i)
      PROVE  event' \in Deliveries
  BY <1>2, RuntimeAssumption DEF DeliverFinalized, Deliveries
<1>3. CASE DeliveryFailed
  BY <1>3, RuntimeAssumption DEF DeliveryFailed, Deliveries
<1>4. ASSUME NEW i \in Instances, FinishDelivery(i)
      PROVE  event' \in Deliveries
  BY <1>4 DEF FinishDelivery, Deliveries
<1>5. ASSUME NEW i \in Instances, ConsumeCandidate(i)
      PROVE  event' \in Deliveries
  <2>1. ASSUME NEW x, event' = [event EXCEPT !.todo = event.todo \ {x}]
        PROVE  event' \in Deliveries
    BY <2>1 DEF Deliveries
  <2>2. QED
    BY <1>3, <1>5, <2>1 DEF ConsumeCandidate
<1>6. \/ UNCHANGED event \/ DeliveryFailed
      \/ \E i \in Instances :
           DeliverFinalized(i) \/ FinishDelivery(i) \/ ConsumeCandidate(i)
  <2>1. \A i \in Instances, v \in Vids :
          \/ ApiAccept(i, v) \/ ApiExecute(i, v) \/ StartTask(i, v) \/ TaskFails(i, v)
          \/ TaskTimesOut(i, v) \/ TaskRejected(i, v) \/ ExecutionStep(i, v)
          => UNCHANGED event
    BY DEF ApiAccept, ApiExecute, StartTask, TaskFails, TaskTimesOut, TaskRejected,
           ExecutionStep, ReadState, Prepare, Prepared, Verify, Verified, ReadInputs,
           RunModules, Reread, Finalize
  <2>2. \A v \in Vids :
          /\ \A review \in Reviews : SubmitReview(v, review) => UNCHANGED event
          /\ \A c \in Claims : ImportPackage(v, c) => UNCHANGED event
          /\ DeadlinePasses(v) \/ ReviewDuePasses(v) => UNCHANGED event
          /\ \A a \in Auths, mode \in Modes :
               DeriveAuthorization(a, v, mode) => UNCHANGED event
    BY DEF SubmitReview, ImportPackage, DeadlinePasses, ReviewDuePasses,
           DeriveAuthorization
  <2>3. \A a \in Auths :
          \/ IssueAuthorization(a) \/ ExpireAuthorization(a) \/ RequestPublication(a)
          \/ ConsumeAndPublish(a)
          => UNCHANGED event
    BY DEF IssueAuthorization, ExpireAuthorization, RequestPublication, ConsumeAndPublish
  <2>4. \A i \in Instances :
          /\ Crash(i) => DeliveryFailed \/ UNCHANGED event
          /\ \A c \in Candidates, n \in 1..MaxVersion :
               Revise(i, c, n) => UNCHANGED event
    BY DEF Crash, Revise
  <2>5. QED
    BY <2>1, <2>2, <2>3, <2>4 DEF Next, vars
<1>7. QED
  BY <1>1, <1>2, <1>3, <1>4, <1>5, <1>6

\* Every step but those of an authorization.
LEMMA OrdinarySteps ==
  ASSUME Lawful,
         \/ UNCHANGED vars
         \/ \E i \in Instances :
              \/ DeliverFinalized(i) \/ ConsumeCandidate(i) \/ FinishDelivery(i)
              \/ Crash(i)
              \/ \E v \in Vids :
                   \/ ApiAccept(i, v) \/ ApiExecute(i, v) \/ StartTask(i, v)
                   \/ ExecutionStep(i, v) \/ TaskFails(i, v) \/ TaskTimesOut(i, v)
                   \/ TaskRejected(i, v)
              \/ \E c \in Candidates, n \in 1..MaxVersion : Revise(i, c, n)
         \/ \E v \in Vids :
              \/ \E review \in Reviews : SubmitReview(v, review)
              \/ \E c \in Claims : ImportPackage(v, c)
              \/ DeadlinePasses(v)
              \/ ReviewDuePasses(v)
  PROVE  Ordinary
<1>1. Rows /\ Executed /\ event \in Deliveries /\ \A v \in Vids : Grounded(v)
  BY DEF Lawful
<1>2. ASSUME NEW i \in Instances, NEW v \in Vids, ExecutionStep(i, v)
      PROVE  Ordinary
  BY <1>1, <1>2, ReadingSteps, PrepareStep, VerifyStep, RunModulesStep, FinalizeStep
     DEF ExecutionStep
<1>3. QED
  BY <1>1, <1>2, ReadingSteps, OutsideSteps, CrashStep, AcceptingSteps, ReviseStep,
     ReviewStep, ImportStep

LEMMA OrdinaryKeeps ==
  ASSUME Lawful, Ordinary
  PROVE  Rows' /\ Executed' /\ (\A v \in Vids : Grounded(v)') /\ Authorized'
<1>1. \A v \in Vids : Grounded(v) /\ Move(v)
  BY DEF Lawful, Ordinary, Move
<1>2. \A v \in Vids : Grounded(v)'
  BY <1>1, MoveKeepsGrounds DEF Lawful, Ordinary
<1>3. Executed'
  BY <1>1, ExecutedKept DEF Lawful, Ordinary
<1>4. Authorized'
  BY <1>1, AuthorityKept DEF Lawful, Ordinary
<1>5. QED
  BY <1>2, <1>3, <1>4 DEF Ordinary

LEMMA ReleaseSteps ==
  ASSUME Lawful,
         \/ \E a \in Auths, v \in Vids, mode \in Modes : DeriveAuthorization(a, v, mode)
         \/ \E a \in Auths : \/ IssueAuthorization(a) \/ ExpireAuthorization(a)
                            \/ RequestPublication(a) \/ ConsumeAndPublish(a)
  PROVE  Rows' /\ Stands /\ Advances /\ Authorized' /\ \A v \in Vids : Move(v)
<1>1. Rows /\ Authorized
  BY DEF Lawful
<1>2. ASSUME NEW a \in Auths, ExpireAuthorization(a) \/ RequestPublication(a)
      PROVE  Rows' /\ Stands /\ Advances /\ Authorized' /\ \A v \in Vids : Move(v)
  <2>1. /\ UNCHANGED <<cand, ver, result, exec>>
        /\ \/ auth' = [auth EXCEPT ![a].late = TRUE]
           \/ auth' = [auth EXCEPT ![a].asked = TRUE]
    BY <1>2 DEF ExpireAuthorization, RequestPublication, stored, execution
  <2>2. QED
    BY <1>1, <2>1, MarkStep DEF Move, Quiet
<1>3. QED
  BY <1>1, <1>2, DeriveStep, IssueStep, PublishStep DEF Move, Quiet

\* What a step may do to the verifications, and that Lawful survives it.
LEMMA NextLawful ==
  ASSUME Lawful, [Next]_vars
  PROVE  Lawful' /\ \A v \in Vids : Grounded(v) /\ Move(v)
<1>1. event' \in Deliveries
  BY DeliveriesKept DEF Lawful
<1>2. CASE Ordinary
  BY <1>1, <1>2, OrdinaryKeeps DEF Lawful, Ordinary, Move
<1>3. CASE ~Ordinary
  <2>1. \/ \E a \in Auths, v \in Vids, mode \in Modes : DeriveAuthorization(a, v, mode)
        \/ \E a \in Auths : \/ IssueAuthorization(a) \/ ExpireAuthorization(a)
                           \/ RequestPublication(a) \/ ConsumeAndPublish(a)
    BY <1>3, OrdinarySteps DEF Next
  <2>2. Rows' /\ Stands /\ Advances /\ Authorized' /\ \A v \in Vids : Move(v)
    BY <2>1, ReleaseSteps
  <2>3. /\ \A v \in Vids : Grounded(v) /\ Move(v)
        /\ Rows /\ Executed
    BY <2>2 DEF Lawful
  <2>4. \A v \in Vids : Grounded(v)'
    BY <2>2, <2>3, MoveKeepsGrounds
  <2>5. Executed'
    BY <2>2, <2>3, ExecutedKept
  <2>6. QED
    BY <1>1, <2>2, <2>3, <2>4, <2>5 DEF Lawful
<1>4. QED
  BY <1>2, <1>3

LEMMA AlwaysLawful == Spec => []Lawful
<1>1. Init => Lawful
  BY InitLawful
<1>2. Lawful /\ [Next]_vars => Lawful'
  BY NextLawful
<1>3. QED
  BY <1>1, <1>2, PTL DEF Spec

-----------------------------------------------------------------------------
\* Theorems

\* A verification is RELEASED exactly when one authorization was consumed for
\* it (consume_and_publish, the unique key of topic4_release_authorizations).
THEOREM ReleasesHappenOnce == Spec => []ReleasedOnce
<1>1. Lawful => ReleasedOnce
  <2> SUFFICES ASSUME Lawful, NEW v \in Vids
               PROVE  Cardinality(Consumed(v))
                        = (IF ver[v].state = "RELEASED" THEN 1 ELSE 0)
    BY DEF ReleasedOnce
  <2>1. CASE ver[v].state = "RELEASED"
    <3>1. PICK a \in Auths : a \in Consumed(v)
      BY <2>1 DEF Lawful, Authorized, Consumed
    <3>2. Consumed(v) = {a}
      BY <3>1 DEF Lawful, Authorized, Consumed, HasRow, AuthorizationRows
    <3>3. QED
      BY <2>1, <3>2, FS_Singleton
  <2>2. CASE ver[v].state # "RELEASED"
    <3>1. Consumed(v) = {}
      BY <2>2 DEF Lawful, Authorized, Consumed
    <3>2. QED
      BY <2>2, <3>1, FS_EmptySet
  <2>3. QED
    BY <2>1, <2>2
<1>2. QED
  BY <1>1, AlwaysLawful, PTL

\* The first bundle persisted for a verification stays, and its report is the
\* decision that bundle calls for (persist_module_execution and
\* finalize_control_plane, whoever races).
THEOREM OneExecutionDecides == Spec => DecidedByOneExecution
<1> DEFINE Step ==
      \A v \in Vids :
        /\ result[v].bundle # NoAnswer => result'[v].bundle = result[v].bundle
        /\ result'[v].decision # result[v].decision =>
             result'[v].decision = Decision(result[v].bundle, result[v].risk,
                                            ver[v].round)
<1>1. Lawful /\ [Next]_vars => Step
  <2> SUFFICES ASSUME Lawful, [Next]_vars, NEW v \in Vids
               PROVE  /\ result[v].bundle # NoAnswer =>
                           result'[v].bundle = result[v].bundle
                      /\ result'[v].decision # result[v].decision =>
                           result'[v].decision = Decision(result[v].bundle,
                                                   result[v].risk, ver[v].round)
    OBVIOUS
  <2>1. Grounded(v) /\ Move(v)
    BY NextLawful
  <2>2. QED
    BY <2>1, BundleStays DEF Move, Quiet, Stays, Opens, Prepares, Verifies, Runs,
                             Decides, Resumes, Releases, Kept
<1>2. QED
  BY <1>1, AlwaysLawful, PTL DEF Spec, DecidedByOneExecution

\* What is published was verified completely and is sound as far as the
\* detectors look and the extractor reads, wherever their bounds are, whatever
\* the agents write and the modules leave unanswered.
THEOREM PublishedWasVerified == Spec => []PublishedIsVerified
<1>1. Lawful => PublishedIsVerified
  <2> SUFFICES ASSUME Lawful, NEW a \in Auths, auth[a].at = "consumed"
               PROVE  LET r == result[auth[a].v]
                          content == ContentOf(auth[a].v)
                      IN  /\ r.bundle # NoAnswer
                          /\ Sound(content)
                          /\ \A c \in ClaimsOf(content) :
                               /\ DOMAIN r.bundle[c]
                                    = MandatoryModules(ClaimKind(content[c]))
                               /\ \A m \in DOMAIN r.bundle[c] :
                                    \/ r.bundle[c][m] \in {"SUPPORTED",
                                                          "NOT_APPLICABLE"}
                                    \/ /\ r.bundle[c][m] = "PARTIALLY_SUPPORTED"
                                       /\ auth[a].mode = "DISCLOSED"
                                       /\ r.risk[c] \in {"LOW", "MEDIUM"}
    BY DEF PublishedIsVerified
  <2>1. PICK v \in Vids, mode \in Modes : v = auth[a].v /\ mode = auth[a].mode
    BY DEF Lawful, Rows
  <2>2. /\ ver[v].state = "RELEASED" /\ result[v].decision = ModeDecision(mode)
        /\ Grounded(v) /\ Rows
    BY <2>1 DEF Lawful, Authorized, ReleaseAuthority
  <2>3. result[v].decision # "NONE"
    BY <2>2 DEF ModeDecision
  <2>4. /\ result[v].bundle # NoAnswer /\ Extractable(ContentOf(v))
        /\ v[2] <= Len(cand[v[1]])
    BY <2>2, <2>3 DEF Grounded, Exists
  <2>5. PICK outages \in 0..MaxOutages : result[v].bundle \in Bundles[NameOf(v)][outages]
    BY <2>2, <2>4 DEF Grounded
  <2>6. PICK round \in 0..MaxRounds :
          Decision(result[v].bundle, result[v].risk, round) = ModeDecision(mode)
    BY <2>2, <2>3 DEF Grounded
  <2>7. PICK k \in Offered : k = NameOf(v)
    BY <2>2, <2>4, Kinds
  <2>8. PICK b, risk : b = result[v].bundle /\ risk = result[v].risk
    OBVIOUS
  <2>9. /\ Sound(Contents[k])
        /\ \A c \in ClaimsOf(Contents[k]) :
             /\ DOMAIN b[c] = MandatoryModules(ClaimKind(Contents[k][c]))
             /\ \A m \in DOMAIN b[c] :
                  \/ b[c][m] \in {"SUPPORTED", "NOT_APPLICABLE"}
                  \/ /\ b[c][m] = "PARTIALLY_SUPPORTED"
                     /\ mode = "DISCLOSED"
                     /\ risk[c] \in {"LOW", "MEDIUM"}
    BY <2>4, <2>5, <2>6, <2>7, <2>8, ReleasedIsSound DEF ContentOf
  <2>10. QED
    BY <2>1, <2>4, <2>7, <2>8, <2>9 DEF ContentOf
<1>2. QED
  BY <1>1, AlwaysLawful, PTL

=============================================================================
