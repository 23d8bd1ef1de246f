-------------------------- MODULE AcademicVerifier --------------------------
(***************************************************************************)
(* C3, the academic verifier (domains/academic): the verdict on a text or  *)
(* formula claim, from the formulas it contains, the passages the          *)
(* retrieval has found for it, the numbers it asserts, the control systems *)
(* it calls stable and the theorems it appeals to.                         *)
(*                                                                         *)
(* Computer algebra is modelled by what it decides: a formula is its       *)
(* relation and the value of its residual (left minus right side) at the   *)
(* sample points; a linear system is its domain and its poles; a passage   *)
(* is how it reads next to the claim.                                      *)
(***************************************************************************)
EXTENDS Integers, Sequences, FiniteSets

\* Worst first: what several findings amount to together.
Severity == <<"UNSAFE", "CONTRADICTED", "ERROR", "INSUFFICIENT_EVIDENCE",
              "PARTIALLY_SUPPORTED", "SUPPORTED", "NOT_APPLICABLE">>

StrictestVerdict(verdicts) ==
  LET present == {n \in DOMAIN Severity : Severity[n] \in verdicts}
  IN  IF present = {} THEN "NOT_APPLICABLE"
      ELSE Severity[CHOOSE n \in present : \A k \in present : n <= k]

-----------------------------------------------------------------------------
\* Formulas, as SafeFormulaParser.extract finds them (what does not parse, and
\* a repetition, is dropped there): [relation, at, samples, applied, symbols].
\* "at" is the residual, left minus right side, at the points of its domain; a
\* point says what the variables and the unknown functions stand for.
\* "samples" are the assignments at which it evaluates to a real number of at
\* most 10^12; "applied" says that it applies an unknown function, which
\* nothing can evaluate.

Relations == {"none", "=", "!=", "<", "<=", ">", ">="}

\* _assignments: nine of them, numbered as the points they are.
Assignments == 1..9

\* Each is drawn eight times at most (numeric_samples * 3 draws).
Draws == 8

\* numeric_samples \div 2
MinSamples == 12

MaxSymbols == 16

\* The formulas of one claim, over the same points.
FormulasOn(points) ==
  Seq([relation: Relations, at: [points -> Int],
       samples: SUBSET (points \intersect Assignments), applied: BOOLEAN,
       symbols: SUBSET STRING])

Derivation(formulas) ==
  formulas # << >> => formulas \in FormulasOn(DOMAIN formulas[1].at)

RelationTruth(relation, residual) ==
  CASE relation = "=" -> residual = 0
    [] relation = "!=" -> residual # 0
    [] relation = "<" -> residual < 0
    [] relation = "<=" -> residual <= 0
    [] relation = ">" -> residual > 0
    [] OTHER -> residual >= 0

SameResidual(f, g) == f.at = g.at

Vanishes(f) == \A p \in DOMAIN f.at : f.at[p] = 0

\* The quotient of the residuals is the same at every point.
Proportional(f, g) ==
  \A p, q \in DOMAIN f.at : f.at[p] * g.at[q] = f.at[q] * g.at[p]

SameSign(f, g) == \A p \in DOMAIN f.at : f.at[p] * g.at[p] >= 0

\* _symbolic_equivalence: "yes", "no" or "unknown".  A constant factor is
\* equivalence for an equation, and for expressions without a relation too;
\* an inequality needs a positive one.  Unknown functions may cancel out.
SymbolicEquivalence(f, g) ==
  IF f.relation # g.relation THEN "unknown"
  ELSE IF SameResidual(f, g) THEN "yes"
  ELSE IF Vanishes(g) THEN "unknown"
  ELSE IF Vanishes(f) \/ ~Proportional(f, g) THEN "no"
  ELSE IF f.relation \in {"none", "="} \/ SameSign(f, g) THEN "yes"
  ELSE "no"

\* The assignments at which _evaluate_pair has two numbers.
Sampled(f, g) == f.samples \intersect g.samples

\* _evaluate_pair at one sample point.
PointsMatch(f, g, p) ==
  IF f.relation = "none"
    THEN f.at[p] = g.at[p]
    ELSE RelationTruth(f.relation, f.at[p]) = RelationTruth(g.relation, g.at[p])

\* _numeric_equivalence: samples refute, and enough of them confirm
\* expressions without a relation.
NumericEquivalence(f, g) ==
  IF \/ f.relation # g.relation
     \/ f.applied \/ g.applied
     \/ Cardinality(f.symbols \union g.symbols) > MaxSymbols THEN "unknown"
  ELSE IF \E p \in Sampled(f, g) : ~PointsMatch(f, g, p) THEN "no"
  ELSE IF f.relation = "none" /\ Draws * Cardinality(Sampled(f, g)) >= MinSamples
    THEN "yes"
  ELSE "unknown"

\* A bug: a derivation step that no sample refutes passes.
EquivalentUnlessRefuted(f, g) ==
  NumericEquivalence(f, g) # "no"

\* compare
Equivalent(f, g) ==
  SymbolicEquivalence(f, g) = "yes" \/ NumericEquivalence(f, g) = "yes"

\* DerivationChecker.check: every formula follows from the one before.
DerivationVerdict(formulas) ==
  IF \A n \in 1..(Len(formulas) - 1) : Equivalent(formulas[n], formulas[n + 1])
    THEN "SUPPORTED" ELSE "CONTRADICTED"

\* _analyze_formulas.  Without evidence the outcome of the derivation is
\* forgotten.
FormulaVerdict(claim, evidence) ==
  IF claim.formulas = << >> THEN "NOT_APPLICABLE"
  ELSE IF evidence = << >> THEN "INSUFFICIENT_EVIDENCE"
  ELSE DerivationVerdict(claim.formulas)

-----------------------------------------------------------------------------
\* Passages: [reads, numbers, conditions].

\* The readings of a passage, strongest test first: the same statement, an
\* explicit contradiction (_explicit_contradiction: an order, a dependency,
\* a polarity reversed), a claim that extrapolates, a denied predicate, and
\* enough common ground with a claim that is not stronger.
Readings == {"same", "reversed", "extrapolated", "denied", "covered",
             "stronger", "unrelated"}

\* _assess
Assess(reading) ==
  CASE reading \in {"same", "covered"} -> "SUPPORTED"
    [] reading \in {"reversed", "denied"} -> "CONTRADICTED"
    [] OTHER -> "INSUFFICIENT_EVIDENCE"

\* SemanticFactVerifier.verify
FactVerdict(evidence) ==
  LET found == {Assess(evidence[n].reads) : n \in DOMAIN evidence}
  IN  IF {"SUPPORTED", "CONTRADICTED"} \subseteq found THEN "PARTIALLY_SUPPORTED"
      ELSE IF "CONTRADICTED" \in found THEN "CONTRADICTED"
      ELSE IF "SUPPORTED" \in found THEN "SUPPORTED"
      ELSE "INSUFFICIENT_EVIDENCE"

-----------------------------------------------------------------------------
\* Numbers: [operator, value, unit], in the base unit of their dimension.

Distance(m, n) == IF m < n THEN n - m ELSE m - n

\* _satisfies, without the tolerance.
Satisfies(asserted, observed) ==
  IF asserted.operator = "=" THEN observed = asserted.value
  ELSE RelationTruth(asserted.operator, observed - asserted.value)

\* The numbers of the passages in the order they are read.
EvidenceNumbers(evidence) ==
  UNION {{<<n, k>> : k \in DOMAIN evidence[n].numbers} : n \in DOMAIN evidence}

\* _match: the nearest number of the same unit, the first one on a tie,
\* speaks for the evidence.
MatchNumber(asserted, evidence) ==
  LET number(at) == evidence[at[1]].numbers[at[2]]
      compatible == {at \in EvidenceNumbers(evidence) :
                       number(at).unit = asserted.unit}
      far(at) == Distance(number(at).value, asserted.value)
      before(at, other) == \/ at[1] < other[1]
                           \/ at[1] = other[1] /\ at[2] <= other[2]
      nearest == CHOOSE at \in compatible : \A other \in compatible :
                   \/ far(at) < far(other)
                   \/ far(at) = far(other) /\ before(at, other)
  IN  IF compatible = {} THEN "INSUFFICIENT_EVIDENCE"
      ELSE IF Satisfies(asserted, number(nearest).value) THEN "SUPPORTED"
      ELSE "CONTRADICTED"

\* NumericFactVerifier._aggregate
NumericVerdict(claim, evidence) ==
  LET found == {MatchNumber(claim.numbers[n], evidence) :
                  n \in DOMAIN claim.numbers}
  IN  IF claim.numbers = << >> THEN "NOT_APPLICABLE"
      ELSE IF "CONTRADICTED" \in found THEN "CONTRADICTED"
      ELSE IF found = {"INSUFFICIENT_EVIDENCE"} THEN "INSUFFICIENT_EVIDENCE"
      ELSE IF "INSUFFICIENT_EVIDENCE" \in found THEN "PARTIALLY_SUPPORTED"
      ELSE "SUPPORTED"

-----------------------------------------------------------------------------
\* Linear systems: [domain, poles], a pole being its real and imaginary part.

Modulus2(pole) == pole[1] * pole[1] + pole[2] * pole[2]

Outside(domain, pole) ==
  IF domain = "CONTINUOUS" THEN pole[1] > 0 ELSE Modulus2(pole) > 1

Boundary(domain, pole) ==
  IF domain = "CONTINUOUS" THEN pole[1] = 0 ELSE Modulus2(pole) = 1

RepeatedBoundaryPole(system) ==
  \E j, k \in DOMAIN system.poles :
    /\ j < k
    /\ system.poles[j] = system.poles[k]
    /\ Boundary(system.domain, system.poles[j])

\* _conclude; "finite" fails when a pole overflows.
Conclude(system) ==
  IF ~system.finite THEN "INDETERMINATE"
  ELSE IF \E n \in DOMAIN system.poles : Outside(system.domain, system.poles[n])
    THEN "UNSTABLE"
  ELSE IF RepeatedBoundaryPole(system) THEN "UNSTABLE"
  ELSE IF \E n \in DOMAIN system.poles : Boundary(system.domain, system.poles[n])
    THEN "MARGINAL"
  ELSE "STABLE"

\* StabilityEngine._verdict
StabilityAgainst(conclusion, expected) ==
  IF conclusion = "INDETERMINATE" THEN "INSUFFICIENT_EVIDENCE"
  ELSE IF conclusion = expected THEN "SUPPORTED"
  ELSE IF "MARGINAL" \in {conclusion, expected} THEN "PARTIALLY_SUPPORTED"
  ELSE "CONTRADICTED"

\* _analyze_stability of AcademicVerifierV2: only a claim that speaks of
\* stability and gives a system to analyse.
StabilityVerdict(claim) ==
  IF claim.expected = "none" \/ claim.systems = {} THEN "NOT_APPLICABLE"
  ELSE StrictestVerdict({StabilityAgainst(Conclude(system), claim.expected) :
                           system \in claim.systems})

-----------------------------------------------------------------------------
\* Theorems: a registered theorem maps its conditions to whether they are
\* mandatory; a passage maps the conditions it is about to "for" or "against".

\* EvidenceConditionResolver.resolve
ResolveCondition(condition, evidence) ==
  LET said == {evidence[n].conditions[condition] :
                 n \in {k \in DOMAIN evidence :
                          condition \in DOMAIN evidence[k].conditions}}
  IN  IF said = {"for"} THEN "satisfied"
      ELSE IF said = {"against"} THEN "failed"
      ELSE "unknown"

\* TheoremVerifier.check
TheoremCheck(theorem, evidence) ==
  LET mandatory == {c \in DOMAIN theorem : theorem[c]}
      is(c, s) == ResolveCondition(c, evidence) = s
  IN  IF \E c \in mandatory : is(c, "failed") THEN "CONTRADICTED"
      ELSE IF \E c \in mandatory : is(c, "unknown") THEN "INSUFFICIENT_EVIDENCE"
      ELSE IF \E c \in DOMAIN theorem : ~is(c, "satisfied") THEN "PARTIALLY_SUPPORTED"
      ELSE "SUPPORTED"

\* _analyze_theorem of AcademicVerifierV2: the registered theorems a claim
\* names (the deployed registry is empty).
TheoremVerdict(claim, evidence) ==
  StrictestVerdict({TheoremCheck(t, evidence) : t \in claim.theorems})

-----------------------------------------------------------------------------
\* AcademicVerifierHandler.verify
AcademicVerdict(claim, evidence) ==
  LET verdict == StrictestVerdict(
        {FormulaVerdict(claim, evidence), FactVerdict(evidence),
         NumericVerdict(claim, evidence), StabilityVerdict(claim),
         TheoremVerdict(claim, evidence)})
  IN  IF verdict = "SUPPORTED" /\ evidence = << >>
        THEN "INSUFFICIENT_EVIDENCE" ELSE verdict

=============================================================================
