------------------------- MODULE ResourceVerifiers -------------------------
(***************************************************************************)
(* The vertical modules for what is not prose: C4 for mind maps            *)
(* (domains/graph), C5 for quizzes (domains/quiz), C6 for simulation code  *)
(* (domains/code) and C7 for reading lists (domains/extension).            *)
(*                                                                         *)
(* They read one claim, the passages the retrieval has found for it, and   *)
(* the Topic 1 snapshot: the names of its knowledge points, their          *)
(* prerequisites and the golden questions.  A claim is one string of its   *)
(* block; "scope" says where in the block it stood: inside a question or a *)
(* resource ("item") or above it ("heading").  Text similarities and       *)
(* shares are in hundredths.                                               *)
(***************************************************************************)
EXTENDS Integers, Sequences, FiniteSets

LOCAL Topology == INSTANCE Topic1Topology

-----------------------------------------------------------------------------
\* C4.  A Mermaid source is a sequence of lines; a claim is a whole leaf of
\* the block, so it may also be the label of a node or the direction.

\* ClaimExtractor._normalize turns line breaks into spaces: what was several
\* lines is one the grammar does not know.
Normalized(lines) == IF Len(lines) > 1 THEN <<[is |-> "text"]>> ELSE lines

NodeLines(lines) == {n \in DOMAIN lines : lines[n].is = "node"}

EdgeLines(lines) == {n \in DOMAIN lines : lines[n].is = "edge"}

\* _find_header
HasHeader(lines) == lines # << >> /\ lines[1].is = "header"

\* BoundedMermaidParser.parse ends without a syntax or security error.
Parses(lines) ==
  /\ HasHeader(lines)
  /\ \A n \in 2..Len(lines) : lines[n].is \in {"node", "edge", "comment"}
  /\ NodeLines(lines) \union EdgeLines(lines) # {}
  /\ \A m, n \in NodeLines(lines) : lines[m].id = lines[n].id => m = n
  /\ \A n \in EdgeLines(lines) : lines[n].from # lines[n].to
  /\ \A m, n \in EdgeLines(lines) : lines[m] = lines[n] => m = n

\* The nodes and their labels; a node only an edge names is its own label.
ParsedNodes(lines) ==
  LET declared == {lines[n].id : n \in NodeLines(lines)}
      implied == UNION {{lines[n].from, lines[n].to} : n \in EdgeLines(lines)}
      line(id) == CHOOSE n \in NodeLines(lines) : lines[n].id = id
  IN  [id \in declared \union implied |->
         IF id \in declared THEN lines[line(id)].label ELSE id]

ParsedEdges(lines) == {lines[n] : n \in EdgeLines(lines)}

Labelled(snapshot, label) ==
  {kp \in DOMAIN snapshot.points : label \in snapshot.points[kp]}

\* _resolve_node and _label_matches_point: the points a node may stand for.
\* An id is believed only when the label agrees with it.
ResolveNode(snapshot, id, label) ==
  IF id \in DOMAIN snapshot.points
    THEN IF label \in snapshot.points[id] THEN {id} ELSE {}
    ELSE IF Cardinality(Labelled(snapshot, label)) = 1
           THEN Labelled(snapshot, label) ELSE {}

\* Topic1GraphVerifier.verify and _verdict
MindMapVerdict(lines, snapshot, evidence) ==
  LET nodes == ParsedNodes(lines)
      mapped == [id \in DOMAIN nodes |-> ResolveNode(snapshot, id, nodes[id])]
      resolved == {e \in ParsedEdges(lines) :
                     mapped[e.from] # {} /\ mapped[e.to] # {}}
      present == UNION {mapped[id] : id \in DOMAIN nodes}
      declared == UNION {mapped[e.from] \X mapped[e.to] :
                   e \in {r \in resolved : r.relation = "PREREQUISITE"}}
      contradicted ==
        \/ ~(declared \subseteq snapshot.prerequisites)
        \/ \E p \in snapshot.prerequisites \ declared :
             p[1] \in present /\ p[2] \in present
        \/ Topology!HasCycle(present, declared)
      unverifiable ==
        \/ \E id \in DOMAIN nodes : mapped[id] = {}
        \/ \E e \in ParsedEdges(lines) : e.relation # "PREREQUISITE"
        \/ evidence = << >>
  IN  IF contradicted THEN "CONTRADICTED"
      ELSE IF unverifiable THEN "INSUFFICIENT_EVIDENCE"
      ELSE "SUPPORTED"

\* The handler parses the normalized statement of the claim.
GraphVerdict(claim, snapshot, evidence) ==
  IF Parses(Normalized(claim.lines))
    THEN MindMapVerdict(Normalized(claim.lines), snapshot, evidence)
    ELSE "UNSAFE"

-----------------------------------------------------------------------------
\* C5.  A question gives its targets, its type, its answer, the stem's
\* likeness to each golden question, and what its parts amount to.

\* _select_golden_question: the question of that id, else the most alike;
\* two that are equally alike decide nothing.
GoldenQuestion(question, snapshot) ==
  LET golden == snapshot.golden
      candidates == {g \in DOMAIN golden :
                       golden[g].points \intersect question.targets # {}}
      like(g) == question.likeness[g]
      best == CHOOSE g \in candidates : \A h \in candidates : like(g) >= like(h)
  IN  IF candidates = {} THEN {}
      ELSE IF question.id \in candidates THEN {question.id}
      ELSE IF \E h \in candidates \ {best} : like(best) - like(h) < 2 THEN {}
      ELSE {best}

\* _answer_coverage: every leaf of the authoritative answer is found.
AnswerCorrect(question, golden) ==
  golden.answer # {} /\ golden.answer \subseteq question.answer

\* _solution_is_coherent: steps that differ, no placeholder, and a likeness
\* to the answer and to the golden solution.
SolutionCoherent(question, golden) ==
  /\ question.steps # << >>
  /\ \A m, n \in DOMAIN question.steps :
       question.steps[m] = question.steps[n] => m = n
  /\ golden.solution \intersect {question.steps[n] : n \in DOMAIN question.steps}
       # {}

\* _diagnosis_is_valid
DiagnosisValid(question, golden) ==
  IF golden.misconceptions = {}
    THEN question.diagnoses = {}
    ELSE /\ question.diagnoses \subseteq golden.misconceptions \union golden.tags
         /\ question.diagnoses \intersect golden.misconceptions # {}

\* Topic1QuizVerifier.verify and _verdict
QuestionVerdict(question, snapshot, evidence) ==
  LET chosen == GoldenQuestion(question, snapshot)
      id == CHOOSE g \in chosen : TRUE
      golden == snapshot.golden[id]
      contradicted ==
        \/ question.likeness[id] < 18
        \/ ~AnswerCorrect(question, golden)
        \/ ~SolutionCoherent(question, golden)
        \/ ~DiagnosisValid(question, golden)
        \/ question.type \notin golden.types
      doubtful ==
        \/ ~(question.targets \subseteq DOMAIN snapshot.points)
        \/ ~question.clear
        \/ question.difficulty - golden.difficulty > 26
        \/ golden.difficulty - question.difficulty > 26
  IN  IF chosen # {} /\ contradicted THEN "CONTRADICTED"
      ELSE IF chosen = {} \/ evidence = << >> THEN "INSUFFICIENT_EVIDENCE"
      ELSE IF doubtful THEN "PARTIALLY_SUPPORTED"
      ELSE "SUPPORTED"

\* FrozenQuizParser.parse: a claim that does not point into a question is a
\* violation of the contract.
QuizVerdict(claim, snapshot, evidence) ==
  IF claim.scope = "item"
    THEN QuestionVerdict(claim.question, snapshot, evidence)
    ELSE "UNSAFE"

-----------------------------------------------------------------------------
\* C6.  A file is [language, parses, does, loops, poles, grid]: what it does
\* that the analyzers look for, the iterations of its loops (0: unknown), the
\* real parts of the poles of its models and the size of its time grid.

MaxLoopIterations == 1000000
MaxTimeGrid == 1000000

Dangers == {"dangerous_import", "unapproved_import", "while", "unbounded_number",
            "dunder", "dangerous_call", "unseeded_random", "node_limit"}

\* PythonStaticAnalyzer.analyze; nothing is looked for in an invalid file.
PythonFindings(file) ==
  IF ~file.parses THEN {"syntax"}
  ELSE (file.does \intersect Dangers)
         \union {"unbounded_for" : n \in file.loops \intersect {0}}
         \union {"loop_limit" : n \in {k \in file.loops : k > MaxLoopIterations}}

\* MatlabStaticAnalyzer.analyze: no imports, and one loop with literal bounds
\* vouches for all of them.
MatlabFindings(file) ==
  (file.does \intersect {"dangerous_call", "while"})
    \union {"syntax" : x \in {file.parses} \ {TRUE}}
    \union {"unbounded_for" : n \in IF file.loops = {0} THEN {0} ELSE {}}

FileFindings(file) ==
  IF file.language = "PYTHON" THEN PythonFindings(file) ELSE MatlabFindings(file)

\* A python file that does not parse shows no model.
Shown(files, what) ==
  \E f \in files : what \in f.does /\ (f.parses \/ f.language = "MATLAB")

PolesOf(files) ==
  UNION {f.poles : f \in {g \in files : g.parses \/ g.language = "MATLAB"}}

\* CodeStaticAnalyzer.analyze, with what the block's text claims.
CodeFindings(files, claims) ==
  LET poles == PolesOf(files)
      flags == [model_missing |-> ~Shown(files, "model"),
                simulation_missing |-> ~Shown(files, "simulation"),
                time_grid_limit |-> \E f \in files : f.grid > MaxTimeGrid,
                stability_unresolved |-> /\ claims # {} /\ poles = {}
                                         /\ Shown(files, "model"),
                stability_contradiction |->
                  "stable" \in claims /\ \E p \in poles : p >= 0,
                unstable_contradiction |->
                  "unstable" \in claims /\ poles # {} /\ \A p \in poles : p < 0]
  IN  UNION {FileFindings(f) : f \in files}
        \union {k \in DOMAIN flags : flags[k]}

UnsafeFindings == Dangers \union {"unbounded_for", "loop_limit", "time_grid_limit"}

\* _verification_result
CodeResult(findings, evidence) ==
  IF findings \intersect UnsafeFindings # {} THEN "UNSAFE"
  ELSE IF "stability_unresolved" \in findings THEN "INSUFFICIENT_EVIDENCE"
  ELSE IF findings # {} THEN "CONTRADICTED"
  ELSE IF evidence = << >> THEN "INSUFFICIENT_EVIDENCE"
  ELSE "SUPPORTED"

\* FrozenCodeBundleParser takes files of one language; the claim is about the
\* whole block.
CodeVerdict(claim, evidence) ==
  IF Cardinality({f.language : f \in claim.files}) = 1
    THEN CodeResult(CodeFindings(claim.files, claim.claims), evidence)
    ELSE "UNSAFE"

-----------------------------------------------------------------------------
\* C7.  A resource names the points it is relevant to, which of them its text
\* matches, and what its citation is worth.

Incompatible == {"GPL-3.0", "AGPL-3.0", "CC-BY-NC"}

\* The licences in the order of _LICENSE_PATTERNS, each with the terms its
\* pattern finds: "cc by" is found in "cc by-nc" and "gpl" in "agpl".
LicencePatterns ==
  <<[name |-> "CC-BY-4.0", finds |-> {"cc by", "cc by-nc"}],
    [name |-> "MIT", finds |-> {"mit"}],
    [name |-> "GPL-3.0", finds |-> {"gpl", "agpl"}],
    [name |-> "AGPL-3.0", finds |-> {"agpl"}],
    [name |-> "CC-BY-NC", finds |-> {"cc by-nc"}]>>

\* _license_expression: the first pattern that finds one of the terms of the
\* citation and the passages.
LicenceExpression(terms) ==
  LET found == {n \in DOMAIN LicencePatterns :
                  LicencePatterns[n].finds \intersect terms # {}}
  IN  IF found = {} THEN "UNKNOWN"
      ELSE LicencePatterns[CHOOSE n \in found : \A k \in found : n <= k].name

\* knowledge_relevance, in hundredths
KnowledgeRelevance(resource, snapshot) ==
  LET all == Cardinality(resource.points)
      known == Cardinality(resource.points \intersect DOMAIN snapshot.points)
      matched == Cardinality(resource.matched \intersect DOMAIN snapshot.points)
  IN  (60 * known + 40 * matched) \div all

\* Topic1ExtensionVerifier.analyze
ResourceVerdict(resource, snapshot, evidence) ==
  LET licence == LicenceExpression(resource.terms)
      outside == \/ ~resource.inCorpus \/ ~resource.cited
                 \/ ~(resource.points \subseteq DOMAIN snapshot.points)
  IN  IF evidence = << >> THEN "INSUFFICIENT_EVIDENCE"
      ELSE IF licence \in Incompatible THEN "UNSAFE"
      ELSE IF outside THEN "CONTRADICTED"
      ELSE IF licence = "UNKNOWN" \/ ~resource.dated THEN "INSUFFICIENT_EVIDENCE"
      ELSE IF KnowledgeRelevance(resource, snapshot) < 50 THEN "CONTRADICTED"
      ELSE "SUPPORTED"

\* FrozenExtensionParser.parse
ExtensionVerdict(claim, snapshot, evidence) ==
  IF claim.scope = "item"
    THEN ResourceVerdict(claim.resource, snapshot, evidence)
    ELSE "UNSAFE"

=============================================================================
