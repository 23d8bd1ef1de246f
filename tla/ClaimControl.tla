---------------------------- MODULE ClaimControl ----------------------------
(***************************************************************************)
(* The deterministic first half of a Topic 4 verification: which claims a  *)
(* candidate makes (domains/verification/claim_extraction.py), how risky   *)
(* each one is (risk_scoring.py) and which modules have to look at it, in  *)
(* which order (dispatch.py).                                              *)
(*                                                                         *)
(* A candidate's content maps block ids to blocks.  The extractor makes    *)
(* one claim of every sentence of a block; here a block is one sentence,   *)
(* and a claim has the id of its block.  What the regular expressions find *)
(* in the text is part of a block: whether it has words at all, whether it *)
(* reads as a formula, and its risk signals.                               *)
(***************************************************************************)
EXTENDS Integers, FiniteSets, FiniteSetsExt, SequencesExt

BlockTypes == {"MARKDOWN", "MERMAID", "QUIZ", "CODE", "EXTENSION", "METADATA"}

ClaimKinds == {"TEXT", "FORMULA", "GRAPH", "QUIZ", "CODE", "EXTENSION"}

RiskLevels == {"LOW", "MEDIUM", "HIGH", "CRITICAL"}

Profiles == {"STANDARD", "STRICT", "CODE_STRICT"}

-----------------------------------------------------------------------------
\* Claim extraction

\* Symbols alone count as a statement only in code, graphs and quizzes.
IsVerifiable(block) ==
  block.type \in {"CODE", "MERMAID", "QUIZ"} \/ block.words

\* A metadata block, and the metadata leaves of the others (ids, versions,
\* the language or the entry point of code), make no claim.
Extracted(block) ==
  block.type # "METADATA" /\ ~block.leaf /\ IsVerifiable(block)

ClaimKind(block) ==
  CASE block.type = "MERMAID" -> "GRAPH"
    [] block.type \in {"QUIZ", "CODE", "EXTENSION"} -> block.type
    [] OTHER -> IF block.formula THEN "FORMULA" ELSE "TEXT"

ClaimsOf(content) == {b \in DOMAIN content : Extracted(content[b])}

\* A candidate without a claim ends the preparation with an error.
Extractable(content) == ClaimsOf(content) # {}

-----------------------------------------------------------------------------
\* Risk scoring, in hundredths: academic impact, learner harm, uncertainty,
\* irreversibility and external action.

Dimensions == 1..5

BaseDimensions(kind) ==
  CASE kind = "TEXT" -> <<42, 38, 34, 22, 8>>
    [] kind = "FORMULA" -> <<76, 68, 42, 34, 8>>
    [] kind = "GRAPH" -> <<58, 52, 38, 30, 8>>
    [] kind = "QUIZ" -> <<72, 76, 42, 42, 10>>
    [] kind = "CODE" -> <<78, 80, 46, 64, 76>>
    [] OTHER -> <<60, 44, 66, 28, 24>>

Signals == {"absolute", "stability", "numeric", "citation", "destructive",
            "injection", "pii"}

Increment(signal) ==
  CASE signal = "absolute" -> <<12, 10, 14, 0, 0>>
    [] signal = "stability" -> <<10, 10, 0, 8, 0>>
    [] signal = "numeric" -> <<8, 6, 8, 0, 0>>
    [] signal = "citation" -> <<8, 0, 16, 0, 0>>
    [] signal = "destructive" -> <<0, 18, 12, 30, 24>>
    [] signal = "injection" -> <<0, 0, 34, 24, 24>>
    [] OTHER -> <<0, 18, 0, 32, 20>>

Capped(cap, n) == IF n > cap THEN cap ELSE n

\* _raise_dimensions; a cap of 1 makes the order of the signals irrelevant.
RaisedDimensions(block) ==
  [d \in Dimensions |->
     Capped(100, BaseDimensions(ClaimKind(block))[d]
                   + MapThenSumSet(LAMBDA s : Increment(s)[d],
                                                 block.signals))]

ProfileFactor(profile, kind) ==
  CASE profile = "STANDARD" -> 100
    [] profile = "STRICT" -> 108
    [] OTHER -> IF kind = "CODE" THEN 112 ELSE 105

Weight == <<30, 25, 20, 15, 10>>

\* The weighted score in millionths.
WeightedScore(block, profile) ==
  LET dims == RaisedDimensions(block)
      factor == ProfileFactor(profile, ClaimKind(block))
  IN  MapThenSumSet(LAMBDA d : Weight[d] * Capped(10000, dims[d] * factor),
                    Dimensions)

\* Injected prompts, destructive code and personal data are never less than
\* critical.
Score(block, profile) ==
  LET weighted == WeightedScore(block, profile)
  IN  IF block.signals \intersect {"injection", "destructive", "pii"} # {}
        THEN Max({weighted, 820000})
        ELSE weighted

Level(score) ==
  IF score < 350000 THEN "LOW"
  ELSE IF score < 600000 THEN "MEDIUM"
  ELSE IF score < 780000 THEN "HIGH"
  ELSE "CRITICAL"

\* score_all
RiskOf(content, profile) ==
  [c \in ClaimsOf(content) |-> Level(Score(content[c], profile))]

-----------------------------------------------------------------------------
\* Dispatch

VerticalModule(kind) ==
  CASE kind = "GRAPH" -> "C4"
    [] kind = "QUIZ" -> "C5"
    [] kind = "CODE" -> "C6"
    [] kind = "EXTENSION" -> "C7"
    [] OTHER -> "C3"

MandatoryModules(kind) == {"C2", VerticalModule(kind), "C9", "C10", "C11"}

\* The modules an item waits for: the retrieval of its own claim.
Dependencies(module) == IF module = "C2" THEN {} ELSE {"C2"}

\* The items of a plan, and the waves BoundedModuleExecutor runs one after
\* the other: every item whose dependencies ran in an earlier wave.
DispatchPlan(content) ==
  UNION {{<<c, m>> : m \in MandatoryModules(ClaimKind(content[c]))} :
           c \in ClaimsOf(content)}

Ready(items, completed) ==
  {item \in items \ completed :
     \A m \in Dependencies(item[2]) : <<item[1], m>> \in completed}

ExecutionWaves(items) ==
  LET first == Ready(items, {}) IN <<first, Ready(items, first)>>

=============================================================================
