--------------------------- MODULE MCVerification ---------------------------
(***************************************************************************)
(* Small instances of VerificationRuntime for TLC: a Topic 1 snapshot of   *)
(* two points, and the contents agents and revisers may write.             *)
(***************************************************************************)
EXTENDS VerificationRuntime, TLC

\* Clients ask for the first version only.
MCRequested == {v \in Vids : v[2] = 1}

MCSnapshot ==
  [points |-> ("kp1" :> {"kp1", "Poles"} @@ "kp2" :> {"kp2", "Stability"}),
   prerequisites |-> {<<"kp1", "kp2">>},
   golden |-> ("g1" :> [points |-> {"kp2"}, answer |-> {"-1"},
                        solution |-> {"factor"}, misconceptions |-> {"sign"},
                        tags |-> {}, types |-> {"SHORT"}, difficulty |-> 50])]

Passage(reads) == [reads |-> reads, numbers |-> << >>, conditions |-> << >>]

\* Its residual at two assignments and at a point that is not sampled.
Equation(first, second, beyond) ==
  [relation |-> "=", at |-> (1 :> first @@ 2 :> second @@ 10 :> beyond),
   samples |-> {1, 2}, applied |-> FALSE, symbols |-> {"x"}]

Finding(is, at) == [is |-> is, at |-> at]

Prose(formulas) ==
  [formulas |-> formulas, numbers |-> << >>, expected |-> "none",
   systems |-> {}, theorems |-> {}]

Leaf(type, says, passages) ==
  [type |-> type, leaf |-> FALSE, words |-> TRUE, formula |-> FALSE, string |-> 1,
   signals |-> {}, threats |-> {}, personal |-> {}, says |-> says,
   passages |-> passages]

Lecture(formulas, passages) ==
  [Leaf("MARKDOWN", Prose(formulas), passages) EXCEPT !.formula = formulas # << >>]

Footer == [Leaf("METADATA", Prose(<< >>), << >>) EXCEPT !.leaf = TRUE, !.string = 2]

Question ==
  [id |-> "q1", targets |-> {"kp2"}, type |-> "SHORT", answer |-> {"-1"},
   likeness |-> ("g1" :> 80), clear |-> TRUE, difficulty |-> 50,
   steps |-> <<"factor", "read the roots">>, diagnoses |-> {"sign"}]

Resource ==
  [points |-> {"kp1"}, matched |-> {"kp1"}, inCorpus |-> TRUE, cited |-> TRUE,
   dated |-> TRUE, terms |-> {"cc by"}]

Map ==
  <<[is |-> "header"], [is |-> "node", id |-> "kp1", label |-> "Poles"],
    [is |-> "node", id |-> "kp2", label |-> "Stability"],
    [is |-> "edge", from |-> "kp1", to |-> "kp2", relation |-> "PREREQUISITE",
     directed |-> TRUE]>>

Script ==
  [language |-> "PYTHON", parses |-> TRUE, does |-> {"model", "simulation"},
   loops |-> {}, poles |-> {-1}, grid |-> 100, imports |-> {"numpy"}]

Package ==
  [components |-> ("numpy" :> [licences |-> {"BSD-3-CLAUSE"}, internal |-> FALSE]), vulnerabilities |-> {},
   reproducible |-> TRUE, expired |-> FALSE]

\* sampled: a derivation with a wrong step the sample points do not show.
\* hidden: a passage for it and one against; then an identity behind as many
\* personal data as C10 reports, and a credential behind the characters C9
\* reads.  leaking: a credential it reads.  personal: a critical risk.
MCLibrary ==
  LET good == <<Passage("covered")>>
      with(b, f) == ("text" :> b @@ "footer" :> f)
      right == <<Equation(1, 0, 2), Equation(2, 0, 4)>>
  IN  "sampled" :> with(Lecture(<<Equation(1, 1, 0), Equation(1, 2, 1)>>,
                                good), Footer)
   @@ "leaking" :> ("text" :> [Lecture(right, good) EXCEPT
                       !.threats = {Finding("EXPOSED_CREDENTIAL", 40)}])
   @@ "hidden" :> with(
        [Lecture(<< >>, <<Passage("covered"), Passage("denied")>>) EXCEPT
           !.personal = {Finding("EMAIL", 20), Finding("PHONE", 60)}],
        [Footer EXCEPT !.personal = {Finding("NATIONAL_ID", 18)},
                       !.threats = {Finding("EXPOSED_CREDENTIAL", 101)}])
   @@ "personal" :> ("text" :> [Lecture(<< >>, good) EXCEPT !.signals = {"pii"},
                                                           !.personal = {Finding("PHONE", 60)}])
   @@ "quiz" :> ("prompt" :> Leaf("QUIZ",
                   [scope |-> "item", question |-> Question], good))
   @@ "reading" :> ("title" :> Leaf("EXTENSION",
                      [scope |-> "item", resource |-> Resource], good))
   @@ "map" :> ("mermaid" :> Leaf("MERMAID", [lines |-> Map], good))
   @@ "code" :> ("source" :> Leaf("CODE",
                   [files |-> {Script}, claims |-> {"stable"},
                    package |-> Package], good))

=============================================================================
