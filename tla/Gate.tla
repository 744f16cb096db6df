-------------------------------- MODULE Gate --------------------------------
(***************************************************************************)
(* kernel/gate: the tests gate, the human gate and the combination of the  *)
(* configured gates.  A result's tests are abstracted to what the gates    *)
(* tell apart: none reported, all passed, or at least one not passed.      *)
(***************************************************************************)

GateNames == {"tests", "human_review"}
TestOutcomes == {"none", "passed", "notPassed"}

\* Mutant of Decision: a result without tests keeps the tests gate waiting.
DecisionWaitsForTests(gate, wp, tests, approved) ==
    IF gate = "tests"
    THEN IF tests = "passed" THEN "pass" ELSE IF tests = "none" THEN "pending" ELSE "fail"
    ELSE IF wp \in approved THEN "pass" ELSE "pending"

\* One gate's decision on a work package's result: at least one test and all
\* of them passed; or pending until a human has approved the work package.
Decision(gate, wp, tests, approved) ==
    IF gate = "tests"
    THEN IF tests = "passed" THEN "pass" ELSE "fail"
    ELSE IF wp \in approved THEN "pass" ELSE "pending"

\* Mutant of Evaluate: a report passes when no gate fails.
EvaluateUnlessFailed(gates, wp, tests, approved) ==
    [ passed  |-> \A g \in gates : Decision(g, wp, tests, approved) # "fail",
      pending |-> \E g \in gates : Decision(g, wp, tests, approved) = "pending" ]

\* Evaluate: a pending gate makes the report pending, and a report passes only
\* if every gate does.  A failed gate next to a pending one reads as pending.
Evaluate(gates, wp, tests, approved) ==
    [ passed  |-> \A g \in gates : Decision(g, wp, tests, approved) = "pass",
      pending |-> \E g \in gates : Decision(g, wp, tests, approved) = "pending" ]
=============================================================================
