----------------------------- MODULE MCWorkflow -----------------------------
(* Three steps: every dependency graph between them is compiled; a chain, a *)
(* join, gates and the failure policies are executed under every seam.      *)
EXTENDS Workflow

MCSteps == 1 .. 3

MCTasks == [s \in MCSteps |-> "task"]
MCFail == [s \in MCSteps |-> "fail"]
MCOnce == [s \in MCSteps |-> 0]

MCWorkflow(valid, deps, kind, onFailure) ==
    [valid |-> valid, deps |-> deps, kind |-> kind, onFailure |-> onFailure,
     retries |-> MCOnce]

\* The last step is first in the order: 3, then 1, then 2.
MCChain == [s \in MCSteps |-> IF s = 3 THEN {} ELSE IF s = 1 THEN {3} ELSE {1}]
MCJoin == [s \in MCSteps |-> IF s = 1 THEN {2, 3} ELSE {}]

MCCompiled ==
    { MCWorkflow(TRUE, deps, MCTasks, MCFail) : deps \in [MCSteps -> SUBSET MCSteps] }
    \cup { MCWorkflow(FALSE, MCJoin, MCTasks, MCFail),
           MCWorkflow(TRUE, [MCJoin EXCEPT ![2] = {4}], MCTasks, MCFail) }

MCExecuted ==
    { MCWorkflow(TRUE, MCChain, [MCTasks EXCEPT ![1] = "gate"],
                 [MCFail EXCEPT ![3] = "skip", ![2] = "compensate"]),
      MCWorkflow(TRUE, MCChain, [MCTasks EXCEPT ![2] = "gate"],
                 [MCFail EXCEPT ![3] = "skip"]),
      MCWorkflow(TRUE, MCJoin, [MCTasks EXCEPT ![2] = "gate"],
                 [MCFail EXCEPT ![3] = "compensate", ![1] = "skip"]) }

MCNoSeam == [runner |-> FALSE, compensator |-> FALSE, gates |-> FALSE]

MCCases ==
    [wf : MCCompiled, seam : {MCNoSeam}] \cup [wf : MCExecuted, seam : Seams]
=============================================================================
