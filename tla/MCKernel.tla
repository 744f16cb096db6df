------------------------------ MODULE MCKernel ------------------------------
(* Three work packages, the third depending on the first two; the second    *)
(* needs a worker that is registered late.                                  *)
EXTENDS Kernel

MCDependsOn == [w \in 1 .. 3 |-> IF w = 3 THEN {1, 2} ELSE {}]

MCRequires ==
    [w \in 1 .. 3 |->
        IF w = 2 THEN [trade |-> "backend", caps |-> {"write", "deploy"}]
                 ELSE [trade |-> "",        caps |-> {"write"}]]

MCWorker(id, trade, caps, cost) ==
    [id |-> id, trade |-> trade, caps |-> caps, available |-> TRUE, cost |-> cost]

MCInitialWorkers == {MCWorker(1, "docs", {"write"}, 2)}

MCWorkers == MCInitialWorkers \cup {MCWorker(2, "backend", {"write", "deploy"}, 1)}

MCResult(status, tests, failure) ==
    [status |-> status, tests |-> tests, failure |-> failure]

MCOutcomes ==
    { MCResult("succeeded", "passed", FALSE), MCResult("partial", "notPassed", FALSE),
      MCResult("succeeded", "none", FALSE), MCResult("failed", "notPassed", TRUE),
      MCResult("failed", "none", FALSE), MCResult("other", "passed", FALSE),
      MCResult("blocked", "passed", TRUE), MCResult("cancelled", "none", FALSE) }
=============================================================================
