------------------------------ MODULE Workflow ------------------------------
(***************************************************************************)
(* toolbox/workflow: the compiler, which turns a declarative workflow into *)
(* a deterministic topological plan, and the resumable runtime, which      *)
(* executes the plan over a runner and a gate evaluator.                   *)
(*                                                                         *)
(* Run works on a copy of the state its caller persisted; the caller       *)
(* persists what Run returns and resumes from it later, perhaps with a new *)
(* plan that allows more retries.  If the process dies in between, the     *)
(* persisted state is all that is left.  One Runtime, with one runner and  *)
(* one gate evaluator, serves all the calls.  Step ids are numbers, in the *)
(* order of the Go strings.                                                *)
(***************************************************************************)
EXTENDS Naturals, Sequences, FiniteSets

CONSTANTS
    Steps,       \* step ids
    Cases,       \* the workflows to compile, each with the runtime's seams
    Retries,     \* the values a step's retries may take
    MaxResumes,  \* bound: calls of Run
    MaxCrashes   \* bound: process deaths while a run is not persisted

Kinds == {"task", "gate"}          \* "gate" stands for human_approval too
Policies == {"fail", "skip", "compensate"}  \* "retry" acts as "fail"

ASSUME StepAssumption == IsFiniteSet(Steps) /\ Steps \subseteq Nat
WorkflowRecords ==
    [valid : BOOLEAN, deps : [Steps -> SUBSET Nat], kind : [Steps -> Kinds],
     onFailure : [Steps -> Policies], retries : [Steps -> Retries]]

\* A compensator is a runner that also compensates.
Seams == {x \in [runner : BOOLEAN, compensator : BOOLEAN, gates : BOOLEAN] :
             x.compensator => x.runner}

ASSUME CaseAssumption ==
    \A c \in Cases : /\ c.wf \in WorkflowRecords /\ c.seam \in Seams
                     /\ \A s \in Steps : IsFiniteSet(c.wf.deps[s])
ASSUME BoundAssumption ==
    Retries \subseteq Nat /\ MaxResumes \in Nat /\ MaxCrashes \in Nat

VARIABLES
    wf,          \* the workflow
    seam,        \* whether a runner, a compensator and a gate evaluator exist
    retries,     \* of each step in the current plan
    pc,          \* what the process is doing
    indegree,    \* topoOrder: dependencies not emitted yet
    ready,       \* topoOrder: emittable steps
    order,       \* Plan.Order
    saved,       \* the RunState the caller persisted
    results,     \* Run: its copy of the results
    status,      \* Run: its RunStatus
    at,          \* Run: position in the plan
    lastErr,     \* runWithPolicy: whether an attempt failed in this call
    executions,  \* history: how often the runner ran each step
    runs,        \* calls of Run so far
    crashes      \* process deaths so far

compileVars == <<indegree, ready, order>>
runVars == <<results, status, at, lastErr>>
vars == <<wf, seam, retries, pc, compileVars, saved, runVars, executions, runs, crashes>>

Absent == [state |-> "absent", attempts |-> 0]
StepStates == {"absent", "running", "complete", "skipped", "compensated", "failed",
               "awaiting_gate"}

\* StepResult.Terminal.
Terminal(r) == r.state \in {"complete", "skipped", "compensated"}

\* maxAttempts.
MaxAttempts(s) == retries[s] + 1

\* depsSatisfied.
DepsSatisfied(s) == \A d \in wf.deps[s] : Terminal(results[d])

Current == order[at]

Init ==
    /\ \E c \in Cases : wf = c.wf /\ seam = c.seam
    /\ retries = wf.retries
    /\ pc = "compiling"
    /\ indegree = [s \in Steps |-> Cardinality(wf.deps[s])]
    /\ ready = {s \in Steps : wf.deps[s] = {}}
    /\ order = << >>
    /\ saved = [results |-> [s \in Steps |-> Absent], status |-> "running"]
    /\ results = [s \in Steps |-> Absent]
    /\ status = "running"
    /\ at = 1
    /\ lastErr = FALSE
    /\ executions = [s \in Steps |-> 0]
    /\ runs = 0
    /\ crashes = 0

-----------------------------------------------------------------------------
\* Compile's checks before the order: the contract and the shape of each step,
\* and dependencies on other steps of the workflow only.
WellFormed == wf.valid /\ \A s \in Steps : wf.deps[s] \subseteq Steps \ {s}

CompileRejects ==
    /\ pc = "compiling"
    /\ ~WellFormed \/ (ready = {} /\ Len(order) # Cardinality(Steps))
    /\ pc' = "rejected"
    /\ UNCHANGED <<wf, seam, retries, compileVars, saved, runVars, executions, runs, crashes>>

\* Mutant of EmitStep: every dependent of the emitted step becomes ready.
EmitStepEagerly(s) ==
    /\ pc = "compiling"
    /\ WellFormed
    /\ s \in ready /\ \A r \in ready : s <= r
    /\ LET dependents == {t \in Steps : s \in wf.deps[t]} IN
       /\ indegree' = [t \in Steps |-> IF t \in dependents THEN indegree[t] - 1 ELSE indegree[t]]
       /\ ready' = (ready \ {s}) \cup dependents
    /\ order' = Append(order, s)
    /\ UNCHANGED <<wf, seam, retries, pc, saved, runVars, executions, runs, crashes>>

\* topoOrder: emit the smallest ready step; its dependents whose last dependency
\* this was become ready.
EmitStep(s) ==
    /\ pc = "compiling"
    /\ WellFormed
    /\ s \in ready /\ \A r \in ready : s <= r
    /\ LET dependents == {t \in Steps : s \in wf.deps[t]} IN
       /\ indegree' = [t \in Steps |-> IF t \in dependents THEN indegree[t] - 1 ELSE indegree[t]]
       /\ ready' = (ready \ {s}) \cup {t \in dependents : indegree[t] = 1}
    /\ order' = Append(order, s)
    /\ UNCHANGED <<wf, seam, retries, pc, saved, runVars, executions, runs, crashes>>

\* Mutant of CompileReturns: the length of the order is not compared.
CompileReturnsUnchecked ==
    /\ pc = "compiling"
    /\ WellFormed
    /\ ready = {}
    /\ pc' = "idle"
    /\ UNCHANGED <<wf, seam, retries, compileVars, saved, runVars, executions, runs, crashes>>

CompileReturns ==
    /\ pc = "compiling"
    /\ WellFormed
    /\ ready = {}
    /\ Len(order) = Cardinality(Steps)
    /\ pc' = "idle"
    /\ UNCHANGED <<wf, seam, retries, compileVars, saved, runVars, executions, runs, crashes>>

-----------------------------------------------------------------------------
\* The caller changes a step's retries and compiles again: the order is the same.
Replan(s, n) ==
    /\ pc = "idle"
    /\ retries' = [retries EXCEPT ![s] = n]
    /\ UNCHANGED <<wf, seam, pc, compileVars, saved, runVars, executions, runs, crashes>>

\* Run is called with the persisted state; a nil prior is the state with no
\* results.
Run ==
    /\ pc = "idle"
    /\ runs < MaxResumes
    /\ pc' = "running"
    /\ results' = saved.results
    /\ status' = "running"
    /\ at' = 1
    /\ lastErr' = FALSE
    /\ runs' = runs + 1
    /\ UNCHANGED <<wf, seam, retries, compileVars, saved, executions, crashes>>

\* What a step of Run leaves alone.
Fixed == UNCHANGED <<wf, seam, retries, compileVars, saved, runs, crashes>>

Executing(s) == pc = "running" /\ at <= Len(order) /\ s = Current

Proceed(s, r) ==
    /\ results' = [results EXCEPT ![s] = r]
    /\ at' = at + 1
    /\ lastErr' = FALSE
    /\ UNCHANGED <<pc, status>>

Stop(s, r, st) ==
    /\ results' = [results EXCEPT ![s] = r]
    /\ status' = st
    /\ pc' = "returned"
    /\ UNCHANGED <<at, lastErr>>

\* Mutant of PassOver: the loop does not move on.
PassOverAgain(s) ==
    /\ Executing(s)
    /\ Terminal(results[s])
    /\ UNCHANGED <<results, status, at, lastErr, pc, executions>>
    /\ Fixed

\* A step that needs no further work.
PassOver(s) ==
    /\ Executing(s)
    /\ Terminal(results[s])
    /\ Proceed(s, results[s])
    /\ UNCHANGED executions
    /\ Fixed

\* A gate or approval step whose evaluator says yes.
GatePasses(s) ==
    /\ Executing(s)
    /\ ~Terminal(results[s])
    /\ DepsSatisfied(s)
    /\ wf.kind[s] = "gate"
    /\ seam.gates
    /\ Proceed(s, [state |-> "complete", attempts |-> 0])
    /\ UNCHANGED executions
    /\ Fixed

\* Mutant of StepAwaits: a gate that says no is passed over.
StepAwaitsNothing(s) ==
    /\ Executing(s)
    /\ ~Terminal(results[s])
    /\ DepsSatisfied(s) => wf.kind[s] = "gate"
    /\ IF DepsSatisfied(s)
       THEN Proceed(s, [state |-> "awaiting_gate", attempts |-> 0])
       ELSE Stop(s, [state |-> "awaiting_gate", attempts |-> 0], "failed")
    /\ UNCHANGED executions
    /\ Fixed

\* Dependencies that are not satisfied, or a gate that says no or fails, or has
\* no evaluator.
StepAwaits(s) ==
    /\ Executing(s)
    /\ ~Terminal(results[s])
    /\ DepsSatisfied(s) => wf.kind[s] = "gate"
    /\ Stop(s, [state |-> "awaiting_gate", attempts |-> 0],
            IF DepsSatisfied(s) THEN "awaiting_approval" ELSE "failed")
    /\ UNCHANGED executions
    /\ Fixed

\* Mutant of UnderPolicy: only completed steps are not run again.
UnderPolicyUnlessComplete(s) ==
    /\ Executing(s)
    /\ results[s].state # "complete"
    /\ DepsSatisfied(s)
    /\ wf.kind[s] = "task"

\* runWithPolicy is reached for step s.
UnderPolicy(s) ==
    /\ Executing(s)
    /\ ~Terminal(results[s])
    /\ DepsSatisfied(s)
    /\ wf.kind[s] = "task"

NoRunner(s) ==
    /\ UnderPolicy(s)
    /\ ~seam.runner
    /\ Stop(s, [state |-> "failed", attempts |-> 0], "failed")
    /\ UNCHANGED executions
    /\ Fixed

\* One attempt.  Attempts count on from the persisted ones.
AttemptSucceeds(s) ==
    /\ UnderPolicy(s)
    /\ seam.runner
    /\ results[s].attempts < MaxAttempts(s)
    /\ Proceed(s, [state |-> "complete", attempts |-> results[s].attempts + 1])
    /\ executions' = [executions EXCEPT ![s] = @ + 1]
    /\ Fixed

\* Mutant of AttemptFails: the loop counts this call's attempts only.
AttemptFailsForgetfully(s) ==
    /\ UnderPolicy(s)
    /\ seam.runner
    /\ results[s].attempts < MaxAttempts(s)
    /\ results' = [results EXCEPT ![s] =
           [state |-> "running", attempts |-> IF lastErr THEN results[s].attempts + 1 ELSE 1]]
    /\ lastErr' = TRUE
    /\ executions' = [executions EXCEPT ![s] = @ + 1]
    /\ UNCHANGED <<at, status, pc>>
    /\ Fixed

AttemptFails(s) ==
    /\ UnderPolicy(s)
    /\ seam.runner
    /\ results[s].attempts < MaxAttempts(s)
    /\ results' = [results EXCEPT ![s] =
           [state |-> "running", attempts |-> results[s].attempts + 1]]
    /\ lastErr' = TRUE
    /\ executions' = [executions EXCEPT ![s] = @ + 1]
    /\ UNCHANGED <<at, status, pc>>
    /\ Fixed

\* No attempts are left.
Exhausted(s) ==
    /\ UnderPolicy(s)
    /\ seam.runner
    /\ results[s].attempts >= MaxAttempts(s)

Compensates(s) == wf.onFailure[s] = "compensate" /\ seam.compensator

\* The compensator returns an error, which is the reason recorded.
CompensationFails(s) ==
    /\ Exhausted(s)
    /\ Compensates(s)
    /\ Stop(s, [state |-> "failed", attempts |-> results[s].attempts], "failed")
    /\ UNCHANGED executions
    /\ Fixed

\* The step is skipped, compensated or failed, with the last error as reason.
PolicyApplies(s) ==
    /\ Exhausted(s)
    /\ lastErr
    /\ IF wf.onFailure[s] = "skip"
       THEN Proceed(s, [state |-> "skipped", attempts |-> results[s].attempts])
       ELSE IF Compensates(s)
       THEN Proceed(s, [state |-> "compensated", attempts |-> results[s].attempts])
       ELSE Stop(s, [state |-> "failed", attempts |-> results[s].attempts], "failed")
    /\ UNCHANGED executions
    /\ Fixed

\* There is no last error, because no attempt was made in this call: asking it
\* for its text is a nil dereference.
PolicyPanics(s) ==
    /\ Exhausted(s)
    /\ ~lastErr
    /\ pc' = "panicked"
    /\ UNCHANGED <<runVars, executions>>
    /\ Fixed

RunCompletes ==
    /\ pc = "running"
    /\ at > Len(order)
    /\ status' = "complete"
    /\ pc' = "returned"
    /\ UNCHANGED <<results, at, lastErr, executions>>
    /\ Fixed

\* The caller persists the state Run returned.
Persist ==
    /\ pc = "returned"
    /\ saved' = [results |-> results, status |-> status]
    /\ pc' = "idle"
    /\ UNCHANGED <<wf, seam, retries, compileVars, runVars, executions, runs, crashes>>

\* The process dies before the caller has persisted anything, or after a panic,
\* and is started again.
Restart ==
    /\ \/ pc \in {"running", "returned"} /\ crashes < MaxCrashes /\ crashes' = crashes + 1
       \/ pc = "panicked" /\ UNCHANGED crashes
    /\ pc' = "idle"
    /\ UNCHANGED <<wf, seam, retries, compileVars, saved, runVars, executions, runs>>

RunStep(s) ==
    \/ PassOver(s)
    \/ GatePasses(s)
    \/ StepAwaits(s)
    \/ NoRunner(s)
    \/ AttemptSucceeds(s)
    \/ AttemptFails(s)
    \/ CompensationFails(s)
    \/ PolicyApplies(s)
    \/ PolicyPanics(s)

Next ==
    \/ CompileRejects
    \/ \E s \in Steps : EmitStep(s)
    \/ CompileReturns
    \/ \E s \in Steps, n \in Retries : Replan(s, n)
    \/ Run
    \/ \E s \in Steps : RunStep(s)
    \/ RunCompletes
    \/ Persist
    \/ Restart

Spec == Init /\ [][Next]_vars

\* Compile and Run are ordinary sequential code whose runner and gate evaluator
\* return; nothing is assumed of the caller.
Fairness ==
    /\ WF_vars(CompileRejects \/ CompileReturns \/ \E s \in Steps : EmitStep(s))
    /\ WF_vars(RunCompletes \/ \E s \in Steps : RunStep(s))

FairSpec == Spec /\ Fairness

-----------------------------------------------------------------------------
ResultTypes == [state : StepStates, attempts : Nat]
RunStatuses == {"running", "complete", "failed", "awaiting_approval"}

\* The plan, the persisted state and Run's locals have the types of the Go code.
TypeOK ==
    /\ wf \in WorkflowRecords
    /\ seam \in Seams
    /\ retries \in [Steps -> Retries]
    /\ pc \in {"compiling", "rejected", "idle", "running", "returned", "panicked"}
    /\ indegree \in [Steps -> Nat]
    /\ ready \subseteq Steps
    /\ order \in Seq(Steps)
    /\ saved \in [results : [Steps -> ResultTypes], status : RunStatuses]
    /\ results \in [Steps -> ResultTypes]
    /\ status \in RunStatuses
    /\ at \in Nat \ {0}
    /\ lastErr \in BOOLEAN
    /\ executions \in [Steps -> Nat]
    /\ runs \in 0 .. MaxResumes
    /\ crashes \in 0 .. MaxCrashes

Emitted(n) == {order[i] : i \in 1 .. n}

\* What the compiler promises: a plan lists every step once, each after all of
\* its dependencies, and a workflow is rejected exactly when it is malformed or
\* some of its steps wait for each other.
Cyclic == \E S \in SUBSET Steps : S # {} /\ \A s \in S : wf.deps[s] \cap S # {}

CompiledOrderIsTopological ==
    /\ pc \notin {"compiling", "rejected"} =>
          /\ WellFormed
          /\ Len(order) = Cardinality(Steps)
          /\ Emitted(Len(order)) = Steps
          /\ \A i \in 1 .. Len(order) : wf.deps[order[i]] \subseteq Emitted(i - 1)
    /\ pc = "rejected" <=> pc # "compiling" /\ (~WellFormed \/ Cyclic)

\* No step is touched before everything it depends on is finished, whatever was
\* persisted, replanned or lost before; so the runtime's own check of the
\* dependencies, and the run it would fail, is never needed on a compiled plan.
DependenciesFirst ==
    /\ \A res \in {results, saved.results} : \A s \in Steps :
          res[s] # Absent => \A d \in wf.deps[s] : Terminal(res[d])
    /\ \A s \in Steps : results[s].state = "awaiting_gate" => wf.kind[s] = "gate"

\* A run reported complete has finished every step.
CompleteRunsAreFinished ==
    \A s \in Steps :
        saved.status = "complete" => Terminal(saved.results[s])

\* Attempts persist: unless the process died before the caller could persist
\* them, the persisted attempts are exactly the executions of the step, so that
\* resuming never grants a step more attempts than its plan allows.
AttemptsAccumulate ==
    pc = "idle" /\ crashes = 0 =>
        \A s \in Steps : saved.results[s].attempts = executions[s]

\* Finished work is not repeated: the runner is not called for a step whose
\* persisted result is terminal, and no later run changes that result.
FinishedWorkIsKept ==
    [][\A s \in Steps : Terminal(saved.results[s]) =>
           /\ executions'[s] = executions[s]
           /\ saved'.results[s] = saved.results[s]]_vars

\* Run always comes back, however its runner and gates behave.
RunReturns == pc = "running" ~> pc # "running"

\* The comment on Run: it returns the state even on error so that the caller can
\* persist and resume it.  Resuming a persisted state must not panic.
ResumeIsSafe == pc # "panicked"
=============================================================================
