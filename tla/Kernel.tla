------------------------------- MODULE Kernel -------------------------------
(***************************************************************************)
(* The supervised control cycle of kernel/orchestrator behind the mutex of *)
(* kernel/api: ready -> select worker -> contract -> lease -> run ->       *)
(* intake -> gates -> accept -> telemetry, over one validated graph.       *)
(*                                                                         *)
(* Dispatch holds the service mutex while the runtime executes, so it is   *)
(* two steps here: DispatchBegin up to Runtime.Run, then RunReturns or     *)
(* RunFails.  Resolve and Approve take the same mutex; the human gate has  *)
(* one of its own and can be approved while a run is in progress.          *)
(* Work package ids are numbers, in the order sort.Strings gives them.     *)
(***************************************************************************)
EXTENDS Control, Gate, Registry, Sequences

CONSTANTS
    WorkPackages,      \* ids of the graph's nodes
    DependsOn,         \* [WorkPackages -> SUBSET WorkPackages], acyclic
    Requires,          \* [WorkPackages -> [trade, caps]]
    Workers,           \* every worker record that may ever be registered
    InitialWorkers,    \* the ones registered when the orchestrator is built
    Permitted,         \* Config.Permitted
    KnownCapabilities, \* contract.KnownCapabilities
    Outcomes,          \* results the (untrusted) runtime may return
    NoHash             \* intake: nothing recorded under this id yet

INSTANCE Intake

ASSUME GraphAssumption ==
    /\ WorkPackages \subseteq Nat \ {0}
    /\ DependsOn \in [WorkPackages -> SUBSET WorkPackages]

ASSUME WorkerAssumption ==
    /\ Workers \subseteq [id : Nat \ {0}, trade : STRING, caps : SUBSET KnownCapabilities,
                          available : BOOLEAN, cost : Nat]
    /\ InitialWorkers \subseteq Workers

ASSUME ResultAssumption ==
    /\ Outcomes \subseteq [status : ResultStatuses, tests : TestOutcomes, failure : BOOLEAN]
    /\ NoHash \notin [status : ResultStatuses, tests : TestOutcomes]

VARIABLES
    cfg,          \* service: api enabled; enabled, gates: orchestrator Config
    graph,        \* plan.Graph: state of each work package
    assignments,  \* Orchestrator.assignments, by work package
    results,      \* Orchestrator.results, by work package
    seen,         \* intake.Service.seen, by work package (one result id each)
    approved,     \* HumanGate.approved
    workers,      \* Registry.workers
    inflight,     \* the dispatch that holds the mutex, while its runtime runs
    events,       \* what the Sink received; its length is Orchestrator.sequence
    telemetry,    \* Orchestrator.telemetryRecords
    candidates,   \* Orchestrator.learningCandidates
    reply         \* what the last Dispatch returned

vars == <<cfg, graph, assignments, results, seen, approved, workers, inflight,
          events, telemetry, candidates, reply>>

PlanStates == {"PROPOSED", "READY", "RUNNING", "COMPLETED", "DEFICIENT"}
NoAssignment == [state |-> "none", worker |-> 0, lease |-> 0]
NoResult == [status |-> "none", tests |-> "none", failure |-> FALSE]
Idle == [wp |-> 0, worker |-> 0]

\* Mutant of IsReady: a dependency only has to have been dispatched.
IsReadyOnceStarted(w) ==
    /\ graph[w] \in {"PROPOSED", "READY"}
    /\ \A d \in DependsOn[w] : graph[d] \notin {"PROPOSED", "READY"}

(***************************************************************************)
(* plan.Graph.Ready: not yet dispatched, every dependency completed; sorted *)
(* by id, and Dispatch takes the first.                                    *)
(***************************************************************************)
IsReady(w) ==
    /\ graph[w] \in {"PROPOSED", "READY"}
    /\ \A d \in DependsOn[w] : graph[d] = "COMPLETED"

Ready == {w \in WorkPackages : IsReady(w)}

IsNext(w) == w \in Ready /\ \A v \in Ready : w <= v

(***************************************************************************)
(* telemetry.Derive: the kinds of candidate a recorded result gives.  The  *)
(* orchestrator never fills in a cost, so the cost candidate cannot occur. *)
(***************************************************************************)
Derive(w, r) ==
    IF r.status = "succeeded" THEN <<[kind |-> "success", wp |-> w]>>
    ELSE IF r.status # "failed" THEN << >>
    ELSE IF r.tests = "notPassed" THEN <<[kind |-> "pitfall", wp |-> w]>>
    ELSE <<[kind |-> "failure", wp |-> w]>>

\* Mutant of Verdict: a failed gate is overlooked.
VerdictUnlessPending(report) ==
    IF report.pending THEN "awaiting_gates" ELSE "accepted"

\* Mutant of GraphAfter: the assignment's state is written into the graph.
GraphAfterVerbatim(verdict, current) ==
    IF verdict = "awaiting_gates" THEN current ELSE verdict

(***************************************************************************)
(* What a gate report does to an assignment that awaits its gates: accept, *)
(* fail, or leave it waiting.  emit appends to the sink.                   *)
(***************************************************************************)
Verdict(report) ==
    IF report.passed THEN "accepted"
    ELSE IF report.pending THEN "awaiting_gates" ELSE "failed"

GraphAfter(verdict, current) ==
    IF verdict = "accepted" THEN "COMPLETED"
    ELSE IF verdict = "failed" THEN "DEFICIENT" ELSE current

EmitAccepted(verdict, w) ==
    events' = IF verdict = "accepted"
              THEN Append(events, [type |-> "WORK_ACCEPTED", wp |-> w])
              ELSE events

Returned(dispatched, err) == [dispatched |-> dispatched, err |-> err]

-----------------------------------------------------------------------------
(***************************************************************************)
(* orchestrator.New and api.New over a validated graph, whose packages were *)
(* added in the default state or as READY.                                 *)
(***************************************************************************)
Init ==
    /\ cfg \in [service : BOOLEAN, enabled : BOOLEAN, gates : SUBSET GateNames]
    /\ graph \in [WorkPackages -> {"PROPOSED", "READY"}]
    /\ assignments = [w \in WorkPackages |-> NoAssignment]
    /\ results = [w \in WorkPackages |-> NoResult]
    /\ seen = [w \in WorkPackages |-> NoHash]
    /\ approved = {}
    /\ workers = InitialWorkers
    /\ inflight = Idle
    /\ events = << >>
    /\ telemetry = << >>
    /\ candidates = << >>
    /\ reply = Returned(FALSE, FALSE)

\* Registry.Add of a worker that is not registered yet.
AddWorker(k) ==
    /\ k \in Workers \ workers
    /\ \A v \in workers : v.id # k.id
    /\ workers' = workers \cup {k}
    /\ UNCHANGED <<cfg, graph, assignments, results, seen, approved, inflight,
                   events, telemetry, candidates, reply>>

\* Dispatch with nothing ready.
DispatchNothing ==
    /\ inflight = Idle
    /\ cfg.service
    /\ Ready = {}
    /\ reply' = Returned(FALSE, FALSE)
    /\ UNCHANGED <<cfg, graph, assignments, results, seen, approved, workers,
                   inflight, events, telemetry, candidates>>

\* Dispatch that fails before anything is leased: the service is disabled, or
\* the first ready package has no eligible worker, or its contract cannot be
\* built.  Other ready packages are not tried.
DispatchRefused ==
    /\ inflight = Idle
    /\ \/ ~cfg.service
       \/ \E w \in WorkPackages :
             /\ IsNext(w)
             /\ \/ ~SomeEligible(workers, Requires[w])
                \/ ~Buildable(Requires[w].caps, Permitted, KnownCapabilities)
    /\ reply' = Returned(FALSE, TRUE)
    /\ UNCHANGED <<cfg, graph, assignments, results, seen, approved, workers,
                   inflight, events, telemetry, candidates>>

\* Dispatch up to the call of the runtime.
DispatchBegin(w, k) ==
    /\ inflight = Idle
    /\ cfg.service
    /\ IsNext(w)
    /\ Selected(k, workers, Requires[w])
    /\ Buildable(Requires[w].caps, Permitted, KnownCapabilities)
    /\ inflight' = [wp |-> w, worker |-> k.id]
    /\ graph' = [graph EXCEPT ![w] = "RUNNING"]
    /\ events' = Append(events, [type |-> "EXECUTION_STARTED", wp |-> w])
    /\ UNCHANGED <<cfg, assignments, results, seen, approved, workers,
                   telemetry, candidates, reply>>

\* The assignment Dispatch carries while the runtime runs.
LocalState ==
    Move(Move(Move(NewAssignment.state, "leased"), "preparing"), "running")

Assigned(state) ==
    [state |-> state, worker |-> inflight.worker, lease |-> inflight.worker]

WithState(a, state) == [state |-> state, worker |-> a.worker, lease |-> a.lease]

\* Mutant of RunFails: the graph is not told.
RunFailsQuietly ==
    /\ inflight # Idle
    /\ cfg.enabled
    /\ assignments' = [assignments EXCEPT ![inflight.wp] = Assigned(Move(LocalState, "failed"))]
    /\ inflight' = Idle
    /\ reply' = Returned(TRUE, FALSE)
    /\ UNCHANGED <<cfg, graph, results, seen, approved, workers, events, telemetry,
                   candidates>>

\* Runtime.Run returned an error (the disabled adapter never does).
RunFails ==
    LET w == inflight.wp IN
    /\ inflight # Idle
    /\ cfg.enabled
    /\ assignments' = [assignments EXCEPT ![w] = Assigned(Move(LocalState, "failed"))]
    /\ graph' = [graph EXCEPT ![w] = "DEFICIENT"]
    /\ inflight' = Idle
    /\ reply' = Returned(TRUE, FALSE)
    /\ UNCHANGED <<cfg, results, seen, approved, workers, events, telemetry, candidates>>

\* Mutant of RunRefused: telemetry is recorded before intake has its say.
RunRefusedWithTelemetry(r) ==
    /\ SubmitOutcome(seen[inflight.wp], r) \in {"refused", "conflict"}
    /\ telemetry' = Append(telemetry, [wp |-> inflight.wp, outcome |-> r.status])
    /\ reply' = Returned(FALSE, TRUE)
    /\ UNCHANGED <<graph, assignments, results, seen, events, candidates>>

\* Intake refused what the runtime returned: Dispatch gives up with an error.
\* The assignment is dropped and the graph keeps the state it has.
RunRefused(r) ==
    LET w == inflight.wp IN
    /\ SubmitOutcome(seen[w], r) \in {"refused", "conflict"}
    /\ reply' = Returned(FALSE, TRUE)
    /\ UNCHANGED <<graph, assignments, results, seen, events, telemetry, candidates>>

\* Intake took the result: record it, evaluate the gates, and settle the work
\* package or leave it waiting for them.
RunRecorded(r) ==
    LET w == inflight.wp
        report == Evaluate(cfg.gates, w, r.tests, approved)
        collecting == Move(LocalState, "collecting")
        verdict == IF r.status \in {"succeeded", "partial"}
                   THEN Verdict(report) ELSE "failed"
        state == IF r.status \in {"succeeded", "partial"}
                 THEN Move(Move(collecting, "awaiting_gates"), verdict)
                 ELSE Move(collecting, "failed")
    IN
    /\ SubmitOutcome(seen[w], r) \in {"new", "duplicate"}
    /\ seen' = [seen EXCEPT ![w] = SeenAfter(@, r)]
    /\ results' = [results EXCEPT ![w] = r]
    /\ telemetry' = Append(telemetry, [wp |-> w, outcome |-> r.status])
    /\ candidates' = candidates \o Derive(w, r)
    /\ assignments' = [assignments EXCEPT ![w] = Assigned(state)]
    /\ graph' = [graph EXCEPT ![w] = GraphAfter(verdict, @)]
    /\ EmitAccepted(verdict, w)
    /\ reply' = Returned(TRUE, FALSE)

\* runtime.Disabled: the adapter of an orchestrator that is not enabled.
DisabledResult == [status |-> "blocked", tests |-> "none", failure |-> TRUE]

\* Runtime.Run returned r without an error.
RunReturns(r) ==
    /\ inflight # Idle
    /\ r \in IF cfg.enabled THEN Outcomes ELSE {DisabledResult}
    /\ RunRefused(r) \/ RunRecorded(r)
    /\ inflight' = Idle
    /\ UNCHANGED <<cfg, approved, workers>>

\* Mutants of Resolve: any assignment may be resolved; a rejection is not passed
\* on to the graph.
ResolveAnyTime(w) ==
    LET verdict == Verdict(Evaluate(cfg.gates, w, results[w].tests, approved)) IN
    /\ inflight = Idle
    /\ assignments[w] # NoAssignment
    /\ assignments' = [assignments EXCEPT ![w] = WithState(@, Move(@.state, verdict))]
    /\ graph' = [graph EXCEPT ![w] = GraphAfter(verdict, @)]
    /\ EmitAccepted(verdict, w)
    /\ UNCHANGED <<cfg, results, seen, approved, workers, inflight, telemetry,
                   candidates, reply>>

ResolveAcceptanceOnly(w) ==
    LET verdict == Verdict(Evaluate(cfg.gates, w, results[w].tests, approved)) IN
    /\ inflight = Idle
    /\ assignments[w].state = "awaiting_gates"
    /\ assignments' = [assignments EXCEPT ![w] = WithState(@, Move(@.state, verdict))]
    /\ graph' = [graph EXCEPT ![w] = IF verdict = "accepted" THEN "COMPLETED" ELSE @]
    /\ EmitAccepted(verdict, w)
    /\ UNCHANGED <<cfg, results, seen, approved, workers, inflight, telemetry,
                   candidates, reply>>

\* Resolve: re-evaluate the gates of a work package that awaits them.
Resolve(w) ==
    LET report == Evaluate(cfg.gates, w, results[w].tests, approved)
        verdict == Verdict(report)
    IN
    /\ inflight = Idle
    /\ assignments[w].state = "awaiting_gates"
    /\ assignments' = [assignments EXCEPT ![w] = WithState(@, Move(@.state, verdict))]
    /\ graph' = [graph EXCEPT ![w] = GraphAfter(verdict, @)]
    /\ EmitAccepted(verdict, w)
    /\ UNCHANGED <<cfg, results, seen, approved, workers, inflight, telemetry,
                   candidates, reply>>

\* HumanGate.Approve, in any state of the work package and, the gate having its
\* own mutex, while a run is in progress.
HumanGateApprove(w) ==
    /\ "human_review" \in cfg.gates
    /\ approved' = approved \cup {w}
    /\ UNCHANGED <<cfg, graph, assignments, results, seen, workers, inflight,
                   events, telemetry, candidates, reply>>

\* Approve through the service, which waits for the mutex first.
Approve(w) == inflight = Idle /\ HumanGateApprove(w)

Next ==
    \/ \E k \in Workers : AddWorker(k)
    \/ DispatchNothing
    \/ DispatchRefused
    \/ \E w \in WorkPackages, k \in Workers : DispatchBegin(w, k)
    \/ RunFails
    \/ \E r \in Outcomes \cup {DisabledResult} : RunReturns(r)
    \/ \E w \in WorkPackages : Resolve(w)
    \/ \E w \in WorkPackages : Approve(w)
    \/ \E w \in WorkPackages : HumanGateApprove(w)

Spec == Init /\ [][Next]_vars

(***************************************************************************)
(* Fairness.  A supervisor keeps calling Dispatch and Resolve, the runtime *)
(* eventually returns (its context has a deadline) and a missing worker is *)
(* eventually registered.  Nothing is assumed of the human who approves.   *)
(***************************************************************************)
Fairness ==
    /\ WF_vars(\E w \in WorkPackages, k \in Workers : DispatchBegin(w, k))
    /\ WF_vars(RunFails \/ \E r \in Outcomes \cup {DisabledResult} : RunReturns(r))
    /\ \A w \in WorkPackages : WF_vars(Resolve(w))
    /\ \A k \in Workers : WF_vars(AddWorker(k))

FairSpec == Spec /\ Fairness

-----------------------------------------------------------------------------
\* Events, telemetry and candidates name work packages of the graph.
EventTypes == {"EXECUTION_STARTED", "WORK_ACCEPTED"}
CandidateKinds == {"success", "pitfall", "failure"}

\* The states of the orchestrator's maps, the graph and the sink are the ones
\* the Go constants name.
TypeOK ==
    /\ cfg \in [service : BOOLEAN, enabled : BOOLEAN, gates : SUBSET GateNames]
    /\ graph \in [WorkPackages -> PlanStates]
    /\ assignments \in [WorkPackages ->
                         [state : AssignmentStates \cup {"none"}, worker : Nat, lease : Nat]]
    /\ results \in [WorkPackages ->
                     [status : ResultStatuses \cup {"none"}, tests : TestOutcomes, failure : BOOLEAN]]
    /\ seen \in [WorkPackages -> [status : ResultStatuses, tests : TestOutcomes] \cup {NoHash}]
    /\ approved \subseteq WorkPackages
    /\ workers \subseteq Workers
    /\ inflight \in [wp : WorkPackages, worker : Nat] \cup {Idle}
    /\ events \in Seq([type : EventTypes, wp : WorkPackages])
    /\ telemetry \in Seq([wp : WorkPackages, outcome : ResultStatuses])
    /\ candidates \in Seq([kind : CandidateKinds, wp : WorkPackages])
    /\ reply \in [dispatched : BOOLEAN, err : BOOLEAN]

\* Whether event e is in the log before position i.
EmittedBefore(e, i) == \E j \in 1 .. i - 1 : events[j] = e

\* The sink's log is a legal history of the graph by itself: nothing is logged
\* twice, an acceptance follows the start of the same work package, and a start
\* follows the acceptance of everything the work package depends on.
EventsRespectDependencies ==
    \A i \in 1 .. Len(events) :
        /\ ~EmittedBefore(events[i], i)
        /\ events[i].type = "WORK_ACCEPTED" =>
               EmittedBefore([type |-> "EXECUTION_STARTED", wp |-> events[i].wp], i)
        /\ events[i].type = "EXECUTION_STARTED" =>
               \A d \in DependsOn[events[i].wp] :
                   EmittedBefore([type |-> "WORK_ACCEPTED", wp |-> d], i)

\* Completed work was accepted by the gates, whenever that was decided (by
\* Dispatch, or by a Resolve after more approvals): intake recorded its result,
\* the result claims success, a configured tests gate saw only passed tests and
\* a configured human gate holds an approval.
CompletedPassedGates ==
    \A w \in WorkPackages : graph[w] = "COMPLETED" =>
        /\ results[w].status \in {"succeeded", "partial"}
        /\ seen[w] = Hash(results[w])
        /\ "tests" \in cfg.gates => results[w].tests = "passed"
        /\ "human_review" \in cfg.gates => w \in approved

\* The graph and the assignments, which the orchestrator updates separately and
\* whose errors it ignores, tell the same story about every work package.
Stranded(w) ==
    graph[w] = "RUNNING" /\ inflight.wp # w /\ assignments[w] = NoAssignment

GraphAndAssignmentsAgree ==
    \A w \in WorkPackages :
        /\ graph[w] = "COMPLETED" <=> assignments[w].state = "accepted"
        /\ graph[w] = "DEFICIENT" <=> assignments[w].state = "failed"
        /\ assignments[w].state = "awaiting_gates" =>
               graph[w] = "RUNNING" /\ inflight.wp # w
        /\ graph[w] = "RUNNING" =>
               \/ assignments[w].state = "awaiting_gates"
               \/ inflight.wp = w
               \/ Stranded(w)
        /\ graph[w] \in {"PROPOSED", "READY"} => assignments[w] = NoAssignment

\* Telemetry is evidence: one record for each result intake recorded, with the
\* outcome the result reported, and none for a run that left no result.
TelemetryMatchesResults ==
    /\ \A i, j \in 1 .. Len(telemetry) : telemetry[i].wp = telemetry[j].wp => i = j
    /\ \A i \in 1 .. Len(telemetry) :
          results[telemetry[i].wp] # NoResult /\ telemetry[i].outcome = results[telemetry[i].wp].status
    /\ \A w \in WorkPackages :
          results[w] # NoResult => \E i \in 1 .. Len(telemetry) : telemetry[i].wp = w
    /\ \A w \in WorkPackages : results[w] # NoResult <=> seen[w] # NoHash

\* A verdict is final: no later dispatch, resolve or approval moves a completed
\* or deficient work package, or removes an event from the log.
VerdictsAreFinal ==
    [][ /\ \A w \in WorkPackages :
              graph[w] \in {"COMPLETED", "DEFICIENT"} => graph'[w] = graph[w]
        /\ Len(events') >= Len(events)
        /\ \A i \in 1 .. Len(events) : events'[i] = events[i] ]_vars

\* The orchestrator implements the abstract supervised run.
Phase ==
    [w \in WorkPackages |->
        IF graph[w] \in {"PROPOSED", "READY"} THEN "waiting"
        ELSE IF graph[w] = "RUNNING" THEN "executing"
        ELSE IF graph[w] = "COMPLETED" THEN "accepted" ELSE "rejected"]

Abstract == INSTANCE SupervisedRun WITH
    phase <- Phase, consent <- approved, supervised <- ("human_review" \in cfg.gates)

ImplementsSupervisedRun == Abstract!ASpec

\* Every ready work package is dispatched and comes to a verdict, unless it
\* waits for an approval a human has not given, or the runtime's envelope was
\* refused and the package is stranded.
Settled(w) == graph[w] \in {"COMPLETED", "DEFICIENT"}

ReadyWorkSettles ==
    \A w \in WorkPackages :
        (cfg.service /\ IsReady(w)) ~>
            \/ Settled(w)
            \/ Stranded(w)
            \/ assignments[w].state = "awaiting_gates" /\ w \notin approved

\* Once approved, work that awaits its gates comes to a verdict.
ApprovedWorkSettles ==
    \A w \in WorkPackages :
        (assignments[w].state = "awaiting_gates" /\ w \in approved) ~> Settled(w)
=============================================================================
