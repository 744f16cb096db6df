---------------------------- MODULE KernelProofs ----------------------------
(***************************************************************************)
(* Proofs about the supervised control cycle, for every graph, registry,   *)
(* set of runtime outcomes and gate configuration.                         *)
(***************************************************************************)
EXTENDS Kernel, TLAPS

(***************************************************************************)
(* The moves the orchestrator asks for are all in the transitions table,   *)
(* so the errors it throws away never occur.                               *)
(***************************************************************************)
LEMMA OrchestratorMoves ==
    /\ LocalState = "running"
    /\ Move(LocalState, "failed") = "failed"
    /\ Move(LocalState, "collecting") = "collecting"
    /\ Move("collecting", "failed") = "failed"
    /\ Move("collecting", "awaiting_gates") = "awaiting_gates"
    /\ Move("awaiting_gates", "awaiting_gates") = "awaiting_gates"
    /\ Move("awaiting_gates", "accepted") = "accepted"
    /\ Move("awaiting_gates", "failed") = "failed"
<1>1. Move("planned", "leased") = "leased"
  BY DEF Move, CanTransition, Transitions
<1>2. Move("leased", "preparing") = "preparing"
  BY DEF Move, CanTransition, Transitions
<1>3. Move("preparing", "running") = "running"
  BY DEF Move, CanTransition, Transitions
<1>4. LocalState = "running"
  BY <1>1, <1>2, <1>3 DEF LocalState, NewAssignment
<1>5. QED
  BY <1>4 DEF Move, CanTransition, Transitions

\* A verdict is one of three assignment states.
LEMMA VerdictRange ==
    ASSUME NEW report
    PROVE  Verdict(report) \in {"accepted", "awaiting_gates", "failed"}
BY DEF Verdict

\* Derive gives at most one candidate, about the work package it was asked for.
LEMMA DeriveType ==
    ASSUME NEW w \in WorkPackages, NEW r
    PROVE  Derive(w, r) \in Seq([kind : CandidateKinds, wp : WorkPackages])
<1> DEFINE T == [kind : CandidateKinds, wp : WorkPackages]
<1>1. \A k \in CandidateKinds : [kind |-> k, wp |-> w] \in T
  OBVIOUS
<1> HIDE DEF T
<1>2. /\ <<[kind |-> "success", wp |-> w]>> \in Seq(T)
      /\ <<[kind |-> "pitfall", wp |-> w]>> \in Seq(T)
      /\ <<[kind |-> "failure", wp |-> w]>> \in Seq(T)
      /\ << >> \in Seq(T)
  BY <1>1 DEF CandidateKinds
<1>3. Derive(w, r) \in Seq(T)
  BY <1>2 DEF Derive
<1>4. QED
  BY <1>3 DEF T

\* What a step that ends a run does, with the moves of the table evaluated.
LEMMA RunRecordedEffect ==
    ASSUME NEW r, RunRecorded(r), TypeOK
    PROVE  LET w == inflight.wp
               ok == r.status \in {"succeeded", "partial"}
               verdict == IF ok THEN Verdict(Evaluate(cfg.gates, w, r.tests, approved))
                          ELSE "failed"
           IN  /\ assignments' = [assignments EXCEPT ![w] = Assigned(verdict)]
               /\ graph' = [graph EXCEPT ![w] = GraphAfter(verdict, @)]
               /\ EmitAccepted(verdict, w)
               /\ verdict \in {"accepted", "awaiting_gates", "failed"}
<1> DEFINE w == inflight.wp
           ok == r.status \in {"succeeded", "partial"}
           rep == Evaluate(cfg.gates, w, r.tests, approved)
           verdict == IF ok THEN Verdict(rep) ELSE "failed"
           state == IF ok THEN Move(Move(Move(LocalState, "collecting"), "awaiting_gates"), verdict)
                    ELSE Move(Move(LocalState, "collecting"), "failed")
<1>1. verdict \in {"accepted", "awaiting_gates", "failed"}
  BY VerdictRange
<1>2. state = verdict
  <2>1. CASE ok
    BY <2>1, <1>1, OrchestratorMoves
  <2>2. CASE ~ok
    BY <2>2, OrchestratorMoves
  <2>3. QED
    BY <2>1, <2>2
<1>3. /\ assignments' = [assignments EXCEPT ![w] = Assigned(state)]
      /\ graph' = [graph EXCEPT ![w] = GraphAfter(verdict, @)]
      /\ EmitAccepted(verdict, w)
  BY DEF RunRecorded
<1>4. QED
  BY <1>1, <1>2, <1>3

-----------------------------------------------------------------------------
(***************************************************************************)
(* Type correctness.                                                       *)
(***************************************************************************)
LEMMA EmitAcceptedType ==
    ASSUME NEW w \in WorkPackages, NEW v, EmitAccepted(v, w),
           events \in Seq([type : EventTypes, wp : WorkPackages])
    PROVE  events' \in Seq([type : EventTypes, wp : WorkPackages])
<1> DEFINE T == [type : EventTypes, wp : WorkPackages]
<1>1. [type |-> "WORK_ACCEPTED", wp |-> w] \in T
  BY DEF EventTypes
<1> HIDE DEF T
<1>2. events \in Seq(T)
  BY DEF T
<1>3. Append(events, [type |-> "WORK_ACCEPTED", wp |-> w]) \in Seq(T)
  BY <1>1, <1>2
<1>4. events' \in Seq(T)
  BY <1>2, <1>3 DEF EmitAccepted
<1>5. QED
  BY <1>4 DEF T

\* Every step keeps the types.
LEMMA TypeStep ==
    ASSUME TypeOK, [Next]_vars
    PROVE  TypeOK'
<1>1. ASSUME NEW k \in Workers, AddWorker(k) PROVE TypeOK'
  BY <1>1 DEF AddWorker, TypeOK
<1>2. CASE DispatchNothing
  BY <1>2 DEF DispatchNothing, TypeOK, Returned
<1>3. CASE DispatchRefused
  BY <1>3 DEF DispatchRefused, TypeOK, Returned
<1>4. ASSUME NEW w \in WorkPackages, NEW k \in Workers, DispatchBegin(w, k)
      PROVE TypeOK'
  <2>1. k.id \in Nat
    BY WorkerAssumption
  <2>2. graph' \in [WorkPackages -> PlanStates]
    BY <1>4 DEF DispatchBegin, TypeOK, PlanStates
  <2>3. events' \in Seq([type : EventTypes, wp : WorkPackages])
    BY <1>4 DEF DispatchBegin, TypeOK, EventTypes
  <2>4. QED
    BY <1>4, <2>1, <2>2, <2>3 DEF DispatchBegin, TypeOK
<1>5. CASE RunFails
  <2>1. inflight.wp \in WorkPackages /\ inflight.worker \in Nat
    BY <1>5 DEF RunFails, TypeOK
  <2>2. assignments' \in [WorkPackages ->
           [state : AssignmentStates \cup {"none"}, worker : Nat, lease : Nat]]
    BY <1>5, <2>1, OrchestratorMoves DEF RunFails, TypeOK, Assigned, AssignmentStates
  <2>3. graph' \in [WorkPackages -> PlanStates]
    BY <1>5, <2>1 DEF RunFails, TypeOK, PlanStates
  <2>4. QED
    BY <1>5, <2>2, <2>3 DEF RunFails, TypeOK, Returned
<1>6. ASSUME NEW r \in Outcomes \cup {DisabledResult}, RunReturns(r)
      PROVE TypeOK'
  <2>1. inflight.wp \in WorkPackages /\ inflight.worker \in Nat
    BY <1>6 DEF RunReturns, TypeOK
  <2>2. r \in [status : ResultStatuses, tests : TestOutcomes, failure : BOOLEAN]
    <3>1. DisabledResult \in [status : ResultStatuses, tests : TestOutcomes, failure : BOOLEAN]
      BY DEF DisabledResult, ResultStatuses, ValidStatuses, TestOutcomes
    <3>2. QED
      BY <3>1, ResultAssumption
  <2>3. CASE RunRefused(r)
    BY <1>6, <2>3 DEF RunReturns, RunRefused, TypeOK, Returned
  <2>4. CASE RunRecorded(r)
    <3> DEFINE w == inflight.wp
               ok == r.status \in {"succeeded", "partial"}
               verdict == IF ok THEN Verdict(Evaluate(cfg.gates, w, r.tests, approved))
                          ELSE "failed"
    <3>1. /\ assignments' = [assignments EXCEPT ![w] = Assigned(verdict)]
          /\ graph' = [graph EXCEPT ![w] = GraphAfter(verdict, @)]
          /\ EmitAccepted(verdict, w)
          /\ verdict \in {"accepted", "awaiting_gates", "failed"}
      BY <2>4, RunRecordedEffect
    <3> HIDE DEF verdict
    <3>2. assignments' \in [WorkPackages ->
             [state : AssignmentStates \cup {"none"}, worker : Nat, lease : Nat]]
      BY <3>1, <2>1 DEF TypeOK, Assigned, AssignmentStates
    <3>3. graph' \in [WorkPackages -> PlanStates]
      BY <3>1, <2>1 DEF TypeOK, GraphAfter, PlanStates
    <3>4. events' \in Seq([type : EventTypes, wp : WorkPackages])
      BY <3>1, <2>1, EmitAcceptedType DEF TypeOK
    <3>5. candidates' \in Seq([kind : CandidateKinds, wp : WorkPackages])
      <4> DEFINE T == [kind : CandidateKinds, wp : WorkPackages]
      <4>1. candidates \in Seq(T) /\ Derive(w, r) \in Seq(T)
        BY <2>1, DeriveType DEF TypeOK
      <4> HIDE DEF T
      <4>2. candidates \o Derive(w, r) \in Seq(T)
        BY <4>1
      <4>3. candidates' = candidates \o Derive(w, r)
        BY <2>4 DEF RunRecorded
      <4>4. QED
        BY <4>2, <4>3 DEF T
    <3>6. telemetry' \in Seq([wp : WorkPackages, outcome : ResultStatuses])
      BY <2>1, <2>2, <2>4 DEF RunRecorded, TypeOK
    <3>7. results' \in [WorkPackages -> [status : ResultStatuses \cup {"none"},
                         tests : TestOutcomes, failure : BOOLEAN]]
      BY <2>1, <2>2, <2>4 DEF RunRecorded, TypeOK
    <3>8. seen' \in [WorkPackages -> [status : ResultStatuses, tests : TestOutcomes] \cup {NoHash}]
      BY <2>1, <2>2, <2>4 DEF RunRecorded, TypeOK, SeenAfter, Hash
    <3>9. QED
      BY <1>6, <2>4, <3>2, <3>3, <3>4, <3>5, <3>6, <3>7, <3>8
      DEF RunReturns, RunRecorded, TypeOK, Returned
  <2>5. QED
    BY <1>6, <2>3, <2>4 DEF RunReturns
<1>7. ASSUME NEW w \in WorkPackages, Resolve(w) PROVE TypeOK'
  <2> DEFINE verdict == Verdict(Evaluate(cfg.gates, w, results[w].tests, approved))
  <2>1. verdict \in {"accepted", "awaiting_gates", "failed"}
    BY VerdictRange
  <2>2. /\ assignments' = [assignments EXCEPT ![w] = WithState(@, Move(@.state, verdict))]
        /\ graph' = [graph EXCEPT ![w] = GraphAfter(verdict, @)]
        /\ EmitAccepted(verdict, w)
        /\ assignments[w].state = "awaiting_gates"
    BY <1>7 DEF Resolve
  <2> HIDE DEF verdict
  <2>3. assignments' = [assignments EXCEPT ![w] = WithState(@, verdict)]
    BY <2>1, <2>2, OrchestratorMoves
  <2>4. assignments' \in [WorkPackages ->
           [state : AssignmentStates \cup {"none"}, worker : Nat, lease : Nat]]
    BY <2>1, <2>3 DEF TypeOK, AssignmentStates, WithState
  <2>5. graph' \in [WorkPackages -> PlanStates]
    BY <2>1, <2>2 DEF TypeOK, GraphAfter, PlanStates
  <2>6. events' \in Seq([type : EventTypes, wp : WorkPackages])
    BY <2>2, EmitAcceptedType DEF TypeOK
  <2>7. QED
    BY <1>7, <2>4, <2>5, <2>6 DEF Resolve, TypeOK
<1>8. ASSUME NEW w \in WorkPackages, Approve(w) \/ HumanGateApprove(w) PROVE TypeOK'
  BY <1>8 DEF Approve, HumanGateApprove, TypeOK
<1>9. CASE UNCHANGED vars
  BY <1>9 DEF vars, TypeOK
<1>10. QED
  BY <1>1, <1>2, <1>3, <1>4, <1>5, <1>6, <1>7, <1>8, <1>9 DEF Next

\* Every variable keeps the type the Go declarations give it, whatever the
\* runtime returns and in whatever order the operations are called.
THEOREM TypeCorrect == Spec => []TypeOK
<1>1. Init => TypeOK
  BY GraphAssumption, WorkerAssumption
  DEF Init, TypeOK, PlanStates, NoAssignment, NoResult, Returned, TestOutcomes
<1>2. TypeOK /\ [Next]_vars => TypeOK'
  BY TypeStep
<1>3. QED
  BY <1>1, <1>2, PTL DEF Spec

-----------------------------------------------------------------------------
(***************************************************************************)
(* The inductive invariant.  The agreement of graph and assignments is not *)
(* inductive by itself: that a run's verdict is about a package nobody has *)
(* judged needs InflightIsFresh, and that Resolve accepts a recorded result *)
(* needs AwaitingIsRecorded.                                               *)
(***************************************************************************)
Untouched(w) ==
    /\ assignments[w] = NoAssignment
    /\ results[w] = NoResult
    /\ seen[w] = NoHash

InflightIsFresh ==
    inflight # Idle => graph[inflight.wp] = "RUNNING" /\ Untouched(inflight.wp)

UnstartedIsUntouched ==
    \A w \in WorkPackages : graph[w] \in {"PROPOSED", "READY"} => Untouched(w)

AwaitingIsRecorded ==
    \A w \in WorkPackages : assignments[w].state = "awaiting_gates" =>
        /\ results[w].status \in {"succeeded", "partial"}
        /\ seen[w] = Hash(results[w])

Inv ==
    /\ TypeOK
    /\ InflightIsFresh
    /\ UnstartedIsUntouched
    /\ AwaitingIsRecorded
    /\ GraphAndAssignmentsAgree
    /\ CompletedPassedGates

\* The log and the graph: exactly the started packages have a start event, and
\* exactly the completed ones an acceptance.
Started(w) == [type |-> "EXECUTION_STARTED", wp |-> w]
Accepted(w) == [type |-> "WORK_ACCEPTED", wp |-> w]

Logged(e) == \E i \in 1 .. Len(events) : events[i] = e

LogMatchesGraph ==
    \A w \in WorkPackages :
        /\ Logged(Started(w)) <=> graph[w] \notin {"PROPOSED", "READY"}
        /\ Logged(Accepted(w)) <=> graph[w] = "COMPLETED"

LogInv == LogMatchesGraph /\ EventsRespectDependencies

-----------------------------------------------------------------------------
\* What the orchestrator's maps hold for one work package, as a function of
\* that package's entries alone: Inv is this for every package, and a step
\* disturbs it only for the package it is about.
PackageInv(w) ==
    /\ graph[w] \in {"PROPOSED", "READY"} => Untouched(w)
    /\ assignments[w].state = "awaiting_gates" =>
          /\ results[w].status \in {"succeeded", "partial"}
          /\ seen[w] = Hash(results[w])
          /\ graph[w] = "RUNNING"
          /\ inflight.wp # w
    /\ graph[w] = "COMPLETED" <=> assignments[w].state = "accepted"
    /\ graph[w] = "DEFICIENT" <=> assignments[w].state = "failed"
    /\ graph[w] = "RUNNING" =>
          \/ assignments[w].state = "awaiting_gates"
          \/ assignments[w] = NoAssignment
    /\ graph[w] = "COMPLETED" =>
          /\ results[w].status \in {"succeeded", "partial"}
          /\ seen[w] = Hash(results[w])
          /\ "tests" \in cfg.gates => results[w].tests = "passed"
          /\ "human_review" \in cfg.gates => w \in approved

LEMMA InvByPackage ==
    Inv <=> TypeOK /\ InflightIsFresh /\ \A w \in WorkPackages : PackageInv(w)
<1>1. \A w \in WorkPackages : w # Idle.wp
  BY GraphAssumption DEF Idle
<1>2. ASSUME Inv, NEW w \in WorkPackages PROVE PackageInv(w)
  <2>1. inflight.wp = w => assignments[w] = NoAssignment
    BY <1>1, <1>2 DEF Inv, InflightIsFresh, Untouched
  <2>2. QED
    BY <1>2, <2>1 DEF Inv, UnstartedIsUntouched, AwaitingIsRecorded,
       GraphAndAssignmentsAgree, CompletedPassedGates, PackageInv, Stranded
<1>3. ASSUME TypeOK, InflightIsFresh, \A w \in WorkPackages : PackageInv(w)
      PROVE  Inv
  BY <1>3 DEF Inv, UnstartedIsUntouched, AwaitingIsRecorded,
     GraphAndAssignmentsAgree, CompletedPassedGates, PackageInv, Stranded, Untouched
<1>4. QED
  BY <1>2, <1>3 DEF Inv

\* A package none of whose entries change keeps its invariant.
LEMMA UntouchedPackage ==
    ASSUME NEW w \in WorkPackages, PackageInv(w),
           graph'[w] = graph[w], assignments'[w] = assignments[w],
           results'[w] = results[w], seen'[w] = seen[w], cfg' = cfg,
           approved \subseteq approved',
           inflight'.wp # w \/ assignments[w].state # "awaiting_gates"
    PROVE  PackageInv(w)'
BY DEF PackageInv, Untouched, Hash

\* A passing report means every configured gate passed.
LEMMA PassedGates ==
    ASSUME NEW w, NEW tests,
           Verdict(Evaluate(cfg.gates, w, tests, approved)) = "accepted"
    PROVE  /\ "tests" \in cfg.gates => tests = "passed"
           /\ "human_review" \in cfg.gates => w \in approved
<1>1. \A g \in cfg.gates : Decision(g, w, tests, approved) = "pass"
  BY DEF Verdict, Evaluate
<1>2. QED
  BY <1>1 DEF Decision

LEMMA InvStep ==
    ASSUME Inv, [Next]_vars
    PROVE  Inv'
<1>1. TypeOK /\ TypeOK' /\ InflightIsFresh /\ \A w \in WorkPackages : PackageInv(w)
  BY TypeStep, InvByPackage DEF Inv
<1>0. Idle.wp \notin WorkPackages /\ NoAssignment.state = "none"
  BY GraphAssumption DEF Idle, NoAssignment
<1> SUFFICES InflightIsFresh' /\ \A w \in WorkPackages : PackageInv(w)'
  <2>1. InflightIsFresh' /\ (\A w \in WorkPackages : PackageInv(w))' => Inv'
    BY <1>1, InvByPackage, PTL
  <2>2. QED
    BY <2>1
<1>2. ASSUME UNCHANGED <<cfg, graph, assignments, results, seen, inflight>>,
             approved \subseteq approved'
      PROVE  InflightIsFresh' /\ \A w \in WorkPackages : PackageInv(w)'
  <2>1. InflightIsFresh'
    BY <1>1, <1>2 DEF InflightIsFresh, Untouched
  <2>2. ASSUME NEW w \in WorkPackages PROVE PackageInv(w)'
    BY <1>1, <1>2 DEF PackageInv, Untouched, Hash
  <2>3. QED
    BY <2>1, <2>2
<1>3. ASSUME NEW k \in Workers, AddWorker(k) PROVE InflightIsFresh' /\ \A w \in WorkPackages : PackageInv(w)'
  BY <1>2, <1>3 DEF AddWorker
<1>4. CASE DispatchNothing
  BY <1>2, <1>4 DEF DispatchNothing
<1>5. CASE DispatchRefused
  BY <1>2, <1>5 DEF DispatchRefused
<1>6. ASSUME NEW w \in WorkPackages, NEW k \in Workers, DispatchBegin(w, k)
      PROVE  InflightIsFresh' /\ \A v \in WorkPackages : PackageInv(v)'
  <2>1. /\ Untouched(w)
        /\ graph' = [graph EXCEPT ![w] = "RUNNING"]
        /\ inflight' = [wp |-> w, worker |-> k.id]
        /\ UNCHANGED <<cfg, assignments, results, seen, approved>>
    BY <1>1, <1>6 DEF DispatchBegin, IsNext, Ready, IsReady, PackageInv
  <2>2. InflightIsFresh'
    BY <1>1, <2>1 DEF InflightIsFresh, Untouched, TypeOK
  <2>3. PackageInv(w)'
    BY <1>0, <1>1, <2>1 DEF PackageInv, Untouched, TypeOK
  <2>4. ASSUME NEW v \in WorkPackages, v # w PROVE PackageInv(v)'
    BY <1>1, <2>1, <2>4, UntouchedPackage DEF TypeOK
  <2>5. QED
    BY <2>2, <2>3, <2>4
<1>7. CASE RunFails
  <2>0. PICK w \in WorkPackages : w = inflight.wp
    BY <1>1, <1>7 DEF RunFails, TypeOK
  <2>1. graph[w] = "RUNNING" /\ Untouched(w)
    BY <1>1, <1>7, <2>0 DEF RunFails, InflightIsFresh
  <2>2. /\ assignments' = [assignments EXCEPT ![w] = Assigned("failed")]
        /\ graph' = [graph EXCEPT ![w] = "DEFICIENT"]
        /\ inflight' = Idle
        /\ UNCHANGED <<cfg, results, seen, approved>>
    BY <1>7, <2>0, OrchestratorMoves DEF RunFails
  <2>3. InflightIsFresh'
    BY <2>2 DEF InflightIsFresh
  <2>4. PackageInv(w)'
    BY <1>0, <1>1, <2>1, <2>2 DEF PackageInv, Untouched, TypeOK, Assigned
  <2>5. ASSUME NEW v \in WorkPackages, v # w PROVE PackageInv(v)'
    BY <1>0, <1>1, <2>1, <2>2, <2>5, UntouchedPackage DEF TypeOK
  <2>6. QED
    BY <2>3, <2>4, <2>5
<1>8. ASSUME NEW r \in Outcomes \cup {DisabledResult}, RunReturns(r)
      PROVE  InflightIsFresh' /\ \A v \in WorkPackages : PackageInv(v)'
  <2>0. PICK w \in WorkPackages : w = inflight.wp
    BY <1>1, <1>8 DEF RunReturns, TypeOK
  <2>1. graph[w] = "RUNNING" /\ Untouched(w)
    BY <1>1, <1>8, <2>0 DEF RunReturns, InflightIsFresh
  <2>2. inflight' = Idle /\ InflightIsFresh' /\ UNCHANGED <<cfg, approved>>
    BY <1>8 DEF RunReturns, InflightIsFresh
  <2>3. CASE RunRefused(r)
    <3>1. UNCHANGED <<graph, assignments, results, seen>>
      BY <2>3 DEF RunRefused
    <3>2. ASSUME NEW v \in WorkPackages PROVE PackageInv(v)'
      BY <1>0, <1>1, <2>2, <3>1, UntouchedPackage
    <3>3. QED
      BY <2>2, <3>2
  <2>4. CASE RunRecorded(r)
    <3> DEFINE ok == r.status \in {"succeeded", "partial"}
               verdict == IF ok THEN Verdict(Evaluate(cfg.gates, w, r.tests, approved))
                          ELSE "failed"
    <3>1. /\ assignments' = [assignments EXCEPT ![w] = Assigned(verdict)]
          /\ graph' = [graph EXCEPT ![w] = GraphAfter(verdict, @)]
          /\ verdict \in {"accepted", "awaiting_gates", "failed"}
      BY <1>1, <2>0, <2>4, RunRecordedEffect
    <3>2. verdict = "accepted" =>
             /\ "tests" \in cfg.gates => r.tests = "passed"
             /\ "human_review" \in cfg.gates => w \in approved
      BY PassedGates
    <3>3. verdict \in {"accepted", "awaiting_gates"} => ok
      OBVIOUS
    <3> HIDE DEF verdict
    <3>4. /\ results' = [results EXCEPT ![w] = r]
          /\ seen' = [seen EXCEPT ![w] = Hash(r)]
      BY <2>0, <2>1, <2>4 DEF RunRecorded, Untouched, SubmitOutcome, SeenAfter
    <3>5. PackageInv(w)'
      <4>1. /\ assignments'[w].state = verdict
            /\ graph'[w] = GraphAfter(verdict, "RUNNING")
            /\ results'[w] = r
            /\ seen'[w] = Hash(r)
        BY <1>1, <2>1, <3>1, <3>4 DEF Assigned, TypeOK
      <4>2. Hash(r) = Hash(results'[w])
        BY <4>1
      <4>3. CASE verdict = "accepted"
        BY <4>3, <4>1, <3>2, <3>3, <2>2, <2>1 DEF GraphAfter, PackageInv, Untouched, Hash
      <4>4. CASE verdict = "failed"
        BY <4>4, <4>1 DEF GraphAfter, PackageInv, Untouched
      <4>5. CASE verdict = "awaiting_gates"
        BY <4>5, <4>1, <3>3, <2>2, <2>1, <1>0 DEF GraphAfter, PackageInv, Untouched, Hash
      <4>6. QED
        BY <3>1, <4>3, <4>4, <4>5
    <3>6. ASSUME NEW v \in WorkPackages, v # w PROVE PackageInv(v)'
      BY <1>0, <1>1, <2>1, <2>2, <3>1, <3>4, <3>6, UntouchedPackage DEF TypeOK
    <3>7. QED
      BY <2>2, <3>5, <3>6
  <2>5. QED
    BY <1>8, <2>3, <2>4 DEF RunReturns
<1>9. ASSUME NEW w \in WorkPackages, Resolve(w)
      PROVE  InflightIsFresh' /\ \A v \in WorkPackages : PackageInv(v)'
  <2> DEFINE verdict == Verdict(Evaluate(cfg.gates, w, results[w].tests, approved))
  <2>1. verdict \in {"accepted", "awaiting_gates", "failed"}
    BY VerdictRange
  <2>2. verdict = "accepted" =>
           /\ "tests" \in cfg.gates => results[w].tests = "passed"
           /\ "human_review" \in cfg.gates => w \in approved
    BY PassedGates
  <2>3. /\ assignments' = [assignments EXCEPT ![w] = WithState(@, Move(@.state, verdict))]
        /\ graph' = [graph EXCEPT ![w] = GraphAfter(verdict, @)]
        /\ assignments[w].state = "awaiting_gates"
        /\ inflight = Idle
        /\ UNCHANGED <<cfg, results, seen, approved, inflight>>
    BY <1>9 DEF Resolve
  <2> HIDE DEF verdict
  <2>4. Move(assignments[w].state, verdict) = verdict
    BY <2>1, <2>3, OrchestratorMoves
  <2>5. /\ graph[w] = "RUNNING"
        /\ results[w].status \in {"succeeded", "partial"}
        /\ seen[w] = Hash(results[w])
    BY <1>1, <2>3 DEF PackageInv
  <2>6. /\ assignments'[w].state = verdict
        /\ graph'[w] = GraphAfter(verdict, "RUNNING")
    BY <1>1, <2>3, <2>4, <2>5 DEF WithState, TypeOK
  <2>7. InflightIsFresh'
    BY <2>3 DEF InflightIsFresh
  <2>8. PackageInv(w)'
    <3>1. CASE verdict = "accepted"
      BY <3>1, <2>2, <2>3, <2>5, <2>6 DEF GraphAfter, PackageInv, Untouched, Hash
    <3>2. CASE verdict = "failed"
      BY <3>2, <2>6 DEF GraphAfter, PackageInv, Untouched
    <3>3. CASE verdict = "awaiting_gates"
      BY <3>3, <1>0, <2>3, <2>5, <2>6 DEF GraphAfter, PackageInv, Untouched, Hash
    <3>4. QED
      BY <2>1, <3>1, <3>2, <3>3
  <2>9. ASSUME NEW v \in WorkPackages, v # w PROVE PackageInv(v)'
    BY <1>0, <1>1, <2>3, <2>9, UntouchedPackage DEF TypeOK
  <2>10. QED
    BY <2>7, <2>8, <2>9
<1>10. ASSUME NEW w \in WorkPackages, Approve(w) \/ HumanGateApprove(w)
       PROVE  InflightIsFresh' /\ \A v \in WorkPackages : PackageInv(v)'
  BY <1>2, <1>10 DEF Approve, HumanGateApprove
<1>11. CASE UNCHANGED vars
  BY <1>2, <1>11 DEF vars
<1>12. QED
  BY <1>3, <1>4, <1>5, <1>6, <1>7, <1>8, <1>9, <1>10, <1>11 DEF Next

LEMMA InvInit == Init => Inv
BY GraphAssumption, WorkerAssumption, ResultAssumption
DEF Init, Inv, TypeOK, InflightIsFresh, UnstartedIsUntouched, AwaitingIsRecorded,
    GraphAndAssignmentsAgree, CompletedPassedGates, Untouched, PlanStates,
    NoAssignment, NoResult, Returned, TestOutcomes

\* The inductive invariant holds throughout.
THEOREM InvCorrect == Spec => []Inv
BY InvInit, InvStep, PTL DEF Spec

\* Completed work passed every configured gate on a result intake recorded, for
\* every graph, gate configuration and order of dispatch, approval and resolve.
THEOREM GatesAreEnforced == Spec => []CompletedPassedGates
<1>1. Inv => CompletedPassedGates
  BY DEF Inv
<1>2. QED
  BY <1>1, InvCorrect, PTL

\* The dependency graph and the assignments never tell different stories.
THEOREM GraphAgreement == Spec => []GraphAndAssignmentsAgree
<1>1. Inv => GraphAndAssignmentsAgree
  BY DEF Inv
<1>2. QED
  BY <1>1, InvCorrect, PTL

-----------------------------------------------------------------------------
(***************************************************************************)
(* The event log.                                                          *)
(***************************************************************************)
EventSet == [type : EventTypes, wp : WorkPackages]

\* Appending an event keeps what was logged and adds just that event.
LEMMA AppendLogs ==
    ASSUME events \in Seq(EventSet), NEW e \in EventSet, events' = Append(events, e)
    PROVE  /\ Len(events') = Len(events) + 1
           /\ \A i \in 1 .. Len(events) : events'[i] = events[i]
           /\ events'[Len(events) + 1] = e
           /\ \A f : Logged(f)' <=> Logged(f) \/ f = e
<1> HIDE DEF EventSet
<1>1. /\ Len(events') = Len(events) + 1
      /\ \A i \in 1 .. Len(events) : events'[i] = events[i]
      /\ events'[Len(events) + 1] = e
      /\ Len(events) \in Nat
  OBVIOUS
<1>2. ASSUME NEW f PROVE Logged(f)' <=> Logged(f) \/ f = e
  <2>1. Logged(f)' => Logged(f) \/ f = e
    BY <1>1 DEF Logged
  <2>2. Logged(f) => Logged(f)'
    BY <1>1 DEF Logged
  <2>3. Logged(e)'
    BY <1>1 DEF Logged
  <2>4. QED
    BY <2>1, <2>2, <2>3
<1>3. QED
  BY <1>1, <1>2

\* The log stays a legal history when the new event is new and what it needs
\* is already there.
LEMMA AppendRespects ==
    ASSUME events \in Seq(EventSet), NEW e \in EventSet, events' = Append(events, e),
           EventsRespectDependencies, ~Logged(e),
           e.type = "WORK_ACCEPTED" => Logged(Started(e.wp)),
           e.type = "EXECUTION_STARTED" => \A d \in DependsOn[e.wp] : Logged(Accepted(d))
    PROVE  EventsRespectDependencies'
<1>0. PICK n \in Nat : n = Len(events)
  OBVIOUS
<1>1. /\ Len(events') = n + 1
      /\ \A i \in 1 .. n : events'[i] = events[i]
      /\ events'[n + 1] = e
  BY <1>0, AppendLogs
<1>2. ASSUME NEW f, NEW i \in 1 .. n PROVE EmittedBefore(f, i)' <=> EmittedBefore(f, i)
  BY <1>1 DEF EmittedBefore
<1>3. ASSUME NEW f PROVE EmittedBefore(f, n + 1)' <=> Logged(f)
  BY <1>0, <1>1 DEF EmittedBefore, Logged
<1>4. ASSUME NEW i \in 1 .. n + 1, NEW ev, ev = events'[i]
      PROVE  /\ ~EmittedBefore(ev, i)'
             /\ ev.type = "WORK_ACCEPTED" => EmittedBefore(Started(ev.wp), i)'
             /\ ev.type = "EXECUTION_STARTED" =>
                   \A d \in DependsOn[ev.wp] : EmittedBefore(Accepted(d), i)'
  <2>1. CASE i \in 1 .. n
    <3>1. ev = events[i]
      BY <1>1, <1>4, <2>1
    <3>2. /\ ~EmittedBefore(ev, i)
          /\ ev.type = "WORK_ACCEPTED" => EmittedBefore(Started(ev.wp), i)
          /\ ev.type = "EXECUTION_STARTED" =>
                \A d \in DependsOn[ev.wp] : EmittedBefore(Accepted(d), i)
      BY <1>0, <2>1, <3>1 DEF EventsRespectDependencies, Started, Accepted
    <3>3. QED
      BY <1>2, <2>1, <3>2 DEF Started, Accepted
  <2>2. CASE i = n + 1
    BY <1>1, <1>3, <1>4, <2>2 DEF Started, Accepted
  <2>3. QED
    BY <2>1, <2>2
<1>5. ASSUME NEW i \in 1 .. n + 1
      PROVE  ( /\ ~EmittedBefore(events[i], i)
               /\ events[i].type = "WORK_ACCEPTED" => EmittedBefore(Started(events[i].wp), i)
               /\ events[i].type = "EXECUTION_STARTED" =>
                     \A d \in DependsOn[events[i].wp] : EmittedBefore(Accepted(d), i) )'
  <2>1. PICK ev : ev = events'[i]
    OBVIOUS
  <2>2. /\ ~EmittedBefore(ev, i)'
        /\ ev.type = "WORK_ACCEPTED" => EmittedBefore(Started(ev.wp), i)'
        /\ ev.type = "EXECUTION_STARTED" =>
              \A d \in DependsOn[ev.wp] : EmittedBefore(Accepted(d), i)'
    BY <1>4, <2>1
  <2>3. QED
    BY <2>1, <2>2, Zenon DEF EmittedBefore, Started, Accepted
<1>6. QED
  BY <1>1, <1>5 DEF EventsRespectDependencies, Started, Accepted, EmittedBefore

\* A step that logs nothing keeps the log in step with the graph if no package
\* is started or completed by it.
LEMMA SilentStep ==
    ASSUME LogInv, events' = events,
           \A w \in WorkPackages :
              /\ graph'[w] \in {"PROPOSED", "READY"} <=> graph[w] \in {"PROPOSED", "READY"}
              /\ graph'[w] = "COMPLETED" <=> graph[w] = "COMPLETED"
    PROVE  LogInv'
<1>1. LogMatchesGraph'
  BY DEF LogInv, LogMatchesGraph, Logged, Started, Accepted
<1>2. EventsRespectDependencies'
  BY DEF LogInv, EventsRespectDependencies, EmittedBefore
<1>3. QED
  BY <1>1, <1>2 DEF LogInv

\* A verdict on a running package: the log gains the acceptance, or nothing.
LEMMA VerdictStep ==
    ASSUME TypeOK, LogInv, NEW w \in WorkPackages, graph[w] = "RUNNING",
           NEW v \in {"accepted", "awaiting_gates", "failed"},
           graph' = [graph EXCEPT ![w] = GraphAfter(v, @)], EmitAccepted(v, w)
    PROVE  LogInv'
<1>1. CASE v # "accepted"
  <2>1. events' = events
    BY <1>1 DEF EmitAccepted
  <2>2. ASSUME NEW u \in WorkPackages
        PROVE  /\ graph'[u] \in {"PROPOSED", "READY"} <=> graph[u] \in {"PROPOSED", "READY"}
               /\ graph'[u] = "COMPLETED" <=> graph[u] = "COMPLETED"
    BY <1>1 DEF GraphAfter, TypeOK
  <2>3. QED
    BY <2>1, <2>2, SilentStep
<1>2. CASE v = "accepted"
  <2>1. /\ events' = Append(events, Accepted(w))
        /\ Accepted(w) \in EventSet
        /\ events \in Seq(EventSet)
        /\ Accepted(w).type = "WORK_ACCEPTED"
        /\ Accepted(w).wp = w
    BY <1>2 DEF EmitAccepted, Accepted, EventSet, EventTypes, TypeOK
  <2>2. ~Logged(Accepted(w)) /\ Logged(Started(w))
    BY DEF LogInv, LogMatchesGraph
  <2>3. EventsRespectDependencies'
    BY <2>1, <2>2, AppendRespects DEF LogInv
  <2>4. \A f : Logged(f)' <=> Logged(f) \/ f = Accepted(w)
    BY <2>1, AppendLogs
  <2>5. \A u \in WorkPackages : graph'[u] = IF u = w THEN "COMPLETED" ELSE graph[u]
    BY <1>2 DEF GraphAfter, TypeOK
  <2>6. LogMatchesGraph'
    <3>1. ASSUME NEW u \in WorkPackages
          PROVE  /\ Logged(Started(u))' <=> graph'[u] \notin {"PROPOSED", "READY"}
                 /\ Logged(Accepted(u))' <=> graph'[u] = "COMPLETED"
      <4>1. Started(u) # Accepted(w) /\ (Accepted(u) = Accepted(w) <=> u = w)
        BY DEF Started, Accepted
      <4>2. /\ Logged(Started(u)) <=> graph[u] \notin {"PROPOSED", "READY"}
            /\ Logged(Accepted(u)) <=> graph[u] = "COMPLETED"
        BY DEF LogInv, LogMatchesGraph
      <4>3. QED
        BY <2>4, <2>5, <4>1, <4>2
    <3>2. QED
      BY <3>1 DEF LogMatchesGraph, Started, Accepted, Logged
  <2>7. QED
    BY <2>3, <2>6 DEF LogInv
<1>3. QED
  BY <1>1, <1>2
-----------------------------------------------------------------------------
(***************************************************************************)
(* What a step does to the graph, the log and the approvals is one of four *)
(* things, whichever operation took it.                                    *)
(***************************************************************************)
StartsWork(w) ==
    /\ IsReady(w)
    /\ graph' = [graph EXCEPT ![w] = "RUNNING"]
    /\ events' = Append(events, Started(w))
    /\ UNCHANGED <<cfg, approved>>

Judges(w, v) ==
    /\ graph[w] = "RUNNING"
    /\ v = "accepted" => ("human_review" \in cfg.gates => w \in approved)
    /\ graph' = [graph EXCEPT ![w] = GraphAfter(v, @)]
    /\ EmitAccepted(v, w)
    /\ UNCHANGED <<cfg, approved>>

GainsApproval(w) ==
    /\ "human_review" \in cfg.gates
    /\ approved' = approved \cup {w}
    /\ UNCHANGED <<cfg, graph, events>>

LeavesWorkAlone == UNCHANGED <<cfg, graph, events, approved>>

LEMMA StepShape ==
    ASSUME Inv, [Next]_vars
    PROVE  \/ LeavesWorkAlone
           \/ \E w \in WorkPackages : StartsWork(w)
           \/ \E w \in WorkPackages, v \in {"accepted", "awaiting_gates", "failed"} :
                 Judges(w, v)
           \/ \E w \in WorkPackages : GainsApproval(w)
<1>1. TypeOK /\ InflightIsFresh /\ \A w \in WorkPackages : PackageInv(w)
  BY InvByPackage
<1>2. CASE \/ \E k \in Workers : AddWorker(k)
           \/ DispatchNothing
           \/ DispatchRefused
           \/ UNCHANGED vars
  BY <1>2 DEF AddWorker, DispatchNothing, DispatchRefused, vars, LeavesWorkAlone
<1>3. ASSUME NEW w \in WorkPackages, NEW k \in Workers, DispatchBegin(w, k)
      PROVE  StartsWork(w)
  BY <1>3 DEF DispatchBegin, IsNext, Ready, StartsWork, Started
<1>4. CASE RunFails
  <2>1. PICK w \in WorkPackages : w = inflight.wp
    BY <1>1, <1>4 DEF RunFails, TypeOK
  <2>2. Judges(w, "failed")
    BY <1>1, <1>4, <2>1 DEF RunFails, InflightIsFresh, Judges, GraphAfter, EmitAccepted
  <2>3. QED
    BY <2>2
<1>5. ASSUME NEW r \in Outcomes \cup {DisabledResult}, RunReturns(r)
      PROVE  \/ LeavesWorkAlone
             \/ \E w \in WorkPackages, v \in {"accepted", "awaiting_gates", "failed"} :
                   Judges(w, v)
  <2>1. CASE RunRefused(r)
    BY <1>5, <2>1 DEF RunReturns, RunRefused, LeavesWorkAlone
  <2>2. CASE RunRecorded(r)
    <3>1. PICK w \in WorkPackages : w = inflight.wp
      BY <1>1, <1>5 DEF RunReturns, TypeOK
    <3> DEFINE verdict == IF r.status \in {"succeeded", "partial"}
                          THEN Verdict(Evaluate(cfg.gates, w, r.tests, approved))
                          ELSE "failed"
    <3>2. /\ graph' = [graph EXCEPT ![w] = GraphAfter(verdict, @)]
          /\ EmitAccepted(verdict, w)
          /\ verdict \in {"accepted", "awaiting_gates", "failed"}
      BY <1>1, <2>2, <3>1, RunRecordedEffect
    <3>3. verdict = "accepted" => ("human_review" \in cfg.gates => w \in approved)
      BY PassedGates
    <3> HIDE DEF verdict
    <3>4. graph[w] = "RUNNING" /\ UNCHANGED <<cfg, approved>>
      BY <1>1, <1>5, <3>1 DEF RunReturns, InflightIsFresh
    <3>5. Judges(w, verdict)
      BY <3>2, <3>3, <3>4 DEF Judges
    <3>6. QED
      BY <3>2, <3>5
  <2>3. QED
    BY <1>5, <2>1, <2>2 DEF RunReturns
<1>6. ASSUME NEW w \in WorkPackages, Resolve(w)
      PROVE  \E v \in {"accepted", "awaiting_gates", "failed"} : Judges(w, v)
  <2> DEFINE verdict == Verdict(Evaluate(cfg.gates, w, results[w].tests, approved))
  <2>1. verdict \in {"accepted", "awaiting_gates", "failed"}
    BY VerdictRange
  <2>2. verdict = "accepted" => ("human_review" \in cfg.gates => w \in approved)
    BY PassedGates
  <2>3. /\ graph' = [graph EXCEPT ![w] = GraphAfter(verdict, @)]
        /\ EmitAccepted(verdict, w)
        /\ assignments[w].state = "awaiting_gates"
        /\ UNCHANGED <<cfg, approved>>
    BY <1>6 DEF Resolve
  <2> HIDE DEF verdict
  <2>4. Judges(w, verdict)
    BY <1>1, <2>2, <2>3 DEF Judges, PackageInv
  <2>5. QED
    BY <2>1, <2>4
<1>7. ASSUME NEW w \in WorkPackages, Approve(w) \/ HumanGateApprove(w) PROVE GainsApproval(w)
  BY <1>7 DEF Approve, HumanGateApprove, GainsApproval
<1>8. QED
  BY <1>2, <1>3, <1>4, <1>5, <1>6, <1>7 DEF Next

\* The log stays in step with the graph, and legal.
LEMMA LogStep ==
    ASSUME Inv, LogInv, [Next]_vars
    PROVE  LogInv'
<1>1. TypeOK
  BY DEF Inv
<1>2. CASE LeavesWorkAlone \/ \E w \in WorkPackages : GainsApproval(w)
  BY <1>2, SilentStep DEF LeavesWorkAlone, GainsApproval
<1>3. ASSUME NEW w \in WorkPackages, StartsWork(w) PROVE LogInv'
  <2>1. /\ events' = Append(events, Started(w))
        /\ Started(w) \in EventSet
        /\ events \in Seq(EventSet)
        /\ Started(w).type = "EXECUTION_STARTED"
        /\ Started(w).wp = w
    BY <1>1, <1>3 DEF StartsWork, Started, EventSet, EventTypes, TypeOK
  <2>2. ~Logged(Started(w)) /\ \A d \in DependsOn[w] : Logged(Accepted(d))
    BY <1>3, GraphAssumption DEF StartsWork, IsReady, LogInv, LogMatchesGraph
  <2>3. EventsRespectDependencies'
    BY <2>1, <2>2, AppendRespects DEF LogInv
  <2>4. \A f : Logged(f)' <=> Logged(f) \/ f = Started(w)
    BY <2>1, AppendLogs
  <2>5. /\ graph[w] \in {"PROPOSED", "READY"}
        /\ \A u \in WorkPackages : graph'[u] = IF u = w THEN "RUNNING" ELSE graph[u]
    BY <1>1, <1>3 DEF StartsWork, IsReady, TypeOK
  <2>6. ASSUME NEW u \in WorkPackages
        PROVE  /\ Logged(Started(u))' <=> graph'[u] \notin {"PROPOSED", "READY"}
               /\ Logged(Accepted(u))' <=> graph'[u] = "COMPLETED"
    <3>1. Accepted(u) # Started(w) /\ (Started(u) = Started(w) <=> u = w)
      BY DEF Started, Accepted
    <3>2. /\ Logged(Started(u)) <=> graph[u] \notin {"PROPOSED", "READY"}
          /\ Logged(Accepted(u)) <=> graph[u] = "COMPLETED"
      BY DEF LogInv, LogMatchesGraph
    <3>3. QED
      BY <2>4, <2>5, <3>1, <3>2
  <2>7. LogMatchesGraph'
    BY <2>6 DEF LogMatchesGraph, Started, Accepted, Logged
  <2>8. QED
    BY <2>3, <2>7 DEF LogInv
<1>4. ASSUME NEW w \in WorkPackages, NEW v \in {"accepted", "awaiting_gates", "failed"},
             Judges(w, v)
      PROVE  LogInv'
  BY <1>1, <1>4, VerdictStep DEF Judges
<1>5. QED
  BY <1>2, <1>3, <1>4, StepShape

\* Whatever the interleaving of dispatches, approvals and resolves, the events
\* the sink received are a legal history of the dependency graph.
THEOREM LogIsLegal == Spec => []EventsRespectDependencies
<1>1. Init => LogInv
  BY DEF Init, LogInv, LogMatchesGraph, Logged, EventsRespectDependencies
<1>2. Inv /\ LogInv /\ [Next]_vars => LogInv'
  BY LogStep
<1>3. LogInv => EventsRespectDependencies
  BY DEF LogInv
<1>4. QED
  BY <1>1, <1>2, <1>3, InvCorrect, PTL DEF Spec

-----------------------------------------------------------------------------
(***************************************************************************)
(* Verdicts are final, and the orchestrator implements the abstract run.   *)
(***************************************************************************)
FinalStep ==
    /\ \A w \in WorkPackages :
          graph[w] \in {"COMPLETED", "DEFICIENT"} => graph'[w] = graph[w]
    /\ Len(events') >= Len(events)
    /\ \A i \in 1 .. Len(events) : events'[i] = events[i]

LEMMA GrowingLog ==
    ASSUME events \in Seq(EventSet),
           \/ events' = events
           \/ \E e \in EventSet : events' = Append(events, e)
    PROVE  Len(events') >= Len(events) /\ \A i \in 1 .. Len(events) : events'[i] = events[i]
<1>1. CASE events' = events
  <2>1. Len(events) \in Nat
    BY DEF EventSet
  <2>2. QED
    BY <1>1, <2>1
<1>2. ASSUME NEW e \in EventSet, events' = Append(events, e)
      PROVE  Len(events') >= Len(events) /\ \A i \in 1 .. Len(events) : events'[i] = events[i]
  <2>1. Len(events) \in Nat
    OBVIOUS
  <2>2. QED
    BY <1>2, <2>1, AppendLogs
<1>3. QED
  BY <1>1, <1>2

LEMMA FinalityStep ==
    ASSUME Inv, [Next]_vars
    PROVE  FinalStep
<1>1. TypeOK /\ events \in Seq(EventSet)
  BY DEF Inv, TypeOK, EventSet
<1>2. CASE LeavesWorkAlone \/ \E w \in WorkPackages : GainsApproval(w)
  BY <1>1, <1>2, GrowingLog DEF LeavesWorkAlone, GainsApproval, FinalStep
<1>3. ASSUME NEW w \in WorkPackages, StartsWork(w) PROVE FinalStep
  <2>1. Started(w) \in EventSet /\ events' = Append(events, Started(w))
    BY <1>3 DEF StartsWork, Started, EventSet, EventTypes
  <2>2. \A u \in WorkPackages :
           graph[u] \in {"COMPLETED", "DEFICIENT"} => graph'[u] = graph[u]
    BY <1>1, <1>3 DEF StartsWork, IsReady, TypeOK
  <2>3. QED
    BY <1>1, <2>1, <2>2, GrowingLog DEF FinalStep
<1>4. ASSUME NEW w \in WorkPackages, NEW v \in {"accepted", "awaiting_gates", "failed"},
             Judges(w, v)
      PROVE  FinalStep
  <2>1. events' = events \/ \E e \in EventSet : events' = Append(events, e)
    BY <1>4 DEF Judges, EmitAccepted, EventSet, EventTypes
  <2>2. \A u \in WorkPackages :
           graph[u] \in {"COMPLETED", "DEFICIENT"} => graph'[u] = graph[u]
    BY <1>1, <1>4 DEF Judges, TypeOK
  <2>3. QED
    BY <1>1, <2>1, <2>2, GrowingLog DEF FinalStep
<1>5. QED
  BY <1>2, <1>3, <1>4, StepShape

\* No operation revises a verdict or rewrites the log.
THEOREM Finality == Spec => VerdictsAreFinal
<1>1. Inv /\ [Next]_vars => [FinalStep]_vars
  BY FinalityStep
<1>2. QED
  BY <1>1, InvCorrect, PTL DEF Spec, VerdictsAreFinal, FinalStep

LEMMA AbstractStep ==
    ASSUME Inv, [Next]_vars
    PROVE  [Abstract!ANext]_(Abstract!avars)
<1>1. TypeOK
  BY DEF Inv
<1>2. CASE LeavesWorkAlone
  BY <1>2 DEF LeavesWorkAlone, Abstract!avars, Phase
<1>3. ASSUME NEW w \in WorkPackages, GainsApproval(w) PROVE Abstract!Consent(w)
  BY <1>3 DEF GainsApproval, Abstract!Consent, Phase
<1>4. ASSUME NEW w \in WorkPackages, StartsWork(w) PROVE Abstract!Start(w)
  <2>1. /\ Phase[w] = "waiting"
        /\ \A d \in DependsOn[w] : Phase[d] = "accepted"
    BY <1>4, GraphAssumption DEF StartsWork, IsReady, Phase
  <2>2. Phase' = [Phase EXCEPT ![w] = "executing"]
    BY <1>1, <1>4 DEF StartsWork, Phase, TypeOK
  <2>3. QED
    BY <1>4, <2>1, <2>2 DEF StartsWork, Abstract!Start
<1>5. ASSUME NEW w \in WorkPackages, NEW v \in {"accepted", "awaiting_gates", "failed"},
             Judges(w, v)
      PROVE  \/ Abstract!Accept(w)
             \/ Abstract!Reject(w)
             \/ UNCHANGED Abstract!avars
  <2>1. Phase[w] = "executing" /\ UNCHANGED <<cfg, approved>>
    BY <1>5 DEF Judges, Phase
  <2>2. CASE v = "accepted"
    <3>1. Phase' = [Phase EXCEPT ![w] = "accepted"]
      BY <1>1, <1>5, <2>2 DEF Judges, GraphAfter, Phase, TypeOK
    <3>2. QED
      BY <1>5, <2>1, <2>2, <3>1 DEF Judges, Abstract!Accept
  <2>3. CASE v = "failed"
    <3>1. Phase' = [Phase EXCEPT ![w] = "rejected"]
      BY <1>1, <1>5, <2>3 DEF Judges, GraphAfter, Phase, TypeOK
    <3>2. QED
      BY <2>1, <3>1 DEF Abstract!Reject
  <2>4. CASE v = "awaiting_gates"
    <3>1. graph' = graph
      BY <1>1, <1>5, <2>4 DEF Judges, GraphAfter, TypeOK
    <3>2. QED
      BY <2>1, <3>1 DEF Abstract!avars, Phase
  <2>5. QED
    BY <2>2, <2>3, <2>4
<1>6. QED
  BY <1>2, <1>3, <1>4, <1>5, StepShape DEF Abstract!ANext

\* The orchestrator, with its workers, contracts, intake, gates and mutex,
\* implements the abstract supervised run.
THEOREM Refinement == Spec => ImplementsSupervisedRun
<1>1. Init => Abstract!AInit
  BY DEF Init, Abstract!AInit, Phase
<1>2. Inv /\ [Next]_vars => [Abstract!ANext]_(Abstract!avars)
  BY AbstractStep
<1>3. QED
  BY <1>1, <1>2, InvCorrect, PTL DEF Spec, ImplementsSupervisedRun, Abstract!ASpec
-----------------------------------------------------------------------------
(***************************************************************************)
(* Telemetry.  A step records nothing, or the first result of the package  *)
(* that was in flight.                                                     *)
(***************************************************************************)
Records(w, r) ==
    /\ Untouched(w)
    /\ r # NoResult
    /\ Hash(r) # NoHash
    /\ results' = [results EXCEPT ![w] = r]
    /\ seen' = [seen EXCEPT ![w] = Hash(r)]
    /\ telemetry' = Append(telemetry, [wp |-> w, outcome |-> r.status])

LEMMA TelemetryShape ==
    ASSUME Inv, [Next]_vars
    PROVE  \/ UNCHANGED <<results, seen, telemetry>>
           \/ \E w \in WorkPackages, r \in Outcomes \cup {DisabledResult} : Records(w, r)
<1>1. TypeOK /\ InflightIsFresh
  BY DEF Inv
<1>2. ASSUME NEW r \in Outcomes \cup {DisabledResult}, RunReturns(r), ~RunRefused(r)
      PROVE  \E w \in WorkPackages : Records(w, r)
  <2>1. PICK w \in WorkPackages : w = inflight.wp
    BY <1>1, <1>2 DEF RunReturns, TypeOK
  <2>2. Untouched(w)
    BY <1>1, <1>2, <2>1 DEF RunReturns, InflightIsFresh
  <2>3. RunRecorded(r)
    BY <1>2 DEF RunReturns
  <2>4. r \in [status : ResultStatuses, tests : TestOutcomes, failure : BOOLEAN]
    <3>1. DisabledResult \in [status : ResultStatuses, tests : TestOutcomes, failure : BOOLEAN]
      BY DEF DisabledResult, ResultStatuses, ValidStatuses, TestOutcomes
    <3>2. QED
      BY <3>1, ResultAssumption
  <2>5. r # NoResult
    <3>1. r.status \in ResultStatuses /\ "none" \notin ResultStatuses
      BY <2>4 DEF ResultStatuses, ValidStatuses
    <3>2. QED
      BY <3>1 DEF NoResult
  <2>6. Hash(r) # NoHash
    <3>1. Hash(r) \in [status : ResultStatuses, tests : TestOutcomes]
      BY <2>4 DEF Hash
    <3>2. QED
      BY <3>1, ResultAssumption
  <2>7. /\ results' = [results EXCEPT ![w] = r]
        /\ telemetry' = Append(telemetry, [wp |-> w, outcome |-> r.status])
        /\ seen' = [seen EXCEPT ![w] = Hash(r)]
    BY <2>1, <2>2, <2>3 DEF RunRecorded, Untouched, SubmitOutcome, SeenAfter
  <2>8. QED
    BY <2>2, <2>5, <2>6, <2>7 DEF Records
<1>3. ASSUME NEW r \in Outcomes \cup {DisabledResult}, RunReturns(r), RunRefused(r)
      PROVE  UNCHANGED <<results, seen, telemetry>>
  BY <1>3 DEF RunRefused
<1>4. QED
  BY <1>2, <1>3 DEF Next, vars, AddWorker, DispatchNothing, DispatchRefused, DispatchBegin,
     RunFails, Resolve, Approve, HumanGateApprove

\* What a recorded result adds to the telemetry: the one record about its package.
LEMMA RecordStep ==
    ASSUME TypeOK, TelemetryMatchesResults, NEW w \in WorkPackages,
           NEW r \in Outcomes \cup {DisabledResult}, Records(w, r)
    PROVE  TelemetryMatchesResults'
<1> DEFINE T == [wp : WorkPackages, outcome : ResultStatuses]
           e == [wp |-> w, outcome |-> r.status]
<1>0. /\ results[w] = NoResult /\ seen[w] = NoHash /\ r # NoResult /\ Hash(r) # NoHash
      /\ telemetry' = Append(telemetry, e)
  BY DEF Records, Untouched
<1>1. telemetry \in Seq(T) /\ e \in T /\ e.wp = w /\ e.outcome = r.status
  <2>1. r.status \in ResultStatuses
    BY ResultAssumption DEF DisabledResult, ResultStatuses, ValidStatuses
  <2>2. QED
    BY <2>1 DEF TypeOK
<1> HIDE DEF T, e
<1>2. PICK n \in Nat : n = Len(telemetry)
  BY <1>1
<1>3. /\ Len(telemetry') = n + 1
      /\ telemetry'[n + 1] = e
      /\ \A i \in 1 .. n : telemetry'[i] = telemetry[i]
  BY <1>0, <1>1, <1>2
<1>4. /\ results'[w] = r /\ seen'[w] = Hash(r)
      /\ \A v \in WorkPackages \ {w} : results'[v] = results[v] /\ seen'[v] = seen[v]
  BY DEF Records, TypeOK
<1>5. \A i \in 1 .. n : telemetry[i].wp \in WorkPackages /\ telemetry[i].wp # w
  <2>1. \A i \in 1 .. n : telemetry[i] \in T
    BY <1>1, <1>2
  <2>2. QED
    BY <2>1, <1>0, <1>2 DEF TelemetryMatchesResults, T
<1>6. \A i, j \in 1 .. n + 1 : telemetry'[i].wp = telemetry'[j].wp => i = j
  <2>1. SUFFICES ASSUME NEW i \in 1 .. n + 1, NEW j \in 1 .. n + 1,
                        telemetry'[i].wp = telemetry'[j].wp
                 PROVE  i = j
    OBVIOUS
  <2>2. CASE i \in 1 .. n /\ j \in 1 .. n
    BY <2>1, <2>2, <1>2, <1>3 DEF TelemetryMatchesResults
  <2>3. CASE i = n + 1 \/ j = n + 1
    <3>1. \A k \in 1 .. n : telemetry'[k].wp # w
      BY <1>3, <1>5
    <3>2. telemetry'[n + 1].wp = w
      BY <1>1, <1>3
    <3>3. \A k \in 1 .. n + 1 : k \in 1 .. n \/ k = n + 1
      OBVIOUS
    <3>4. QED
      BY <2>1, <2>3, <3>1, <3>2, <3>3
  <2>4. QED
    BY <2>2, <2>3
<1>7. ASSUME NEW i \in 1 .. n + 1
      PROVE  /\ results'[telemetry'[i].wp] # NoResult
             /\ telemetry'[i].outcome = results'[telemetry'[i].wp].status
  <2>1. CASE i \in 1 .. n
    <3>1. telemetry'[i] = telemetry[i] /\ results'[telemetry[i].wp] = results[telemetry[i].wp]
      BY <2>1, <1>3, <1>4, <1>5
    <3>2. QED
      BY <2>1, <3>1, <1>2 DEF TelemetryMatchesResults
  <2>2. CASE i = n + 1
    BY <2>2, <1>0, <1>1, <1>3, <1>4
  <2>3. QED
    BY <2>1, <2>2
<1>8. ASSUME NEW v \in WorkPackages, results'[v] # NoResult
      PROVE  \E i \in 1 .. n + 1 : telemetry'[i].wp = v
  <2>1. CASE v = w
    BY <2>1, <1>1, <1>3
  <2>2. CASE v # w
    <3>1. PICK i \in 1 .. n : telemetry[i].wp = v
      BY <2>2, <1>2, <1>4, <1>8 DEF TelemetryMatchesResults
    <3>2. i \in 1 .. n + 1 /\ telemetry'[i].wp = v
      BY <3>1, <1>3
    <3>3. QED
      BY <3>2
  <2>3. QED
    BY <2>1, <2>2
<1>9. \A v \in WorkPackages : results'[v] # NoResult <=> seen'[v] # NoHash
  BY <1>0, <1>4 DEF TelemetryMatchesResults
<1>10. QED
  BY <1>3, <1>6, <1>7, <1>8, <1>9 DEF TelemetryMatchesResults

\* The telemetry the orchestrator keeps and the results intake recorded are the
\* same evidence: one record for each, with its outcome, whatever the runtime
\* returned and in whatever order work is dispatched, refused and resolved.
THEOREM TelemetryIsEvidence == Spec => []TelemetryMatchesResults
<1>1. Init => TelemetryMatchesResults
  BY DEF Init, TelemetryMatchesResults
<1>2. Inv /\ TelemetryMatchesResults /\ [Next]_vars => TelemetryMatchesResults'
  <2>1. SUFFICES ASSUME Inv, TelemetryMatchesResults, [Next]_vars
                 PROVE  TelemetryMatchesResults'
    OBVIOUS
  <2>2. CASE UNCHANGED <<results, seen, telemetry>>
    BY <2>1, <2>2 DEF TelemetryMatchesResults
  <2>3. ASSUME NEW w \in WorkPackages, NEW r \in Outcomes \cup {DisabledResult}, Records(w, r)
        PROVE  TelemetryMatchesResults'
    BY <2>1, <2>3, RecordStep DEF Inv
  <2>4. QED
    BY <2>1, <2>2, <2>3, TelemetryShape
<1>3. QED
  BY <1>1, <1>2, InvCorrect, PTL DEF Spec
=============================================================================
