--------------------------- MODULE WorkflowProofs ---------------------------
(***************************************************************************)
(* The safety part of Workflow, for every set of steps, every workflow,    *)
(* every seam and any number of calls, replans and process deaths.         *)
(***************************************************************************)
EXTENDS Workflow, FiniteSetTheorems, TLAPS

Done == Emitted(Len(order))

\* The compiler: the loop of topoOrder has emitted a set of steps that is
\* closed under dependencies, and knows what is still missing of the others.
NoCycleIn(E) ==
    \A S \in SUBSET E : S # {} => \E s \in S : wf.deps[s] \cap S = {}

OrderInv ==
    /\ IsFiniteSet(Done) /\ Cardinality(Done) = Len(order)
    /\ \A i \in 1 .. Len(order) : wf.deps[order[i]] \subseteq Emitted(i - 1)
    /\ NoCycleIn(Done)
    /\ \A i, j \in 1 .. Len(order) : order[i] = order[j] => i = j

CountInv ==
    /\ \A s \in Steps : IsFiniteSet(wf.deps[s])
    /\ WellFormed =>
          /\ \A s \in Steps : indegree[s] = Cardinality(wf.deps[s] \ Done)
          /\ ready = {s \in Steps \ Done : wf.deps[s] \subseteq Done}

PlanInv ==
    /\ pc = "rejected" => ~WellFormed \/ Cyclic
    /\ pc \notin {"compiling", "rejected"} => WellFormed /\ Done = Steps

CompileInv == OrderInv /\ CountInv /\ PlanInv

\* The runtime: a step that has been touched comes after finished ones only.
Prefix(res, n) == \A j \in 1 .. Len(order) : j < n => Terminal(res[order[j]])
InOrder(res) == \A i \in 1 .. Len(order) : res[order[i]] # Absent => Prefix(res, i)
GatesOnly(res) == \A s \in Steps : res[s].state = "awaiting_gate" => wf.kind[s] = "gate"

\* What Run has finished so far, and what it has not touched yet.
RunInv ==
    /\ pc \in {"compiling", "rejected"} =>
          \A s \in Steps : results[s] = Absent /\ saved.results[s] = Absent
    /\ pc = "running" =>
          /\ status = "running"
          /\ Prefix(results, at)
          /\ \A i \in 1 .. Len(order) :
                i > at \/ (i = at /\ ~lastErr) => results[order[i]] = saved.results[order[i]]
    /\ pc = "returned" /\ status = "complete" => \A s \in Steps : Terminal(results[s])
    /\ pc \in {"running", "returned"} =>
          \A s \in Steps : Terminal(saved.results[s]) => results[s] = saved.results[s]

\* Who has executed how often.
ExecutionInv ==
    /\ \A s \in Steps : wf.kind[s] = "gate" \/ ~seam.runner => executions[s] = 0
    /\ crashes = 0 =>
          \A s \in Steps :
              executions[s] = IF pc \in {"running", "returned"} THEN results[s].attempts
                              ELSE saved.results[s].attempts

ResultInv ==
    /\ InOrder(results) /\ InOrder(saved.results)
    /\ GatesOnly(results) /\ GatesOnly(saved.results)
    /\ CompleteRunsAreFinished

Inv == TypeOK /\ CompileInv /\ ResultInv /\ RunInv /\ ExecutionInv

-----------------------------------------------------------------------------
(***************************************************************************)
(* The compiler.                                                           *)
(***************************************************************************)

\* An emitted step is at some position of the order.
LEMMA EmittedFacts ==
    ASSUME order \in Seq(Steps)
    PROVE  /\ Done \subseteq Steps
           /\ \A i \in 1 .. Len(order) : order[i] \in Done /\ Emitted(i - 1) \subseteq Done
           /\ \A s \in Done : \E i \in 1 .. Len(order) : order[i] = s
BY DEF Done, Emitted

\* topoOrder emits one more step: what is emitted grows by it.
LEMMA EmittedAfter ==
    ASSUME order \in Seq(Steps), NEW s \in Steps, order' = Append(order, s)
    PROVE  /\ order' \in Seq(Steps) /\ Len(order') = Len(order) + 1
           /\ Done' = Done \cup {s}
           /\ order'[Len(order) + 1] = s
           /\ \A i \in 1 .. Len(order) : order'[i] = order[i] /\ Emitted(i - 1)' = Emitted(i - 1)
           /\ \A n \in Nat : n = Len(order) => Emitted(n)' = Done
<1>1. /\ order' \in Seq(Steps) /\ Len(order') = Len(order) + 1
      /\ order'[Len(order) + 1] = s
      /\ \A i \in 1 .. Len(order) : order'[i] = order[i]
  OBVIOUS
<1>2. \A i \in 1 .. Len(order) : Emitted(i - 1)' = Emitted(i - 1)
  BY <1>1 DEF Emitted
<1>3. \A n \in Nat : n = Len(order) => Emitted(n)' = Done
  BY <1>1 DEF Emitted, Done
<1>4. Done' = Done \cup {s}
  <2>1. Done' = {order'[i] : i \in 1 .. Len(order) + 1}
    BY <1>1 DEF Done, Emitted
  <2>2. ASSUME NEW x PROVE x \in Done' <=> x \in Done \cup {s}
    <3>1. ASSUME x \in Done' PROVE x \in Done \cup {s}
      <4>1. PICK i \in 1 .. Len(order) + 1 : x = order'[i]
        BY <2>1, <3>1
      <4>2. i = Len(order) + 1 \/ i \in 1 .. Len(order)
        BY <4>1
      <4>3. QED
        BY <1>1, <4>1, <4>2 DEF Done, Emitted
    <3>2. ASSUME x \in Done PROVE x \in Done'
      <4>1. PICK i \in 1 .. Len(order) : x = order[i]
        BY <3>2 DEF Done, Emitted
      <4>2. i \in 1 .. Len(order) + 1 /\ x = order'[i]
        BY <1>1, <4>1
      <4>3. QED
        BY <2>1, <4>2
    <3>3. s \in Done'
      BY <1>1, <2>1
    <3>4. QED
      BY <3>1, <3>2, <3>3
  <2>3. QED
    BY <2>2
<1>5. QED
  BY <1>1, <1>2, <1>3, <1>4

\* A step whose dependencies are all emitted closes no cycle.
LEMMA NoNewCycle ==
    ASSUME NEW E, NEW s, NoCycleIn(E), s \notin E, s \notin wf.deps[s],
           \A t \in E : s \notin wf.deps[t]
    PROVE  NoCycleIn(E \cup {s})
<1> SUFFICES ASSUME NEW S \in SUBSET (E \cup {s}), S # {}
             PROVE  \E t \in S : wf.deps[t] \cap S = {}
  BY DEF NoCycleIn
<1>1. CASE S \ {s} = {}
  <2>1. S = {s}
    BY <1>1
  <2>2. QED
    BY <2>1
<1>2. CASE S \ {s} # {}
  <2>1. S \ {s} \in SUBSET E
    OBVIOUS
  <2>2. PICK t \in S \ {s} : wf.deps[t] \cap (S \ {s}) = {}
    BY <1>2, <2>1 DEF NoCycleIn
  <2>3. QED
    BY <2>1, <2>2
<1>3. QED
  BY <1>1, <1>2

\* Of the dependencies of a step, one is missing less when it is emitted.
LEMMA OneLess ==
    ASSUME NEW D, NEW E, NEW s, IsFiniteSet(D), s \notin E
    PROVE  /\ Cardinality(D \ E) \in Nat
           /\ s \in D => /\ Cardinality(D \ E) \in Nat \ {0}
                         /\ Cardinality(D \ (E \cup {s})) = Cardinality(D \ E) - 1
                         /\ Cardinality(D \ E) = 1 <=> D \subseteq E \cup {s}
           /\ s \notin D => Cardinality(D \ (E \cup {s})) = Cardinality(D \ E)
<1> DEFINE M == D \ E
<1>1. IsFiniteSet(M) /\ Cardinality(M) \in Nat
  BY FS_Subset, FS_CardinalityType
<1>2. D \ (E \cup {s}) = M \ {s}
  OBVIOUS
<1>3. IsFiniteSet(M \ {s}) /\ Cardinality(M \ {s}) \in Nat
  BY <1>1, FS_RemoveElement, FS_CardinalityType
<1>4. Cardinality(M \ {s}) = IF s \in M THEN Cardinality(M) - 1 ELSE Cardinality(M)
  BY <1>1, FS_RemoveElement
<1>5. Cardinality(M \ {s}) = 0 <=> M \ {s} = {}
  BY <1>3, FS_EmptySet
<1>6. M \ {s} = {} <=> D \subseteq E \cup {s}
  OBVIOUS
<1>7. s \in D <=> s \in M
  OBVIOUS
<1> HIDE DEF M
<1>8. /\ s \in M => /\ Cardinality(M) \in Nat \ {0}
                    /\ Cardinality(M \ {s}) = Cardinality(M) - 1
                    /\ Cardinality(M) = 1 <=> Cardinality(M \ {s}) = 0
      /\ s \notin M => Cardinality(M \ {s}) = Cardinality(M)
  BY <1>1, <1>3, <1>4
<1>9. QED
  BY <1>1, <1>2, <1>5, <1>6, <1>7, <1>8 DEF M

\* One iteration of topoOrder keeps what it knows true.
LEMMA EmitKeepsCompile ==
    ASSUME TypeOK, OrderInv, CountInv, NEW s \in Steps, EmitStep(s)
    PROVE  indegree' \in [Steps -> Nat] /\ ready' \subseteq Steps /\ order' \in Seq(Steps)
           /\ OrderInv' /\ CountInv'
<1> DEFINE dependents == {t \in Steps : s \in wf.deps[t]}
<1>1. /\ WellFormed /\ wf' = wf /\ order' = Append(order, s)
      /\ indegree' = [t \in Steps |-> IF t \in dependents THEN indegree[t] - 1 ELSE indegree[t]]
      /\ ready' = (ready \ {s}) \cup {t \in dependents : indegree[t] = 1}
      /\ s \in ready
  BY DEF EmitStep
<1>2. order \in Seq(Steps) /\ indegree \in [Steps -> Nat] /\ ready \subseteq Steps
  BY DEF TypeOK
<1>3. /\ s \notin Done /\ wf.deps[s] \subseteq Done
      /\ \A t \in Steps : indegree[t] = Cardinality(wf.deps[t] \ Done)
      /\ ready = {t \in Steps \ Done : wf.deps[t] \subseteq Done}
  BY <1>1 DEF CountInv
<1>4. \A t \in Steps : wf.deps[t] \subseteq Steps \ {t}
  BY <1>1 DEF WellFormed
<1>5. \A t \in Done : wf.deps[t] \subseteq Done
  BY <1>2, EmittedFacts DEF OrderInv
<1>6. /\ order' \in Seq(Steps) /\ Len(order') = Len(order) + 1 /\ Done' = Done \cup {s}
      /\ order'[Len(order) + 1] = s
      /\ \A i \in 1 .. Len(order) : order'[i] = order[i] /\ Emitted(i - 1)' = Emitted(i - 1)
      /\ \A n \in Nat : n = Len(order) => Emitted(n)' = Done
  BY <1>1, <1>2, EmittedAfter
<1>7. OrderInv'
  <2>1. IsFiniteSet(Done') /\ Cardinality(Done') = Len(order')
    <3>1. IsFiniteSet(Done) /\ Cardinality(Done) = Len(order)
      BY DEF OrderInv
    <3> DEFINE D == Done
    <3>2. IsFiniteSet(D \cup {s}) /\ Cardinality(D \cup {s}) = Cardinality(D) + 1
      <4> HIDE DEF D
      <4>1. QED
        BY <1>3, <3>1, FS_AddElement DEF D
    <3>3. QED
      BY <1>6, <3>1, <3>2
  <2>2. ASSUME NEW i \in 1 .. Len(order') PROVE wf'.deps[order'[i]] \subseteq Emitted(i - 1)'
    <3>1. CASE i \in 1 .. Len(order)
      BY <1>1, <1>6, <3>1 DEF OrderInv
    <3>2. CASE i = Len(order) + 1
      <4>1. Len(order) \in Nat /\ i - 1 = Len(order)
        BY <1>2, <3>2
      <4>2. Emitted(i - 1)' = Done
        BY <1>6, <4>1
      <4>3. QED
        BY <1>1, <1>3, <1>6, <3>2, <4>2
    <3>3. QED
      BY <1>2, <1>6, <3>1, <3>2
  <2>3. NoCycleIn(Done \cup {s})
    BY <1>3, <1>4, <1>5, NoNewCycle DEF OrderInv
  <2>4. NoCycleIn(Done)'
    BY <1>1, <1>6, <2>3 DEF NoCycleIn
  <2>5. ASSUME NEW i \in 1 .. Len(order'), NEW j \in 1 .. Len(order'), order'[i] = order'[j]
        PROVE  i = j
    <3>1. \A k \in 1 .. Len(order) : order'[k] \in Done
      BY <1>2, <1>6, EmittedFacts
    <3>2. \A k \in 1 .. Len(order') : k \in 1 .. Len(order) \/ k = Len(order) + 1
      BY <1>2, <1>6
    <3>3. QED
      BY <1>3, <1>6, <2>5, <3>1, <3>2 DEF OrderInv
  <2>6. QED
    BY <2>1, <2>2, <2>4, <2>5 DEF OrderInv
<1>8. ASSUME NEW t \in Steps
      PROVE  /\ indegree'[t] = Cardinality(wf.deps[t] \ Done')
             /\ indegree'[t] \in Nat
             /\ t \in ready' <=> t \in Steps \ Done' /\ wf.deps[t] \subseteq Done'
  <2>1. IsFiniteSet(wf.deps[t])
    BY DEF CountInv
  <2>2. /\ indegree[t] \in Nat
        /\ s \in wf.deps[t] => /\ indegree[t] \in Nat \ {0}
                               /\ Cardinality(wf.deps[t] \ Done') = indegree[t] - 1
                               /\ indegree[t] = 1 <=> wf.deps[t] \subseteq Done'
        /\ s \notin wf.deps[t] => Cardinality(wf.deps[t] \ Done') = indegree[t]
    <3> DEFINE D == wf.deps[t]
               E == Done
    <3>1. /\ Cardinality(D \ E) \in Nat
          /\ s \in D => /\ Cardinality(D \ E) \in Nat \ {0}
                        /\ Cardinality(D \ (E \cup {s})) = Cardinality(D \ E) - 1
                        /\ Cardinality(D \ E) = 1 <=> D \subseteq E \cup {s}
          /\ s \notin D => Cardinality(D \ (E \cup {s})) = Cardinality(D \ E)
      <4>1. IsFiniteSet(D) /\ s \notin E
        BY <1>3, <2>1
      <4> HIDE DEF D, E
      <4>2. QED
        BY <4>1, OneLess
    <3>2. QED
      BY <1>3, <1>6, <3>1
  <2>3. indegree'[t] = Cardinality(wf.deps[t] \ Done') /\ indegree'[t] \in Nat
    BY <1>1, <2>2
  <2>4. CASE s \in wf.deps[t]
    <3>1. t \in ready' <=> indegree[t] = 1
      BY <1>1, <1>3, <2>4
    <3>2. t \notin Done'
      BY <1>3, <1>4, <1>5, <1>6, <2>4
    <3>3. QED
      BY <2>2, <2>3, <2>4, <3>1, <3>2
  <2>5. CASE s \notin wf.deps[t]
    BY <1>1, <1>3, <1>6, <2>3, <2>5
  <2>6. QED
    BY <2>4, <2>5
<1>9. indegree' \in [Steps -> Nat] /\ ready' \subseteq Steps
  BY <1>1, <1>2, <1>8
<1>10. CountInv'
  BY <1>1, <1>8, <1>9 DEF CountInv
<1>11. QED
  BY <1>6, <1>7, <1>9, <1>10

\* When nothing is ready and steps are left, those wait for each other; and
\* when all are emitted, none do.
LEMMA StuckIsCyclic ==
    ASSUME TypeOK, OrderInv, CountInv, WellFormed, ready = {}, Len(order) # Cardinality(Steps)
    PROVE  Cyclic
<1> DEFINE S == Steps \ Done
<1>1. order \in Seq(Steps) /\ Done \subseteq Steps
  BY EmittedFacts DEF TypeOK
<1>2. S # {}
  <2>1. Done # Steps
    BY DEF OrderInv
  <2>2. QED
    BY <1>1, <2>1
<1>3. \A s \in S : wf.deps[s] \cap S # {}
  BY DEF CountInv, WellFormed
<1>4. QED
  BY <1>2, <1>3 DEF Cyclic

\* An order as long as the set of steps has all of them.
LEMMA LongIsComplete ==
    ASSUME TypeOK, OrderInv, Len(order) = Cardinality(Steps)
    PROVE  Done = Steps
<1>1. Done \in SUBSET Steps
  BY EmittedFacts DEF TypeOK
<1>2. Cardinality(Done) = Cardinality(Steps)
  BY DEF OrderInv
<1>3. QED
  BY <1>1, <1>2, FS_Subset, StepAssumption

\* What the compiler's invariant says once it has returned.
LEMMA CompileImpliesTopological == TypeOK /\ CompileInv => CompiledOrderIsTopological
<1> SUFFICES ASSUME TypeOK, CompileInv PROVE CompiledOrderIsTopological
  OBVIOUS
<1>1. ASSUME pc \notin {"compiling", "rejected"}
      PROVE  /\ WellFormed /\ Len(order) = Cardinality(Steps) /\ Emitted(Len(order)) = Steps
             /\ \A i \in 1 .. Len(order) : wf.deps[order[i]] \subseteq Emitted(i - 1)
             /\ ~Cyclic
  BY <1>1 DEF CompileInv, PlanInv, OrderInv, Done, Cyclic, NoCycleIn
<1>2. pc = "rejected" => ~WellFormed \/ Cyclic
  BY DEF CompileInv, PlanInv
<1>3. QED
  BY <1>1, <1>2 DEF CompiledOrderIsTopological

-----------------------------------------------------------------------------
(***************************************************************************)
(* The runtime.                                                            *)
(***************************************************************************)

\* On a compiled plan every step has a position, after those of its
\* dependencies.
LEMMA Positions ==
    ASSUME TypeOK, CompileInv, pc \notin {"compiling", "rejected"}
    PROVE  /\ \A s \in Steps : \E i \in 1 .. Len(order) : order[i] = s
           /\ \A i \in 1 .. Len(order) : \A d \in wf.deps[order[i]] :
                 \E j \in 1 .. Len(order) : j < i /\ order[j] = d
           /\ \A i \in 1 .. Len(order) : order[i] \in Steps
<1>1. order \in Seq(Steps) /\ Done = Steps
  BY DEF TypeOK, CompileInv, PlanInv
<1>2. ASSUME NEW i \in 1 .. Len(order), NEW d \in wf.deps[order[i]]
      PROVE  \E j \in 1 .. Len(order) : j < i /\ order[j] = d
  <2>1. d \in Emitted(i - 1)
    BY DEF CompileInv, OrderInv
  <2>2. PICK j \in 1 .. i - 1 : order[j] = d
    BY <2>1 DEF Emitted
  <2>3. j \in 1 .. Len(order) /\ j < i
    BY <1>1
  <2>4. QED
    BY <2>2, <2>3
<1>3. QED
  BY <1>1, <1>2, EmittedFacts

\* Run never meets a step whose dependencies are not finished.
LEMMA DepsHold ==
    ASSUME Inv, NEW s \in Steps, Executing(s)
    PROVE  DepsSatisfied(s)
<1>1. pc = "running" /\ at \in 1 .. Len(order) /\ s = order[at]
  BY DEF Executing, Current, Inv, TypeOK
<1>2. Prefix(results, at)
  BY <1>1 DEF Inv, RunInv
<1>3. QED
  BY <1>1, <1>2, Positions DEF Inv, DepsSatisfied, Prefix

\* A result for the step Run is at, which was not finished.
LEMMA Update ==
    ASSUME Inv, NEW s \in Steps, Executing(s), ~Terminal(results[s]),
           NEW r \in ResultTypes, r.state = "awaiting_gate" => wf.kind[s] = "gate",
           results' = [results EXCEPT ![s] = r],
           UNCHANGED <<wf, order, saved>>
    PROVE  /\ results' \in [Steps -> ResultTypes] /\ results'[s] = r
           /\ \A t \in Steps \ {s} : results'[t] = results[t]
           /\ ResultInv'
           /\ \A t \in Steps : Terminal(saved.results[t]) => results'[t] = saved.results[t]
           /\ \A j \in 1 .. Len(order) : j < at => Terminal(results'[order[j]])
           /\ \A i \in 1 .. Len(order) : i > at => results'[order[i]] = saved.results[order[i]]
<1>1. pc = "running" /\ at \in 1 .. Len(order) /\ s = order[at]
  BY DEF Executing, Current, Inv, TypeOK
<1>2. /\ results' \in [Steps -> ResultTypes] /\ results'[s] = r
      /\ \A t \in Steps \ {s} : results'[t] = results[t]
  BY DEF Inv, TypeOK
<1>3. /\ \A i, j \in 1 .. Len(order) : order[i] = order[j] => i = j
      /\ \A i \in 1 .. Len(order) : order[i] \in Steps
  BY <1>1, Positions DEF Inv, CompileInv, OrderInv
<1>4. /\ \A j \in 1 .. Len(order) : j < at => Terminal(results[order[j]])
      /\ \A i \in 1 .. Len(order) : i > at => results[order[i]] = saved.results[order[i]]
      /\ \A t \in Steps : Terminal(saved.results[t]) => results[t] = saved.results[t]
  BY <1>1 DEF Inv, RunInv, Prefix
<1>5. /\ \A t \in Steps : Terminal(saved.results[t]) => results'[t] = saved.results[t]
      /\ \A j \in 1 .. Len(order) : j < at => Terminal(results'[order[j]])
      /\ \A i \in 1 .. Len(order) : i > at => results'[order[i]] = saved.results[order[i]]
  BY <1>1, <1>2, <1>3, <1>4
<1>6. ASSUME NEW i \in 1 .. Len(order), results'[order[i]] # Absent,
             NEW j \in 1 .. Len(order), j < i
      PROVE  Terminal(results'[order[j]])
  <2>1. CASE order[i] = s
    BY <1>1, <1>3, <1>5, <1>6, <2>1
  <2>2. CASE order[i] # s
    <3>1. results[order[i]] # Absent
      BY <1>2, <1>3, <1>6, <2>2
    <3>2. Terminal(results[order[j]])
      BY <1>6, <3>1 DEF Inv, ResultInv, InOrder, Prefix
    <3>3. QED
      BY <1>2, <1>3, <3>2
  <2>3. QED
    BY <2>1, <2>2
<1>7. InOrder(results)'
  BY <1>6 DEF InOrder, Prefix
<1>8. GatesOnly(results)'
  BY <1>2 DEF Inv, ResultInv, GatesOnly
<1>9. ResultInv'
  BY <1>7, <1>8 DEF Inv, ResultInv, InOrder, Prefix, GatesOnly, CompleteRunsAreFinished
<1>10. QED
  BY <1>2, <1>5, <1>9

\* Run goes on to the next step, or stops at this one.
LEMMA ProceedKeeps ==
    ASSUME Inv, NEW s \in Steps, Executing(s), ~Terminal(results[s]),
           NEW r \in ResultTypes, Terminal(r), Proceed(s, r), Fixed
    PROVE  ResultInv' /\ RunInv'
<1>1. pc = "running" /\ at \in 1 .. Len(order) /\ s = order[at] /\ status = "running"
  BY DEF Executing, Current, Inv, TypeOK, RunInv
<1>2. /\ pc' = pc /\ at' = at + 1 /\ lastErr' = FALSE /\ status' = status
      /\ results' = [results EXCEPT ![s] = r] /\ UNCHANGED <<wf, order, saved>>
  BY DEF Proceed, Fixed, compileVars
<1>3. r.state # "awaiting_gate"
  BY DEF Terminal
<1>4. /\ ResultInv' /\ results'[s] = r
      /\ \A t \in Steps : Terminal(saved.results[t]) => results'[t] = saved.results[t]
      /\ \A j \in 1 .. Len(order) : j < at => Terminal(results'[order[j]])
      /\ \A i \in 1 .. Len(order) : i > at => results'[order[i]] = saved.results[order[i]]
  BY <1>2, <1>3, Update
<1>5. /\ Prefix(results, at)'
      /\ \A i \in 1 .. Len(order) : i > at' \/ i = at' => results'[order[i]] = saved.results[order[i]]
  BY <1>1, <1>2, <1>4 DEF Prefix
<1>6. QED
  BY <1>1, <1>2, <1>4, <1>5 DEF RunInv

\* A run that ends keeps what its steps have done.
LEMMA StopKeeps ==
    ASSUME Inv, NEW s \in Steps, Executing(s), ~Terminal(results[s]),
           NEW r \in ResultTypes, r.state = "awaiting_gate" => wf.kind[s] = "gate",
           NEW st \in {"failed", "awaiting_approval"}, Stop(s, r, st), Fixed
    PROVE  ResultInv' /\ RunInv'
<1>1. /\ pc' = "returned" /\ status' = st
      /\ results' = [results EXCEPT ![s] = r] /\ UNCHANGED <<wf, order, saved>>
  BY DEF Stop, Fixed, compileVars
<1>2. /\ ResultInv'
      /\ \A t \in Steps : Terminal(saved.results[t]) => results'[t] = saved.results[t]
  BY <1>1, Update
<1>3. QED
  BY <1>1, <1>2 DEF RunInv

\* The executions of the step Run is at are counted in its result.
LEMMA Counted ==
    ASSUME Inv, NEW s \in Steps, Executing(s), NEW r \in ResultTypes,
           results' = [results EXCEPT ![s] = r], pc' \in {"running", "returned"}, Fixed,
           NEW n \in Nat, executions' = [executions EXCEPT ![s] = n],
           wf.kind[s] = "gate" \/ ~seam.runner => n = 0,
           (executions[s] = results[s].attempts /\ (wf.kind[s] = "gate" \/ ~seam.runner => executions[s] = 0))
              => n = r.attempts
    PROVE  executions' \in [Steps -> Nat] /\ ExecutionInv'
<1>1. /\ executions' \in [Steps -> Nat] /\ executions'[s] = n
      /\ \A t \in Steps \ {s} : executions'[t] = executions[t] /\ results'[t] = results[t]
      /\ results'[s] = r
  BY DEF Inv, TypeOK
<1>2. pc = "running" /\ UNCHANGED <<wf, seam, crashes, saved>>
  BY DEF Executing, Fixed
<1>3. \A t \in Steps : wf.kind[t] = "gate" \/ ~seam.runner => executions[t] = 0 /\ executions'[t] = 0
  BY <1>1 DEF Inv, ExecutionInv
<1>4. crashes = 0 => \A t \in Steps : executions[t] = results[t].attempts
  BY <1>2 DEF Inv, ExecutionInv
<1>5. crashes = 0 => \A t \in Steps : executions'[t] = results'[t].attempts
  BY <1>1, <1>3, <1>4
<1>6. QED
  BY <1>1, <1>2, <1>3, <1>5 DEF ExecutionInv

\* A step that leaves the plan alone.
LEMMA PlanFrame ==
    ASSUME OrderInv, CountInv, UNCHANGED <<wf, compileVars>>
    PROVE  OrderInv' /\ CountInv' /\ Done' = Done /\ WellFormed' = WellFormed /\ Cyclic' = Cyclic
<1>1. wf' = wf /\ indegree' = indegree /\ ready' = ready /\ order' = order
  BY DEF compileVars
<1>2. Done' = Done /\ (\A i : Emitted(i)' = Emitted(i))
  BY <1>1 DEF Done, Emitted
<1>3. WellFormed' = WellFormed
  BY <1>1 DEF WellFormed
<1>4. Cyclic' = Cyclic
  BY <1>1 DEF Cyclic
<1>5. OrderInv'
  BY <1>1, <1>2 DEF OrderInv, NoCycleIn
<1>6. CountInv'
  BY <1>1, <1>2, <1>3 DEF CountInv
<1>7. QED
  BY <1>2, <1>3, <1>4, <1>5, <1>6

\* A plan that is not touched stays a plan.
LEMMA PlanKept ==
    ASSUME CompileInv, UNCHANGED <<wf, compileVars>>, pc \notin {"compiling", "rejected"} \/ pc' = pc,
           pc' \notin {"compiling", "rejected"} \/ pc' = pc
    PROVE  CompileInv'
BY PlanFrame DEF CompileInv, PlanInv

\* The invariant holds before the first call.
LEMMA InitInv == Init => Inv
<1> SUFFICES ASSUME Init PROVE Inv
  OBVIOUS
<1>1. PICK c \in Cases : wf = c.wf /\ seam = c.seam
  BY DEF Init
<1>2. /\ wf \in WorkflowRecords /\ seam \in Seams
      /\ \A s \in Steps : IsFiniteSet(wf.deps[s])
  BY <1>1, CaseAssumption
<1>3. order = << >> /\ Len(order) = 0 /\ Done = {}
  BY DEF Init, Done, Emitted
<1>4. TypeOK
  <2>1. indegree \in [Steps -> Nat]
    <3>1. \A s \in Steps : Cardinality(wf.deps[s]) \in Nat
      BY <1>2, FS_CardinalityType
    <3>2. QED
      BY <3>1 DEF Init
  <2>2. Absent \in ResultTypes
    BY DEF Absent, ResultTypes, StepStates
  <2>3. saved \in [results : [Steps -> ResultTypes], status : RunStatuses]
    BY <2>2 DEF Init, RunStatuses
  <2>4. QED
    <3>1. retries \in [Steps -> Retries]
      <4>1. retries = wf.retries
        BY DEF Init
      <4>2. QED
        BY <1>2, <4>1 DEF WorkflowRecords
    <3>2. results \in [Steps -> ResultTypes] /\ executions \in [Steps -> Nat]
      BY <2>2 DEF Init
    <3>3. ready \subseteq Steps /\ at \in Nat \ {0}
      BY DEF Init
    <3>o. order \in Seq(Steps)
      BY <1>3
    <3>e. lastErr \in BOOLEAN
      BY DEF Init
    <3>4. runs \in 0 .. MaxResumes /\ crashes \in 0 .. MaxCrashes
      BY BoundAssumption DEF Init
    <3>5. status \in RunStatuses /\ pc = "compiling"
      BY DEF Init, RunStatuses
    <3>6. QED
      BY <1>2, <2>1, <2>3, <3>1, <3>2, <3>3, <3>o, <3>e, <3>4, <3>5 DEF TypeOK
<1>5. OrderInv
  <2>1. IsFiniteSet(Done) /\ Cardinality(Done) = Len(order)
    BY <1>3, FS_EmptySet
  <2>2. QED
    BY <1>3, <2>1 DEF OrderInv, NoCycleIn
<1>6. CountInv
  <2>1. \A s \in Steps : wf.deps[s] \ {} = wf.deps[s]
    OBVIOUS
  <2>2. QED
    BY <1>2, <1>3, <2>1 DEF CountInv, Init
<1>7. PlanInv
  BY DEF PlanInv, Init
<1>8. Absent.attempts = 0 /\ Absent.state = "absent"
  BY DEF Absent
<1>9. /\ \A s \in Steps : results[s] = Absent /\ saved.results[s] = Absent /\ executions[s] = 0
      /\ saved.status = "running" /\ pc = "compiling"
  BY DEF Init
<1>10. ResultInv /\ RunInv /\ ExecutionInv
  BY <1>3, <1>8, <1>9
     DEF ResultInv, RunInv, ExecutionInv, InOrder, GatesOnly, CompleteRunsAreFinished
<1>11. QED
  BY <1>4, <1>5, <1>6, <1>7, <1>10 DEF Inv, CompileInv

\* Steps of the compiler.
LEMMA CompilerKeepsInv ==
    ASSUME Inv, CompileRejects \/ CompileReturns \/ \E s \in Steps : EmitStep(s)
    PROVE  Inv'
<1>1. CASE CompileRejects \/ CompileReturns
  <2>1. /\ pc = "compiling" /\ pc' \in {"rejected", "idle"}
        /\ UNCHANGED <<wf, seam, retries, compileVars, saved, runVars, executions, runs, crashes>>
    BY <1>1 DEF CompileRejects, CompileReturns
  <2>2. TypeOK'
    BY <2>1 DEF Inv, TypeOK, compileVars, runVars
  <2>3. pc' = "rejected" => ~WellFormed \/ Cyclic
    <3>1. ASSUME pc' = "rejected", WellFormed PROVE ready = {} /\ Len(order) # Cardinality(Steps)
      BY <1>1, <3>1 DEF CompileRejects, CompileReturns
    <3>2. QED
      BY <3>1, StuckIsCyclic DEF Inv, CompileInv
  <2>4. pc' = "idle" => WellFormed /\ Done = Steps
    BY <1>1, <2>1, LongIsComplete DEF CompileRejects, CompileReturns, Inv, CompileInv
  <2>5. CompileInv'
    BY <2>1, <2>3, <2>4, PlanFrame DEF Inv, CompileInv, PlanInv
  <2>6. ResultInv' /\ RunInv' /\ ExecutionInv'
    BY <2>1 DEF Inv, ResultInv, RunInv, ExecutionInv, InOrder, Prefix, GatesOnly,
                CompleteRunsAreFinished, compileVars, runVars
  <2>7. QED
    BY <2>2, <2>5, <2>6 DEF Inv
<1>2. ASSUME NEW s \in Steps, EmitStep(s) PROVE Inv'
  <2>1. /\ pc = "compiling"
        /\ UNCHANGED <<wf, seam, retries, pc, saved, runVars, executions, runs, crashes>>
    BY <1>2 DEF EmitStep
  <2>2. indegree' \in [Steps -> Nat] /\ ready' \subseteq Steps /\ order' \in Seq(Steps)
        /\ OrderInv' /\ CountInv'
    BY <1>2, EmitKeepsCompile DEF Inv, CompileInv
  <2>3. TypeOK'
    BY <2>1, <2>2 DEF Inv, TypeOK, runVars
  <2>4. CompileInv'
    BY <2>1, <2>2 DEF CompileInv, PlanInv
  <2>5. \A t \in Steps : results[t] = Absent /\ saved.results[t] = Absent
    BY <2>1 DEF Inv, RunInv
  <2>6. \A i \in 1 .. Len(order') : results'[order'[i]] = Absent /\ saved'.results[order'[i]] = Absent
    BY <2>1, <2>2, <2>5 DEF runVars
  <2>7. InOrder(results)' /\ InOrder(saved.results)'
    BY <2>6 DEF InOrder
  <2>8. ResultInv' /\ RunInv' /\ ExecutionInv'
    BY <2>1, <2>7 DEF Inv, ResultInv, RunInv, ExecutionInv, GatesOnly, CompleteRunsAreFinished, runVars
  <2>9. QED
    BY <2>3, <2>4, <2>8 DEF Inv
<1>3. QED
  BY <1>1, <1>2

\* The caller's steps: calls, replans, persists, and restarts of the process.
LEMMA CallerKeepsInv ==
    ASSUME Inv, \/ Run \/ RunCompletes \/ Persist \/ Restart
                \/ \E s \in Steps, n \in Retries : Replan(s, n)
    PROVE  Inv'
<1>1. CASE Run
  <2>1. /\ pc = "idle" /\ pc' = "running" /\ results' = saved.results /\ status' = "running"
        /\ at' = 1 /\ lastErr' = FALSE /\ runs < MaxResumes /\ runs' = runs + 1
        /\ UNCHANGED <<wf, seam, retries, compileVars, saved, executions, crashes>>
    BY <1>1 DEF Run
  <2>2. TypeOK'
    <3>1. results' \in [Steps -> ResultTypes] /\ runs' \in 0 .. MaxResumes /\ status' \in RunStatuses
      BY <2>1, BoundAssumption DEF Inv, TypeOK, RunStatuses
    <3>2. lastErr' \in BOOLEAN
      BY <2>1
    <3>3. QED
      BY <2>1, <3>1, <3>2 DEF Inv, TypeOK, compileVars
  <2>3. CompileInv'
    BY <2>1, PlanKept DEF Inv
  <2>4. ResultInv'
    <3>1. InOrder(saved.results)' /\ InOrder(results)'
      BY <2>1 DEF Inv, ResultInv, InOrder, Prefix, compileVars
    <3>2. GatesOnly(saved.results)' /\ GatesOnly(results)'
      BY <2>1 DEF Inv, ResultInv, GatesOnly
    <3>3. QED
      BY <2>1, <3>1, <3>2 DEF Inv, ResultInv, CompleteRunsAreFinished
  <2>5. RunInv'
    BY <2>1 DEF RunInv, Prefix, compileVars
  <2>6. ExecutionInv'
    BY <2>1 DEF Inv, ExecutionInv
  <2>7. QED
    BY <2>2, <2>3, <2>4, <2>5, <2>6 DEF Inv
<1>2. CASE RunCompletes
  <2>1. /\ pc = "running" /\ at > Len(order) /\ status' = "complete" /\ pc' = "returned"
        /\ UNCHANGED <<results, at, lastErr, executions, wf, seam, retries, compileVars, saved, runs, crashes>>
    BY <1>2 DEF RunCompletes, Fixed
  <2>2. TypeOK'
    BY <2>1 DEF Inv, TypeOK, compileVars, RunStatuses
  <2>3. CompileInv'
    BY <2>1, PlanKept DEF Inv
  <2>4. ResultInv'
    BY <2>1 DEF Inv, ResultInv, InOrder, Prefix, GatesOnly, CompleteRunsAreFinished, compileVars
  <2>5. \A s \in Steps : Terminal(results[s])
    <3>1. \A i \in 1 .. Len(order) : Terminal(results[order[i]])
      BY <2>1 DEF Inv, TypeOK, RunInv, Prefix
    <3>2. \A s \in Steps : \E i \in 1 .. Len(order) : order[i] = s
      BY <2>1, Positions DEF Inv
    <3>3. QED
      BY <3>1, <3>2
  <2>6. RunInv'
    BY <2>1, <2>5 DEF Inv, RunInv
  <2>7. ExecutionInv'
    BY <2>1 DEF Inv, ExecutionInv
  <2>8. QED
    BY <2>2, <2>3, <2>4, <2>6, <2>7 DEF Inv
<1>3. CASE Persist
  <2>1. /\ pc = "returned" /\ pc' = "idle" /\ saved' = [results |-> results, status |-> status]
        /\ UNCHANGED <<wf, seam, retries, compileVars, runVars, executions, runs, crashes>>
    BY <1>3 DEF Persist
  <2>2. saved'.results = results /\ saved'.status = status
    BY <2>1
  <2>3. TypeOK'
    BY <2>1 DEF Inv, TypeOK, compileVars, runVars
  <2>4. CompileInv'
    BY <2>1, PlanKept DEF Inv
  <2>5. ResultInv'
    BY <2>1, <2>2 DEF Inv, ResultInv, RunInv, InOrder, Prefix, GatesOnly, CompleteRunsAreFinished,
                      compileVars, runVars
  <2>6. RunInv' /\ ExecutionInv'
    BY <2>1, <2>2 DEF Inv, RunInv, ExecutionInv
  <2>7. QED
    BY <2>3, <2>4, <2>5, <2>6 DEF Inv
<1>4. CASE Restart
  <2>1. /\ pc \in {"running", "returned", "panicked"} /\ pc' = "idle"
        /\ UNCHANGED <<wf, seam, retries, compileVars, saved, runVars, executions, runs>>
        /\ crashes' \in 0 .. MaxCrashes
        /\ crashes' = 0 => pc = "panicked" /\ crashes = 0
    BY <1>4, BoundAssumption DEF Restart, Inv, TypeOK
  <2>2. TypeOK'
    BY <2>1 DEF Inv, TypeOK, compileVars, runVars
  <2>3. CompileInv'
    BY <2>1, PlanKept DEF Inv
  <2>4. ResultInv'
    BY <2>1 DEF Inv, ResultInv, InOrder, Prefix, GatesOnly, CompleteRunsAreFinished, compileVars, runVars
  <2>5. RunInv' /\ ExecutionInv'
    BY <2>1 DEF Inv, RunInv, ExecutionInv
  <2>6. QED
    BY <2>2, <2>3, <2>4, <2>5 DEF Inv
<1>5. ASSUME NEW s \in Steps, NEW n \in Retries, Replan(s, n) PROVE Inv'
  <2>1. /\ retries' = [retries EXCEPT ![s] = n]
        /\ UNCHANGED <<wf, seam, pc, compileVars, saved, runVars, executions, runs, crashes>>
    BY <1>5 DEF Replan
  <2>2. TypeOK'
    BY <2>1 DEF Inv, TypeOK, compileVars, runVars
  <2>3. CompileInv'
    BY <2>1, PlanKept DEF Inv
  <2>4. ResultInv' /\ RunInv' /\ ExecutionInv'
    BY <2>1 DEF Inv, ResultInv, RunInv, ExecutionInv, InOrder, Prefix, GatesOnly,
                CompleteRunsAreFinished, compileVars, runVars
  <2>5. QED
    BY <2>2, <2>3, <2>4 DEF Inv
<1>6. QED
  BY <1>1, <1>2, <1>3, <1>4, <1>5

\* The steps of Run.
LEMMA RunKeepsInv ==
    ASSUME Inv, NEW s \in Steps, RunStep(s)
    PROVE  Inv'
<1>1. Executing(s) /\ Fixed /\ DepsSatisfied(s)
  BY DepsHold DEF RunStep, PassOver, GatePasses, StepAwaits, NoRunner, AttemptSucceeds, AttemptFails,
       CompensationFails, PolicyApplies, PolicyPanics, Exhausted, UnderPolicy
<1>2. pc = "running" /\ at \in 1 .. Len(order) /\ s = order[at] /\ at \in Nat \ {0}
  BY <1>1 DEF Executing, Current, Inv, TypeOK
<1>3. /\ UNCHANGED <<wf, seam, retries, indegree, ready, order, saved, runs, crashes>>
      /\ UNCHANGED <<wf, compileVars>>
  BY <1>1 DEF Fixed, compileVars
<1>4. /\ results \in [Steps -> ResultTypes] /\ results[s] \in ResultTypes
      /\ results[s].attempts \in Nat /\ retries[s] \in Nat /\ executions \in [Steps -> Nat]
      /\ executions[s] \in Nat
  BY BoundAssumption DEF Inv, TypeOK, ResultTypes
<1>5. \A st \in StepStates, n \in Nat :
         /\ [state |-> st, attempts |-> n] \in ResultTypes
         /\ [state |-> st, attempts |-> n].attempts = n
         /\ [state |-> st, attempts |-> n].state = st
  BY DEF ResultTypes
<1>6. \A st \in {"complete", "skipped", "compensated"}, n \in Nat :
         Terminal([state |-> st, attempts |-> n])
  BY DEF Terminal
<1> DEFINE Typed == /\ results' \in [Steps -> ResultTypes] /\ status' \in RunStatuses
                    /\ at' \in Nat \ {0} /\ lastErr' \in BOOLEAN
                    /\ pc' \in {"running", "returned", "panicked"}
                    /\ executions' \in [Steps -> Nat]
<1>7. ASSUME Typed, ResultInv', RunInv', ExecutionInv' PROVE Inv'
  <2>1. TypeOK'
    BY <1>3, <1>7 DEF Inv, TypeOK
  <2>2. CompileInv'
    BY <1>2, <1>3, <1>7, PlanKept DEF Inv
  <2>3. QED
    BY <1>7, <2>1, <2>2 DEF Inv
\* A result that is final, and the next step.
<1>8. ASSUME NEW r \in ResultTypes, Terminal(r), ~Terminal(results[s]), Proceed(s, r),
             NEW n \in Nat, executions' = [executions EXCEPT ![s] = n],
             wf.kind[s] = "gate" \/ ~seam.runner => n = 0,
             (executions[s] = results[s].attempts /\ (wf.kind[s] = "gate" \/ ~seam.runner => executions[s] = 0))
                => n = r.attempts
      PROVE  Inv'
  <2>1. ResultInv' /\ RunInv'
    BY <1>1, <1>8, ProceedKeeps
  <2>2. /\ results' = [results EXCEPT ![s] = r] /\ at' = at + 1 /\ lastErr' = FALSE
        /\ UNCHANGED <<pc, status>>
    BY <1>8 DEF Proceed
  <2>3. ExecutionInv' /\ executions' \in [Steps -> Nat]
    BY <1>1, <1>2, <1>8, <2>2, Counted
  <2>4. Typed
    <3>1. lastErr' \in BOOLEAN
      BY <2>2
    <3>2. QED
      BY <1>2, <1>4, <1>8, <2>2, <2>3, <3>1 DEF Inv, TypeOK
  <2>5. QED
    BY <1>7, <2>1, <2>3, <2>4
\* A result that ends the run.
<1>9. ASSUME NEW r \in ResultTypes, ~Terminal(results[s]), r.state = "awaiting_gate" => wf.kind[s] = "gate",
             NEW st \in {"failed", "awaiting_approval"}, Stop(s, r, st), executions' = executions,
             (executions[s] = results[s].attempts /\ (wf.kind[s] = "gate" \/ ~seam.runner => executions[s] = 0))
                => executions[s] = r.attempts
      PROVE  Inv'
  <2>1. ResultInv' /\ RunInv'
    BY <1>1, <1>9, StopKeeps
  <2>2. /\ results' = [results EXCEPT ![s] = r] /\ status' = st /\ pc' = "returned"
        /\ UNCHANGED <<at, lastErr>>
    BY <1>9 DEF Stop
  <2>3. executions' = [executions EXCEPT ![s] = executions[s]]
    BY <1>4, <1>9
  <2>4. wf.kind[s] = "gate" \/ ~seam.runner => executions[s] = 0
    BY DEF Inv, ExecutionInv
  <2>5. ExecutionInv' /\ executions' \in [Steps -> Nat]
    BY <1>1, <1>4, <1>9, <2>2, <2>3, <2>4, Counted
  <2>6. Typed
    BY <1>2, <1>4, <2>2, <2>5 DEF Inv, TypeOK, RunStatuses
  <2>7. QED
    BY <1>7, <2>1, <2>5, <2>6
<1>same. executions = [executions EXCEPT ![s] = executions[s]]
  BY <1>4
<1>zero. wf.kind[s] = "gate" \/ ~seam.runner => executions[s] = 0
  BY DEF Inv, ExecutionInv
<1>10. CASE PassOver(s)
  <2>1. /\ Terminal(results[s]) /\ results' = [results EXCEPT ![s] = results[s]] /\ at' = at + 1
        /\ lastErr' = FALSE /\ UNCHANGED <<pc, status, executions>>
    BY <1>10 DEF PassOver, Proceed
  <2>2. results' = results
    BY <1>4, <2>1
  <2>3. Typed
    <3>1. lastErr' \in BOOLEAN
      BY <2>1
    <3>2. QED
      BY <1>2, <1>4, <2>1, <2>2, <3>1 DEF Inv, TypeOK
  <2>4. ResultInv' /\ ExecutionInv'
    BY <1>3, <2>1, <2>2
       DEF Inv, ResultInv, ExecutionInv, InOrder, Prefix, GatesOnly, CompleteRunsAreFinished
  <2>5. RunInv'
    <3>1. Prefix(results, at)'
      BY <1>2, <1>3, <2>1, <2>2 DEF Inv, RunInv, Prefix
    <3>2. \A i \in 1 .. Len(order) : i > at \/ (i = at /\ ~lastErr) => results[order[i]] = saved.results[order[i]]
      BY <1>2 DEF Inv, RunInv
    <3>3. \A i \in 1 .. Len(order) : i > at' \/ i = at' => results[order[i]] = saved.results[order[i]]
      BY <1>2, <2>1, <3>2
    <3>4. status = "running" /\ \A t \in Steps : Terminal(saved.results[t]) => results[t] = saved.results[t]
      BY <1>2 DEF Inv, RunInv
    <3>5. QED
      BY <1>2, <1>3, <2>1, <2>2, <3>1, <3>3, <3>4 DEF RunInv
  <2>6. QED
    BY <1>7, <2>3, <2>4, <2>5
<1>11. CASE GatePasses(s)
  <2> DEFINE r == [state |-> "complete", attempts |-> 0]
  <2>1. ~Terminal(results[s]) /\ wf.kind[s] = "gate" /\ Proceed(s, r) /\ executions' = executions
    BY <1>11 DEF GatePasses
  <2>2. r \in ResultTypes /\ Terminal(r) /\ r.attempts = 0
    BY <1>5, <1>6 DEF StepStates
  <2> HIDE DEF r
  <2>3. QED
    BY <1>4, <1>8, <1>same, <1>zero, <2>1, <2>2
<1>12. CASE StepAwaits(s)
  <2> DEFINE r == [state |-> "awaiting_gate", attempts |-> 0]
  <2>1. ~Terminal(results[s]) /\ wf.kind[s] = "gate" /\ Stop(s, r, "awaiting_approval")
        /\ executions' = executions
    BY <1>1, <1>12 DEF StepAwaits
  <2>2. r \in ResultTypes /\ r.attempts = 0
    BY <1>5 DEF StepStates
  <2> HIDE DEF r
  <2>3. QED
    BY <1>9, <1>zero, <2>1, <2>2
<1>13. CASE NoRunner(s)
  <2> DEFINE r == [state |-> "failed", attempts |-> 0]
  <2>1. ~Terminal(results[s]) /\ ~seam.runner /\ Stop(s, r, "failed") /\ executions' = executions
    BY <1>13 DEF NoRunner, UnderPolicy
  <2>2. r \in ResultTypes /\ r.attempts = 0 /\ r.state # "awaiting_gate"
    BY <1>5 DEF StepStates
  <2> HIDE DEF r
  <2>3. QED
    BY <1>9, <1>zero, <2>1, <2>2
<1>14. CASE AttemptSucceeds(s)
  <2> DEFINE r == [state |-> "complete", attempts |-> results[s].attempts + 1]
  <2>1. /\ ~Terminal(results[s]) /\ seam.runner /\ wf.kind[s] = "task" /\ Proceed(s, r)
        /\ executions' = [executions EXCEPT ![s] = executions[s] + 1]
    BY <1>14 DEF AttemptSucceeds, UnderPolicy
  <2>2. r \in ResultTypes /\ Terminal(r) /\ r.attempts = results[s].attempts + 1
    BY <1>4, <1>5, <1>6 DEF StepStates
  <2> HIDE DEF r
  <2>3. executions[s] + 1 \in Nat /\ (executions[s] = results[s].attempts => executions[s] + 1 = r.attempts)
    BY <1>4, <2>2
  <2>4. QED
    BY <1>8, <2>1, <2>2, <2>3
<1>15. CASE AttemptFails(s)
  <2> DEFINE r == [state |-> "running", attempts |-> results[s].attempts + 1]
  <2>1. /\ ~Terminal(results[s]) /\ seam.runner /\ wf.kind[s] = "task"
        /\ results' = [results EXCEPT ![s] = r] /\ lastErr' = TRUE /\ UNCHANGED <<at, status, pc>>
        /\ executions' = [executions EXCEPT ![s] = executions[s] + 1]
    BY <1>15 DEF AttemptFails, UnderPolicy
  <2>2. r \in ResultTypes /\ r.state # "awaiting_gate" /\ r.attempts = results[s].attempts + 1
    BY <1>4, <1>5 DEF StepStates
  <2> HIDE DEF r
  <2>3. executions[s] + 1 \in Nat /\ (executions[s] = results[s].attempts => executions[s] + 1 = r.attempts)
    BY <1>4, <2>2
  <2>4. ExecutionInv' /\ executions' \in [Steps -> Nat]
    BY <1>1, <1>2, <2>1, <2>2, <2>3, Counted
  <2>5. /\ results' \in [Steps -> ResultTypes] /\ ResultInv'
        /\ \A t \in Steps : Terminal(saved.results[t]) => results'[t] = saved.results[t]
        /\ \A j \in 1 .. Len(order) : j < at => Terminal(results'[order[j]])
        /\ \A i \in 1 .. Len(order) : i > at => results'[order[i]] = saved.results[order[i]]
    BY <1>1, <1>3, <2>1, <2>2, Update
  <2>6. Typed
    BY <1>2, <1>4, <2>1, <2>4, <2>5 DEF Inv, TypeOK
  <2>7. RunInv'
    BY <1>2, <1>3, <2>1, <2>5 DEF Inv, RunInv, Prefix
  <2>8. QED
    BY <1>7, <2>4, <2>5, <2>6, <2>7
<1>16. CASE CompensationFails(s)
  <2> DEFINE r == [state |-> "failed", attempts |-> results[s].attempts]
  <2>1. ~Terminal(results[s]) /\ Stop(s, r, "failed") /\ executions' = executions
    BY <1>16 DEF CompensationFails, Exhausted, UnderPolicy
  <2>2. r \in ResultTypes /\ r.attempts = results[s].attempts /\ r.state # "awaiting_gate"
    BY <1>4, <1>5 DEF StepStates
  <2> HIDE DEF r
  <2>3. QED
    BY <1>9, <2>1, <2>2
<1>17. CASE PolicyApplies(s)
  <2> DEFINE r(st) == [state |-> st, attempts |-> results[s].attempts]
  <2>1. /\ ~Terminal(results[s]) /\ executions' = executions
        /\ Proceed(s, r("skipped")) \/ Proceed(s, r("compensated")) \/ Stop(s, r("failed"), "failed")
    BY <1>17 DEF PolicyApplies, Exhausted, UnderPolicy
  <2>2. \A st \in {"skipped", "compensated", "failed"} :
            r(st) \in ResultTypes /\ r(st).attempts = results[s].attempts /\ r(st).state # "awaiting_gate"
    BY <1>4, <1>5 DEF StepStates
  <2>3. Terminal(r("skipped")) /\ Terminal(r("compensated"))
    BY <1>4, <1>6
  <2> HIDE DEF r
  <2>4. CASE Proceed(s, r("skipped"))
    BY <1>4, <1>8, <1>same, <1>zero, <2>1, <2>2, <2>3, <2>4
  <2>5. CASE Proceed(s, r("compensated"))
    BY <1>4, <1>8, <1>same, <1>zero, <2>1, <2>2, <2>3, <2>5
  <2>6. CASE Stop(s, r("failed"), "failed")
    BY <1>9, <2>1, <2>2, <2>6
  <2>7. QED
    BY <2>1, <2>4, <2>5, <2>6
<1>18. CASE PolicyPanics(s)
  <2>1. /\ ~lastErr /\ pc' = "panicked" /\ UNCHANGED <<results, status, at, lastErr, executions>>
        /\ results[s].attempts >= retries[s] + 1
    BY <1>18 DEF PolicyPanics, Exhausted, MaxAttempts, runVars
  <2>2. Typed
    BY <1>2, <1>4, <2>1 DEF Inv, TypeOK
  <2>3. ResultInv' /\ RunInv'
    BY <1>2, <1>3, <2>1
       DEF Inv, ResultInv, RunInv, InOrder, Prefix, GatesOnly, CompleteRunsAreFinished
  <2>4. saved.results[s] = results[s] /\ results[s] # Absent
    <3>1. saved.results[s] = results[s]
      BY <1>2, <2>1 DEF Inv, RunInv
    <3>2. Absent.attempts = 0
      BY DEF Absent
    <3>3. QED
      BY <1>4, <2>1, <3>1, <3>2
  <2>5. ASSUME NEW t \in Steps PROVE results[t] = saved.results[t]
    <3>1. PICK i \in 1 .. Len(order) : order[i] = t
      BY <1>2, Positions DEF Inv
    <3>2. CASE i < at
      <4>1. Terminal(saved.results[t])
        BY <1>2, <2>4, <3>1, <3>2 DEF Inv, ResultInv, InOrder, Prefix
      <4>2. QED
        BY <1>2, <4>1 DEF Inv, RunInv
    <3>3. CASE i >= at
      BY <1>2, <2>1, <3>1, <3>3 DEF Inv, RunInv
    <3>4. QED
      BY <1>2, <3>2, <3>3
  <2>6. ExecutionInv'
    BY <1>2, <1>3, <2>1, <2>5 DEF Inv, ExecutionInv
  <2>7. QED
    BY <1>7, <2>2, <2>3, <2>6
<1>19. QED
  BY <1>10, <1>11, <1>12, <1>13, <1>14, <1>15, <1>16, <1>17, <1>18 DEF RunStep

\* Every action keeps the invariant.
LEMMA NextInv == Inv /\ [Next]_vars => Inv'
<1> SUFFICES ASSUME Inv, [Next]_vars PROVE Inv'
  OBVIOUS
<1>1. CASE UNCHANGED vars
  <2>1. UNCHANGED <<wf, seam, retries, pc, indegree, ready, order, saved, results, status, at, lastErr,
                    executions, runs, crashes>>
    BY <1>1 DEF vars, compileVars, runVars
  <2>2. CompileInv'
    BY <2>1, PlanKept DEF Inv, compileVars
  <2>3. TypeOK'
    BY <2>1 DEF Inv, TypeOK
  <2>4. ResultInv' /\ RunInv' /\ ExecutionInv'
    BY <2>1 DEF Inv, ResultInv, RunInv, ExecutionInv, InOrder, Prefix, GatesOnly, CompleteRunsAreFinished
  <2>5. QED
    BY <2>2, <2>3, <2>4 DEF Inv
<1>2. CASE Next
  BY <1>2, CompilerKeepsInv, CallerKeepsInv, RunKeepsInv DEF Next
<1>3. QED
  BY <1>1, <1>2

\* What the invariant says of dependencies and of attempts.
LEMMA InvMeansDependencies == Inv => DependenciesFirst
<1> SUFFICES ASSUME Inv PROVE DependenciesFirst
  OBVIOUS
<1>1. ASSUME NEW res \in {results, saved.results}, NEW s \in Steps, res[s] # Absent,
             NEW d \in wf.deps[s]
      PROVE  Terminal(res[d])
  <2>1. pc \notin {"compiling", "rejected"}
    BY <1>1 DEF Inv, RunInv
  <2>2. PICK i \in 1 .. Len(order) : order[i] = s
    BY <2>1, Positions DEF Inv
  <2>3. PICK j \in 1 .. Len(order) : j < i /\ order[j] = d
    BY <1>1, <2>1, <2>2, Positions DEF Inv
  <2>4. QED
    BY <1>1, <2>2, <2>3 DEF Inv, ResultInv, InOrder, Prefix
<1>2. \A s \in Steps : results[s].state = "awaiting_gate" => wf.kind[s] = "gate"
  BY DEF Inv, ResultInv, GatesOnly
<1>3. QED
  BY <1>1, <1>2 DEF DependenciesFirst

\* The inductive invariant holds in every behaviour.
LEMMA Invariance == Spec => []Inv
BY InitInv, NextInv, PTL DEF Spec

(***************************************************************************)
(* The theorems.                                                           *)
(***************************************************************************)

\* The plan, the persisted state and Run's locals have the types of the Go
\* code (compile.go, runtime.go).
THEOREM TypeCorrect == Spec => []TypeOK
<1>1. Inv => TypeOK
  BY DEF Inv
<1>2. QED
  BY <1>1, Invariance, PTL

\* A plan lists every step once, after its dependencies; a workflow is rejected
\* exactly when it is malformed or has a cycle (topoOrder, Compile).
THEOREM CompilerIsCorrect == Spec => []CompiledOrderIsTopological
<1>1. Inv => CompiledOrderIsTopological
  BY CompileImpliesTopological DEF Inv
<1>2. QED
  BY <1>1, Invariance, PTL

\* No step is touched before its dependencies are finished, in memory or as
\* persisted (Run, depsSatisfied).
THEOREM DependenciesComeFirst == Spec => []DependenciesFirst
BY InvMeansDependencies, Invariance, PTL

\* A run that is persisted as complete has finished every step (Run).
THEOREM CompleteIsFinished == Spec => []CompleteRunsAreFinished
<1>1. Inv => CompleteRunsAreFinished
  BY DEF Inv, ResultInv
<1>2. QED
  BY <1>1, Invariance, PTL

\* Without a death of the process the persisted attempts are the executions,
\* also after a panic (runWithPolicy).
THEOREM AttemptsAreCounted == Spec => []AttemptsAccumulate
<1>1. Inv => AttemptsAccumulate
  BY DEF Inv, ExecutionInv, AttemptsAccumulate
<1>2. QED
  BY <1>1, Invariance, PTL

\* Finished work is neither repeated nor changed by any later run (Run).
THEOREM FinishedIsFinal == Spec => FinishedWorkIsKept
<1> DEFINE Kept == \A s \in Steps : Terminal(saved.results[s]) =>
                       /\ executions'[s] = executions[s]
                       /\ saved'.results[s] = saved.results[s]
<1>1. ASSUME Inv, Next PROVE Kept
  <2> SUFFICES ASSUME NEW s \in Steps, Terminal(saved.results[s])
               PROVE  executions'[s] = executions[s] /\ saved'.results[s] = saved.results[s]
    OBVIOUS
  <2>1. pc \in {"running", "returned"} => results[s] = saved.results[s]
    BY <1>1 DEF Inv, RunInv
  <2>2. CASE Persist
    <3>1. saved'.results = results /\ executions' = executions /\ pc = "returned"
      BY <2>2 DEF Persist
    <3>2. QED
      BY <2>1, <3>1
  <2>3. ASSUME NEW t \in Steps, RunStep(t)
        PROVE  executions'[s] = executions[s] /\ saved'.results[s] = saved.results[s]
    <3>1. saved' = saved
      BY <2>3 DEF RunStep, PassOver, GatePasses, StepAwaits, NoRunner, AttemptSucceeds, AttemptFails,
           CompensationFails, PolicyApplies, PolicyPanics, Fixed
    <3>2. CASE executions' = executions
      BY <3>1, <3>2
    <3>3. CASE executions' # executions
      <4>1. executions' = [executions EXCEPT ![t] = @ + 1] /\ UnderPolicy(t)
        BY <2>3, <3>3 DEF RunStep, PassOver, GatePasses, StepAwaits, NoRunner, AttemptSucceeds,
             AttemptFails, CompensationFails, PolicyApplies, PolicyPanics
      <4>2. s # t
        BY <2>1, <4>1 DEF UnderPolicy, Executing
      <4>3. QED
        BY <1>1, <3>1, <4>1, <4>2 DEF Inv, TypeOK
    <3>4. QED
      BY <3>2, <3>3
  <2>4. CASE ~Persist /\ ~\E t \in Steps : RunStep(t)
    <3>1. saved' = saved /\ executions' = executions
      BY <1>1, <2>4 DEF Next, CompileRejects, CompileReturns, EmitStep, Replan, Run, RunCompletes,
           Restart, Fixed
    <3>2. QED
      BY <3>1
  <2>5. QED
    BY <2>2, <2>3, <2>4
<1>2. Inv /\ [Next]_vars => [Kept]_vars
  BY <1>1
<1>3. QED
  BY <1>2, Invariance, PTL DEF Spec, FinishedWorkIsKept
=============================================================================
