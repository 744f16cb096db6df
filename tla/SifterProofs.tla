---------------------------- MODULE SifterProofs ----------------------------
(***************************************************************************)
(* The safety part of Sifter, for every set of configurations, tasks,      *)
(* standing rules and usages: what a person has to allow, what stays       *)
(* local, what is spent and what is recorded.                              *)
(***************************************************************************)
EXTENDS Sifter, FiniteSetTheorems, TLAPS

\* The configuration, after the gates have been protected.
ConfigInv ==
    cfg \in [cloudAllowed : BOOLEAN, policy : {cfg.policy}, cloudModel : [Tiers -> BOOLEAN],
                provider : {cfg.provider}, endpoint : {cfg.endpoint}, approver : Approvers,
                flags : [major : {TRUE}, critical : {TRUE}, significant : BOOLEAN],
                redact : BOOLEAN, checks : {cfg.checks}, context : [Tiers -> Nat],
                maxOutput : [Tiers -> Nat], threshold : Nat, retries : Nat, maxCalls : Nat,
                maxTokens : Nat, maxCost : Nat, priceIn : Nat, priceOut : Nat]

\* A person has to be asked about the task.
Needed == req # NoTask /\ ApprovalNeeded(cfg.flags, level)
\* The task is to stay local.
LocalRun == req # NoTask /\ (forceLocal \/ Policy = "local_only")
\* Nothing but advice has been asked for.
AdviceOnly == \A i \in DOMAIN sent : sent[i] = "expert_analysis"
Asking(s) == pc = "asking" /\ stage = s
AtCall(purposes) == pc \in {"prepared", "calling"} /\ call \in purposes
\* The route has been decided, and the task is not handed over.
Working ==
    \/ pc \in {"verifying", "escalating"} \/ Asking("escalation")
    \/ AtCall({"cloud_execute", "cloud_plan", "cloud_review", "local_execute"})

\* What the answers say where the coroutine is.
GateInv ==
    /\ req # NoTask /\ ~Needed => decisions = << >> /\ ~forceLocal
    /\ pc \in {"idle"} \/ Asking("analysis") =>
          decisions = << >> /\ sent = << >> /\ ~forceLocal /\ ~permitted
    /\ Asking("implementation") \/ AtCall({"expert_analysis"}) =>
          Permit = "analysis" /\ AdviceOnly /\ ~forceLocal /\ ~permitted
    /\ pc = "routing" => AdviceOnly
    /\ pc = "asking" => Needed
    /\ Needed /\ (pc = "routing" \/ Working) => Permit \in {"local", "full"}
    /\ Needed /\ AtCall({"cloud_escalation"}) => Permit \in {"full", "diagnosis"}
    /\ Permit = "local" => forceLocal

\* What has been decided where it is.
RouteInv ==
    /\ Working \/ AtCall({"cloud_escalation"}) => route \in Routes
    /\ Working /\ LocalRun => route = "local" /\ ~permitted
    /\ AtCall({"cloud_escalation"}) /\ LocalRun => Permit = "diagnosis"
    /\ AtCall({"cloud_execute"}) => route = "cloud"
    /\ pc = "verifying" => call = "local_execute" \/ (call = "cloud_execute" /\ route = "cloud")
    /\ AtCall({"cloud_plan", "cloud_review"}) => route = "hybrid"
    /\ AtCall({"cloud_review"}) => verified
    /\ pc = "calling" => sent # << >> /\ sent[Len(sent)] = call

\* The money.
ExpertCalls == {i \in DOMAIN sent : IsExpert(sent[i])}
CallingExpert == pc = "calling" /\ call \in ExpertPurposes
BudgetInv ==
    /\ budget \in [calls : Nat, tokens : Nat, cost : Nat, cap : Nat, exhausted : BOOLEAN]
    /\ req # NoTask => budget.cap \in Ceilings
    /\ IsFiniteSet(ExpertCalls)
    /\ Cardinality(ExpertCalls) <= cfg.maxCalls
    /\ CallingExpert =>
          /\ Cardinality(ExpertCalls) = budget.calls + 1
          /\ budget.cost <= budget.cap /\ budget.tokens <= cfg.maxTokens
    /\ ~Over /\ ~CallingExpert => Cardinality(ExpertCalls) = budget.calls
    /\ \E u \in Usages : budget.cost <= budget.cap + EstimateCost(cfg, u.in, u.out)
    /\ \E u \in Usages : budget.tokens <= cfg.maxTokens + u.in + u.out

\* The right of every expert call of a task that is to stay local.
ExpertsAreAllowed ==
    LocalRun => \A i \in DOMAIN sent : IsExpert(sent[i]) =>
        \E j \in DOMAIN decisions :
            /\ decisions[j].action = "allow_expert_analysis"
            /\ <<decisions[j].stage, sent[i]>> \in
                 {<<"analysis", "expert_analysis">>, <<"escalation", "cloud_escalation">>}

Inv ==
    /\ TypeOK /\ GateInv /\ RouteInv /\ BudgetInv
    /\ ExpertsAreAllowed /\ OutcomeIsEarned

-----------------------------------------------------------------------------
(***************************************************************************)
(* The operators.                                                          *)
(***************************************************************************)
Decision == [stage : Stages, action : Actions]

\* Every answer an approval provider can give is a decision about the stage
\* it was asked for.
LEMMA AnswersAreDecisions ==
    ASSUME stage \in Stages, NEW d \in PossibleAnswers
    PROVE  d \in Decision /\ d.stage = stage
<1>1. \A i : ParseDecisionInput(i, stage) \in Actions
  BY DEF ParseDecisionInput, Actions
<1>2. \A l : AutoDecision(l) \in Actions
  BY DEF AutoDecision, Actions
<1>3. \A a \in Actions : Answered(a) \in Decision /\ Answered(a).stage = stage
  BY DEF Answered, Decision
<1>4. \E a \in Actions : d = Answered(a)
  <2>1. d \in ConsoleAnswers \/ d \in DesktopAnswers \/ d \in AutoAnswers
    BY DEF PossibleAnswers
  <2>2. CASE d \in ConsoleAnswers
    BY <1>1, <2>2 DEF ConsoleAnswers
  <2>3. CASE d \in DesktopAnswers
    BY <2>3 DEF DesktopAnswers
  <2>4. CASE d \in AutoAnswers
    BY <1>2, <2>4 DEF AutoAnswers
  <2>5. QED
    BY <2>1, <2>2, <2>3, <2>4
<1>5. QED
  BY <1>3, <1>4

\* DecisionGate.classify gives a level, also when rules raise it.
LEMMA LevelsAreLevels == \A r, p : GateClassify(r, p) \in Levels
BY DEF GateClassify, Classify, LevelForSignals, MaxLevel, Levels

\* PolicyEngine.decide gives a route, and under local_only the local one.
LEMMA RoutesAreRoutes ==
    /\ \A p, a, b : Decide(p, a, b) \in Routes
    /\ \A a, b : Decide("local_only", a, b) = "local"
BY DEF Decide, Preferred, Adaptive, Coerce, Routes, Policies

\* A major task needs the approval of a person, and what is not significant
\* enough to be asked about is not major.
LEMMA MajorIsNeeded ==
    ASSUME ConfigInv, level \in Levels, IsMajor(level)
    PROVE  ApprovalNeeded(cfg.flags, level)
<1>1. cfg.flags.major /\ cfg.flags.critical
  BY DEF ConfigInv
<1>2. level \in {"major", "critical"}
  BY DEF IsMajor, LevelAtLeast, Severity, Levels
<1>3. QED
  BY <1>1, <1>2 DEF ApprovalNeeded

\* What the last answer permits.
LEMMA PermitAfter ==
    ASSUME decisions \in Seq(Decision), NEW d \in Decision, decisions' = Append(decisions, d)
    PROVE  Permit' = PermitOf(d) /\ decisions' \in Seq(Decision) /\ decisions' # << >>
<1>1. /\ decisions' \in Seq(Decision) /\ Len(decisions') = Len(decisions) + 1
      /\ decisions'[Len(decisions')] = d /\ decisions' # << >>
  OBVIOUS
<1>2. QED
  BY <1>1 DEF Permit

\* What does not change when the answers, the task and its classification
\* do not, and when no call is sent.
LEMMA AnswersKept ==
    ASSUME UNCHANGED <<cfg, req, level, decisions, forceLocal>>
    PROVE  Permit' = Permit /\ (Needed' <=> Needed) /\ (LocalRun' <=> LocalRun)
<1>1. Permit' = Permit
  BY DEF Permit
<1>2. Needed' <=> Needed
  BY DEF Needed
<1>3. LocalRun' <=> LocalRun
  BY DEF LocalRun, Policy
<1>4. QED
  BY <1>1, <1>2, <1>3

\* Without a call, advice is still all that was asked for.
LEMMA CallsKept == ASSUME UNCHANGED sent PROVE AdviceOnly' <=> AdviceOnly
BY DEF AdviceOnly

\* Validation of the configuration: the gates work, the rest is as it was.
LEMMA ProtectedConfig == ASSUME NEW c \in Configs, cfg = Validated(c) PROVE ConfigInv
<1>1. ProtectGates(c.flags) \in [major : {TRUE}, critical : {TRUE}, significant : BOOLEAN]
  BY ConfigAssumption DEF ProtectGates
<1>2. c \in [cloudAllowed : BOOLEAN, policy : {c.policy}, cloudModel : [Tiers -> BOOLEAN],
             provider : {c.provider}, endpoint : {c.endpoint}, approver : Approvers,
             flags : {c.flags},
             redact : BOOLEAN, checks : {c.checks}, context : [Tiers -> Nat],
             maxOutput : [Tiers -> Nat], threshold : Nat, retries : Nat, maxCalls : Nat,
             maxTokens : Nat, maxCost : Nat, priceIn : Nat, priceOut : Nat]
  BY ConfigAssumption
<1> DEFINE flags == ProtectGates(c.flags)
<1>3. cfg = [c EXCEPT !.flags = flags]
  BY DEF Validated
<1>4. flags \in [major : {TRUE}, critical : {TRUE}, significant : BOOLEAN]
  BY <1>1
<1> HIDE DEF flags
<1>5. QED
  BY <1>2, <1>3, <1>4 DEF ConfigInv

\* What TypeOK and the assumptions say of the configuration.
LEMMA ConfigIsValid == ASSUME TypeOK PROVE ConfigInv
<1>1. PICK c \in Configs : cfg = Validated(c)
  BY DEF TypeOK
<1>2. QED
  BY <1>1, ProtectedConfig

-----------------------------------------------------------------------------
(***************************************************************************)
(* Type correctness.                                                       *)
(***************************************************************************)
\* The application as it is built.
LEMMA InitType == ASSUME Init PROVE TypeOK
<1>1. cfg.retries + 1 \in Nat /\ 0 \in 0..cfg.retries + 1
  <2>1. ConfigInv
    BY ProtectedConfig DEF Init
  <2>2. QED
    BY <2>1 DEF ConfigInv
<1>2. cfg \in {Validated(c) : c \in Configs}
  BY DEF Init
<1>3. forceLocal \in BOOLEAN /\ permitted \in BOOLEAN /\ verified \in BOOLEAN
  BY DEF Init
<1>4. QED
  BY <1>1, <1>2, <1>3, BoundsAssumption DEF Init, TypeOK, Levels

\* A call that is sent or generated adds no more to what has left the machine
\* than the secrets of a task.
LEMMA EgressType ==
    ASSUME TypeOK, NEW purpose \in Purposes, NEW cut \in BOOLEAN,
           NEW secrets \in SUBSET SecretPatterns, Egress(purpose, cut, secrets)
    PROVE  egress' \subseteq [purpose : Purposes, cut : BOOLEAN, secrets : SUBSET SecretPatterns]
<1>1. Redact(cfg, secrets, cut) \subseteq SUBSET SecretPatterns
  BY DEF Redact
<1>2. (IF Outbound(purpose) \/ cut THEN Redact(cfg, secrets, cut) ELSE {secrets})
          \subseteq SUBSET SecretPatterns
  BY <1>1
<1>3. CASE UNCHANGED egress
  BY <1>3 DEF TypeOK
<1>4. CASE \E left \in SUBSET SecretPatterns :
              egress' = egress \cup {[purpose |-> purpose, cut |-> cut, secrets |-> left]}
  BY <1>4 DEF TypeOK
<1>5. QED
  BY <1>2, <1>3, <1>4 DEF Egress

\* The call that is sent.
LEMMA CallIsSent ==
    ASSUME SendCall
    PROVE  /\ \E extra \in Extras :
                 /\ call \in ExpertPurposes => MayBeAffordable(call, extra)
                 /\ Egress(call, IsCut(call, extra) \/ IsSliced(call), RawSecrets(call))
           /\ sent' = Append(sent, call)
BY DEF SendCall

\* The record of the call.
LEMMA SentGrows ==
    ASSUME TypeOK, SendCall
    PROVE  /\ Len(sent) \in Nat /\ DOMAIN sent = 1..Len(sent) /\ Len(sent') = Len(sent) + 1
           /\ DOMAIN sent' = DOMAIN sent \cup {Len(sent) + 1} /\ sent' # << >>
           /\ \A i \in DOMAIN sent : sent'[i] = sent[i]
           /\ sent'[Len(sent) + 1] = call
BY CallIsSent DEF TypeOK, SendCall

\* _finish ends the task with a status.
LEMMA FinishType ==
    ASSUME TypeOK, NEW status \in Statuses, Finish(status)
    PROVE  history' \in Seq(Statuses) /\ pc' = "over"
BY DEF TypeOK, Finish

\* A failed attempt is repeated, within the retries, or given up.
LEMMA FailedAttemptType ==
    ASSUME TypeOK, FailedAttempt
    PROVE  /\ attempt' \in 0..cfg.retries + 1 /\ history' = history
           /\ pc' \in {"prepared", "escalating"}
<1>1. cfg.retries \in Nat
  BY ConfigIsValid DEF ConfigInv
<1>2. QED
  BY <1>1 DEF TypeOK, FailedAttempt

\* A provider that fails ends the attempt or the task.
LEMMA ProviderFailsType ==
    ASSUME TypeOK, ProviderFails
    PROVE  /\ attempt' \in 0..cfg.retries + 1 /\ history' \in Seq(Statuses)
           /\ pc' \in {"prepared", "escalating", "over"}
<1>1. "error" \in Statuses
  BY DEF Statuses
<1>2. CASE FailedAttempt
  BY <1>2, FailedAttemptType DEF TypeOK
<1>3. CASE Finish("error") /\ UNCHANGED attempt
  BY <1>1, <1>3 DEF TypeOK, Finish
<1>4. QED
  BY <1>2, <1>3 DEF ProviderFails

\* A budget that is exceeded ends the task.
LEMMA BudgetStopsType ==
    ASSUME TypeOK, BudgetStops PROVE history' \in Seq(Statuses) /\ pc' = "over"
<1>1. {"completed", "failed", "blocked"} \subseteq Statuses
  BY DEF Statuses
<1>2. CASE call = "cloud_review"
  BY <1>1, <1>2 DEF TypeOK, BudgetStops, Finish
<1>3. CASE call = "cloud_escalation"
  BY <1>1, <1>3 DEF TypeOK, BudgetStops, Finish
<1>4. CASE call # "cloud_review" /\ call # "cloud_escalation"
  BY <1>1, <1>4 DEF TypeOK, BudgetStops, Finish
<1>5. QED
  BY <1>2, <1>3, <1>4

\* Every action keeps the types.
LEMMA NextType == ASSUME TypeOK, Next PROVE TypeOK'
<1> USE DEF inputs, governance, traffic
<1>c. cfg.retries \in Nat
  BY ConfigIsValid DEF ConfigInv
<1>b. TRUE \in BOOLEAN /\ FALSE \in BOOLEAN
  OBVIOUS
<1>s. {"completed", "failed", "stopped", "blocked", "error"} \subseteq Statuses
  BY DEF Statuses
<1>p. {"expert_analysis", "cloud_execute", "cloud_plan", "cloud_review", "cloud_escalation",
       "local_execute"} \subseteq Purposes
  BY DEF Purposes, ExpertPurposes
<1>1. ASSUME NEW t \in RuleTexts, AddRule(t) PROVE TypeOK'
  BY <1>1 DEF TypeOK, AddRule
<1>2. ASSUME NEW r \in Requests, Run(r) PROVE TypeOK'
  <2>1. level' \in Levels
    BY <1>2, LevelsAreLevels DEF Run
  <2>2. \/ pc' = "asking" /\ stage' = "analysis"
        \/ pc' = "routing" /\ stage' = None
    BY <1>2 DEF Run
  <2>3. QED
    BY <1>2, <2>1, <2>2, RequestAssumption DEF TypeOK, Run, Stages
<1>3. ASSUME NEW d \in PossibleAnswers, pc = "asking", AnswerAnalysis(d) PROVE TypeOK'
  <2>1. decisions' \in Seq(Decision) /\ stage' = None
    BY <1>3, AnswersAreDecisions DEF TypeOK, AnswerAnalysis, Decision
  <2>2. /\ pc' \in {"over", "routing", "prepared"}
        /\ history' \in Seq(Statuses) /\ forceLocal' \in BOOLEAN /\ permitted' \in BOOLEAN
        /\ call' \in Purposes \cup {None}
        /\ pc' = "prepared" => call' \in Purposes
    <3>1. CASE d.action \in {"stop", "reject", "modify"}
      BY <1>3, <3>1, <1>s, FinishType DEF TypeOK, AnswerAnalysis
    <3>2. CASE d.action \in {"more_local_analysis", "continue_current"}
      BY <1>3, <3>2, <1>b DEF TypeOK, AnswerAnalysis
    <3>3. CASE d.action \in {"approve", "choose_option"}
      BY <1>3, <3>3, <1>b DEF TypeOK, AnswerAnalysis
    <3>4. CASE d.action \notin {"stop", "reject", "modify", "more_local_analysis",
                                 "continue_current", "approve", "choose_option"}
      BY <1>3, <3>4, <1>p DEF TypeOK, AnswerAnalysis, ConsultExpert, Prepare
    <3>5. QED
      BY <3>1, <3>2, <3>3, <3>4
  <2>3. QED
    BY <1>3, <2>1, <2>2 DEF TypeOK, AnswerAnalysis, Decision
<1>4. ASSUME NEW d \in PossibleAnswers, pc = "asking", AnswerImplementation(d) PROVE TypeOK'
  <2>1. decisions' \in Seq(Decision) /\ stage' = None
    BY <1>4, AnswersAreDecisions DEF TypeOK, AnswerImplementation, Decision
  <2>2. pc' \in {"over", "routing"} /\ history' \in Seq(Statuses) /\ permitted' \in BOOLEAN
    BY <1>4, <1>b, <1>s, FinishType DEF TypeOK, AnswerImplementation
  <2>3. QED
    BY <1>4, <2>1, <2>2 DEF TypeOK, AnswerImplementation, Decision
<1>5. ASSUME NEW d \in PossibleAnswers, pc = "asking", AnswerEscalation(d) PROVE TypeOK'
  <2>1. decisions' \in Seq(Decision) /\ stage' = None
    BY <1>5, AnswersAreDecisions DEF TypeOK, AnswerEscalation, Decision
  <2>2. permitted' \in BOOLEAN
    BY <1>5 DEF AnswerEscalation
  <2>3. /\ pc' \in {"over", "prepared"} /\ history' \in Seq(Statuses)
        /\ call' \in Purposes \cup {None}
        /\ pc' = "prepared" => call' \in Purposes
    BY <1>5, <1>s, <1>p, FinishType DEF TypeOK, AnswerEscalation, HandOver, Prepare
  <2>4. QED
    BY <1>5, <2>1, <2>2, <2>3 DEF TypeOK, AnswerEscalation, Decision
<1>6. ASSUME Route PROVE TypeOK'
  <2>1. route' \in Routes
    BY <1>6, RoutesAreRoutes DEF Route
  <2>2. permitted' \in BOOLEAN
    BY <1>6 DEF Route
  <2>3. pc' = "prepared" /\ call' \in Purposes
    BY <1>6, <1>p DEF Route, Prepare
  <2>4. QED
    BY <1>6, <1>c, <2>1, <2>2, <2>3 DEF TypeOK, Route
<1>7. ASSUME RefusedByProfile \/ NoProvider PROVE TypeOK'
  BY <1>7, ProviderFailsType DEF TypeOK, RefusedByProfile, NoProvider
<1>8. ASSUME RefusedByBudget PROVE TypeOK'
  BY <1>8, BudgetStopsType DEF TypeOK, RefusedByBudget
<1>9. ASSUME SendCall PROVE TypeOK'
  <2>1. call \in Purposes /\ req \in Requests
    BY <1>9 DEF TypeOK, SendCall
  <2>2. sent' \in Seq(Purposes)
    <3>1. sent \in Seq(Purposes)
      BY DEF TypeOK
    <3>2. sent' = Append(sent, call)
      BY <1>9, CallIsSent
    <3>3. QED
      BY <2>1, <3>1, <3>2
  <2>3. egress' \subseteq [purpose : Purposes, cut : BOOLEAN, secrets : SUBSET SecretPatterns]
    <3>1. PICK extra \in Extras : Egress(call, IsCut(call, extra) \/ IsSliced(call), RawSecrets(call))
      BY <1>9, CallIsSent
    <3>2. (IsCut(call, extra) \/ IsSliced(call)) \in BOOLEAN
      BY DEF IsCut, IsSliced
    <3>3. RawSecrets(call) \in SUBSET SecretPatterns
      BY <2>1, RequestAssumption DEF RawSecrets
    <3>4. QED
      BY <2>1, <3>1, <3>2, <3>3, EgressType
  <2>4. posts' \in 0..PostRetries + 1
    BY <1>9, BoundsAssumption DEF SendCall
  <2>5. QED
    BY <1>9, <2>2, <2>3, <2>4 DEF TypeOK, SendCall
<1>10. ASSUME PostFails PROVE TypeOK'
  BY <1>10, BoundsAssumption DEF TypeOK, PostFails
<1>11. ASSUME CallFails PROVE TypeOK'
  <2>1. posts' \in 0..PostRetries + 1
    BY <1>11, BoundsAssumption DEF CallFails
  <2>2. QED
    BY <1>11, <2>1, ProviderFailsType DEF TypeOK, CallFails
<1>12. ASSUME CallRaises PROVE TypeOK'
  BY <1>12, BoundsAssumption DEF TypeOK, CallRaises
<1>13. ASSUME NEW u \in Usages, CallReturns(u) PROVE TypeOK'
  <2>1. posts' \in 0..PostRetries + 1
    BY <1>13, BoundsAssumption DEF CallReturns
  <2>2. /\ \/ pc' = "asking" /\ stage' = "implementation"
           \/ pc' \in {"prepared", "verifying", "over"} /\ stage' = stage
        /\ history' \in Seq(Statuses) /\ call' \in Purposes
    <3>1. CASE call = "expert_analysis"
      BY <1>13, <3>1 DEF TypeOK, CallReturns
    <3>2. CASE call = "cloud_plan"
      BY <1>13, <3>2, <1>p DEF TypeOK, CallReturns, Prepare
    <3>3. CASE call \in {"cloud_execute", "local_execute"}
      BY <1>13, <3>3 DEF TypeOK, CallReturns
    <3>4. CASE call \notin {"expert_analysis", "cloud_plan", "cloud_execute", "local_execute"}
      BY <1>13, <3>4, <1>s, FinishType DEF TypeOK, CallReturns
    <3>5. QED
      BY <3>1, <3>2, <3>3, <3>4
  <2>3. QED
    BY <1>13, <2>1, <2>2 DEF TypeOK, CallReturns, Stages
<1>14. ASSUME NEW passed \in BOOLEAN, Verify(passed) PROVE TypeOK'
  <2>1. /\ pc' \in {"prepared", "over", "escalating"} /\ history' \in Seq(Statuses)
        /\ call' \in Purposes /\ attempt' \in 0..cfg.retries + 1
    <3>1. CASE passed /\ route = "hybrid"
      BY <1>14, <3>1, <1>p DEF TypeOK, Verify, Prepare
    <3>2. CASE passed /\ route # "hybrid"
      BY <1>14, <3>2, <1>s, FinishType DEF TypeOK, Verify
    <3>3. CASE ~passed /\ route = "local"
      BY <1>14, <3>3, FailedAttemptType DEF TypeOK, Verify
    <3>4. CASE ~passed /\ route # "local"
      BY <1>14, <3>4 DEF TypeOK, Verify
    <3>5. QED
      BY <3>1, <3>2, <3>3, <3>4
  <2>2. verified' \in BOOLEAN
    BY <1>14 DEF Verify
  <2>3. QED
    BY <1>14, <2>1, <2>2 DEF TypeOK, Verify
<1>15. ASSUME Escalate PROVE TypeOK'
  <2>1. /\ \/ pc' = "asking" /\ stage' = "escalation"
           \/ pc' \in {"prepared", "over"} /\ stage' = stage
        /\ history' \in Seq(Statuses) /\ call' \in Purposes \cup {None}
        /\ pc' = "prepared" => call' \in Purposes
    <3>1. CASE EscalationNeedsHuman(req.prompt, level) /\ ~Grant
      BY <1>15, <3>1 DEF TypeOK, Escalate
    <3>2. CASE ~(EscalationNeedsHuman(req.prompt, level) /\ ~Grant)
      BY <1>15, <3>2, <1>s, <1>p, FinishType DEF TypeOK, Escalate, HandOver, Prepare
    <3>3. QED
      BY <3>1, <3>2
  <2>2. QED
    BY <1>15, <2>1 DEF TypeOK, Escalate, Stages
<1>16. ASSUME Cancel PROVE TypeOK'
  BY <1>16 DEF TypeOK, Cancel
<1>17. ASSUME NEW p \in {"cloud_execute", "local_execute"},
              NEW s \in {r.prompt.secrets : r \in Requests}, Generate(p, s)
       PROVE  TypeOK'
  <2>1. egress' \subseteq [purpose : Purposes, cut : BOOLEAN, secrets : SUBSET SecretPatterns]
    <3>1. p \in Purposes /\ s \in SUBSET SecretPatterns /\ Egress(p, FALSE, s)
      BY <1>17, <1>p, RequestAssumption DEF Generate
    <3>2. QED
      BY <1>17, <1>b, <3>1, EgressType
  <2>2. generated' \in 0..Generates
    BY <1>17, BoundsAssumption DEF TypeOK, Generate
  <2>3. QED
    BY <1>17, <2>1, <2>2 DEF TypeOK, Generate
<1>18. QED
  BY <1>1, <1>2, <1>3, <1>4, <1>5, <1>6, <1>7, <1>8, <1>9, <1>10, <1>11, <1>12, <1>13, <1>14, <1>15,
     <1>16, <1>17 DEF Next, Answer, Step

-----------------------------------------------------------------------------
(***************************************************************************)
(* The gate and the route.                                                 *)
(***************************************************************************)
\* Before the first task nothing has been asked.
LEMMA InitGate == ASSUME Init PROVE GateInv /\ RouteInv
BY DEF Init, GateInv, RouteInv, Needed, LocalRun, Asking, AtCall, Working, Permit, None

\* Every action leaves the coroutine where the answers let it be.
LEMMA NextGate ==
    ASSUME TypeOK, GateInv, RouteInv, Next
    PROVE  GateInv' /\ RouteInv'
<1> USE DEF inputs, governance, traffic
<1>t. /\ pc = "idle" <=> req = NoTask
      /\ pc = "asking" => stage \in Stages
      /\ level \in Levels /\ forceLocal \in BOOLEAN /\ permitted \in BOOLEAN
      /\ route \in Routes \cup {None}
      /\ decisions \in Seq(Decision)
  BY DEF TypeOK, Decision
<1>1. ASSUME NEW t \in RuleTexts, AddRule(t) PROVE GateInv' /\ RouteInv'
  <2>1. /\ Permit' = Permit /\ (Needed' <=> Needed) /\ (LocalRun' <=> LocalRun)
        /\ AdviceOnly' <=> AdviceOnly
    BY <1>1, AnswersKept, CallsKept DEF AddRule
  <2>2. QED
    BY <1>1, <2>1 DEF AddRule, GateInv, RouteInv, Asking, AtCall, Working
<1>2. ASSUME NEW r \in Requests, Run(r) PROVE GateInv' /\ RouteInv'
  <2>1. /\ decisions = << >> /\ sent = << >> /\ ~forceLocal /\ ~permitted
        /\ UNCHANGED <<decisions, sent, forceLocal, permitted, cfg>>
    BY <1>2 DEF Run, GateInv
  <2>2. \/ Needed' /\ pc' = "asking" /\ stage' = "analysis"
        \/ ~Needed' /\ pc' = "routing" /\ stage' = None
    BY <1>2, <2>1, RequestAssumption DEF Run, Needed
  <2>3. AdviceOnly' /\ Permit' = "none"
    BY <2>1 DEF AdviceOnly, Permit
  <2>4. QED
    BY <2>1, <2>2, <2>3 DEF GateInv, RouteInv, Asking, AtCall, Working, None
<1>3. ASSUME NEW d \in PossibleAnswers, pc = "asking", AnswerAnalysis(d)
      PROVE  GateInv' /\ RouteInv'
  <2>1. d \in Decision /\ d.stage = "analysis"
    BY <1>3, <1>t, AnswersAreDecisions DEF AnswerAnalysis
  <2>2. Permit' = PermitOf(d) /\ decisions' # << >>
    BY <1>3, <1>t, <2>1, PermitAfter DEF AnswerAnalysis
  <2>3. Needed /\ Needed' /\ req # NoTask /\ req' = req
    BY <1>3, <1>t DEF GateInv, AnswerAnalysis, Needed
  <2>4. AdviceOnly /\ AdviceOnly' /\ ~forceLocal /\ ~permitted
    BY <1>3 DEF GateInv, AnswerAnalysis, Asking, AdviceOnly
  <2>5. CASE d.action \in {"stop", "reject", "modify"}
    <3>1. pc' = "over" /\ PermitOf(d) = "refused"
      BY <1>3, <2>1, <2>5 DEF AnswerAnalysis, Finish, PermitOf
    <3>2. QED
      BY <2>2, <2>3, <2>4, <3>1 DEF GateInv, RouteInv, Asking, AtCall, Working
  <2>6. CASE d.action \in {"more_local_analysis", "continue_current"}
    <3>1. pc' = "routing" /\ PermitOf(d) = "local" /\ forceLocal'
      BY <1>3, <2>1, <2>6 DEF AnswerAnalysis, PermitOf
    <3>2. QED
      BY <2>2, <2>3, <2>4, <3>1 DEF GateInv, RouteInv, Asking, AtCall, Working
  <2>7. CASE d.action \in {"approve", "choose_option"}
    <3>1. pc' = "routing" /\ PermitOf(d) = "full"
      BY <1>3, <2>1, <2>7 DEF AnswerAnalysis, PermitOf
    <3>2. QED
      BY <2>2, <2>3, <2>4, <3>1 DEF GateInv, RouteInv, Asking, AtCall, Working
  <2>8. CASE d.action = "allow_expert_analysis"
    <3>1. /\ pc' = "prepared" /\ call' = "expert_analysis" /\ PermitOf(d) = "analysis"
          /\ ~forceLocal' /\ ~permitted'
      BY <1>3, <2>1, <2>4, <2>8 DEF AnswerAnalysis, ConsultExpert, Prepare, PermitOf
    <3>2. QED
      BY <2>2, <2>3, <2>4, <3>1 DEF GateInv, RouteInv, Asking, AtCall, Working
  <2>9. QED
    BY <2>1, <2>5, <2>6, <2>7, <2>8 DEF Decision, Actions
<1>4. ASSUME NEW d \in PossibleAnswers, pc = "asking", AnswerImplementation(d)
      PROVE  GateInv' /\ RouteInv'
  <2>1. d \in Decision /\ d.stage = "implementation"
    BY <1>4, <1>t, AnswersAreDecisions DEF AnswerImplementation
  <2>2. Permit' = PermitOf(d) /\ decisions' # << >>
    BY <1>4, <1>t, <2>1, PermitAfter DEF AnswerImplementation
  <2>3. Needed /\ Needed' /\ req # NoTask /\ req' = req
    BY <1>4, <1>t DEF GateInv, AnswerImplementation, Needed
  <2>4. AdviceOnly /\ AdviceOnly' /\ ~forceLocal /\ ~permitted
    BY <1>4 DEF GateInv, AnswerImplementation, Asking, AdviceOnly
  <2>5. \/ pc' = "over" /\ Permit' = "refused"
        \/ pc' = "routing" /\ Permit' = "full"
    BY <1>4, <2>1, <2>2 DEF AnswerImplementation, Finish, PermitOf
  <2>6. QED
    BY <2>2, <2>3, <2>4, <2>5 DEF GateInv, RouteInv, Asking, AtCall, Working
<1>5. ASSUME NEW d \in PossibleAnswers, pc = "asking", AnswerEscalation(d)
      PROVE  GateInv' /\ RouteInv'
  <2>1. d \in Decision /\ d.stage = "escalation"
    BY <1>5, <1>t, AnswersAreDecisions DEF AnswerEscalation
  <2>2. Permit' = PermitOf(d) /\ decisions' # << >>
    BY <1>5, <1>t, <2>1, PermitAfter DEF AnswerEscalation
  <2>3. Needed /\ Needed' /\ req # NoTask /\ req' = req /\ route \in Routes /\ route' = route
    BY <1>5, <1>t DEF GateInv, RouteInv, AnswerEscalation, Needed, Working, Asking
  <2>4. \/ pc' = "over" /\ Permit' = "refused"
        \/ pc' = "prepared" /\ call' = "cloud_escalation" /\ Permit' = "diagnosis"
    BY <1>5, <2>1, <2>2 DEF AnswerEscalation, HandOver, Prepare, Finish, PermitOf
  <2>5. QED
    BY <2>2, <2>3, <2>4 DEF GateInv, RouteInv, Asking, AtCall, Working
<1>6. ASSUME Route PROVE GateInv' /\ RouteInv'
  <2>1. Permit' = Permit /\ (Needed' <=> Needed) /\ (LocalRun' <=> LocalRun)
    BY <1>6, AnswersKept DEF Route
  <2>2. route' \in Routes
    BY <1>6, RoutesAreRoutes DEF Route
  <2>3. LocalRun => route' = "local" /\ ~permitted'
    <3>1. LocalRun => EffectivePolicy = "local_only"
      BY DEF LocalRun, EffectivePolicy
    <3>2. QED
      BY <1>6, <3>1, RoutesAreRoutes DEF Route
  <2>4. /\ pc' = "prepared" /\ call' \in {"cloud_execute", "cloud_plan", "local_execute"}
        /\ call' = "cloud_execute" => route' = "cloud"
        /\ call' = "cloud_plan" => route' = "hybrid"
    <3>1. CASE route' = "cloud"
      BY <1>6, <3>1 DEF Route, Prepare
    <3>2. CASE route' = "hybrid"
      BY <1>6, <3>2 DEF Route, Prepare
    <3>3. CASE route' # "cloud" /\ route' # "hybrid"
      BY <1>6, <3>3 DEF Route, Prepare
    <3>4. QED
      BY <3>1, <3>2, <3>3
  <2>5. GateInv'
    BY <1>6, <1>t, <2>1, <2>4 DEF Route, GateInv, Asking, AtCall, Working
  <2>6. RouteInv'
    BY <1>6, <1>t, <2>1, <2>2, <2>3, <2>4 DEF Route, RouteInv, Asking, AtCall, Working
  <2>7. QED
    BY <2>5, <2>6
<1>7. ASSUME RefusedByProfile \/ NoProvider PROVE GateInv' /\ RouteInv'
  <2>1. /\ Permit' = Permit /\ (Needed' <=> Needed) /\ (LocalRun' <=> LocalRun)
        /\ AdviceOnly' <=> AdviceOnly
    BY <1>7, AnswersKept, CallsKept DEF RefusedByProfile, NoProvider
  <2>2. /\ pc = "prepared" /\ call' = call
        /\ \/ pc' \in {"prepared", "escalating"} /\ call = "local_execute" /\ route = "local"
           \/ pc' = "over"
    BY <1>7 DEF RefusedByProfile, NoProvider, ProviderFails, FailedAttempt, Finish
  <2>3. GateInv'
    BY <1>7, <2>1, <2>2 DEF RefusedByProfile, NoProvider, GateInv, Asking, AtCall, Working
  <2>4. RouteInv'
    BY <1>7, <2>1, <2>2 DEF RefusedByProfile, NoProvider, RouteInv, Asking, AtCall, Working
  <2>5. QED
    BY <2>3, <2>4
<1>8. ASSUME RefusedByBudget PROVE GateInv' /\ RouteInv'
  <2>1. /\ Permit' = Permit /\ (Needed' <=> Needed) /\ (LocalRun' <=> LocalRun)
        /\ AdviceOnly' <=> AdviceOnly
    BY <1>8, AnswersKept, CallsKept DEF RefusedByBudget
  <2>2. pc' = "over"
    BY <1>8 DEF RefusedByBudget, BudgetStops, Finish
  <2>3. UNCHANGED <<req, decisions, forceLocal, permitted, call>>
    BY <1>8 DEF RefusedByBudget
  <2>4. QED
    BY <2>1, <2>2, <2>3 DEF GateInv, RouteInv, Asking, AtCall, Working
<1>9. ASSUME SendCall PROVE GateInv' /\ RouteInv'
  <2>1. Permit' = Permit /\ (Needed' <=> Needed) /\ (LocalRun' <=> LocalRun)
    BY <1>9, AnswersKept DEF SendCall
  <2>2. /\ sent' # << >> /\ sent'[Len(sent')] = call
        /\ AdviceOnly /\ call = "expert_analysis" => AdviceOnly'
    BY <1>9, SentGrows DEF AdviceOnly
  <2>3. /\ pc = "prepared" /\ pc' = "calling"
        /\ UNCHANGED <<req, decisions, forceLocal, permitted, call, route, verified>>
    BY <1>9 DEF SendCall
  <2>4. GateInv'
    BY <2>1, <2>2, <2>3 DEF GateInv, Asking, AtCall, Working
  <2>5. RouteInv'
    BY <2>1, <2>2, <2>3 DEF RouteInv, Asking, AtCall, Working
  <2>6. QED
    BY <2>4, <2>5
<1>10. ASSUME PostFails PROVE GateInv' /\ RouteInv'
  <2>1. /\ Permit' = Permit /\ (Needed' <=> Needed) /\ (LocalRun' <=> LocalRun)
        /\ AdviceOnly' <=> AdviceOnly
    BY <1>10, AnswersKept, CallsKept DEF PostFails
  <2>2. QED
    BY <1>10, <2>1 DEF PostFails, GateInv, RouteInv, Asking, AtCall, Working
<1>11. ASSUME CallFails PROVE GateInv' /\ RouteInv'
  <2>1. /\ Permit' = Permit /\ (Needed' <=> Needed) /\ (LocalRun' <=> LocalRun)
        /\ AdviceOnly' <=> AdviceOnly
    BY <1>11, AnswersKept, CallsKept DEF CallFails
  <2>2. /\ pc = "calling" /\ call' = call
        /\ \/ pc' \in {"prepared", "escalating"} /\ call = "local_execute" /\ route = "local"
           \/ pc' = "over"
    BY <1>11 DEF CallFails, ProviderFails, FailedAttempt, Finish
  <2>3. GateInv'
    BY <1>11, <2>1, <2>2 DEF CallFails, GateInv, Asking, AtCall, Working
  <2>4. RouteInv'
    BY <1>11, <2>1, <2>2 DEF CallFails, RouteInv, Asking, AtCall, Working
  <2>5. QED
    BY <2>3, <2>4
<1>12. ASSUME CallRaises \/ Cancel PROVE GateInv' /\ RouteInv'
  <2>1. /\ Permit' = Permit /\ (Needed' <=> Needed) /\ (LocalRun' <=> LocalRun)
        /\ AdviceOnly' <=> AdviceOnly
    BY <1>12, AnswersKept, CallsKept DEF CallRaises, Cancel
  <2>2. /\ pc' \in {"raised", "cancelled"} /\ pc # "idle"
        /\ UNCHANGED <<req, decisions, forceLocal, permitted>>
    BY <1>12 DEF CallRaises, Cancel
  <2>3. QED
    BY <2>1, <2>2 DEF GateInv, RouteInv, Asking, AtCall, Working
<1>13. ASSUME NEW u \in Usages, CallReturns(u) PROVE GateInv' /\ RouteInv'
  <2>1. /\ Permit' = Permit /\ (Needed' <=> Needed) /\ (LocalRun' <=> LocalRun)
        /\ AdviceOnly' <=> AdviceOnly
    BY <1>13, AnswersKept, CallsKept DEF CallReturns
  <2>2. /\ pc = "calling" /\ UNCHANGED <<req, decisions, forceLocal, permitted, route, verified>>
        /\ \/ call = "expert_analysis" /\ pc' = "asking" /\ stage' = "implementation" /\ call' = call
           \/ call = "cloud_plan" /\ pc' = "prepared" /\ call' = "local_execute"
           \/ call \in {"cloud_execute", "local_execute"} /\ pc' = "verifying" /\ call' = call
           \/ pc' = "over"
    BY <1>13 DEF CallReturns, Prepare, Finish
  <2>3. call = "expert_analysis" => Needed
    <3>1. decisions = << >> => Permit # "analysis"
      BY DEF Permit
    <3>2. QED
      BY <1>t, <2>2, <3>1 DEF GateInv, AtCall
  <2>4. GateInv'
    BY <2>1, <2>2, <2>3 DEF GateInv, Asking, AtCall, Working
  <2>5. RouteInv'
    BY <2>1, <2>2 DEF RouteInv, Asking, AtCall, Working
  <2>6. QED
    BY <2>4, <2>5
<1>14. ASSUME NEW passed \in BOOLEAN, Verify(passed) PROVE GateInv' /\ RouteInv'
  <2>1. /\ Permit' = Permit /\ (Needed' <=> Needed) /\ (LocalRun' <=> LocalRun)
        /\ AdviceOnly' <=> AdviceOnly
    BY <1>14, AnswersKept, CallsKept DEF Verify
  <2>2. /\ pc = "verifying" /\ UNCHANGED <<req, stage, decisions, forceLocal, permitted, route>>
        /\ \/ pc' = "prepared" /\ call' = "cloud_review" /\ route = "hybrid" /\ verified'
           \/ pc' \in {"over", "escalating"}
           \/ pc' = "prepared" /\ call' = call /\ route = "local"
    BY <1>14 DEF Verify, Prepare, FailedAttempt, Finish
  <2>3. pc' = "prepared" /\ route = "local" => call' = "local_execute"
    BY <2>2 DEF RouteInv
  <2>4. GateInv'
    BY <2>1, <2>2, <2>3 DEF GateInv, Asking, AtCall, Working
  <2>5. RouteInv'
    BY <2>1, <2>2, <2>3 DEF RouteInv, Asking, AtCall, Working
  <2>6. QED
    BY <2>4, <2>5
<1>15. ASSUME Escalate PROVE GateInv' /\ RouteInv'
  <2>1. /\ Permit' = Permit /\ (Needed' <=> Needed) /\ (LocalRun' <=> LocalRun)
        /\ AdviceOnly' <=> AdviceOnly
    BY <1>15, AnswersKept, CallsKept DEF Escalate
  <2>2. /\ pc = "escalating"
        /\ UNCHANGED <<req, decisions, forceLocal, permitted, route>>
        /\ \/ pc' = "asking" /\ stage' = "escalation" /\ IsMajor(level)
           \/ pc' = "prepared" /\ call' = "cloud_escalation" /\ permitted
           \/ pc' = "over"
    BY <1>15 DEF Escalate, EscalationNeedsHuman, HandOver, Prepare, Finish
  <2>3. IsMajor(level) => Needed
    BY <1>t, <2>2, ConfigIsValid, MajorIsNeeded DEF Needed
  <2>4. Permit = "local" => LocalRun
    BY <1>t, <2>2 DEF GateInv, LocalRun
  <2>5. GateInv'
    BY <2>1, <2>2, <2>3, <2>4 DEF GateInv, RouteInv, Asking, AtCall, Working
  <2>6. RouteInv'
    BY <2>1, <2>2 DEF RouteInv, Asking, AtCall, Working
  <2>7. QED
    BY <2>5, <2>6
<1>16. ASSUME NEW p, NEW s, Generate(p, s) PROVE GateInv' /\ RouteInv'
  <2>1. /\ Permit' = Permit /\ (Needed' <=> Needed) /\ (LocalRun' <=> LocalRun)
        /\ AdviceOnly' <=> AdviceOnly
    BY <1>16, AnswersKept, CallsKept DEF Generate
  <2>2. QED
    BY <1>16, <2>1 DEF Generate, GateInv, RouteInv, Asking, AtCall, Working
<1>17. QED
  BY <1>1, <1>2, <1>3, <1>4, <1>5, <1>6, <1>7, <1>8, <1>9, <1>10, <1>11, <1>12, <1>13, <1>14, <1>15,
     <1>16 DEF Next, Answer, Step

-----------------------------------------------------------------------------
(***************************************************************************)
(* What is recorded.                                                       *)
(***************************************************************************)
\* Nothing is recorded, and nothing has been refused, before the task ends.
LEMMA NothingRecorded ==
    ASSUME TypeOK, OutcomeIsEarned, pc # "over" PROVE history = << >> /\ Permit # "refused"
<1>1. history = << >>
  BY DEF TypeOK, OutcomeIsEarned
<1>2. Permit = "refused" => Len(history) = 1
  BY DEF OutcomeIsEarned
<1>3. QED
  BY <1>1, <1>2

\* A task that goes on.
LEMMA GoesOn ==
    ASSUME TypeOK, OutcomeIsEarned, pc # "over", pc' # "over", history' = history,
           Permit' # "refused"
    PROVE  OutcomeIsEarned'
<1>1. history' = << >> /\ << >> # <<"completed">> /\ Len(<< >>) = 0
  BY NothingRecorded
<1>2. QED
  BY <1>1 DEF OutcomeIsEarned

\* A task that ends.
LEMMA Ends ==
    ASSUME TypeOK, OutcomeIsEarned, pc # "over", NEW status, Finish(status),
           status = "completed" => /\ verified' \/ sent'[Len(sent')] = "cloud_escalation"
                                   /\ Permit' # "refused",
           Permit' = "refused" => status \in {"stopped", "failed"}
    PROVE  OutcomeIsEarned'
<1>1. pc' = "over" /\ history' = <<status>>
  BY NothingRecorded DEF Finish
<1>2. Len(history') = 1 /\ history'[1] = status
  BY <1>1
<1>3. history' = <<"completed">> => status = "completed"
  BY <1>2
<1>4. Permit' = "refused" => history' \in {<<"stopped">>, <<"failed">>}
  BY <1>1
<1>5. QED
  BY <1>1, <1>2, <1>3, <1>4 DEF OutcomeIsEarned

\* Every action leaves the record to a task that has earned it.
LEMMA NextOutcome ==
    ASSUME TypeOK, GateInv, RouteInv, OutcomeIsEarned, Next PROVE OutcomeIsEarned'
<1> USE DEF inputs, governance, traffic
<1>t. /\ pc = "asking" => stage \in Stages
      /\ decisions \in Seq(Decision)
  BY DEF TypeOK, Decision
<1>n. pc # "over" => Permit # "refused"
  BY NothingRecorded
<1>1. ASSUME NEW t \in RuleTexts, AddRule(t) PROVE OutcomeIsEarned'
  BY <1>1, <1>n, GoesOn, AnswersKept DEF AddRule
<1>2. ASSUME NEW r \in Requests, Run(r) PROVE OutcomeIsEarned'
  <2>1. Permit' # "refused"
    BY <1>2 DEF Run, GateInv, Permit
  <2>2. pc = "idle" /\ pc' # "over" /\ history' = history
    BY <1>2 DEF Run
  <2>3. QED
    BY <2>1, <2>2, GoesOn
<1>3. ASSUME NEW d \in PossibleAnswers, pc = "asking", AnswerAnalysis(d) PROVE OutcomeIsEarned'
  <2>1. d \in Decision /\ d.stage = "analysis"
    BY <1>3, <1>t, AnswersAreDecisions DEF AnswerAnalysis
  <2>2. Permit' = PermitOf(d)
    BY <1>3, <1>t, <2>1, PermitAfter DEF AnswerAnalysis
  <2>3. \/ Finish("stopped")
        \/ pc' # "over" /\ history' = history /\ PermitOf(d) # "refused"
    BY <1>3, <2>1 DEF AnswerAnalysis, ConsultExpert, Prepare, PermitOf
  <2>4. QED
    BY <1>3, <2>2, <2>3, Ends, GoesOn
<1>4. ASSUME NEW d \in PossibleAnswers, pc = "asking", AnswerImplementation(d)
      PROVE  OutcomeIsEarned'
  <2>1. d \in Decision /\ d.stage = "implementation"
    BY <1>4, <1>t, AnswersAreDecisions DEF AnswerImplementation
  <2>2. Permit' = PermitOf(d)
    BY <1>4, <1>t, <2>1, PermitAfter DEF AnswerImplementation
  <2>3. \/ Finish("stopped")
        \/ pc' # "over" /\ history' = history /\ PermitOf(d) # "refused"
    BY <1>4, <2>1 DEF AnswerImplementation, PermitOf
  <2>4. QED
    BY <1>4, <2>2, <2>3, Ends, GoesOn
<1>5. ASSUME NEW d \in PossibleAnswers, pc = "asking", AnswerEscalation(d) PROVE OutcomeIsEarned'
  <2>1. d \in Decision /\ d.stage = "escalation"
    BY <1>5, <1>t, AnswersAreDecisions DEF AnswerEscalation
  <2>2. Permit' = PermitOf(d)
    BY <1>5, <1>t, <2>1, PermitAfter DEF AnswerEscalation
  <2>3. \/ Finish("failed")
        \/ pc' # "over" /\ history' = history /\ PermitOf(d) # "refused"
    BY <1>5, <2>1 DEF AnswerEscalation, HandOver, Prepare, PermitOf
  <2>4. QED
    BY <1>5, <2>2, <2>3, Ends, GoesOn
<1>6. ASSUME Route PROVE OutcomeIsEarned'
  BY <1>6, <1>n, GoesOn, AnswersKept DEF Route, Prepare
<1>7. ASSUME RefusedByProfile \/ NoProvider \/ CallFails PROVE OutcomeIsEarned'
  <2>1. pc \in {"prepared", "calling"} /\ Permit' = Permit
    BY <1>7, AnswersKept DEF RefusedByProfile, NoProvider, CallFails
  <2>2. Finish("error") \/ (pc' # "over" /\ history' = history)
    BY <1>7 DEF RefusedByProfile, NoProvider, CallFails, ProviderFails, FailedAttempt
  <2>3. QED
    BY <1>n, <2>1, <2>2, Ends, GoesOn
<1>8. ASSUME RefusedByBudget PROVE OutcomeIsEarned'
  <2>1. pc = "prepared" /\ Permit' = Permit /\ verified' = verified
    BY <1>8, AnswersKept DEF RefusedByBudget
  <2>2. CASE call = "cloud_review"
    <3>1. Finish("completed")
      BY <1>8, <2>2 DEF RefusedByBudget, BudgetStops
    <3>2. verified'
      BY <2>1, <2>2 DEF RouteInv, AtCall
    <3>3. QED
      BY <1>n, <2>1, <3>1, <3>2, Ends
  <2>3. CASE call # "cloud_review"
    <3>1. Finish("failed") \/ Finish("blocked")
      BY <1>8, <2>3 DEF RefusedByBudget, BudgetStops
    <3>2. QED
      BY <1>n, <2>1, <3>1, Ends
  <2>4. QED
    BY <2>2, <2>3
<1>9. ASSUME SendCall PROVE OutcomeIsEarned'
  BY <1>9, <1>n, GoesOn, AnswersKept DEF SendCall
<1>10. ASSUME PostFails \/ CallRaises \/ Cancel PROVE OutcomeIsEarned'
  BY <1>10, <1>n, GoesOn, AnswersKept DEF PostFails, CallRaises, Cancel
<1>11. ASSUME NEW u \in Usages, CallReturns(u) PROVE OutcomeIsEarned'
  <2>1. pc = "calling" /\ Permit' = Permit /\ verified' = verified /\ sent' = sent
    BY <1>11, AnswersKept DEF CallReturns
  <2>2. \/ call \in {"cloud_review", "cloud_escalation"} /\ Finish("completed")
        \/ pc' # "over" /\ history' = history
    BY <1>11 DEF CallReturns, Prepare
  <2>3. call \in {"cloud_review", "cloud_escalation"} =>
            verified' \/ sent'[Len(sent')] = "cloud_escalation"
    BY <2>1 DEF RouteInv, AtCall
  <2>4. QED
    BY <1>n, <2>1, <2>2, <2>3, Ends, GoesOn
<1>12. ASSUME NEW passed \in BOOLEAN, Verify(passed) PROVE OutcomeIsEarned'
  <2>1. pc = "verifying" /\ Permit' = Permit
    BY <1>12, AnswersKept DEF Verify
  <2>2. \/ verified' /\ Finish("completed")
        \/ pc' # "over" /\ history' = history
    BY <1>12 DEF Verify, Prepare, FailedAttempt
  <2>3. QED
    BY <1>n, <2>1, <2>2, Ends, GoesOn
<1>13. ASSUME Escalate PROVE OutcomeIsEarned'
  <2>1. pc = "escalating" /\ Permit' = Permit
    BY <1>13, AnswersKept DEF Escalate
  <2>2. Finish("failed") \/ (pc' # "over" /\ history' = history)
    BY <1>13 DEF Escalate, HandOver, Prepare
  <2>3. QED
    BY <1>n, <2>1, <2>2, Ends, GoesOn
<1>14. ASSUME NEW p, NEW s, Generate(p, s) PROVE OutcomeIsEarned'
  <2>1. Permit' = Permit
    BY <1>14, AnswersKept DEF Generate
  <2>2. QED
    BY <1>14, <2>1 DEF Generate, OutcomeIsEarned
<1>15. QED
  BY <1>1, <1>2, <1>3, <1>4, <1>5, <1>6, <1>7, <1>8, <1>9, <1>10, <1>11, <1>12, <1>13, <1>14
     DEF Next, Answer, Step

-----------------------------------------------------------------------------
(***************************************************************************)
(* What the models are asked for, and who allowed it.                      *)
(***************************************************************************)
\* The answers to requests of one stage.
AnswersTo(s, d) ==
    /\ pc = "asking" /\ stage = s
    /\ d \in Decision /\ d.stage = s /\ decisions' = Append(decisions, d)
    /\ UNCHANGED <<cfg, req, level, sent>>

\* The steps in which something is decided or a model is asked.
LEMMA StepsOfATask ==
    ASSUME TypeOK, Next
    PROVE  \/ UNCHANGED <<cfg, req, level, decisions, forceLocal, sent>>
           \/ \E r \in Requests : Run(r)
           \/ \E d \in PossibleAnswers : AnswersTo("analysis", d)
           \/ \E d \in PossibleAnswers : AnswersTo("implementation", d) /\ forceLocal' = forceLocal
           \/ \E d \in PossibleAnswers : AnswersTo("escalation", d) /\ forceLocal' = forceLocal
           \/ SendCall
<1> USE DEF inputs, governance, traffic
<1>t. pc = "asking" => stage \in Stages
  BY DEF TypeOK
<1>1. ASSUME NEW d \in PossibleAnswers, pc = "asking", AnswerAnalysis(d)
      PROVE  AnswersTo("analysis", d)
  BY <1>1, <1>t, AnswersAreDecisions DEF AnswerAnalysis, AnswersTo
<1>2. ASSUME NEW d \in PossibleAnswers, pc = "asking", AnswerImplementation(d)
      PROVE  AnswersTo("implementation", d) /\ forceLocal' = forceLocal
  BY <1>2, <1>t, AnswersAreDecisions DEF AnswerImplementation, AnswersTo
<1>3. ASSUME NEW d \in PossibleAnswers, pc = "asking", AnswerEscalation(d)
      PROVE  AnswersTo("escalation", d) /\ forceLocal' = forceLocal
  BY <1>3, <1>t, AnswersAreDecisions DEF AnswerEscalation, AnswersTo
<1>4. ASSUME \/ \E t \in RuleTexts : AddRule(t)
             \/ Route \/ RefusedByProfile \/ RefusedByBudget \/ NoProvider \/ PostFails
             \/ CallFails \/ CallRaises \/ Escalate \/ Cancel
             \/ \E u \in Usages : CallReturns(u)
             \/ \E passed \in BOOLEAN : Verify(passed)
             \/ \E p \in {"cloud_execute", "local_execute"}, s \in {r.prompt.secrets : r \in Requests} :
                   Generate(p, s)
      PROVE  UNCHANGED <<cfg, req, level, decisions, forceLocal, sent>>
  BY <1>4 DEF AddRule, Route, RefusedByProfile, RefusedByBudget, NoProvider, PostFails, CallFails,
              CallRaises, Escalate, Cancel, CallReturns, Verify, Generate
<1>5. QED
  BY <1>1, <1>2, <1>3, <1>4 DEF Next, Answer, Step

\* The answer behind a permit for an expert.
LEMMA PermitIsAnswered ==
    ASSUME decisions \in Seq(Decision)
    PROVE  /\ Permit = "analysis" => \E j \in DOMAIN decisions :
                 decisions[j].action = "allow_expert_analysis" /\ decisions[j].stage = "analysis"
           /\ Permit = "diagnosis" => \E j \in DOMAIN decisions :
                 decisions[j].action = "allow_expert_analysis" /\ decisions[j].stage = "escalation"
<1>1. CASE decisions = << >>
  BY <1>1 DEF Permit
<1>2. CASE decisions # << >>
  <2>1. Len(decisions) \in DOMAIN decisions /\ Permit = PermitOf(decisions[Len(decisions)])
    BY <1>2 DEF Permit
  <2> DEFINE last == decisions[Len(decisions)]
  <2>2. /\ PermitOf(last) = "analysis" => last.action = "allow_expert_analysis" /\ last.stage = "analysis"
        /\ PermitOf(last) = "diagnosis" => last.action = "allow_expert_analysis" /\ last.stage = "escalation"
    BY DEF PermitOf
  <2>3. QED
    BY <2>1, <2>2
<1>3. QED
  BY <1>1, <1>2

\* An answer that is added leaves the others where they are.
LEMMA AnswersStay ==
    ASSUME decisions \in Seq(Decision), NEW d \in Decision, decisions' = Append(decisions, d)
    PROVE  /\ DOMAIN decisions' = DOMAIN decisions \cup {Len(decisions) + 1}
           /\ \A j \in DOMAIN decisions : j \in DOMAIN decisions' /\ decisions'[j] = decisions[j]
           /\ decisions'[Len(decisions) + 1] = d
OBVIOUS

\* Every expert call of a task that is to stay local was allowed.
LEMMA NextExperts ==
    ASSUME TypeOK, GateInv, RouteInv, ExpertsAreAllowed, Next PROVE ExpertsAreAllowed'
<1> USE DEF inputs, governance, traffic
<1>t. decisions \in Seq(Decision) /\ call \in Purposes \cup {None}
  BY DEF TypeOK, Decision
<1>1. CASE UNCHANGED <<cfg, req, level, decisions, forceLocal, sent>>
  BY <1>1, AnswersKept DEF ExpertsAreAllowed
<1>2. CASE \E r \in Requests : Run(r)
  <2>1. sent' = << >>
    BY <1>2 DEF Run, GateInv
  <2>2. QED
    BY <2>1 DEF ExpertsAreAllowed
<1>3. CASE \E d \in PossibleAnswers : AnswersTo("analysis", d)
  <2>1. sent' = << >>
    BY <1>3 DEF AnswersTo, GateInv, Asking
  <2>2. QED
    BY <2>1 DEF ExpertsAreAllowed
<1>4. ASSUME NEW s, NEW d, AnswersTo(s, d), forceLocal' = forceLocal PROVE ExpertsAreAllowed'
  <2>2. (LocalRun' <=> LocalRun) /\ sent' = sent
    BY <1>4 DEF AnswersTo, LocalRun, Policy
  <2>3. \A j \in DOMAIN decisions : j \in DOMAIN decisions' /\ decisions'[j] = decisions[j]
    BY <1>t, <1>4, AnswersStay DEF AnswersTo
  <2>4. SUFFICES ASSUME LocalRun', NEW i \in DOMAIN sent', IsExpert(sent'[i])
                 PROVE  \E j \in DOMAIN decisions' :
                           /\ decisions'[j].action = "allow_expert_analysis"
                           /\ <<decisions'[j].stage, sent'[i]>> \in
                                {<<"analysis", "expert_analysis">>, <<"escalation", "cloud_escalation">>}
    BY DEF ExpertsAreAllowed, IsExpert
  <2>5. PICK j \in DOMAIN decisions :
             /\ decisions[j].action = "allow_expert_analysis"
             /\ <<decisions[j].stage, sent[i]>> \in
                  {<<"analysis", "expert_analysis">>, <<"escalation", "cloud_escalation">>}
    BY <2>2, <2>4 DEF ExpertsAreAllowed
  <2>6. QED
    BY <2>2, <2>3, <2>5
<1>5. CASE SendCall
  <2>1. (LocalRun' <=> LocalRun) /\ decisions' = decisions /\ pc = "prepared"
    BY <1>5, AnswersKept DEF SendCall
  <2>2. /\ DOMAIN sent' = DOMAIN sent \cup {Len(sent) + 1}
        /\ \A i \in DOMAIN sent : sent'[i] = sent[i]
        /\ sent'[Len(sent) + 1] = call
    BY <1>5, <1>t, SentGrows
  <2>3. SUFFICES ASSUME LocalRun', NEW i \in DOMAIN sent', IsExpert(sent'[i])
                 PROVE  \E j \in DOMAIN decisions' :
                           /\ decisions'[j].action = "allow_expert_analysis"
                           /\ <<decisions'[j].stage, sent'[i]>> \in
                                {<<"analysis", "expert_analysis">>, <<"escalation", "cloud_escalation">>}
    BY DEF ExpertsAreAllowed, IsExpert
  <2>4. CASE i \in DOMAIN sent
    BY <2>1, <2>2, <2>3, <2>4 DEF ExpertsAreAllowed
  <2>5. CASE i = Len(sent) + 1
    <3>1. sent'[i] = call /\ call \in ExpertPurposes
      BY <2>2, <2>3, <2>5 DEF IsExpert
    <3>2. \/ call = "expert_analysis" /\ Permit = "analysis"
          \/ call = "cloud_escalation" /\ Permit = "diagnosis"
      BY <2>1, <2>3, <3>1 DEF ExpertPurposes, GateInv, RouteInv, AtCall, Working
    <3>3. QED
      BY <1>t, <2>1, <3>1, <3>2, PermitIsAnswered
  <2>6. QED
    BY <2>2, <2>4, <2>5
<1>6. QED
  BY <1>1, <1>2, <1>3, <1>4, <1>5, StepsOfATask

-----------------------------------------------------------------------------
(***************************************************************************)
(* The budget.                                                             *)
(***************************************************************************)
\* The larger of one or two amounts is one of them.
LEMMA MaxOfTwo ==
    ASSUME NEW m \in Nat, NEW S \in SUBSET Nat, \A x, y \in S : x = y
    PROVE  Max({m} \cup S) \in {m} \cup S
<1>1. \E x \in {m} \cup S : \A y \in {m} \cup S : x >= y
  <2>1. CASE S = {}
    BY <2>1
  <2>2. CASE S # {}
    <3>1. PICK n \in S : S = {n}
      BY <2>2
    <3>2. CASE m >= n
      BY <3>1, <3>2
    <3>3. CASE n >= m
      BY <3>1, <3>3
    <3>4. QED
      BY <3>1, <3>2, <3>3
  <2>3. QED
    BY <2>1, <2>2
<1>2. QED
  BY <1>1 DEF Max

\* The larger and the smaller of two integers.
LEMMA GreaterOfTwo ==
    ASSUME NEW a \in Int, NEW b \in Int PROVE Max({a, b}) \in {a, b} /\ Max({a, b}) >= a
<1>1. \E x \in {a, b} : \A y \in {a, b} : x >= y
  <2>1. CASE a >= b
    BY <2>1
  <2>2. CASE b >= a
    BY <2>2
  <2>3. QED
    BY <2>1, <2>2
<1>2. QED
  BY <1>1 DEF Max

LEMMA LesserOfTwo == ASSUME NEW a \in Nat, NEW b \in Nat PROVE Min({a, b}) \in {a, b}
<1>1. \E x \in {a, b} : \A y \in {a, b} : x =< y
  <2>1. CASE a =< b
    BY <2>1
  <2>2. CASE b =< a
    BY <2>2
  <2>3. QED
    BY <2>1, <2>2
<1>2. QED
  BY <1>1 DEF Min

\* The same for an explicit ceiling.
LEMMA MaxOfOne ==
    ASSUME NEW S \in SUBSET Nat, S # {}, \A x, y \in S : x = y PROVE Max(S) \in S
<1>1. PICK n \in S : S = {n}
  OBVIOUS
<1>2. \E x \in S : \A y \in S : x >= y
  BY <1>1
<1>3. QED
  BY <1>2 DEF Max

\* What a call costs is an amount.
LEMMA CostIsAmount ==
    ASSUME ConfigInv, NEW in \in Nat, NEW out \in Nat PROVE EstimateCost(cfg, in, out) \in Nat
<1>1. cfg.priceIn \in Nat /\ cfg.priceOut \in Nat
  BY DEF ConfigInv
<1>2. \A m, n \in Nat : m * n \in Nat
  OBVIOUS
<1>3. cfg.priceIn * in \in Nat /\ cfg.priceOut * out \in Nat
  BY <1>1, <1>2
<1>4. QED
  BY <1>3 DEF EstimateCost

\* The waiver thresholds of the rules in force are amounts, and the largest
\* one is unique.
LEMMA WaiverIsUnique ==
    ASSUME TypeOK
    PROVE  /\ UNION {r.waiver : r \in rules} \subseteq Nat
           /\ CostWaiverThreshold(rules) \subseteq UNION {r.waiver : r \in rules}
           /\ \A x, y \in CostWaiverThreshold(rules) : x = y
<1>1. \A r \in rules : r.waiver \subseteq Nat
  <2>1. \A t \in RuleTexts : DeriveRule(t).waiver = t.waiver
    BY DEF DeriveRule
  <2>2. QED
    BY <2>1, RuleAssumption DEF TypeOK
<1> DEFINE waivers == UNION {r.waiver : r \in rules}
<1>2. waivers \subseteq Nat
  BY <1>1
<1>3. CostWaiverThreshold(rules) = {w \in waivers : \A v \in waivers : v <= w}
  BY DEF CostWaiverThreshold
<1> HIDE DEF waivers
<1>4. \A x, y \in CostWaiverThreshold(rules) : x = y
  <2>1. SUFFICES ASSUME NEW x \in CostWaiverThreshold(rules), NEW y \in CostWaiverThreshold(rules)
                 PROVE  x = y
    OBVIOUS
  <2>2. x \in Nat /\ y \in Nat /\ x <= y /\ y <= x
    BY <1>2, <1>3
  <2>3. QED
    BY <2>2
<1>5. CostWaiverThreshold(rules) \subseteq waivers
  BY <1>3
<1>6. QED
  BY <1>2, <1>4, <1>5 DEF waivers

\* The cap of a new budget is a ceiling somebody has set.
LEMMA CapIsCeiling ==
    ASSUME TypeOK, NEW r \in Requests, Run(r)
    PROVE  /\ budget' = NewBudget(budget'.cap) /\ budget'.cap \in Nat
           /\ budget'.cap \in Ceilings'
<1> DEFINE waived == CostWaiverThreshold(rules)
           all == UNION {x.waiver : x \in rules}
           cap == CostCap(cfg, r.ceiling, IF r.ceiling # {} THEN {} ELSE waived)
<1>1. cfg.maxCost \in Nat
  BY ConfigIsValid DEF ConfigInv
<1>2. req' = r /\ budget' = NewBudget(cap) /\ rules' = rules /\ cfg' = cfg
  BY DEF Run
<1>3. Ceilings' = IF r.ceiling # {} THEN r.ceiling ELSE {cfg.maxCost} \cup all
  BY <1>2 DEF Ceilings
<1>4. r.ceiling \subseteq Nat /\ \A m, n \in r.ceiling : m = n
  BY RequestAssumption
<1>5. all \subseteq Nat /\ waived \subseteq all /\ \A x, y \in waived : x = y
  BY WaiverIsUnique
<1> HIDE DEF waived, all
<1>6. cap \in Nat /\ cap \in Ceilings'
  <2>1. CASE r.ceiling # {}
    <3>1. cap = Max(r.ceiling)
      BY <2>1 DEF CostCap
    <3>2. QED
      BY <1>3, <1>4, <2>1, <3>1, MaxOfOne
  <2>2. CASE r.ceiling = {}
    <3>1. cap = Max({cfg.maxCost} \cup waived)
      BY <2>2 DEF CostCap
    <3>2. Max({cfg.maxCost} \cup waived) \in {cfg.maxCost} \cup waived
      BY <1>1, <1>5, MaxOfTwo
    <3>3. QED
      BY <1>1, <1>3, <1>5, <2>2, <3>1, <3>2
  <2>3. QED
    BY <2>1, <2>2
<1> HIDE DEF cap
<1>7. budget'.cap = cap
  BY <1>2 DEF NewBudget
<1>8. QED
  BY <1>2, <1>6, <1>7

\* Before the first task nothing has been spent.
LEMMA InitBudget == ASSUME Init PROVE BudgetInv
<1>1. ConfigInv
  BY InitType, ConfigIsValid
<1>2. ExpertCalls = {}
  BY DEF Init, ExpertCalls
<1>3. IsFiniteSet(ExpertCalls) /\ Cardinality(ExpertCalls) = 0
  BY <1>2, FS_EmptySet
<1>4. budget = [calls |-> 0, tokens |-> 0, cost |-> 0, cap |-> 0, exhausted |-> FALSE]
  BY DEF Init, NewBudget
<1>5. PICK u \in Usages : u.in \in Nat /\ u.out \in Nat
  BY UsageAssumption
<1>6. /\ EstimateCost(cfg, u.in, u.out) \in Nat
      /\ cfg.maxTokens \in Nat /\ cfg.maxCalls \in Nat
  BY <1>1, <1>5, CostIsAmount DEF ConfigInv
<1>7. budget \in [calls : Nat, tokens : Nat, cost : Nat, cap : Nat, exhausted : BOOLEAN]
  BY <1>4
<1>8. QED
  BY <1>3, <1>4, <1>5, <1>6, <1>7 DEF Init, BudgetInv, CallingExpert

\* A step that neither asks an expert nor hears of one.
LEMMA BudgetKept ==
    ASSUME BudgetInv, UNCHANGED <<cfg, req, rules, budget, sent>>,
           CallingExpert' => CallingExpert,
           ~Over' => ~Over /\ (CallingExpert => CallingExpert')
    PROVE  BudgetInv'
<1>1. ExpertCalls' = ExpertCalls /\ Ceilings' = Ceilings
  BY DEF ExpertCalls, Ceilings
<1>2. \A in, out : EstimateCost(cfg, in, out)' = EstimateCost(cfg, in, out)
  BY DEF EstimateCost
<1>3. QED
  BY <1>1, <1>2 DEF BudgetInv

\* What is estimated for a call is an amount of tokens, whatever the cut leaves.
LEMMA EstimateIsAmount ==
    ASSUME TypeOK, req # NoTask, NEW purpose \in Purposes, NEW extra \in Extras,
           NEW t \in EstimatedTokens(purpose, extra)
    PROVE  t \in Nat
<1> DEFINE total == MessageTokens(purpose, extra)
           window == Window(cfg, TierOf(purpose))
<1>1. total \in Nat
  <2>1. req.prompt.tokens \in Nat /\ req.prompt.context.tokens \in Nat /\ extra \in Nat
    BY RequestAssumption, ExtrasAssumption DEF TypeOK
  <2>2. Min({AttachedTokens, req.prompt.context.tokens}) \in Nat
    BY <2>1, LesserOfTwo DEF AttachedTokens
  <2>3. Carried(purpose) \in Nat
    BY <2>1, <2>2 DEF Carried
  <2>4. QED
    BY <2>1, <2>3 DEF MessageTokens
<1>2. window \in Nat
  <2>1. cfg.context[TierOf(purpose)] \in Nat /\ cfg.maxOutput[TierOf(purpose)] \in Nat
    BY ConfigIsValid DEF ConfigInv, TierOf, Tiers
  <2>2. cfg.context[TierOf(purpose)] - cfg.maxOutput[TierOf(purpose)] \in Int
    BY <2>1
  <2>3. window \in Int /\ window >= 1024
    BY <2>2, GreaterOfTwo DEF Window
  <2>4. QED
    BY <2>3
<1>3. t = total \/ t \in (window \div 2 + 1)..window
  BY DEF EstimatedTokens, FitToContext
<1> HIDE DEF total, window
<1>4. QED
  BY <1>1, <1>2, <1>3

\* An expert call that is sent is within the budget.
LEMMA SendBudget ==
    ASSUME TypeOK, BudgetInv, SendCall PROVE BudgetInv'
<1> USE DEF inputs, governance, traffic
<1>1. /\ pc = "prepared" /\ pc' = "calling" /\ call' = call /\ call \in Purposes
      /\ UNCHANGED <<cfg, req, rules, budget>>
  BY DEF SendCall, TypeOK
<1>2. Ceilings' = Ceilings /\ \A in, out : EstimateCost(cfg, in, out)' = EstimateCost(cfg, in, out)
  BY <1>1 DEF Ceilings, EstimateCost
<1>3. /\ Len(sent) \in Nat /\ DOMAIN sent = 1..Len(sent)
      /\ DOMAIN sent' = DOMAIN sent \cup {Len(sent) + 1}
      /\ \A i \in DOMAIN sent : sent'[i] = sent[i]
      /\ sent'[Len(sent) + 1] = call
  BY SentGrows
<1>4. ~Over /\ ~CallingExpert /\ (CallingExpert' <=> call \in ExpertPurposes) /\ ~Over'
  BY <1>1 DEF Over, CallingExpert
<1>5. Cardinality(ExpertCalls) = budget.calls
  BY <1>4 DEF BudgetInv
<1>6. CASE call \notin ExpertPurposes
  <2>1. ExpertCalls' = ExpertCalls
    BY <1>3, <1>6 DEF ExpertCalls, IsExpert
  <2>2. QED
    BY <1>1, <1>2, <1>4, <1>6, <2>1 DEF BudgetInv
<1>7. CASE call \in ExpertPurposes
  <2>1. ExpertCalls' = ExpertCalls \cup {Len(sent) + 1}
    BY <1>3, <1>7 DEF ExpertCalls, IsExpert
  <2>2. Len(sent) + 1 \notin ExpertCalls
    BY <1>3 DEF ExpertCalls
  <2>3. IsFiniteSet(ExpertCalls') /\ Cardinality(ExpertCalls') = Cardinality(ExpertCalls) + 1
    BY <2>1, <2>2, FS_AddElement DEF BudgetInv
  <2>4. /\ budget.calls \in Nat /\ budget.tokens \in Nat /\ budget.cost \in Nat /\ budget.cap \in Nat
    BY DEF BudgetInv
  <2>5. ConfigInv /\ req # NoTask
    BY <1>1, ConfigIsValid DEF TypeOK
  <2>a. PICK extra \in Extras : MayBeAffordable(call, extra)
    BY <1>7, CallIsSent
  <2>6. PICK t \in EstimatedTokens(call, extra) : ~WouldExceed(cfg, budget, t)
    BY <2>a DEF MayBeAffordable
  <2>7. t \in Nat /\ cfg.maxCalls \in Nat /\ cfg.maxTokens \in Nat /\ EstimateCost(cfg, t, 0) \in Nat
    <3>1. t \in Nat
      BY <1>1, <2>5, <2>a, <2>6, EstimateIsAmount
    <3>2. QED
      BY <2>5, <3>1, CostIsAmount DEF ConfigInv
  <2>8. /\ ~(budget.calls + 1 > cfg.maxCalls)
        /\ ~(budget.tokens + t > cfg.maxTokens)
        /\ ~(budget.cost + EstimateCost(cfg, t, 0) > budget.cap)
    BY <2>6 DEF WouldExceed
  <2>9. /\ budget.calls + 1 <= cfg.maxCalls /\ budget.tokens <= cfg.maxTokens
        /\ budget.cost <= budget.cap
    BY <2>4, <2>7, <2>8
  <2>10. Cardinality(ExpertCalls') = budget.calls + 1
    BY <1>5, <2>3
  <2>11. QED
    BY <1>1, <1>2, <1>4, <1>7, <2>3, <2>9, <2>10 DEF BudgetInv
<1>8. QED
  BY <1>6, <1>7

\* What an expert call turns out to cost is charged once.
LEMMA ChargeBudget ==
    ASSUME TypeOK, BudgetInv, NEW u \in Usages, CallReturns(u), call \in ExpertPurposes
    PROVE  BudgetInv'
<1> USE DEF inputs, governance, traffic
<1>1. /\ pc = "calling" /\ budget' = Record(cfg, budget, u.in, u.out)
      /\ UNCHANGED <<cfg, req, rules, sent>> /\ pc' # "calling"
  BY DEF CallReturns, Prepare, Finish
<1>2. Ceilings' = Ceilings /\ ExpertCalls' = ExpertCalls
  BY <1>1 DEF Ceilings, ExpertCalls
<1>3. u.in \in Nat /\ u.out \in Nat
  BY UsageAssumption
<1>4. EstimateCost(cfg, u.in, u.out) \in Nat /\ cfg.maxTokens \in Nat
  BY <1>3, ConfigIsValid, CostIsAmount DEF ConfigInv
<1> DEFINE price == EstimateCost(cfg, u.in, u.out)
<1>5. EstimateCost(cfg, u.in, u.out)' = price
  BY <1>1 DEF EstimateCost
<1>6. budget' = [budget EXCEPT !.calls = @ + 1, !.tokens = @ + u.in + u.out, !.cost = @ + price]
  BY <1>1 DEF Record
<1>7. price \in Nat
  BY <1>4
<1> HIDE DEF price
<1>8. budget \in [calls : Nat, tokens : Nat, cost : Nat, cap : Nat, exhausted : BOOLEAN]
  BY DEF BudgetInv
<1>9. /\ budget' \in [calls : Nat, tokens : Nat, cost : Nat, cap : Nat, exhausted : BOOLEAN]
      /\ budget'.calls = budget.calls + 1 /\ budget'.tokens = budget.tokens + u.in + u.out
      /\ budget'.cost = budget.cost + price /\ budget'.cap = budget.cap
  <2> DEFINE calls == budget.calls + 1
             tokens == budget.tokens + u.in + u.out
             cost == budget.cost + price
  <2>1. budget' = [budget EXCEPT !.calls = calls, !.tokens = tokens, !.cost = cost]
    BY <1>6
  <2>2. calls \in Nat /\ tokens \in Nat /\ cost \in Nat
    BY <1>3, <1>7, <1>8
  <2> HIDE DEF calls, tokens, cost
  <2>3. /\ budget' \in [calls : Nat, tokens : Nat, cost : Nat, cap : Nat, exhausted : BOOLEAN]
        /\ budget'.calls = calls /\ budget'.tokens = tokens /\ budget'.cost = cost
        /\ budget'.cap = budget.cap
    BY <1>8, <2>1, <2>2
  <2>4. QED
    BY <2>3 DEF calls, tokens, cost
<1>10. /\ Cardinality(ExpertCalls) = budget.calls + 1
       /\ budget.cost <= budget.cap /\ budget.tokens <= cfg.maxTokens
  BY <1>1 DEF BudgetInv, CallingExpert
<1>11. budget'.cost <= budget'.cap + price
  BY <1>7, <1>8, <1>9, <1>10
<1>12. budget'.tokens <= cfg'.maxTokens + u.in + u.out
  BY <1>1, <1>3, <1>4, <1>8, <1>9, <1>10
<1>13. ~CallingExpert'
  BY <1>1 DEF CallingExpert
<1>14. (\E v \in Usages : budget.cost <= budget.cap + EstimateCost(cfg, v.in, v.out))'
  BY <1>5, <1>11
<1>15. (\E v \in Usages : budget.tokens <= cfg.maxTokens + v.in + v.out)'
  BY <1>12
<1>16. QED
  BY <1>1, <1>2, <1>9, <1>10, <1>13, <1>14, <1>15 DEF BudgetInv

\* Every action keeps the budget.
LEMMA NextBudget ==
    ASSUME TypeOK, GateInv, BudgetInv, Next PROVE BudgetInv'
<1> USE DEF inputs, governance, traffic
<1>t. /\ pc = "idle" <=> req = NoTask
      /\ ConfigInv
  BY ConfigIsValid DEF TypeOK
<1>1. ASSUME NEW t \in RuleTexts, AddRule(t) PROVE BudgetInv'
  <2>1. /\ UNCHANGED <<cfg, req, pc, call, budget, sent>> /\ req = NoTask
    BY <1>1, <1>t DEF AddRule
  <2>2. ExpertCalls' = ExpertCalls /\ (CallingExpert' <=> CallingExpert) /\ (Over' <=> Over)
    BY <2>1 DEF ExpertCalls, CallingExpert, Over
  <2>3. \A in, out : EstimateCost(cfg, in, out)' = EstimateCost(cfg, in, out)
    BY <2>1 DEF EstimateCost
  <2>4. QED
    BY <2>1, <2>2, <2>3 DEF BudgetInv
<1>2. ASSUME NEW r \in Requests, Run(r) PROVE BudgetInv'
  <2>1. /\ pc = "idle" /\ pc' \in {"asking", "routing"} /\ UNCHANGED <<cfg, sent>>
    BY <1>2 DEF Run
  <2>2. ExpertCalls' = ExpertCalls /\ ~CallingExpert /\ ~Over /\ ~CallingExpert'
    BY <2>1 DEF ExpertCalls, CallingExpert, Over
  <2> DEFINE cap == budget'.cap
  <2>3. cap \in Nat /\ cap \in Ceilings' /\ budget' = NewBudget(cap)
    BY <1>2, CapIsCeiling
  <2>4. PICK u \in Usages : u.in \in Nat /\ u.out \in Nat
    BY UsageAssumption
  <2>5. /\ EstimateCost(cfg, u.in, u.out) \in Nat /\ EstimateCost(cfg, u.in, u.out)' = EstimateCost(cfg, u.in, u.out)
        /\ cfg.maxTokens \in Nat /\ cfg.maxCalls \in Nat
    BY <1>t, <2>1, <2>4, CostIsAmount DEF ConfigInv, EstimateCost
  <2> HIDE DEF cap
  <2>6. /\ budget' \in [calls : Nat, tokens : Nat, cost : Nat, cap : Nat, exhausted : BOOLEAN]
        /\ budget'.calls = 0 /\ budget'.cost = 0 /\ budget'.tokens = 0 /\ budget'.cap = cap
    BY <2>3 DEF NewBudget
  <2>7. Cardinality(ExpertCalls) = 0
    <3>1. sent = << >>
      BY <2>1 DEF GateInv
    <3>2. ExpertCalls = {}
      BY <3>1 DEF ExpertCalls
    <3>3. QED
      BY <3>2, FS_EmptySet
  <2>8. QED
    BY <2>1, <2>2, <2>3, <2>4, <2>5, <2>6, <2>7 DEF BudgetInv
<1>3. ASSUME RefusedByBudget PROVE BudgetInv'
  <2>1. /\ UNCHANGED <<cfg, req, rules, sent>> /\ pc' = "over"
        /\ budget' = [budget EXCEPT !.exhausted = TRUE]
    BY <1>3 DEF RefusedByBudget, BudgetStops, Finish
  <2>2. ExpertCalls' = ExpertCalls /\ Ceilings' = Ceilings /\ ~CallingExpert' /\ Over'
    BY <2>1 DEF ExpertCalls, Ceilings, CallingExpert, Over
  <2>3. \A in, out : EstimateCost(cfg, in, out)' = EstimateCost(cfg, in, out)
    BY <2>1 DEF EstimateCost
  <2>4. budget \in [calls : Nat, tokens : Nat, cost : Nat, cap : Nat, exhausted : BOOLEAN]
    BY DEF BudgetInv
  <2>5. /\ budget' \in [calls : Nat, tokens : Nat, cost : Nat, cap : Nat, exhausted : BOOLEAN]
        /\ budget'.tokens = budget.tokens /\ budget'.cost = budget.cost /\ budget'.cap = budget.cap
    BY <2>1, <2>4
  <2>6. QED
    BY <2>1, <2>2, <2>3, <2>5 DEF BudgetInv
<1>4. ASSUME SendCall PROVE BudgetInv'
  BY <1>4, SendBudget
<1>5. ASSUME NEW u \in Usages, CallReturns(u) PROVE BudgetInv'
  <2>1. CASE call \in ExpertPurposes
    BY <1>5, <2>1, ChargeBudget
  <2>2. CASE call \notin ExpertPurposes
    <3>1. /\ pc = "calling" /\ pc' # "calling" /\ UNCHANGED <<cfg, req, rules, budget, sent>>
      BY <1>5, <2>2 DEF CallReturns, Prepare, Finish
    <3>2. QED
      BY <2>2, <3>1, BudgetKept DEF CallingExpert, Over
  <2>3. QED
    BY <2>1, <2>2
<1>6. ASSUME NEW d, AnswerAnalysis(d) \/ AnswerImplementation(d) \/ AnswerEscalation(d)
      PROVE  BudgetInv'
  <2>1. pc = "asking" /\ pc' # "calling" /\ UNCHANGED <<cfg, req, rules, budget, sent>>
    BY <1>6 DEF AnswerAnalysis, AnswerImplementation, AnswerEscalation, ConsultExpert, HandOver,
                Prepare, Finish
  <2>2. QED
    BY <2>1, BudgetKept DEF CallingExpert, Over
<1>7. ASSUME \/ Route \/ Escalate \/ RefusedByProfile \/ NoProvider
             \/ \E passed \in BOOLEAN : Verify(passed)
      PROVE  BudgetInv'
  <2>1. /\ pc \in {"routing", "escalating", "prepared", "verifying"} /\ pc' # "calling"
        /\ UNCHANGED <<cfg, req, rules, budget, sent>>
    BY <1>7 DEF Route, Escalate, RefusedByProfile, NoProvider, Verify, ProviderFails, FailedAttempt,
                HandOver, Prepare, Finish
  <2>2. QED
    BY <2>1, BudgetKept DEF CallingExpert, Over
<1>8. ASSUME CallFails PROVE BudgetInv'
  <2>1. /\ pc = "calling" /\ call' = call /\ UNCHANGED <<cfg, req, rules, budget, sent>>
        /\ pc' = "over" \/ (pc' \in {"prepared", "escalating"} /\ call = "local_execute")
    BY <1>8 DEF CallFails, ProviderFails, FailedAttempt, Finish
  <2>2. QED
    BY <2>1, BudgetKept DEF CallingExpert, Over, ExpertPurposes
<1>9. ASSUME PostFails \/ CallRaises \/ Cancel \/ \E p, s : Generate(p, s) PROVE BudgetInv'
  <2>1. /\ UNCHANGED <<cfg, req, rules, budget, sent, call>>
        /\ pc' = pc \/ pc' \in {"raised", "cancelled"}
    BY <1>9 DEF PostFails, CallRaises, Cancel, Generate
  <2>2. QED
    BY <2>1, BudgetKept DEF CallingExpert, Over
<1>10. QED
  BY <1>1, <1>2, <1>3, <1>4, <1>5, <1>6, <1>7, <1>8, <1>9 DEF Next, Answer, Step

-----------------------------------------------------------------------------
(***************************************************************************)
(* The theorems.                                                           *)
(***************************************************************************)
\* The parts of the invariant hold at first.
LEMMA InitInv == ASSUME Init PROVE Inv
<1>1. TypeOK /\ GateInv /\ RouteInv /\ BudgetInv
  BY InitType, InitGate, InitBudget
<1>2. ExpertsAreAllowed
  BY DEF Init, ExpertsAreAllowed
<1>3. OutcomeIsEarned
  <2>1. history = << >> /\ Permit = "none" /\ pc # "over" /\ << >> # <<"completed">>
    BY DEF Init, Permit
  <2>2. QED
    BY <2>1 DEF OutcomeIsEarned
<1>4. QED
  BY <1>1, <1>2, <1>3 DEF Inv

\* Every action keeps every part of the invariant.
LEMMA NextInv == ASSUME Inv, [Next]_vars PROVE Inv'
<1>1. CASE Next
  BY <1>1, NextType, NextGate, NextOutcome, NextExperts, NextBudget DEF Inv
<1>2. CASE UNCHANGED vars
  <2> USE <1>2 DEF vars, inputs, governance, traffic
  <2>1. Permit' = Permit /\ (Needed' <=> Needed) /\ (LocalRun' <=> LocalRun)
    BY AnswersKept
  <2>2. AdviceOnly' <=> AdviceOnly
    BY CallsKept
  <2>3. TypeOK'
    BY DEF Inv, TypeOK
  <2>4. GateInv' /\ RouteInv'
    BY <2>1, <2>2 DEF Inv, GateInv, RouteInv, Asking, AtCall, Working
  <2>5. BudgetInv'
    BY BudgetKept DEF Inv, CallingExpert, Over
  <2>6. ExpertsAreAllowed'
    BY <2>1 DEF Inv, ExpertsAreAllowed
  <2>7. OutcomeIsEarned'
    BY <2>1 DEF Inv, OutcomeIsEarned
  <2>8. QED
    BY <2>3, <2>4, <2>5, <2>6, <2>7 DEF Inv
<1>3. QED
  BY <1>1, <1>2

\* The inductive invariant holds in every behaviour.
LEMMA Invariance == Spec => []Inv
BY InitInv, NextInv, PTL DEF Spec

\* The task, its answers, its budget and its traffic keep their types.
THEOREM TypeCorrect == Spec => []TypeOK
<1>1. Inv => TypeOK
  BY DEF Inv
<1>2. QED
  BY <1>1, Invariance, PTL

\* A task is recorded once, as completed only when it earned it, and never
\* after a refusal (_finish, _escalate_after_failure).
THEOREM OutcomesAreEarned == Spec => []OutcomeIsEarned
<1>1. Inv => OutcomeIsEarned
  BY DEF Inv
<1>2. QED
  BY <1>1, Invariance, PTL

\* No task sends more expert calls than it may, and what it spends is over a
\* ceiling by no more than one call (BudgetTracker, _call_tier).
THEOREM SpendingIsBounded == Spec => []SpendIsBounded
<1>1. ASSUME Inv PROVE SpendIsBounded
  <2>1. ASSUME req # NoTask
        PROVE  \E c \in Ceilings, u \in Usages : budget.cost <= c + EstimateCost(cfg, u.in, u.out)
    <3>1. budget.cap \in Ceilings
      BY <1>1, <2>1 DEF Inv, BudgetInv
    <3>2. PICK u \in Usages : budget.cost <= budget.cap + EstimateCost(cfg, u.in, u.out)
      BY <1>1 DEF Inv, BudgetInv
    <3>3. QED
      BY <3>1, <3>2
  <2>2. /\ Cardinality({i \in DOMAIN sent : IsExpert(sent[i])}) <= cfg.maxCalls
        /\ \E u \in Usages : budget.tokens <= cfg.maxTokens + u.in + u.out
    BY <1>1 DEF Inv, BudgetInv, ExpertCalls
  <2>3. QED
    BY <2>1, <2>2 DEF SpendIsBounded
<1>2. QED
  BY <1>1, Invariance, PTL

-----------------------------------------------------------------------------
(***************************************************************************)
(* What leaves the machine.                                                *)
(***************************************************************************)
\* With Ollama on the machine, a call that leaves it is taken for one that does:
\* the registry has Ollama, and gives it to the local model.
LEMMA LeavingIsOutbound ==
    ASSUME OllamaIsHere, TypeOK, NEW purpose, LeavesTheMachine(cfg, TierOf(purpose))
    PROVE  Outbound(purpose)
<1>1. CASE purpose \in ExpertPurposes
  BY <1>1 DEF Outbound, TierOf
<1>2. CASE purpose \notin ExpertPurposes
  <2>1. BuildProvider(cfg, "ollama") = {"here"}
    BY DEF OllamaIsHere, BuildProvider, Given
  <2>2. "ollama" \in BuildRegistry(cfg)
    BY <2>1 DEF BuildRegistry, OllamaIsHere, Tiers
  <2>3. ProviderFor(cfg, "local") = {"ollama"}
    BY <2>2 DEF ProviderFor, OllamaIsHere
  <2>4. cfg.cloudModel["local"]
    BY <1>2, <2>1, <2>3 DEF LeavesTheMachine, TierOf
  <2>5. QED
    BY <2>4 DEF Outbound
<1>3. QED
  BY <1>1, <1>2

\* What has left the machine was allowed to, and was redacted.
EgressInv ==
    OllamaIsHere =>
        /\ ~cfg.cloudAllowed => egress = {}
        /\ cfg.redact => \A e \in egress : e.cut \/ e.secrets = {}

\* One call.
LEMMA EgressOfCall ==
    ASSUME TypeOK, EgressInv, NEW purpose, NEW cut \in BOOLEAN, NEW secrets,
           Egress(purpose, cut, secrets), Outbound(purpose) => cfg.cloudAllowed, UNCHANGED cfg
    PROVE  EgressInv'
<1>1. OllamaIsHere' <=> OllamaIsHere
  BY DEF OllamaIsHere
<1>2. CASE ~LeavesTheMachine(cfg, TierOf(purpose))
  <2>1. egress' = egress
    BY <1>2 DEF Egress
  <2>2. QED
    BY <1>1, <2>1 DEF EgressInv
<1>3. CASE ~OllamaIsHere
  BY <1>1, <1>3 DEF EgressInv
<1>4. CASE OllamaIsHere /\ LeavesTheMachine(cfg, TierOf(purpose))
  <2>1. Outbound(purpose) /\ cfg.cloudAllowed
    BY <1>4, LeavingIsOutbound
  <2>2. PICK left \in Redact(cfg, secrets, cut) :
            egress' = egress \cup {[purpose |-> purpose, cut |-> cut, secrets |-> left]}
    BY <1>4, <2>1 DEF Egress
  <2>3. cfg.redact => cut \/ left = {}
    BY <2>2 DEF Redact
  <2>4. QED
    BY <1>1, <1>4, <2>1, <2>2, <2>3 DEF EgressInv
<1>5. QED
  BY <1>2, <1>3, <1>4

\* Only calls of a task and of generate send anything.
LEMMA EgressStep == ASSUME TypeOK, EgressInv, [Next]_vars PROVE EgressInv'
<1> USE DEF inputs, governance, traffic
<1>1. CASE SendCall
  <2>1. PICK extra \in Extras : Egress(call, IsCut(call, extra) \/ IsSliced(call), RawSecrets(call))
    BY <1>1, CallIsSent
  <2>2. (IsCut(call, extra) \/ IsSliced(call)) \in BOOLEAN
    BY DEF IsCut, IsSliced
  <2>3. (Outbound(call) => cfg.cloudAllowed) /\ UNCHANGED cfg
    BY <1>1 DEF SendCall
  <2>4. QED
    BY <2>1, <2>2, <2>3, EgressOfCall
<1>2. ASSUME NEW p, NEW s, Generate(p, s) PROVE EgressInv'
  <2>1. FALSE \in BOOLEAN
    OBVIOUS
  <2>2. Egress(p, FALSE, s) /\ (Outbound(p) => cfg.cloudAllowed) /\ UNCHANGED cfg
    BY <1>2 DEF Generate
  <2>3. QED
    BY <2>1, <2>2, EgressOfCall
<1>3. ASSUME UNCHANGED <<cfg, egress>> PROVE EgressInv'
  BY <1>3 DEF EgressInv, OllamaIsHere
<1>4. ASSUME \/ \E t \in RuleTexts : AddRule(t)
             \/ \E r \in Requests : Run(r)
             \/ \E d \in PossibleAnswers : AnswerAnalysis(d) \/ AnswerImplementation(d) \/ AnswerEscalation(d)
             \/ Route \/ RefusedByProfile \/ RefusedByBudget \/ NoProvider \/ PostFails
             \/ CallFails \/ CallRaises \/ Escalate \/ Cancel
             \/ \E u \in Usages : CallReturns(u)
             \/ \E passed \in BOOLEAN : Verify(passed)
             \/ UNCHANGED vars
      PROVE  UNCHANGED <<cfg, egress>>
  BY <1>4 DEF vars, AddRule, Run, AnswerAnalysis, AnswerImplementation, AnswerEscalation, Route,
              RefusedByProfile, RefusedByBudget, NoProvider, PostFails, CallFails, CallRaises,
              Escalate, Cancel, CallReturns, Verify
<1>5. QED
  BY <1>1, <1>2, <1>3, <1>4 DEF Next, Answer, Step

\* With Ollama on the machine, a profile without cloud sends nothing out of it
\* and what leaves it in one piece holds no secret; whatever serves the tiers,
\* a task that is to stay local asks an expert only for what a person allowed it
\* for (_call_tier, _is_cloud_bound, provider_for, _run_impl).
THEOREM LocalIsKept == Spec => []LocalStaysLocal
<1>1. ASSUME Init PROVE EgressInv
  BY <1>1 DEF Init, EgressInv
<1>2. ASSUME Inv, EgressInv, [Next]_vars PROVE EgressInv'
  BY <1>2, EgressStep DEF Inv
<1>3. ASSUME Inv, EgressInv PROVE LocalStaysLocal
  BY <1>3 DEF Inv, EgressInv, LocalStaysLocal, ExpertsAreAllowed, LocalRun
<1>4. QED
  BY <1>1, <1>2, <1>3, Invariance, PTL DEF Spec

-----------------------------------------------------------------------------
(***************************************************************************)
(* The refinement of HumanAuthority.                                       *)
(***************************************************************************)
WorkDone == [i \in DOMAIN sent |-> Kind(sent[i])]

\* A call that is sent is one more piece of work.
LEMMA WorkGrows ==
    ASSUME TypeOK, SendCall PROVE WorkDone' = Append(WorkDone, Kind(call))
<1>1. \A p : Kind(p) \in Authority!Kinds
  BY DEF Kind, Authority!Kinds
<1>2. /\ Len(sent) \in Nat /\ DOMAIN sent = 1..Len(sent)
      /\ DOMAIN sent' = 1..Len(sent) + 1
      /\ \A i \in 1..Len(sent) : sent'[i] = sent[i]
      /\ sent'[Len(sent) + 1] = call
  BY SentGrows
<1>3. WorkDone = [i \in 1..Len(sent) |-> Kind(sent[i])]
  BY <1>2 DEF WorkDone
<1>4. WorkDone \in Seq(Authority!Kinds) /\ Len(WorkDone) = Len(sent)
  BY <1>1, <1>2, <1>3
<1>5. WorkDone' = [i \in 1..Len(sent) + 1 |-> Kind(sent'[i])]
  BY <1>2 DEF WorkDone
<1>6. QED
  BY <1>1, <1>2, <1>3, <1>4, <1>5

\* Every step is one of HumanAuthority, or none.
LEMMA AuthorityStep ==
    ASSUME Inv, [Next]_vars PROVE [Authority!Next]_(Authority!vars)
<1> USE DEF inputs, governance, traffic
<1>t. /\ TypeOK /\ GateInv /\ RouteInv /\ decisions \in Seq(Decision)
      /\ call \in Purposes \cup {None} /\ (pc = "idle" <=> req = NoTask)
  BY DEF Inv, TypeOK, Decision
<1>g. Needed <=> Gated = "yes"
  BY DEF Needed, Gated
<1>0. SUFFICES \/ UNCHANGED <<Gated, Permit, WorkDone>>
               \/ Gated = "unknown" /\ Gated' \in {"yes", "no"} /\ UNCHANGED <<Permit, WorkDone>>
               \/ Gated = "yes" /\ Permit' \in Authority!Answers[Permit] /\ UNCHANGED <<Gated, WorkDone>>
               \/ \E k \in Authority!Kinds :
                     /\ Gated = "no" \/ (Gated = "yes" /\ k \in Authority!Allows[Permit])
                     /\ WorkDone' = Append(WorkDone, k)
                     /\ UNCHANGED <<Gated, Permit>>
  BY DEF WorkDone, Authority!vars, Authority!Next, Authority!Classify, Authority!Answer, Authority!Work
<1>1. CASE UNCHANGED <<cfg, req, level, decisions, forceLocal, sent>>
  BY <1>1, AnswersKept DEF Gated, WorkDone
<1>2. CASE \E r \in Requests : Run(r)
  <2>1. req = NoTask /\ req' # NoTask /\ UNCHANGED <<decisions, sent>>
    BY <1>t, <1>2, RequestAssumption DEF Run
  <2>2. UNCHANGED <<Permit, WorkDone>>
    BY <2>1 DEF Permit, WorkDone
  <2>3. QED
    BY <2>1, <2>2 DEF Gated
<1>3. ASSUME NEW s \in Stages, NEW d, AnswersTo(s, d)
      PROVE  Gated = "yes" /\ Permit' \in Authority!Answers[Permit] /\ UNCHANGED <<Gated, WorkDone>>
  <2>1. Gated = "yes" /\ UNCHANGED <<Gated, WorkDone>>
    BY <1>t, <1>g, <1>3 DEF GateInv, AnswersTo, Gated, WorkDone
  <2>2. Permit' = PermitOf(d) /\ d \in Decision /\ d.stage = s
    BY <1>t, <1>3, PermitAfter DEF AnswersTo
  <2>3. /\ s = "analysis" => Permit = "none" /\ PermitOf(d) \in {"local", "analysis", "full", "refused"}
        /\ s = "implementation" => Permit = "analysis" /\ PermitOf(d) \in {"full", "refused"}
        /\ s = "escalation" => Permit \in {"local", "full"} /\ PermitOf(d) \in {"diagnosis", "refused"}
    <3>1. CASE s = "analysis"
      BY <1>t, <1>3, <2>2, <3>1 DEF AnswersTo, GateInv, Asking, Permit, PermitOf
    <3>2. CASE s = "implementation"
      BY <1>t, <1>3, <2>2, <3>2 DEF AnswersTo, GateInv, Asking, PermitOf
    <3>3. CASE s = "escalation"
      BY <1>t, <1>3, <2>2, <3>3 DEF AnswersTo, GateInv, Asking, Working, PermitOf
    <3>4. QED
      BY <3>1, <3>2, <3>3
  <2>4. QED
    BY <2>1, <2>2, <2>3 DEF Authority!Answers, Authority!Permits, Stages
<1>4. CASE SendCall
  <2>1. Permit' = Permit /\ Gated' = Gated /\ req # NoTask /\ pc = "prepared" /\ call \in Purposes
    BY <1>t, <1>4, AnswersKept DEF SendCall, Gated, TypeOK
  <2>2. WorkDone' = Append(WorkDone, Kind(call)) /\ Kind(call) \in Authority!Kinds
    BY <1>t, <1>4, WorkGrows DEF Kind, Authority!Kinds
  <2>3. Gated \in {"yes", "no"}
    BY <2>1 DEF Gated
  <2>4. Gated = "yes" => Kind(call) \in Authority!Allows[Permit]
    <3>0. SUFFICES ASSUME Needed PROVE Kind(call) \in Authority!Allows[Permit]
      BY <1>g
    <3>1. CASE call = "expert_analysis"
      BY <1>t, <2>1, <3>1 DEF GateInv, AtCall, Kind, Authority!Allows, Authority!Permits
    <3>2. CASE call = "cloud_escalation"
      BY <1>t, <2>1, <3>0, <3>2 DEF GateInv, AtCall, Kind, Authority!Allows, Authority!Permits
    <3>3. CASE call = "local_execute"
      BY <1>t, <2>1, <3>0, <3>3 DEF GateInv, AtCall, Working, Kind, Authority!Allows, Authority!Permits
    <3>4. CASE call \in {"cloud_execute", "cloud_plan", "cloud_review"}
      <4>1. Permit = "full"
        <5>1. Permit \in {"local", "full"} /\ route \in {"cloud", "hybrid"}
          BY <1>t, <2>1, <3>0, <3>4 DEF GateInv, RouteInv, AtCall, Working
        <5>2. ~LocalRun
          BY <1>t, <2>1, <3>4, <5>1 DEF RouteInv, AtCall, Working
        <5>3. QED
          BY <1>t, <2>1, <5>1, <5>2 DEF GateInv, LocalRun
      <4>2. Kind(call) = "cloud_work"
        BY <3>4 DEF Kind
      <4>3. QED
        BY <4>1, <4>2 DEF Authority!Allows, Authority!Permits
    <3>5. QED
      BY <2>1, <3>1, <3>2, <3>3, <3>4 DEF Purposes, ExpertPurposes
  <2>5. QED
    BY <2>1, <2>2, <2>3, <2>4
<1>5. CASE UNCHANGED vars
  BY <1>1, <1>5 DEF vars
<1>6. QED
  BY <1>t, <1>1, <1>2, <1>3, <1>4, <1>5, StepsOfATask DEF Stages

\* Every run of a task implements HumanAuthority (app.py, decisions/gate.py).
THEOREM AuthorityRefinement == Spec => AuthorityIsHuman
<1>1. Init => Authority!Init
  <2>1. ASSUME Init PROVE Gated = "unknown" /\ Permit = "none" /\ WorkDone = << >>
    BY <2>1 DEF Init, Gated, Permit, WorkDone
  <2>2. QED
    BY <2>1 DEF Authority!Init, WorkDone
<1>2. Inv /\ [Next]_vars => [Authority!Next]_(Authority!vars)
  BY AuthorityStep
<1>3. QED
  BY <1>1, <1>2, Invariance, PTL DEF Spec, AuthorityIsHuman, Authority!Spec
=============================================================================
