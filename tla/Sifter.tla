------------------------------- MODULE Sifter -------------------------------
(***************************************************************************)
(* sifter/app: ComputeSifter.run takes one task through classification,    *)
(* the human approval gate, routing, the calls of the local and the expert *)
(* model, verification and escalation.  Next to it aa-sync agents use      *)
(* generate, which asks a model directly.                                  *)
(*                                                                         *)
(* A step is what the coroutine does between two awaits, or a shorter part *)
(* of it; awaits are the answer of a person, the answer of a provider and  *)
(* the verdict of the verifier.  Cancellation may arrive at any of them.   *)
(***************************************************************************)
EXTENDS Routing, Providers, Sequences

CONSTANTS
    Configs,      \* runtime configurations
    Requests,     \* tasks: [prompt, policy, ceiling], policy may be None, ceiling {}
    RuleTexts,    \* standing rules a person may write down before the task
    Usages,       \* what an expert call can use: [in, out]
    Extras,       \* tokens of instructions, constraints, plans and answers in a call
    Generates,    \* bound: calls of generate
    PostRetries,  \* max_retries of the providers
    NoTask        \* no task yet

\* Who answers approval requests: a person at the console, a person in the
\* desktop application, or the provider for non-interactive use.
Approvers == {"console", "desktop", "auto"}

ASSUME ConfigAssumption ==
    \A c \in Configs :
        /\ c \in [cloudAllowed : BOOLEAN, policy : {c.policy}, cloudModel : [Tiers -> BOOLEAN],
                  provider : {c.provider}, endpoint : {c.endpoint}, approver : Approvers,
                  flags : [major : BOOLEAN, critical : BOOLEAN, significant : BOOLEAN],
                  redact : BOOLEAN, checks : {c.checks}, context : [Tiers -> Nat],
                  maxOutput : [Tiers -> Nat], threshold : Nat, retries : Nat, maxCalls : Nat,
                  maxTokens : Nat, maxCost : Nat, priceIn : Nat, priceOut : Nat]
        /\ c.context["local"] > 0
ASSUME RequestAssumption ==
    /\ NoTask \notin Requests
    /\ \A r \in Requests : /\ r.prompt.secrets \subseteq SecretPatterns
                          /\ r.prompt.context.secrets \subseteq SecretPatterns
                          /\ r.prompt.tokens \in Nat /\ r.prompt.context.tokens \in Nat
                          /\ r.ceiling \subseteq Nat /\ \A m, n \in r.ceiling : m = n
ASSUME RuleAssumption == \A t \in RuleTexts : t.waiver \subseteq Nat
ASSUME UsageAssumption == Usages # {} /\ \A u \in Usages : u.in \in Nat /\ u.out \in Nat
ASSUME ExtrasAssumption == Extras \subseteq Nat
ASSUME BoundsAssumption == Generates \in Nat /\ PostRetries \in Nat

VARIABLES
    cfg,         \* SifterConfig, fixed when the application is built
    rules,       \* StandingRuleEngine: rules in force
    req,         \* the task, or NoTask
    pc,          \* where the coroutine is
    level,       \* its classification
    stage,       \* stage of the approval request it waits for
    decisions,   \* approvals: the answers so far, [stage, action]
    forceLocal,  \* the person asked to stay local
    route,       \* RouteDecision.kind
    permitted,   \* escalation to the expert is allowed
    call,        \* purpose of the model call that is prepared or awaited
    attempt,     \* number of the local attempt
    posts,       \* HTTP requests of the awaited call so far
    verified,    \* the last verdict of the verifier
    budget,      \* BudgetTracker of the task
    sent,        \* the purposes of the calls handed to a provider, in order
    egress,      \* what has left the machine: [purpose, cut, secrets]
    generated,   \* calls of generate so far
    history      \* statuses record_run has stored for the task

inputs == <<cfg, rules, req>>
governance == <<level, decisions, forceLocal, route, permitted>>
traffic == <<budget, sent, egress, generated>>
vars == <<inputs, pc, stage, governance, call, attempt, posts, verified, traffic, history>>

ExpertPurposes == {"expert_analysis", "cloud_execute", "cloud_plan", "cloud_review", "cloud_escalation"}
Purposes == ExpertPurposes \cup {"local_execute"}
Stages == {"analysis", "implementation", "escalation"}
Statuses == {"completed", "failed", "stopped", "blocked", "error"}

\* The configuration as it is validated when the application is built.
Validated(c) == [c EXCEPT !.flags = ProtectGates(@)]

Init ==
    /\ \E c \in Configs : cfg = Validated(c)
    /\ rules = {} /\ req = NoTask /\ pc = "idle"
    /\ level = "routine" /\ stage = None /\ decisions = << >> /\ forceLocal = FALSE
    /\ route = None /\ permitted = FALSE
    /\ call = None /\ attempt = 0 /\ posts = 0 /\ verified = FALSE
    /\ budget = NewBudget(0) /\ sent = << >> /\ egress = {} /\ generated = 0
    /\ history = << >>

Over == pc \in {"over", "cancelled", "raised"}

\* _finish: the memory candidate and the row of the run.
Finish(status) ==
    /\ pc' = "over"
    /\ history' = Append(history, status)

-----------------------------------------------------------------------------
\* StandingRuleEngine.add_rule.
AddRule(text) ==
    /\ pc = "idle"
    /\ rules' = rules \cup {DeriveRule(text)}
    /\ UNCHANGED <<cfg, req, pc, stage, governance, call, attempt, posts, verified, traffic, history>>

Grant == AutonomyGrant(rules)
Policy == IF req.policy = None THEN cfg.policy ELSE req.policy
\* Mutant: the answer of the person is not carried to the router.
EffectivePolicyOfConfig == IF ~cfg.cloudAllowed THEN "local_only" ELSE Policy

EffectivePolicy == IF forceLocal \/ ~cfg.cloudAllowed THEN "local_only" ELSE Policy
Assessment == Assess(cfg, req.prompt, level)

\* run: the budget is made, the prompt is classified and assessed.
Run(r) ==
    /\ pc = "idle"
    /\ req' = r
    /\ budget' = NewBudget(CostCap(cfg, r.ceiling,
                      IF r.ceiling # {} THEN {} ELSE CostWaiverThreshold(rules)))
    /\ level' = GateClassify(rules, r.prompt)
    /\ IF ApprovalNeeded(cfg.flags, level')
       THEN pc' = "asking" /\ stage' = "analysis"
       ELSE pc' = "routing" /\ stage' = None
    /\ UNCHANGED <<cfg, rules, decisions, forceLocal, route, permitted, call, attempt, posts, verified,
                   sent, egress, generated, history>>

\* The category of a request decides what the automatic provider answers.
Category == IF stage = "analysis" THEN level ELSE "major"

Answered(action) == [stage |-> stage, action |-> action]

\* The answers each approval provider can give.
ConsoleAnswers == {Answered(ParseDecisionInput(i, stage)) : i \in Inputs}
DesktopAnswers == {Answered(a) : a \in Actions}
AutoAnswers == {Answered(AutoDecision(Category))}
PossibleAnswers ==
    CASE cfg.approver = "console" -> ConsoleAnswers
      [] cfg.approver = "desktop" -> DesktopAnswers
      [] OTHER -> AutoAnswers

Prepare(purpose) == pc' = "prepared" /\ call' = purpose

\* _expert_analysis: the expert compares the options and implements nothing.
ConsultExpert == Prepare("expert_analysis")

\* _handle_major_decision, first request.
AnswerAnalysis(d) ==
    /\ pc = "asking" /\ stage = "analysis" /\ d \in PossibleAnswers
    /\ decisions' = Append(decisions, d)
    /\ stage' = None
    /\ \/ /\ d.action \in {"stop", "reject", "modify"}
          /\ Finish("stopped") /\ UNCHANGED <<forceLocal, permitted, call>>
       \/ /\ d.action \in {"more_local_analysis", "continue_current"}
          /\ pc' = "routing" /\ forceLocal' = TRUE /\ UNCHANGED <<permitted, call, history>>
       \/ /\ d.action \in {"approve", "choose_option"}
          /\ pc' = "routing" /\ permitted' = TRUE /\ UNCHANGED <<forceLocal, call, history>>
       \/ /\ d.action = "allow_expert_analysis"
          /\ ConsultExpert /\ UNCHANGED <<forceLocal, permitted, history>>
    /\ UNCHANGED <<inputs, level, route, attempt, posts, verified, traffic>>

\* _handle_major_decision, second request: the recommendation may be implemented.
AnswerImplementation(d) ==
    /\ pc = "asking" /\ stage = "implementation" /\ d \in PossibleAnswers
    /\ decisions' = Append(decisions, d)
    /\ stage' = None
    /\ IF d.action \in {"approve", "choose_option"}
       THEN pc' = "routing" /\ permitted' = TRUE /\ UNCHANGED history
       ELSE Finish("stopped") /\ UNCHANGED permitted
    /\ UNCHANGED <<inputs, level, forceLocal, route, call, attempt, posts, verified, traffic>>

\* _run_impl: route, and the right to escalate later.
Route ==
    /\ pc = "routing"
    /\ route' = Decide(EffectivePolicy, Assessment, BudgetLeft(cfg, budget))
    /\ permitted' = (EffectivePolicy # "local_only" /\ (permitted \/ ~IsMajor(level) \/ Grant))
    /\ attempt' = 1
    /\ Prepare(CASE route' = "cloud" -> "cloud_execute"
                 [] route' = "hybrid" -> "cloud_plan"
                 [] OTHER -> "local_execute")
    /\ UNCHANGED <<inputs, stage, level, decisions, forceLocal, posts, verified, traffic, history>>

-----------------------------------------------------------------------------
(* _call_tier. *)
TierOf(purpose) == IF purpose \in ExpertPurposes THEN "expert" ELSE "local"

\* _is_cloud_bound: what the application takes for a call that may leave.
Outbound(purpose) == TierOf(purpose) = "expert" \/ cfg.cloudModel.local

HasProvider(purpose) == ProviderFor(cfg, TierOf(purpose)) # {}

\* Mutants: one attempt too many; attempts are not counted.
FailedAttemptOnceMore ==
    IF attempt <= cfg.retries + 1
    THEN pc' = "prepared" /\ attempt' = attempt + 1 /\ UNCHANGED history
    ELSE pc' = "escalating" /\ UNCHANGED <<attempt, history>>
FailedAttemptUncounted ==
    IF attempt <= cfg.retries
    THEN pc' = "prepared" /\ UNCHANGED <<attempt, history>>
    ELSE pc' = "escalating" /\ UNCHANGED <<attempt, history>>

\* An attempt of the local route that failed is repeated or given up.
FailedAttempt ==
    IF attempt <= cfg.retries
    THEN pc' = "prepared" /\ attempt' = attempt + 1 /\ UNCHANGED history
    ELSE pc' = "escalating" /\ UNCHANGED <<attempt, history>>

\* ProviderError: only the local route goes on.
ProviderFails ==
    IF call = "local_execute" /\ route = "local" THEN FailedAttempt
    ELSE Finish("error") /\ UNCHANGED attempt

\* Mutant: an escalation that was not made counts as made.
BudgetStopsResolved ==
    IF call \in {"cloud_review", "cloud_escalation"} THEN Finish("completed") ELSE Finish("blocked")

\* BudgetExceeded: a review is skipped, an escalation is given up.
BudgetStops ==
    Finish(CASE call = "cloud_review" -> "completed"
             [] call = "cloud_escalation" -> "failed"
             [] OTHER -> "blocked")

\* What the prompt and its context, at most 4000 characters of it for the
\* analysis, contribute to the messages of a call.
AttachedTokens == 1000
Carried(purpose) ==
    CASE purpose = "cloud_review" -> 0
      [] purpose \in {"cloud_plan", "cloud_escalation"} -> req.prompt.tokens
      [] purpose = "expert_analysis" ->
            req.prompt.tokens + Min({AttachedTokens, req.prompt.context.tokens})
      [] OTHER -> req.prompt.tokens + req.prompt.context.tokens

\* The messages of a call before and after they are fitted to the context.
MessageTokens(purpose, extra) == Carried(purpose) + extra
IsCut(purpose, extra) == ~FitsContext(cfg, TierOf(purpose), MessageTokens(purpose, extra))
EstimatedTokens(purpose, extra) ==
    FitToContext(cfg, TierOf(purpose), MessageTokens(purpose, extra))

\* BudgetTracker.check, whatever the cut has left.
Affordable(purpose, extra) ==
    \A t \in EstimatedTokens(purpose, extra) : ~WouldExceed(cfg, budget, t)
MayBeAffordable(purpose, extra) ==
    ~ \A t \in EstimatedTokens(purpose, extra) : WouldExceed(cfg, budget, t)

\* No provider is registered for the model.
NoProvider ==
    /\ pc = "prepared"
    /\ ~HasProvider(call)
    /\ ProviderFails
    /\ UNCHANGED <<inputs, stage, governance, call, posts, verified, traffic>>

RefusedByProfile ==
    /\ pc = "prepared" /\ HasProvider(call)
    /\ Outbound(call) /\ ~cfg.cloudAllowed
    /\ ProviderFails
    /\ UNCHANGED <<inputs, stage, governance, call, posts, verified, traffic>>

RefusedByBudget ==
    /\ pc = "prepared" /\ HasProvider(call)
    /\ call \in ExpertPurposes /\ cfg.cloudAllowed
    /\ \E extra \in Extras : ~Affordable(call, extra)
    /\ budget' = [budget EXCEPT !.exhausted = TRUE]
    /\ BudgetStops
    /\ UNCHANGED <<inputs, stage, governance, call, attempt, posts, verified, sent, egress, generated>>

\* The secrets in the messages as they are cut and then redacted.  Packets are
\* redacted before; answers of models may repeat what is in a prompt.
RawSecrets(purpose) ==
    CASE purpose = "cloud_escalation" /\ cfg.redact -> {}
      [] purpose = "expert_analysis" /\ cfg.redact -> req.prompt.context.secrets
      [] purpose = "cloud_plan" -> req.prompt.secrets
      [] OTHER -> req.prompt.secrets \cup req.prompt.context.secrets

\* The context of the analysis is sliced before all this.
IsSliced(purpose) == purpose = "expert_analysis" /\ req.prompt.context.tokens >= AttachedTokens

\* What is really seen outside: secrets are removed only from calls that are
\* taken to be outbound.
Egress(purpose, cut, secrets) ==
    IF ~LeavesTheMachine(cfg, TierOf(purpose)) THEN UNCHANGED egress
    ELSE \E left \in IF Outbound(purpose) \/ cut THEN Redact(cfg, secrets, cut) ELSE {secrets} :
            egress' = egress \cup {[purpose |-> purpose, cut |-> cut, secrets |-> left]}

SendCall ==
    /\ pc = "prepared" /\ HasProvider(call)
    /\ Outbound(call) => cfg.cloudAllowed
    /\ \E extra \in Extras :
          /\ call \in ExpertPurposes => MayBeAffordable(call, extra)
          /\ Egress(call, IsCut(call, extra) \/ IsSliced(call), RawSecrets(call))
    /\ sent' = Append(sent, call)
    /\ pc' = "calling" /\ posts' = 1
    /\ UNCHANGED <<inputs, stage, governance, call, attempt, verified, budget, generated, history>>

\* A request that times out, is not delivered or meets a server error is sent
\* again by the provider, a number of times.
PostFails ==
    /\ pc = "calling" /\ posts <= PostRetries
    /\ posts' = posts + 1
    /\ UNCHANGED <<inputs, pc, stage, governance, call, attempt, verified, traffic, history>>

\* The last request failed, or one was answered with a client error.  A call
\* that fails is not charged to the budget.
CallFails ==
    /\ pc = "calling"
    /\ posts' = 0
    /\ ProviderFails
    /\ UNCHANGED <<inputs, stage, governance, call, verified, traffic>>

\* An answer that is not JSON is an exception nobody handles: run ends with it
\* and nothing is recorded.
CallRaises ==
    /\ pc = "calling"
    /\ pc' = "raised" /\ posts' = 0
    /\ UNCHANGED <<inputs, stage, governance, call, attempt, verified, traffic, history>>

\* Mutant: advice is taken for a decision to implement it.
CallReturnsWithConsent(u) ==
    /\ pc = "calling"
    /\ budget' = IF call \in ExpertPurposes THEN Record(cfg, budget, u.in, u.out) ELSE budget
    /\ \/ /\ call = "expert_analysis"
          /\ pc' = "routing" /\ UNCHANGED <<stage, call, history>>
       \/ call = "cloud_plan" /\ Prepare("local_execute") /\ UNCHANGED <<stage, history>>
       \/ /\ call \in {"cloud_execute", "local_execute"}
          /\ pc' = "verifying" /\ UNCHANGED <<stage, call, history>>
       \/ /\ call \in {"cloud_review", "cloud_escalation"}
          /\ Finish("completed") /\ UNCHANGED <<stage, call>>
    /\ posts' = 0
    /\ UNCHANGED <<inputs, governance, attempt, verified, sent, egress, generated>>

\* What follows the answer of the model.
CallReturns(u) ==
    /\ pc = "calling"
    /\ budget' = IF call \in ExpertPurposes THEN Record(cfg, budget, u.in, u.out) ELSE budget
    /\ \/ /\ call = "expert_analysis"
          /\ pc' = "asking" /\ stage' = "implementation" /\ UNCHANGED <<call, history>>
       \/ call = "cloud_plan" /\ Prepare("local_execute") /\ UNCHANGED <<stage, history>>
       \/ /\ call \in {"cloud_execute", "local_execute"}
          /\ pc' = "verifying" /\ UNCHANGED <<stage, call, history>>
       \/ /\ call \in {"cloud_review", "cloud_escalation"}
          /\ Finish("completed") /\ UNCHANGED <<stage, call>>
    /\ posts' = 0
    /\ UNCHANGED <<inputs, governance, attempt, verified, sent, egress, generated>>

\* The verifier's verdict on the answer.
Verify(passed) ==
    /\ pc = "verifying" /\ passed \in Verdicts(cfg.checks)
    /\ verified' = passed
    /\ \/ passed /\ route = "hybrid" /\ Prepare("cloud_review") /\ UNCHANGED <<attempt, history>>
       \/ passed /\ route # "hybrid" /\ Finish("completed") /\ UNCHANGED <<call, attempt>>
       \/ ~passed /\ route = "local" /\ FailedAttempt /\ UNCHANGED call
       \/ ~passed /\ route # "local" /\ pc' = "escalating" /\ UNCHANGED <<call, attempt, history>>
    /\ UNCHANGED <<inputs, stage, governance, posts, traffic>>

-----------------------------------------------------------------------------
\* The packet of the failed work is for the expert to diagnose.
HandOver == Prepare("cloud_escalation")

\* _escalate_after_failure: ask, give up, or hand the failure to the expert.
Escalate ==
    /\ pc = "escalating"
    /\ IF EscalationNeedsHuman(req.prompt, level) /\ ~Grant
       THEN pc' = "asking" /\ stage' = "escalation" /\ UNCHANGED <<call, history>>
       ELSE /\ \/ permitted /\ HandOver /\ UNCHANGED history
               \/ ~permitted /\ Finish("failed") /\ UNCHANGED call
            /\ UNCHANGED stage
    /\ UNCHANGED <<inputs, governance, attempt, posts, verified, traffic>>

\* The answer to an escalation replaces what the policy permitted.
AnswerEscalation(d) ==
    /\ pc = "asking" /\ stage = "escalation" /\ d \in PossibleAnswers
    /\ decisions' = Append(decisions, d)
    /\ stage' = None
    /\ permitted' = (d.action = "allow_expert_analysis")
    /\ IF permitted' THEN HandOver /\ UNCHANGED history
       ELSE Finish("failed") /\ UNCHANGED call
    /\ UNCHANGED <<inputs, level, forceLocal, route, attempt, posts, verified, traffic>>

\* CancelledError reaches the coroutine at an await: nothing is recorded.
Cancel ==
    /\ pc \in {"asking", "calling", "verifying"}
    /\ pc' = "cancelled"
    /\ UNCHANGED <<inputs, stage, governance, call, attempt, posts, verified, traffic, history>>

\* generate: no gate and no budget, but the profile and the redaction.
Generate(purpose, secrets) ==
    /\ generated < Generates
    /\ generated' = generated + 1
    /\ HasProvider(purpose)
    /\ Outbound(purpose) => cfg.cloudAllowed
    /\ Egress(purpose, FALSE, secrets)
    /\ UNCHANGED <<inputs, pc, stage, governance, call, attempt, posts, verified, budget, sent, history>>

-----------------------------------------------------------------------------
Answer ==
    /\ pc = "asking"
    /\ \E d \in PossibleAnswers : AnswerAnalysis(d) \/ AnswerImplementation(d) \/ AnswerEscalation(d)

\* What the event loop does for the task without a person.
Step ==
    \/ Route \/ RefusedByProfile \/ RefusedByBudget \/ SendCall
    \/ NoProvider \/ PostFails \/ CallFails \/ CallRaises
    \/ \E u \in Usages : CallReturns(u)
    \/ \E passed \in BOOLEAN : Verify(passed)
    \/ Escalate

Next ==
    \/ \E t \in RuleTexts : AddRule(t)
    \/ \E r \in Requests : Run(r)
    \/ Answer \/ Step \/ Cancel
    \/ \E p \in {"cloud_execute", "local_execute"}, s \in {r.prompt.secrets : r \in Requests} :
          Generate(p, s)

Spec == Init /\ [][Next]_vars

\* Providers have timeouts, verification commands are killed when theirs is
\* over, and an approval provider that is not interactive always answers.
FairSpec == Spec /\ WF_vars(Step) /\ WF_vars(Answer /\ cfg.approver = "auto")

-----------------------------------------------------------------------------
(* Properties. *)

IsExpert(purpose) == purpose \in ExpertPurposes

\* The task, its answers, its budget and its traffic keep their types.
TypeOK ==
    /\ cfg \in {Validated(c) : c \in Configs}
    /\ rules \subseteq {DeriveRule(t) : t \in RuleTexts}
    /\ req \in Requests \cup {NoTask}
    /\ pc \in {"idle", "asking", "routing", "prepared", "calling", "verifying", "escalating",
              "over", "cancelled", "raised"}
    /\ pc = "idle" <=> req = NoTask
    /\ level \in Levels /\ stage \in Stages \cup {None}
    /\ pc = "asking" => stage \in Stages
    /\ decisions \in Seq([stage : Stages, action : Actions])
    /\ forceLocal \in BOOLEAN /\ permitted \in BOOLEAN /\ verified \in BOOLEAN
    /\ route \in Routes \cup {None} /\ call \in Purposes \cup {None}
    /\ pc \in {"prepared", "calling", "verifying"} => call \in Purposes
    /\ attempt \in 0..cfg.retries + 1 /\ posts \in 0..PostRetries + 1
    /\ sent \in Seq(Purposes)
    /\ egress \subseteq [purpose : Purposes, cut : BOOLEAN, secrets : SUBSET SecretPatterns]
    /\ generated \in 0..Generates
    /\ history \in Seq(Statuses)

\* What the answers of the person permit, in the terms of HumanAuthority: the
\* last one counts.
PermitOf(last) ==
    CASE last.action = "allow_expert_analysis" /\ last.stage = "analysis" -> "analysis"
      [] last.action = "allow_expert_analysis" /\ last.stage = "escalation" -> "diagnosis"
      [] last.action \in {"approve", "choose_option"} /\ last.stage # "escalation" -> "full"
      [] last.action \in {"more_local_analysis", "continue_current"} /\ last.stage = "analysis" -> "local"
      [] OTHER -> "refused"
Permit == IF decisions = << >> THEN "none" ELSE PermitOf(decisions[Len(decisions)])

Kind(purpose) ==
    CASE purpose = "expert_analysis" -> "advice"
      [] purpose = "cloud_escalation" -> "diagnosis"
      [] purpose = "local_execute" -> "local_work"
      [] OTHER -> "cloud_work"

Gated ==
    IF req = NoTask THEN "unknown"
    ELSE IF ApprovalNeeded(cfg.flags, level) THEN "yes" ELSE "no"

Authority == INSTANCE HumanAuthority
    WITH gated <- Gated, permit <- Permit, work <- [i \in DOMAIN sent |-> Kind(sent[i])]

\* Every run of a task implements HumanAuthority: no model is asked for
\* anything before the first answer, advice is not an implementation, a person
\* who keeps the work local keeps it local, and a refusal ends it, whichever
\* route, retry, review or escalation follows (app.py, decisions/gate.py).
AuthorityIsHuman == Authority!Spec

\* The local tier is served by Ollama on the machine, as it is by default.
OllamaIsHere == cfg.provider["local"] = "ollama" /\ cfg.endpoint["local"] \in {None, "here"}

\* With Ollama on the machine, a profile without cloud sends nothing out of it,
\* not even through a local model that runs in the cloud, and what leaves it in
\* one piece holds no secret; whatever serves the tiers, under the policy
\* local_only, asked for, configured or chosen by the person, an expert is called
\* only for what a person explicitly allowed it for (app.py, _call_tier,
\* generate, _run_impl; models/registry.py).
LocalStaysLocal ==
    /\ OllamaIsHere /\ ~cfg.cloudAllowed => egress = {}
    /\ OllamaIsHere /\ cfg.redact => \A e \in egress : e.cut \/ e.secrets = {}
    /\ req # NoTask /\ (forceLocal \/ Policy = "local_only") =>
          \A i \in DOMAIN sent : IsExpert(sent[i]) =>
              \E j \in DOMAIN decisions :
                  /\ decisions[j].action = "allow_expert_analysis"
                  /\ <<decisions[j].stage, sent[i]>> \in
                       {<<"analysis", "expert_analysis">>, <<"escalation", "cloud_escalation">>}


\* What leaves the machine is taken to leave it, so that the profile, the
\* redaction and the budget apply ("True when a call can leave the machine",
\* _is_cloud_bound).  It does not hold when the tiers share a provider name:
\* the one provider that is built has the endpoint of the expert.
LocalCallsStayHere == \A e \in egress : Outbound(e.purpose)

\* The ceilings somebody has set for the cost of the task: the caller's when
\* there is one, otherwise the configured one and those of the standing rules.
Ceilings == IF req.ceiling # {} THEN req.ceiling
            ELSE {cfg.maxCost} \cup UNION {r.waiver : r \in rules}

\* A task never sends more expert calls than it may, and what it spends is
\* over a ceiling by less than one call, however its calls overrun what was
\* estimated and fail in between (routing/budget.py, app.py _call_tier).
SpendIsBounded ==
    req # NoTask =>
        /\ Cardinality({i \in DOMAIN sent : IsExpert(sent[i])}) <= cfg.maxCalls
        /\ \E c \in Ceilings, u \in Usages : budget.cost <= c + EstimateCost(cfg, u.in, u.out)
        /\ \E u \in Usages : budget.tokens <= cfg.maxTokens + u.in + u.out

\* A task that ends is recorded once; it is recorded as completed only when
\* the last verdict was favourable or the expert was handed the failure and
\* answered; one whose last answer was a refusal is not completed (app.py
\* _finish, _escalate_after_failure).
OutcomeIsEarned ==
    /\ Len(history) = IF pc = "over" THEN 1 ELSE 0
    /\ history = <<"completed">> =>
          /\ verified \/ sent[Len(sent)] = "cloud_escalation"
          /\ Permit # "refused"
    /\ Permit = "refused" => history \in {<<"stopped">>, <<"failed">>}

\* A submitted task ends or waits for a person: no combination of refused
\* calls, failing providers, retries and escalations keeps it busy for ever
\* (app.py run).
RunEnds == (req # NoTask) ~> (Over \/ (pc = "asking" /\ cfg.approver # "auto"))
=============================================================================
