------------------------------ MODULE Routing ------------------------------
(***************************************************************************)
(* sifter/routing: the assessment of a task before it runs, the route the  *)
(* policy engine picks, the cloud budget of one task and the decision to   *)
(* escalate.  Fractions are integers in units of 1/100000.                 *)
(***************************************************************************)
EXTENDS Decisions, FiniteSetsExt, Integers

Unit == 100000
Clamp(x) == Max({0, Min({Unit, x})})
\* round(x, 3)
Round(x) == ((x + 50) \div 100) * 100

-----------------------------------------------------------------------------
(* PreflightAssessor.  A prompt is assessed by its length in characters, by *)
(* the number of complexity words in it and its context, and by the tokens *)
(* of both.                                                                *)
LengthFactor(chars) == Min({4000, chars})

Complexity(p) == Clamp(15000 + 10000 * p.words + (50000 * LengthFactor(p.chars)) \div 4000)
ReasoningDifficulty(p) == Clamp(20000 + 12000 * p.words + (40000 * LengthFactor(p.chars)) \div 4000)

LocalProbability(p) ==
    Clamp(92000 - Complexity(p) \div 2 - ReasoningDifficulty(p) \div 4
          - IF "architecture_change" \in p.signals THEN 15000 ELSE 0)

ContextPressure(cfg, p) == p.tokens + p.context.tokens > cfg.context["local"]

RequiresCloud(cfg, p, level) ==
    \/ LocalProbability(p) < cfg.threshold
    \/ ContextPressure(cfg, p)
    \/ IsMajor(level)

RecommendedRoute(cfg, p, level) ==
    CASE ~RequiresCloud(cfg, p, level) /\ "architecture_change" \notin p.signals -> "local"
      [] ContextPressure(cfg, p) -> "cloud"
      [] LocalProbability(p) > 40000 -> "hybrid"
      [] OTHER -> "cloud"

Assess(cfg, p, level) ==
    [viable |-> /\ Round(LocalProbability(p)) >= cfg.threshold
                /\ ~ContextPressure(cfg, p),
     requiresCloud |-> RequiresCloud(cfg, p, level),
     route |-> RecommendedRoute(cfg, p, level)]

-----------------------------------------------------------------------------
(* context: what is sent is cut to the context window first. *)

\* The window of a tier; none when it has no limit.
Window(cfg, tier) == Max({1024, cfg.context[tier] - cfg.maxOutput[tier]})
FitsContext(cfg, tier, tokens) == cfg.context[tier] = 0 \/ tokens <= Window(cfg, tier)

\* fit_messages: the largest message is halved, its middle replaced by a note,
\* until the whole fits.  What is left is more than half of the window.
FitToContext(cfg, tier, tokens) ==
    IF FitsContext(cfg, tier, tokens) THEN {tokens}
    ELSE (Window(cfg, tier) \div 2 + 1)..Window(cfg, tier)

\* Each kind of secret stands for the pattern that finds it.  A text that was
\* cut may hold a part of a secret, which its pattern does not find any more.
SecretPatterns ==
    {"private_key", "aws_access_key", "github_token", "slack_token", "openai_key", "bearer_token",
     "env_assignment", "password_field", "connection_string"}
Redact(cfg, secrets, cut) ==
    IF cut THEN SUBSET secrets ELSE {IF cfg.redact THEN {} ELSE secrets}

-----------------------------------------------------------------------------
(* verification: a verifier runs its checks, and a command that is not done *)
(* in time is killed.                                                       *)
CheckOutcomes == {"exit_zero", "exit_other", "timed_out"}
CheckPasses(outcome) == outcome = "exit_zero"

\* The verdicts a verifier can come to: the answer passes when all checks do.
Verdicts(checks) ==
    {\A c \in checks : CheckPasses(o[c]) : o \in [checks -> CheckOutcomes]}

-----------------------------------------------------------------------------
(* PolicyEngine. *)
Policies == {"local_only", "cloud_only", "local_first", "expert_first", "adaptive",
             "budget_constrained"}
Routes == {"local", "hybrid", "cloud"}

\* An unknown policy is taken for the adaptive one.
Coerce(policy) == IF policy \in Policies THEN policy ELSE "adaptive"

Adaptive(a) == IF a.viable /\ ~a.requiresCloud THEN "local" ELSE "hybrid"

\* What the selected policy prefers, before the budget has its say.
Preferred(policy, a, budgetLeft) ==
    CASE policy = "local_only" -> "local"
      [] policy \in {"cloud_only", "expert_first"} -> "cloud"
      [] policy = "budget_constrained" -> IF ~budgetLeft \/ a.viable THEN "local" ELSE "hybrid"
      [] policy = "local_first" -> IF a.viable THEN "local" ELSE "cloud"
      [] OTHER -> Adaptive(a)

Decide(policy, a, budgetLeft) ==
    LET selected == Coerce(policy)
    IN  IF ~budgetLeft /\ selected \in {"adaptive", "local_first", "budget_constrained"}
        THEN "local"
        ELSE Preferred(selected, a, budgetLeft)

-----------------------------------------------------------------------------
(* BudgetTracker: one for each task. *)

\* An explicit ceiling of the caller replaces the configured one and is not
\* waived; a waiver of the standing rules can only raise the configured one.
CostCap(cfg, ceiling, waiver) ==
    IF ceiling # {} THEN Max(ceiling) ELSE Max({cfg.maxCost} \cup waiver)

NewBudget(cap) == [calls |-> 0, tokens |-> 0, cost |-> 0, cap |-> cap, exhausted |-> FALSE]

\* The price of a call: input tokens and the dearer output tokens.
EstimateCost(cfg, in, out) == cfg.priceIn * in + cfg.priceOut * out

\* Mutant: the call that is about to be made is not counted.
WouldExceedLate(cfg, b, tokens) ==
    \/ b.calls > cfg.maxCalls
    \/ b.tokens + tokens > cfg.maxTokens
    \/ b.cost + EstimateCost(cfg, tokens, 0) > b.cap

WouldExceed(cfg, b, tokens) ==
    \/ b.calls + 1 > cfg.maxCalls
    \/ b.tokens + tokens > cfg.maxTokens
    \/ b.cost + EstimateCost(cfg, tokens, 0) > b.cap

\* BudgetTracker.record: what the provider says the call used.
Record(cfg, b, in, out) ==
    [b EXCEPT !.calls = @ + 1, !.tokens = @ + in + out, !.cost = @ + EstimateCost(cfg, in, out)]

BudgetLeft(cfg, b) == b.calls < cfg.maxCalls /\ ~b.exhausted

-----------------------------------------------------------------------------
\* EscalationPolicy.evaluate: an escalation that may change the architecture
\* of a major task is a decision of the user.
EscalationNeedsHuman(p, level) == p.architectureLike /\ IsMajor(level)
=============================================================================
