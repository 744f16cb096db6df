----------------------------- MODULE MCSifter -----------------------------
(* Configurations and tasks that reach every route, every stage of approval *)
(* and every limit of the budget.                                           *)
EXTENDS Sifter

Prompt(signals, mentions, arch, words, chars, attached) ==
    [signals |-> signals, mentions |-> mentions, architectureLike |-> arch,
     words |-> words, chars |-> chars, tokens |-> 1000,
     secrets |-> IF words = 1 THEN {"private_key"} ELSE {},
     context |-> [tokens |-> attached, secrets |-> IF attached > 0 THEN {"openai_key"} ELSE {}]]

\* A small task, one that conflicts with a rule, a hard one, one too long for
\* the local model, a change of architecture and a destructive one.
MCPrompts ==
    {Prompt({}, {}, FALSE, 0, 400, 0),
     Prompt({"refactor"}, {"postgres"}, TRUE, 1, 400, 0),
     Prompt({"cross_file"}, {}, FALSE, 0, 400, 4000),
     Prompt({"architecture_change"}, {}, TRUE, 3, 4000, 0),
     Prompt({"destructive"}, {}, FALSE, 1, 400, 0)}

MCRequests ==
    {[prompt |-> p, policy |-> q, ceiling |-> IF q = "cloud_only" THEN {2000} ELSE {}] :
        p \in MCPrompts, q \in {None, "local_only", "cloud_only"}}

MCRuleTexts ==
    {[framed |-> TRUE, mentions |-> {"sqlite"}, grants |-> {}, waiver |-> {}],
     [framed |-> FALSE, mentions |-> {}, grants |-> {"cloud_auto_escalation"}, waiver |-> {9000}]}

Config(cloud, policy, localCloud, approver, significant, calls) ==
    [cloudAllowed |-> cloud, policy |-> policy,
     cloudModel |-> [local |-> localCloud, expert |-> localCloud],
     provider |-> [local |-> "ollama", expert |-> IF localCloud THEN "ollama" ELSE "deepseek"],
     endpoint |-> [local |-> None, expert |-> None],
     approver |-> approver,
     flags |-> [major |-> FALSE, critical |-> FALSE, significant |-> significant],
     redact |-> approver # "auto", checks |-> IF approver = "auto" THEN {} ELSE {"tests", "lint"},
     context |-> [t \in Tiers |-> 4000], maxOutput |-> [t \in Tiers |-> 1000],
     threshold |-> 72000, retries |-> 1,
     maxCalls |-> calls, maxTokens |-> 6000, maxCost |-> 4000, priceIn |-> 1, priceOut |-> 2]

\* No endpoint is given for the only provider.
WithoutProviders(c) ==
    [c EXCEPT !.provider = [local |-> "openai-compatible", expert |-> "openai-compatible"]]

MCConfigs ==
    {Config(TRUE, "adaptive", FALSE, "desktop", TRUE, 3),
     Config(TRUE, "budget_constrained", FALSE, "desktop", FALSE, 0),
     Config(TRUE, "surprise", FALSE, "desktop", FALSE, 1),
     Config(TRUE, "local_first", FALSE, "console", FALSE, 2),
     WithoutProviders(Config(FALSE, "local_first", FALSE, "console", FALSE, 2))}
    \cup {Config(cloud, "adaptive", TRUE, "auto", TRUE, 2) : cloud \in BOOLEAN}

\* With these the context window and the limits of the budget are met exactly.
MCExtras == {1000}

MCUsages == {[in |-> 1000, out |-> 0], [in |-> 3000, out |-> 1000]}

\* Both tiers at OpenAI-compatible servers, one on the machine and one not.
MCEndpointConfigs ==
    {[Config(FALSE, "local_only", FALSE, "auto", FALSE, 0) EXCEPT
        !.provider = [local |-> "openai-compatible", expert |-> "openai-compatible"],
        !.endpoint = [local |-> "here", expert |-> "cloud"]]}

\* The ordinary configuration.
MCPlainConfigs == {Config(TRUE, "adaptive", FALSE, "desktop", TRUE, 3)}
=============================================================================
