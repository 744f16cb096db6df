----------------------------- MODULE Providers -----------------------------
(***************************************************************************)
(* sifter/models: which provider is built for a configuration, which of    *)
(* them serves a model, and where its endpoint is.  An endpoint is "here"  *)
(* (the machine of the user) or "cloud"; what may not exist is a set that  *)
(* is empty or has one element.                                            *)
(***************************************************************************)
EXTENDS Decisions

Tiers == {"local", "expert"}
Given(endpoint, default) == IF endpoint = None THEN default ELSE {endpoint}

\* build_provider: the endpoint of the provider; none when it cannot be built.
\* The OpenAI-compatible provider is one, whichever tier it is built for.
BuildProvider(cfg, name) ==
    CASE name = "ollama" -> Given(cfg.endpoint.local, {"here"})
      [] name = "deepseek" -> Given(cfg.endpoint.expert, {"cloud"})
      [] name = "openai-compatible" -> Given(cfg.endpoint.expert, Given(cfg.endpoint.local, {}))
      [] OTHER -> {}

\* build_registry: a provider that cannot be built is left out.
BuildRegistry(cfg) ==
    {name \in {cfg.provider[t] : t \in Tiers} : BuildProvider(cfg, name) # {}}

\* ModelRegistry.provider_for.
ProviderFor(cfg, tier) ==
    LET registered == BuildRegistry(cfg)
    IN  IF cfg.cloudModel[tier] /\ "ollama" \in registered THEN {"ollama"}
        ELSE IF cfg.provider[tier] \in registered THEN {cfg.provider[tier]}
        ELSE IF Cardinality(registered) = 1 THEN registered ELSE {}

\* A call leaves the machine when its endpoint is not on it, or when Ollama
\* passes it on because the name of the model ends in ":cloud".
LeavesTheMachine(cfg, tier) ==
    \/ cfg.cloudModel[tier]
    \/ \E name \in ProviderFor(cfg, tier) : "cloud" \in BuildProvider(cfg, name)
=============================================================================
