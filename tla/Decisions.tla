----------------------------- MODULE Decisions -----------------------------
(***************************************************************************)
(* sifter/decisions: how significant a proposal is, whether a person has   *)
(* to be asked, what the standing rules say about it and what an answer    *)
(* authorizes.                                                             *)
(*                                                                         *)
(* A text is what the code recognises in it: the signals whose patterns    *)
(* match, the technologies it names and whether it reads like a change of  *)
(* architecture.  A standing rule likewise: whether its wording approves   *)
(* or forbids, the technologies it names, what it grants and the set of   *)
(* amounts, none or one, below which nobody is to be asked.                *)
(***************************************************************************)
EXTENDS Naturals, FiniteSets

None == "none"

-----------------------------------------------------------------------------
\* Each signal stands for the patterns that raise it.
CriticalSignals ==
    {"destructive", "data_deletion", "irreversible", "credential_change", "production_action",
     "large_expenditure", "confidential_exposure", "security_control_removal"}
MajorSignals ==
    {"architecture_change", "framework_change", "database_change", "persistence_change",
     "auth_change", "new_external_service", "provider_change", "api_incompatible",
     "schema_migration", "security_boundary", "deployment_change", "scope_expansion",
     "remove_functionality", "new_major_dependency"}
SignificantSignals == {"refactor", "cross_file", "minor_dependency", "migration_required"}
Signals == CriticalSignals \cup MajorSignals \cup SignificantSignals

Levels == {"routine", "significant", "major", "critical"}
Severity == [l \in Levels |->
    CASE l = "routine" -> 0 [] l = "significant" -> 1 [] l = "major" -> 2 [] OTHER -> 3]

LevelAtLeast(level, floor) == Severity[level] >= Severity[floor]
MaxLevel(a, b) == IF Severity[b] > Severity[a] THEN b ELSE a
IsMajor(level) == LevelAtLeast(level, "major")

LevelForSignals(signals) ==
    CASE signals \cap CriticalSignals # {} -> "critical"
      [] signals \cap MajorSignals # {} -> "major"
      [] signals \cap SignificantSignals # {} -> "significant"
      [] OTHER -> "routine"

\* DecisionClassifier.classify with no proposal of a model.
Classify(signals, conflicts) ==
    LET level == LevelForSignals(signals)
    IN  IF conflicts # {} THEN MaxLevel(level, "major") ELSE level

-----------------------------------------------------------------------------
(* Standing rules. *)
\* Some of the technologies of each family.
Families ==
    {{"sqlite", "postgres", "redis"}, {"react", "vue"}, {"django", "flask"},
     {"oauth", "saml"}, {"ollama", "openai"}, {"kubernetes", "docker"}}
Technologies == UNION Families

Grants == {"cloud_debug_failed_tests", "cloud_auto_escalation"}

\* derive_rule_metadata: a rule that approves or forbids takes the technologies
\* it names as the ones its families are held to.
DeriveRule(text) ==
    [terms |-> IF text.framed THEN text.mentions ELSE {},
     grants |-> text.grants, waiver |-> text.waiver]

\* A rule is in conflict with a text that names another technology of a
\* family the rule speaks about.
ConflictsWith(rule, mentions) ==
    \E family \in Families :
        /\ family \cap rule.terms # {}
        /\ (family \cap mentions) \ rule.terms # {}
DetectConflicts(rules, mentions) == {r \in rules : ConflictsWith(r, mentions)}

\* DecisionGate.classify of a prompt.
GateClassify(rules, p) == Classify(p.signals, DetectConflicts(rules, p.mentions))

HasGrant(rules, grant) == \E r \in rules : grant \in r.grants
AutonomyGrant(rules) == \E g \in Grants : HasGrant(rules, g)

\* The largest waiver of the rules, as a set that is empty when there is none.
CostWaiverThreshold(rules) ==
    LET waivers == UNION {r.waiver : r \in rules}
    IN  {w \in waivers : \A v \in waivers : v <= w}

-----------------------------------------------------------------------------
(* The gate and the answers of a person. *)

\* SifterConfig._enforce_safety and ApprovalConfig._protect_gates put the flags
\* for major and critical decisions back to true whatever is asked for.
ProtectGates(flags) == [flags EXCEPT !.major = TRUE, !.critical = TRUE]

ApprovalNeeded(flags, level) ==
    CASE level = "critical" -> flags.critical
      [] level = "major" -> flags.major
      [] level = "significant" -> flags.significant
      [] OTHER -> FALSE

Actions == {"approve", "reject", "modify", "choose_option", "more_local_analysis",
            "allow_expert_analysis", "continue_current", "stop"}

\* What a person types at the console: words that stand for an action, the key
\* of an option, a list of constraints, or something else.
Inputs == {"yes", "no", "stop", "modify", "more", "allow", "keep", "A", "B", "constraints", "other"}

\* parse_decision_input.  Every request lists options with a key A, so the word
\* "yes" is not an approval; keys C and D are read as words.
ParseDecisionInput(input, stage) ==
    CASE input = "no" -> "reject"
      [] input = "stop" -> "stop"
      [] input = "more" -> "more_local_analysis"
      [] input = "allow" -> "allow_expert_analysis"
      [] input = "keep" -> "continue_current"
      [] input = "A" -> IF stage = "implementation" THEN "choose_option" ELSE "continue_current"
      [] input = "B" -> IF stage = "implementation" THEN "modify" ELSE "allow_expert_analysis"
      [] input = "constraints" -> "approve"
      [] OTHER -> "modify"

\* AutoApprovalProvider as the application builds it: nothing is configured.
AutoDecision(level) == IF IsMajor(level) THEN "stop" ELSE "approve"
=============================================================================
