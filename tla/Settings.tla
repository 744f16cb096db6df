------------------------------ MODULE Settings ------------------------------
(***************************************************************************)
(* sifter/config: the application configuration with its profiles, how it  *)
(* is read from its file, the operations on profiles and how a profile     *)
(* becomes the configuration a process runs with.                          *)
(*                                                                         *)
(* A profile is what decides whether the cloud may be used and who is      *)
(* asked: its expert tier ("none", "off" or "on"), the two permissions     *)
(* (preferences and goal, a missing goal permits), the routing policy and  *)
(* the approval flags.  Profiles keep the order in which they were added.  *)
(***************************************************************************)
EXTENDS Decisions, SequencesExt

CONSTANTS
    Environment,  \* what the variables of the environment ask for: [cloudAllowed, policy, flags]
    Goals         \* what users of the command line may state as their goal

\* A goal and the machine it is stated for: is the cloud allowed, does the
\* catalog have a local and an expert model that fit, and the priorities of
\* quality (0.75 or more), cost (below 0.5, below 0.6, more) and privacy (0.6 or
\* more).
IsGoal(goal) ==
    goal \in [cloud : BOOLEAN, localFits : BOOLEAN, expertFits : BOOLEAN,
              quality : BOOLEAN, cost : {"low", "mid", "high"}, privacy : BOOLEAN]

ASSUME GoalsAssumption == \A goal \in Goals : IsGoal(goal)
ASSUME EnvironmentAssumption ==
    Environment \in [cloudAllowed : BOOLEAN, policy : {Environment.policy},
                     flags : [major : BOOLEAN, critical : BOOLEAN, significant : BOOLEAN]]

Default == "default"

DefaultProfile ==
    [expert |-> "on", prefs |-> TRUE, goal |-> TRUE, policy |-> "adaptive",
     flags |-> [major |-> TRUE, critical |-> TRUE, significant |-> FALSE]]

\* What is loaded from a text with nothing in it.
Empty == [active |-> Default, order |-> << >>, of |-> [n \in {} |-> DefaultProfile]]

\* ComputeProfile and ApplicationConfig: what every file that can be loaded,
\* and every copy of it, looks like.
IsComputeProfile(p) ==
    p \in [expert : {p.expert}, prefs : BOOLEAN, goal : BOOLEAN, policy : {p.policy},
           flags : [major : BOOLEAN, critical : BOOLEAN, significant : BOOLEAN]]
IsApplicationConfig(app) ==
    /\ app \in [active : {app.active}, order : {app.order}, of : {app.of}]
    /\ app.of = [n \in DOMAIN app.of |-> app.of[n]]
    /\ \A n \in DOMAIN app.of : IsComputeProfile(app.of[n])

Has(app, name) == name \in DOMAIN app.of
Put(app, name, profile) ==
    [app EXCEPT !.order = IF Has(app, name) THEN @ ELSE Append(@, name),
                !.of = [n \in DOMAIN @ \cup {name} |-> IF n = name THEN profile ELSE @[n]]]

\* ComputeProfile as it is validated when it is read.
ValidProfile(profile) == [profile EXCEPT !.flags = ProtectGates(@)]

\* Mutant: the name of the active profile is taken as it is.
ParseAsItIs(file) ==
    LET app == [file EXCEPT !.of = [n \in DOMAIN @ |-> ValidProfile(@[n])]]
    IN  IF Has(app, Default) THEN app ELSE Put(app, Default, DefaultProfile)

\* load_application_config: an empty file has no profiles, which is what an
\* old version has, so it is migrated to the default profile.
ParseApplicationConfig(file) ==
    LET app == [file EXCEPT !.of = [n \in DOMAIN @ |-> ValidProfile(@[n])]]
        completed == IF Has(app, Default) THEN app ELSE Put(app, Default, DefaultProfile)
    IN  [completed EXCEPT !.active = IF Has(completed, @) THEN @ ELSE Default]

\* The configuration file: there is none, it has been opened for writing and not
\* been written yet, it holds a text, or what it holds is not a text that can be
\* loaded.
Missing == [is |-> "missing", text |-> Empty]
Emptied == [is |-> "empty", text |-> Empty]
File(text) == [is |-> "toml", text |-> text]
Broken == [is |-> "broken", text |-> Empty]

\* write_text: writing starts at the beginning and does not shorten the file,
\* opening it did.  If another process has written meanwhile, what its text is
\* longer by is left.  A text ends with the table of hardware, so what is left
\* is nothing, more hardware, or that table again or a part of a line, which is
\* not valid TOML.
Overwritten(file, text) ==
    IF file = Emptied THEN {File(text)} ELSE {File(text), Broken}

\* load_application_config, of a file that is not broken.
LoadApplicationConfig(file) == ParseApplicationConfig(file.text)

-----------------------------------------------------------------------------
(* profiles.py, and the commands of the command line.  Each operation names *)
(* its profile; the ones on models and permissions apply to the active one. *)
Active(app) == app.of[app.active]
PutActive(app, profile) == IF Has(app, app.active) THEN Put(app, app.active, profile) ELSE app

ActivateProfile(app, name) == [app EXCEPT !.active = name]

CreateProfile(app, name) == Put(app, name, Active(app))

\* When the active profile is deleted, the first that is left becomes active.
DeleteProfile(app, name) ==
    LET left == SelectSeq(app.order, LAMBDA n : n # name)
    IN  [active |-> IF app.active = name /\ left # << >> THEN Head(left) ELSE app.active,
         order |-> left, of |-> [n \in DOMAIN app.of \ {name} |-> app.of[n]]]

\* set_tier: an expert tier that is added is enabled, one that is switched off
\* stays off.
SetTier(app) ==
    PutActive(app, [Active(app) EXCEPT !.expert = IF @ = "none" THEN "on" ELSE @])

\* update_profile and --cloud: both permissions follow the answer, the goal
\* does not.
UpdateProfile(app, cloud) ==
    PutActive(app, [Active(app) EXCEPT
        !.prefs = cloud, !.expert = IF @ = "none" THEN @ ELSE IF cloud THEN "on" ELSE "off"])

\* update_profile and --routing: any policy is accepted.
SetRouting(app) == PutActive(app, [Active(app) EXCEPT !.policy = "expert_first"])

\* detect_system: the hardware that was found is saved, with all the rest.
DetectSystem(app) == app

\* profile edit: whatever is edited, an expert tier that is missing is added,
\* and it is enabled.
ApplyProfileEdits(app) == SetTier(app)

\* recommend_profile: which models there are, and the scores by which one is
\* chosen, are left out.
RecommendPolicy(goal) ==
    IF ~goal.cloud \/ ~goal.expertFits THEN "local_only"
    ELSE IF ~goal.localFits THEN "expert_first"
    ELSE IF goal.quality /\ goal.cost = "low" THEN "adaptive"
    ELSE IF goal.cost = "high" \/ goal.privacy THEN "local_first"
    ELSE "adaptive"

PreferencesFromGoal(goal) == goal.cloud

RecommendProfile(goal) ==
    [expert |-> IF goal.cloud /\ goal.expertFits THEN "on" ELSE "none",
     prefs |-> PreferencesFromGoal(goal), goal |-> goal.cloud,
     policy |-> RecommendPolicy(goal), flags |-> DefaultProfile.flags]

\* recommend --save adds the recommended profile or, with --force, replaces one;
\* setup, and recommend with --use, make it the active one.
Recommend(app, name, goal) == Put(app, name, RecommendProfile(goal))
Setup(app, name, goal) == ActivateProfile(Recommend(app, name, goal), name)

LocalGoal == [cloud |-> FALSE, localFits |-> TRUE, expertFits |-> TRUE,
              quality |-> FALSE, cost |-> "mid", privacy |-> FALSE]
LocalProfile == RecommendProfile(LocalGoal)

\* import_profile: a profile from a file, here one that asks for no approvals;
\* with --force it replaces one.
Imported == [LocalProfile EXCEPT !.flags = [major |-> FALSE, critical |-> FALSE, significant |-> FALSE]]
ImportProfile(app, name) == Put(app, name, ValidProfile(Imported))

ServiceOps == {"activate", "create", "replace", "delete", "set_tier", "cloud_on", "cloud_off",
               "routing", "detect"}
GoalOps == {"setup", "recommend", "recommend_use"}
CommandOps == ServiceOps \cup GoalOps \cup {"edit", "import"}
\* The operations of the service after which it does not read the file again.
NoReload == {"create", "replace", "detect"}

\* The conditions under which an operation is not refused.
MayApply(app, op) ==
    CASE op.kind = "activate" -> Has(app, op.name)
      [] op.kind = "create" -> ~Has(app, op.name) /\ Has(app, app.active)
      [] op.kind = "delete" -> Has(app, op.name) /\ Len(app.order) > 1
      [] op.kind \in GoalOps \cup {"import", "detect"} -> TRUE
      [] OTHER -> Has(app, app.active)

\* An operation whose condition has ceased to hold meanwhile may raise: no
\* profile to copy, to delete or to make active instead of the deleted one.
Raises(app, op) ==
    CASE op.kind \in {"create", "replace"} -> ~Has(app, app.active)
      [] op.kind = "delete" -> ~Has(app, op.name) \/ app.order = <<app.active>>
      [] OTHER -> FALSE

Applied(app, op) ==
    CASE op.kind = "activate" -> ActivateProfile(app, op.name)
      [] op.kind \in {"create", "replace"} -> IF Has(app, app.active) THEN CreateProfile(app, op.name) ELSE app
      [] op.kind = "delete" -> DeleteProfile(app, op.name)
      [] op.kind = "set_tier" -> SetTier(app)
      [] op.kind = "cloud_on" -> UpdateProfile(app, TRUE)
      [] op.kind = "cloud_off" -> UpdateProfile(app, FALSE)
      [] op.kind = "routing" -> SetRouting(app)
      [] op.kind = "detect" -> DetectSystem(app)
      [] op.kind = "edit" -> ApplyProfileEdits(app)
      [] op.kind = "import" -> ImportProfile(app, op.name)
      [] op.kind = "recommend" -> Recommend(app, op.name, op.goal)
      [] OTHER -> Setup(app, op.name, op.goal)

-----------------------------------------------------------------------------
(* resolve.py *)

\* SifterConfig.from_env: what the environment asks for, the gates apart.
FromEnv == [Environment EXCEPT !.flags = ProtectGates(@)]

CloudAllowed(profile) == profile.expert = "on" /\ profile.prefs /\ profile.goal

ApplyProfile(profile) ==
    [cloudAllowed |-> CloudAllowed(profile), policy |-> profile.policy, flags |-> profile.flags]

\* The profile of that name, or the environment when there is none or it is not
\* to be applied; without the cloud the policy is local_only whatever was
\* configured.
ResolveConfig(app, name, applyProfile) ==
    LET base == IF applyProfile /\ Has(app, name) THEN ApplyProfile(app.of[name]) ELSE FromEnv
    IN  [base EXCEPT !.policy = IF base.cloudAllowed THEN @ ELSE "local_only"]

\* load_runtime_config: where there is no file the environment decides.
LoadRuntimeConfig(file, name) ==
    ResolveConfig(LoadApplicationConfig(file), name, file # Missing)

\* A configuration under which the gates work and the cloud is left alone
\* unless it is allowed.
Governed(config) ==
    /\ config.flags.major /\ config.flags.critical
    /\ config.cloudAllowed \/ config.policy = "local_only"
=============================================================================
