---------------------------- MODULE DesktopProofs ----------------------------
(***************************************************************************)
(* Proofs about the settings of the desktop service, for every set of      *)
(* threads, commands, profile names and files, every environment and goal. *)
(***************************************************************************)
EXTENDS Desktop, TLAPS

(***************************************************************************)
(* The default and the recommended profiles are profiles.                  *)
(***************************************************************************)
LEMMA DefaultIsProfile == IsComputeProfile(DefaultProfile)
BY DEF DefaultProfile, IsComputeProfile

\* What recommend_profile gives is a profile.
LEMMA RecommendedIsProfile ==
    ASSUME NEW goal, goal.cloud \in BOOLEAN
    PROVE  IsComputeProfile(RecommendProfile(goal))
BY DEF RecommendProfile, PreferencesFromGoal, IsComputeProfile, DefaultProfile

(***************************************************************************)
(* Validation keeps a profile a profile and makes its gates work.          *)
(***************************************************************************)
LEMMA ValidProfiles ==
    ASSUME NEW p, IsComputeProfile(p)
    PROVE  /\ IsComputeProfile(ValidProfile(p))
           /\ ValidProfile(p).flags.major /\ ValidProfile(p).flags.critical
<1> DEFINE flags == ProtectGates(p.flags)
<1>1. /\ flags \in [major : BOOLEAN, critical : BOOLEAN, significant : BOOLEAN]
      /\ flags.major /\ flags.critical
  BY DEF ProtectGates, IsComputeProfile
<1>2. ValidProfile(p) = [p EXCEPT !.flags = flags]
  BY DEF ValidProfile
<1> HIDE DEF flags
<1>3. QED
  BY <1>1, <1>2 DEF IsComputeProfile

(***************************************************************************)
(* A profile that is put into a configuration leaves the others alone.     *)
(***************************************************************************)
LEMMA PutKeepsType ==
    ASSUME NEW a, IsApplicationConfig(a), NEW name, NEW p, IsComputeProfile(p)
    PROVE  /\ IsApplicationConfig(Put(a, name, p))
           /\ Put(a, name, p).active = a.active
           /\ DOMAIN Put(a, name, p).of = DOMAIN a.of \cup {name}
           /\ \A n \in DOMAIN a.of : n # name => Put(a, name, p).of[n] = a.of[n]
           /\ Put(a, name, p).of[name] = p
<1> DEFINE new == Put(a, name, p)
<1>1. /\ new \in [active : {new.active}, order : {new.order}, of : {new.of}]
      /\ new.active = a.active
      /\ new.of = [n \in DOMAIN a.of \cup {name} |-> IF n = name THEN p ELSE a.of[n]]
  BY DEF Put, Has, IsApplicationConfig
<1>2. QED
  BY <1>1 DEF IsApplicationConfig

(***************************************************************************)
(* What is loaded from a file has the default profile and an active one,   *)
(* and the gates of all its profiles work (parse_application_config).      *)
(***************************************************************************)
LEMMA LoadedIsSound ==
    ASSUME NEW f, IsApplicationConfig(f)
    PROVE  LET loaded == ParseApplicationConfig(f)
           IN  /\ IsApplicationConfig(loaded)
               /\ Has(loaded, loaded.active)
               /\ \A n \in DOMAIN loaded.of : loaded.of[n].flags.major /\ loaded.of[n].flags.critical
<1> DEFINE valid == [f EXCEPT !.of = [n \in DOMAIN @ |-> ValidProfile(@[n])]]
           completed == IF Has(valid, Default) THEN valid ELSE Put(valid, Default, DefaultProfile)
           loaded == [completed EXCEPT !.active = IF Has(completed, @) THEN @ ELSE Default]
           Gates(a) == \A n \in DOMAIN a.of : a.of[n].flags.major /\ a.of[n].flags.critical
<1>1. IsApplicationConfig(valid) /\ Gates(valid)
  <2>1. /\ valid \in [active : {valid.active}, order : {valid.order}, of : {valid.of}]
        /\ valid.of = [n \in DOMAIN f.of |-> ValidProfile(f.of[n])]
    BY DEF IsApplicationConfig
  <2>2. \A n \in DOMAIN f.of : /\ IsComputeProfile(ValidProfile(f.of[n]))
                               /\ ValidProfile(f.of[n]).flags.major
                               /\ ValidProfile(f.of[n]).flags.critical
    BY ValidProfiles DEF IsApplicationConfig
  <2>3. QED
    BY <2>1, <2>2 DEF IsApplicationConfig
<1>2. IsApplicationConfig(completed) /\ Gates(completed) /\ Has(completed, Default)
  <2>1. CASE Has(valid, Default)
    BY <1>1, <2>1
  <2>2. CASE ~Has(valid, Default)
    <3>1. DefaultProfile.flags.major /\ DefaultProfile.flags.critical
      BY DEF DefaultProfile
    <3> HIDE DEF valid
    <3>2. QED
      BY <1>1, <2>2, <3>1, PutKeepsType, DefaultIsProfile DEF Has
  <2>3. QED
    BY <2>1, <2>2
<1>3. ParseApplicationConfig(f) = loaded
  BY DEF ParseApplicationConfig
<1> HIDE DEF completed
<1>4. /\ IsApplicationConfig(loaded) /\ Has(loaded, loaded.active) /\ Gates(loaded)
  BY <1>2 DEF IsApplicationConfig, Has
<1> HIDE DEF loaded
<1>5. QED
  BY <1>3, <1>4

\* Whatever the environment asks for, the gates stay (_enforce_safety).
LEMMA EnvironmentIsGated ==
    /\ FromEnv \in [cloudAllowed : BOOLEAN, policy : {FromEnv.policy}, flags : {FromEnv.flags}]
    /\ FromEnv.flags.major /\ FromEnv.flags.critical
<1> DEFINE flags == ProtectGates(Environment.flags)
<1>1. flags.major /\ flags.critical
  BY EnvironmentAssumption DEF ProtectGates
<1>2. FromEnv = [Environment EXCEPT !.flags = flags]
  BY DEF FromEnv
<1> HIDE DEF flags
<1>3. QED
  BY <1>1, <1>2, EnvironmentAssumption

(***************************************************************************)
(* Whatever profile is named, what a loaded configuration resolves to is   *)
(* governed (resolve_config).                                              *)
(***************************************************************************)
LEMMA ResolvedIsGoverned ==
    ASSUME NEW a, NEW name, NEW applyProfile \in BOOLEAN, IsApplicationConfig(a),
           \A n \in DOMAIN a.of : a.of[n].flags.major /\ a.of[n].flags.critical
    PROVE  Governed(ResolveConfig(a, name, applyProfile))
<1> DEFINE base == IF applyProfile /\ Has(a, name) THEN ApplyProfile(a.of[name]) ELSE FromEnv
<1>1. /\ base \in [cloudAllowed : BOOLEAN, policy : {base.policy}, flags : {base.flags}]
      /\ base.flags.major /\ base.flags.critical
  <2>1. CASE applyProfile /\ Has(a, name)
    BY <2>1 DEF Has, ApplyProfile, CloudAllowed, IsApplicationConfig, IsComputeProfile
  <2>2. CASE ~(applyProfile /\ Has(a, name))
    BY <2>2, EnvironmentIsGated
  <2>3. QED
    BY <2>1, <2>2
<1>2. ResolveConfig(a, name, applyProfile) =
        [base EXCEPT !.policy = IF base.cloudAllowed THEN @ ELSE "local_only"]
  BY DEF ResolveConfig
<1> HIDE DEF base
<1>3. QED
  BY <1>1, <1>2 DEF Governed

\* So is what the service loads from a file, or takes from the environment where
\* there is none (load_runtime_config).
LEMMA LoadedIsGoverned ==
    ASSUME NEW f, IsApplicationConfig(f.text), NEW name
    PROVE  Governed(LoadRuntimeConfig(f, name))
<1> DEFINE loaded == LoadApplicationConfig(f)
<1>1. /\ IsApplicationConfig(loaded)
      /\ \A n \in DOMAIN loaded.of : loaded.of[n].flags.major /\ loaded.of[n].flags.critical
  BY LoadedIsSound DEF LoadApplicationConfig
<1>2. (f # Missing) \in BOOLEAN
  OBVIOUS
<1>3. LoadRuntimeConfig(f, name) = ResolveConfig(loaded, name, f # Missing)
  BY DEF LoadRuntimeConfig
<1> HIDE DEF loaded
<1>4. QED
  BY <1>1, <1>2, <1>3, ResolvedIsGoverned

(***************************************************************************)
(* The profile that is edited is the active one; when there is none,       *)
(* nothing is.                                                             *)
(***************************************************************************)
LEMMA ActiveIsProfile ==
    ASSUME NEW a, IsApplicationConfig(a), Has(a, a.active)
    PROVE  IsComputeProfile(Active(a))
BY DEF IsApplicationConfig, Has, Active

\* set_tier and profile edit keep a configuration one.
LEMMA TierKeepsType ==
    ASSUME NEW a, IsApplicationConfig(a)
    PROVE  IsApplicationConfig(SetTier(a))
<1> DEFINE new == [Active(a) EXCEPT !.expert = IF @ = "none" THEN "on" ELSE @]
<1>1. CASE Has(a, a.active)
  <2>1. IsComputeProfile(new)
    BY <1>1, ActiveIsProfile DEF IsComputeProfile
  <2> HIDE DEF new
  <2>2. QED
    BY <1>1, <2>1, PutKeepsType DEF SetTier, PutActive, new
<1>2. CASE ~Has(a, a.active)
  BY <1>2 DEF SetTier, PutActive
<1>3. QED
  BY <1>1, <1>2

\* So does the answer about the cloud (update_profile).
LEMMA UpdateKeepsType ==
    ASSUME NEW a, IsApplicationConfig(a), NEW cloud \in BOOLEAN
    PROVE  IsApplicationConfig(UpdateProfile(a, cloud))
<1> DEFINE new == [Active(a) EXCEPT !.prefs = cloud,
                       !.expert = IF @ = "none" THEN @ ELSE IF cloud THEN "on" ELSE "off"]
<1>1. CASE Has(a, a.active)
  <2>1. IsComputeProfile(new)
    BY <1>1, ActiveIsProfile DEF IsComputeProfile
  <2> HIDE DEF new
  <2>2. QED
    BY <1>1, <2>1, PutKeepsType DEF UpdateProfile, PutActive, new
<1>2. CASE ~Has(a, a.active)
  BY <1>2 DEF UpdateProfile, PutActive
<1>3. QED
  BY <1>1, <1>2

\* So does another routing policy (update_profile).
LEMMA RoutingKeepsType ==
    ASSUME NEW a, IsApplicationConfig(a)
    PROVE  IsApplicationConfig(SetRouting(a))
<1> DEFINE new == [Active(a) EXCEPT !.policy = "expert_first"]
<1>1. CASE Has(a, a.active)
  <2>1. IsComputeProfile(new)
    BY <1>1, ActiveIsProfile DEF IsComputeProfile
  <2> HIDE DEF new
  <2>2. QED
    BY <1>1, <2>1, PutKeepsType DEF SetRouting, PutActive, new
<1>2. CASE ~Has(a, a.active)
  BY <1>2 DEF SetRouting, PutActive
<1>3. QED
  BY <1>1, <1>2

(***************************************************************************)
(* Profiles are made active, deleted and added.                            *)
(***************************************************************************)
LEMMA ActivateKeepsType ==
    ASSUME NEW a, IsApplicationConfig(a), NEW name
    PROVE  IsApplicationConfig(ActivateProfile(a, name))
BY DEF ActivateProfile, IsApplicationConfig

\* What delete_profile leaves is a configuration.
LEMMA DeleteKeepsType ==
    ASSUME NEW a, IsApplicationConfig(a), NEW name
    PROVE  IsApplicationConfig(DeleteProfile(a, name))
<1> DEFINE rest == SelectSeq(a.order, LAMBDA n : n # name)
           first == IF a.active = name /\ rest # << >> THEN Head(rest) ELSE a.active
           kept == [n \in DOMAIN a.of \ {name} |-> a.of[n]]
<1>1. DeleteProfile(a, name) = [active |-> first, order |-> rest, of |-> kept]
  BY DEF DeleteProfile
<1>2. /\ kept = [n \in DOMAIN kept |-> kept[n]]
      /\ \A n \in DOMAIN kept : IsComputeProfile(kept[n])
  BY DEF IsApplicationConfig
<1> HIDE DEF rest, first, kept
<1>3. QED
  BY <1>1, <1>2 DEF IsApplicationConfig

\* A recommended profile may be added and made active.
LEMMA SetupKeepsType ==
    ASSUME NEW a, IsApplicationConfig(a), NEW name, NEW goal, goal.cloud \in BOOLEAN
    PROVE  /\ IsApplicationConfig(Recommend(a, name, goal))
           /\ IsApplicationConfig(Setup(a, name, goal))
<1>1. IsApplicationConfig(Recommend(a, name, goal))
  BY PutKeepsType, RecommendedIsProfile DEF Recommend
<1>2. QED
  BY <1>1, ActivateKeepsType DEF Setup

\* An imported profile is validated before it is added.
LEMMA ImportKeepsType ==
    ASSUME NEW a, IsApplicationConfig(a), NEW name
    PROVE  IsApplicationConfig(ImportProfile(a, name))
<1>1. LocalGoal.cloud \in BOOLEAN
  BY DEF LocalGoal
<1>2. IsComputeProfile(LocalProfile)
  BY <1>1, RecommendedIsProfile DEF LocalProfile
<1>3. IsComputeProfile(Imported)
  BY <1>2 DEF Imported, IsComputeProfile
<1>4. QED
  BY <1>3, ValidProfiles, PutKeepsType DEF ImportProfile

(***************************************************************************)
(* Every operation on a configuration gives a configuration, also one      *)
(* whose condition does not hold any more.                                 *)
(***************************************************************************)
LEMMA AppliedKeepsType ==
    ASSUME NEW a, IsApplicationConfig(a), NEW op, op.goal.cloud \in BOOLEAN
    PROVE  IsApplicationConfig(Applied(a, op))
<1>1. IsApplicationConfig(ActivateProfile(a, op.name))
  BY ActivateKeepsType
<1>2. IsApplicationConfig(IF Has(a, a.active) THEN CreateProfile(a, op.name) ELSE a)
  BY ActiveIsProfile, PutKeepsType DEF CreateProfile
<1>3. IsApplicationConfig(DeleteProfile(a, op.name))
  BY DeleteKeepsType
<1>4. IsApplicationConfig(UpdateProfile(a, TRUE)) /\ IsApplicationConfig(UpdateProfile(a, FALSE))
  BY UpdateKeepsType
<1>5. /\ IsApplicationConfig(SetTier(a)) /\ IsApplicationConfig(SetRouting(a))
      /\ IsApplicationConfig(ApplyProfileEdits(a)) /\ IsApplicationConfig(DetectSystem(a))
  BY TierKeepsType, RoutingKeepsType DEF ApplyProfileEdits, DetectSystem
<1>6. IsApplicationConfig(ImportProfile(a, op.name))
  BY ImportKeepsType
<1>7. /\ IsApplicationConfig(Recommend(a, op.name, op.goal))
      /\ IsApplicationConfig(Setup(a, op.name, op.goal))
  BY SetupKeepsType
<1>8. QED
  BY <1>1, <1>2, <1>3, <1>4, <1>5, <1>6, <1>7 DEF Applied

-----------------------------------------------------------------------------
(***************************************************************************)
(* The inductive invariant.  SettingsAreSound looks at the file only; what *)
(* will be written to the file is in the memory of the service and in the  *)
(* changes that are under way, so these have to be configurations as well. *)
(***************************************************************************)
ChangesAreTyped ==
    /\ change = [e \in Editors |-> change[e]]
    /\ \A e \in Editors :
          /\ change[e] \in [op : {change[e].op}, step : {change[e].step}, payload : {change[e].payload}]
          /\ IsApplicationConfig(change[e].payload)
          /\ change[e].op.goal.cloud \in BOOLEAN

SettingsInv ==
    /\ IsApplicationConfig(file.text)
    /\ IsApplicationConfig(app)
    /\ ChangesAreTyped
    /\ Governed(config) /\ Governed(running)

\* A file that has just been emptied is read as one without profiles.
LEMMA EmptyIsConfig == IsApplicationConfig(Empty)
<1> DEFINE none == [n \in {} |-> DefaultProfile]
<1>1. none = [n \in DOMAIN none |-> none[n]] /\ DOMAIN none = {}
  OBVIOUS
<1> HIDE DEF none
<1>2. Empty = [active |-> Default, order |-> << >>, of |-> none]
  BY DEF Empty, none
<1>3. QED
  BY <1>1, <1>2 DEF IsApplicationConfig

\* The record of no change has the type of a change.
LEMMA NoChangeIsTyped ==
    /\ NoChange \in [op : {NoChange.op}, step : {NoChange.step}, payload : {NoChange.payload}]
    /\ IsApplicationConfig(NoChange.payload)
    /\ NoChange.op.goal.cloud \in BOOLEAN
BY EmptyIsConfig DEF NoChange, LocalGoal

\* Every operation of a user is stated with a goal, if only with that of none.
LEMMA OpsHaveGoals ==
    ASSUME NEW op \in Ops
    PROVE  op.goal.cloud \in BOOLEAN
<1>1. op.goal \in Goals \/ op.goal = LocalGoal
  BY DEF Ops
<1>2. CASE op.goal \in Goals
  BY <1>2, GoalsAssumption DEF IsGoal
<1>3. CASE op.goal = LocalGoal
  BY <1>3 DEF LocalGoal
<1>4. QED
  BY <1>1, <1>2, <1>3

\* One change at a time is replaced by another of the same type.
LEMMA ChangesStayTyped ==
    ASSUME ChangesAreTyped, NEW e, NEW new,
           change' = [change EXCEPT ![e] = new],
           new \in [op : {new.op}, step : {new.step}, payload : {new.payload}],
           IsApplicationConfig(new.payload), new.op.goal.cloud \in BOOLEAN
    PROVE  ChangesAreTyped'
BY DEF ChangesAreTyped

\* The service starts from what it has loaded.
LEMMA InitialSettings == Init => SettingsInv
<1> SUFFICES ASSUME Init PROVE SettingsInv
  OBVIOUS
<1>1. IsApplicationConfig(file.text)
  BY FilesAssumption DEF Init
<1>2. /\ app = LoadApplicationConfig(file)
      /\ config = LoadRuntimeConfig(file, app.active) /\ running = config
  BY DEF Init
<1>3. IsApplicationConfig(app) /\ Governed(config) /\ Governed(running)
  BY <1>1, <1>2, LoadedIsSound, LoadedIsGoverned DEF LoadApplicationConfig
<1>4. ChangesAreTyped
  <2>1. change = [e \in Editors |-> NoChange]
    BY DEF Init
  <2>2. QED
    BY <2>1, NoChangeIsTyped DEF ChangesAreTyped
<1>5. QED
  BY <1>1, <1>3, <1>4 DEF SettingsInv

\* A step that leaves the settings alone leaves the invariant alone.
LEMMA SettingsStutter ==
    ASSUME SettingsInv, UNCHANGED settingsVars
    PROVE  SettingsInv'
BY DEF SettingsInv, settingsVars, ChangesAreTyped, Governed

(***************************************************************************)
(* One lemma for the steps about settings; all the others leave them alone.*)
(***************************************************************************)
LEMMA SettingsStepKeepsInv ==
    ASSUME SettingsInv, NEW e \in Editors, NEW op, op.goal.cloud \in BOOLEAN,
           \/ CheckChange(e, op) \/ ApplyChange(e) \/ Dump(e) \/ RunCommand(e, op)
           \/ OpenFile(e) \/ WriteFile(e) \/ KillCommand(e) \/ Reload(e)
    PROVE  SettingsInv'
<1> DEFINE c == change[e]
<1>c. /\ ChangesAreTyped
      /\ c \in [op : {c.op}, step : {c.step}, payload : {c.payload}]
      /\ IsApplicationConfig(c.payload)
      /\ c.op.goal.cloud \in BOOLEAN
  BY DEF SettingsInv, ChangesAreTyped
<1>g. Governed(config) /\ Governed(running) /\ IsApplicationConfig(file.text) /\ IsApplicationConfig(app)
  BY DEF SettingsInv
<1> DEFINE Typed(new) == /\ new \in [op : {new.op}, step : {new.step}, payload : {new.payload}]
                         /\ IsApplicationConfig(new.payload)
                         /\ new.op.goal.cloud \in BOOLEAN
<1>n. Typed(NoChange)
  BY NoChangeIsTyped
<1>1. CASE CheckChange(e, op)
  <2> DEFINE new == [c EXCEPT !.op = op, !.step = "checked"]
  <2>1. change' = [change EXCEPT ![e] = new]
    BY <1>1, <1>c DEF CheckChange, ChangesAreTyped
  <2>2. Typed(new)
    BY <1>c
  <2> HIDE DEF new
  <2>3. ChangesAreTyped'
    BY <1>c, <2>1, <2>2, ChangesStayTyped
  <2>4. UNCHANGED <<app, file, config, running>>
    BY <1>1 DEF CheckChange
  <2>5. QED
    BY <1>g, <2>3, <2>4 DEF SettingsInv, Governed
<1>2. CASE ApplyChange(e)
  <2> DEFINE new == IF Raises(app, c.op) THEN NoChange ELSE [c EXCEPT !.step = "applied"]
  <2>1. change' = [change EXCEPT ![e] = new]
    BY <1>2, <1>c DEF ApplyChange, ChangesAreTyped
  <2>2. Typed(new)
    <3>1. Typed([c EXCEPT !.step = "applied"])
      BY <1>c
    <3>2. QED
      BY <3>1, <1>n
  <2> HIDE DEF new
  <2>3. ChangesAreTyped'
    BY <1>c, <2>1, <2>2, ChangesStayTyped
  <2>4. UNCHANGED <<file, config, running>> /\ app' = Applied(app, c.op)
    BY <1>2 DEF ApplyChange
  <2>5. IsApplicationConfig(app')
    BY <1>c, <1>g, <2>4, AppliedKeepsType
  <2>6. QED
    BY <1>g, <2>3, <2>4, <2>5 DEF SettingsInv, Governed
<1>3. CASE Dump(e)
  <2> DEFINE new == [c EXCEPT !.step = "dumped", !.payload = app]
  <2>1. change' = [change EXCEPT ![e] = new]
    BY <1>3, <1>c DEF Dump, ChangesAreTyped
  <2>2. Typed(new)
    BY <1>c, <1>g
  <2> HIDE DEF new
  <2>3. ChangesAreTyped'
    BY <1>c, <2>1, <2>2, ChangesStayTyped
  <2>4. UNCHANGED <<app, file, config, running>>
    BY <1>3 DEF Dump
  <2>5. QED
    BY <1>g, <2>3, <2>4 DEF SettingsInv, Governed
<1>4. CASE RunCommand(e, op)
  <2> DEFINE result == Applied(LoadApplicationConfig(file), op)
             new == [op |-> op, step |-> "dumped", payload |-> result]
  <2>1. change' = [change EXCEPT ![e] = new]
    BY <1>4 DEF RunCommand
  <2>2. IsApplicationConfig(result)
    BY <1>g, LoadedIsSound, AppliedKeepsType DEF LoadApplicationConfig
  <2>3. Typed(new)
    <3> HIDE DEF result
    <3>1. QED
      BY <2>2
  <2> HIDE DEF new
  <2>4. ChangesAreTyped'
    BY <1>c, <2>1, <2>3, ChangesStayTyped
  <2>5. UNCHANGED <<app, file, config, running>>
    BY <1>4 DEF RunCommand
  <2>6. QED
    BY <1>g, <2>4, <2>5 DEF SettingsInv, Governed
<1>5. CASE OpenFile(e)
  <2> DEFINE new == [c EXCEPT !.step = "opened"]
  <2>1. change' = [change EXCEPT ![e] = new]
    BY <1>5, <1>c DEF OpenFile, SetStep, ChangesAreTyped
  <2>2. Typed(new)
    BY <1>c
  <2> HIDE DEF new
  <2>3. ChangesAreTyped'
    BY <1>c, <2>1, <2>2, ChangesStayTyped
  <2>4. UNCHANGED <<app, config, running>> /\ file'.text = Empty
    BY <1>5 DEF OpenFile, Emptied
  <2>5. QED
    BY <1>g, <2>3, <2>4, EmptyIsConfig DEF SettingsInv, Governed
<1>6. CASE WriteFile(e)
  <2> DEFINE new == IF e \in Threads /\ c.op.kind \notin NoReload
                    THEN [c EXCEPT !.step = "written"] ELSE NoChange
  <2>1. change' = [change EXCEPT ![e] = new]
    BY <1>6, <1>c DEF WriteFile, ChangesAreTyped
  <2>2. Typed(new)
    <3>1. Typed([c EXCEPT !.step = "written"])
      BY <1>c
    <3>2. QED
      BY <3>1, <1>n
  <2> HIDE DEF new
  <2>3. ChangesAreTyped'
    BY <1>c, <2>1, <2>2, ChangesStayTyped
  <2>4. UNCHANGED <<app, config, running>> /\ file' \in Overwritten(file, c.payload)
    BY <1>6 DEF WriteFile
  <2>5. file'.text = c.payload \/ file'.text = Empty
    BY <2>4 DEF Overwritten, File, Broken
  <2>6. IsApplicationConfig(file'.text)
    BY <1>c, <2>5, EmptyIsConfig
  <2>7. QED
    BY <1>g, <2>3, <2>4, <2>6 DEF SettingsInv, Governed
<1>7. CASE KillCommand(e)
  <2>1. ChangesAreTyped'
    BY <1>7, <1>c, <1>n, ChangesStayTyped DEF KillCommand
  <2>2. UNCHANGED <<app, file, config, running>>
    BY <1>7 DEF KillCommand
  <2>3. QED
    BY <1>g, <2>1, <2>2 DEF SettingsInv, Governed
<1>8. CASE Reload(e)
  <2>1. ChangesAreTyped'
    BY <1>8, <1>c, <1>n, ChangesStayTyped DEF Reload
  <2>2. /\ UNCHANGED <<app, file, running>>
        /\ config' = config \/ config' = LoadRuntimeConfig(file, app.active)
    BY <1>8 DEF Reload
  <2>3. Governed(config')
    <3>1. Governed(LoadRuntimeConfig(file, app.active))
      BY <1>g, LoadedIsGoverned
    <3>2. QED
      BY <1>g, <2>2, <3>1
  <2>4. QED
    BY <1>g, <2>1, <2>2, <2>3 DEF SettingsInv, Governed
<1>9. QED
  BY <1>1, <1>2, <1>3, <1>4, <1>5, <1>6, <1>7, <1>8

\* Every step of the service, of its users and of commands keeps the invariant.
LEMMA NextKeepsSettings == SettingsInv /\ [Next]_vars => SettingsInv'
<1> SUFFICES ASSUME SettingsInv, [Next]_vars PROVE SettingsInv'
  OBVIOUS
<1>1. CASE LoopStep \/ HandlerStep \/ StreamStep \/ UNCHANGED vars
  <2>1. UNCHANGED settingsVars
    BY <1>1 DEF LoopStep, HandlerStep, StreamStep, vars, Start, SetFuture, DeliverCancel, Stop,
         RequestApproval, AwaitAnswer, ReceiveDecision, Settle, ThrowCancelled, Unwind,
         Done, PutEvent, AnnounceCancel, CancelFuture, PostAnswer, Schedule, Replay, EndIfTerminal, WriteEvent, Ping
  <2>2. QED
    BY <2>1, SettingsStutter
<1>2. CASE SettingsStep
  BY <1>2, SettingsStepKeepsInv, NoChangeIsTyped DEF SettingsStep
<1>3. CASE UserStep
  <2>1. CASE \E e \in Editors : KillCommand(e) \/ \E op \in Ops : CheckChange(e, op) \/ RunCommand(e, op)
    BY <2>1, SettingsStepKeepsInv, OpsHaveGoals, NoChangeIsTyped
  <2>2. CASE \/ \E t \in Tasks : Submit(t) \/ Cancel(t) \/ \E a \in Answers : ResolveApproval(t, a)
             \/ \E s \in Streams : Disconnect(s) \/ \E t \in Tasks : Subscribe(s, t)
             \/ Close
    <3>1. UNCHANGED settingsVars
      BY <2>2 DEF Submit, Cancel, ResolveApproval, Disconnect, Subscribe, Close
    <3>2. QED
      BY <3>1, SettingsStutter
  <2>3. QED
    BY <1>3, <2>1, <2>2 DEF UserStep
<1>4. QED
  BY <1>1, <1>2, <1>3 DEF Next

\* Whatever is in a file that can be loaded, loading it makes it sound.
LEMMA InvMeansSound == SettingsInv => SettingsAreSound
BY LoadedIsSound, LoadedIsGoverned DEF SettingsInv, SettingsAreSound, LoadApplicationConfig

(***************************************************************************)
(* However changes of settings by threads of the service and by commands   *)
(* interleave, wherever a command is killed and whatever two writers at    *)
(* once leave: a file that can be loaded has an active profile and gives a *)
(* configuration that is governed, and so are the configurations in use    *)
(* (config/store.py, profiles.py, resolve.py, desktop/service.py).         *)
(***************************************************************************)
THEOREM SettingsSound == Spec => []SettingsAreSound
<1>1. Init => SettingsInv
  BY InitialSettings
<1>2. SettingsInv /\ [Next]_vars => SettingsInv'
  BY NextKeepsSettings
<1>3. SettingsInv => SettingsAreSound
  BY InvMeansSound
<1>4. QED
  BY <1>1, <1>2, <1>3, PTL DEF Spec
=============================================================================
