# TLA+ models of aa

aa is a workspace of Go and Python modules that run AI work under supervision. This
directory holds TLA+ modules of its core, the TLC configurations that model-check
them and the proofs that TLAPS checks. Every definition is translated from the
source; `PROJECT.json` maps each one to the lines it stands for.

    tlasany M.tla                      parse
    tlc -config X.cfg M                model-check (runs are listed in PROJECT.json)
    tlapm M.tla                        check the proofs of a module

## 1. The system

| Component | State it keeps | Operations | Talks to |
|---|---|---|---|
| `kernel` (plan, registry, control, contract, intake, gate, telemetry, orchestrator, api) | plan graph, assignments with leases, results, hashes of seen envelopes, approvals, event sequence, telemetry, candidates | `Dispatch`, `Resolve`, `Approve`, `Registry.Add` | an untrusted agent runtime, an event sink, a human |
| `toolbox/workflow` | a compiled plan; the run state lives with the caller | `Compile`, `Run` (resumable) | tool runner, compensator, gate evaluator |
| `toolbox` host, policy, registry, rpc | providers, invocation cache, approvals | `Invoke`, `Register`, `Decide` | tool providers |
| `sync/transport`, `sync/transfer` | one bounded inbox per node, injected failures; chunks a receiver holds | `Send`, `Receive`, `FailNext`; `Transfer`, `Serve`, `Receiver.Run`, `Accept` | each other, over goroutines |
| `sync/distribute`, `sync/rpc`, `sync/parallel` | receipts, packages, artifacts on two nodes; an RPC reply cache | `Distribute`, `FetchArtifact`, `Peer.Serve`, `Handle`, `Assign` | transport |
| `sync/revision`, `sync/queue`, `sync/identity` | revision sets, tombstones, an offline queue; peers and used tokens | `Diff`, `Apply`, `Enqueue`, `Reconcile`; `Offer`, `Accept` | other replicas |
| `memory` store, repos, projection, query | files: records with revisions, an event log, a retention floor; an in-memory projection | `PutRecord`, `AppendEvent`, `RetainAfter`, `SetStatus`, `Supersede`, `Promote`, `Rebuild` | the file system |
| `forge` lifecycle, fake, memsync, rpc, templates | repositories, branches, milestones, issues, pull requests, an audit log | `StartPhase`, `CompletePhase`, merges after a human's approval | a forge service |
| `visualizer` source, bridge, session, replay | event history, subscribers' channels, a replay cursor | `Append`, `Subscribe`, `Step`, `Seek` | the kernel's events |
| `sifter` (Python) app, decisions, routing, models, context, verification | standing rules; per task its decisions, budget, route and attempts; a history | `run`, `generate`, `add_rule` | local and remote models, a human, check commands |
| `sifter/desktop` | task records, an event loop with its queue, subscribers, the service's copy of the configuration | `submit`, `cancel`, `resolve_approval`, `close`, event streams, changes of profiles | the sifter, the user interface |
| `sifter/config`, `cli` | profiles in memory and in one file | load, save, activate, create, delete, edit, set up, import | the file system, environment variables |
| `sifter/tasks`, `rpc`, `history`, `metrics`, `recommend` | a task graph; an idempotency table; rows and counters | executor `run`; `route`, `generate` over RPC | |
| `contracts` | none: data types and validation in three languages | | everyone |
| `console`, `obsv`, `tools` | placeholders and build-time checks | | |

Hard behaviours, and what has to hold in spite of them:

- **kernel**: a dispatch holds the service mutex while the runtime runs, but the human
  gate has a mutex of its own; the graph and the assignments are separate maps whose
  update errors are thrown away; envelopes are untrusted. *No work starts before its
  dependencies were accepted, none is accepted without its gates, a verdict is final.*
- **toolbox/workflow**: runs are interrupted by gates, failures and process deaths and are
  resumed from what the caller persisted, perhaps under a changed plan. *Finished work is
  not repeated, dependencies come first, attempts are not forgotten.*
- **sync/transfer**: a call that returns early leaves a goroutine behind that keeps reading
  the shared inbox. *No chunk is lost, success means the whole payload, calls return.*
- **sync/distribute**: concurrent and abandoned sessions share one inbox per node.
  *What is stored is whole and filed under its own name; a receipt means delivery.*
- **memory**: several handles and processes write files without locks and may die between
  two writes. *Accepted revisions and events are not lost, the projection equals the store.*
- **forge**: a phase is a sequence of remote calls that can fail in the middle and be
  retried. *Retries converge and nothing is merged without approval.*
- **visualizer**: delivery happens after the lock is released. *Subscribers see the stored
  order; a slow one does not stop the others.*
- **sifter**: one task goes through up to three questions to a person, an expert's advice, a
  plan, attempts, retries, a review and an escalation, each of which can fail, be refused by
  the budget or be cancelled; messages are cut to the context of a model before they are
  redacted. *A person decides what models may do and a profile what may leave the machine,
  however long ago that was; money is bounded; an outcome is earned.*
- **sifter/desktop**: threads of the interface and the event loop share task records; settings
  are changed in memory and in a file by several threads and processes, which may write it at
  once. *The first answer decides, no event is lost before "done", cancellation and streams end,
  the settings in use keep their gates.*

`PROJECT.json` lists the hazards line by line, with the properties that watch them.

## 2. The modules

### Kernel

| Module | Models |
|---|---|
| `Control` | `kernel/control`: the assignment states and the transition table; `Move` is `Transition` with its error thrown away |
| `Gate` | `kernel/gate`: decisions of the tests and the human gate, `Evaluate` |
| `Intake` | `kernel/intake`: validation, deduplication and the content hash of envelopes |
| `Registry` | `kernel/registry`, `kernel/contract`: eligibility, the choice of a worker, which contracts can be built |
| `Kernel` | `kernel/orchestrator` behind `kernel/api`, `plan.Graph.Ready`, `telemetry.Derive` |
| `SupervisedRun` | the abstract promise: started once and after its dependencies, accepted only with consent when supervised, final |
| `KernelProofs` | theorems about `Kernel` |

`Kernel`'s variables are the orchestrator's fields: `graph`, `assignments`, `results`,
`seen` (intake), `approved` (human gate), `workers` (registry), `events` (the sink; its
length is the sequence), `telemetry`, `candidates`. `Dispatch` is split where it calls the
runtime: `DispatchBegin`, then `RunFails` (the runtime returned an error) or
`RunReturns` (an envelope: `RunRefused` by intake or `RunRecorded`). `inflight` is the
dispatch that holds the mutex in between. `DispatchNothing` and `DispatchRefused` are its
early returns. `Approve` goes through the service and waits for the mutex;
`HumanGateApprove` is the gate's own method and does not. A refused envelope leaves the
package RUNNING in the graph with no assignment (`Stranded`), as the code does. Result
contents are reduced to what intake and the gates tell apart: the status (valid or not),
whether tests were reported and all passed, whether a failure is attached.

### Workflow

`Workflow` models `Compile` and `Run`. The compiler is Kahn's algorithm step by step
(`EmitStep`, `CompileReturns`, `CompileRejects`), over every dependency graph. `Run` is one
action per outcome of a step: `PassOver`, `GatePasses`, `StepAwaits`, `NoRunner`,
`AttemptSucceeds`, `AttemptFails`, `CompensationFails`, `PolicyApplies`, and
`PolicyPanics` where the code dereferences a nil error. `saved` is what the caller
persisted: `Persist` stores what `Run` returned, `Restart` is the death of the process
before that, `Replan` a recompilation with other retries. `WorkflowProofs` holds the theorems.

### Transfer

`Wire` is `sync/transport`: FIFO inboxes of bounded capacity shared by all connections of a
node, with injected failures. `Transfer` is `sync/transfer` on it: `Start` is the call,
`Run...` are the steps of the goroutine in `Receiver.Run`, `Serve...`, `Push...`, `Join`
those of the caller. A goroutine outlives a call that returned early. The receiver's maps
have no lock, so two goroutines using them at once may be stopped by the Go runtime
(`MapFault`) or run one after the other. A chunk is its index and an abstract datum; the
hash check is equality with the manifest's datum. The receiver may start with any chunks,
since `Accept` is public. `TransferProofs` holds the theorems.

### Distribution

`Distribution` is `sync/distribute` on the same `Wire`. A *party* is a call of `Distribute`
or `FetchArtifact` on the local node, or a call of `Peer.Serve` (a session) on the remote
one; its `pc` says which frame it sends or waits for next, the other fields are its locals.
All parties of a node read the node's one inbox, so a frame reaches whichever of them
receives first. Package: hello, offer, chunks, close; artifact: request, then the same from
the other side, or a close frame if it is not published. Both receivers are new, so every
offer is empty, and the caller runs them directly, without the goroutine `Transfer` models.
`GiveUp` is a context that ends while a party waits, `SendFrameFails` a drop or a full inbox.
A manifest is its payload: the hash check is equality. `StorePackage`, `StoreArtifact` and
`StoreReceipt` are the sections under the mutex. `receipts`, `artifacts` and `packages` are
the maps that outlive a call; artifacts are published before the run. `quiet` is a history
variable: the call that began with one listening session, empty inboxes and no pending drop,
and that no later session, call, timeout or failed send has disturbed.

### Sifter

| Module | Models |
|---|---|
| `Decisions` | `sifter/decisions`: signals and their levels, standing rules with conflicts and grants, when approval is needed, how an answer typed at the console is read, what the automatic provider answers |
| `Routing` | `sifter/routing`, `context`, `verification`: the assessment, the policy engine, the budget, fitting to a context, redaction, verdicts, when an escalation needs a person |
| `Providers` | `sifter/models`: which providers are built, which one serves a model, where its endpoint is |
| `Sifter` | `sifter/app`: one task from `run` to its recorded outcome, and `generate` |
| `HumanAuthority` | the abstract promise of the approval gate |
| `SifterProofs` | theorems about `Sifter` |

`Sifter` cuts the coroutine at its awaits. `pc` says where it is: *asking* a person (`stage`
tells which of the three requests), *routing*, with a call *prepared* for `_call_tier`,
*calling* a provider, *verifying*, *escalating*. `Run` is classification and the gate,
`AnswerAnalysis` and `AnswerImplementation` are `_handle_major_decision`, `Route` is the rest of
`_run_impl`, `Escalate` and `AnswerEscalation` are `_escalate_after_failure`. A prepared call
meets, in this order, a missing provider (`NoProvider`), the profile (`RefusedByProfile`), the
budget (`RefusedByBudget`) or is sent (`SendCall`); then `PostFails` is a request the provider
sends again, `CallFails` a `ProviderError`, `CallRaises` an exception nobody handles,
`CallReturns` an answer. `sent`, `egress` and `history` are what the outside has seen.

A prompt is the signals its words give, the technologies it mentions, its length and the kinds
of secret in it: the patterns that find these are the sets of names in `Decisions` and
`Routing`. Scores are integers (1/100000), money is in whole units. The console reads an
unknown word as a modification, a "yes" included, as the code does. `generate` asks no person
and has no budget; the profile and the redaction apply to it. A failed call is not charged.

The messages of a call are what the prompt and its context contribute to it (`Carried`, less for
a plan or a review) and one of `Extras`, the tokens of instructions, constraints, plans and
answers. `_call_tier` fits them to the context of the model first (`IsCut`), then redacts, then
estimates (`EstimatedTokens`). A cut takes the middle out of a message, and half a secret need not
match its pattern, so a cut call may keep any part of the secrets (`Redact`); one that is not cut
has none when redaction is on. The context of an analysis is sliced at 4000 characters before that
(`IsSliced`), with the same effect. `sent` records the purposes of the calls, `egress` whether what
left was cut and which secrets it held. Which constraints a call is told is not modelled.

### Desktop and settings

`Settings` has the operations on an application configuration as operators: reading it
(`ParseApplicationConfig`, with migration, the default profile and the protected gates), each
operation of `profiles.py` and of the commands, the profile a recommendation gives for a goal
(`RecommendPolicy`), and `ResolveConfig`, which turns a profile into what a process runs with. A
profile is applied only when the file exists; otherwise the environment decides (`Environment`).
The file is missing, empty, a text, or `Broken`. `write_text` empties the file when it opens it and
does not truncate it when it writes, so two writers that have both opened it overwrite one
another (`Overwritten`): what a longer first text leaves behind the second is nothing, more of its
last table, which is about hardware, or something that is not TOML. A text is one write call, so a
reader sees all of it or none. Loading a broken file raises: a command ends (`RunCommand`), the
service keeps the configuration it has (`Reload`).

`Desktop` has three parts that interleave. The event loop executes one callback of `queue` or
one coroutine at a time (`LoopFree`), and a coroutine is cut at its awaits and where other threads
can see a half-made change: `RequestApproval` announces a request before `AwaitAnswer` makes it
answerable, `Settle` changes the status before `Done`, and `Unwind` follows `ThrowCancelled`
where a request had to be closed first. Requests of the interface check first
(`Cancel`, `ResolveApproval`, `Submit`) and act later (`AnnounceCancel`, then `CancelFuture`;
`PostAnswer`; `Schedule`), and reach the loop through its queue. `emit` is cut where it releases the
record's lock: `Emit` appends the event and notes the subscribers, `PutEvent` puts it to one of them
at a time. There are two emitters, the loop, which does nothing else until its event is put, and
the thread that cancels; what one appends second may be put first. Setting the status and appending
the event that goes with it are one step, because streams read the events first and then the
status. An event stream subscribes, replays, looks at
the status and follows its queue. Settings are checked, changed, dumped and written by each
thread (`CheckChange`, `ApplyChange`, `Dump`, `OpenFile`, `WriteFile`, `Reload`) or loaded,
changed and written by a command, which may be killed between emptying the file and writing it.
The run of the sifter inside a task is reduced to asking, ending with a status, and being
cancelled. The queues of subscribers are unbounded. `left` bounds what users do, and one thread at a
time handles a request to cancel or to answer. `DesktopProofs` has the theorem about the
settings, `DesktopTaskProofs` those about tasks, answers and streams.

## 3. The runs

| Run | Asks | Bounds |
|---|---|---|
| `kernel` | safety, refinement and liveness of the control cycle | three packages, one joining two others; a worker that is registered late; eight envelopes covering every status, refused ones included; every gate configuration; service and orchestrator on and off |
| `workflow` | the compiler's promise and the runtime's safety and progress | all 512 graphs over three steps compiled (self and cyclic dependencies included) plus malformed ones; a chain and a join with gates and all policies executed under the six possible seams; retries 0 or 1 and replanned; three calls of `Run`; one crash |
| `workflow_resume` | expected violation | the same |
| `transfer` | conservation of chunks, meaning of success, progress | a payload of two chunks; a good, a corrupt and an overlong source; two calls; one injected drop; inboxes of four frames; contexts that expire |
| `transfer_resume` | expected violation | one good source, contexts that do not expire |
| `distribution` | integrity of what is stored; delivery and end of undisturbed exchanges | two packages that share their first chunk, two published artifacts (one empty) and one that is not; two calls and two sessions; one drop; inboxes of three frames |
| `distribution_fetch` | expected violation | the same without drops |
| `sifter` | authority of the person (refinement), locality, spending, outcome, end | seven configurations (each approver, routes under five policies, ceilings of 0 to 3 calls, `:cloud` models, no provider at all), five prompts from routine to destructive under three policies, some with secrets, some whose calls fit the context exactly or are cut, two standing rules, one call of `generate`, one local retry, one retry of a request |
| `sifter_cut` | expected violation | one ordinary configuration, redaction on |
| `sifter_endpoint` | expected violation | one configuration: two OpenAI-compatible servers, cloud not allowed |
| `desktop` | answers, events, settings; cancellation and streams | two tasks with up to two approval requests each, one stream, two threads of the service and a command that change settings, three profile names; from a sound file three requests of users about tasks or two changes, from one written by hand without a default profile and with the gates off two changes, from no file one (the kill of a command counts as a change); an environment that asks for the cloud only and for no approvals; five goals, one for each policy a recommendation gives |
| `desktop_activation` | expected violation | one request and one change |

Why these are enough: in the kernel, packages interact only through dependencies, the one
mutex and the choice of the first ready package; a join, an independent package and one
late worker exercise each. In the workflow a chain and a join give every position relative
to a failed, awaiting or skipped step, and the third `Run` sees a state that two earlier
ones produced. In the transfer the second call meets every kind of leftover of the first:
a goroutine at any point, frames of any kind in either inbox, and (with two chunks, a close
frame and a leftover) an inbox at its limit. In the distribution two calls and two sessions
give every overlap of two exchanges and every leftover of an abandoned one, the shared chunk
lets a chunk of one package pass the other's check, and three frames are fewer than the
frames of one package and its hello.

In the sifter every limit of the budget is met exactly, missed by one and passed by a call that
uses more than was estimated, and each route is taken under each approver that can lead to it.
In the desktop three requests are enough for an answer that races a second one or a
cancellation, with a stream in any phase; two changes are enough for two writers to overlap at
every step.

What the properties say is stated above each definition. The deeper ones:
`EventsRespectDependencies` (the sink's log alone is a legal history),
`CompletedPassedGates`, `GraphAndAssignmentsAgree`, `VerdictsAreFinal`,
`ImplementsSupervisedRun`, `ReadyWorkSettles`, `ApprovedWorkSettles` for the kernel;
`CompiledOrderIsTopological` (against a definition of cyclicity that does not mention the
algorithm), `DependenciesFirst`, `AttemptsAccumulate`, `FinishedWorkIsKept`, `RunReturns`
for the workflow; `OffersAreHeld`, `NothingIsLost`, `SuccessIsWhole`, `QuietCallsSucceed`,
`CallsReturn` for the transfer; `StoredPayloadsAreWhole`, `UndisturbedExchangesDeliver`,
`UndisturbedExchangesEnd` for the distribution; `AuthorityIsHuman` (a refinement),
`LocalStaysLocal`, `SpendIsBounded`, `OutcomeIsEarned`, `RunEnds` for
the sifter; `FirstAnswerWins`, `EventsReachTheClient`, `SettingsAreSound`, `CancelTakesEffect`,
`StreamsEnd` for the desktop. Each has a mutant of a modelled definition that breaks it.

Fairness. Kernel: a supervisor keeps calling `Dispatch` and `Resolve`, the runtime returns
(its context has a deadline) and a missing worker is registered some day; nothing is assumed
of the human, so work may await approval for ever. Workflow: `Compile` and `Run` are
sequential code whose runner and gates return; nothing is assumed of the caller. Transfer:
the Go scheduler runs every goroutine that can run, and a deadline, where there is one,
passes; callers, drops and the runtime's map check are free.
Distribution: every goroutine that can run does; nothing is assumed of callers, sessions,
contexts or drops. Sifter: requests and check commands have timeouts, so what the coroutine
waits for comes, except a person; the automatic approval provider always answers. Desktop: the
loop, the threads of requests and of streams are scheduled, putting events included (a stream
wakes up every fifteen seconds); nothing is assumed of users, commands or changes of settings.

What the properties leave room for, because the code does it: `LocalStaysLocal` says of secrets
that they do not leave in a call that was not cut, and speaks of Ollama on the machine where it says
what leaves (`sifter_cut` and `sifter_endpoint` show why). `EventsReachTheClient` excepts
the "cancelling" announcement of another thread, which may be appended before "done" and put after
it, when the stream has ended. `StreamsEnd` excepts a stream that has everything of a task whose
status is "blocked", which is not among the terminal ones, so that the stream neither ends nor gets
another event. `FirstAnswerWins` is about the request an answer was posted for, which may be a
later one than the person saw. `SettingsAreSound` speaks of files that can be loaded: two writers
at once can leave one that cannot, and then every command, and the service when it starts, fails
until the file is repaired.

## 4. What disagrees with its documentation

- `workflow_resume`: resuming a run that failed with its retries exhausted makes no attempt,
  and the code then asks a nil error for its text.
- `transfer_resume`: the goroutine of an interrupted call stays in `Receive` and takes the
  frames, the close frame included, of the next call, which then waits for ever if its
  context does not expire.
- `distribution_fetch`: `FetchArtifact` takes the first hello in the node's shared inbox and
  files what follows under the id it asked for, without comparing the ids; of two overlapping
  fetches one can file the other's artifact.
- `sifter_endpoint`: with OpenAI-compatible servers for both tiers one provider is built, at the
  expert's endpoint; local calls go there, also under `local_only`, and are not redacted.
- `sifter_cut`: messages are cut to the context before they are redacted, so a secret that the cut
  goes through does not match its pattern and what is left of it reaches the expert.
- `desktop_activation`: activating a profile changes the configuration the service shows and not
  the one the sifter runs with.

Seen while modelling, without a run: the kernel derives learning candidates from the runtime's own
status before the gates are evaluated (`RunRecorded`), so rejected work leaves a "success"
candidate; and the sifter drops the constraints of the answer that permits an escalation
(`app.py:740`), while those of the earlier answers reach the packet.

## 5. What is proved

`KernelProofs`, for every graph, registry, set of envelopes and gate configuration (from
`GraphAssumption`, `WorkerAssumption`, `ResultAssumption`): `TypeCorrect`,
`GatesAreEnforced`, `GraphAgreement`, `LogIsLegal`, `Finality` and `Refinement` (the
orchestrator implements `SupervisedRun`). `CompletedPassedGates` is not inductive: that an
accepted package had a recorded result is only known if an assignment that awaits its gates
has one, and that nothing is started twice only if an unstarted package has neither
assignment nor result nor hash. `Inv` therefore says, package by package, what its
graph state implies about the assignment, result, hash and the dispatch in flight. The log
needs its own part: an event is in the log exactly if the graph's state says so. The
lemma `OrchestratorMoves` shows that the transitions whose errors are thrown away are all in
the table. `TelemetryIsEvidence` needs nothing but `Inv`: the one action that records a result
appends its record in the same step (`RecordStep`), and `Inv` says that the package had neither
before.

`TransferProofs`, for every payload, set of sources, number of calls and capacity (from
`PayloadAssumption`, `NodeAssumption`, `BoundAssumption`, `CapacityAssumption`):
`TypeCorrect`, `OffersAreSafe`, `ChunksAreConserved`, `SuccessIsComplete`. `Inv` adds to the
properties that a goroutine which is not handling a frame has none (`HandsAreEmpty`):
without it a chunk could be counted as being in hand after it was dropped. The argument
rests on `held` never shrinking and on two lemmas about the elements of a sequence after
`Append` and `Tail`. `QuietCallsDeliver` (a call that nothing disturbs succeeds, for every
history before it) has an invariant of its own: `QuietInv` says that calls are made in order and
follows the one exchange of a quiet call frame by frame (`Exchange`): which frame is on the way,
that before the close there are chunks only and after it nothing (`ChunksThenClose`), and where
the goroutine is meanwhile. That the close then finds every chunk received comes from
`NothingIsLost` (`CloseFindsEverything`).

`DistributionProofs`, for every set of packages and published artifacts and any number of
calls and sessions (from `NodeAssumption`, `PartyAssumption`, `PayloadAssumption`,
`CapacityAssumption`): `TypeCorrect` and `StoresAreWhole`. What is stored is known to be
right only because of what was announced, two messages earlier: `Inv` adds that every hello
on the wire names a package (towards the peer) or a published artifact (towards the caller)
with its own payload (`HelloIsTrue`), and that every party sends, collects and stores what it
was told (`PartyIsSound`). That an artifact is filed under its own id does not follow, and
`distribution_fetch` shows that it is false. It is true of an exchange that is alone:
`QuietExchangesDeliver`. Its `QuietInv` says that one session and the quiet call are the only
parties under way (`Undisturbed`) and that the two are distributing, asking, being refused or
fetching, each of which is a short list of positions of both programs with what is on the way
between them. Both directions share one description of a payload in transit (`Pipe`), in which
every chunk the sender no longer has to send is received or on the way (`Conserved`).

`WorkflowProofs`, for every finite set of steps, dependency graph, policy, seam and number of
resumes and crashes (from `StepAssumption`, `CaseAssumption`, `BoundAssumption`): `TypeCorrect`,
`CompilerIsCorrect`, `DependenciesComeFirst`, `CompleteIsFinished`, `AttemptsAreCounted`,
`FinishedIsFinal`. For the compiler (`CompileInv`) the emitted steps are closed under
dependencies and contain no cycle, `indegree` counts what is still missing of the others, and
`ready` is exactly what nothing is missing of. When the loop stops early the steps that are left
each miss one of themselves, which is the definition of a cycle (`StuckIsCyclic`); when it does not,
counting gives every step (`LongIsComplete`). This is the correctness of Kahn's algorithm by an
invariant of its loop, without induction over data. For the runtime, `ResultInv` says of the
results in memory and of the persisted ones that a touched step comes after finished ones only,
in the order of the plan; `RunInv` that what `Run` has not reached yet is as it was persisted;
`ExecutionInv` counts executions against attempts as long as no process has died.

`SifterProofs`, for every set of configurations, tasks, rules, answers, prices, usages and lengths
(from `ConfigAssumption`, `RequestAssumption`, `RuleAssumption`, `UsageAssumption`,
`ExtrasAssumption`, `BoundsAssumption`): `TypeCorrect`, `AuthorityRefinement` (the implementation of
`HumanAuthority`), `SpendingIsBounded`, `OutcomesAreEarned`, `LocalIsKept`. `GateInv` says for each
place of the coroutine which answers were given, `RouteInv` which route was decided and for which
calls, `BudgetInv` how the calls sent compare with the calls charged (one ahead exactly while an
expert is called), and `ExpertsAreAllowed` names for each expert call of a local task the answer
that permitted it, which `LocalStaysLocal` alone does not keep from step to step. What
`LocalIsKept` says of the traffic rests on one lemma (`LeavingIsOutbound`), that a local model served by Ollama leaves the
machine only if `_is_cloud_bound` says so; where other servers are configured the code does not
ensure it, and the theorem says nothing.

`DesktopProofs`, for every set of threads, commands and profile names and any number of changes
(from `FilesAssumption`, `GoalsAssumption`, `EnvironmentAssumption`: the files to start with, what
goals are made of and what the environment sets are of the types the code validates):
`SettingsSound`.
`SettingsAreSound` is about the file and the configurations in use, and is not inductive: what will
be written next is a copy that some thread or process took earlier, so `SettingsInv` adds that the
service's memory and the payload of every change under way are configurations
(`ChangesAreTyped`), and so is the text of the file. It does not say that their active profile
exists or that their gates are on: neither is true between two steps, and it is reading
(`LoadedIsSound`) and resolving (`ResolvedIsGoverned`) that restore both, whatever was written,
from the environment too where there is no file (`EnvironmentIsGated`). `AppliedKeepsType` has one fact per
operation on profiles, also for operations whose condition has ceased to hold since it was checked.

`DesktopTaskProofs`, for every finite set of tasks and any number of streams, answers and requests
(from `TasksAssumption`, `AnswersAssumption` and those of the settings): `TypeCorrect`,
`AnswersAreFirst`, `StreamsAreComplete`. `TaskInv` relates the fields of a record to where its
coroutine is, `LoopInv` says that a task is started once, by the callback its scheduling left.
`FirstAnswerWins` speaks of what a task received, but what it will receive is in the loop's queue:
`AnswerInv` adds that, while a request is open and undecided, the first answer for it in the queue
is the first that was posted and is there if any was posted. `EventsReachTheClient` speaks of what a
client saw, and needs what it will see. An event that the loop has appended and not yet put is
*due*: `StreamInv` says that a subscriber's queue holds the loop's own events in their order, the
due one following them, with announcements of the other thread anywhere between, and that from the
replay on every event of the loop was written, is in the queue or is due (`Covered`), so that when
"done" is written nothing of the loop's is missing before it. `PutsInv` says that an emitter has one
event at a time to put, and that the cancelling thread only announces.

Each strengthened invariant also holds in TLC on the instance of its component's run.
Every invariant, action property and refinement of the passing runs is now a theorem. Checked by TLC
only: liveness, which needs fairness and `ENABLED` and is out of the prover's reach
(`ReadyWorkSettles`, `ApprovedWorkSettles`, `RunReturns`, `CallsReturn`, `UndisturbedExchangesEnd`,
`RunEnds`, `CancelTakesEffect`, `StreamsEnd`), and the properties of section 4, which do not hold.

## 6. What is not modelled, and the plan

Left out for good: rendering, browsing and layout (`forge/template`, `visualizer/browse`,
`layout`), read-only queries, the ranking of models in the catalog, hardware detection, parsing of
model answers, TOML text, terminal I/O and persistence of reports, and `contracts`, `console`,
`obsv`, `tools`. Cryptography (`sync/identity`) can only be assumed.

Next, in this order:

1. `Tasks`: the executor of `sifter/tasks` over a task graph, which the application does not use
   yet: the failure of a task is handed down one step per pass and the executor stops at the
   first pass with nothing ready, so a chain added in reverse may keep pending tasks; the
   idempotency table of `sifter/rpc`, which is read before an await and written after it; the
   launcher of the desktop application.
2. `Memory`: `PutRecord`, `AppendEvent`, `RetainAfter` from several handles with the lock-free
   read-compare-rename and crashes; `SetStatus`, `Supersede`, `Promote` over the lifecycle
   table; `Rebuild` against an abstract store. Properties: no accepted revision lost, floor
   monotone, projection equals store.
3. `Phase`: `forge/lifecycle` over the fake forge with failing calls and retries.
4. `Invocation`: `toolbox/host` cache and policy; `Source`: `visualizer/source` delivery and
   replay; `Replica`: revision sets and the offline queue, checked for convergence; the
   reply cache of `sync/rpc`.
5. Algorithms: `plan.Validate` and its topological order, the kernel's context compiler,
   `parallel.Assign`.
