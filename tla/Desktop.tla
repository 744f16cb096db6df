------------------------------ MODULE Desktop ------------------------------
(***************************************************************************)
(* sifter/desktop: the service behind the user interface.  Tasks run as    *)
(* coroutines on one event loop; every request of the interface is handled *)
(* by a thread of its own, which talks to the loop through its queue of    *)
(* callbacks.  Streams of events go back to the interface: an event is     *)
(* appended to the task's record, and put to the subscribers afterwards.   *)
(* The profiles are kept in memory and in a file, which the command line   *)
(* changes too.                                                            *)
(*                                                                         *)
(* Of a task's run (module Sifter) only this is kept: it may ask a person, *)
(* and it ends with some status, with an exception or by cancellation.     *)
(***************************************************************************)
EXTENDS Settings

CONSTANTS
    Tasks,        \* tasks that may be submitted
    Streams,      \* event streams that may be opened
    Threads,      \* threads of the service that change settings
    Commands,     \* processes of the command line that change settings
    Names,        \* names of profiles
    Answers,      \* what a person may answer
    MaxRequests,  \* bound: approval requests of a task
    Starts        \* [file, requests, changes]: a configuration file to start with and
                  \* bounds on what users do about tasks and about settings

ASSUME BoundsAssumption ==
    MaxRequests \in Nat /\ \A s \in Starts : s.requests \in Nat /\ s.changes \in Nat
ASSUME NamesAssumption == Default \in Names
ASSUME TasksAssumption == IsFiniteSet(Tasks)
ASSUME AnswersAssumption == None \notin Answers
ASSUME FilesAssumption ==
    \A s \in Starts : /\ s.file \in {Missing, Emptied, File(s.file.text)}
                      /\ IsApplicationConfig(s.file.text)

VARIABLES
    task,      \* the task records and where their coroutines are
    queue,     \* callbacks waiting for the event loop
    loop,      \* "running", "closing" or "stopped"
    handler,   \* a request about a task between its check and its effect
    stream,    \* the event streams
    puts,      \* by emitter: subscribers, with an event they have still to be put
    posted,    \* answers as they were posted: [task, request, action]
    app,       \* service.app_config
    file,      \* the configuration file
    config,    \* service.config
    running,   \* the configuration the sifter runs with
    change,    \* changes of settings that are under way, by thread and process
    left       \* what users may still do

taskVars == <<task, queue, loop, handler, stream, puts, posted>>
settingsVars == <<app, file, config, running, change>>
vars == <<taskVars, settingsVars, left>>

Idle == [kind |-> "idle", task |-> None, action |-> None]
NoChange == [op |-> [kind |-> "none", name |-> Default, goal |-> LocalGoal], step |-> "idle", payload |-> Empty]
Editors == Threads \cup Commands
\* The two that emit events: the loop, and the thread that cancels a task.
Emitters == {"loop", "handler"}

Results == {"completed", "failed", "stopped", "blocked", "error"}
\* Mutant: a status is missing.
TerminalStatusesButError == {"completed", "failed", "cancelled", "stopped"}
TerminalStatuses == {"completed", "failed", "cancelled", "stopped", "error"}
Terminal(t) == task[t].status \in TerminalStatuses

Init ==
    /\ task = [t \in Tasks |->
          [pc |-> "absent", status |-> "queued", future |-> "none", cancel |-> FALSE,
           request |-> 0, open |-> FALSE, decision |-> None, received |-> << >>,
           events |-> << >>, local |-> FALSE, cloud |-> FALSE]]
    /\ queue = << >> /\ loop = "running" /\ handler = Idle /\ posted = << >>
    /\ stream = [s \in Streams |-> [task |-> None, phase |-> "unused", queue |-> << >>, seen |-> {}]]
    /\ puts = [e \in Emitters |-> {}]
    /\ \E s \in Starts : /\ file = s.file
                        /\ left = [requests |-> s.requests, changes |-> s.changes]
    /\ app = LoadApplicationConfig(file)
    /\ config = LoadRuntimeConfig(file, app.active) /\ running = config
    /\ change = [e \in Editors |-> NoChange]

Request == left.requests > 0 /\ left' = [left EXCEPT !.requests = @ - 1]
Change == left.changes > 0 /\ left' = [left EXCEPT !.changes = @ - 1]

-----------------------------------------------------------------------------
(* TaskRecord: events. *)

\* Mutant: the client subscribes once it has read what there is.
SubscribedLate(s, t) == stream[s].task = t /\ stream[s].phase = "live"
Subscribed(s, t) == stream[s].task = t /\ stream[s].phase \in {"subscribed", "replayed", "live"}

\* emit: the record t becomes r, with one more event, and the subscribers it has
\* now are those that will be put the event.
Emit(e, t, r, event) ==
    /\ task' = [task EXCEPT ![t] = [r EXCEPT !.events = Append(@, event)]]
    /\ puts' = [puts EXCEPT ![e] =
          {<<s, Len(r.events) + 1>> : s \in {x \in Streams : Subscribed(x, t)}}]

\* The lock of the record is not held any more.
PutEvent(e) ==
    \E p \in puts[e] :
        /\ stream' = [stream EXCEPT ![p[1]].queue = Append(@, p[2])]
        /\ puts' = [puts EXCEPT ![e] = @ \ {p}]
        /\ UNCHANGED <<task, queue, loop, handler, posted, settingsVars, left>>

-----------------------------------------------------------------------------
(* The event loop.  It runs one callback or one coroutine at a time; a      *)
(* coroutine that is not at an await, or has events to put, keeps it.       *)
AtAwait(t) == task[t].pc \notin {"opening", "unwinding", "settled"}
HasPut == loop # "stopped" /\ puts["loop"] = {}
LoopFree == HasPut /\ \A t \in Tasks : AtAwait(t)

Callback(kind) == LoopFree /\ queue # << >> /\ Head(queue).kind = kind /\ queue' = Tail(queue)
CallSoon(callback) == queue' = Append(queue, callback)
Message(kind, t, request, action) ==
    [kind |-> kind, task |-> t, request |-> request, action |-> action]

\* _execute: the coroutine starts.
Start ==
    /\ Callback("start")
    /\ LET t == Head(queue).task
       IN  Emit("loop", t, [task[t] EXCEPT !.pc = "running", !.status = "running",
                                           !.cloud = running.cloudAllowed], "running")
    /\ UNCHANGED <<loop, handler, stream, posted, settingsVars, left>>

\* _await_approval: the request can be seen before it can be answered.
RequestApproval(t) ==
    /\ LoopFree /\ task[t].pc = "running" /\ ~task[t].cancel
    /\ task[t].request < MaxRequests
    /\ Emit("loop", t, [task[t] EXCEPT !.pc = "opening", !.status = "waiting_approval",
                                       !.request = @ + 1], "approval_required")
    /\ UNCHANGED <<queue, loop, handler, stream, posted, settingsVars, left>>

AwaitAnswer(t) ==
    /\ HasPut /\ task[t].pc = "opening"
    /\ task' = [task EXCEPT ![t].pc = "asking", ![t].open = TRUE, ![t].decision = None]
    /\ UNCHANGED <<queue, loop, handler, stream, puts, posted, settingsVars, left>>

\* Mutant: a later answer replaces the first one.
SetFutureAgain ==
    /\ Callback("answer")
    /\ LET m == Head(queue)
       IN  task' = IF task[m.task].open /\ task[m.task].request = m.request
                   THEN [task EXCEPT ![m.task].decision = m.action] ELSE task
    /\ UNCHANGED <<loop, handler, stream, puts, posted, settingsVars, left>>

\* _set_future: the future of the request is given the answer, unless it has
\* one or is over.
SetFuture ==
    /\ Callback("answer")
    /\ LET m == Head(queue)
       IN  task' = IF /\ task[m.task].open /\ task[m.task].request = m.request
                      /\ task[m.task].decision = None
                   THEN [task EXCEPT ![m.task].decision = m.action] ELSE task
    /\ UNCHANGED <<loop, handler, stream, puts, posted, settingsVars, left>>

\* Mutant: the future of the request that is over can still be found.
ClosedOpen(r) == [r EXCEPT !.status = "running"]
\* The request is over, answered or not.
Closed(r) == [r EXCEPT !.open = FALSE, !.status = "running"]

ReceiveDecision(t) ==
    /\ LoopFree /\ task[t].pc = "asking" /\ ~task[t].cancel
    /\ task[t].decision # None
    /\ Emit("loop", t, [Closed(task[t]) EXCEPT !.pc = "running",
                                               !.received = Append(@, task[t].decision)], "running")
    /\ UNCHANGED <<queue, loop, handler, stream, posted, settingsVars, left>>

\* run returns a result or raises; the status can be seen before "done".
Settle(t, status) ==
    /\ LoopFree /\ task[t].pc = "running" /\ ~task[t].cancel
    /\ Emit("loop", t, [task[t] EXCEPT !.pc = "settled", !.status = status], "result")
    /\ UNCHANGED <<queue, loop, handler, stream, posted, settingsVars, left>>

\* The cancellation of the future reaches the coroutine's task.
DeliverCancel ==
    /\ Callback("cancel")
    /\ task' = [task EXCEPT ![Head(queue).task].cancel = TRUE]
    /\ UNCHANGED <<loop, handler, stream, puts, posted, settingsVars, left>>

EmitCancelled(t) ==
    Emit("loop", t, [task[t] EXCEPT !.pc = "settled", !.status = "cancelled"], "cancelled")

\* Mutant: a coroutine that waits for a person is not reached.
ThrowCancelledWhenRunning(t) ==
    /\ LoopFree /\ task[t].cancel /\ task[t].pc = "running"
    /\ EmitCancelled(t)
    /\ UNCHANGED <<queue, loop, handler, stream, posted, settingsVars, left>>

\* CancelledError is thrown into the coroutine where it awaits.  A request that
\* is open is closed first.
ThrowCancelled(t) ==
    /\ LoopFree /\ task[t].cancel
    /\ \/ task[t].pc = "running" /\ EmitCancelled(t)
       \/ /\ task[t].pc = "asking"
          /\ Emit("loop", t, [Closed(task[t]) EXCEPT !.pc = "unwinding"], "running")
    /\ UNCHANGED <<queue, loop, handler, stream, posted, settingsVars, left>>

Unwind(t) ==
    /\ HasPut /\ task[t].pc = "unwinding"
    /\ EmitCancelled(t)
    /\ UNCHANGED <<queue, loop, handler, stream, posted, settingsVars, left>>

Done(t) ==
    /\ HasPut /\ task[t].pc = "settled"
    /\ Emit("loop", t, [task[t] EXCEPT !.pc = "over", !.future = IF @ = "pending" THEN "done" ELSE @],
            "done")
    /\ UNCHANGED <<queue, loop, handler, stream, posted, settingsVars, left>>

\* loop.stop: what waits in coroutines and in the queue is not run any more.
Stop ==
    /\ Callback("stop")
    /\ loop' = "stopped"
    /\ UNCHANGED <<task, handler, stream, puts, posted, settingsVars, left>>

-----------------------------------------------------------------------------
(* Requests about tasks. *)

\* submit: the record can be seen before it has a future.
Submit(t) ==
    /\ task[t].pc = "absent" /\ Request
    /\ task' = [task EXCEPT ![t].pc = "visible",
                            ![t].local = /\ ~ResolveConfig(app, app.active, TRUE).cloudAllowed
                                         /\ \A e \in Editors : change[e] = NoChange]
    /\ UNCHANGED <<queue, loop, handler, stream, puts, posted, settingsVars>>

Schedule(t) ==
    /\ task[t].pc = "visible"
    /\ IF loop = "stopped"
       THEN task' = [task EXCEPT ![t].pc = "refused"] /\ UNCHANGED queue
       ELSE /\ task' = [task EXCEPT ![t].pc = "scheduled", ![t].future = "pending"]
            /\ CallSoon(Message("start", t, 0, None))
    /\ UNCHANGED <<loop, handler, stream, puts, posted, settingsVars, left>>

\* cancel and resolve_approval look at the record first.
Cancel(t) ==
    /\ handler = Idle /\ Request
    /\ ~Terminal(t) /\ task[t].future # "none"
    /\ handler' = [kind |-> "cancel", task |-> t, action |-> None]
    /\ UNCHANGED <<task, queue, loop, stream, puts, posted, settingsVars>>

AnnounceCancel ==
    /\ handler.kind = "cancel"
    /\ handler' = [handler EXCEPT !.kind = "announced"]
    /\ Emit("handler", handler.task, task[handler.task], "cancelling")
    /\ UNCHANGED <<queue, loop, stream, posted, settingsVars, left>>

\* Only a future that is not done can be cancelled.
CancelFuture ==
    /\ handler.kind = "announced" /\ puts["handler"] = {}
    /\ handler' = Idle
    /\ LET t == handler.task
       IN  IF task[t].future = "pending"
           THEN /\ task' = [task EXCEPT ![t].future = "cancelled"]
                /\ CallSoon(Message("cancel", t, 0, None))
           ELSE UNCHANGED <<task, queue>>
    /\ UNCHANGED <<loop, stream, puts, posted, settingsVars, left>>

ResolveApproval(t, action) ==
    /\ handler = Idle /\ Request
    /\ task[t].open /\ loop # "stopped"
    /\ handler' = [kind |-> "answer", task |-> t, action |-> action]
    /\ UNCHANGED <<task, queue, loop, stream, puts, posted, settingsVars>>

\* The future is read again: it may be that of a later request, or none.
PostAnswer ==
    /\ handler.kind = "answer"
    /\ handler' = Idle
    /\ LET t == handler.task
       IN  IF task[t].open
           THEN /\ CallSoon(Message("answer", t, task[t].request, handler.action))
                /\ posted' = Append(posted, [task |-> t, request |-> task[t].request,
                                             action |-> handler.action])
           ELSE UNCHANGED <<queue, posted>>
    /\ UNCHANGED <<task, loop, stream, puts, settingsVars, left>>

\* close: the futures that are not done are cancelled, then the loop stops.
Close ==
    /\ loop = "running" /\ Request
    /\ loop' = "closing"
    /\ LET pending == SetToSeq({t \in Tasks : task[t].future = "pending" /\ ~Terminal(t)})
       IN  /\ queue' = queue \o [i \in DOMAIN pending |-> Message("cancel", pending[i], 0, None)]
                             \o <<Message("stop", None, 0, None)>>
           /\ task' = [t \in Tasks |-> IF t \in ToSet(pending)
                                       THEN [task[t] EXCEPT !.future = "cancelled"] ELSE task[t]]
    /\ UNCHANGED <<handler, stream, puts, posted, settingsVars>>

-----------------------------------------------------------------------------
(* _stream_events. *)
Subscribe(s, t) ==
    /\ stream[s].phase = "unused" /\ task[t].pc # "absent" /\ Request
    /\ stream' = [stream EXCEPT ![s].task = t, ![s].phase = "subscribed"]
    /\ UNCHANGED <<task, queue, loop, handler, puts, posted, settingsVars>>

\* What has been emitted so far is written.
Replay(s) ==
    /\ stream[s].phase = "subscribed"
    /\ stream' = [stream EXCEPT ![s].phase = "replayed",
                                ![s].seen = DOMAIN task[stream[s].task].events]
    /\ UNCHANGED <<task, queue, loop, handler, puts, posted, settingsVars, left>>

EndIfTerminal(s) ==
    /\ stream[s].phase = "replayed"
    /\ stream' = [stream EXCEPT ![s].phase = IF Terminal(stream[s].task) THEN "ended" ELSE "live"]
    /\ UNCHANGED <<task, queue, loop, handler, puts, posted, settingsVars, left>>

WriteEvent(s) ==
    /\ stream[s].phase = "live" /\ stream[s].queue # << >>
    /\ LET event == Head(stream[s].queue)
       IN  stream' = [stream EXCEPT
              ![s].queue = Tail(@), ![s].seen = @ \cup {event},
              ![s].phase = IF task[stream[s].task].events[event] = "done" THEN "ended" ELSE "live"]
    /\ UNCHANGED <<task, queue, loop, handler, puts, posted, settingsVars, left>>

\* Nothing has come for a while.
Ping(s) ==
    /\ stream[s].phase = "live" /\ stream[s].queue = << >> /\ Terminal(stream[s].task)
    /\ stream' = [stream EXCEPT ![s].phase = "ended"]
    /\ UNCHANGED <<task, queue, loop, handler, puts, posted, settingsVars, left>>

Disconnect(s) ==
    /\ stream[s].phase = "live" /\ Request
    /\ stream' = [stream EXCEPT ![s].phase = "broken"]
    /\ UNCHANGED <<task, queue, loop, handler, puts, posted, settingsVars>>

-----------------------------------------------------------------------------
(* Changes of settings. *)
SetStep(e, step) == change' = [change EXCEPT ![e].step = step]

\* A thread of the service checks, and then changes, what all threads share.
CheckChange(e, op) ==
    /\ e \in Threads /\ op.kind \in ServiceOps
    /\ change[e] = NoChange /\ Change
    /\ MayApply(app, op)
    /\ change' = [change EXCEPT ![e].op = op, ![e].step = "checked"]
    /\ UNCHANGED <<taskVars, app, file, config, running>>

ApplyChange(e) ==
    /\ change[e].step = "checked"
    /\ app' = Applied(app, change[e].op)
    /\ change' = [change EXCEPT ![e] = IF Raises(app, change[e].op) THEN NoChange
                                       ELSE [@ EXCEPT !.step = "applied"]]
    /\ UNCHANGED <<taskVars, file, config, running, left>>

Dump(e) ==
    /\ change[e].step = "applied"
    /\ change' = [change EXCEPT ![e].step = "dumped", ![e].payload = app]
    /\ UNCHANGED <<taskVars, app, file, config, running, left>>

\* A command loads the file, if that can be loaded, and changes what it has loaded.
RunCommand(e, op) ==
    /\ e \in Commands /\ change[e] = NoChange /\ Change
    /\ file # Broken
    /\ LET loaded == LoadApplicationConfig(file)
       IN  /\ MayApply(loaded, op)
           /\ change' = [change EXCEPT ![e] = [op |-> op, step |-> "dumped",
                                               payload |-> Applied(loaded, op)]]
    /\ UNCHANGED <<taskVars, app, file, config, running>>

\* save_application_config: the file is emptied and then written.
OpenFile(e) ==
    /\ change[e].step = "dumped"
    /\ file' = Emptied
    /\ SetStep(e, "opened")
    /\ UNCHANGED <<taskVars, app, config, running, left>>

WriteFile(e) ==
    /\ change[e].step = "opened"
    /\ file' \in Overwritten(file, change[e].payload)
    /\ change' = [change EXCEPT ![e] = IF e \in Threads /\ @.op.kind \notin NoReload
                                       THEN [@ EXCEPT !.step = "written"] ELSE NoChange]
    /\ UNCHANGED <<taskVars, app, config, running, left>>

\* A process of the command line is killed before it has written the file.
KillCommand(e) ==
    /\ e \in Commands /\ change[e].step \in {"dumped", "opened"} /\ Change
    /\ change' = [change EXCEPT ![e] = NoChange]
    /\ UNCHANGED <<taskVars, app, file, config, running>>

\* _reload: the service reads the file again, which raises if that is broken.
\* The sifter keeps the configuration it was built with.
Reload(e) ==
    /\ change[e].step = "written"
    /\ config' = IF file = Broken THEN config ELSE LoadRuntimeConfig(file, app.active)
    /\ change' = [change EXCEPT ![e] = NoChange]
    /\ UNCHANGED <<taskVars, app, file, running, left>>

-----------------------------------------------------------------------------
NamedOps == {"activate", "create", "replace", "delete", "import"}
Ops ==
    [kind : GoalOps, name : Names, goal : Goals]
    \cup [kind : NamedOps, name : Names, goal : {LocalGoal}]
    \cup [kind : CommandOps \ (NamedOps \cup GoalOps), name : {Default}, goal : {LocalGoal}]

LoopStep ==
    \/ Start \/ SetFuture \/ DeliverCancel \/ Stop \/ PutEvent("loop")
    \/ \E t \in Tasks : \/ RequestApproval(t) \/ AwaitAnswer(t) \/ ReceiveDecision(t)
                       \/ \E status \in Results : Settle(t, status)
                       \/ ThrowCancelled(t) \/ Unwind(t) \/ Done(t)

HandlerStep ==
    AnnounceCancel \/ PutEvent("handler") \/ CancelFuture \/ PostAnswer \/ \E t \in Tasks : Schedule(t)

StreamStep == \E s \in Streams : Replay(s) \/ EndIfTerminal(s) \/ WriteEvent(s) \/ Ping(s)

SettingsStep ==
    \E e \in Editors : ApplyChange(e) \/ Dump(e) \/ OpenFile(e) \/ WriteFile(e) \/ Reload(e)

UserStep ==
    \/ \E t \in Tasks : Submit(t) \/ Cancel(t) \/ \E a \in Answers : ResolveApproval(t, a)
    \/ \E s \in Streams : Disconnect(s) \/ \E t \in Tasks : Subscribe(s, t)
    \/ \E e \in Editors : KillCommand(e) \/ \E op \in Ops : CheckChange(e, op) \/ RunCommand(e, op)
    \/ Close

Next == LoopStep \/ HandlerStep \/ StreamStep \/ SettingsStep \/ UserStep

Spec == Init /\ [][Next]_vars

\* The loop and the threads are scheduled; calls of models and checks have
\* timeouts.  Nothing is assumed of users, nor of processes of theirs.
FairSpec ==
    /\ Spec /\ WF_vars(LoopStep) /\ WF_vars(HandlerStep)
    /\ \A s \in Streams : WF_vars(Replay(s) \/ EndIfTerminal(s) \/ WriteEvent(s) \/ Ping(s))

-----------------------------------------------------------------------------
(* Properties. *)

\* Records, streams, callbacks and changes keep their types.
TypeOK ==
    /\ \A t \in Tasks :
          /\ task[t].pc \in {"absent", "visible", "scheduled", "refused", "running", "opening",
                             "asking", "unwinding", "settled", "over"}
          /\ task[t].status \in Results \cup {"queued", "running", "waiting_approval", "cancelled"}
          /\ task[t].future \in {"none", "pending", "cancelled", "done"}
          /\ task[t].request \in 0..MaxRequests
          /\ task[t].decision \in Answers \cup {None}
          /\ task[t].open <=> task[t].pc = "asking"
          /\ task[t].pc \in {"running", "unwinding"} => task[t].status = "running"
          /\ task[t].pc \in {"opening", "asking"} => task[t].status = "waiting_approval"
    /\ \A i \in DOMAIN queue : queue[i].kind \in {"start", "answer", "cancel", "stop"}
    /\ \A s \in Streams : /\ stream[s].task \in Tasks \cup {None}
                          /\ stream[s].phase \in {"unused", "subscribed", "replayed", "live",
                                                  "ended", "broken"}
                          /\ \A i \in DOMAIN stream[s].queue :
                                stream[s].queue[i] \in DOMAIN task[stream[s].task].events
    /\ \A e \in Emitters : \A p \in puts[e] :
          p[1] \in Streams /\ p[2] \in DOMAIN task[stream[p[1]].task].events
    /\ loop \in {"running", "closing", "stopped"}
    /\ \A e \in Editors : change[e].step \in {"idle", "checked", "applied", "dumped", "opened",
                                               "written"}
    /\ left.requests \in Nat /\ left.changes \in Nat

\* Every request of a task is decided by the first answer posted for it, and
\* by none other, whatever further answers and cancellations are under way
\* (service.py resolve_approval, _await_approval, _set_future).
FirstAnswerWins ==
    \A t \in Tasks : \A i \in DOMAIN task[t].received :
        \E k \in DOMAIN posted :
            /\ posted[k] = [task |-> t, request |-> i, action |-> task[t].received[i]]
            /\ \A j \in 1..(k - 1) : ~(posted[j].task = t /\ posted[j].request = i)

\* A client that has been told that the task is done has been told everything
\* before it: an event is not lost between what is replayed and what is
\* streamed (server.py _stream_events, service.py emit).  The exception is the
\* announcement of a cancellation, which another thread may have appended before
\* "done" and put after it.
EventsReachTheClient ==
    \A s \in Streams : \A d \in stream[s].seen :
        LET events == task[stream[s].task].events
        IN  events[d] = "done" =>
                \A i \in 1..d : events[i] = "cancelling" \/ i \in stream[s].seen

\* However changes of settings interleave, and wherever one is broken off, a
\* file that can be loaded has an active profile and gives a configuration in
\* which the gates cannot be switched off and no policy uses a cloud that is
\* not allowed; the same goes for the configurations in use (config/store.py,
\* profiles.py, resolve.py).  Two that write at once may leave a file that
\* cannot be loaded.
SettingsAreSound ==
    /\ Governed(config) /\ Governed(running)
    /\ file # Broken =>
          LET loaded == LoadApplicationConfig(file)
          IN  Has(loaded, loaded.active) /\ Governed(LoadRuntimeConfig(file, loaded.active))

\* A cancellation that was accepted ends the task, also one that waits for a
\* person, unless the service is closed first (service.py cancel, _execute).
CancelTakesEffect ==
    \A t \in Tasks : (task[t].future = "cancelled") ~> (task[t].pc = "over" \/ loop = "stopped")

\* A stream ends once its task is over, also one that subscribes only then.  The
\* exception is a stream that finds the events of a task that is blocked by its
\* budget complete: that status is not among the terminal ones, and no event
\* will follow (server.py _stream_events).
StreamsEnd ==
    \A s \in Streams, t \in Tasks :
        (/\ stream[s].task = t /\ task[t].pc = "over"
         /\ stream[s].phase \in {"subscribed", "replayed", "live"})
        ~> \/ stream[s].phase \in {"ended", "broken"}
           \/ /\ stream[s].task = t /\ task[t].status = "blocked"
              /\ \E d \in stream[s].seen : task[t].events[d] = "done"

\* A task that is submitted under a profile without cloud does not get to use
\* the cloud ("Local-only profiles must never route to a paid cloud provider",
\* resolve.py).  It does not hold once a profile is activated.
ProfileGovernsTasks == \A t \in Tasks : task[t].local => ~task[t].cloud
=============================================================================
