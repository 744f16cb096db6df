-------------------------- MODULE DesktopTaskProofs --------------------------
(***************************************************************************)
(* Proofs about the tasks of the desktop service and the streams of their  *)
(* events, for every set of tasks, answers and streams and any number of   *)
(* requests.                                                               *)
(***************************************************************************)
EXTENDS DesktopProofs, FiniteSetTheorems, SequenceTheorems

Places == {"absent", "visible", "scheduled", "refused", "running", "opening", "asking",
           "unwinding", "settled", "over"}
Statuses == Results \cup {"queued", "running", "waiting_approval", "cancelled"}
Futures == {"none", "pending", "cancelled", "done"}
EventKinds == {"running", "approval_required", "result", "cancelled", "cancelling", "done"}
Phases == {"unused", "subscribed", "replayed", "live", "ended", "broken"}
Loops == {"running", "closing", "stopped"}
Steps == {"idle", "checked", "applied", "dumped", "opened", "written"}

(***************************************************************************)
(* The inductive invariant.  First what a record and a callback are: a     *)
(* request is open while its task asks, and a task that runs has received  *)
(* an answer to every request it made.                                     *)
(***************************************************************************)
TaskType(r) ==
    r \in [pc : Places, status : Statuses, future : Futures, cancel : BOOLEAN,
           request : 0..MaxRequests, open : BOOLEAN, decision : Answers \cup {None},
           received : Seq(Answers), events : Seq(EventKinds), local : {r.local}, cloud : {r.cloud}]

Progress(r) ==
    /\ r.open <=> r.pc = "asking"
    /\ r.pc \in {"running", "unwinding"} => r.status = "running"
    /\ r.pc \in {"opening", "asking"} => r.status = "waiting_approval"
    /\ r.pc \in {"absent", "visible", "scheduled", "refused"} => r.request = 0 /\ r.received = << >>
    /\ r.pc = "running" => r.request = Len(r.received)
    /\ r.pc \in {"opening", "asking"} => r.request = Len(r.received) + 1

TaskInv ==
    /\ task = [t \in Tasks |-> task[t]]
    /\ \A t \in Tasks : TaskType(task[t]) /\ Progress(task[t])

Messages ==
    {m \in [kind : {"start", "answer", "cancel", "stop"}, task : Tasks \cup {None}, request : Nat,
            action : Answers \cup {None}] :
        /\ m.kind # "stop" => m.task \in Tasks
        /\ m.kind = "answer" => m.action \in Answers}

\* A task is started once, by the callback that its scheduling left.
StartsAreDue ==
    /\ \A k \in DOMAIN queue : queue[k].kind = "start" => task[queue[k].task].pc = "scheduled"
    /\ \A j, k \in DOMAIN queue :
          queue[j].kind = "start" /\ queue[k].kind = "start" /\ queue[j].task = queue[k].task => j = k

HandlerInv ==
    /\ handler.kind \in {"idle", "cancel", "announced", "answer"}
    /\ handler.kind # "idle" => handler.task \in Tasks
    /\ handler.kind = "answer" => handler.action \in Answers

LoopInv ==
    /\ queue \in Seq(Messages)
    /\ StartsAreDue
    /\ HandlerInv
    /\ loop \in Loops
    /\ left \in [requests : Nat, changes : Nat]

(***************************************************************************)
(* The answers.  An answer that is posted goes by the queue of the loop:   *)
(* while a request is open and undecided, the first answer for it in the   *)
(* queue is the first that was posted, and there is one if any was posted. *)
(***************************************************************************)
For(p, t, i) == p.task = t /\ p.request = i
Posted(t, i) == \E k \in DOMAIN posted : For(posted[k], t, i)
IsFirst(t, i, a) ==
    \E k \in DOMAIN posted :
        /\ posted[k] = [task |-> t, request |-> i, action |-> a]
        /\ \A j \in 1..(k - 1) : ~For(posted[j], t, i)

AnswerAt(k, t, i) == queue[k].kind = "answer" /\ For(queue[k], t, i)
Queued(t, i) == \E k \in DOMAIN queue : AnswerAt(k, t, i)
FirstQueued(t, i, a) ==
    \E k \in DOMAIN queue :
        /\ AnswerAt(k, t, i) /\ queue[k].action = a
        /\ \A j \in 1..(k - 1) : ~AnswerAt(j, t, i)

AnswersOf(t) ==
    /\ \A i \in Nat : Posted(t, i) \/ Queued(t, i) => i <= task[t].request
    /\ task[t].pc = "opening" => ~Posted(t, task[t].request) /\ ~Queued(t, task[t].request)
    /\ task[t].open =>
          /\ task[t].decision # None => IsFirst(t, task[t].request, task[t].decision)
          /\ task[t].decision = None =>
                /\ \A a \in Answers : FirstQueued(t, task[t].request, a) =>
                                        IsFirst(t, task[t].request, a)
                /\ Posted(t, task[t].request) => Queued(t, task[t].request)
    /\ \A i \in DOMAIN task[t].received : IsFirst(t, i, task[t].received[i])

Postings == [task : Tasks, request : Nat, action : Answers]
AnswerInv == posted \in Seq(Postings) /\ \A t \in Tasks : AnswersOf(t)

(***************************************************************************)
(* The streams.  What is due to a stream is what the loop has appended and *)
(* not put yet.  The loop's own events come in the order in which they     *)
(* were appended, what is due last; the announcements of the handler may   *)
(* come anywhere.  From the replay on, each of the loop's events has been  *)
(* written, waits in the queue or is due.                                  *)
(***************************************************************************)
EventsOf(s) == task[stream[s].task].events
Due(s) == {i \in Nat : <<s, i>> \in puts["loop"]}
Own(events, i) == events[i] # "cancelling"

Belongs(r, events, due) ==
    /\ \A k \in 1..Len(r.queue) : r.queue[k] \in 1..Len(events)
    /\ \A i \in r.seen : i \in 1..Len(events)
    /\ \A i \in due : i \in 1..Len(events)
InOrder(r, events, due) ==
    \A k \in 1..Len(r.queue) : Own(events, r.queue[k]) =>
        /\ \A j \in 1..Len(r.queue) : j < k /\ Own(events, r.queue[j]) => r.queue[j] < r.queue[k]
        /\ \A i \in due : r.queue[k] < i
Covered(r, events, due) ==
    \A i \in 1..Len(events) : Own(events, i) =>
        i \in r.seen \/ i \in due \/ \E k \in 1..Len(r.queue) : r.queue[k] = i
Complete(r, events) ==
    \A d \in r.seen : events[d] = "done" => \A i \in 1..d : Own(events, i) => i \in r.seen

StreamType(r) ==
    r \in [task : Tasks \cup {None}, phase : Phases, queue : Seq(Nat), seen : SUBSET Nat]

\* r is a stream of a task that has emitted these events.
StreamOf(r, events, due) ==
    /\ StreamType(r)
    /\ r.phase = "unused" => r.queue = << >> /\ r.seen = {} /\ due = {}
    /\ r.phase # "unused" => /\ r.task \in Tasks
                             /\ Belongs(r, events, due) /\ InOrder(r, events, due)
                             /\ Complete(r, events)
    /\ r.phase \in {"replayed", "live"} => Covered(r, events, due)

\* An emitter has one event at a time to put; the handler only announces.
PutsInv ==
    /\ puts \in [Emitters -> SUBSET (Streams \X Nat)]
    /\ \A p, q \in puts["loop"] : p[2] = q[2]
    /\ \A p \in puts["handler"] :
          /\ stream[p[1]].phase # "unused" /\ p[2] \in 1..Len(EventsOf(p[1]))
          /\ EventsOf(p[1])[p[2]] = "cancelling"

StreamInv ==
    /\ stream = [s \in Streams |-> stream[s]]
    /\ \A s \in Streams : StreamOf(stream[s], EventsOf(s), Due(s))
    /\ PutsInv

StepsAreTyped == \A e \in Editors : change[e].step \in Steps

-----------------------------------------------------------------------------
(***************************************************************************)
(* What a step does to the records.  Kept says that nothing changes for a  *)
(* request of a task, Others that all other records stay as they are.      *)
(***************************************************************************)
Kept(t) ==
    /\ task'[t].request = task[t].request
    /\ task'[t].open = task[t].open
    /\ task'[t].decision = task[t].decision
    /\ task'[t].received = task[t].received
    /\ task'[t].pc = "opening" <=> task[t].pc = "opening"

Others(t) == \A u \in Tasks : u # t => task'[u] = task[u]

Appends(e, t, event) ==
    /\ task'[t].events = Append(task[t].events, event)
    /\ puts' = [puts EXCEPT ![e] =
          {<<s, Len(task[t].events) + 1>> : s \in {x \in Streams : Subscribed(x, t)}}]

LoopEmits(t) ==
    /\ UNCHANGED stream /\ puts["loop"] = {}
    /\ \E event \in EventKinds \ {"cancelling"} : Appends("loop", t, event)
HandlerEmits(t) == UNCHANGED stream /\ Appends("handler", t, "cancelling")

\* A record is replaced by a record.
LEMMA RecordReplaced ==
    ASSUME TaskInv, NEW t \in Tasks, NEW r, TaskType(r), Progress(r),
           task' = [task EXCEPT ![t] = r]
    PROVE  TaskInv' /\ task'[t] = r /\ Others(t)
BY DEF TaskInv, Others

\* Steps that leave the records alone.
LEMMA TasksStutter ==
    ASSUME TaskInv, UNCHANGED task
    PROVE  /\ TaskInv'
           /\ \A u \in Tasks : Kept(u) /\ task'[u] = task[u]
BY DEF TaskInv, TaskType, Progress, Kept

\* emit adds an event to the record and leaves its other fields alone.
LEMMA EmitEffect ==
    ASSUME TaskInv, NEW e, NEW t \in Tasks, NEW r, TaskType(r), Progress(r),
           r.events = task[t].events, NEW event \in EventKinds, Emit(e, t, r, event)
    PROVE  /\ TaskInv' /\ Others(t) /\ Appends(e, t, event)
           /\ task'[t].pc = r.pc /\ task'[t].request = r.request /\ task'[t].open = r.open
           /\ task'[t].decision = r.decision /\ task'[t].received = r.received
<1> DEFINE es == Append(r.events, event)
           new == [r EXCEPT !.events = es]
<1>1. task' = [task EXCEPT ![t] = new]
  BY DEF Emit
<1>2. es \in Seq(EventKinds)
  BY DEF TaskType
<1> HIDE DEF es
<1>3. /\ new.pc = r.pc /\ new.request = r.request /\ new.open = r.open /\ new.status = r.status
      /\ new.decision = r.decision /\ new.received = r.received /\ new.events = es
  BY DEF TaskType
<1>4. TaskType(new)
  BY <1>2 DEF TaskType
<1>5. Progress(new)
  BY <1>3 DEF Progress
<1> HIDE DEF new
<1>6. TaskInv' /\ Others(t) /\ task'[t] = new
  BY <1>1, <1>4, <1>5, RecordReplaced
<1>7. Appends(e, t, event)
  <2>1. task'[t].events = Append(task[t].events, event)
    BY <1>3, <1>6 DEF es
  <2>2. puts' = [puts EXCEPT ![e] =
           {<<s, Len(task[t].events) + 1>> : s \in {x \in Streams : Subscribed(x, t)}}]
    BY DEF Emit
  <2>3. QED
    BY <2>1, <2>2 DEF Appends
<1>8. QED
  BY <1>3, <1>6, <1>7

\* The loop emits an event only when it has put the one before.
LEMMA LoopEmitEffect ==
    ASSUME TaskInv, NEW t \in Tasks, NEW r, TaskType(r), Progress(r),
           r.events = task[t].events, NEW event \in EventKinds \ {"cancelling"},
           Emit("loop", t, r, event), UNCHANGED stream, HasPut
    PROVE  /\ TaskInv' /\ Others(t) /\ LoopEmits(t)
           /\ task'[t].pc = r.pc /\ task'[t].request = r.request /\ task'[t].open = r.open
           /\ task'[t].decision = r.decision /\ task'[t].received = r.received
BY EmitEffect DEF LoopEmits, HasPut

\* Any callback comes from the queue, and is a message.
LEMMA CallbackEffect ==
    ASSUME LoopInv, NEW kind, Callback(kind)
    PROVE  /\ queue # << >> /\ Head(queue) \in Messages /\ Head(queue) = queue[1]
           /\ Head(queue).kind = kind /\ queue' = Tail(queue)
BY DEF LoopInv, Callback

\* The coroutine starts.
LEMMA StartEffect ==
    ASSUME TaskInv, LoopInv, Start
    PROVE  /\ TaskInv' /\ Head(queue).task \in Tasks /\ Others(Head(queue).task)
           /\ LoopEmits(Head(queue).task)
           /\ \A u \in Tasks : Kept(u)
<1> DEFINE t == Head(queue).task
           r == [task[t] EXCEPT !.pc = "running", !.status = "running",
                                !.cloud = running.cloudAllowed]
<1>1. /\ queue # << >> /\ Head(queue) \in Messages /\ Head(queue) = queue[1]
      /\ Head(queue).kind = "start"
  BY CallbackEffect DEF Start
<1>2. t \in Tasks
  BY <1>1 DEF Messages
<1>3. task[t].pc = "scheduled"
  BY <1>1 DEF LoopInv, StartsAreDue
<1>4. TaskType(task[t]) /\ Progress(task[t])
  BY <1>2 DEF TaskInv
<1>5. Emit("loop", t, r, "running") /\ UNCHANGED stream /\ HasPut
  BY DEF Start, Callback, LoopFree
<1> HIDE DEF t
<1>6. /\ TaskType(r) /\ r.pc = "running" /\ r.open = task[t].open /\ r.decision = task[t].decision
      /\ r.request = task[t].request /\ r.received = task[t].received /\ r.status = "running"
      /\ r.events = task[t].events
  BY <1>4 DEF TaskType, Places, Statuses
<1>7. Progress(r)
  BY <1>3, <1>4, <1>6 DEF Progress
<1>8. "running" \in EventKinds \ {"cancelling"}
  BY DEF EventKinds
<1> HIDE DEF r
<1>9. /\ TaskInv' /\ Others(t) /\ LoopEmits(t)
      /\ task'[t].pc = r.pc /\ task'[t].request = r.request /\ task'[t].open = r.open
      /\ task'[t].decision = r.decision /\ task'[t].received = r.received
  BY <1>2, <1>5, <1>6, <1>7, <1>8, LoopEmitEffect
<1>10. \A u \in Tasks : Kept(u)
  BY <1>3, <1>6, <1>9 DEF Kept, Others
<1>11. QED
  BY <1>2, <1>9, <1>10 DEF t

\* The coroutine makes a request.
LEMMA RequestEffect ==
    ASSUME TaskInv, NEW t \in Tasks, RequestApproval(t)
    PROVE  /\ TaskInv' /\ Others(t) /\ LoopEmits(t)
           /\ task'[t].pc = "opening" /\ task'[t].request = task[t].request + 1
           /\ ~task'[t].open /\ task'[t].received = task[t].received
<1> DEFINE r == [task[t] EXCEPT !.pc = "opening", !.status = "waiting_approval", !.request = @ + 1]
<1>1. TaskType(task[t]) /\ Progress(task[t])
  BY DEF TaskInv
<1>2. /\ Emit("loop", t, r, "approval_required") /\ UNCHANGED stream /\ HasPut
      /\ task[t].pc = "running" /\ task[t].request < MaxRequests
  BY DEF RequestApproval, LoopFree
<1>3. /\ TaskType(r) /\ r.pc = "opening" /\ r.open = task[t].open
      /\ r.request = task[t].request + 1 /\ r.received = task[t].received
      /\ r.status = "waiting_approval" /\ r.events = task[t].events
  <2> DEFINE n == task[t].request + 1
  <2>1. MaxRequests \in Nat /\ task[t].request \in 0..MaxRequests
    BY <1>1, BoundsAssumption DEF TaskType
  <2>2. n \in 0..MaxRequests
    BY <1>2, <2>1
  <2>3. r = [task[t] EXCEPT !.pc = "opening", !.status = "waiting_approval", !.request = n]
    BY <1>1 DEF TaskType
  <2> HIDE DEF n, r
  <2>4. QED
    BY <1>1, <2>2, <2>3 DEF TaskType, Places, Statuses, n
<1>4. Progress(r) /\ ~r.open
  BY <1>1, <1>2, <1>3 DEF Progress
<1>5. "approval_required" \in EventKinds \ {"cancelling"}
  BY DEF EventKinds
<1> HIDE DEF r
<1>6. QED
  BY <1>2, <1>3, <1>4, <1>5, LoopEmitEffect

\* The request can be answered.
LEMMA AwaitEffect ==
    ASSUME TaskInv, NEW t \in Tasks, AwaitAnswer(t)
    PROVE  /\ TaskInv' /\ Others(t) /\ task[t].pc = "opening"
           /\ task'[t].pc = "asking" /\ task'[t].request = task[t].request
           /\ task'[t].open /\ task'[t].decision = None /\ task'[t].received = task[t].received
           /\ task'[t].events = task[t].events
<1> DEFINE r == [task[t] EXCEPT !.pc = "asking", !.open = TRUE, !.decision = None]
<1>1. TaskType(task[t]) /\ Progress(task[t])
  BY DEF TaskInv
<1>2. task' = [task EXCEPT ![t] = r] /\ task[t].pc = "opening"
  BY DEF AwaitAnswer, TaskInv
<1>3. /\ TaskType(r) /\ r.pc = "asking" /\ r.open /\ r.decision = None
      /\ r.request = task[t].request /\ r.received = task[t].received
      /\ r.status = task[t].status /\ r.events = task[t].events
  BY <1>1 DEF TaskType, Places
<1>4. Progress(r)
  BY <1>1, <1>2, <1>3 DEF Progress
<1> HIDE DEF r
<1>5. QED
  BY <1>2, <1>3, <1>4, RecordReplaced

\* An answer decides the open request it is for, unless one has before.
LEMMA FutureEffect ==
    ASSUME TaskInv, LoopInv, SetFuture
    PROVE  LET m == Head(queue)
               t == m.task
           IN  /\ TaskInv' /\ t \in Tasks /\ m.action \in Answers /\ m.kind = "answer"
               /\ queue # << >> /\ queue' = Tail(queue) /\ m = queue[1] /\ Others(t)
               /\ task'[t].pc = task[t].pc /\ task'[t].request = task[t].request
               /\ task'[t].open = task[t].open /\ task'[t].received = task[t].received
               /\ task'[t].events = task[t].events
               /\ task'[t].decision =
                     IF task[t].open /\ task[t].request = m.request /\ task[t].decision = None
                     THEN m.action ELSE task[t].decision
<1> DEFINE m == Head(queue)
           t == m.task
           decides == task[t].open /\ task[t].request = m.request /\ task[t].decision = None
           r == [task[t] EXCEPT !.decision = m.action]
<1>1. /\ queue # << >> /\ m \in Messages /\ m = queue[1] /\ m.kind = "answer" /\ queue' = Tail(queue)
  BY CallbackEffect DEF SetFuture
<1>2. t \in Tasks /\ m.action \in Answers
  BY <1>1 DEF Messages
<1>3. TaskType(task[t]) /\ Progress(task[t])
  BY <1>2 DEF TaskInv
<1>4. task' = IF decides THEN [task EXCEPT ![t].decision = m.action] ELSE task
  BY DEF SetFuture
<1> HIDE DEF m, t
<1>5. task' = IF decides THEN [task EXCEPT ![t] = r] ELSE task
  BY <1>2, <1>4 DEF TaskInv
<1>6. /\ TaskType(r) /\ r.pc = task[t].pc /\ r.request = task[t].request /\ r.open = task[t].open
      /\ r.received = task[t].received /\ r.decision = m.action /\ r.status = task[t].status
      /\ r.events = task[t].events
  BY <1>2, <1>3 DEF TaskType
<1>7. Progress(r)
  BY <1>3, <1>6 DEF Progress
<1> HIDE DEF r
<1>8. CASE decides
  BY <1>1, <1>2, <1>5, <1>6, <1>7, <1>8, RecordReplaced DEF m, t
<1>9. CASE ~decides
  <2>1. task' = task
    BY <1>5, <1>9
  <2> HIDE DEF decides
  <2>2. TaskInv' /\ Others(t)
    BY <2>1 DEF TaskInv, TaskType, Progress, Others
  <2>3. QED
    BY <1>1, <1>2, <1>9, <2>1, <2>2 DEF m, t, decides
<1>10. QED
  BY <1>8, <1>9

\* The coroutine gets the decision.
LEMMA DecisionEffect ==
    ASSUME TaskInv, NEW t \in Tasks, ReceiveDecision(t)
    PROVE  /\ TaskInv' /\ Others(t) /\ LoopEmits(t) /\ task[t].open /\ task[t].decision \in Answers
           /\ task[t].request = Len(task[t].received) + 1
           /\ task'[t].pc = "running" /\ task'[t].request = task[t].request
           /\ ~task'[t].open /\ task'[t].received = Append(task[t].received, task[t].decision)
<1> DEFINE r == [Closed(task[t]) EXCEPT !.pc = "running",
                                        !.received = Append(@, task[t].decision)]
           list == Append(task[t].received, task[t].decision)
           new == [task[t] EXCEPT !.open = FALSE, !.status = "running", !.pc = "running",
                                  !.received = list]
<1>1. TaskType(task[t]) /\ Progress(task[t])
  BY DEF TaskInv
<1>2. Emit("loop", t, r, "running") /\ UNCHANGED stream /\ HasPut /\ task[t].pc = "asking" /\ task[t].decision # None
  BY DEF ReceiveDecision, LoopFree
<1>3. r = new
  BY <1>1 DEF Closed, TaskType
<1>4. /\ list \in Seq(Answers) /\ Len(list) = Len(task[t].received) + 1
      /\ task[t].decision \in Answers
  BY <1>1, <1>2 DEF TaskType
<1> HIDE DEF r, list
<1>5. /\ TaskType(new) /\ new.pc = "running" /\ new.open = FALSE /\ new.status = "running"
      /\ new.request = task[t].request /\ new.received = list /\ new.events = task[t].events
  BY <1>1, <1>4 DEF TaskType, Places, Statuses
<1>6. /\ Progress(new) /\ task[t].open /\ task[t].request = Len(task[t].received) + 1
  BY <1>1, <1>2, <1>4, <1>5 DEF Progress
<1>7. "running" \in EventKinds \ {"cancelling"}
  BY DEF EventKinds
<1> HIDE DEF new
<1>8. QED
  BY <1>2, <1>3, <1>4, <1>5, <1>6, <1>7, LoopEmitEffect DEF list
\* The run ends, with a result or an exception.
LEMMA SettleEffect ==
    ASSUME TaskInv, NEW t \in Tasks, NEW status \in Results, Settle(t, status)
    PROVE  TaskInv' /\ Others(t) /\ LoopEmits(t) /\ \A u \in Tasks : Kept(u)
<1> DEFINE r == [task[t] EXCEPT !.pc = "settled", !.status = status]
<1>1. TaskType(task[t]) /\ Progress(task[t])
  BY DEF TaskInv
<1>2. Emit("loop", t, r, "result") /\ UNCHANGED stream /\ HasPut /\ task[t].pc = "running"
  BY DEF Settle, LoopFree
<1>3. /\ TaskType(r) /\ r.pc = "settled" /\ r.open = task[t].open /\ r.decision = task[t].decision
      /\ r.request = task[t].request /\ r.received = task[t].received /\ r.events = task[t].events
  BY <1>1 DEF TaskType, Places, Statuses
<1>4. Progress(r)
  BY <1>1, <1>2, <1>3 DEF Progress
<1>5. "result" \in EventKinds \ {"cancelling"}
  BY DEF EventKinds
<1> HIDE DEF r
<1>6. /\ TaskInv' /\ Others(t) /\ LoopEmits(t)
      /\ task'[t].pc = r.pc /\ task'[t].request = r.request /\ task'[t].open = r.open
      /\ task'[t].decision = r.decision /\ task'[t].received = r.received
  BY <1>2, <1>3, <1>4, <1>5, LoopEmitEffect
<1>7. \A u \in Tasks : Kept(u)
  BY <1>2, <1>3, <1>6 DEF Kept, Others
<1>8. QED
  BY <1>6, <1>7

\* The cancellation is noted.
LEMMA DeliverEffect ==
    ASSUME TaskInv, LoopInv, DeliverCancel
    PROVE  /\ TaskInv' /\ \A u \in Tasks : Kept(u) /\ task'[u].events = task[u].events
                                                  /\ task'[u].pc = task[u].pc
<1> DEFINE t == Head(queue).task
           r == [task[t] EXCEPT !.cancel = TRUE]
<1>1. Head(queue) \in Messages /\ Head(queue).kind = "cancel"
  BY CallbackEffect DEF DeliverCancel
<1>2. t \in Tasks
  BY <1>1 DEF Messages
<1>3. TaskType(task[t]) /\ Progress(task[t])
  BY <1>2 DEF TaskInv
<1>4. task' = [task EXCEPT ![t].cancel = TRUE]
  BY DEF DeliverCancel
<1> HIDE DEF t
<1>5. task' = [task EXCEPT ![t] = r]
  BY <1>2, <1>4 DEF TaskInv
<1>6. /\ TaskType(r) /\ r.pc = task[t].pc /\ r.request = task[t].request /\ r.open = task[t].open
      /\ r.received = task[t].received /\ r.decision = task[t].decision /\ r.status = task[t].status
      /\ r.events = task[t].events
  BY <1>3 DEF TaskType
<1>7. Progress(r)
  BY <1>3, <1>6 DEF Progress
<1> HIDE DEF r
<1>8. TaskInv' /\ task'[t] = r /\ Others(t)
  BY <1>2, <1>5, <1>6, <1>7, RecordReplaced
<1>9. QED
  BY <1>6, <1>8 DEF Kept, Others

\* What is emitted when the run ends by cancellation.
LEMMA CancelledEffect ==
    ASSUME TaskInv, NEW t \in Tasks, task[t].pc \in {"running", "unwinding"},
           EmitCancelled(t), UNCHANGED stream, HasPut
    PROVE  TaskInv' /\ Others(t) /\ LoopEmits(t) /\ \A u \in Tasks : Kept(u)
<1> DEFINE r == [task[t] EXCEPT !.pc = "settled", !.status = "cancelled"]
<1>1. TaskType(task[t]) /\ Progress(task[t])
  BY DEF TaskInv
<1>2. Emit("loop", t, r, "cancelled")
  BY DEF EmitCancelled
<1>3. /\ TaskType(r) /\ r.pc = "settled" /\ r.open = task[t].open /\ r.decision = task[t].decision
      /\ r.request = task[t].request /\ r.received = task[t].received /\ r.events = task[t].events
  BY <1>1 DEF TaskType, Places, Statuses
<1>4. Progress(r)
  BY <1>1, <1>3 DEF Progress
<1>5. "cancelled" \in EventKinds \ {"cancelling"}
  BY DEF EventKinds
<1> HIDE DEF r
<1>6. /\ TaskInv' /\ Others(t) /\ LoopEmits(t)
      /\ task'[t].pc = r.pc /\ task'[t].request = r.request /\ task'[t].open = r.open
      /\ task'[t].decision = r.decision /\ task'[t].received = r.received
  BY <1>2, <1>3, <1>4, <1>5, LoopEmitEffect
<1>7. \A u \in Tasks : Kept(u)
  BY <1>3, <1>6 DEF Kept, Others
<1>8. QED
  BY <1>6, <1>7

\* CancelledError closes the request that is open, or ends the run.
LEMMA ThrowEffect ==
    ASSUME TaskInv, NEW t \in Tasks, ThrowCancelled(t)
    PROVE  /\ TaskInv' /\ Others(t) /\ LoopEmits(t) /\ ~task'[t].open /\ task'[t].pc # "opening"
           /\ task'[t].request = task[t].request /\ task'[t].received = task[t].received
<1> DEFINE r == [Closed(task[t]) EXCEPT !.pc = "unwinding"]
           new == [task[t] EXCEPT !.open = FALSE, !.status = "running", !.pc = "unwinding"]
<1>1. TaskType(task[t]) /\ Progress(task[t])
  BY DEF TaskInv
<1>2. HasPut /\ UNCHANGED stream
  BY DEF ThrowCancelled, LoopFree
<1>3. CASE task[t].pc = "running" /\ EmitCancelled(t)
  <2>1. ~task[t].open /\ task[t].pc # "opening"
    BY <1>1, <1>3 DEF Progress
  <2>2. TaskInv' /\ Others(t) /\ LoopEmits(t) /\ Kept(t)
    BY <1>2, <1>3, CancelledEffect
  <2>3. QED
    BY <2>1, <2>2 DEF Kept
<1>4. CASE task[t].pc = "asking" /\ Emit("loop", t, r, "running")
  <2>1. r = new
    BY <1>1 DEF Closed, TaskType
  <2> HIDE DEF r
  <2>2. /\ TaskType(new) /\ new.pc = "unwinding" /\ new.open = FALSE /\ new.status = "running"
        /\ new.request = task[t].request /\ new.received = task[t].received
        /\ new.events = task[t].events
    BY <1>1 DEF TaskType, Places, Statuses
  <2>3. Progress(new)
    BY <2>2 DEF Progress
  <2>4. "running" \in EventKinds \ {"cancelling"}
    BY DEF EventKinds
  <2> HIDE DEF new
  <2>5. QED
    BY <1>2, <1>4, <2>1, <2>2, <2>3, <2>4, LoopEmitEffect
<1>5. QED
  BY <1>3, <1>4 DEF ThrowCancelled

\* Then the run ends.
LEMMA UnwindEffect ==
    ASSUME TaskInv, NEW t \in Tasks, Unwind(t)
    PROVE  TaskInv' /\ Others(t) /\ LoopEmits(t) /\ \A u \in Tasks : Kept(u)
BY CancelledEffect DEF Unwind

\* The coroutine is over.
LEMMA DoneEffect ==
    ASSUME TaskInv, NEW t \in Tasks, Done(t)
    PROVE  TaskInv' /\ Others(t) /\ LoopEmits(t) /\ \A u \in Tasks : Kept(u)
<1> DEFINE f == IF task[t].future = "pending" THEN "done" ELSE task[t].future
           r == [task[t] EXCEPT !.pc = "over", !.future = IF @ = "pending" THEN "done" ELSE @]
           new == [task[t] EXCEPT !.pc = "over", !.future = f]
<1>1. TaskType(task[t]) /\ Progress(task[t])
  BY DEF TaskInv
<1>2. Emit("loop", t, r, "done") /\ UNCHANGED stream /\ HasPut /\ task[t].pc = "settled"
  BY DEF Done
<1>3. r = new /\ f \in Futures
  BY <1>1 DEF TaskType, Futures
<1> HIDE DEF r, f
<1>4. /\ TaskType(new) /\ new.pc = "over" /\ new.open = task[t].open /\ new.decision = task[t].decision
      /\ new.request = task[t].request /\ new.received = task[t].received
      /\ new.events = task[t].events
  BY <1>1, <1>3 DEF TaskType, Places
<1>5. Progress(new)
  BY <1>1, <1>2, <1>4 DEF Progress
<1>6. "done" \in EventKinds \ {"cancelling"}
  BY DEF EventKinds
<1> HIDE DEF new
<1>7. /\ TaskInv' /\ Others(t) /\ LoopEmits(t)
      /\ task'[t].pc = r.pc /\ task'[t].request = r.request /\ task'[t].open = r.open
      /\ task'[t].decision = r.decision /\ task'[t].received = r.received
  BY <1>2, <1>3, <1>4, <1>5, <1>6, LoopEmitEffect
<1>8. \A u \in Tasks : Kept(u)
  BY <1>2, <1>3, <1>4, <1>7 DEF Kept, Others
<1>9. QED
  BY <1>7, <1>8

\* A task is submitted.
LEMMA SubmitEffect ==
    ASSUME TaskInv, NEW t \in Tasks, Submit(t)
    PROVE  /\ TaskInv' /\ Others(t) /\ task[t].pc = "absent"
           /\ \A u \in Tasks : Kept(u) /\ task'[u].events = task[u].events
<1> DEFINE local == /\ ~ResolveConfig(app, app.active, TRUE).cloudAllowed
                    /\ \A e \in Editors : change[e] = NoChange
           r == [task[t] EXCEPT !.pc = "visible", !.local = local]
<1>1. TaskType(task[t]) /\ Progress(task[t])
  BY DEF TaskInv
<1>2. task' = [task EXCEPT ![t].pc = "visible", ![t].local = local] /\ task[t].pc = "absent"
  BY DEF Submit
<1> HIDE DEF local
<1>3. task' = [task EXCEPT ![t] = r]
  BY <1>2 DEF TaskInv
<1>4. /\ TaskType(r) /\ r.pc = "visible" /\ r.request = task[t].request /\ r.open = task[t].open
      /\ r.received = task[t].received /\ r.decision = task[t].decision /\ r.status = task[t].status
      /\ r.events = task[t].events
  BY <1>1 DEF TaskType, Places
<1>5. Progress(r)
  BY <1>1, <1>2, <1>4 DEF Progress
<1> HIDE DEF r
<1>6. TaskInv' /\ task'[t] = r /\ Others(t)
  BY <1>3, <1>4, <1>5, RecordReplaced
<1>7. QED
  BY <1>2, <1>4, <1>6 DEF Kept, Others
\* A submitted task is handed to the loop, or refused.
LEMMA ScheduleEffect ==
    ASSUME TaskInv, NEW t \in Tasks, Schedule(t)
    PROVE  /\ TaskInv' /\ Others(t) /\ task[t].pc = "visible"
           /\ \A u \in Tasks : Kept(u) /\ task'[u].events = task[u].events
           /\ \/ queue' = queue
              \/ task'[t].pc = "scheduled" /\ queue' = Append(queue, Message("start", t, 0, None))
<1> DEFINE r == [task[t] EXCEPT !.pc = "scheduled", !.future = "pending"]
           no == [task[t] EXCEPT !.pc = "refused"]
<1>1. TaskType(task[t]) /\ Progress(task[t])
  BY DEF TaskInv
<1>2. /\ task[t].pc = "visible"
      /\ \/ task' = [task EXCEPT ![t].pc = "refused"] /\ queue' = queue
         \/ /\ task' = [task EXCEPT ![t].pc = "scheduled", ![t].future = "pending"]
            /\ queue' = Append(queue, Message("start", t, 0, None))
  BY DEF Schedule, CallSoon
<1>3. \/ task' = [task EXCEPT ![t] = no] /\ queue' = queue
      \/ task' = [task EXCEPT ![t] = r] /\ queue' = Append(queue, Message("start", t, 0, None))
  BY <1>2 DEF TaskInv
<1>4. /\ TaskType(r) /\ r.pc = "scheduled" /\ r.request = task[t].request /\ r.open = task[t].open
      /\ r.received = task[t].received /\ r.decision = task[t].decision /\ r.status = task[t].status
      /\ r.events = task[t].events
  BY <1>1 DEF TaskType, Places, Futures
<1>5. /\ TaskType(no) /\ no.pc = "refused" /\ no.request = task[t].request /\ no.open = task[t].open
      /\ no.received = task[t].received /\ no.decision = task[t].decision
      /\ no.status = task[t].status /\ no.events = task[t].events
  BY <1>1 DEF TaskType, Places
<1>6. Progress(r) /\ Progress(no)
  BY <1>1, <1>2, <1>4, <1>5 DEF Progress
<1> HIDE DEF r, no
<1>7. CASE task' = [task EXCEPT ![t] = no] /\ queue' = queue
  <2>1. TaskInv' /\ task'[t] = no /\ Others(t)
    BY <1>5, <1>6, <1>7, RecordReplaced
  <2>2. QED
    BY <1>2, <1>5, <1>7, <2>1 DEF Kept, Others
<1>8. CASE task' = [task EXCEPT ![t] = r] /\ queue' = Append(queue, Message("start", t, 0, None))
  <2>1. TaskInv' /\ task'[t] = r /\ Others(t)
    BY <1>4, <1>6, <1>8, RecordReplaced
  <2>2. QED
    BY <1>2, <1>4, <1>8, <2>1 DEF Kept, Others
<1>9. QED
  BY <1>3, <1>7, <1>8

\* A cancellation is announced.
LEMMA AnnounceEffect ==
    ASSUME TaskInv, LoopInv, AnnounceCancel
    PROVE  LET t == handler.task
           IN  /\ TaskInv' /\ t \in Tasks /\ Others(t) /\ HandlerEmits(t)
               /\ task'[t].pc = task[t].pc
               /\ \A u \in Tasks : Kept(u)
<1> DEFINE t == handler.task
<1>1. t \in Tasks
  BY DEF AnnounceCancel, LoopInv, HandlerInv
<1>2. TaskType(task[t]) /\ Progress(task[t])
  BY <1>1 DEF TaskInv
<1>3. Emit("handler", t, task[t], "cancelling") /\ UNCHANGED stream
  BY DEF AnnounceCancel
<1>4. "cancelling" \in EventKinds
  BY DEF EventKinds
<1> HIDE DEF t
<1>5. /\ TaskInv' /\ Others(t) /\ Appends("handler", t, "cancelling")
      /\ task'[t].pc = task[t].pc /\ task'[t].request = task[t].request
      /\ task'[t].open = task[t].open /\ task'[t].decision = task[t].decision
      /\ task'[t].received = task[t].received
  BY <1>1, <1>2, <1>3, <1>4, EmitEffect
<1>6. \A u \in Tasks : Kept(u)
  BY <1>1, <1>5 DEF Kept, Others
<1>7. QED
  BY <1>1, <1>3, <1>5, <1>6 DEF HandlerEmits, t

\* A future that is pending is cancelled, and the loop is told.
LEMMA CancelEffect ==
    ASSUME TaskInv, LoopInv, CancelFuture
    PROVE  LET t == handler.task
           IN  /\ TaskInv' /\ t \in Tasks
               /\ \A u \in Tasks : Kept(u) /\ task'[u].events = task[u].events
                                             /\ task'[u].pc = task[u].pc
               /\ queue' = queue \/ queue' = Append(queue, Message("cancel", t, 0, None))
<1> DEFINE t == handler.task
           r == [task[t] EXCEPT !.future = "cancelled"]
<1>1. t \in Tasks
  BY DEF CancelFuture, LoopInv, HandlerInv
<1>2. TaskType(task[t]) /\ Progress(task[t])
  BY <1>1 DEF TaskInv
<1>3. \/ UNCHANGED <<task, queue>>
      \/ /\ task' = [task EXCEPT ![t].future = "cancelled"]
         /\ queue' = Append(queue, Message("cancel", t, 0, None))
  BY DEF CancelFuture, CallSoon
<1> HIDE DEF t
<1>4. CASE UNCHANGED <<task, queue>>
  BY <1>1, <1>4, TasksStutter DEF t
<1>5. CASE /\ task' = [task EXCEPT ![t].future = "cancelled"]
           /\ queue' = Append(queue, Message("cancel", t, 0, None))
  <2>1. task' = [task EXCEPT ![t] = r]
    BY <1>5 DEF TaskInv
  <2>2. /\ TaskType(r) /\ r.pc = task[t].pc /\ r.open = task[t].open
        /\ r.decision = task[t].decision /\ r.request = task[t].request
        /\ r.received = task[t].received /\ r.events = task[t].events
        /\ r.status = task[t].status
    BY <1>2 DEF TaskType, Futures
  <2>3. Progress(r)
    BY <1>2, <2>2 DEF Progress
  <2> HIDE DEF r
  <2>4. TaskInv' /\ task'[t] = r /\ Others(t)
    BY <1>1, <2>1, <2>2, <2>3, RecordReplaced
  <2>5. \A u \in Tasks : Kept(u) /\ task'[u].events = task[u].events /\ task'[u].pc = task[u].pc
    BY <1>1, <2>2, <2>4 DEF Kept, Others
  <2>6. QED
    BY <1>1, <1>5, <2>4, <2>5 DEF t
<1>6. QED
  BY <1>3, <1>4, <1>5

\* A finite set can be listed.
LEMMA ListOfFinite ==
    ASSUME NEW S, IsFiniteSet(S)
    PROVE  SetToSeq(S) \in Seq(S)
<1>1. Cardinality(S) \in Nat /\ ExistsBijection(1..Cardinality(S), S)
  BY FS_CardinalityType
<1>2. PICK f \in [1..Cardinality(S) -> S] : IsInjective(f)
  <2>1. PICK f \in Bijection(1..Cardinality(S), S) : TRUE
    BY <1>1 DEF ExistsBijection
  <2>2. QED
    BY <2>1 DEF Bijection, Injection, IsInjective
<1>3. SetToSeq(S) \in [1..Cardinality(S) -> S]
  BY <1>2 DEF SetToSeq
<1>4. QED
  BY <1>1, <1>3
(***************************************************************************)
(* The queue of the loop: callbacks are added at its end and taken from    *)
(* its front.                                                              *)
(***************************************************************************)
Grows(kinds) ==
    \E ms \in Seq(Messages) :
        queue' = queue \o ms /\ \A k \in DOMAIN ms : ms[k].kind \in kinds

\* No callback, or one, is added.
LEMMA GrowsByOne ==
    ASSUME LoopInv, NEW kinds, NEW m \in Messages, m.kind \in kinds,
           queue' = queue \/ queue' = Append(queue, m)
    PROVE  Grows(kinds)
<1>1. queue \in Seq(Messages)
  BY DEF LoopInv
<1>2. CASE queue' = queue
  <2>1. queue' = queue \o << >>
    BY <1>1, <1>2
  <2>2. << >> \in Seq(Messages) /\ DOMAIN << >> = {}
    OBVIOUS
  <2>3. QED
    BY <2>1, <2>2 DEF Grows
<1>3. CASE queue' = Append(queue, m)
  <2>1. queue' = queue \o <<m>> /\ <<m>> \in Seq(Messages)
    BY <1>1, <1>3
  <2>2. \A k \in DOMAIN <<m>> : <<m>>[k].kind \in kinds
    OBVIOUS
  <2>3. QED
    BY <2>1, <2>2 DEF Grows
<1>4. QED
  BY <1>2, <1>3

\* Message makes callbacks.
LEMMA MessageType ==
    ASSUME NEW t \in Tasks
    PROVE  /\ Message("start", t, 0, None) \in Messages /\ Message("cancel", t, 0, None) \in Messages
           /\ Message("start", t, 0, None).kind = "start" /\ Message("start", t, 0, None).task = t
           /\ Message("cancel", t, 0, None).kind = "cancel"
           /\ Message("stop", None, 0, None) \in Messages
           /\ Message("stop", None, 0, None).kind = "stop"
           /\ \A n \in Nat, a \in Answers :
                 LET m == Message("answer", t, n, a)
                 IN  /\ m \in Messages /\ m.kind = "answer" /\ m.task = t /\ m.request = n
                     /\ m.action = a
BY DEF Message, Messages

\* close cancels what is pending and asks the loop to stop.
LEMMA CloseEffect ==
    ASSUME TaskInv, LoopInv, Close
    PROVE  /\ TaskInv' /\ Grows({"cancel", "stop"})
           /\ \A u \in Tasks : Kept(u) /\ task'[u].events = task[u].events
                                       /\ task'[u].pc = task[u].pc
<1> DEFINE due == {t \in Tasks : task[t].future = "pending" /\ ~Terminal(t)}
           pending == SetToSeq(due)
           cancels == [i \in DOMAIN pending |-> Message("cancel", pending[i], 0, None)]
           stop == <<Message("stop", None, 0, None)>>
           r == [t \in Tasks |-> [task[t] EXCEPT !.future = "cancelled"]]
<1>1. /\ queue' = queue \o cancels \o stop
      /\ task' = [t \in Tasks |-> IF t \in ToSet(pending)
                                  THEN [task[t] EXCEPT !.future = "cancelled"] ELSE task[t]]
  BY DEF Close
<1>2. pending \in Seq(Tasks)
  <2>1. IsFiniteSet(due)
    BY TasksAssumption, FS_Subset
  <2>2. pending \in Seq(due)
    BY <2>1, ListOfFinite
  <2> HIDE DEF pending
  <2>3. QED
    BY <2>2
<1> HIDE DEF pending
<1>3. /\ cancels \in Seq(Messages) /\ \A k \in DOMAIN cancels : cancels[k].kind = "cancel"
  <2>1. \A i \in DOMAIN pending : /\ Message("cancel", pending[i], 0, None) \in Messages
                                  /\ Message("cancel", pending[i], 0, None).kind = "cancel"
    BY <1>2, MessageType
  <2>2. QED
    BY <1>2, <2>1
<1>4. stop \in Seq(Messages) /\ Len(stop) = 1 /\ stop[1].kind = "stop"
  BY DEF Message, Messages
<1> HIDE DEF cancels, stop
<1>5. Grows({"cancel", "stop"})
  <2> DEFINE both == cancels \o stop
  <2>1. queue \in Seq(Messages)
    BY DEF LoopInv
  <2>2. queue' = queue \o both
    BY <1>1, <1>3, <1>4, <2>1, ConcatAssociative
  <2>3. /\ both \in Seq(Messages) /\ Len(both) = Len(cancels) + 1
        /\ \A k \in 1..(Len(cancels) + 1) :
              both[k] = IF k <= Len(cancels) THEN cancels[k] ELSE stop[k - Len(cancels)]
    <3>1. /\ both \in Seq(Messages) /\ Len(both) = Len(cancels) + Len(stop)
          /\ \A k \in 1..(Len(cancels) + Len(stop)) :
                both[k] = IF k <= Len(cancels) THEN cancels[k] ELSE stop[k - Len(cancels)]
      BY <1>3, <1>4, ConcatProperties
    <3> HIDE DEF both
    <3>2. QED
      BY <1>4, <3>1
  <2> HIDE DEF both
  <2>4. \A k \in DOMAIN both : both[k].kind \in {"cancel", "stop"}
    <3> SUFFICES ASSUME NEW k \in DOMAIN both PROVE both[k].kind \in {"cancel", "stop"}
      OBVIOUS
    <3>1. k \in 1..(Len(cancels) + 1) /\ Len(cancels) \in Nat /\ DOMAIN cancels = 1..Len(cancels)
      BY <1>3, <2>3
    <3>2. CASE k <= Len(cancels)
      BY <1>3, <2>3, <3>1, <3>2
    <3>3. CASE k = Len(cancels) + 1
      BY <1>4, <2>3, <3>1, <3>3
    <3>4. QED
      BY <3>1, <3>2, <3>3
  <2>5. QED
    BY <2>2, <2>3, <2>4 DEF Grows
<1>6. \A t \in Tasks :
         /\ TaskType(r[t]) /\ r[t].pc = task[t].pc /\ r[t].request = task[t].request
         /\ r[t].open = task[t].open /\ r[t].decision = task[t].decision
         /\ r[t].received = task[t].received /\ r[t].events = task[t].events
         /\ r[t].status = task[t].status
  BY DEF TaskInv, TaskType, Futures
<1>7. \A t \in Tasks : Progress(r[t])
  BY <1>6 DEF TaskInv, Progress
<1>8. \A t \in Tasks : task'[t] = r[t] \/ task'[t] = task[t]
  BY <1>1
<1> HIDE DEF r
<1>9. TaskInv'
  <2>1. task' = [t \in Tasks |-> task'[t]]
    BY <1>1
  <2>2. QED
    BY <1>6, <1>7, <1>8, <2>1 DEF TaskInv
<1>10. QED
  BY <1>5, <1>6, <1>8, <1>9 DEF Kept

\* The starts in a queue that grows.
LEMMA GrowingKeepsStarts ==
    ASSUME LoopInv, Grows({"answer", "cancel", "stop"}),
           \A u \in Tasks : task[u].pc = "scheduled" => task'[u].pc = "scheduled"
    PROVE  queue' \in Seq(Messages) /\ StartsAreDue'
<1>1. PICK ms \in Seq(Messages) : /\ queue' = queue \o ms
                                  /\ \A k \in DOMAIN ms : ms[k].kind \in {"answer", "cancel", "stop"}
  BY DEF Grows
<1>2. queue \in Seq(Messages) /\ StartsAreDue
  BY DEF LoopInv
<1>3. /\ queue' \in Seq(Messages) /\ Len(queue') = Len(queue) + Len(ms)
      /\ \A k \in 1..(Len(queue) + Len(ms)) :
            queue'[k] = IF k <= Len(queue) THEN queue[k] ELSE ms[k - Len(queue)]
  BY <1>1, <1>2, ConcatProperties
<1>4. \A k \in DOMAIN queue' : queue'[k].kind = "start" => k \in DOMAIN queue /\ queue'[k] = queue[k]
  <2> SUFFICES ASSUME NEW k \in DOMAIN queue', queue'[k].kind = "start"
               PROVE  k \in DOMAIN queue /\ queue'[k] = queue[k]
    OBVIOUS
  <2>1. /\ k \in 1..(Len(queue) + Len(ms)) /\ Len(queue) \in Nat /\ Len(ms) \in Nat
        /\ DOMAIN queue = 1..Len(queue) /\ DOMAIN ms = 1..Len(ms)
    BY <1>2, <1>3
  <2>2. CASE k <= Len(queue)
    BY <1>3, <2>1, <2>2
  <2>3. CASE k > Len(queue)
    <3>1. queue'[k] = ms[k - Len(queue)] /\ k - Len(queue) \in DOMAIN ms
      BY <1>3, <2>1, <2>3
    <3>2. QED
      BY <1>1, <3>1
  <2>4. QED
    BY <2>1, <2>2, <2>3
<1>5. \A k \in DOMAIN queue : queue[k].kind = "start" => queue[k].task \in Tasks
  BY <1>2 DEF Messages
<1>6. QED
  BY <1>2, <1>3, <1>4, <1>5 DEF StartsAreDue

\* The starts in a queue from which a callback is taken.
LEMMA TakingKeepsStarts ==
    ASSUME LoopInv, queue # << >>, queue' = Tail(queue),
           NEW started, \A u \in started : queue[1].kind = "start" /\ queue[1].task = u,
           \A u \in Tasks : task[u].pc = "scheduled" => task'[u].pc = "scheduled" \/ u \in started
    PROVE  queue' \in Seq(Messages) /\ StartsAreDue'
<1>1. queue \in Seq(Messages) /\ StartsAreDue
  BY DEF LoopInv
<1>2. queue' \in Seq(Messages) /\ Len(queue') = Len(queue) - 1
  BY <1>1
<1>3. \A k \in DOMAIN queue' : k + 1 \in DOMAIN queue /\ queue'[k] = queue[k + 1]
  BY <1>1
<1>4. \A k \in DOMAIN queue : queue[k].kind = "start" => queue[k].task \in Tasks
  BY <1>1 DEF Messages
<1>5. 1 \in DOMAIN queue
  BY <1>1
<1>6. \A k \in DOMAIN queue' : k \in Nat /\ k >= 1 /\ k + 1 # 1
  BY <1>2
<1>7. \A k \in DOMAIN queue' : queue'[k].kind = "start" => task'[queue'[k].task].pc = "scheduled"
  <2> SUFFICES ASSUME NEW k \in DOMAIN queue', queue'[k].kind = "start"
               PROVE  task'[queue'[k].task].pc = "scheduled"
    OBVIOUS
  <2>1. /\ queue[k + 1].kind = "start" /\ task[queue[k + 1].task].pc = "scheduled"
        /\ queue[k + 1].task \in Tasks
    BY <1>1, <1>3, <1>4 DEF StartsAreDue
  <2>2. queue[k + 1].task \notin started
    BY <1>1, <1>3, <1>5, <1>6, <2>1 DEF StartsAreDue
  <2>3. QED
    BY <1>3, <2>1, <2>2
<1>8. \A j, k \in DOMAIN queue' :
         queue'[j].kind = "start" /\ queue'[k].kind = "start" /\ queue'[j].task = queue'[k].task => j = k
  <2> SUFFICES ASSUME NEW j \in DOMAIN queue', NEW k \in DOMAIN queue',
                      queue'[j].kind = "start", queue'[k].kind = "start",
                      queue'[j].task = queue'[k].task
               PROVE  j = k
    OBVIOUS
  <2>1. j + 1 = k + 1
    BY <1>1, <1>3 DEF StartsAreDue
  <2>2. QED
    BY <1>6, <2>1
<1>9. QED
  BY <1>2, <1>7, <1>8 DEF StartsAreDue
\* Requests of users are counted down.
LEMMA LeftKeepsType ==
    ASSUME LoopInv, Request \/ Change \/ UNCHANGED left
    PROVE  left' \in [requests : Nat, changes : Nat]
<1>1. left \in [requests : Nat, changes : Nat]
  BY DEF LoopInv
<1>2. CASE Request
  <2>1. left.requests - 1 \in Nat
    BY <1>1, <1>2 DEF Request
  <2>2. QED
    BY <1>1, <1>2, <2>1 DEF Request
<1>3. CASE Change
  <2>1. left.changes - 1 \in Nat
    BY <1>1, <1>3 DEF Change
  <2>2. QED
    BY <1>1, <1>3, <2>1 DEF Change
<1>4. CASE UNCHANGED left
  BY <1>1, <1>4
<1>5. QED
  BY <1>2, <1>3, <1>4

\* The loop, the handler of requests and the bounds keep their types.
LEMMA RestKeepsType ==
    ASSUME LoopInv, [Next]_vars
    PROVE  HandlerInv' /\ loop' \in Loops /\ left' \in [requests : Nat, changes : Nat]
<1>i. /\ Idle.kind = "idle"
      /\ HandlerInv /\ loop \in Loops
  BY DEF Idle, LoopInv
<1>1. CASE LoopStep
  <2>1. UNCHANGED <<handler, left>> /\ (UNCHANGED loop \/ loop' = "stopped")
    BY <1>1 DEF LoopStep, Start, SetFuture, DeliverCancel, Stop, RequestApproval, AwaitAnswer,
         ReceiveDecision, Settle, ThrowCancelled, Unwind, Done, PutEvent
  <2>2. QED
    BY <1>i, <2>1, LeftKeepsType DEF HandlerInv, Loops
<1>2. CASE HandlerStep
  <2>1. CASE AnnounceCancel
    <3>1. /\ UNCHANGED <<loop, left>> /\ handler.kind = "cancel"
          /\ handler' = [handler EXCEPT !.kind = "announced"]
      BY <2>1 DEF AnnounceCancel
    <3>2. handler'.kind = "announced" /\ handler'.task = handler.task
      BY <1>i, <3>1 DEF HandlerInv
    <3>3. QED
      BY <1>i, <3>1, <3>2, LeftKeepsType DEF HandlerInv
  <2>2. CASE PutEvent("handler") \/ CancelFuture \/ PostAnswer \/ \E t \in Tasks : Schedule(t)
    <3>1. UNCHANGED <<loop, left>> /\ (UNCHANGED handler \/ handler' = Idle)
      BY <2>2 DEF PutEvent, CancelFuture, PostAnswer, Schedule
    <3>2. QED
      BY <1>i, <3>1, LeftKeepsType DEF HandlerInv
  <2>3. QED
    BY <1>2, <2>1, <2>2 DEF HandlerStep
<1>3. CASE StreamStep \/ SettingsStep \/ UNCHANGED vars
  <2>1. UNCHANGED <<loop, left, handler>>
    BY <1>3 DEF StreamStep, Replay, EndIfTerminal, WriteEvent, Ping, SettingsStep, ApplyChange,
         Dump, OpenFile, WriteFile, Reload, vars, taskVars
  <2>2. QED
    BY <1>i, <2>1, LeftKeepsType DEF HandlerInv
<1>4. CASE UserStep
  <2>1. Request \/ Change
    BY <1>4 DEF UserStep, Submit, Cancel, ResolveApproval, Disconnect, Subscribe, KillCommand,
         CheckChange, RunCommand, Close
  <2>2. loop' \in Loops
    <3>1. UNCHANGED loop \/ loop' = "closing"
      BY <1>4 DEF UserStep, Submit, Cancel, ResolveApproval, Disconnect, Subscribe, KillCommand,
           CheckChange, RunCommand, Close, taskVars
    <3>2. QED
      BY <1>i, <3>1 DEF Loops
  <2>3. HandlerInv'
    <3>1. CASE UNCHANGED handler
      BY <1>i, <3>1 DEF HandlerInv
    <3>2. CASE \E t \in Tasks : Cancel(t) \/ \E a \in Answers : ResolveApproval(t, a)
      BY <3>2 DEF HandlerInv, Cancel, ResolveApproval
    <3>3. QED
      BY <1>4, <3>1, <3>2 DEF UserStep, Submit, Disconnect, Subscribe, KillCommand,
           CheckChange, RunCommand, Close, taskVars
  <2>4. QED
    BY <2>1, <2>2, <2>3, LeftKeepsType
<1>5. QED
  BY <1>1, <1>2, <1>3, <1>4 DEF Next

\* A queue that stays as it is keeps its starts.
LEMMA StillKeepsStarts ==
    ASSUME LoopInv, UNCHANGED queue,
           \A u \in Tasks : task[u].pc = "scheduled" => task'[u].pc = "scheduled"
    PROVE  queue' \in Seq(Messages) /\ StartsAreDue'
<1>1. queue \in Seq(Messages) /\ StartsAreDue
  BY DEF LoopInv
<1>2. \A k \in DOMAIN queue : queue[k].kind = "start" => queue[k].task \in Tasks
  BY <1>1 DEF Messages
<1>3. QED
  BY <1>1, <1>2 DEF StartsAreDue

\* The part of the invariant about records and callbacks is kept by every step.
LEMMA NextKeepsTasks ==
    ASSUME TaskInv, LoopInv, [Next]_vars
    PROVE  TaskInv' /\ LoopInv'
<1> DEFINE StartsStay == \A u \in Tasks : task[u].pc = "scheduled" => task'[u].pc = "scheduled"
           Good == queue' \in Seq(Messages) /\ StartsAreDue'
<1>r. HandlerInv' /\ loop' \in Loops /\ left' \in [requests : Nat, changes : Nat]
  BY RestKeepsType
<1>s. SUFFICES TaskInv' /\ Good
  BY <1>r DEF LoopInv
<1>1. CASE Start
  <2> DEFINE t == Head(queue).task
  <2>1. TaskInv' /\ Others(t)
    BY <1>1, StartEffect
  <2>2. queue # << >> /\ queue[1].kind = "start" /\ queue[1].task = t /\ queue' = Tail(queue)
    BY <1>1, CallbackEffect DEF Start
  <2> HIDE DEF t
  <2>3. \A u \in Tasks : task[u].pc = "scheduled" => task'[u].pc = "scheduled" \/ u \in {t}
    BY <2>1 DEF Others
  <2>4. \A u \in {t} : queue[1].kind = "start" /\ queue[1].task = u
    BY <2>2
  <2>5. QED
    BY <2>1, <2>2, <2>3, <2>4, TakingKeepsStarts
<1>t. ASSUME StartsStay, queue # << >>, queue' = Tail(queue) PROVE Good
  <2> DEFINE none == {}
  <2>1. \A u \in none : queue[1].kind = "start" /\ queue[1].task = u
    OBVIOUS
  <2> HIDE DEF none
  <2>2. \A u \in Tasks : task[u].pc = "scheduled" => task'[u].pc = "scheduled" \/ u \in none
    BY <1>t
  <2>3. QED
    BY <1>t, <2>1, <2>2, TakingKeepsStarts
<1>2. CASE SetFuture
  <2> DEFINE t == Head(queue).task
  <2>1. /\ TaskInv' /\ Others(t) /\ queue # << >> /\ queue' = Tail(queue)
        /\ task'[t].pc = task[t].pc
    BY <1>2, FutureEffect
  <2> HIDE DEF t
  <2>2. StartsStay
    BY <2>1 DEF Others
  <2>3. QED
    BY <1>t, <2>1, <2>2
<1>3. CASE DeliverCancel
  <2>1. TaskInv' /\ \A u \in Tasks : task'[u].pc = task[u].pc
    BY <1>3, DeliverEffect
  <2>2. queue # << >> /\ queue' = Tail(queue)
    BY <1>3, CallbackEffect DEF DeliverCancel
  <2>3. QED
    BY <1>t, <2>1, <2>2
<1>4. CASE Stop
  <2>1. TaskInv' /\ \A u \in Tasks : task'[u] = task[u]
    BY <1>4, TasksStutter DEF Stop
  <2>2. queue # << >> /\ queue' = Tail(queue)
    BY <1>4, CallbackEffect DEF Stop
  <2>3. QED
    BY <1>t, <2>1, <2>2
<1>5. ASSUME NEW t \in Tasks, RequestApproval(t) PROVE TaskInv' /\ Good
  <2>1. TaskInv' /\ Others(t) /\ task[t].pc = "running" /\ UNCHANGED queue
    BY <1>5, RequestEffect DEF RequestApproval
  <2>2. QED
    BY <2>1, StillKeepsStarts DEF Others
<1>6. ASSUME NEW t \in Tasks, AwaitAnswer(t) PROVE TaskInv' /\ Good
  <2>1. TaskInv' /\ Others(t) /\ task[t].pc = "opening" /\ UNCHANGED queue
    BY <1>6, AwaitEffect DEF AwaitAnswer
  <2>2. QED
    BY <2>1, StillKeepsStarts DEF Others
<1>7. ASSUME NEW t \in Tasks, ReceiveDecision(t) PROVE TaskInv' /\ Good
  <2>1. TaskInv' /\ Others(t) /\ task[t].pc = "asking" /\ UNCHANGED queue
    BY <1>7, DecisionEffect DEF ReceiveDecision
  <2>2. QED
    BY <2>1, StillKeepsStarts DEF Others
<1>8. ASSUME NEW t \in Tasks, NEW status \in Results, Settle(t, status) PROVE TaskInv' /\ Good
  <2>1. TaskInv' /\ Others(t) /\ task[t].pc = "running" /\ UNCHANGED queue
    BY <1>8, SettleEffect DEF Settle
  <2>2. QED
    BY <2>1, StillKeepsStarts DEF Others
<1>9. ASSUME NEW t \in Tasks, ThrowCancelled(t) PROVE TaskInv' /\ Good
  <2>1. TaskInv' /\ Others(t) /\ task[t].pc # "scheduled" /\ UNCHANGED queue
    BY <1>9, ThrowEffect DEF ThrowCancelled
  <2>2. QED
    BY <2>1, StillKeepsStarts DEF Others
<1>10. ASSUME NEW t \in Tasks, Done(t) \/ Unwind(t) PROVE TaskInv' /\ Good
  <2>1. TaskInv' /\ Others(t) /\ task[t].pc # "scheduled" /\ UNCHANGED queue
    BY <1>10, DoneEffect, UnwindEffect DEF Done, Unwind
  <2>2. QED
    BY <2>1, StillKeepsStarts DEF Others
<1>11. CASE CancelFuture
  <2> DEFINE t == handler.task
  <2>1. /\ TaskInv' /\ t \in Tasks /\ \A u \in Tasks : task'[u].pc = task[u].pc
        /\ queue' = queue \/ queue' = Append(queue, Message("cancel", t, 0, None))
    BY <1>11, CancelEffect
  <2>2. /\ Message("cancel", t, 0, None) \in Messages
        /\ Message("cancel", t, 0, None).kind \in {"answer", "cancel", "stop"}
    BY <2>1, MessageType
  <2>3. Grows({"answer", "cancel", "stop"})
    BY <2>1, <2>2, GrowsByOne
  <2>4. QED
    BY <2>1, <2>3, GrowingKeepsStarts
<1>a. CASE AnnounceCancel
  <2> DEFINE t == handler.task
  <2>1. TaskInv' /\ Others(t) /\ task'[t].pc = task[t].pc
    BY <1>a, AnnounceEffect
  <2>2. UNCHANGED queue
    BY <1>a DEF AnnounceCancel
  <2> HIDE DEF t
  <2>3. QED
    BY <2>1, <2>2, StillKeepsStarts DEF Others
<1>12. CASE PostAnswer
  <2> DEFINE t == handler.task
             m == Message("answer", t, task[t].request, handler.action)
  <2>1. /\ t \in Tasks /\ handler.action \in Answers /\ UNCHANGED task
        /\ queue' = queue \/ queue' = Append(queue, m)
    BY <1>12 DEF PostAnswer, LoopInv, HandlerInv, CallSoon
  <2>2. TaskInv' /\ \A u \in Tasks : task'[u] = task[u]
    BY <2>1, TasksStutter
  <2>3. task[t].request \in Nat
    BY <2>1, BoundsAssumption DEF TaskInv, TaskType
  <2>4. m \in Messages /\ m.kind \in {"answer", "cancel", "stop"}
    BY <2>1, <2>3, MessageType
  <2> HIDE DEF m
  <2>5. Grows({"answer", "cancel", "stop"})
    BY <2>1, <2>4, GrowsByOne
  <2>6. QED
    BY <2>2, <2>5, GrowingKeepsStarts
<1>13. ASSUME NEW t \in Tasks, Schedule(t) PROVE TaskInv' /\ Good
  <2> DEFINE m == Message("start", t, 0, None)
  <2>1. /\ TaskInv' /\ Others(t) /\ task[t].pc = "visible"
        /\ \/ queue' = queue
           \/ task'[t].pc = "scheduled" /\ queue' = Append(queue, m)
    BY <1>13, ScheduleEffect
  <2>2. StartsStay
    BY <2>1 DEF Others
  <2>3. CASE queue' = queue
    BY <2>1, <2>2, <2>3, StillKeepsStarts
  <2>4. CASE task'[t].pc = "scheduled" /\ queue' = Append(queue, m)
    <3>1. m \in Messages /\ m.kind = "start" /\ m.task = t
      BY MessageType
    <3> HIDE DEF m
    <3>2. queue \in Seq(Messages) /\ StartsAreDue
      BY DEF LoopInv
    <3>3. /\ queue' \in Seq(Messages) /\ Len(queue') = Len(queue) + 1
          /\ queue'[Len(queue) + 1] = m /\ \A k \in DOMAIN queue : queue'[k] = queue[k]
      BY <2>4, <3>1, <3>2
    <3>4. \A k \in DOMAIN queue' : k \in DOMAIN queue \/ k = Len(queue) + 1
      BY <3>2, <3>3
    <3>5. \A k \in DOMAIN queue : queue[k].kind = "start" =>
             queue[k].task \in Tasks /\ queue[k].task # t /\ task'[queue[k].task].pc = "scheduled"
      BY <2>1, <2>2, <3>2 DEF Messages, StartsAreDue
    <3>6. StartsAreDue'
      BY <2>4, <3>1, <3>2, <3>3, <3>4, <3>5 DEF StartsAreDue
    <3>7. QED
      BY <2>1, <3>3, <3>6
  <2>5. QED
    BY <2>1, <2>3, <2>4
<1>14. ASSUME NEW t \in Tasks, Submit(t) PROVE TaskInv' /\ Good
  <2>1. TaskInv' /\ Others(t) /\ task[t].pc = "absent" /\ UNCHANGED queue
    BY <1>14, SubmitEffect DEF Submit
  <2>2. QED
    BY <2>1, StillKeepsStarts DEF Others
<1>15. CASE Close
  <2>1. TaskInv' /\ Grows({"cancel", "stop"}) /\ \A u \in Tasks : task'[u].pc = task[u].pc
    BY <1>15, CloseEffect
  <2>2. Grows({"answer", "cancel", "stop"})
    BY <2>1 DEF Grows
  <2>3. QED
    BY <2>1, <2>2, GrowingKeepsStarts
<1>16. CASE UNCHANGED <<task, queue>>
  <2>1. TaskInv' /\ \A u \in Tasks : task'[u] = task[u]
    BY <1>16, TasksStutter
  <2>2. QED
    BY <1>16, <2>1, StillKeepsStarts
<1>17. CASE LoopStep \/ HandlerStep
  <2>1. ASSUME NEW e, PutEvent(e) PROVE TaskInv' /\ Good
    BY <2>1, <1>16 DEF PutEvent
  <2>2. CASE LoopStep
    BY <2>1, <2>2, <1>1, <1>2, <1>3, <1>4, <1>5, <1>6, <1>7, <1>8, <1>9, <1>10 DEF LoopStep
  <2>3. CASE HandlerStep
    BY <2>1, <2>3, <1>a, <1>11, <1>12, <1>13 DEF HandlerStep
  <2>4. QED
    BY <1>17, <2>2, <2>3
<1>18. CASE StreamStep \/ SettingsStep \/ UNCHANGED vars
  <2>1. UNCHANGED <<task, queue>>
    BY <1>18 DEF StreamStep, Replay, EndIfTerminal, WriteEvent, Ping, SettingsStep, ApplyChange,
         Dump, OpenFile, WriteFile, Reload, vars, taskVars
  <2>2. QED
    BY <1>16, <2>1
<1>19. CASE UserStep
  <2>1. \/ Close \/ \E t \in Tasks : Submit(t)
        \/ UNCHANGED <<task, queue>>
    BY <1>19 DEF UserStep, Cancel, ResolveApproval, Disconnect, Subscribe, KillCommand,
         CheckChange, RunCommand, taskVars
  <2>2. QED
    BY <1>14, <1>15, <1>16, <2>1
<1>20. QED
  BY <1>17, <1>18, <1>19 DEF Next
-----------------------------------------------------------------------------
(***************************************************************************)
(* The answers.  PostedSame and QueueSame: nothing changes for the         *)
(* requests of t among the answers posted and among those in the queue.    *)
(***************************************************************************)
PostedSame(t) ==
    \A i \in Nat : /\ Posted(t, i)' <=> Posted(t, i)
                   /\ \A a \in Answers : IsFirst(t, i, a) => IsFirst(t, i, a)'
QueueSame(t) ==
    \A i \in Nat : /\ Queued(t, i)' <=> Queued(t, i)
                   /\ \A a \in Answers : FirstQueued(t, i, a)' => FirstQueued(t, i, a)

\* Nothing is posted, or taken from or added to the queue.
LEMMA StillKeepsPosted ==
    ASSUME UNCHANGED posted, NEW t
    PROVE  PostedSame(t)
BY DEF PostedSame, Posted, IsFirst

LEMMA StillKeepsQueue ==
    ASSUME UNCHANGED queue, NEW t
    PROVE  QueueSame(t)
BY DEF QueueSame, Queued, FirstQueued, AnswerAt

\* What is added to the queue is not an answer.
LEMMA GrowingKeepsQueue ==
    ASSUME LoopInv, Grows({"start", "cancel", "stop"}), NEW t
    PROVE  QueueSame(t)
<1>1. PICK ms \in Seq(Messages) : /\ queue' = queue \o ms
                                  /\ \A k \in DOMAIN ms : ms[k].kind \in {"start", "cancel", "stop"}
  BY DEF Grows
<1>2. queue \in Seq(Messages)
  BY DEF LoopInv
<1>3. /\ queue' \in Seq(Messages) /\ Len(queue') = Len(queue) + Len(ms)
      /\ \A k \in 1..(Len(queue) + Len(ms)) :
            queue'[k] = IF k <= Len(queue) THEN queue[k] ELSE ms[k - Len(queue)]
  BY <1>1, <1>2, ConcatProperties
<1>4. /\ Len(queue) \in Nat /\ Len(ms) \in Nat /\ DOMAIN queue' = 1..(Len(queue) + Len(ms))
      /\ DOMAIN queue = 1..Len(queue) /\ DOMAIN ms = 1..Len(ms)
  BY <1>2, <1>3
<1>5. \A k \in DOMAIN queue : k \in DOMAIN queue' /\ queue'[k] = queue[k]
  BY <1>3, <1>4
<1>6. \A k \in DOMAIN queue' : queue'[k].kind = "answer" => k \in DOMAIN queue
  <2> SUFFICES ASSUME NEW k \in DOMAIN queue', k \notin DOMAIN queue
               PROVE  queue'[k].kind # "answer"
    OBVIOUS
  <2>1. queue'[k] = ms[k - Len(queue)] /\ k - Len(queue) \in DOMAIN ms
    BY <1>3, <1>4
  <2>2. QED
    BY <1>1, <2>1
<1>7. \A k \in DOMAIN queue : \A j \in 1..(k - 1) : j \in DOMAIN queue
  BY <1>4
<1>8. QED
  BY <1>5, <1>6, <1>7 DEF QueueSame, Queued, FirstQueued, AnswerAt

\* An answer for another request is taken from the queue, or none.
LEMMA TakingOther ==
    ASSUME LoopInv, queue # << >>, queue' = Tail(queue), NEW t, NEW i, ~AnswerAt(1, t, i)
    PROVE  /\ Queued(t, i)' <=> Queued(t, i)
           /\ \A a : FirstQueued(t, i, a)' => FirstQueued(t, i, a)
<1>1. queue \in Seq(Messages)
  BY DEF LoopInv
<1>2. /\ Len(queue) \in Nat /\ Len(queue) > 0 /\ DOMAIN queue = 1..Len(queue)
      /\ DOMAIN queue' = 1..(Len(queue) - 1)
      /\ \A k \in 1..(Len(queue) - 1) : queue'[k] = queue[k + 1]
  BY <1>1
<1>3. \A k \in DOMAIN queue' : /\ k + 1 \in DOMAIN queue
                               /\ AnswerAt(k, t, i)' <=> AnswerAt(k + 1, t, i)
                               /\ queue'[k].action = queue[k + 1].action
  BY <1>2 DEF AnswerAt
<1>4. Queued(t, i)' => Queued(t, i)
  BY <1>3 DEF Queued
<1>5. Queued(t, i) => Queued(t, i)'
  <2> SUFFICES ASSUME NEW k \in DOMAIN queue, AnswerAt(k, t, i) PROVE Queued(t, i)'
    BY DEF Queued
  <2>1. k - 1 \in DOMAIN queue' /\ (k - 1) + 1 = k
    <3>1. k # 1
      OBVIOUS
    <3>2. QED
      BY <1>2, <3>1
  <2>2. QED
    BY <1>3, <2>1 DEF Queued
<1>6. ASSUME NEW a, FirstQueued(t, i, a)' PROVE FirstQueued(t, i, a)
  <2>1. PICK k \in DOMAIN queue' : /\ AnswerAt(k, t, i)' /\ queue'[k].action = a
                                  /\ \A j \in 1..(k - 1) : ~AnswerAt(j, t, i)'
    BY <1>6 DEF FirstQueued
  <2>2. ASSUME NEW j \in 1..((k + 1) - 1) PROVE ~AnswerAt(j, t, i)
    <3>1. CASE j = 1
      BY <3>1
    <3>2. CASE j # 1
      <4>1. j - 1 \in 1..(k - 1) /\ j - 1 \in DOMAIN queue' /\ (j - 1) + 1 = j
        BY <1>2, <3>2
      <4>2. QED
        BY <1>3, <2>1, <4>1
    <3>3. QED
      BY <3>1, <3>2
  <2>3. QED
    BY <1>3, <2>1, <2>2 DEF FirstQueued
<1>7. QED
  BY <1>4, <1>5, <1>6

\* Whatever is taken from the queue, nothing new is in it.
LEMMA TakingAdds ==
    ASSUME LoopInv, queue # << >>, queue' = Tail(queue), NEW t, NEW i, Queued(t, i)'
    PROVE  Queued(t, i)
<1>1. queue \in Seq(Messages)
  BY DEF LoopInv
<1>2. \A k \in DOMAIN queue' : k + 1 \in DOMAIN queue /\ queue'[k] = queue[k + 1]
  BY <1>1
<1>3. QED
  BY <1>2 DEF Queued, AnswerAt

\* The answer at the front is the first one for its request.
LEMMA FrontIsFirst ==
    ASSUME LoopInv, queue # << >>, NEW t, NEW i, AnswerAt(1, t, i)
    PROVE  FirstQueued(t, i, queue[1].action)
<1>1. 1 \in DOMAIN queue
  BY DEF LoopInv
<1>2. 1..(1 - 1) = {}
  OBVIOUS
<1>3. QED
  BY <1>1, <1>2 DEF FirstQueued
\* An answer is added to the queue.
LEMMA AnswerQueued ==
    ASSUME LoopInv, NEW m \in Messages, m.kind = "answer", queue' = Append(queue, m)
    PROVE  /\ Queued(m.task, m.request)'
           /\ \A t, i : /\ Queued(t, i) => Queued(t, i)'
                        /\ Queued(t, i)' => Queued(t, i) \/ For(m, t, i)
                        /\ \A a : FirstQueued(t, i, a)' =>
                              \/ FirstQueued(t, i, a)
                              \/ For(m, t, i) /\ a = m.action /\ ~Queued(t, i)
<1>n. PICK n : n = Len(queue) + 1
  OBVIOUS
<1>1. queue \in Seq(Messages)
  BY DEF LoopInv
<1>2. /\ n \in Nat /\ n = Len(queue) + 1
      /\ Len(queue) \in Nat /\ DOMAIN queue = 1..Len(queue) /\ DOMAIN queue' = 1..n
      /\ queue'[n] = m /\ \A k \in DOMAIN queue : queue'[k] = queue[k]
  BY <1>1, <1>n
<1>3. /\ n \in DOMAIN queue'
      /\ \A t, i : AnswerAt(n, t, i)' <=> For(m, t, i)
  BY <1>2 DEF AnswerAt, For
<1>4. \A k \in DOMAIN queue : /\ k \in DOMAIN queue'
                              /\ \A t, i : AnswerAt(k, t, i)' <=> AnswerAt(k, t, i)
  BY <1>2 DEF AnswerAt
<1>5. \A k \in DOMAIN queue' : k \in DOMAIN queue \/ k = n
  BY <1>2
<1>6. DOMAIN queue = 1..(n - 1) /\ \A k \in DOMAIN queue : \A j \in 1..(k - 1) : j \in DOMAIN queue
  BY <1>2
<1>7. Queued(m.task, m.request)'
  BY <1>3 DEF Queued, For
<1>8. ASSUME NEW t, NEW i
      PROVE  /\ Queued(t, i) => Queued(t, i)'
             /\ Queued(t, i)' => Queued(t, i) \/ For(m, t, i)
  BY <1>3, <1>4, <1>5 DEF Queued
<1>9. ASSUME NEW t, NEW i, NEW a, FirstQueued(t, i, a)', ~FirstQueued(t, i, a)
      PROVE  For(m, t, i) /\ a = m.action /\ ~Queued(t, i)
  <2>1. PICK k \in DOMAIN queue' : /\ AnswerAt(k, t, i)' /\ queue'[k].action = a
                                  /\ \A j \in 1..(k - 1) : ~AnswerAt(j, t, i)'
    BY <1>9 DEF FirstQueued
  <2>2. k \notin DOMAIN queue
    <3> SUFFICES ASSUME k \in DOMAIN queue PROVE FALSE
      OBVIOUS
    <3>1. AnswerAt(k, t, i) /\ queue[k].action = a /\ \A j \in 1..(k - 1) : ~AnswerAt(j, t, i)
      BY <1>2, <1>4, <1>6, <2>1
    <3>2. QED
      BY <1>9, <3>1 DEF FirstQueued
  <2>3. k = n
    BY <1>5, <2>2
  <2>4. For(m, t, i) /\ a = m.action
    BY <1>2, <1>3, <2>1, <2>3
  <2>5. ~Queued(t, i)
    BY <1>4, <1>6, <2>1, <2>3 DEF Queued
  <2>6. QED
    BY <2>4, <2>5
<1>10. QED
  BY <1>7, <1>8, <1>9

\* An answer is posted.
LEMMA AnswerPosted ==
    ASSUME posted \in Seq(Postings), NEW p \in Postings, posted' = Append(posted, p)
    PROVE  /\ posted' \in Seq(Postings)
           /\ \A t, i : /\ Posted(t, i)' => Posted(t, i) \/ For(p, t, i)
                        /\ \A a : IsFirst(t, i, a) => IsFirst(t, i, a)'
           /\ ~Posted(p.task, p.request) => IsFirst(p.task, p.request, p.action)'
<1> DEFINE n == Len(posted) + 1
<1>1. /\ posted' \in Seq(Postings) /\ Len(posted) \in Nat /\ DOMAIN posted = 1..Len(posted)
      /\ DOMAIN posted' = 1..n
      /\ posted'[n] = p /\ \A k \in DOMAIN posted : posted'[k] = posted[k]
  OBVIOUS
<1>2. /\ \A k \in DOMAIN posted' : k \in DOMAIN posted \/ k = n
      /\ \A k \in DOMAIN posted : k \in DOMAIN posted' /\ \A j \in 1..(k - 1) : j \in DOMAIN posted
      /\ n \in DOMAIN posted' /\ 1..(n - 1) = DOMAIN posted
  BY <1>1
<1> HIDE DEF n
<1>3. ASSUME NEW t, NEW i, Posted(t, i)' PROVE Posted(t, i) \/ For(p, t, i)
  BY <1>1, <1>2, <1>3 DEF Posted
<1>4. ASSUME NEW t, NEW i, NEW a, IsFirst(t, i, a) PROVE IsFirst(t, i, a)'
  BY <1>1, <1>2, <1>4 DEF IsFirst
<1>5. ASSUME ~Posted(p.task, p.request) PROVE IsFirst(p.task, p.request, p.action)'
  <2>1. posted'[n] = [task |-> p.task, request |-> p.request, action |-> p.action]
    BY <1>1 DEF Postings
  <2>2. \A j \in 1..(n - 1) : ~For(posted'[j], p.task, p.request)
    BY <1>1, <1>2, <1>5 DEF Posted
  <2>3. QED
    BY <1>2, <2>1, <2>2 DEF IsFirst
<1>6. QED
  BY <1>1, <1>3, <1>4, <1>5

\* What is first in the queue is in the queue.
LEMMA FirstIsQueued ==
    ASSUME NEW t, NEW i, NEW a, FirstQueued(t, i, a)
    PROVE  Queued(t, i)
BY DEF FirstQueued, Queued

\* The numbers and the answers of the requests of a task.
LEMMA RequestType ==
    ASSUME TaskInv, NEW t \in Tasks
    PROVE  /\ task[t].request \in Nat /\ task[t].decision \in Answers \cup {None}
           /\ task[t].received \in Seq(Answers)
           /\ \A i \in DOMAIN task[t].received : i \in Nat /\ task[t].received[i] \in Answers
<1>1. /\ task[t].request \in 0..MaxRequests /\ task[t].decision \in Answers \cup {None}
      /\ task[t].received \in Seq(Answers)
  BY DEF TaskInv, TaskType
<1>2. task[t].request \in Nat
  BY <1>1, BoundsAssumption
<1>3. QED
  BY <1>1, <1>2

\* The answers of a task that a step leaves alone stay right.
LEMMA AnswersStay ==
    ASSUME TaskInv, NEW t \in Tasks, AnswersOf(t), Kept(t), PostedSame(t), QueueSame(t)
    PROVE  AnswersOf(t)'
<1>n. PICK n, d, got : n = task[t].request /\ d = task[t].decision /\ got = task[t].received
  OBVIOUS
<1>1. n \in Nat /\ d \in Answers \cup {None} /\ \A i \in DOMAIN got : i \in Nat /\ got[i] \in Answers
  BY <1>n, RequestType
<1>2. /\ task'[t].request = n /\ task'[t].decision = d /\ task'[t].received = got
      /\ task'[t].open = task[t].open
      /\ task'[t].pc = "opening" <=> task[t].pc = "opening"
  BY <1>n DEF Kept
<1>3. \A i \in Nat : Posted(t, i)' \/ Queued(t, i)' => i <= n
  BY <1>n DEF AnswersOf, PostedSame, QueueSame
<1>4. task[t].pc = "opening" => ~Posted(t, n)' /\ ~Queued(t, n)'
  BY <1>1, <1>n DEF AnswersOf, PostedSame, QueueSame
<1>5. task[t].open => /\ d # None => IsFirst(t, n, d)'
                      /\ d = None => /\ \A a \in Answers : FirstQueued(t, n, a)' => IsFirst(t, n, a)'
                                     /\ Posted(t, n)' => Queued(t, n)'
  BY <1>1, <1>n DEF AnswersOf, PostedSame, QueueSame
<1>6. \A i \in DOMAIN got : IsFirst(t, i, got[i])'
  BY <1>1, <1>n DEF AnswersOf, PostedSame
<1>7. QED
  BY <1>2, <1>3, <1>4, <1>5, <1>6 DEF AnswersOf
\* A step that is not about requests of tasks.
LEMMA QuietKeepsAnswers ==
    ASSUME TaskInv, AnswerInv, UNCHANGED posted, \A t \in Tasks : Kept(t) /\ QueueSame(t)
    PROVE  AnswerInv'
<1>1. \A t \in Tasks : AnswersOf(t)'
  BY StillKeepsPosted, AnswersStay DEF AnswerInv
<1>2. QED
  BY <1>1 DEF AnswerInv

\* A step that is about the requests of one task.
LEMMA OneKeepsAnswers ==
    ASSUME TaskInv, AnswerInv, UNCHANGED posted, UNCHANGED queue, NEW t \in Tasks, Others(t),
           AnswersOf(t)'
    PROVE  AnswerInv'
<1>1. ASSUME NEW u \in Tasks, u # t PROVE AnswersOf(u)'
  <2>1. Kept(u)
    BY <1>1 DEF Kept, Others
  <2>2. QED
    BY <2>1, StillKeepsPosted, StillKeepsQueue, AnswersStay DEF AnswerInv
<1>2. QED
  BY <1>1 DEF AnswerInv

\* A callback that is not an answer is taken from the queue.
LEMMA TakingKeepsQueue ==
    ASSUME LoopInv, NEW kind, Callback(kind), kind # "answer", NEW t
    PROVE  QueueSame(t)
<1>1. queue # << >> /\ queue[1].kind = kind /\ queue' = Tail(queue)
  BY CallbackEffect
<1>2. \A i : ~AnswerAt(1, t, i)
  BY <1>1 DEF AnswerAt
<1>3. QED
  BY <1>1, <1>2, TakingOther DEF QueueSame

\* A request is made: nothing is posted for it yet.
LEMMA RequestKeepsAnswers ==
    ASSUME TaskInv, AnswerInv, NEW t \in Tasks, RequestApproval(t)
    PROVE  AnswerInv'
<1>n. PICK n, got : n = task[t].request /\ got = task[t].received
  OBVIOUS
<1>1. /\ Others(t) /\ task'[t].pc = "opening" /\ task'[t].request = n + 1 /\ ~task'[t].open
      /\ task'[t].received = got
  BY <1>n, RequestEffect
<1>2. UNCHANGED posted /\ UNCHANGED queue
  BY DEF RequestApproval
<1>3. PostedSame(t) /\ QueueSame(t)
  BY <1>2, StillKeepsPosted, StillKeepsQueue
<1>4. n \in Nat /\ \A i \in DOMAIN got : i \in Nat /\ got[i] \in Answers
  BY <1>n, RequestType
<1>5. AnswersOf(t)
  BY DEF AnswerInv
<1>6. \A i \in Nat : Posted(t, i)' \/ Queued(t, i)' => i <= n
  BY <1>3, <1>5, <1>n DEF AnswersOf, PostedSame, QueueSame
<1>7. /\ ~Posted(t, n + 1)' /\ ~Queued(t, n + 1)'
      /\ \A i \in Nat : Posted(t, i)' \/ Queued(t, i)' => i <= n + 1
  BY <1>4, <1>6
<1>8. \A i \in DOMAIN got : IsFirst(t, i, got[i])'
  BY <1>3, <1>4, <1>5, <1>n DEF AnswersOf, PostedSame
<1>9. AnswersOf(t)'
  BY <1>1, <1>7, <1>8 DEF AnswersOf
<1>10. QED
  BY <1>1, <1>2, <1>9, OneKeepsAnswers

\* The request is opened: still nothing is posted for it.
LEMMA AwaitKeepsAnswers ==
    ASSUME TaskInv, AnswerInv, NEW t \in Tasks, AwaitAnswer(t)
    PROVE  AnswerInv'
<1>n. PICK n, got : n = task[t].request /\ got = task[t].received
  OBVIOUS
<1>1. /\ Others(t) /\ task[t].pc = "opening" /\ task'[t].pc = "asking" /\ task'[t].request = n
      /\ task'[t].decision = None /\ task'[t].received = got
  BY <1>n, AwaitEffect
<1>2. UNCHANGED posted /\ UNCHANGED queue
  BY DEF AwaitAnswer
<1>3. PostedSame(t) /\ QueueSame(t)
  BY <1>2, StillKeepsPosted, StillKeepsQueue
<1>4. n \in Nat /\ \A i \in DOMAIN got : i \in Nat /\ got[i] \in Answers
  BY <1>n, RequestType
<1>5. AnswersOf(t)
  BY DEF AnswerInv
<1>6. \A i \in Nat : Posted(t, i)' \/ Queued(t, i)' => i <= n
  BY <1>3, <1>5, <1>n DEF AnswersOf, PostedSame, QueueSame
<1>7. ~Posted(t, n)' /\ ~Queued(t, n) /\ \A a \in Answers : ~FirstQueued(t, n, a)'
  BY <1>1, <1>3, <1>4, <1>5, <1>n, FirstIsQueued DEF AnswersOf, PostedSame, QueueSame
<1>8. \A i \in DOMAIN got : IsFirst(t, i, got[i])'
  BY <1>3, <1>4, <1>5, <1>n DEF AnswersOf, PostedSame
<1>9. AnswersOf(t)'
  BY <1>1, <1>6, <1>7, <1>8 DEF AnswersOf
<1>10. QED
  BY <1>1, <1>2, <1>9, OneKeepsAnswers

\* The decision is received, or CancelledError ends the request.
LEMMA ClosingKeepsAnswers ==
    ASSUME TaskInv, AnswerInv, NEW t \in Tasks, ReceiveDecision(t) \/ ThrowCancelled(t)
    PROVE  AnswerInv'
<1>n. PICK n, d, got, new : /\ n = task[t].request /\ d = task[t].decision
                            /\ got = task[t].received /\ new = task'[t].received
  OBVIOUS
<1>1. /\ Others(t) /\ task'[t].pc # "opening" /\ task'[t].request = n /\ ~task'[t].open
  BY <1>n, DecisionEffect, ThrowEffect
<1>2. UNCHANGED posted /\ UNCHANGED queue
  BY DEF ReceiveDecision, ThrowCancelled
<1>3. PostedSame(t) /\ QueueSame(t)
  BY <1>2, StillKeepsPosted, StillKeepsQueue
<1>4. n \in Nat /\ got \in Seq(Answers) /\ \A i \in DOMAIN got : i \in Nat /\ got[i] \in Answers
  BY <1>n, RequestType
<1>5. AnswersOf(t)
  BY DEF AnswerInv
<1>6. \A i \in Nat : Posted(t, i)' \/ Queued(t, i)' => i <= n
  BY <1>3, <1>5, <1>n DEF AnswersOf, PostedSame, QueueSame
<1>7. \A i \in DOMAIN got : IsFirst(t, i, got[i])'
  BY <1>3, <1>4, <1>5, <1>n DEF AnswersOf, PostedSame
<1>8. \A i \in DOMAIN new : IsFirst(t, i, new[i])'
  <2>1. CASE ReceiveDecision(t)
    <3>1. d \in Answers /\ n = Len(got) + 1 /\ new = Append(got, d) /\ task[t].open
      BY <1>n, <2>1, DecisionEffect
    <3>2. IsFirst(t, n, d)'
      BY <1>3, <1>4, <1>5, <1>n, <3>1, AnswersAssumption DEF AnswersOf, PostedSame
    <3>3. \A i \in DOMAIN new : (i \in DOMAIN got /\ new[i] = got[i]) \/ (i = n /\ new[i] = d)
      <4>1. /\ new \in Seq(Answers) /\ Len(new) = Len(got) + 1 /\ new[Len(got) + 1] = d
            /\ \A i \in 1..Len(got) : new[i] = got[i]
        BY <1>4, <3>1, AppendProperties
      <4>2. /\ DOMAIN new = 1..(Len(got) + 1) /\ DOMAIN got = 1..Len(got) /\ Len(got) \in Nat
        BY <1>4, <4>1
      <4>3. QED
        BY <3>1, <4>1, <4>2
    <3>4. QED
      BY <1>7, <3>2, <3>3
  <2>2. CASE ThrowCancelled(t)
    BY <1>7, <1>n, <2>2, ThrowEffect
  <2>3. QED
    BY <2>1, <2>2
<1>9. AnswersOf(t)'
  BY <1>1, <1>6, <1>8, <1>n DEF AnswersOf
<1>10. QED
  BY <1>1, <1>2, <1>9, OneKeepsAnswers
\* An answer is taken from the queue: it decides its request if it is the first.
LEMMA FutureKeepsAnswers ==
    ASSUME TaskInv, LoopInv, AnswerInv, SetFuture
    PROVE  AnswerInv'
<1>m. PICK t, i, a : t = Head(queue).task /\ i = Head(queue).request /\ a = Head(queue).action
  OBVIOUS
<1>n. PICK n, d, got : n = task[t].request /\ d = task[t].decision /\ got = task[t].received
  OBVIOUS
<1> DEFINE decides == task[t].open /\ n = i /\ d = None
<1>1. /\ t \in Tasks /\ a \in Answers /\ Head(queue).kind = "answer" /\ Head(queue) = queue[1]
      /\ queue # << >> /\ queue' = Tail(queue) /\ Others(t)
      /\ task'[t].pc = task[t].pc /\ task'[t].request = n /\ task'[t].open = task[t].open
      /\ task'[t].received = got
      /\ task'[t].decision = IF decides THEN a ELSE d
  BY <1>m, <1>n, FutureEffect
<1>2. UNCHANGED posted
  BY DEF SetFuture
<1>3. \A u \in Tasks : PostedSame(u)
  BY <1>2, StillKeepsPosted
<1>4. \A u, j : AnswerAt(1, u, j) <=> u = t /\ j = i
  BY <1>1, <1>m DEF AnswerAt, For
<1>5. ASSUME NEW u \in Tasks, u # t PROVE AnswersOf(u)'
  <2>1. QueueSame(u)
    BY <1>1, <1>4, <1>5, TakingOther DEF QueueSame
  <2>2. Kept(u)
    BY <1>1, <1>5 DEF Kept, Others
  <2>3. QED
    BY <1>3, <2>1, <2>2, AnswersStay DEF AnswerInv
<1>6. AnswersOf(t)'
  <2>1. /\ n \in Nat /\ d \in Answers \cup {None}
        /\ \A j \in DOMAIN got : j \in Nat /\ got[j] \in Answers
    BY <1>1, <1>n, RequestType
  <2>2. AnswersOf(t)
    BY <1>1 DEF AnswerInv
  <2>3. \A j \in Nat : Posted(t, j)' \/ Queued(t, j)' => j <= n
    BY <1>1, <1>3, <1>n, <2>2, TakingAdds DEF AnswersOf, PostedSame
  <2>4. task[t].pc = "opening" => ~Posted(t, n)' /\ ~Queued(t, n)'
    BY <1>1, <1>3, <1>n, <2>1, <2>2, TakingAdds DEF AnswersOf, PostedSame
  <2>5. \A j \in DOMAIN got : IsFirst(t, j, got[j])'
    BY <1>1, <1>3, <1>n, <2>1, <2>2 DEF AnswersOf, PostedSame
  <2>6. CASE decides
    <3>1. AnswerAt(1, t, n)
      BY <1>4, <2>6
    <3>2. FirstQueued(t, n, a)
      BY <1>1, <1>m, <3>1, FrontIsFirst
    <3>3. IsFirst(t, n, a)'
      BY <1>1, <1>3, <1>n, <2>1, <2>2, <2>6, <3>2 DEF AnswersOf, PostedSame
    <3>4. task'[t].decision = a /\ a # None
      BY <1>1, <2>6, AnswersAssumption
    <3>5. QED
      BY <1>1, <2>3, <2>4, <2>5, <3>3, <3>4 DEF AnswersOf
  <2>7. CASE ~decides
    <3>1. task'[t].decision = d
      BY <1>1, <2>7
    <3>2. task[t].open /\ d # None => IsFirst(t, n, d)'
      BY <1>1, <1>3, <1>n, <2>1, <2>2 DEF AnswersOf, PostedSame
    <3>3. task[t].open /\ d = None =>
             /\ \A b \in Answers : FirstQueued(t, n, b)' => IsFirst(t, n, b)'
             /\ Posted(t, n)' => Queued(t, n)'
      <4> SUFFICES ASSUME task[t].open, d = None
                   PROVE  /\ \A b \in Answers : FirstQueued(t, n, b)' => IsFirst(t, n, b)'
                          /\ Posted(t, n)' => Queued(t, n)'
        OBVIOUS
      <4>1. ~AnswerAt(1, t, n)
        BY <1>4, <2>7
      <4>2. /\ Queued(t, n)' <=> Queued(t, n)
            /\ \A b : FirstQueued(t, n, b)' => FirstQueued(t, n, b)
        BY <1>1, <4>1, TakingOther
      <4>3. QED
        BY <1>1, <1>3, <1>n, <2>1, <2>2, <4>2 DEF AnswersOf, PostedSame
    <3>4. QED
      BY <1>1, <2>3, <2>4, <2>5, <3>1, <3>2, <3>3 DEF AnswersOf
  <2>8. QED
    BY <2>6, <2>7
<1>7. QED
  BY <1>2, <1>5, <1>6 DEF AnswerInv

\* An answer is posted: it is the first for its request, or not.
LEMMA PostKeepsAnswers ==
    ASSUME TaskInv, LoopInv, AnswerInv, PostAnswer
    PROVE  AnswerInv'
<1>m. PICK t, n, a : t = handler.task /\ n = task[t].request /\ a = handler.action
  OBVIOUS
<1>p. PICK m, p : /\ m = Message("answer", t, n, a)
                  /\ p = [task |-> t, request |-> n, action |-> a]
  OBVIOUS
<1>1. t \in Tasks /\ a \in Answers /\ UNCHANGED task
  BY <1>m DEF PostAnswer, LoopInv, HandlerInv
<1>2. \A u \in Tasks : Kept(u) /\ task'[u] = task[u]
  BY <1>1, TasksStutter
<1>3. CASE ~task[t].open
  <2>1. UNCHANGED posted /\ UNCHANGED queue
    BY <1>3, <1>m DEF PostAnswer
  <2>2. QED
    BY <1>2, <2>1, StillKeepsQueue, QuietKeepsAnswers
<1>4. CASE task[t].open
  <2>1. queue' = Append(queue, m) /\ posted' = Append(posted, p)
    BY <1>4, <1>m, <1>p DEF PostAnswer, CallSoon
  <2>2. n \in Nat
    BY <1>1, <1>m, RequestType
  <2>3. /\ m \in Messages /\ m.kind = "answer" /\ m.task = t /\ m.request = n /\ m.action = a
    BY <1>1, <1>p, <2>2, MessageType
  <2>4. p \in Postings /\ p.task = t /\ p.request = n /\ p.action = a
    BY <1>1, <1>p, <2>2 DEF Postings
  <2>5. posted \in Seq(Postings) /\ \A u \in Tasks : AnswersOf(u)
    BY DEF AnswerInv
  <2>6. \A u, i : (For(m, u, i) <=> u = t /\ i = n) /\ (For(p, u, i) <=> u = t /\ i = n)
    BY <2>3, <2>4 DEF For
  <2>7. /\ posted' \in Seq(Postings)
        /\ \A u, i : /\ Posted(u, i)' => Posted(u, i) \/ (u = t /\ i = n)
                     /\ \A b : IsFirst(u, i, b) => IsFirst(u, i, b)'
        /\ ~Posted(t, n) => IsFirst(t, n, a)'
    <3>1. /\ posted' \in Seq(Postings)
          /\ \A u, i : /\ Posted(u, i)' => Posted(u, i) \/ For(p, u, i)
                       /\ \A b : IsFirst(u, i, b) => IsFirst(u, i, b)'
          /\ ~Posted(p.task, p.request) => IsFirst(p.task, p.request, p.action)'
      BY <2>1, <2>4, <2>5, AnswerPosted
    <3>2. ~Posted(t, n) => IsFirst(t, n, a)'
      BY <2>4, <3>1
    <3>3. QED
      BY <2>6, <3>1, <3>2
  <2>8. /\ Queued(t, n)'
        /\ \A u, i : /\ Queued(u, i) => Queued(u, i)'
                     /\ Queued(u, i)' => Queued(u, i) \/ (u = t /\ i = n)
                     /\ \A b : FirstQueued(u, i, b)' =>
                           \/ FirstQueued(u, i, b)
                           \/ u = t /\ i = n /\ b = a /\ ~Queued(u, i)
    <3>1. /\ Queued(m.task, m.request)'
          /\ \A u, i : /\ Queued(u, i) => Queued(u, i)'
                       /\ Queued(u, i)' => Queued(u, i) \/ For(m, u, i)
                       /\ \A b : FirstQueued(u, i, b)' =>
                             \/ FirstQueued(u, i, b)
                             \/ For(m, u, i) /\ b = m.action /\ ~Queued(u, i)
      BY <2>1, <2>3, AnswerQueued
    <3>2. Queued(t, n)'
      BY <2>3, <3>1
    <3>3. QED
      BY <2>3, <2>6, <3>1, <3>2
  <2>9. task[t].pc # "opening"
    BY <1>1, <1>4 DEF TaskInv, Progress
  <2>10. ASSUME NEW u \in Tasks PROVE AnswersOf(u)'
    <3>n. PICK r, d, got : r = task[u].request /\ d = task[u].decision /\ got = task[u].received
      OBVIOUS
    <3>1. /\ r \in Nat /\ task'[u].request = r /\ task'[u].decision = d /\ task'[u].received = got
          /\ task'[u].open = task[u].open /\ task'[u].pc = task[u].pc
      BY <1>2, <3>n, RequestType
    <3>2. AnswersOf(u)
      BY <2>5
    <3>3. u = t => n = r
      BY <1>m, <3>n
    <3>4. \A i \in Nat : Posted(u, i)' \/ Queued(u, i)' => i <= r
      <4>1. \A i \in Nat : Posted(u, i) \/ Queued(u, i) => i <= r
        BY <3>2, <3>n DEF AnswersOf
      <4>2. \A i \in Nat : u = t /\ i = n => i <= r
        BY <3>1, <3>3
      <4>3. QED
        BY <2>7, <2>8, <4>1, <4>2
    <3>5. task[u].pc = "opening" => ~Posted(u, r)' /\ ~Queued(u, r)'
      BY <2>7, <2>8, <2>9, <3>2, <3>n DEF AnswersOf
    <3>6. task[u].open =>
             /\ d # None => IsFirst(u, r, d)'
             /\ d = None => /\ \A b \in Answers : FirstQueued(u, r, b)' => IsFirst(u, r, b)'
                            /\ Posted(u, r)' => Queued(u, r)'
      <4>1. task[u].open /\ d # None => IsFirst(u, r, d)'
        BY <2>7, <3>2, <3>n DEF AnswersOf
      <4>2. task[u].open /\ d = None =>
               /\ \A b \in Answers : FirstQueued(u, r, b) => IsFirst(u, r, b)
               /\ Posted(u, r) => Queued(u, r)
        BY <3>2, <3>n DEF AnswersOf
      <4>3. ASSUME task[u].open, d = None, NEW b \in Answers, FirstQueued(u, r, b)'
            PROVE  IsFirst(u, r, b)'
        <5>1. CASE FirstQueued(u, r, b)
          BY <2>7, <4>2, <4>3, <5>1
        <5>2. CASE u = t /\ r = n /\ b = a /\ ~Queued(u, r)
          <6>1. ~Posted(t, n)
            BY <4>2, <4>3, <5>2
          <6>2. QED
            BY <2>7, <5>2, <6>1
        <5>3. \A i : FirstQueued(u, i, b)' =>
                 FirstQueued(u, i, b) \/ (u = t /\ i = n /\ b = a /\ ~Queued(u, i))
          BY <2>8
        <5>4. FirstQueued(u, r, b) \/ (u = t /\ r = n /\ b = a /\ ~Queued(u, r))
          BY <4>3, <5>3
        <5>5. QED
          BY <5>1, <5>2, <5>4
      <4>4. task[u].open /\ d = None => (Posted(u, r)' => Queued(u, r)')
        BY <2>7, <2>8, <4>2
      <4>5. QED
        BY <4>1, <4>3, <4>4
    <3>7. \A i \in DOMAIN got : IsFirst(u, i, got[i])'
      BY <2>7, <3>2, <3>n DEF AnswersOf
    <3>8. QED
      BY <3>1, <3>4, <3>5, <3>6, <3>7 DEF AnswersOf
  <2>11. QED
    BY <2>7, <2>10 DEF AnswerInv
<1>5. QED
  BY <1>3, <1>4
\* The part of the invariant about answers is kept by every step.
LEMMA NextKeepsAnswers ==
    ASSUME TaskInv, LoopInv, AnswerInv, [Next]_vars
    PROVE  AnswerInv'
<1> DEFINE Quiet == /\ UNCHANGED posted
                    /\ \A u \in Tasks : Kept(u)
                    /\ \A u \in Tasks : QueueSame(u)
<1>q. Quiet => AnswerInv'
  BY QuietKeepsAnswers
<1>s. UNCHANGED <<task, queue, posted>> => Quiet
  BY TasksStutter, StillKeepsQueue
<1>1. CASE Start \/ DeliverCancel \/ Stop
  <2>1. UNCHANGED posted
    BY <1>1 DEF Start, DeliverCancel, Stop
  <2>2. \A u \in Tasks : Kept(u)
    BY <1>1, StartEffect, DeliverEffect, TasksStutter DEF Stop
  <2>3. Callback("start") \/ Callback("cancel") \/ Callback("stop")
    BY <1>1 DEF Start, DeliverCancel, Stop
  <2>4. \A u \in Tasks : QueueSame(u)
    BY <2>3, TakingKeepsQueue
  <2>5. QED
    BY <1>q, <2>1, <2>2, <2>4
<1>2. CASE SetFuture
  BY <1>2, FutureKeepsAnswers
<1>3. ASSUME NEW t \in Tasks,
             \/ RequestApproval(t) \/ AwaitAnswer(t) \/ ReceiveDecision(t) \/ ThrowCancelled(t)
      PROVE  AnswerInv'
  BY <1>3, RequestKeepsAnswers, AwaitKeepsAnswers, ClosingKeepsAnswers
<1>4. ASSUME NEW t \in Tasks,
             Unwind(t) \/ Done(t) \/ Submit(t) \/ \E status \in Results : Settle(t, status)
      PROVE  AnswerInv'
  <2>1. UNCHANGED posted /\ UNCHANGED queue
    BY <1>4 DEF Unwind, Done, Submit, Settle
  <2>2. \A u \in Tasks : Kept(u)
    BY <1>4, UnwindEffect, DoneEffect, SubmitEffect, SettleEffect
  <2>3. QED
    BY <1>q, <2>1, <2>2, StillKeepsQueue
<1>5. CASE CancelFuture
  <2> DEFINE t == handler.task
             m == Message("cancel", t, 0, None)
  <2>1. /\ t \in Tasks /\ \A u \in Tasks : Kept(u)
        /\ queue' = queue \/ queue' = Append(queue, m)
    BY <1>5, CancelEffect
  <2>2. m \in Messages /\ m.kind \in {"start", "cancel", "stop"}
    BY <2>1, MessageType
  <2> HIDE DEF m
  <2>3. Grows({"start", "cancel", "stop"})
    BY <2>1, <2>2, GrowsByOne
  <2>4. UNCHANGED posted
    BY <1>5 DEF CancelFuture
  <2>5. QED
    BY <1>q, <2>1, <2>3, <2>4, GrowingKeepsQueue
<1>a. CASE AnnounceCancel
  <2>1. UNCHANGED posted /\ UNCHANGED queue
    BY <1>a DEF AnnounceCancel
  <2>2. \A u \in Tasks : Kept(u)
    BY <1>a, AnnounceEffect
  <2>3. QED
    BY <1>q, <2>1, <2>2, StillKeepsQueue
<1>6. CASE PostAnswer
  BY <1>6, PostKeepsAnswers
<1>7. ASSUME NEW t \in Tasks, Schedule(t) PROVE AnswerInv'
  <2> DEFINE m == Message("start", t, 0, None)
  <2>1. /\ \A u \in Tasks : Kept(u)
        /\ queue' = queue \/ queue' = Append(queue, m)
    BY <1>7, ScheduleEffect
  <2>2. m \in Messages /\ m.kind \in {"start", "cancel", "stop"}
    BY MessageType
  <2> HIDE DEF m
  <2>3. Grows({"start", "cancel", "stop"})
    BY <2>1, <2>2, GrowsByOne
  <2>4. UNCHANGED posted
    BY <1>7 DEF Schedule
  <2>5. QED
    BY <1>q, <2>1, <2>3, <2>4, GrowingKeepsQueue
<1>8. CASE Close
  <2>1. Grows({"cancel", "stop"}) /\ \A u \in Tasks : Kept(u)
    BY <1>8, CloseEffect
  <2>2. Grows({"start", "cancel", "stop"})
    BY <2>1 DEF Grows
  <2>3. UNCHANGED posted
    BY <1>8 DEF Close
  <2>4. QED
    BY <1>q, <2>1, <2>2, <2>3, GrowingKeepsQueue
<1>9. CASE LoopStep \/ HandlerStep
  <2>1. ASSUME NEW e, PutEvent(e) PROVE AnswerInv'
    BY <2>1, <1>q, <1>s DEF PutEvent
  <2>2. CASE LoopStep
    BY <2>1, <2>2, <1>1, <1>2, <1>3, <1>4 DEF LoopStep
  <2>3. CASE HandlerStep
    BY <2>1, <2>3, <1>a, <1>5, <1>6, <1>7 DEF HandlerStep
  <2>4. QED
    BY <1>9, <2>2, <2>3
<1>10. CASE StreamStep \/ SettingsStep \/ UNCHANGED vars
  <2>1. UNCHANGED <<task, queue, posted>>
    BY <1>10 DEF StreamStep, Replay, EndIfTerminal, WriteEvent, Ping, SettingsStep, ApplyChange,
         Dump, OpenFile, WriteFile, Reload, vars, taskVars
  <2>2. QED
    BY <1>q, <1>s, <2>1
<1>11. CASE UserStep
  <2>1. \/ Close \/ \E t \in Tasks : Submit(t)
        \/ UNCHANGED <<task, queue, posted>>
    BY <1>11 DEF UserStep, Cancel, ResolveApproval, Disconnect, Subscribe, KillCommand,
         CheckChange, RunCommand, taskVars
  <2>2. QED
    BY <1>4, <1>8, <1>q, <1>s, <2>1
<1>12. QED
  BY <1>9, <1>10, <1>11 DEF Next

-----------------------------------------------------------------------------
(***************************************************************************)
(* The streams.  First what the steps do to one stream.                    *)
(***************************************************************************)

\* The events of a record are a sequence.
LEMMA EventsType ==
    ASSUME TaskInv, NEW t \in Tasks
    PROVE  /\ task[t].events \in Seq(EventKinds) /\ Len(task[t].events) \in Nat
           /\ DOMAIN task[t].events = 1..Len(task[t].events)
<1>1. task[t].events \in Seq(EventKinds)
  BY DEF TaskInv, TaskType
<1>2. QED
  BY <1>1

\* A stream that is not used does not depend on any task.
LEMMA UnusedStays ==
    ASSUME NEW r, NEW events, NEW due, StreamOf(r, events, due), r.phase = "unused", NEW others
    PROVE  StreamOf(r, others, due)
BY DEF StreamOf

\* An event is appended: it becomes due to a stream that follows the task, or it
\* announces a cancellation.
LEMMA StreamExtends ==
    ASSUME NEW r, NEW events \in Seq(EventKinds), NEW event \in EventKinds, NEW due, NEW due2,
           StreamOf(r, events, due), r.phase # "unused",
           due2 = due \/ (due = {} /\ due2 = {Len(events) + 1}),
           r.phase \in {"subscribed", "replayed", "live"} =>
               event = "cancelling" \/ Len(events) + 1 \in due2
    PROVE  StreamOf(r, Append(events, event), due2)
<1> DEFINE n == Len(events)
           more == Append(events, event)
<1>1. /\ n \in Nat /\ Len(more) = n + 1 /\ more[n + 1] = event
      /\ \A i \in 1..n : more[i] = events[i]
  BY AppendProperties
<1>2. StreamType(r) /\ r.task \in Tasks /\ Belongs(r, events, due) /\ InOrder(r, events, due) /\ Complete(r, events)
  BY DEF StreamOf
<1>3. r.phase \in {"replayed", "live"} => Covered(r, events, due)
  BY DEF StreamOf
<1>4. due2 = due \/ (due = {} /\ due2 = {n + 1})
  OBVIOUS
<1>5. r.phase \in {"replayed", "live"} => event = "cancelling" \/ n + 1 \in due2
  OBVIOUS
<1> HIDE DEF more, n
<1>6. \A i \in 1..n : i \in 1..(n + 1)
  BY <1>1
<1>7. /\ \A k \in 1..Len(r.queue) : r.queue[k] \in 1..n
      /\ \A i \in r.seen : i \in 1..n
      /\ \A i \in due : i \in 1..n
  BY <1>2 DEF Belongs, n
<1>8. Belongs(r, more, due2)
  <2>1. \A i \in due2 : i \in 1..(n + 1)
    BY <1>1, <1>4, <1>6, <1>7
  <2>2. QED
    BY <1>1, <1>6, <1>7, <2>1 DEF Belongs
<1>9. \A i \in 1..n : Own(more, i) <=> Own(events, i)
  BY <1>1 DEF Own
<1>10. InOrder(r, more, due2)
  <2> SUFFICES ASSUME NEW k \in 1..Len(r.queue), Own(more, r.queue[k])
               PROVE  /\ \A j \in 1..Len(r.queue) : j < k /\ Own(more, r.queue[j]) =>
                            r.queue[j] < r.queue[k]
                      /\ \A i \in due2 : r.queue[k] < i
    BY DEF InOrder
  <2>1. /\ Own(events, r.queue[k])
        /\ \A j \in 1..Len(r.queue) : Own(more, r.queue[j]) => Own(events, r.queue[j])
    BY <1>7, <1>9
  <2>2. /\ \A j \in 1..Len(r.queue) : j < k /\ Own(events, r.queue[j]) => r.queue[j] < r.queue[k]
        /\ \A i \in due : r.queue[k] < i
    BY <1>2, <2>1 DEF InOrder
  <2>3. r.queue[k] < n + 1
    BY <1>1, <1>7
  <2>4. \A i \in due2 : r.queue[k] < i
    BY <1>4, <2>2, <2>3
  <2>5. QED
    BY <2>1, <2>2, <2>4
<1>11. Complete(r, more)
  <2> SUFFICES ASSUME NEW d \in r.seen, more[d] = "done", NEW i \in 1..d, Own(more, i)
               PROVE  i \in r.seen
    BY DEF Complete
  <2>1. d \in 1..n
    BY <1>7
  <2>2. i \in 1..n
    BY <1>1, <2>1
  <2>3. events[d] = "done" /\ Own(events, i)
    BY <1>1, <1>9, <2>1, <2>2
  <2>4. QED
    BY <1>2, <2>3 DEF Complete
<1>12. r.phase \in {"replayed", "live"} => Covered(r, more, due2)
  <2> SUFFICES ASSUME r.phase \in {"replayed", "live"}, NEW i \in 1..(n + 1), Own(more, i)
               PROVE  i \in r.seen \/ i \in due2 \/ \E k \in 1..Len(r.queue) : r.queue[k] = i
    BY <1>1 DEF Covered
  <2>1. CASE i = n + 1
    BY <1>1, <1>5, <2>1 DEF Own
  <2>2. CASE i \in 1..n
    <3>1. i \in r.seen \/ i \in due \/ \E k \in 1..Len(r.queue) : r.queue[k] = i
      BY <1>3, <1>9, <2>2 DEF Covered, n
    <3>2. i \in due => i \in due2
      BY <1>4
    <3>3. QED
      BY <3>1, <3>2
  <2>3. i = n + 1 \/ i \in 1..n
    BY <1>1
  <2>4. QED
    BY <2>1, <2>2, <2>3
<1>13. StreamOf(r, more, due2)
  BY <1>2, <1>8, <1>10, <1>11, <1>12 DEF StreamOf
<1>14. QED
  BY <1>13 DEF more

\* An event is put: the one that is due, or the announcement of a cancellation.
LEMMA StreamQueues ==
    ASSUME NEW r, NEW events \in Seq(EventKinds), NEW due, NEW due2, NEW i \in 1..Len(events),
           StreamOf(r, events, due), r.phase # "unused",
           \/ due = {i} /\ due2 = {}
           \/ due2 = due /\ events[i] = "cancelling"
    PROVE  StreamOf([r EXCEPT !.queue = Append(@, i)], events, due2)
<1> DEFINE q == Append(r.queue, i)
           new == [r EXCEPT !.queue = q]
           len == Len(r.queue)
<1>1. StreamType(r) /\ r.task \in Tasks /\ Belongs(r, events, due) /\ InOrder(r, events, due) /\ Complete(r, events)
  BY DEF StreamOf
<1>2. r.phase \in {"replayed", "live"} => Covered(r, events, due)
  BY DEF StreamOf
<1>3. r.queue \in Seq(Nat) /\ i \in Nat
  BY <1>1 DEF StreamType
<1>4. /\ len \in Nat /\ q \in Seq(Nat) /\ Len(q) = len + 1 /\ q[len + 1] = i
      /\ \A k \in 1..len : q[k] = r.queue[k]
  BY <1>3, AppendProperties
<1>5. new = [r EXCEPT !.queue = Append(@, i)]
  BY <1>1 DEF StreamType
<1> HIDE DEF q
<1>6. /\ StreamType(new) /\ new.task = r.task /\ new.phase = r.phase /\ new.queue = q
      /\ new.seen = r.seen
  BY <1>1, <1>4 DEF StreamType
<1> HIDE DEF new
<1>7. /\ \A k \in 1..len : r.queue[k] \in 1..Len(events)
      /\ \A k \in due : k \in 1..Len(events)
      /\ \A k \in r.seen : k \in 1..Len(events)
  BY <1>1 DEF Belongs, len
<1>8. \A k \in 1..len : Own(events, r.queue[k]) =>
         /\ \A j \in 1..len : j < k /\ Own(events, r.queue[j]) => r.queue[j] < r.queue[k]
         /\ \A d \in due : r.queue[k] < d
  BY <1>1 DEF InOrder, len
<1>9. r.phase \in {"replayed", "live"} => \A j \in 1..Len(events) : Own(events, j) =>
         j \in r.seen \/ j \in due \/ \E k \in 1..len : r.queue[k] = j
  BY <1>2 DEF Covered, len
<1> HIDE DEF len
<1>10. \A k \in 1..(len + 1) : (k \in 1..len /\ q[k] = r.queue[k]) \/ (k = len + 1 /\ q[k] = i)
  BY <1>4
<1>11. \A d \in due2 : d \in due
  OBVIOUS
<1>12. Belongs(new, events, due2)
  BY <1>4, <1>6, <1>7, <1>10, <1>11 DEF Belongs
<1>13. InOrder(new, events, due2)
  <2> SUFFICES ASSUME NEW k \in 1..(len + 1), Own(events, q[k])
               PROVE  /\ \A j \in 1..(len + 1) : j < k /\ Own(events, q[j]) => q[j] < q[k]
                      /\ \A d \in due2 : q[k] < d
    BY <1>4, <1>6 DEF InOrder
  <2>1. CASE k \in 1..len /\ q[k] = r.queue[k]
    <3>1. \A j \in 1..(len + 1) : j < k => j \in 1..len /\ q[j] = r.queue[j]
      BY <1>4, <2>1
    <3>2. QED
      BY <1>8, <1>11, <2>1, <3>1
  <2>2. CASE k = len + 1 /\ q[k] = i
    <3>1. events[i] # "cancelling"
      BY <2>2 DEF Own
    <3>2. due = {i} /\ due2 = {}
      BY <3>1
    <3>3. \A j \in 1..(len + 1) : j < k => j \in 1..len /\ q[j] = r.queue[j]
      BY <1>4, <2>2
    <3>4. QED
      BY <1>8, <2>2, <3>2, <3>3
  <2>3. QED
    BY <1>10, <2>1, <2>2
<1>14. Complete(new, events)
  BY <1>1, <1>6 DEF Complete
<1>15. r.phase \in {"replayed", "live"} => Covered(new, events, due2)
  <2> SUFFICES ASSUME r.phase \in {"replayed", "live"}, NEW j \in 1..Len(events), Own(events, j)
               PROVE  j \in r.seen \/ j \in due2 \/ \E k \in 1..(len + 1) : q[k] = j
    BY <1>4, <1>6 DEF Covered
  <2>1. j \in r.seen \/ j \in due \/ \E k \in 1..len : r.queue[k] = j
    BY <1>9
  <2>2. CASE \E k \in 1..len : r.queue[k] = j
    <3>1. PICK k \in 1..len : r.queue[k] = j
      BY <2>2
    <3>2. k \in 1..(len + 1) /\ q[k] = j
      BY <1>4, <3>1
    <3>3. QED
      BY <3>2
  <2>3. CASE j \in due
    <3>1. j \in due2 \/ j = i
      BY <2>3
    <3>2. len + 1 \in 1..(len + 1) /\ q[len + 1] = i
      BY <1>4
    <3>3. QED
      BY <3>1, <3>2
  <2>4. QED
    BY <2>1, <2>2, <2>3
<1>16. StreamOf(new, events, due2)
  BY <1>1, <1>6, <1>12, <1>13, <1>14, <1>15 DEF StreamOf
<1>17. QED
  BY <1>5, <1>16

\* The client is sent what there is.
LEMMA ReplayOfStream ==
    ASSUME NEW r, NEW events \in Seq(EventKinds), NEW due, StreamOf(r, events, due),
           r.phase = "subscribed", NEW seen, seen = 1..Len(events)
    PROVE  StreamOf([r EXCEPT !.phase = "replayed", !.seen = seen], events, due)
<1> DEFINE new == [r EXCEPT !.phase = "replayed", !.seen = seen]
           n == Len(events)
<1>1. StreamType(r) /\ r.task \in Tasks /\ Belongs(r, events, due) /\ InOrder(r, events, due)
  BY DEF StreamOf
<1>2. n \in Nat /\ seen = 1..n
  OBVIOUS
<1>3. seen \in SUBSET Nat
  BY <1>2
<1> HIDE DEF n
<1>4. /\ StreamType(new) /\ new.task = r.task /\ new.phase = "replayed" /\ new.queue = r.queue
      /\ new.seen = seen
  BY <1>1, <1>3 DEF StreamType, Phases
<1> HIDE DEF new
<1>5. Belongs(new, events, due) /\ InOrder(new, events, due)
  BY <1>1, <1>2, <1>4 DEF Belongs, InOrder, n
<1>6. Complete(new, events)
  <2>1. \A d \in seen : \A i \in 1..d : i \in seen
    BY <1>2
  <2>2. QED
    BY <1>4, <2>1 DEF Complete
<1>7. Covered(new, events, due)
  BY <1>2, <1>4 DEF Covered, n
<1>8. StreamOf(new, events, due)
  BY <1>1, <1>4, <1>5, <1>6, <1>7 DEF StreamOf
<1>9. QED
  BY <1>8 DEF new

\* The stream goes on, ends or breaks.
LEMMA PhaseOfStream ==
    ASSUME NEW r, NEW events, NEW due, StreamOf(r, events, due), NEW phase,
           \/ r.phase = "replayed" /\ phase \in {"live", "ended"}
           \/ r.phase = "live" /\ phase \in {"ended", "broken"}
    PROVE  StreamOf([r EXCEPT !.phase = phase], events, due)
<1> DEFINE new == [r EXCEPT !.phase = phase]
<1>1. /\ StreamType(r) /\ r.task \in Tasks /\ Belongs(r, events, due) /\ InOrder(r, events, due)
      /\ Complete(r, events) /\ Covered(r, events, due)
  BY DEF StreamOf
<1>2. /\ StreamType(new) /\ new.task = r.task /\ new.phase = phase /\ new.queue = r.queue
      /\ new.seen = r.seen
  BY <1>1 DEF StreamType, Phases
<1>3. phase # "unused"
  OBVIOUS
<1> HIDE DEF new
<1>4. /\ Belongs(new, events, due) /\ InOrder(new, events, due) /\ Complete(new, events)
      /\ Covered(new, events, due)
  BY <1>1, <1>2 DEF Belongs, InOrder, Complete, Covered
<1>5. StreamOf(new, events, due)
  BY <1>1, <1>2, <1>3, <1>4 DEF StreamOf
<1>6. QED
  BY <1>5 DEF new

\* An event is taken from the queue and written.
LEMMA WriteOfStream ==
    ASSUME NEW r, NEW events \in Seq(EventKinds), NEW due, StreamOf(r, events, due),
           r.phase = "live", r.queue # << >>, NEW phase \in {"live", "ended"}
    PROVE  StreamOf([r EXCEPT !.queue = Tail(@), !.seen = @ \cup {Head(r.queue)},
                              !.phase = phase], events, due)
<1> DEFINE q == Tail(r.queue)
           e == Head(r.queue)
           seen == r.seen \cup {e}
           new == [r EXCEPT !.queue = q, !.seen = seen, !.phase = phase]
           len == Len(r.queue)
           n == Len(events)
<1>1. /\ StreamType(r) /\ r.task \in Tasks /\ Belongs(r, events, due) /\ InOrder(r, events, due)
      /\ Complete(r, events) /\ Covered(r, events, due)
  BY DEF StreamOf
<1>2. /\ r.queue \in Seq(Nat) /\ len \in Nat /\ len > 0 /\ n \in Nat /\ r.seen \in SUBSET Nat
  BY <1>1 DEF StreamType
<1>3. /\ q \in Seq(Nat) /\ Len(q) = len - 1 /\ \A k \in 1..(len - 1) : q[k] = r.queue[k + 1]
      /\ e = r.queue[1] /\ e \in Nat
  BY <1>2
<1>4. new = [r EXCEPT !.queue = Tail(@), !.seen = @ \cup {Head(r.queue)}, !.phase = phase]
  BY <1>1 DEF StreamType
<1>5. seen \in SUBSET Nat /\ e \in seen /\ \A i \in r.seen : i \in seen
  BY <1>2, <1>3
<1>s. \A i \in seen : i \in r.seen \/ i = e
  OBVIOUS
<1> HIDE DEF q, e, seen
<1>6. /\ StreamType(new) /\ new.task = r.task /\ new.phase = phase /\ new.queue = q
      /\ new.seen = seen
  BY <1>1, <1>3, <1>5 DEF StreamType, Phases
<1> HIDE DEF new
<1>7. /\ \A k \in 1..len : r.queue[k] \in 1..n
      /\ \A k \in due : k \in 1..n
      /\ \A k \in r.seen : k \in 1..n
  BY <1>1 DEF Belongs
<1>8. \A k \in 1..len : Own(events, r.queue[k]) =>
         /\ \A j \in 1..len : j < k /\ Own(events, r.queue[j]) => r.queue[j] < r.queue[k]
         /\ \A d \in due : r.queue[k] < d
  BY <1>1 DEF InOrder
<1>9. \A j \in 1..n : Own(events, j) => j \in r.seen \/ j \in due \/ \E k \in 1..len : r.queue[k] = j
  BY <1>1 DEF Covered
<1> HIDE DEF len, n
<1>10. \A k \in 1..(len - 1) : k + 1 \in 1..len /\ q[k] = r.queue[k + 1]
  BY <1>2, <1>3
<1>11. 1 \in 1..len
  BY <1>2
<1>12. e \in 1..n
  BY <1>3, <1>7, <1>11
<1>13. Belongs(new, events, due)
  BY <1>3, <1>6, <1>7, <1>10, <1>12, <1>s DEF Belongs, n
<1>14. InOrder(new, events, due)
  <2> SUFFICES ASSUME NEW k \in 1..(len - 1), Own(events, q[k])
               PROVE  /\ \A j \in 1..(len - 1) : j < k /\ Own(events, q[j]) => q[j] < q[k]
                      /\ \A d \in due : q[k] < d
    BY <1>3, <1>6 DEF InOrder
  <2>1. \A j \in 1..(len - 1) : j < k => j + 1 < k + 1
    OBVIOUS
  <2>2. QED
    BY <1>8, <1>10, <2>1
<1>15. \A i \in 1..n : Own(events, i) => i \in seen \/ i \in due \/ \E k \in 1..(len - 1) : q[k] = i
  <2> SUFFICES ASSUME NEW i \in 1..n, Own(events, i), i \notin seen, i \notin due
               PROVE  \E k \in 1..(len - 1) : q[k] = i
    OBVIOUS
  <2>1. PICK k \in 1..len : r.queue[k] = i
    BY <1>5, <1>9
  <2>2. k # 1
    BY <1>3, <1>5, <2>1
  <2>3. k - 1 \in 1..(len - 1) /\ (k - 1) + 1 = k
    BY <1>2, <2>2
  <2>4. q[k - 1] = i
    BY <1>10, <2>1, <2>3
  <2>5. QED
    BY <2>3, <2>4
<1>16. Covered(new, events, due)
  BY <1>3, <1>6, <1>15 DEF Covered, n
<1>17. Complete(new, events)
  <2> SUFFICES ASSUME NEW d \in seen, events[d] = "done", NEW i \in 1..d, Own(events, i)
               PROVE  i \in seen
    BY <1>6 DEF Complete
  <2>1. CASE d \in r.seen
    BY <1>1, <1>5, <2>1 DEF Complete
  <2>2. CASE d = e
    <3> SUFFICES ASSUME i \notin seen PROVE FALSE
      OBVIOUS
    <3>1. Own(events, r.queue[1])
      BY <1>3, <2>2 DEF Own
    <3>2. i \in 1..n
      BY <1>2, <1>12, <2>2
    <3>3. i \in due \/ \E k \in 1..(len - 1) : q[k] = i
      BY <1>15, <3>2
    <3>4. CASE i \in due
      <4>1. e < i
        BY <1>3, <1>8, <1>11, <3>1, <3>4
      <4>2. QED
        BY <1>3, <2>2, <4>1
    <3>5. CASE \E k \in 1..(len - 1) : q[k] = i
      <4>1. PICK k \in 1..(len - 1) : q[k] = i
        BY <3>5
      <4>2. k + 1 \in 1..len /\ r.queue[k + 1] = i /\ 1 < k + 1
        BY <1>10, <4>1
      <4>3. e < i
        BY <1>3, <1>8, <1>11, <3>1, <4>2
      <4>4. QED
        BY <1>3, <2>2, <4>3
    <3>6. QED
      BY <3>3, <3>4, <3>5
  <2>3. QED
    BY <1>s, <2>1, <2>2
<1>18. StreamOf(new, events, due)
  <2>1. phase # "unused"
    OBVIOUS
  <2>2. QED
    BY <1>1, <1>6, <1>13, <1>14, <1>16, <1>17, <2>1 DEF StreamOf
<1>19. QED
  BY <1>4, <1>18

\* What the streams and the emitters are.
LEMMA StreamsAreTyped ==
    ASSUME TaskInv, StreamInv
    PROVE  /\ puts["loop"] \in SUBSET (Streams \X Nat) /\ puts["handler"] \in SUBSET (Streams \X Nat)
           /\ \A s \in Streams :
                 /\ StreamOf(stream[s], EventsOf(s), Due(s)) /\ StreamType(stream[s])
                 /\ stream[s].phase # "unused" =>
                       /\ stream[s].task \in Tasks
                       /\ EventsOf(s) \in Seq(EventKinds) /\ Len(EventsOf(s)) \in Nat
                       /\ DOMAIN EventsOf(s) = 1..Len(EventsOf(s))
<1>1. puts["loop"] \in SUBSET (Streams \X Nat) /\ puts["handler"] \in SUBSET (Streams \X Nat)
  BY DEF StreamInv, PutsInv, Emitters
<1>2. ASSUME NEW s \in Streams
      PROVE  /\ StreamOf(stream[s], EventsOf(s), Due(s)) /\ StreamType(stream[s])
             /\ stream[s].phase # "unused" => stream[s].task \in Tasks
  <2>1. StreamOf(stream[s], EventsOf(s), Due(s))
    BY DEF StreamInv
  <2>2. QED
    BY <2>1 DEF StreamOf
<1>3. QED
  BY <1>1, <1>2, EventsType DEF EventsOf

\* Every stream keeps its invariant when t emits an event.
LEMMA EmitKeepsStreamsOf ==
    ASSUME TaskInv, StreamInv, UNCHANGED stream, NEW t \in Tasks, Others(t),
           NEW event \in EventKinds, NEW n, n = Len(task[t].events) + 1,
           task'[t].events = Append(task[t].events, event),
           \A s \in Streams :
              \/ Due(s)' = Due(s) /\ (Subscribed(s, t) => event = "cancelling")
              \/ Subscribed(s, t) /\ Due(s) = {} /\ Due(s)' = {n}
    PROVE  \A s \in Streams : StreamOf(stream'[s], EventsOf(s)', Due(s)')
<1> SUFFICES ASSUME NEW s \in Streams PROVE StreamOf(stream'[s], EventsOf(s)', Due(s)')
  OBVIOUS
<1>r. PICK r, due, due2, events, events2 :
         /\ r = stream[s] /\ due = Due(s) /\ due2 = Due(s)'
         /\ events = EventsOf(s) /\ events2 = EventsOf(s)'
  OBVIOUS
<1>1. stream'[s] = r /\ events = task[r.task].events /\ events2 = task'[r.task].events
  BY <1>r DEF EventsOf
<1>2. /\ StreamOf(r, events, due)
      /\ r.phase # "unused" => r.task \in Tasks /\ events \in Seq(EventKinds)
  BY <1>r, StreamsAreTyped
<1>3. \/ due2 = due /\ (Subscribed(s, t) => event = "cancelling")
      \/ Subscribed(s, t) /\ due = {} /\ due2 = {n}
  BY <1>r
<1>4. Subscribed(s, t) <=> r.task = t /\ r.phase \in {"subscribed", "replayed", "live"}
  BY <1>r DEF Subscribed
<1>5. CASE r.phase = "unused"
  <2>1. due2 = due
    BY <1>3, <1>4, <1>5
  <2>2. StreamOf(r, events2, due)
    BY <1>2, <1>5, UnusedStays
  <2>3. QED
    BY <1>1, <1>r, <2>1, <2>2
<1>6. CASE r.phase # "unused" /\ r.task # t
  <2>1. due2 = due
    BY <1>3, <1>4, <1>6
  <2>2. events2 = events
    BY <1>1, <1>2, <1>6 DEF Others
  <2>3. QED
    BY <1>1, <1>2, <1>r, <2>1, <2>2
<1>7. CASE r.phase # "unused" /\ r.task = t
  <2>1. events = task[t].events /\ events2 = Append(events, event) /\ n = Len(events) + 1
    BY <1>1, <1>7
  <2>2. due2 = due \/ (due = {} /\ due2 = {Len(events) + 1})
    BY <1>3, <2>1
  <2>3. r.phase \in {"subscribed", "replayed", "live"} =>
           event = "cancelling" \/ Len(events) + 1 \in due2
    BY <1>3, <1>4, <1>7, <2>1
  <2>4. StreamOf(r, Append(events, event), due2)
    BY <1>2, <1>7, <2>2, <2>3, StreamExtends
  <2>5. QED
    BY <1>1, <1>r, <2>1, <2>4
<1>8. QED
  BY <1>5, <1>6, <1>7

\* An event that is appended does not change the ones before.
LEMMA EventsStay ==
    ASSUME TaskInv, StreamInv, UNCHANGED stream, NEW t \in Tasks, Others(t), NEW event,
           task'[t].events = Append(task[t].events, event),
           NEW s \in Streams, stream[s].phase # "unused", NEW i \in 1..Len(EventsOf(s))
    PROVE  i \in 1..Len(EventsOf(s)') /\ EventsOf(s)'[i] = EventsOf(s)[i]
<1>r. PICK u, events, events2 : u = stream[s].task /\ events = EventsOf(s) /\ events2 = EventsOf(s)'
  OBVIOUS
<1>1. /\ u \in Tasks /\ events = task[u].events /\ events2 = task'[u].events
      /\ events \in Seq(EventKinds) /\ i \in 1..Len(events)
  BY <1>r, StreamsAreTyped DEF EventsOf
<1>2. i \in 1..Len(events2) /\ events2[i] = events[i]
  <2>1. CASE u # t
    BY <1>1, <2>1 DEF Others
  <2>2. CASE u = t
    <3>1. events2 = Append(events, event)
      BY <1>1, <2>2
    <3>2. Len(events2) = Len(events) + 1 /\ \A k \in 1..Len(events) : events2[k] = events[k]
      BY <1>1, <3>1
    <3>3. QED
      BY <1>1, <3>2
  <2>3. QED
    BY <2>1, <2>2
<1>3. QED
  BY <1>2, <1>r

\* The subscribers of a record that emits an event.
LEMMA PutsOfSubscribers ==
    ASSUME NEW t, NEW n \in Nat, NEW S, S = {<<s, n>> : s \in {x \in Streams : Subscribed(x, t)}}
    PROVE  /\ S \in SUBSET (Streams \X Nat)
           /\ \A p \in S : p[1] \in Streams /\ p[2] = n /\ Subscribed(p[1], t)
           /\ \A s \in Streams : Subscribed(s, t) => {i \in Nat : <<s, i>> \in S} = {n}
           /\ \A s \in Streams : ~Subscribed(s, t) => {i \in Nat : <<s, i>> \in S} = {}
<1>1. \A p \in S : \E s \in Streams : p = <<s, n>> /\ Subscribed(s, t)
  OBVIOUS
<1>2. \A s \in Streams : Subscribed(s, t) => <<s, n>> \in S
  OBVIOUS
<1>3. \A s, i : <<s, i>> \in S => i = n /\ Subscribed(s, t)
  BY <1>1
<1>4. QED
  BY <1>1, <1>2, <1>3

\* The loop emits an event: it is due to the subscribers.
LEMMA LoopEmitKeepsStreams ==
    ASSUME TaskInv, StreamInv, NEW t \in Tasks, Others(t), LoopEmits(t)
    PROVE  StreamInv'
<1>1. PICK event \in EventKinds : Appends("loop", t, event)
  BY DEF LoopEmits
<1> DEFINE n == Len(task[t].events) + 1
           S == {<<s, n>> : s \in {x \in Streams : Subscribed(x, t)}}
<1>2. n \in Nat
  BY EventsType
<1>3. /\ task'[t].events = Append(task[t].events, event) /\ puts' = [puts EXCEPT !["loop"] = S]
      /\ UNCHANGED stream /\ puts["loop"] = {}
  BY <1>1 DEF Appends, LoopEmits
<1> HIDE DEF n
<1>4. /\ S \in SUBSET (Streams \X Nat)
      /\ \A p \in S : p[1] \in Streams /\ p[2] = n /\ Subscribed(p[1], t)
      /\ \A s \in Streams : Subscribed(s, t) => {i \in Nat : <<s, i>> \in S} = {n}
      /\ \A s \in Streams : ~Subscribed(s, t) => {i \in Nat : <<s, i>> \in S} = {}
  BY <1>2, PutsOfSubscribers
<1> HIDE DEF S
<1>5. PutsInv
  BY DEF StreamInv
<1>6. /\ puts' \in [Emitters -> SUBSET (Streams \X Nat)]
      /\ puts'["loop"] = S /\ puts'["handler"] = puts["handler"]
  BY <1>3, <1>4, <1>5 DEF PutsInv, Emitters
<1>7. \A s \in Streams : Due(s) = {} /\ Due(s)' = {i \in Nat : <<s, i>> \in S}
  BY <1>3, <1>6 DEF Due
<1>8. \A s \in Streams : StreamOf(stream'[s], EventsOf(s)', Due(s)')
  <2>1. \A s \in Streams : \/ Due(s)' = Due(s) /\ (Subscribed(s, t) => event = "cancelling")
                           \/ Subscribed(s, t) /\ Due(s) = {} /\ Due(s)' = {n}
    BY <1>4, <1>7
  <2>2. n = Len(task[t].events) + 1
    BY DEF n
  <2>3. QED
    BY <1>3, <2>1, <2>2, EmitKeepsStreamsOf
<1>9. PutsInv'
  <2>1. \A p, q \in puts'["loop"] : p[2] = q[2]
    BY <1>4, <1>6
  <2>2. ASSUME NEW p \in puts["handler"]
        PROVE  /\ stream[p[1]].phase # "unused" /\ p[2] \in 1..Len(EventsOf(p[1])')
               /\ EventsOf(p[1])'[p[2]] = "cancelling"
    <3>1. PICK s, i : s = p[1] /\ i = p[2]
      OBVIOUS
    <3>2. s \in Streams /\ stream[s].phase # "unused" /\ i \in 1..Len(EventsOf(s)) /\ EventsOf(s)[i] = "cancelling"
      BY <1>5, <3>1, StreamsAreTyped DEF PutsInv
    <3>3. i \in 1..Len(EventsOf(s)') /\ EventsOf(s)'[i] = EventsOf(s)[i]
      BY <1>3, <3>2, EventsStay
    <3>4. QED
      BY <3>1, <3>2, <3>3
  <2>3. QED
    BY <1>3, <1>6, <2>1, <2>2 DEF PutsInv
<1>10. QED
  BY <1>3, <1>8, <1>9 DEF StreamInv

\* The handler announces a cancellation.
LEMMA HandlerEmitKeepsStreams ==
    ASSUME TaskInv, StreamInv, NEW t \in Tasks, Others(t), HandlerEmits(t)
    PROVE  StreamInv'
<1> DEFINE n == Len(task[t].events) + 1
           S == {<<s, n>> : s \in {x \in Streams : Subscribed(x, t)}}
<1>1. "cancelling" \in EventKinds
  BY DEF EventKinds
<1>2. n \in Nat
  BY EventsType
<1>3. /\ task'[t].events = Append(task[t].events, "cancelling")
      /\ puts' = [puts EXCEPT !["handler"] = S] /\ UNCHANGED stream
  BY DEF Appends, HandlerEmits
<1>a. /\ n \in 1..Len(task'[t].events) /\ task'[t].events[n] = "cancelling"
  <2>1. task[t].events \in Seq(EventKinds)
    BY EventsType
  <2>2. QED
    BY <1>1, <1>2, <1>3, <2>1
<1> HIDE DEF n
<1>4. /\ S \in SUBSET (Streams \X Nat)
      /\ \A p \in S : p[1] \in Streams /\ p[2] = n /\ Subscribed(p[1], t)
  BY <1>2, PutsOfSubscribers
<1> HIDE DEF S
<1>5. PutsInv
  BY DEF StreamInv
<1>6. /\ puts' \in [Emitters -> SUBSET (Streams \X Nat)]
      /\ puts'["handler"] = S /\ puts'["loop"] = puts["loop"]
  BY <1>3, <1>4, <1>5 DEF PutsInv, Emitters
<1>7. \A s \in Streams : Due(s)' = Due(s)
  BY <1>6 DEF Due
<1>8. \A s \in Streams : StreamOf(stream'[s], EventsOf(s)', Due(s)')
  <2>1. n = Len(task[t].events) + 1
    BY DEF n
  <2>2. QED
    BY <1>1, <1>3, <1>7, <2>1, EmitKeepsStreamsOf
<1>9. PutsInv'
  <2>1. \A p \in S : /\ stream[p[1]].phase # "unused" /\ p[2] \in 1..Len(EventsOf(p[1])')
                     /\ EventsOf(p[1])'[p[2]] = "cancelling"
    BY <1>3, <1>4, <1>a DEF EventsOf, Subscribed
  <2>2. QED
    BY <1>3, <1>5, <1>6, <2>1 DEF PutsInv
<1>10. QED
  BY <1>3, <1>8, <1>9 DEF StreamInv

\* A step that emits nothing leaves the streams alone.
LEMMA StillKeepsStreams ==
    ASSUME TaskInv, StreamInv, UNCHANGED stream, UNCHANGED puts,
           \A t \in Tasks : task'[t].events = task[t].events
    PROVE  StreamInv'
<1>1. \A s \in Streams : stream[s].phase # "unused" => EventsOf(s)' = EventsOf(s)
  BY StreamsAreTyped DEF EventsOf
<1>2. ASSUME NEW s \in Streams PROVE StreamOf(stream'[s], EventsOf(s)', Due(s)')
  <2>1. StreamOf(stream[s], EventsOf(s), Due(s)) /\ stream'[s] = stream[s] /\ Due(s)' = Due(s)
    BY DEF StreamInv, Due
  <2>2. CASE stream[s].phase = "unused"
    BY <2>1, <2>2, UnusedStays
  <2>3. CASE stream[s].phase # "unused"
    BY <1>1, <2>1, <2>3
  <2>4. QED
    BY <2>2, <2>3
<1>3. PutsInv'
  <2>1. PutsInv /\ \A p \in puts["handler"] : p[1] \in Streams
    BY StreamsAreTyped DEF StreamInv
  <2>2. \A p \in puts["handler"] : EventsOf(p[1])' = EventsOf(p[1])
    BY <1>1, <2>1 DEF PutsInv
  <2>3. QED
    BY <2>1, <2>2 DEF PutsInv
<1>4. QED
  BY <1>2, <1>3 DEF StreamInv

\* A step of one stream.
LEMMA OneStreamStep ==
    ASSUME TaskInv, StreamInv, UNCHANGED task, UNCHANGED puts, NEW s \in Streams, NEW new,
           stream' = [stream EXCEPT ![s] = new], new.phase # "unused",
           stream[s].phase # "unused" => new.task = stream[s].task,
           StreamOf(new, task[new.task].events, Due(s))
    PROVE  StreamInv'
<1>1. stream'[s] = new /\ \A u \in Streams : u # s => stream'[u] = stream[u]
  BY DEF StreamInv
<1>2. stream' = [u \in Streams |-> stream'[u]]
  BY DEF StreamInv
<1>3. \A u \in Streams : Due(u)' = Due(u)
  BY DEF Due
<1>4. EventsOf(s)' = task[new.task].events /\ \A u \in Streams : u # s => EventsOf(u)' = EventsOf(u)
  BY <1>1 DEF EventsOf
<1>5. \A u \in Streams : StreamOf(stream'[u], EventsOf(u)', Due(u)')
  BY <1>1, <1>3, <1>4 DEF StreamInv
<1>6. PutsInv'
  <2>1. PutsInv /\ \A p \in puts["handler"] : p[1] \in Streams
    BY StreamsAreTyped DEF StreamInv
  <2>2. \A u \in Streams : stream[u].phase # "unused" =>
           stream'[u].phase # "unused" /\ EventsOf(u)' = EventsOf(u)
    <3>1. stream[s].phase # "unused" => EventsOf(s)' = EventsOf(s)
      BY <1>4 DEF EventsOf
    <3>2. QED
      BY <1>1, <1>4, <3>1
  <2>3. \A p \in puts["handler"] : stream'[p[1]].phase # "unused" /\ EventsOf(p[1])' = EventsOf(p[1])
    BY <2>1, <2>2 DEF PutsInv
  <2>4. QED
    BY <2>1, <2>3 DEF PutsInv
<1>7. QED
  BY <1>2, <1>5, <1>6 DEF StreamInv

\* An event is put to a subscriber.
LEMMA PutKeepsStreams ==
    ASSUME TaskInv, StreamInv, NEW e \in Emitters, PutEvent(e)
    PROVE  StreamInv'
<1>1. PICK p \in puts[e] : /\ stream' = [stream EXCEPT ![p[1]].queue = Append(@, p[2])]
                          /\ puts' = [puts EXCEPT ![e] = @ \ {p}]
                          /\ UNCHANGED task
  BY DEF PutEvent
<1>2. PutsInv
  BY DEF StreamInv
<1>3. PICK s \in Streams, i \in Nat : p = <<s, i>> /\ s = p[1] /\ i = p[2]
  BY <1>2 DEF PutsInv
<1>4. PICK r, events, due : r = stream[s] /\ events = EventsOf(s) /\ due = Due(s)
  OBVIOUS
<1> DEFINE new == [r EXCEPT !.queue = Append(@, i)]
           rest == puts[e] \ {p}
<1>5. stream' = [stream EXCEPT ![s] = new]
  BY <1>1, <1>3, <1>4 DEF StreamInv
<1>6. puts' = [puts EXCEPT ![e] = rest]
  BY <1>1
<1>7. /\ StreamOf(r, events, due) /\ StreamType(r)
      /\ r.phase # "unused" => r.task \in Tasks /\ events \in Seq(EventKinds)
  BY <1>4, StreamsAreTyped
<1>8. r.phase # "unused" /\ i \in 1..Len(events) /\ (e = "handler" => events[i] = "cancelling")
      /\ (e = "loop" => due = {i})
  <2>1. CASE e = "handler"
    BY <1>2, <1>3, <1>4, <2>1 DEF PutsInv
  <2>2. CASE e = "loop"
    <3>1. i \in due /\ \A j \in due : j = i
      <4>1. <<s, i>> \in puts["loop"] /\ \A j : <<s, j>> \in puts["loop"] => j = i
        BY <1>2, <1>3, <2>2 DEF PutsInv
      <4>2. QED
        BY <1>4, <4>1 DEF Due
    <3>2. due = {i}
      BY <3>1
    <3>3. r.phase # "unused"
      BY <1>7, <3>1 DEF StreamOf
    <3>4. i \in 1..Len(events)
      BY <1>7, <3>1, <3>3 DEF StreamOf, Belongs
    <3>5. QED
      BY <2>2, <3>2, <3>3, <3>4
  <2>3. QED
    BY <2>1, <2>2 DEF Emitters
<1>9. /\ new.task = r.task /\ new.phase = r.phase
  BY <1>7 DEF StreamType
<1>10. /\ puts' \in [Emitters -> SUBSET (Streams \X Nat)]
       /\ puts'[e] = rest /\ \A f \in Emitters : f # e => puts'[f] = puts[f]
  <2>1. rest \in SUBSET (Streams \X Nat)
    BY <1>2 DEF PutsInv
  <2> HIDE DEF rest
  <2>2. QED
    BY <1>2, <1>6, <2>1 DEF PutsInv
<1>11. \A q : q \in rest <=> q \in puts[e] /\ q # p
  OBVIOUS
<1>12. "loop" \in Emitters /\ "handler" \in Emitters
  BY DEF Emitters
<1> HIDE DEF rest
<1>13. PICK due2 : due2 = Due(s)'
  OBVIOUS
<1>14. /\ \A u \in Streams : u # s => Due(u)' = Due(u)
       /\ (due = {i} /\ due2 = {}) \/ (due2 = due /\ events[i] = "cancelling")
  <2>1. CASE e = "handler"
    BY <1>4, <1>8, <1>10, <1>12, <1>13, <2>1 DEF Due
  <2>2. CASE e = "loop"
    <3>1. \A u, j : <<u, j>> \in puts'["loop"] <=> <<u, j>> \in puts["loop"] /\ ~(u = s /\ j = i)
      BY <1>3, <1>10, <1>11, <2>2
    <3>2. \A u \in Streams : u # s => Due(u)' = Due(u)
      BY <3>1 DEF Due
    <3>3. \A j \in due2 : j \in due /\ j # i
      BY <1>4, <1>13, <3>1 DEF Due
    <3>4. due2 = {}
      BY <1>8, <2>2, <3>3
    <3>5. QED
      BY <1>8, <2>2, <3>2, <3>4
  <2>3. QED
    BY <2>1, <2>2 DEF Emitters
<1>15. StreamOf(new, events, due2)
  BY <1>7, <1>8, <1>14, StreamQueues
<1> HIDE DEF new
<1>16. /\ stream'[s] = new /\ (\A u \in Streams : u # s => stream'[u] = stream[u])
       /\ stream' = [u \in Streams |-> stream'[u]]
  BY <1>5 DEF StreamInv
<1>17. \A u \in Streams : /\ EventsOf(u)' = EventsOf(u)
                          /\ stream'[u].phase = stream[u].phase
  BY <1>1, <1>4, <1>9, <1>16 DEF EventsOf
<1>18. \A u \in Streams : StreamOf(stream'[u], EventsOf(u)', Due(u)')
  BY <1>4, <1>13, <1>14, <1>15, <1>16, <1>17 DEF StreamInv
<1>19. PutsInv'
  <2>1. \A f \in Emitters : \A q \in puts'[f] : q \in puts[f] /\ q[1] \in Streams
    BY <1>2, <1>10, <1>11 DEF PutsInv
  <2>2. \A q, x \in puts'["loop"] : q[2] = x[2]
    BY <1>2, <1>12, <2>1 DEF PutsInv
  <2>3. \A q \in puts'["handler"] : /\ stream'[q[1]].phase # "unused"
                                   /\ q[2] \in 1..Len(EventsOf(q[1])')
                                   /\ EventsOf(q[1])'[q[2]] = "cancelling"
    <3>1. \A q \in puts'["handler"] : q \in puts["handler"] /\ q[1] \in Streams
      BY <1>12, <2>1
    <3>2. \A q \in puts["handler"] : /\ stream[q[1]].phase # "unused"
                                     /\ q[2] \in 1..Len(EventsOf(q[1]))
                                     /\ EventsOf(q[1])[q[2]] = "cancelling"
      BY <1>2 DEF PutsInv
    <3>3. QED
      BY <1>17, <3>1, <3>2
  <2>4. QED
    BY <1>10, <2>2, <2>3 DEF PutsInv
<1>20. QED
  BY <1>16, <1>18, <1>19 DEF StreamInv

\* The part of the invariant about streams is kept by every step.
LEMMA NextKeepsStreams ==
    ASSUME TaskInv, LoopInv, StreamInv, [Next]_vars
    PROVE  StreamInv'
<1>s. ASSUME UNCHANGED <<task, stream, puts>> PROVE StreamInv'
  BY <1>s, StillKeepsStreams
<1>1. CASE Start
  BY <1>1, StartEffect, LoopEmitKeepsStreams
<1>2. ASSUME NEW t \in Tasks,
             \/ RequestApproval(t) \/ ReceiveDecision(t) \/ ThrowCancelled(t) \/ Unwind(t) \/ Done(t)
             \/ \E status \in Results : Settle(t, status)
      PROVE  StreamInv'
  <2>1. Others(t) /\ LoopEmits(t)
    BY <1>2, RequestEffect, DecisionEffect, ThrowEffect, UnwindEffect, DoneEffect, SettleEffect
  <2>2. QED
    BY <2>1, LoopEmitKeepsStreams
<1>a. CASE AnnounceCancel
  BY <1>a, AnnounceEffect, HandlerEmitKeepsStreams
<1>b. CASE PutEvent("loop") \/ PutEvent("handler")
  BY <1>b, PutKeepsStreams DEF Emitters
<1>c. CASE CancelFuture
  <2>1. (\A u \in Tasks : task'[u].events = task[u].events) /\ UNCHANGED <<stream, puts>>
    BY <1>c, CancelEffect DEF CancelFuture
  <2>2. QED
    BY <2>1, StillKeepsStreams
<1>3. CASE SetFuture
  <2> DEFINE t == Head(queue).task
  <2>1. Others(t) /\ t \in Tasks /\ task'[t].events = task[t].events
    BY <1>3, FutureEffect
  <2> HIDE DEF t
  <2>2. \A u \in Tasks : task'[u].events = task[u].events
    BY <2>1 DEF Others
  <2>3. UNCHANGED <<stream, puts>>
    BY <1>3 DEF SetFuture
  <2>4. QED
    BY <2>2, <2>3, StillKeepsStreams
<1>4. CASE DeliverCancel
  <2>1. (\A u \in Tasks : task'[u].events = task[u].events) /\ UNCHANGED <<stream, puts>>
    BY <1>4, DeliverEffect DEF DeliverCancel
  <2>2. QED
    BY <2>1, StillKeepsStreams
<1>5. ASSUME NEW t \in Tasks, AwaitAnswer(t) PROVE StreamInv'
  <2>1. Others(t) /\ task'[t].events = task[t].events /\ UNCHANGED <<stream, puts>>
    BY <1>5, AwaitEffect DEF AwaitAnswer
  <2>2. \A u \in Tasks : task'[u].events = task[u].events
    BY <2>1 DEF Others
  <2>3. QED
    BY <2>1, <2>2, StillKeepsStreams
<1>6. ASSUME NEW t \in Tasks, Schedule(t) \/ Submit(t) PROVE StreamInv'
  <2>1. \A u \in Tasks : task'[u].events = task[u].events
    BY <1>6, ScheduleEffect, SubmitEffect
  <2>2. UNCHANGED <<stream, puts>>
    BY <1>6 DEF Schedule, Submit
  <2>3. QED
    BY <2>1, <2>2, StillKeepsStreams
<1>7. CASE Close
  <2>1. (\A u \in Tasks : task'[u].events = task[u].events) /\ UNCHANGED <<stream, puts>>
    BY <1>7, CloseEffect DEF Close
  <2>2. QED
    BY <2>1, StillKeepsStreams
<1>8. CASE Stop \/ PostAnswer
  BY <1>8, <1>s DEF Stop, PostAnswer
<1>r. ASSUME NEW s \in Streams
      PROVE  /\ StreamOf(stream[s], task[stream[s].task].events, Due(s)) /\ StreamType(stream[s])
             /\ stream[s].phase # "unused" =>
                   /\ task[stream[s].task].events \in Seq(EventKinds)
                   /\ DOMAIN task[stream[s].task].events = 1..Len(task[stream[s].task].events)
  BY StreamsAreTyped DEF EventsOf
<1>9. ASSUME NEW s \in Streams, Replay(s) PROVE StreamInv'
  <2> DEFINE r == stream[s]
             events == task[r.task].events
             seen == DOMAIN events
             new == [r EXCEPT !.phase = "replayed", !.seen = seen]
  <2>1. /\ r.phase = "subscribed" /\ UNCHANGED <<task, puts>>
        /\ stream' = [stream EXCEPT ![s].phase = "replayed", ![s].seen = seen]
    BY <1>9 DEF Replay
  <2>2. stream' = [stream EXCEPT ![s] = new]
    <3> HIDE DEF seen
    <3>1. QED
      BY <2>1 DEF StreamInv
  <2>3. StreamOf(r, events, Due(s)) /\ events \in Seq(EventKinds) /\ seen = 1..Len(events)
    BY <1>r, <2>1
  <2>4. new.task = r.task /\ new.phase = "replayed"
    BY <1>r DEF StreamType
  <2> HIDE DEF seen
  <2>5. StreamOf(new, events, Due(s))
    BY <2>1, <2>3, ReplayOfStream
  <2> HIDE DEF new
  <2>6. QED
    BY <2>1, <2>2, <2>4, <2>5, OneStreamStep
<1>p. ASSUME NEW s \in Streams, NEW phase, UNCHANGED task, UNCHANGED puts,
             stream' = [stream EXCEPT ![s].phase = phase],
             \/ stream[s].phase = "replayed" /\ phase \in {"live", "ended"}
             \/ stream[s].phase = "live" /\ phase \in {"ended", "broken"}
      PROVE  StreamInv'
  <2> DEFINE r == stream[s]
             new == [r EXCEPT !.phase = phase]
  <2>1. stream' = [stream EXCEPT ![s] = new]
    BY <1>p DEF StreamInv
  <2>2. new.task = r.task /\ new.phase = phase /\ phase # "unused"
    BY <1>p, <1>r DEF StreamType
  <2>3. StreamOf(new, task[r.task].events, Due(s))
    BY <1>p, <1>r, PhaseOfStream
  <2> HIDE DEF new
  <2>4. QED
    BY <1>p, <2>1, <2>2, <2>3, OneStreamStep
<1>10. ASSUME NEW s \in Streams, EndIfTerminal(s) \/ Ping(s) \/ Disconnect(s) PROVE StreamInv'
  <2>1. UNCHANGED task /\ UNCHANGED puts
    BY <1>10 DEF EndIfTerminal, Ping, Disconnect
  <2>2. CASE EndIfTerminal(s)
    <3> DEFINE phase == IF Terminal(stream[s].task) THEN "ended" ELSE "live"
    <3>1. phase \in {"live", "ended"}
      OBVIOUS
    <3>2. stream' = [stream EXCEPT ![s].phase = phase] /\ stream[s].phase = "replayed"
      BY <2>2 DEF EndIfTerminal
    <3> HIDE DEF phase
    <3>3. QED
      BY <1>p, <2>1, <3>1, <3>2
  <2>3. CASE Ping(s) \/ Disconnect(s)
    <3>1. /\ stream[s].phase = "live"
          /\ \/ stream' = [stream EXCEPT ![s].phase = "ended"]
             \/ stream' = [stream EXCEPT ![s].phase = "broken"]
      BY <2>3 DEF Ping, Disconnect
    <3>2. "ended" \in {"ended", "broken"} /\ "broken" \in {"ended", "broken"}
      OBVIOUS
    <3>3. QED
      BY <1>p, <2>1, <3>1, <3>2
  <2>4. QED
    BY <1>10, <2>2, <2>3
<1>11. ASSUME NEW s \in Streams, WriteEvent(s) PROVE StreamInv'
  <2> DEFINE r == stream[s]
             event == Head(r.queue)
             phase == IF task[r.task].events[event] = "done" THEN "ended" ELSE "live"
             new == [r EXCEPT !.queue = Tail(@), !.seen = @ \cup {Head(r.queue)}, !.phase = phase]
  <2>1. /\ r.phase = "live" /\ r.queue # << >> /\ UNCHANGED <<task, puts>>
        /\ stream' = [stream EXCEPT ![s].queue = Tail(@), ![s].seen = @ \cup {event},
                                    ![s].phase = phase]
    BY <1>11 DEF WriteEvent
  <2>2. phase \in {"live", "ended"}
    OBVIOUS
  <2> HIDE DEF phase
  <2>3. stream' = [stream EXCEPT ![s] = new]
    BY <2>1 DEF StreamInv
  <2>4. new.task = r.task /\ new.phase = phase /\ phase # "unused"
    BY <1>r, <2>2 DEF StreamType
  <2>5. StreamOf(new, task[r.task].events, Due(s))
    BY <1>r, <2>1, <2>2, WriteOfStream
  <2> HIDE DEF new
  <2>6. QED
    BY <2>1, <2>3, <2>4, <2>5, OneStreamStep
<1>12. ASSUME NEW s \in Streams, NEW t \in Tasks, Subscribe(s, t) PROVE StreamInv'
  <2> DEFINE r == stream[s]
             events == task[t].events
             new == [r EXCEPT !.task = t, !.phase = "subscribed"]
  <2>1. /\ r.phase = "unused" /\ UNCHANGED <<task, puts>>
        /\ stream' = [stream EXCEPT ![s].task = t, ![s].phase = "subscribed"]
    BY <1>12 DEF Subscribe
  <2>2. stream' = [stream EXCEPT ![s] = new]
    BY <2>1 DEF StreamInv
  <2>3. r.queue = << >> /\ r.seen = {} /\ Due(s) = {}
    BY <1>r, <2>1 DEF StreamOf
  <2>4. /\ StreamType(new) /\ new.task = t /\ new.phase = "subscribed"
        /\ new.queue = << >> /\ new.seen = {}
    BY <1>r, <2>3 DEF StreamType, Phases
  <2>5. Len(<< >>) = 0 /\ 1..0 = {}
    OBVIOUS
  <2> HIDE DEF new
  <2>6. StreamOf(new, events, {})
    BY <2>4, <2>5 DEF StreamOf, Belongs, InOrder, Complete
  <2>7. QED
    BY <2>1, <2>2, <2>3, <2>4, <2>6, OneStreamStep
<1>13. CASE LoopStep
  BY <1>13, <1>1, <1>2, <1>3, <1>4, <1>5, <1>8, <1>b DEF LoopStep
<1>h. CASE HandlerStep
  BY <1>h, <1>6, <1>8, <1>a, <1>b, <1>c DEF HandlerStep
<1>14. CASE StreamStep
  BY <1>14, <1>9, <1>10, <1>11 DEF StreamStep
<1>15. CASE SettingsStep \/ UNCHANGED vars
  <2>1. UNCHANGED <<task, stream, puts>>
    BY <1>15 DEF SettingsStep, ApplyChange, Dump, OpenFile, WriteFile, Reload, vars, taskVars
  <2>2. QED
    BY <1>s, <2>1
<1>16. CASE UserStep
  <2>1. \/ Close \/ \E t \in Tasks : Submit(t)
        \/ \E s \in Streams : Disconnect(s) \/ \E t \in Tasks : Subscribe(s, t)
        \/ UNCHANGED <<task, stream, puts>>
    BY <1>16 DEF UserStep, Cancel, ResolveApproval, KillCommand, CheckChange, RunCommand, taskVars
  <2>2. QED
    BY <1>6, <1>7, <1>10, <1>12, <1>s, <2>1
<1>17. QED
  BY <1>13, <1>h, <1>14, <1>15, <1>16 DEF Next
-----------------------------------------------------------------------------
(***************************************************************************)
(* The changes of settings go through their steps.                         *)
(***************************************************************************)
LEMMA NextKeepsSteps ==
    ASSUME SettingsInv, StepsAreTyped, [Next]_vars
    PROVE  StepsAreTyped'
<1>1. /\ change = [e \in Editors |-> change[e]]
      /\ \A e \in Editors : change[e] \in [op : {change[e].op}, step : {change[e].step},
                                            payload : {change[e].payload}]
  BY DEF SettingsInv, ChangesAreTyped
<1>2. \A e \in Editors : change[e].step \in Steps
  BY DEF StepsAreTyped
<1>n. NoChange.step = "idle"
  BY DEF NoChange
<1>o. ASSUME NEW e \in Editors, NEW new, change' = [change EXCEPT ![e] = new], new.step \in Steps
      PROVE  StepsAreTyped'
  BY <1>1, <1>2, <1>o DEF StepsAreTyped
<1>s. ASSUME UNCHANGED change PROVE StepsAreTyped'
  BY <1>2, <1>s DEF StepsAreTyped
<1>3. ASSUME NEW e \in Editors, NEW op, CheckChange(e, op) PROVE StepsAreTyped'
  <2> DEFINE new == [change[e] EXCEPT !.op = op, !.step = "checked"]
  <2>1. change' = [change EXCEPT ![e] = new]
    BY <1>1, <1>3 DEF CheckChange
  <2>2. new.step \in Steps
    BY <1>1 DEF Steps
  <2> HIDE DEF new
  <2>3. QED
    BY <1>o, <2>1, <2>2
<1>4. ASSUME NEW e \in Editors, ApplyChange(e) PROVE StepsAreTyped'
  <2> DEFINE applied == [change[e] EXCEPT !.step = "applied"]
             raises == Raises(app, change[e].op)
             new == IF raises THEN NoChange ELSE applied
  <2>1. change' = [change EXCEPT ![e] = new]
    BY <1>1, <1>4 DEF ApplyChange
  <2>2. applied.step = "applied"
    BY <1>1
  <2> HIDE DEF raises, applied
  <2>3. new.step \in Steps
    BY <1>n, <2>2 DEF Steps
  <2> HIDE DEF new
  <2>4. QED
    BY <1>o, <2>1, <2>3
<1>5. ASSUME NEW e \in Editors, Dump(e) PROVE StepsAreTyped'
  <2> DEFINE new == [change[e] EXCEPT !.step = "dumped", !.payload = app]
  <2>1. change' = [change EXCEPT ![e] = new]
    BY <1>1, <1>5 DEF Dump
  <2>2. new.step \in Steps
    BY <1>1 DEF Steps
  <2> HIDE DEF new
  <2>3. QED
    BY <1>o, <2>1, <2>2
<1>6. ASSUME NEW e \in Editors, NEW op, RunCommand(e, op) PROVE StepsAreTyped'
  <2> DEFINE new == [op |-> op, step |-> "dumped",
                     payload |-> Applied(LoadApplicationConfig(file), op)]
  <2>1. change' = [change EXCEPT ![e] = new]
    BY <1>6 DEF RunCommand
  <2>2. new.step \in Steps
    BY DEF Steps
  <2> HIDE DEF new
  <2>3. QED
    BY <1>o, <2>1, <2>2
<1>7. ASSUME NEW e \in Editors, OpenFile(e) PROVE StepsAreTyped'
  <2> DEFINE new == [change[e] EXCEPT !.step = "opened"]
  <2>1. change' = [change EXCEPT ![e] = new]
    BY <1>1, <1>7 DEF OpenFile, SetStep
  <2>2. new.step \in Steps
    BY <1>1 DEF Steps
  <2> HIDE DEF new
  <2>3. QED
    BY <1>o, <2>1, <2>2
<1>8. ASSUME NEW e \in Editors, WriteFile(e) PROVE StepsAreTyped'
  <2> DEFINE written == [change[e] EXCEPT !.step = "written"]
             reloads == e \in Threads /\ change[e].op.kind \notin NoReload
             new == IF reloads THEN written ELSE NoChange
  <2>1. change' = [change EXCEPT ![e] = new]
    BY <1>1, <1>8 DEF WriteFile
  <2>2. written.step = "written"
    BY <1>1
  <2> HIDE DEF reloads, written
  <2>3. new.step \in Steps
    BY <1>n, <2>2 DEF Steps
  <2> HIDE DEF new
  <2>4. QED
    BY <1>o, <2>1, <2>3
<1>9. ASSUME NEW e \in Editors, KillCommand(e) \/ Reload(e) PROVE StepsAreTyped'
  <2>1. change' = [change EXCEPT ![e] = NoChange]
    BY <1>9 DEF KillCommand, Reload
  <2>2. NoChange.step \in Steps
    BY <1>n DEF Steps
  <2>3. QED
    BY <1>o, <2>1, <2>2
<1>10. CASE LoopStep \/ HandlerStep \/ StreamStep \/ UNCHANGED vars
  <2>1. UNCHANGED change
    BY <1>10 DEF LoopStep, HandlerStep, StreamStep, vars, Start, SetFuture, DeliverCancel, Stop,
         RequestApproval, AwaitAnswer, ReceiveDecision, Settle, ThrowCancelled, Unwind, Done,
         PutEvent, AnnounceCancel, CancelFuture, PostAnswer, Schedule, Replay, EndIfTerminal, WriteEvent, Ping, settingsVars
  <2>2. QED
    BY <1>s, <2>1
<1>11. CASE SettingsStep
  BY <1>11, <1>4, <1>5, <1>7, <1>8, <1>9 DEF SettingsStep
<1>12. CASE UserStep
  <2>1. \/ \E e \in Editors : KillCommand(e) \/ \E op \in Ops : CheckChange(e, op) \/ RunCommand(e, op)
        \/ UNCHANGED change
    BY <1>12 DEF UserStep, Submit, Cancel, ResolveApproval, Disconnect, Subscribe, Close, settingsVars
  <2>2. QED
    BY <1>3, <1>6, <1>9, <1>s, <2>1
<1>13. QED
  BY <1>10, <1>11, <1>12 DEF Next

-----------------------------------------------------------------------------
Inv == TaskInv /\ LoopInv /\ AnswerInv /\ StreamInv /\ SettingsInv /\ StepsAreTyped

\* Nothing is submitted, posted or streamed when the service starts.
LEMMA InitialTasks == Init => Inv
<1> SUFFICES ASSUME Init PROVE Inv
  OBVIOUS
<1> DEFINE r == [pc |-> "absent", status |-> "queued", future |-> "none", cancel |-> FALSE,
                 request |-> 0, open |-> FALSE, decision |-> None, received |-> << >>,
                 events |-> << >>, local |-> FALSE, cloud |-> FALSE]
           unused == [task |-> None, phase |-> "unused", queue |-> << >>, seen |-> {}]
<1>1. /\ task = [t \in Tasks |-> r] /\ queue = << >> /\ loop = "running" /\ handler = Idle
      /\ posted = << >> /\ stream = [s \in Streams |-> unused]
      /\ change = [e \in Editors |-> NoChange] /\ puts = [e \in Emitters |-> {}]
  BY DEF Init
<1>2. PICK begin \in Starts : left = [requests |-> begin.requests, changes |-> begin.changes]
  BY DEF Init
<1>3. TaskType(r)
  <2>1. 0 \in 0..MaxRequests
    BY BoundsAssumption
  <2>2. QED
    BY <2>1 DEF TaskType, Places, Statuses, Futures
<1>4. Progress(r)
  BY DEF Progress
<1>5. TaskInv
  <2> HIDE DEF r
  <2>1. QED
    BY <1>1, <1>3, <1>4 DEF TaskInv
<1>6. LoopInv
  <2>1. queue \in Seq(Messages) /\ DOMAIN queue = {}
    BY <1>1
  <2>2. HandlerInv /\ loop \in Loops
    BY <1>1 DEF HandlerInv, Idle, Loops
  <2>3. left \in [requests : Nat, changes : Nat]
    BY <1>2, BoundsAssumption
  <2>4. QED
    BY <2>1, <2>2, <2>3 DEF LoopInv, StartsAreDue
<1>7. AnswerInv
  <2>1. posted \in Seq(Postings) /\ DOMAIN posted = {} /\ DOMAIN queue = {}
    BY <1>1
  <2>2. \A t, i : ~Posted(t, i) /\ ~Queued(t, i)
    BY <2>1 DEF Posted, Queued
  <2>3. r.pc = "absent" /\ r.open = FALSE /\ DOMAIN r.received = {}
    OBVIOUS
  <2> HIDE DEF r
  <2>4. \A t \in Tasks : AnswersOf(t)
    BY <1>1, <2>2, <2>3 DEF AnswersOf
  <2>5. QED
    BY <2>1, <2>4 DEF AnswerInv
<1>8. StreamInv
  <2>1. puts["loop"] = {} /\ puts["handler"] = {}
    BY <1>1 DEF Emitters
  <2>2. PutsInv
    BY <1>1, <2>1 DEF PutsInv
  <2>3. \A s \in Streams : Due(s) = {}
    BY <2>1 DEF Due
  <2>4. \A events : StreamOf(unused, events, {})
    BY DEF StreamOf, StreamType, Phases
  <2> HIDE DEF unused
  <2>5. QED
    BY <1>1, <2>2, <2>3, <2>4 DEF StreamInv
<1>9. StepsAreTyped
  BY <1>1 DEF StepsAreTyped, NoChange, Steps
<1>10. QED
  BY <1>5, <1>6, <1>7, <1>8, <1>9, InitialSettings DEF Inv

\* The invariant is inductive.
LEMMA NextKeepsInv == Inv /\ [Next]_vars => Inv'
<1> SUFFICES ASSUME Inv, [Next]_vars PROVE Inv'
  OBVIOUS
<1>1. TaskInv /\ LoopInv /\ AnswerInv /\ StreamInv /\ SettingsInv /\ StepsAreTyped
  BY DEF Inv
<1>2. TaskInv' /\ LoopInv'
  BY <1>1, NextKeepsTasks
<1>3. AnswerInv'
  BY <1>1, NextKeepsAnswers
<1>4. StreamInv'
  BY <1>1, NextKeepsStreams
<1>5. SettingsInv'
  BY <1>1, NextKeepsSettings
<1>6. StepsAreTyped'
  BY <1>1, NextKeepsSteps
<1>7. QED
  BY <1>2, <1>3, <1>4, <1>5, <1>6 DEF Inv

\* In every state the service can reach the invariant holds.
LEMMA Invariance == Spec => []Inv
<1>1. Init => Inv
  BY InitialTasks
<1>2. Inv /\ [Next]_vars => Inv'
  BY NextKeepsInv
<1>3. QED
  BY <1>1, <1>2, PTL DEF Spec

(***************************************************************************)
(* Records, streams, callbacks and changes keep their types, whatever the  *)
(* loop, the threads, the users and the commands do; in particular a       *)
(* request is open exactly while its task waits for an answer, and no      *)
(* stream holds an event that its task has not emitted (desktop/service.py,*)
(* desktop/server.py).                                                     *)
(***************************************************************************)
THEOREM TypeCorrect == Spec => []TypeOK
<1>1. Inv => TypeOK
  <2> SUFFICES ASSUME Inv PROVE TypeOK
    OBVIOUS
  <2>0. TaskInv /\ LoopInv /\ StreamInv /\ StepsAreTyped
    BY DEF Inv
  <2>1. ASSUME NEW t \in Tasks
        PROVE  /\ task[t].pc \in Places /\ task[t].status \in Statuses /\ task[t].future \in Futures
               /\ task[t].request \in 0..MaxRequests /\ task[t].decision \in Answers \cup {None}
               /\ task[t].open <=> task[t].pc = "asking"
               /\ task[t].pc \in {"running", "unwinding"} => task[t].status = "running"
               /\ task[t].pc \in {"opening", "asking"} => task[t].status = "waiting_approval"
    <3>1. TaskType(task[t]) /\ Progress(task[t])
      BY <2>0 DEF TaskInv
    <3>2. /\ task[t].pc \in Places /\ task[t].status \in Statuses /\ task[t].future \in Futures
          /\ task[t].request \in 0..MaxRequests /\ task[t].decision \in Answers \cup {None}
      BY <3>1 DEF TaskType
    <3>3. QED
      BY <3>1, <3>2 DEF Progress
  <2>2. \A i \in DOMAIN queue : queue[i].kind \in {"start", "answer", "cancel", "stop"}
    BY <2>0 DEF LoopInv, Messages
  <2>3. ASSUME NEW s \in Streams
        PROVE  /\ stream[s].task \in Tasks \cup {None} /\ stream[s].phase \in Phases
               /\ \A i \in DOMAIN stream[s].queue :
                     stream[s].queue[i] \in DOMAIN task[stream[s].task].events
    <3>1. StreamOf(stream[s], EventsOf(s), Due(s))
      BY <2>0 DEF StreamInv
    <3>2. /\ stream[s].task \in Tasks \cup {None} /\ stream[s].phase \in Phases
          /\ stream[s].queue \in Seq(Nat)
      BY <3>1 DEF StreamOf, StreamType
    <3>3. CASE stream[s].phase = "unused"
      <4>1. stream[s].queue = << >>
        BY <3>1, <3>3 DEF StreamOf
      <4>2. QED
        BY <3>2, <4>1
    <3>4. CASE stream[s].phase # "unused"
      <4>1. /\ stream[s].task \in Tasks
            /\ \A i \in 1..Len(stream[s].queue) : stream[s].queue[i] \in 1..Len(EventsOf(s))
        BY <3>1, <3>4 DEF StreamOf, Belongs
      <4>2. DOMAIN task[stream[s].task].events = 1..Len(EventsOf(s))
        BY <2>0, <4>1, EventsType DEF EventsOf
      <4>3. QED
        BY <3>2, <4>1, <4>2
    <3>5. QED
      BY <3>3, <3>4
  <2>p. ASSUME NEW e \in Emitters, NEW p \in puts[e]
        PROVE  p[1] \in Streams /\ p[2] \in DOMAIN task[stream[p[1]].task].events
    <3>1. PutsInv /\ p[1] \in Streams /\ p[2] \in Nat /\ p = <<p[1], p[2]>>
      BY <2>0 DEF StreamInv, PutsInv
    <3>2. StreamOf(stream[p[1]], EventsOf(p[1]), Due(p[1]))
      BY <2>0, <3>1 DEF StreamInv
    <3>3. stream[p[1]].phase # "unused" /\ p[2] \in 1..Len(EventsOf(p[1]))
      <4>1. CASE e = "handler"
        BY <3>1, <4>1 DEF PutsInv
      <4>2. CASE e = "loop"
        <5>1. p[2] \in Due(p[1])
          BY <3>1, <4>2 DEF Due
        <5>2. QED
          BY <3>2, <5>1 DEF StreamOf, Belongs
      <4>3. QED
        BY <4>1, <4>2 DEF Emitters
    <3>4. stream[p[1]].task \in Tasks
      BY <3>2, <3>3 DEF StreamOf
    <3>5. QED
      BY <2>0, <3>1, <3>3, <3>4, EventsType DEF EventsOf
  <2>4. loop \in Loops /\ left.requests \in Nat /\ left.changes \in Nat
    BY <2>0 DEF LoopInv
  <2>5. \A e \in Editors : change[e].step \in Steps
    BY <2>0 DEF StepsAreTyped
  <2>6. QED
    BY <2>1, <2>2, <2>3, <2>p, <2>4, <2>5 DEF TypeOK, Places, Statuses, Futures, Phases, Loops, Steps
<1>2. QED
  BY <1>1, Invariance, PTL

(***************************************************************************)
(* Every request of a task is decided by the first answer posted for it,   *)
(* however answers, cancellations, later requests and the closing of the   *)
(* service interleave (service.py resolve_approval, _await_approval,       *)
(* _set_future).                                                           *)
(***************************************************************************)
THEOREM AnswersAreFirst == Spec => []FirstAnswerWins
<1>1. Inv => FirstAnswerWins
  BY DEF Inv, AnswerInv, AnswersOf, IsFirst, For, FirstAnswerWins
<1>2. QED
  BY <1>1, Invariance, PTL

(***************************************************************************)
(* A client that has been told that its task is done has been told every   *)
(* event that the loop appended before, whatever is put to it between the  *)
(* replay and the live stream; only the announcement of a cancellation,    *)
(* which another thread appends, may be put too late (server.py            *)
(* _stream_events, service.py emit).                                       *)
(***************************************************************************)
THEOREM StreamsAreComplete == Spec => []EventsReachTheClient
<1>1. Inv => EventsReachTheClient
  <2> SUFFICES ASSUME Inv, NEW s \in Streams, NEW d \in stream[s].seen,
                      EventsOf(s)[d] = "done", NEW i \in 1..d
               PROVE  EventsOf(s)[i] = "cancelling" \/ i \in stream[s].seen
    BY DEF EventsReachTheClient, EventsOf
  <2>1. StreamOf(stream[s], EventsOf(s), Due(s))
    BY DEF Inv, StreamInv
  <2>2. Complete(stream[s], EventsOf(s))
    BY <2>1 DEF StreamOf
  <2>3. QED
    BY <2>2 DEF Complete, Own
<1>2. QED
  BY <1>1, Invariance, PTL
=============================================================================
