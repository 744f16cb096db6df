-------------------------------- MODULE Wire --------------------------------
(***************************************************************************)
(* sync/transport: the in-memory wire.  Every node has one FIFO inbox of   *)
(* bounded capacity that all its connections share; a send to a node fails *)
(* while a failure injected for that node is pending, and when the inbox   *)
(* is full.  Send and the head of Receive run under the wire's mutex.      *)
(***************************************************************************)
EXTENDS Naturals, Sequences

CONSTANTS
    Nodes,      \* node ids
    Capacity    \* bound: messages an inbox holds

ASSUME CapacityAssumption == Capacity \in Nat \ {0}

VARIABLES
    inbox,      \* node -> messages it has not received yet
    fail        \* node -> sends to it that will still be dropped

wireVars == <<inbox, fail>>

WireInit ==
    /\ inbox = [n \in Nodes |-> << >>]
    /\ fail = [n \in Nodes |-> 0]

WireTypeOK(Messages) ==
    /\ inbox \in [Nodes -> Seq(Messages)]
    /\ \A n \in Nodes : Len(inbox[n]) <= Capacity
    /\ fail \in [Nodes -> Nat]

\* memConn.Send returned nil: the message is in the peer's inbox.
Send(to, msg) ==
    /\ fail[to] = 0
    /\ Len(inbox[to]) < Capacity
    /\ inbox' = [inbox EXCEPT ![to] = Append(@, msg)]
    /\ UNCHANGED fail

\* memConn.Send returned an error: dropped, or refused by a full inbox.
SendFails(to) ==
    /\ fail[to] > 0 \/ Len(inbox[to]) = Capacity
    /\ fail' = [fail EXCEPT ![to] = IF @ > 0 THEN @ - 1 ELSE @]
    /\ UNCHANGED inbox

\* memConn.Receive returned the oldest message of the node.
Receive(at, msg) ==
    /\ inbox[at] # << >>
    /\ msg = Head(inbox[at])
    /\ inbox' = [inbox EXCEPT ![at] = Tail(@)]
    /\ UNCHANGED fail

\* FailNext(node, 1).
FailNext(n) ==
    /\ fail' = [fail EXCEPT ![n] = @ + 1]
    /\ UNCHANGED inbox
=============================================================================
