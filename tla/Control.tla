------------------------------ MODULE Control ------------------------------
(***************************************************************************)
(* The assignment state machine of kernel/control.  Move is total: where   *)
(* Transition returns an error the state stays as it was, which is what a  *)
(* caller that throws the error away is left with.                         *)
(***************************************************************************)
EXTENDS Naturals

\* The states a Go State constant names.
AssignmentStates ==
    {"planned", "leased", "preparing", "running", "paused", "collecting",
     "awaiting_gates", "accepted", "failed", "canceled", "expired"}

\* The transitions table: the states each state may move to.
Transitions ==
    [ planned        |-> {"leased", "canceled"},
      leased         |-> {"preparing", "expired", "canceled"},
      preparing      |-> {"running", "failed", "expired", "canceled"},
      running        |-> {"paused", "collecting", "failed", "canceled"},
      paused         |-> {"running", "failed", "canceled"},
      collecting     |-> {"awaiting_gates", "failed"},
      awaiting_gates |-> {"accepted", "failed"},
      accepted       |-> {},
      failed         |-> {"planned"},
      canceled       |-> {},
      expired        |-> {"planned"} ]

\* CanTransition: staying put is always permitted.
CanTransition(from, to) == from = to \/ to \in Transitions[from]

\* Transition on the state alone; an illegal move leaves the state as it was
\* (the error is what callers that write "_ = Transition" throw away).
Move(from, to) == IF CanTransition(from, to) THEN to ELSE from

\* control.New: no lease yet (owner 0), first attempt.
NewAssignment == [state |-> "planned", lease |-> 0, attempt |-> 0]
=============================================================================
