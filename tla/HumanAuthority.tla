--------------------------- MODULE HumanAuthority ---------------------------
(***************************************************************************)
(* What the human approval gate of the sifter promises, whatever the       *)
(* routing, the budget and the models do: the work a gated task may have   *)
(* done for it is decided by the answers of a person, an answer that       *)
(* permits advice does not permit an implementation, and after a refusal   *)
(* nothing more is done.                                                   *)
(***************************************************************************)
EXTENDS Sequences

VARIABLES
    gated,   \* "unknown", then whether a person has to be asked
    permit,  \* what the answers so far permit
    work     \* what models have been asked to do, in order

vars == <<gated, permit, work>>

Permits == {"none", "local", "analysis", "full", "diagnosis", "refused"}
Kinds == {"advice", "cloud_work", "local_work", "diagnosis"}

\* What each permit lets the models be asked for.
Allows == [p \in Permits |->
    CASE p = "local" -> {"local_work"}
      [] p = "analysis" -> {"advice"}
      [] p = "full" -> {"cloud_work", "local_work", "diagnosis"}
      [] p = "diagnosis" -> {"diagnosis"}
      [] OTHER -> {}]

\* Answers: the first, the second after advice, the last after a failure.
Answers == [p \in Permits |->
    CASE p = "none" -> {"local", "analysis", "full", "refused"}
      [] p = "analysis" -> {"full", "refused"}
      [] p \in {"local", "full"} -> {"diagnosis", "refused"}
      [] OTHER -> {}]

Init == gated = "unknown" /\ permit = "none" /\ work = << >>

Classify ==
    /\ gated = "unknown"
    /\ gated' \in {"yes", "no"}
    /\ UNCHANGED <<permit, work>>

Answer ==
    /\ gated = "yes"
    /\ permit' \in Answers[permit]
    /\ UNCHANGED <<gated, work>>

Work(k) ==
    /\ gated = "no" \/ (gated = "yes" /\ k \in Allows[permit])
    /\ work' = Append(work, k)
    /\ UNCHANGED <<gated, permit>>

Next == Classify \/ Answer \/ \E k \in Kinds : Work(k)

Spec == Init /\ [][Next]_vars
=============================================================================
