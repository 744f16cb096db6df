--------------------------- MODULE SupervisedRun ---------------------------
(***************************************************************************)
(* What the kernel promises of a supervised run, without workers, leases,  *)
(* contracts, intake or assignments: a work package is started once, after *)
(* everything it depends on was accepted, and is accepted only on a human's *)
(* word when a human gate is configured.  A verdict is final.              *)
(***************************************************************************)
CONSTANTS WorkPackages, DependsOn

VARIABLES
    phase,      \* of each work package
    consent,    \* work packages a human has approved
    supervised  \* whether a human gate is configured

avars == <<phase, consent, supervised>>

Phases == {"waiting", "executing", "accepted", "rejected"}

AInit ==
    /\ phase = [w \in WorkPackages |-> "waiting"]
    /\ consent = {}
    /\ supervised \in BOOLEAN

Start(w) ==
    /\ phase[w] = "waiting"
    /\ \A d \in DependsOn[w] : phase[d] = "accepted"
    /\ phase' = [phase EXCEPT ![w] = "executing"]
    /\ UNCHANGED <<consent, supervised>>

Accept(w) ==
    /\ phase[w] = "executing"
    /\ supervised => w \in consent
    /\ phase' = [phase EXCEPT ![w] = "accepted"]
    /\ UNCHANGED <<consent, supervised>>

Reject(w) ==
    /\ phase[w] = "executing"
    /\ phase' = [phase EXCEPT ![w] = "rejected"]
    /\ UNCHANGED <<consent, supervised>>

Consent(w) ==
    /\ supervised
    /\ consent' = consent \cup {w}
    /\ UNCHANGED <<phase, supervised>>

ANext == \E w \in WorkPackages : Start(w) \/ Accept(w) \/ Reject(w) \/ Consent(w)

ASpec == AInit /\ [][ANext]_avars
=============================================================================
