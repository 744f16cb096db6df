------------------------------ MODULE Registry ------------------------------
(***************************************************************************)
(* kernel/registry and kernel/contract: who may do a piece of work and     *)
(* with which capabilities.  A worker is a record with an id (a number, in *)
(* the order of the Go string ids), a trade, capabilities, availability    *)
(* and a cost weight; a requirement has a trade ("" matches any worker)    *)
(* and capabilities.                                                       *)
(***************************************************************************)
EXTENDS Naturals

\* Select's filter: available, of the trade asked for, and missing nothing.
Eligible(w, req) ==
    /\ w.available
    /\ req.trade # "" => w.trade = req.trade
    /\ req.caps \subseteq w.caps

\* Select's order: cost weight, then id.
Precedes(v, w) ==
    \/ v.cost < w.cost
    \/ v.cost = w.cost /\ v.id < w.id

\* SelectOne: the eligible worker no other eligible worker precedes.
Selected(w, workers, req) ==
    /\ w \in workers
    /\ Eligible(w, req)
    /\ \A v \in workers : Eligible(v, req) => ~Precedes(v, w)

SomeEligible(workers, req) == \E w \in workers : Eligible(w, req)

\* contract.Build refuses a capability it does not know, requested or permitted.
Buildable(requested, permitted, known) == requested \cup permitted \subseteq known
=============================================================================
