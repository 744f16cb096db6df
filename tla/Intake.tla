------------------------------- MODULE Intake -------------------------------
(***************************************************************************)
(* kernel/intake: validation and deduplication of result envelopes.  An    *)
(* envelope is untrusted, so its status may be none of the five the        *)
(* contract names ("other" stands for all of those).                       *)
(***************************************************************************)
CONSTANT NoHash     \* the value of seen for an id that was never submitted

ValidStatuses == {"succeeded", "failed", "partial", "blocked", "cancelled"}
ResultStatuses == ValidStatuses \cup {"other"}

\* The content hash covers status and tests, not the failure (hashResult).
Hash(r) == [status |-> r.status, tests |-> r.tests]

\* The checks that come before deduplication: a known status, and a failure
\* attached to a failed or blocked result.
WellFormed(r) ==
    /\ r.status \in ValidStatuses
    /\ r.status \in {"failed", "blocked"} => r.failure

\* Submit's outcome for result r under an id whose recorded hash is seen.
SubmitOutcome(seen, r) ==
    IF ~WellFormed(r) THEN "refused"
    ELSE IF seen = NoHash THEN "new"
    ELSE IF seen = Hash(r) THEN "duplicate" ELSE "conflict"

\* The hash recorded under the id after Submit.
SeenAfter(seen, r) == IF SubmitOutcome(seen, r) = "new" THEN Hash(r) ELSE seen
=============================================================================
