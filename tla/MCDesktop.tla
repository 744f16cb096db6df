---------------------------- MODULE MCDesktop ----------------------------
(* Two tasks, a stream, two threads that change settings and a command of   *)
(* the command line.                                                        *)
EXTENDS Desktop

WithProfiles(active, first, local) ==
    [active |-> active, order |-> first,
     of |-> [n \in ToSet(first) |-> IF n = "local" THEN local ELSE DefaultProfile]]

\* A file written by hand: the gates are off and there is no default profile.
Ungoverned == [LocalProfile EXCEPT !.expert = "on", !.policy = "cloud_only",
                                   !.flags = [major |-> FALSE, critical |-> FALSE, significant |-> TRUE]]

Good == File(WithProfiles("default", <<"default", "local">>, LocalProfile))
ByHand == File(WithProfiles("local", <<"local">>, Ungoverned))

\* An environment that asks for the cloud only, and for no approvals.
MCEnvironment == [cloudAllowed |-> FALSE, policy |-> "cloud_only", flags |-> Ungoverned.flags]

\* Goals that lead to each of the policies.
CloudGoal == [LocalGoal EXCEPT !.cloud = TRUE]
MCGoals == {LocalGoal, CloudGoal, [CloudGoal EXCEPT !.expertFits = FALSE],
            [CloudGoal EXCEPT !.localFits = FALSE], [CloudGoal EXCEPT !.privacy = TRUE]}

Begin(f, requests, changes) == [file |-> f, requests |-> requests, changes |-> changes]

\* Several requests about tasks, or several changes of settings.
MCStarts == {Begin(Good, 3, 0), Begin(Good, 0, 2), Begin(ByHand, 0, 2), Begin(Missing, 0, 1)}
\* One of each.
MCActivationStarts == {Begin(Good, 1, 1)}
=============================================================================
