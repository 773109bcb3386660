---------------------------- MODULE MCCruiseBooking ----------------------------
(* The instance of CruiseBooking for TLC: six environments in one run.     *)
EXTENDS CruiseBooking, TLC

AllOperations == {"add", "proposal", "get", "remove", "cancel", "book"}

\* Everything overlaps, the answers of Fusion are lost, and time passes.
Rough == [operations |-> AllOperations, cabins |-> 1, isolated |-> FALSE,
          faults |-> 0, lostReplies |-> TRUE, lapses |-> TRUE, revokes |-> FALSE]

\* Everything overlaps, answers are lost, and a request dies.
Crashing == [Rough EXCEPT !.faults = 1, !.lapses = FALSE]

\* Requests overlap and nothing fails.
Sound == [operations |-> {"add", "cancel", "book"}, cabins |-> 2, isolated |-> FALSE,
          faults |-> 0, lostReplies |-> FALSE, lapses |-> FALSE, revokes |-> FALSE]

\* One request at a time, and time passes.
OneAtATime == [operations |-> AllOperations, cabins |-> 2, isolated |-> TRUE,
               faults |-> 0, lostReplies |-> FALSE, lapses |-> TRUE, revokes |-> FALSE]

\* One request at a time, while users lose access, or the activity is deleted.
Revoking == [operations |-> {"add", "book"}, cabins |-> 2, isolated |-> TRUE,
             faults |-> 0, lostReplies |-> FALSE, lapses |-> FALSE, revokes |-> TRUE]

\* The same, with requests that overlap.
RevokingAmid == [Revoking EXCEPT !.cabins = 1, !.isolated = FALSE]

AllEnvironments == {Rough, Crashing, Sound, OneAtATime, Revoking, RevokingAmid}
OnlyRevoking == {Revoking}

Symmetry == Permutations(Requests) \cup Permutations(Keys)
=============================================================================
