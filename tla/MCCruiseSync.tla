------------------------------ MODULE MCCruiseSync ------------------------------
(* The instances of CruiseSync for TLC; jobs, replicas and connections are model *)
(* values of the configurations.                                                  *)
EXTENDS CruiseSync

AllKinds == {"scheduled", "manual", "dry"}
Scheduled == {"scheduled"}

Calm == [lossy |-> FALSE, crashes |-> 0, sessions |-> "kept"]
EndingSessions == [Calm EXCEPT !.sessions = "ended"]
SharedSessions == [Calm EXCEPT !.sessions = "shared"]

NoTrouble == {Calm}

\* Statements fail, or an instance dies, or sessions are shared, and end.
OneTrouble == {[Calm EXCEPT !.lossy = TRUE], [Calm EXCEPT !.crashes = 1], SharedSessions}
OnlyEnding == {EndingSessions}
=================================================================================
