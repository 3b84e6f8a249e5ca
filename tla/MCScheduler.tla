---------------------------- MODULE MCScheduler ----------------------------
(***************************************************************************)
(* Instances of Scheduler for TLC.                                         *)
(***************************************************************************)
EXTENDS Scheduler, TLC

CONSTANTS n1, n2, r1, s1, s2

NodesAB == {n1, n2}
NoSkew == n1 :> 0 @@ n2 :> 0
AheadB == n1 :> 0 @@ n2 :> 1
NoRequests == {}
NoRequestHost == [r \in {} |-> n1]
OneRequest == {r1}
OnA == r1 :> n1
OneSchedule == {s1}
TwoSchedules == {s1, s2}
EveryMinute == [s \in Schedules |-> 0 .. MaxClock]
=============================================================================
