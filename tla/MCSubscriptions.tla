-------------------------- MODULE MCSubscriptions --------------------------
(***************************************************************************)
(* Instances of Subscriptions for TLC.                                     *)
(***************************************************************************)
EXTENDS Subscriptions, TLC

CONSTANTS n1, n2, r1, r2, u1, u2

NodesAB == {n1, n2}
NodeA == {n1}
NoRequests == {}
OneRequest == {r1}
TwoRequests == {r1, r2}
OneSub == {u1}
TwoSubs == {u1, u2}
NodesAlike == Permutations(Instances)
EveryMinute == [s \in Subs |-> 0 .. MaxClock]
=============================================================================
