---------------------------- MODULE MCLeaseTable ----------------------------
(***************************************************************************)
(* An instance of LeaseTable for TLC: the ticker and a request of n1, and  *)
(* a call of n2, whose clock is ahead.                                     *)
(***************************************************************************)
EXTENDS LeaseTable, TLC

CONSTANTS n1, n2, tick1, ask1, tick2

TwoNodes == {n1, n2}
ThreeCalls == {tick1, ask1, tick2}
InstanceOf == tick1 :> n1 @@ ask1 :> n1 @@ tick2 :> n2
AheadC == n1 :> 0 @@ n2 :> 1
=============================================================================
