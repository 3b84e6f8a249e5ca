---------------------------- MODULE JobExclusion ----------------------------
(***************************************************************************)
(* What the leases promise (docs/deployment.md): the instances run each    *)
(* schedule under mutual exclusion, and a dead instance does not keep the  *)
(* others out for ever.  active[s] is the set of instances that run s.     *)
(***************************************************************************)
CONSTANTS Instances, Schedules

VARIABLE active

Init == active = [s \in Schedules |-> {}]

Begin(i, s) ==
  /\ active[s] = {}
  /\ active' = [active EXCEPT ![s] = {i}]

End(i, s) ==
  /\ i \in active[s]
  /\ active' = [active EXCEPT ![s] = @ \ {i}]

Die(i) == active' = [s \in Schedules |-> active[s] \ {i}]

Next == \E i \in Instances : Die(i) \/ \E s \in Schedules : Begin(i, s) \/ End(i, s)

Spec == Init /\ [][Next]_active
=============================================================================
