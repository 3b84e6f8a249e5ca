------------------------------ MODULE LeaseLock ------------------------------
(***************************************************************************)
(* What a lease row is for: a lock with a time limit.  A row changes hands *)
(* only when it is free, when it is the taker's own, or when the clock of  *)
(* the taker has passed its expiry; it is freed only by its owner.         *)
(***************************************************************************)
EXTENDS Integers

CONSTANTS Owners, NoOwner, Skew, TTL

VARIABLES clock, row

Free == [owner |-> NoOwner, expires |-> 0]

Local(o) == clock + Skew[o]

Init == clock = 0 /\ row = Free

Take(o) ==
  /\ row = Free \/ row.owner = o \/ row.expires < Local(o)
  /\ row'.owner = o /\ row'.expires <= Local(o) + TTL
  /\ UNCHANGED clock

Drop(o) ==
  /\ row.owner = o
  /\ row' = Free
  /\ UNCHANGED clock

Tick == clock' = clock + 1 /\ UNCHANGED row

Next == Tick \/ \E o \in Owners : Take(o) \/ Drop(o)

Spec == Init /\ [][Next]_<<clock, row>>
=============================================================================
