------------------------------ MODULE LeaseRows ------------------------------
(***************************************************************************)
(* The rows of table distributed_leases and the three statements the store *)
(* runs on one of them (internal/adapters/appdb/leases.go).  A row names   *)
(* its owner and the time it expires; an absent row is NoLease.            *)
(*                                                                         *)
(* Time is a number of clock units.  `me' and `now' are those of the       *)
(* instance that runs the statement: the code compares the stored expiry   *)
(* with the local time of the caller, never with the time of the database. *)
(***************************************************************************)
EXTENDS Integers

CONSTANTS
  Owners,      \* the identities that may own a lease
  NoOwner      \* the owner of an absent row

NoLease == [owner |-> NoOwner, expires |-> 0]

Lease == [owner : Owners, expires : Int] \cup {NoLease}

Present(row) == row # NoLease

\* Variant: the UPDATE without its condition on expires_at and owner.
ClaimableAtAnyTime(row, me, now) == Present(row)

\* Variant: the UPDATE without OR owner=?.
ClaimableIfExpired(row, me, now) == Present(row) /\ row.expires < now

\* WHERE name=? AND (expires_at<? OR owner=?): strictly past, or already mine.
Claimable(row, me, now) == Present(row) /\ (row.expires < now \/ row.owner = me)

\* AcquireLease as one step: the INSERT of an absent row, else the UPDATE.
MayAcquire(row, me, now) == ~Present(row) \/ Claimable(row, me, now)

Acquired(me, now, ttl) == [owner |-> me, expires |-> now + ttl]

\* Variant: a lease that is left to expire.
ReleasedByTime(row, me) == row

\* DELETE ... WHERE name=? AND owner=?
Released(row, me) == IF row.owner = me THEN NoLease ELSE row
=============================================================================
