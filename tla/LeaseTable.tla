----------------------------- MODULE LeaseTable -----------------------------
(***************************************************************************)
(* One row of distributed_leases and the calls of AcquireLease and         *)
(* ReleaseLease on it.  AcquireLease is not atomic: it reads its clock,    *)
(* sends an INSERT, and if that is ignored an UPDATE; both statements carry*)
(* the time read at first.  The owner a call names is its instance, not    *)
(* the call: the ticker and every run-now request of an instance pass the  *)
(* same instanceID, so calls of one owner overlap and each may delete the  *)
(* row another of them was granted.  Module Scheduler takes the call as    *)
(* one step; this one checks what that leaves out.                         *)
(***************************************************************************)
EXTENDS Integers

CONSTANTS
  Owners,      \* the instances
  NoOwner,
  Calls,       \* the ticker and the requests, each with one call at a time
  OwnerOf,     \* OwnerOf[c]: the instance c runs in
  Skew,        \* Skew[o]: how far the clock of o is ahead
  MaxSkew,
  TTL,
  MaxClock, MaxFaults   \* bounds of the model

ASSUME LeaseAssumption ==
  /\ NoOwner \notin Owners
  /\ OwnerOf \in [Calls -> Owners]
  /\ MaxSkew \in Nat /\ Skew \in [Owners -> 0 .. MaxSkew]
  /\ TTL \in Nat \ {0}
  /\ MaxClock \in Nat /\ MaxFaults \in Nat

VARIABLES
  clock,
  row,
  pc,        \* pc[c]: where call c is, or how its last one ended
  now,       \* now[c]: the time it has read
  faults,
  rival,     \* history: rival[c]: another owner's row was there during the call
  undercut   \* history: undercut[c]: another call of c's owner deleted the row c
             \* was granted or has found, or moved its expiry back

vars == <<clock, row, pc, now, faults, rival, undercut>>

LR == INSTANCE LeaseRows

Me(c) == OwnerOf[c]

Local(o) == clock + Skew[o]

Init ==
  /\ clock = 0
  /\ row = LR!NoLease
  /\ pc = [c \in Calls |-> "idle"]
  /\ now = [c \in Calls |-> 0]
  /\ faults = 0
  /\ rival = [c \in Calls |-> FALSE]
  /\ undercut = [c \in Calls |-> FALSE]

\* The statement deletes the row of c's owner, or lets it end sooner than c was
\* granted.
Undercuts(c) ==
  /\ row.owner = Me(c)
  /\ \/ ~LR!Present(row')
     \/ pc[c] = "held" /\ row'.owner = Me(c) /\ row'.expires < now[c] + TTL

\* What each call has met once call c has run a statement.
Witness(c) ==
  /\ rival' = [d \in Calls |-> rival[d] \/ row'.owner \notin {Me(d), NoOwner}]
  /\ undercut' = [d \in Calls |-> undercut[d] \/ (d # c /\ Undercuts(d))]

Goto(c, point) == pc' = [pc EXCEPT ![c] = point]

\* The statement is applied, but its answer may be lost: the caller gets an
\* error, and does not work under the lease it has.
Answer(c, point) ==
  \/ Goto(c, point) /\ UNCHANGED faults
  \/ /\ faults < MaxFaults /\ faults' = faults + 1
     /\ Goto(c, "idle")

\* now := time.Now()
Start(c) ==
  /\ pc[c] \in {"idle", "refused"}
  /\ Goto(c, "insert")
  /\ now' = [now EXCEPT ![c] = Local(Me(c))]
  /\ rival' = [rival EXCEPT ![c] = row.owner \notin {Me(c), NoOwner}]
  /\ undercut' = [undercut EXCEPT ![c] = FALSE]
  /\ UNCHANGED <<clock, row, faults>>

\* INSERT OR IGNORE
Insert(c) ==
  /\ pc[c] = "insert"
  /\ IF LR!Present(row)
     THEN Goto(c, "update") /\ UNCHANGED <<row, faults>>
     ELSE /\ row' = LR!Acquired(Me(c), now[c], TTL)
          /\ Answer(c, "held")
  /\ Witness(c)
  /\ UNCHANGED <<clock, now>>

\* UPDATE ... WHERE name=? AND (expires_at<? OR owner=?)
Update(c) ==
  /\ pc[c] = "update"
  /\ IF LR!Claimable(row, Me(c), now[c])
     THEN row' = LR!Acquired(Me(c), now[c], TTL) /\ Answer(c, "held")
     ELSE Goto(c, "refused") /\ UNCHANGED <<row, faults>>
  /\ Witness(c)
  /\ UNCHANGED <<clock, now>>

\* DELETE ... WHERE name=? AND owner=?, or the caller keeps the row (the tick
\* never releases the leader lease) or dies.
Finish(c) ==
  /\ pc[c] = "held"
  /\ Goto(c, "idle")
  /\ row' \in {row, LR!Released(row, Me(c))}
  /\ Witness(c)
  /\ UNCHANGED <<clock, now, faults>>

\* The call is abandoned between its statements.
Die(c) ==
  /\ pc[c] \in {"insert", "update"} /\ faults < MaxFaults
  /\ faults' = faults + 1
  /\ Goto(c, "idle")
  /\ UNCHANGED <<clock, row, now, rival, undercut>>

Tick ==
  /\ clock < MaxClock
  /\ clock' = clock + 1
  /\ UNCHANGED <<row, pc, now, faults, rival, undercut>>

Next ==
  Tick \/ \E c \in Calls : Start(c) \/ Insert(c) \/ Update(c) \/ Finish(c) \/ Die(c)

Spec == Init /\ [][Next]_vars

-----------------------------------------------------------------------------
TypeOK ==
  /\ clock \in Nat
  /\ row \in LR!Lease
  /\ pc \in [Calls -> {"idle", "insert", "update", "held", "refused"}]
  /\ now \in [Calls -> Int]
  /\ rival \in [Calls -> BOOLEAN]
  /\ undercut \in [Calls -> BOOLEAN]

\* Nobody works with a time later than its clock.
NowInPast == \A c \in Calls : pc[c] # "idle" => now[c] <= Local(Me(c))

\* An answer "true" from AcquireLease is worth its TTL, counted from the call
\* and less the clock differences: until then the row is the caller's instance's
\* and ends no sooner, however long the two statements took and whoever else
\* calls.  What can take it away before is a call of the same instance, by
\* releasing the name they share or by an UPDATE with an older time.
GrantCovers ==
  \A c \in Calls :
    pc[c] = "held" /\ clock + MaxSkew <= now[c] + TTL /\ ~undercut[c] =>
      row.owner = Me(c) /\ row.expires >= now[c] + TTL

\* A call whose INSERT was ignored has met a rival's row, or its own owner's,
\* unless a call of its owner has deleted that since.
RivalSeen ==
  \A c \in Calls : pc[c] = "update" => rival[c] \/ undercut[c] \/ row.owner = Me(c)

\* An answer "false" means that another instance had the row at some time of
\* the call, or that a call of the same instance released it between the two
\* statements: never the caller's own old row, nor one absent all along.
RefusedOnlyByRival ==
  \A c \in Calls : pc[c] = "refused" => rival[c] \/ undercut[c]

\* What the two answers of AcquireLease promise, and why: the inductive
\* invariant of the lease row.
IInv == TypeOK /\ NowInPast /\ GrantCovers /\ RivalSeen /\ RefusedOnlyByRival

\* No call shares its owner with another: the leader lease, which only the
\* ticker of an instance takes.
OneCallEach == \A c, d \in Calls : Me(c) = Me(d) => c = d

Lock == INSTANCE LeaseLock

\* AcquireLease in two statements is still a lock with a time limit.
ImplementsLock == Lock!Spec
=============================================================================
