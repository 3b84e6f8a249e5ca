-------------------------- MODULE SchedulerProofs --------------------------
(***************************************************************************)
(* Proofs about module Scheduler, for any number of instances, requests    *)
(* and schedules, any clock skew up to MaxSkew and any number of crashes   *)
(* and database errors.  The argument: a lease is written with an expiry   *)
(* that no clock reaches while the thread that took it is at work          *)
(* (RunFitsLease), so another instance gets the row only after somebody    *)
(* deleted it; the DELETE names the owner, so that somebody is a thread of *)
(* the same instance, and the threads it harms are recorded in `spilled'.  *)
(*                                                                         *)
(* Two results stand on the same facts about the threads: what a run takes *)
(* it gives back, and with clocks that agree and no requests a minute of a *)
(* schedule is run by one tick, whoever ticks.                             *)
(***************************************************************************)
EXTENDS Scheduler, FiniteSetTheorems, TLAPS

-----------------------------------------------------------------------------
\* What a step of each kind looks like to the variables of the lease protocol.

LEMMA HostType ==
  ASSUME NEW t \in Threads
  PROVE  /\ Host(t) \in Instances
         /\ Skew[Host(t)] \in 0 .. MaxSkew
         /\ Host(t) # NoOwner /\ Host(t) # Ghost
BY InstanceAssumption, TimeAssumption DEF Threads, Host

LEMMA TickerIsThread ==
  ASSUME NEW i \in Instances
  PROVE  i \in Threads /\ Host(i) = i
BY DEF Threads, Host

LEMMA RequestIsThread ==
  ASSUME NEW r \in Requests
  PROVE  r \in Threads /\ Host(r) = RequestHost[r] /\ r \notin Instances
BY InstanceAssumption DEF Threads, Host

LEMMA AcquiredType ==
  ASSUME NEW i \in Instances, NEW now \in Int, NEW ttl \in Nat
  PROVE  /\ LR!Acquired(i, now, ttl) \in LR!Lease
         /\ LR!Acquired(i, now, ttl).owner = i
         /\ LR!Acquired(i, now, ttl).expires = now + ttl
BY DEF LR!Acquired, LR!Lease

\* The DELETE of me takes away no row of another owner.
LEMMA ReleasedType ==
  ASSUME NEW row \in LR!Lease, NEW me
  PROVE  /\ LR!Released(row, me) \in LR!Lease
         /\ row.owner # me => LR!Released(row, me) = row
BY DEF LR!Released, LR!Lease

LEMMA LocalType ==
  ASSUME NEW i \in Instances, clock \in Nat
  PROVE  Local(i) \in Nat /\ clock <= Local(i) /\ Local(i) <= clock + MaxSkew
BY TimeAssumption DEF Local

-----------------------------------------------------------------------------
\* Type correctness.

LEMMA InitTypeOK == Init => TypeOK
<1>1. SUFFICES ASSUME Init PROVE TypeOK
  OBVIOUS
<1>2. LR!NoLease \in LR!Lease
  BY DEF LR!Lease
<1>3. 0 \in 0 .. MaxClock /\ 0 \in 0 .. MaxCrashes /\ 0 \in 0 .. MaxFaults
  BY TimeAssumption
<1>4. QED
  BY <1>1, <1>2, <1>3 DEF Init, TypeOK, PCs, Leased, Relying, InRun, Never, Threads

LEMMA TakeLeaseType ==
  ASSUME TypeOK, NEW t \in Threads, NEW s \in Schedules, pc[t] \notin Leased, TakeLease(t, s)
  PROVE  /\ lease' \in [Schedules -> LR!Lease]
         /\ pc' \in [Threads -> PCs]
         /\ job' \in [Threads -> Schedules \cup {NoJob}]
         /\ \A u \in Threads : job'[u] # NoJob <=> pc'[u] \in Leased
         /\ since' \in [Threads -> Nat]
         /\ faults' = faults
<1>1. clock \in Nat
  BY TimeAssumption DEF TypeOK
<1>2. Host(t) \in Instances /\ Local(Host(t)) \in Nat
  BY <1>1, HostType, LocalType
<1>3. LR!Acquired(Host(t), Local(Host(t)), RunTTL) \in LR!Lease
  BY <1>2, AcquiredType, TimeAssumption
<1>4. s # NoJob
  BY InstanceAssumption
<1>5. QED
  BY <1>1, <1>3, <1>4 DEF TakeLease, TypeOK, PCs, Leased, Relying, InRun

LEMMA LoseAcquireType ==
  ASSUME TypeOK, NEW t \in Threads, NEW s \in Schedules, LoseAcquire(t, s)
  PROVE  /\ lease' \in [Schedules -> LR!Lease]
         /\ faults' \in 0 .. MaxFaults
         /\ pc' = pc /\ job' = job /\ since' = since
<1>1. clock \in Nat
  BY TimeAssumption DEF TypeOK
<1>2. Host(t) \in Instances /\ Local(Host(t)) \in Nat
  BY <1>1, HostType, LocalType
<1>3. LR!Acquired(Host(t), Local(Host(t)), RunTTL) \in LR!Lease
  BY <1>2, AcquiredType, TimeAssumption
<1>4. QED
  BY <1>3, TimeAssumption DEF LoseAcquire, Fault, TypeOK

LEMMA NextTypeOK == TypeOK /\ [Next]_vars => TypeOK'
<1>1. SUFFICES ASSUME TypeOK, [Next]_vars PROVE TypeOK'
  OBVIOUS
<1> USE DEF PCs, Leased, Relying, InRun, dbVars, runVars, tickVars, boundVars, history
<1>2. clock \in Nat /\ MaxClock \in Nat
  BY <1>1, TimeAssumption DEF TypeOK
<1>3. CASE Tick
  BY <1>1, <1>2, <1>3 DEF Tick, TypeOK
<1>4. ASSUME NEW i \in Instances, TickElect(i) PROVE TypeOK'
  <2>1. LR!Acquired(i, Local(i), LeaderTTL) \in LR!Lease
    BY <1>2, LocalType, AcquiredType, TimeAssumption
  <2>2. QED
    BY <1>1, <1>2, <1>4, <2>1, TickerIsThread DEF TickElect, TypeOK
<1>5. ASSUME NEW i \in Instances, TickList(i) PROVE TypeOK'
  <2>1. Local(i) \in Nat
    BY <1>2, LocalType
  <2>2. QED
    BY <1>1, <1>5, <2>1, TickerIsThread DEF TickList, TypeOK
<1>6. ASSUME NEW i \in Instances, TickNext(i) PROVE TypeOK'
  <2>1. PICK s \in todo[i] :
          /\ todo' = [todo EXCEPT ![i] = @ \ {s}]
          /\ \/ TakeLease(i, s)
             \/ LoseAcquire(i, s)
             \/ UNCHANGED <<lease, pc, job, since, faults>>
    BY <1>6 DEF TickNext
  <2>2. i \in Threads /\ s \in Schedules /\ pc[i] \notin Leased
    BY <1>1, <1>6, <2>1, TickerIsThread DEF TickNext, TypeOK
  <2>3. todo' \in [Instances -> SUBSET Schedules]
    BY <1>1, <2>1 DEF TypeOK
  <2>4. CASE TakeLease(i, s)
    BY <1>1, <1>6, <2>2, <2>3, <2>4, TakeLeaseType DEF TickNext, TypeOK
  <2>5. CASE LoseAcquire(i, s)
    BY <1>1, <1>6, <2>2, <2>3, <2>5, LoseAcquireType DEF TickNext, TypeOK
  <2>6. CASE UNCHANGED <<lease, pc, job, since, faults>>
    BY <1>1, <1>6, <2>3, <2>6 DEF TickNext, TypeOK
  <2>7. QED
    BY <2>1, <2>4, <2>5, <2>6
<1>7. ASSUME NEW i \in Instances, TickDone(i) PROVE TypeOK'
  BY <1>1, <1>7, TickerIsThread DEF TickDone, TypeOK
<1>8. ASSUME NEW i \in Instances, Crash(i) PROVE TypeOK'
  <2>1. ASSUME NEW row \in LR!Lease PROVE Orphaned(row, i) \in LR!Lease
    BY InstanceAssumption DEF Orphaned, LR!Lease, LR!NoLease
  <2>2. leader' \in LR!Lease /\ lease' \in [Schedules -> LR!Lease]
    BY <1>1, <1>8, <2>1 DEF Crash, TypeOK
  <2>3. crashes' \in 0 .. MaxCrashes
    BY <1>1, <1>8, TimeAssumption DEF Crash, TypeOK
  <2>4. QED
    BY <1>1, <1>8, <2>2, <2>3 DEF Crash, TypeOK
<1>9. ASSUME NEW i \in Instances, Restart(i) PROVE TypeOK'
  BY <1>1, <1>9 DEF Restart, TypeOK
<1>10. ASSUME NEW r \in Requests, NEW s \in Schedules, HttpRun(r, s) PROVE TypeOK'
  <2>1. r \in Threads /\ pc[r] \notin Leased
    BY <1>10, RequestIsThread DEF HttpRun
  <2>2. CASE TakeLease(r, s)
    BY <1>1, <1>10, <2>1, <2>2, TakeLeaseType DEF HttpRun, TypeOK
  <2>3. CASE LoseAcquire(r, s)
    BY <1>1, <1>10, <2>1, <2>3, LoseAcquireType DEF HttpRun, TypeOK
  <2>4. QED
    BY <1>10, <2>2, <2>3 DEF HttpRun
<1>11. ASSUME NEW t \in Threads, RunStep(t) PROVE TypeOK'
  <2>1. Host(t) \in Instances /\ Local(Host(t)) \in Nat
    BY <1>2, HostType, LocalType
  <2>2. CASE RunEnter(t)
    BY <1>1, <2>1, <2>2 DEF RunEnter, Goto, TypeOK
  <2>3. CASE RunLoad(t)
    <3>1. openRuns' \in [Schedules -> Int] /\ listed' \subseteq Threads /\ faults' \in 0 .. MaxFaults
      BY <1>1, <2>3, TimeAssumption DEF RunLoad, Fault, TypeOK
    <3>2. QED
      BY <1>1, <2>1, <2>3, <3>1 DEF RunLoad, LeaveRun, Goto, TypeOK
  <2>4. CASE RunWrite(t)
    BY <1>1, <2>1, <2>4 DEF RunWrite, Goto, TypeOK
  <2>5. CASE RunRecord(t)
    BY <1>1, <2>5, TimeAssumption DEF RunRecord, Fault, Goto, TypeOK
  <2>6. CASE RunStamp(t)
    <3>1. job[t] \in Schedules
      BY <1>1, <2>6 DEF RunStamp, TypeOK
    <3>2. t \in Instances => Minute(slot[t]) \in Int
      BY <1>1, TimeAssumption DEF Minute, TypeOK
    <3>3. fired' \subseteq Schedules \X Int /\ refired' \subseteq Schedules \X Int
      BY <1>1, <2>6, <3>1, <3>2 DEF RunStamp, TypeOK
    <3>4. QED
      BY <1>1, <2>1, <2>6, <3>1, <3>3, TimeAssumption DEF RunStamp, Fault, LeaveRun, Goto, TypeOK
  <2>7. CASE Release(t)
    <3>1. job[t] \in Schedules
      BY <1>1, <2>7 DEF Release, TypeOK
    <3>2. LR!Released(lease[job[t]], Host(t)) \in LR!Lease
      BY <1>1, <3>1, ReleasedType DEF TypeOK
    <3>3. lease' \in [Schedules -> LR!Lease] /\ faults' \in 0 .. MaxFaults
      BY <1>1, <2>7, <3>2, TimeAssumption DEF Release, Fault, TypeOK
    <3>4. spilled' \subseteq Threads
      BY <1>1, <2>7 DEF Release, Siblings, TypeOK
    <3>5. pc' \in [Threads -> PCs] /\ job' \in [Threads -> Schedules \cup {NoJob}]
      BY <1>1, <2>7 DEF Release, Goto, TypeOK
    <3>6. \A u \in Threads : job'[u] # NoJob <=> pc'[u] \in Leased
      BY <1>1, <2>7 DEF Release, Goto, TypeOK
    <3>7. QED
      BY <1>1, <2>7, <3>3, <3>4, <3>5, <3>6 DEF Release, TypeOK
  <2>8. QED
    BY <1>11, <2>2, <2>3, <2>4, <2>5, <2>6, <2>7 DEF RunStep
<1>12. CASE UNCHANGED vars
  BY <1>1, <1>12 DEF TypeOK, vars
<1>13. QED
  BY <1>1, <1>3, <1>4, <1>5, <1>6, <1>7, <1>8, <1>9, <1>10, <1>11, <1>12
  DEF Next, Ticker, Horizon

\* Every variable of the scheduler keeps its type, whatever the instances do.
THEOREM TypeCorrect == Spec => []TypeOK
BY InitTypeOK, NextTypeOK, PTL DEF Spec

-----------------------------------------------------------------------------
\* The inductive invariant.

LEMMA InitIInv == Init => IInv
<1>1. SUFFICES ASSUME Init PROVE IInv
  OBVIOUS
<1>2. \A t \in Threads : pc[t] = "idle"
  BY <1>1 DEF Init
<1>3. QED
  BY <1>1, <1>2, InitTypeOK
  DEF IInv, WorkInTime, LeaseCovers, SlotsExclusive, Leased, Relying, InRun

\* Time passes only up to the bound of the runs in progress, and only a thread
\* that takes a lease starts the bound anew.
LEMMA NextWorkInTime == TypeOK /\ WorkInTime /\ [Next]_vars => WorkInTime'
<1>1. SUFFICES ASSUME TypeOK, WorkInTime, [Next]_vars PROVE WorkInTime'
  OBVIOUS
<1> USE DEF Leased, Relying, InRun, runVars, tickVars, boundVars, history, dbVars
<1>2. clock \in Nat /\ MaxRun \in Nat
  BY <1>1, TimeAssumption DEF TypeOK
<1>3. ASSUME UNCHANGED clock,
             \A t \in Threads : pc'[t] \in Leased =>
                \/ pc[t] \in Leased /\ since'[t] = since[t]
                \/ since'[t] = clock
      PROVE  WorkInTime'
  BY <1>1, <1>2, <1>3 DEF WorkInTime, TypeOK
<1>4. CASE Tick
  BY <1>1, <1>2, <1>4 DEF Tick, WorkInTime, TypeOK
<1>5. ASSUME NEW i \in Instances, Ticker(i) PROVE WorkInTime'
  BY <1>1, <1>3, <1>5, TickerIsThread
  DEF Ticker, TickElect, TickList, TickNext, TickDone, TakeLease, LoseAcquire, TypeOK
<1>6. ASSUME NEW i \in Instances, Crash(i) \/ Restart(i) PROVE WorkInTime'
  BY <1>1, <1>3, <1>6 DEF Crash, Restart, TypeOK
<1>7. ASSUME NEW r \in Requests, NEW s \in Schedules, HttpRun(r, s) PROVE WorkInTime'
  BY <1>1, <1>3, <1>7, RequestIsThread DEF HttpRun, TakeLease, LoseAcquire, TypeOK
<1>8. ASSUME NEW t \in Threads, RunStep(t) PROVE WorkInTime'
  BY <1>1, <1>3, <1>8
  DEF RunStep, RunEnter, RunLoad, RunWrite, RunRecord, RunStamp, Release, Goto, TypeOK
<1>9. CASE UNCHANGED vars
  BY <1>1, <1>9 DEF WorkInTime, vars
<1>10. QED
  BY <1>1, <1>4, <1>5, <1>6, <1>7, <1>8, <1>9 DEF Next, Horizon

\* A lease that covers the work of a thread is not open to another instance.
LEMMA CoveredIsSafe ==
  ASSUME IInv,
         NEW t \in Threads, pc[t] \in Relying, t \notin spilled,
         NEW i \in Instances, LR!MayAcquire(lease[job[t]], i, Local(i))
  PROVE  i = Host(t)
<1>1. /\ lease[job[t]].owner = Host(t)
      /\ lease[job[t]].expires >= since[t] + RunTTL
  BY DEF IInv, LeaseCovers
<1>2. clock \in Nat /\ clock <= since[t] + MaxRun /\ since[t] \in Nat
  BY TimeAssumption DEF IInv, WorkInTime, TypeOK, Leased
<1>3. job[t] \in Schedules /\ lease[job[t]] \in LR!Lease
  BY InstanceAssumption DEF IInv, TypeOK, Leased
<1>4. LR!Present(lease[job[t]])
  BY <1>1, HostType DEF LR!Present, LR!NoLease
<1>5. lease[job[t]].expires \in Int
  BY <1>3 DEF LR!Lease, LR!NoLease
<1>6. Local(i) \in Nat /\ Local(i) <= clock + MaxSkew
  BY <1>2, LocalType
<1>7. ~(lease[job[t]].expires < Local(i))
  BY <1>1, <1>2, <1>5, <1>6, RunFitsLease, TimeAssumption
<1>8. QED
  BY <1>1, <1>4, <1>7 DEF LR!MayAcquire, LR!Claimable

\* Threads that go on as they were stay covered if their lease does not change
\* but for being taken again by their own host.
LEMMA StillCovered ==
  ASSUME IInv, NEW t \in Threads, NEW s \in Schedules, NEW i \in Instances,
         LR!MayAcquire(lease[s], i, Local(i)),
         lease' = [lease EXCEPT ![s] = LR!Acquired(i, Local(i), RunTTL)],
         pc[t] \in Relying, t \notin spilled
  PROVE  /\ lease'[job[t]].owner = Host(t)
         /\ lease'[job[t]].expires >= since[t] + RunTTL
<1>1. job[t] \in Schedules /\ lease[job[t]] \in LR!Lease /\ lease[s] \in LR!Lease
  BY InstanceAssumption DEF IInv, TypeOK, Leased
<1>2. CASE job[t] # s
  BY <1>1, <1>2 DEF IInv, LeaseCovers, TypeOK
<1>3. CASE job[t] = s
  <2>1. i = Host(t)
    BY <1>3, CoveredIsSafe
  <2>2. clock \in Nat /\ since[t] \in Nat /\ since[t] <= clock
    BY TimeAssumption DEF IInv, WorkInTime, TypeOK, Leased
  <2>3. Local(i) \in Nat /\ clock <= Local(i)
    BY <2>2, LocalType
  <2>4. lease'[s] = LR!Acquired(i, Local(i), RunTTL)
    BY DEF IInv, TypeOK
  <2>5. lease'[s].owner = i /\ lease'[s].expires = Local(i) + RunTTL
    BY <2>3, <2>4, AcquiredType, TimeAssumption
  <2>6. QED
    BY <1>3, <2>1, <2>2, <2>3, <2>5, TimeAssumption
<1>4. QED
  BY <1>2, <1>3

LEMMA TakeLeaseCovers ==
  ASSUME IInv, NEW t \in Threads, NEW s \in Schedules, TakeLease(t, s), pc[t] \notin Leased,
         UNCHANGED spilled
  PROVE  LeaseCovers'
<1> DEFINE i == Host(t)
<1>1. i \in Instances /\ clock \in Nat
  BY HostType, TimeAssumption DEF IInv, TypeOK
<1>2. SUFFICES ASSUME NEW u \in Threads, pc'[u] \in Relying, u \notin spilled
               PROVE  /\ lease'[job'[u]].owner = Host(u)
                      /\ lease'[job'[u]].expires >= since'[u] + RunTTL
  BY DEF LeaseCovers, TakeLease
<1>3. CASE u = t
  <2>1. job'[u] = s /\ since'[u] = clock
    BY <1>3 DEF TakeLease, IInv, TypeOK
  <2>2. lease'[s] = LR!Acquired(i, Local(i), RunTTL)
    BY DEF TakeLease, IInv, TypeOK
  <2>3. Local(i) \in Nat /\ clock <= Local(i)
    BY <1>1, LocalType
  <2>4. lease'[s].owner = i /\ lease'[s].expires = Local(i) + RunTTL
    BY <1>1, <2>2, <2>3, AcquiredType, TimeAssumption
  <2>5. QED
    BY <1>1, <1>3, <2>1, <2>3, <2>4, TimeAssumption
<1>4. CASE u # t
  <2>1. pc[u] \in Relying /\ job'[u] = job[u] /\ since'[u] = since[u]
    BY <1>2, <1>4 DEF TakeLease, IInv, TypeOK
  <2>2. QED
    BY <1>1, <1>2, <2>1, StillCovered DEF TakeLease
<1>5. QED
  BY <1>3, <1>4

LEMMA LoseAcquireCovers ==
  ASSUME IInv, NEW t \in Threads, NEW s \in Schedules, LoseAcquire(t, s),
         UNCHANGED spilled
  PROVE  LeaseCovers'
<1>1. SUFFICES ASSUME NEW u \in Threads, pc[u] \in Relying, u \notin spilled
               PROVE  /\ lease'[job[u]].owner = Host(u)
                      /\ lease'[job[u]].expires >= since[u] + RunTTL
  BY DEF LeaseCovers, LoseAcquire
<1>2. QED
  BY <1>1, StillCovered, HostType DEF LoseAcquire

LEMMA NextLeaseCovers == IInv /\ [Next]_vars => LeaseCovers'
<1>1. SUFFICES ASSUME IInv, [Next]_vars PROVE LeaseCovers'
  OBVIOUS
<1> USE DEF Leased, Relying, InRun, runVars, tickVars, boundVars, history, dbVars
<1>2. ASSUME UNCHANGED lease,
             \A t \in Threads : pc'[t] \in Relying /\ t \notin spilled' =>
                /\ pc[t] \in Relying /\ t \notin spilled
                /\ job'[t] = job[t] /\ since'[t] = since[t]
      PROVE  LeaseCovers'
  BY <1>1, <1>2 DEF IInv, LeaseCovers
<1>3. CASE Tick
  BY <1>2, <1>3 DEF Tick
<1>4. ASSUME NEW i \in Instances, TickElect(i) \/ TickList(i) \/ TickDone(i)
      PROVE  LeaseCovers'
  BY <1>1, <1>2, <1>4, TickerIsThread DEF TickElect, TickList, TickDone, IInv, TypeOK
<1>5. ASSUME NEW i \in Instances, TickNext(i) PROVE LeaseCovers'
  <2>1. PICK s \in todo[i] :
          \/ TakeLease(i, s)
          \/ LoseAcquire(i, s)
          \/ UNCHANGED <<lease, pc, job, since, faults>>
    BY <1>5 DEF TickNext
  <2>2. i \in Threads /\ s \in Schedules /\ pc[i] \notin Leased /\ UNCHANGED spilled
    BY <1>1, <1>5, TickerIsThread DEF TickNext, IInv, TypeOK
  <2>3. CASE TakeLease(i, s)
    BY <1>1, <2>2, <2>3, TakeLeaseCovers
  <2>4. CASE LoseAcquire(i, s)
    BY <1>1, <2>2, <2>4, LoseAcquireCovers
  <2>5. CASE UNCHANGED <<lease, pc, job, since, faults>>
    BY <1>2, <2>2, <2>5
  <2>6. QED
    BY <2>1, <2>3, <2>4, <2>5
<1>6. ASSUME NEW r \in Requests, NEW s \in Schedules, HttpRun(r, s) PROVE LeaseCovers'
  BY <1>1, <1>6, RequestIsThread, TakeLeaseCovers, LoseAcquireCovers DEF HttpRun
<1>7. ASSUME NEW i \in Instances, Crash(i) PROVE LeaseCovers'
  <2>1. SUFFICES ASSUME NEW t \in Threads, pc'[t] \in Relying, t \notin spilled'
                 PROVE  /\ lease'[job'[t]].owner = Host(t)
                        /\ lease'[job'[t]].expires >= since'[t] + RunTTL
    BY DEF LeaseCovers
  <2>2. /\ Host(t) # i /\ pc[t] \in Relying /\ t \notin spilled
        /\ job'[t] = job[t] /\ since'[t] = since[t] /\ job[t] \in Schedules
    BY <1>1, <1>7, <2>1, InstanceAssumption DEF Crash, IInv, TypeOK
  <2>3. /\ lease[job[t]].owner = Host(t)
        /\ lease[job[t]].expires >= since[t] + RunTTL
    BY <1>1, <2>2 DEF IInv, LeaseCovers
  <2>4. lease'[job[t]] = lease[job[t]]
    BY <1>1, <1>7, <2>2, <2>3 DEF Crash, Orphaned, IInv, TypeOK
  <2>5. QED
    BY <2>2, <2>3, <2>4
<1>8. ASSUME NEW i \in Instances, Restart(i) PROVE LeaseCovers'
  BY <1>2, <1>8 DEF Restart
<1>9. ASSUME NEW t \in Threads, Release(t) PROVE LeaseCovers'
  <2>1. SUFFICES ASSUME NEW u \in Threads, pc'[u] \in Relying, u \notin spilled'
                 PROVE  /\ lease'[job'[u]].owner = Host(u)
                        /\ lease'[job'[u]].expires >= since'[u] + RunTTL
    BY DEF LeaseCovers
  <2>2. /\ u # t /\ pc[u] \in Relying /\ u \notin spilled
        /\ job'[u] = job[u] /\ since'[u] = since[u]
        /\ job[u] \in Schedules /\ job[t] \in Schedules
    BY <1>1, <1>9, <2>1, InstanceAssumption DEF Release, Goto, IInv, TypeOK
  <2>3. /\ lease[job[u]].owner = Host(u)
        /\ lease[job[u]].expires >= since[u] + RunTTL
    BY <1>1, <2>2 DEF IInv, LeaseCovers
  <2>4. lease[job[u]] \in LR!Lease
    BY <1>1, <2>2 DEF IInv, TypeOK
  <2>5. CASE UNCHANGED lease
    BY <2>2, <2>3, <2>5
  <2>6. CASE ~UNCHANGED lease
    <3>1. /\ lease' = [lease EXCEPT ![job[t]] = LR!Released(lease[job[t]], Host(t))]
          /\ u \notin Siblings(t)
      BY <1>9, <2>1, <2>6 DEF Release
    <3>2. job[u] = job[t] => Host(u) # Host(t)
      BY <2>2, <3>1 DEF Siblings
    <3>3. lease'[job[u]] = lease[job[u]]
      BY <1>1, <2>2, <2>3, <2>4, <3>1, <3>2, ReleasedType DEF IInv, TypeOK
    <3>4. QED
      BY <2>2, <2>3, <3>3
  <2>7. QED
    BY <2>5, <2>6
<1>10. ASSUME NEW t \in Threads,
              RunEnter(t) \/ RunLoad(t) \/ RunWrite(t) \/ RunRecord(t) \/ RunStamp(t)
       PROVE  LeaseCovers'
  BY <1>1, <1>2, <1>10
  DEF RunEnter, RunLoad, RunWrite, RunRecord, RunStamp, Goto, IInv, TypeOK
<1>11. CASE UNCHANGED vars
  BY <1>1, <1>11 DEF vars, IInv, LeaseCovers
<1>12. QED
  BY <1>1, <1>3, <1>4, <1>5, <1>6, <1>7, <1>8, <1>9, <1>10, <1>11
  DEF Next, Horizon, Ticker, RunStep

LEMMA NextSlotsExclusive == IInv /\ [Next]_vars => SlotsExclusive'
<1>1. SUFFICES ASSUME IInv, [Next]_vars PROVE SlotsExclusive'
  OBVIOUS
<1> USE DEF Leased, Relying, InRun, runVars, tickVars, boundVars, history, dbVars
<1>2. ASSUME UNCHANGED running,
             \A t \in Threads : pc'[t] \in InRun => pc[t] \in InRun /\ job'[t] = job[t]
      PROVE  SlotsExclusive'
  BY <1>1, <1>2 DEF IInv, SlotsExclusive
<1>3. CASE Tick
  BY <1>2, <1>3 DEF Tick
<1>4. ASSUME NEW i \in Instances, Ticker(i) PROVE SlotsExclusive'
  BY <1>1, <1>2, <1>4, TickerIsThread
  DEF Ticker, TickElect, TickList, TickNext, TickDone, TakeLease, LoseAcquire, IInv, TypeOK
<1>5. ASSUME NEW r \in Requests, NEW s \in Schedules, HttpRun(r, s) PROVE SlotsExclusive'
  BY <1>1, <1>2, <1>5, RequestIsThread DEF HttpRun, TakeLease, LoseAcquire, IInv, TypeOK
<1>6. ASSUME NEW i \in Instances, Crash(i) PROVE SlotsExclusive'
  BY <1>1, <1>6 DEF Crash, IInv, TypeOK, SlotsExclusive
<1>7. ASSUME NEW i \in Instances, Restart(i) PROVE SlotsExclusive'
  BY <1>2, <1>7 DEF Restart
<1>8. ASSUME NEW t \in Threads, RunEnter(t) PROVE SlotsExclusive'
  <2>1. CASE job[t] \in running[Host(t)]
    BY <1>1, <1>2, <1>8, <2>1 DEF RunEnter, Goto, IInv, TypeOK
  <2>2. CASE job[t] \notin running[Host(t)]
    <3>1. /\ pc' = [pc EXCEPT ![t] = "load"] /\ job' = job
          /\ running' = [running EXCEPT ![Host(t)] = @ \cup {job[t]}]
      BY <1>8, <2>2 DEF RunEnter, Goto
    <3>2. \A u \in Threads : pc[u] \in InRun /\ Host(u) = Host(t) => job[u] # job[t]
      BY <1>1, <2>2 DEF IInv, SlotsExclusive
    <3>3. \A u \in Threads : running[Host(u)] \subseteq running'[Host(u)]
      BY <1>1, <3>1, HostType DEF IInv, TypeOK
    <3>4. job[t] \in running'[Host(t)]
      BY <1>1, <3>1, HostType DEF IInv, TypeOK
    <3>5. QED
      BY <1>1, <3>1, <3>2, <3>3, <3>4 DEF IInv, TypeOK, SlotsExclusive
  <2>3. QED
    BY <2>1, <2>2
<1>9. ASSUME NEW t \in Threads, pc[t] \in InRun, pc' = [pc EXCEPT ![t] = "release"],
             LeaveRun(t), job' = job
      PROVE  SlotsExclusive'
  <2>1. \A u \in Threads \ {t} : pc[u] \in InRun /\ Host(u) = Host(t) => job[u] # job[t]
    BY <1>1, <1>9 DEF IInv, SlotsExclusive
  <2>2. \A u \in Threads \ {t} : pc[u] \in InRun => job[u] \in running'[Host(u)]
    BY <1>1, <1>9, <2>1, HostType DEF LeaveRun, IInv, SlotsExclusive, TypeOK
  <2>3. QED
    BY <1>1, <1>9, <2>2 DEF IInv, SlotsExclusive, TypeOK
<1>10. ASSUME NEW t \in Threads, RunLoad(t) PROVE SlotsExclusive'
  BY <1>1, <1>2, <1>9, <1>10 DEF RunLoad, Goto, IInv, TypeOK
<1>11. ASSUME NEW t \in Threads, RunStamp(t) PROVE SlotsExclusive'
  BY <1>9, <1>11 DEF RunStamp, Goto
<1>12. ASSUME NEW t \in Threads, RunWrite(t) \/ RunRecord(t) \/ Release(t)
       PROVE  SlotsExclusive'
  BY <1>1, <1>2, <1>12 DEF RunWrite, RunRecord, Release, Goto, IInv, TypeOK
<1>13. CASE UNCHANGED vars
  BY <1>2, <1>13 DEF vars
<1>14. QED
  BY <1>1, <1>3, <1>4, <1>5, <1>6, <1>7, <1>8, <1>10, <1>11, <1>12, <1>13
  DEF Next, Horizon, RunStep

LEMMA NextIInv == IInv /\ [Next]_vars => IInv'
BY NextTypeOK, NextWorkInTime, NextLeaseCovers, NextSlotsExclusive DEF IInv

THEOREM InductiveInvariant == Spec => []IInv
BY InitIInv, NextIInv, PTL DEF Spec

-----------------------------------------------------------------------------
\* Exclusion.

LEMMA NoOverlap == IInv => OverlapOnlyAfterSpill
<1>1. SUFFICES ASSUME IInv, NEW s \in Schedules, NEW t \in Runs(s), NEW u \in Runs(s), t # u
               PROVE  Host(t) # Host(u) /\ (t \in spilled \/ u \in spilled)
  BY DEF OverlapOnlyAfterSpill
<1>2. /\ t \in Threads /\ u \in Threads /\ job[t] = s /\ job[u] = s
      /\ pc[t] \in InRun /\ pc[u] \in InRun
  BY DEF Runs
<1>3. Host(t) # Host(u)
  BY <1>1, <1>2 DEF IInv, SlotsExclusive
<1>4. t \in spilled \/ u \in spilled
  BY <1>1, <1>2, <1>3 DEF IInv, LeaseCovers, Relying
<1>5. QED
  BY <1>3, <1>4

\* Whatever the clocks, crashes and database errors, two runs of a schedule
\* overlap only after a thread deleted the lease of another of its instance.
THEOREM RunsExclude == Spec => []OverlapOnlyAfterSpill
BY InductiveInvariant, NoOverlap, PTL

-----------------------------------------------------------------------------
\* Without "run now" requests an instance has one thread, nobody deletes a
\* lease in use, and the scheduler implements JobExclusion.

LEMMA NextNoSpill ==
  ASSUME Requests = {}
  PROVE  spilled = {} /\ [Next]_vars => spilled' = {}
<1>1. ASSUME NEW t \in Threads PROVE Siblings(t) = {}
  BY DEF Siblings, Threads, Host
<1>2. ASSUME NEW t \in Threads, Release(t), spilled = {} PROVE spilled' = {}
  BY <1>1, <1>2 DEF Release
<1>3. QED
  BY <1>2
  DEF Next, vars, history, Tick, Horizon, Ticker, TickElect, TickList, TickNext, TickDone,
      Crash, Restart, HttpRun, RunStep, RunEnter, RunLoad, RunWrite, RunRecord, RunStamp

\* A step that moves no thread into or out of Run is a stutter.
LEMMA ActiveUnchanged ==
  ASSUME \A t \in Threads :
           /\ pc'[t] \in InRun <=> pc[t] \in InRun
           /\ pc[t] \in InRun => job'[t] = job[t]
  PROVE  Active' = Active
<1>1. ASSUME NEW s \in Schedules PROVE Runs(s)' = Runs(s)
  BY <1>1 DEF Runs
<1>2. QED
  BY <1>1 DEF Active

LEMMA OnlyTickers ==
  ASSUME Requests = {}
  PROVE  /\ Threads = Instances
         /\ \A t \in Threads : Host(t) = t
         /\ Active = [s \in Schedules |-> {i \in Instances : job[i] = s /\ pc[i] \in InRun}]
         /\ Active' = [s \in Schedules |-> {i \in Instances : job'[i] = s /\ pc'[i] \in InRun}]
<1>1. Threads = Instances /\ \A t \in Threads : Host(t) = t
  BY DEF Threads, Host
<1>2. ASSUME NEW s \in Schedules
      PROVE  {Host(t) : t \in Runs(s)} = {i \in Instances : job[i] = s /\ pc[i] \in InRun}
  BY <1>1 DEF Runs
<1>3. ASSUME NEW s \in Schedules
      PROVE  {Host(t) : t \in Runs(s)'} = {i \in Instances : job'[i] = s /\ pc'[i] \in InRun}
  BY <1>1 DEF Runs
<1>4. QED
  BY <1>1, <1>2, <1>3 DEF Active

LEMMA ExclusionStep ==
  ASSUME Requests = {}, IInv, spilled = {}, [Next]_vars
  PROVE  [Exclusion!Next]_Active
<1> USE OnlyTickers DEF Leased, Relying, InRun
<1>1. TypeOK
  BY DEF IInv
<1>2. CASE Tick \/ UNCHANGED vars \/ Horizon
  BY <1>2, ActiveUnchanged DEF Tick, vars, Horizon
<1>3. ASSUME NEW i \in Instances, Ticker(i) PROVE Active' = Active
  BY <1>1, <1>3, ActiveUnchanged
  DEF Ticker, TickElect, TickList, TickNext, TickDone, TakeLease, LoseAcquire, TypeOK
<1>4. ASSUME NEW i \in Instances, Restart(i) PROVE Active' = Active
  BY <1>4, ActiveUnchanged DEF Restart
<1>5. ASSUME NEW i \in Instances, Crash(i) PROVE Exclusion!Die(i)
  <2>1. ASSUME NEW s \in Schedules
        PROVE  {u \in Instances : job'[u] = s /\ pc'[u] \in InRun}
                 = {u \in Instances : job[u] = s /\ pc[u] \in InRun} \ {i}
    BY <1>1, <1>5 DEF Crash, TypeOK
  <2>2. QED
    BY <2>1 DEF Exclusion!Die
<1>6. ASSUME NEW i \in Threads, RunEnter(i) PROVE [Exclusion!Begin(i, job[i])]_Active
  <2>1. CASE job[i] \in running[Host(i)]
    BY <1>1, <1>6, <2>1, ActiveUnchanged DEF RunEnter, Goto, TypeOK
  <2>2. CASE job[i] \notin running[Host(i)]
    <3>1. \A u \in Instances : ~(job[u] = job[i] /\ pc[u] \in InRun)
      <4>1. SUFFICES ASSUME NEW u \in Instances, job[u] = job[i], pc[u] \in InRun
                     PROVE  FALSE
        OBVIOUS
      <4>2. u # i
        BY <1>6, <4>1 DEF RunEnter
      <4>3. /\ lease[job[u]].owner = Host(u)
            /\ lease[job[i]].owner = Host(i)
        BY <1>6, <4>1 DEF RunEnter, IInv, LeaseCovers
      <4>4. QED
        BY <4>1, <4>2, <4>3
    <3>2. job' = job /\ pc' = [pc EXCEPT ![i] = "load"] /\ job[i] \in Schedules
      BY <1>1, <1>6, <2>2 DEF RunEnter, Goto, TypeOK
    <3>3. ASSUME NEW s \in Schedules
          PROVE  {u \in Instances : job'[u] = s /\ pc'[u] \in InRun}
                   = IF s = job[i] THEN {i}
                     ELSE {u \in Instances : job[u] = s /\ pc[u] \in InRun}
      BY <1>1, <1>6, <3>1, <3>2 DEF RunEnter, TypeOK
    <3>4. Active[job[i]] = {}
      BY <3>1, <3>2
    <3>5. Active' = [Active EXCEPT ![job[i]] = {i}]
      <4>1. Active' = [s \in Schedules |-> IF s = job[i] THEN {i} ELSE Active[s]]
        BY <3>3
      <4>2. DOMAIN Active = Schedules
        OBVIOUS
      <4>. HIDE OnlyTickers
      <4>3. QED
        BY <3>2, <4>1, <4>2
    <3>6. QED
      BY <3>4, <3>5 DEF Exclusion!Begin
  <2>3. QED
    BY <2>1, <2>2
<1>7. ASSUME NEW i \in Threads, pc[i] \in InRun, pc' = [pc EXCEPT ![i] = "release"], job' = job
      PROVE  Exclusion!End(i, job[i])
  <2>1. job[i] \in Schedules /\ i \in Instances
    BY <1>1, <1>7 DEF TypeOK
  <2>2. ASSUME NEW s \in Schedules
        PROVE  {u \in Instances : job'[u] = s /\ pc'[u] \in InRun}
                 = IF s = job[i]
                   THEN {u \in Instances : job[u] = s /\ pc[u] \in InRun} \ {i}
                   ELSE {u \in Instances : job[u] = s /\ pc[u] \in InRun}
    BY <1>1, <1>7, <2>1 DEF TypeOK
  <2>3. QED
    BY <1>7, <2>1, <2>2 DEF Exclusion!End
<1>8. ASSUME NEW i \in Threads, RunLoad(i) PROVE [Exclusion!End(i, job[i])]_Active
  <2>1. pc[i] \in InRun /\ job' = job
    BY <1>8 DEF RunLoad
  <2>2. CASE pc' = [pc EXCEPT ![i] = "release"]
    BY <1>7, <2>1, <2>2
  <2>3. CASE pc' = [pc EXCEPT ![i] = "write"] \/ pc' = [pc EXCEPT ![i] = "record"]
    BY <1>1, <2>1, <2>3, ActiveUnchanged DEF TypeOK
  <2>4. QED
    BY <1>8, <2>2, <2>3 DEF RunLoad, Goto
<1>9. ASSUME NEW i \in Threads, RunStamp(i) PROVE Exclusion!End(i, job[i])
  BY <1>7, <1>9 DEF RunStamp, Goto
<1>10. ASSUME NEW i \in Threads, RunWrite(i) \/ RunRecord(i) \/ Release(i)
       PROVE  Active' = Active
  BY <1>1, <1>10, ActiveUnchanged DEF RunWrite, RunRecord, Release, Goto, TypeOK
<1>11. \A i \in Threads : RunStep(i) => job[i] \in Schedules
  BY <1>1 DEF RunStep, RunEnter, RunLoad, RunWrite, RunRecord, RunStamp, Release, TypeOK
<1>12. ASSUME NEW i \in Threads, RunStep(i) PROVE [Exclusion!Next]_Active
  <2>1. i \in Instances /\ job[i] \in Schedules
    BY <1>11, <1>12
  <2>2. \/ Exclusion!Begin(i, job[i]) \/ Exclusion!End(i, job[i])
        \/ Active' = Active
    BY <1>6, <1>8, <1>9, <1>10, <1>12 DEF RunStep
  <2>3. QED
    BY <2>1, <2>2 DEF Exclusion!Next
<1>13. QED
  BY <1>2, <1>3, <1>4, <1>5, <1>12 DEF Next, Exclusion!Next

\* Every behaviour of the instances' ticks, with crashes, restarts, takeovers
\* and skewed clocks, is one of the abstract mutual exclusion.
THEOREM TicksImplementExclusion == Requests = {} /\ Spec => ImplementsExclusion
<1> DEFINE TicksOnly == Requests = {} /\ spilled = {}
<1>1. Requests = {} /\ Init => TicksOnly /\ Exclusion!Init
  <2>1. ASSUME Init PROVE \A t \in Threads : pc[t] \notin InRun
    BY <2>1 DEF Init, InRun
  <2>2. QED
    BY <2>1, OnlyTickers DEF Init, Exclusion!Init
<1>2. TicksOnly /\ [Next]_vars => TicksOnly'
  BY NextNoSpill
<1>3. TicksOnly /\ IInv /\ [Next]_vars => [Exclusion!Next]_Active
  BY ExclusionStep
<1>4. Spec => []IInv
  BY InductiveInvariant
<1> HIDE DEF TicksOnly
<1>5. QED
  BY <1>1, <1>2, <1>3, <1>4, PTL DEF Spec, ImplementsExclusion, Exclusion!Spec
-----------------------------------------------------------------------------
\* What is taken is returned.

\* A process that is down has no thread at work and, unless its name was
\* configured, no lease.
Living ==
  /\ \A t \in Threads : Host(t) \notin up => pc[t] = "idle"
  /\ up # Instances => crashes > 0
  /\ StableID \/ \A s \in Schedules : lease[s].owner \notin Instances \ up

\* The runs of s whose row says "running".
Recorded(s) == Writing(s) \cap listed

Accounted(s) ==
  IsFiniteSet(Recorded(s)) /\ openRuns[s] - Cardinality(Recorded(s)) \in 0 .. crashes + faults

\* Only a run in progress has a row to close, and it goes on without one only if
\* a statement failed.
RowsStored ==
  \A t \in Threads :
    /\ t \in listed => pc[t] \in {"write", "record"}
    /\ pc[t] \in {"write", "record"} => t \in listed \/ faults > 0

Returned == Living /\ NoLeakedLease /\ RowsStored /\ \A s \in Schedules : Accounted(s)

LEMMA InitReturned == Init => Returned
<1> SUFFICES ASSUME Init PROVE Returned
  OBVIOUS
<1>1. Living /\ NoLeakedLease /\ RowsStored
  BY InstanceAssumption DEF Init, Living, NoLeakedLease, RowsStored, LR!NoLease
<1>2. ASSUME NEW s \in Schedules PROVE Accounted(s)
  <2>1. Recorded(s) = {}
    BY DEF Init, Recorded
  <2>2. openRuns[s] = 0 /\ crashes = 0 /\ faults = 0
    BY DEF Init
  <2> QED
    BY <2>1, <2>2, FS_EmptySet DEF Accounted
<1> QED
  BY <1>1, <1>2 DEF Returned

\* A row changes hands only to the host of the thread that takes it.
LEMMA NextLiving == TypeOK /\ Living /\ [Next]_vars => Living'
<1> SUFFICES ASSUME TypeOK, Living, [Next]_vars PROVE Living'
  OBVIOUS
<1> USE DEF Leased, Relying, InRun, runVars, tickVars, boundVars, history, dbVars
<1>1. crashes \in Nat /\ crashes' \in Nat
  BY NextTypeOK, TimeAssumption DEF TypeOK
<1>2. ASSUME up' = up, crashes' = crashes,
             \A t \in Threads : Host(t) \notin up => pc'[t] = pc[t],
             \A s \in Schedules : lease'[s].owner \in {lease[s].owner, NoOwner} \cup up
      PROVE  Living'
  <2>1. ASSUME ~StableID, NEW s \in Schedules PROVE lease'[s].owner \notin Instances \ up
    BY <1>2, <2>1, InstanceAssumption DEF Living
  <2> QED
    BY <1>2, <2>1 DEF Living
<1>3. ASSUME NEW t \in Threads, NEW s \in Schedules, Host(t) \in up, up' = up, crashes' = crashes,
             TakeLease(t, s) \/ LoseAcquire(t, s)
      PROVE  Living'
  <2>1. LR!Acquired(Host(t), Local(Host(t)), RunTTL).owner = Host(t)
    BY DEF LR!Acquired
  <2>2. \A z \in Schedules : lease'[z].owner \in {lease[z].owner} \cup up
    BY <1>3, <2>1 DEF TakeLease, LoseAcquire, TypeOK
  <2>3. \A u \in Threads : Host(u) \notin up => pc'[u] = pc[u]
    BY <1>3 DEF TakeLease, LoseAcquire, TypeOK
  <2> QED
    BY <1>2, <1>3, <2>2, <2>3
<1>4. CASE Tick \/ UNCHANGED vars
  BY <1>2, <1>4 DEF Tick, vars
<1>5. ASSUME NEW i \in Instances, TickElect(i) \/ TickList(i) \/ TickDone(i) PROVE Living'
  BY <1>2, <1>5, TickerIsThread DEF TickElect, TickList, TickDone, Living, TypeOK
<1>6. ASSUME NEW i \in Instances, TickNext(i) PROVE Living'
  <2>1. i \in Threads /\ Host(i) = i /\ i \in up /\ up' = up /\ crashes' = crashes
    BY <1>6, TickerIsThread DEF TickNext, Living
  <2>2. PICK s \in todo[i] : TakeLease(i, s) \/ LoseAcquire(i, s) \/ UNCHANGED <<lease, pc>>
    BY <1>6 DEF TickNext
  <2>3. s \in Schedules
    BY DEF TypeOK
  <2> QED
    BY <1>2, <1>3, <2>1, <2>2, <2>3
<1>7. ASSUME NEW r \in Requests, NEW s \in Schedules, HttpRun(r, s) PROVE Living'
  BY <1>3, <1>7, RequestIsThread DEF HttpRun
<1>8. ASSUME NEW i \in Instances, Crash(i) PROVE Living'
  <2>1. \A t \in Threads : Host(t) \notin up' => pc'[t] = "idle"
    BY <1>8 DEF Crash, Living
  <2>2. crashes' > 0
    BY <1>1, <1>8 DEF Crash
  <2>3. ASSUME ~StableID, NEW s \in Schedules PROVE lease'[s].owner \notin Instances \ up'
    BY <1>8, <2>3, InstanceAssumption DEF Crash, Orphaned, Living, TypeOK, LR!Lease, LR!NoLease
  <2> QED
    BY <2>1, <2>2, <2>3 DEF Living
<1>9. ASSUME NEW i \in Instances, Restart(i) PROVE Living'
  BY <1>9 DEF Restart, Living, TypeOK
<1>10. ASSUME NEW t \in Threads, RunEnter(t) \/ RunLoad(t) \/ RunWrite(t) \/ RunRecord(t) \/ RunStamp(t)
       PROVE  Living'
  BY <1>2, <1>10 DEF RunEnter, RunLoad, RunWrite, RunRecord, RunStamp, Goto, Living, TypeOK
<1>11. ASSUME NEW t \in Threads, Release(t) PROVE Living'
  <2>1. \A s \in Schedules : lease'[s].owner \in {lease[s].owner, NoOwner}
    BY <1>11 DEF Release, LR!Released, LR!NoLease, TypeOK
  <2>2. \A u \in Threads : Host(u) \notin up => pc'[u] = pc[u]
    BY <1>11 DEF Release, Goto, Living, TypeOK
  <2> QED
    BY <1>2, <1>11, <2>1, <2>2 DEF Release
<1> QED
  BY <1>4, <1>5, <1>6, <1>7, <1>8, <1>9, <1>10, <1>11 DEF Next, Horizon, Ticker, RunStep

\* A lease that a live instance has is one of a thread of its: threads leave
\* a schedule only by deleting the row or by a failure.
LEMMA NextNoLeakedLease == TypeOK /\ Living /\ NoLeakedLease /\ [Next]_vars => NoLeakedLease'
<1> SUFFICES ASSUME TypeOK, Living, NoLeakedLease, [Next]_vars PROVE NoLeakedLease'
  OBVIOUS
<1> USE DEF Leased, Relying, InRun, runVars, tickVars, boundVars, history, dbVars
<1>1. /\ crashes \in Nat /\ crashes' \in Nat /\ faults \in Nat /\ faults' \in Nat
  BY NextTypeOK, TimeAssumption DEF TypeOK
<1>2. ASSUME up' = up, crashes' = crashes, faults' = faults, lease' = lease,
             \A t \in Threads : pc[t] \in Leased => pc'[t] \in Leased /\ job'[t] = job[t]
      PROVE  NoLeakedLease'
  BY <1>2 DEF NoLeakedLease
<1>3. ASSUME faults' > 0 PROVE NoLeakedLease'
  BY <1>3 DEF NoLeakedLease
<1>4. ASSUME NEW t \in Threads, NEW s \in Schedules, pc[t] \notin Leased, up' = up, crashes' = crashes,
             TakeLease(t, s)
      PROVE  NoLeakedLease'
  <2> SUFFICES ASSUME NEW z \in Schedules, NEW i \in up, lease'[z].owner = i, faults = 0, ~(StableID /\ crashes > 0)
               PROVE  \E u \in Threads : Host(u) = i /\ job'[u] = z /\ pc'[u] \in Leased
    BY <1>1, <1>4 DEF NoLeakedLease, TakeLease
  <2>1. CASE z = s
    <3>1. i = Host(t)
      BY <1>4, <2>1 DEF TakeLease, TypeOK, LR!Acquired
    <3> QED
      BY <1>4, <2>1, <3>1 DEF TakeLease, TypeOK
  <2>2. CASE z # s
    <3>1. lease[z].owner = i
      BY <1>4, <2>2 DEF TakeLease, TypeOK
    <3>2. PICK u \in Threads : Host(u) = i /\ job[u] = z /\ pc[u] \in Leased
      BY <3>1 DEF NoLeakedLease
    <3> QED
      BY <1>4, <3>2 DEF TakeLease, TypeOK
  <2> QED
    BY <2>1, <2>2
<1>5. ASSUME NEW t \in Threads, NEW s \in Schedules, LoseAcquire(t, s) PROVE NoLeakedLease'
  BY <1>1, <1>3, <1>5 DEF LoseAcquire, Fault
<1>6. CASE Tick \/ UNCHANGED vars
  BY <1>2, <1>6 DEF Tick, vars
<1>7. ASSUME NEW i \in Instances, TickElect(i) \/ TickList(i) \/ TickDone(i) PROVE NoLeakedLease'
  BY <1>2, <1>7, TickerIsThread DEF TickElect, TickList, TickDone, TypeOK
<1>8. ASSUME NEW i \in Instances, TickNext(i) PROVE NoLeakedLease'
  <2>1. i \in Threads /\ pc[i] \notin Leased /\ up' = up /\ crashes' = crashes
    BY <1>8, TickerIsThread DEF TickNext
  <2>2. PICK s \in todo[i] : TakeLease(i, s) \/ LoseAcquire(i, s) \/ UNCHANGED <<lease, pc, job, faults>>
    BY <1>8 DEF TickNext
  <2>3. s \in Schedules
    BY DEF TypeOK
  <2> QED
    BY <1>2, <1>4, <1>5, <2>1, <2>2, <2>3
<1>9. ASSUME NEW r \in Requests, NEW s \in Schedules, HttpRun(r, s) PROVE NoLeakedLease'
  BY <1>4, <1>5, <1>9, RequestIsThread DEF HttpRun
<1>10. ASSUME NEW i \in Instances, Crash(i) PROVE NoLeakedLease'
  <2>1. CASE StableID
    BY <1>1, <1>10, <2>1 DEF Crash, NoLeakedLease
  <2>2. CASE ~StableID
    <3> SUFFICES ASSUME NEW s \in Schedules, NEW j \in up', lease'[s].owner = j, faults = 0
                 PROVE  \E u \in Threads : Host(u) = j /\ job'[u] = s /\ pc'[u] \in Leased
      BY <1>1, <1>10, <2>2 DEF NoLeakedLease, Crash
    <3>1. j \in up /\ j # i /\ j # Ghost
      BY <1>10, InstanceAssumption DEF Crash, TypeOK
    <3>2. lease[s].owner = j
      BY <1>10, <2>2, <3>1 DEF Crash, Orphaned, TypeOK, LR!Lease, LR!NoLease
    <3>3. PICK u \in Threads : Host(u) = j /\ job[u] = s /\ pc[u] \in Leased
      BY <2>2, <3>1, <3>2 DEF NoLeakedLease
    <3> QED
      BY <1>10, <3>1, <3>3 DEF Crash
  <2> QED
    BY <2>1, <2>2
<1>11. ASSUME NEW i \in Instances, Restart(i) PROVE NoLeakedLease'
  <2>1. crashes > 0
    BY <1>11 DEF Restart, Living
  <2>2. ~StableID => \A s \in Schedules : lease[s].owner # i
    BY <1>11 DEF Restart, Living
  <2> QED
    BY <1>11, <2>1, <2>2 DEF Restart, NoLeakedLease
<1>12. ASSUME NEW t \in Threads, RunEnter(t) \/ RunWrite(t) PROVE NoLeakedLease'
  BY <1>2, <1>12 DEF RunEnter, RunWrite, Goto, TypeOK
<1>13. ASSUME NEW t \in Threads, RunLoad(t) \/ RunRecord(t) \/ RunStamp(t) PROVE NoLeakedLease'
  <2>1. CASE faults' = faults
    BY <1>2, <1>13, <2>1 DEF RunLoad, RunRecord, RunStamp, Goto, TypeOK
  <2>2. CASE Fault
    BY <1>1, <1>3, <2>2 DEF Fault
  <2> QED
    BY <1>13, <2>1, <2>2 DEF RunLoad, RunRecord, RunStamp
<1>14. ASSUME NEW t \in Threads, Release(t) PROVE NoLeakedLease'
  <2>1. CASE Fault
    BY <1>1, <1>3, <2>1 DEF Fault
  <2>2. CASE faults' = faults /\ lease' = [lease EXCEPT ![job[t]] = LR!Released(@, Host(t))]
    <3> SUFFICES ASSUME NEW s \in Schedules, NEW i \in up, lease'[s].owner = i, faults = 0,
                        ~(StableID /\ crashes > 0)
                 PROVE  \E u \in Threads : Host(u) = i /\ job'[u] = s /\ pc'[u] \in Leased
      BY <1>1, <1>14, <2>2 DEF NoLeakedLease, Release
    <3>1. job[t] \in Schedules /\ i # NoOwner
      BY <1>14, InstanceAssumption DEF Release, TypeOK
    <3>2. lease[s].owner = i /\ (s = job[t] => i # Host(t))
      BY <2>2, <3>1 DEF LR!Released, LR!NoLease, TypeOK
    <3>3. PICK u \in Threads : Host(u) = i /\ job[u] = s /\ pc[u] \in Leased
      BY <3>2 DEF NoLeakedLease
    <3>4. u # t
      BY <3>2, <3>3
    <3> QED
      BY <1>14, <3>3, <3>4 DEF Release, Goto, TypeOK
  <2> QED
    BY <1>14, <2>1, <2>2 DEF Release
<1> QED
  BY <1>6, <1>7, <1>8, <1>9, <1>10, <1>11, <1>12, <1>13, <1>14 DEF Next, Horizon, Ticker, RunStep

LEMMA NextRowsStored == TypeOK /\ RowsStored /\ [Next]_vars => RowsStored'
<1> SUFFICES ASSUME TypeOK, RowsStored, [Next]_vars, NEW u \in Threads
             PROVE  /\ u \in listed' => pc'[u] \in {"write", "record"}
                    /\ pc'[u] \in {"write", "record"} => u \in listed' \/ faults' > 0
  BY DEF RowsStored
<1> DEFINE Stored == /\ u \in listed' => pc'[u] \in {"write", "record"}
                     /\ pc'[u] \in {"write", "record"} => u \in listed' \/ faults' > 0
<1> USE DEF Leased, Relying, InRun, runVars, tickVars, boundVars, history, dbVars, Goto
<1>1. faults \in Nat
  BY TimeAssumption DEF TypeOK
<1>2. CASE Tick \/ UNCHANGED vars
  BY <1>2 DEF Tick, vars, RowsStored
<1>3. ASSUME NEW i \in Instances, TickElect(i) \/ TickList(i) \/ TickDone(i) \/ Restart(i)
      PROVE  Stored
  BY <1>3, TickerIsThread DEF TickElect, TickList, TickDone, Restart, RowsStored, TypeOK
<1>4. ASSUME NEW t \in Threads, NEW z \in Schedules, pc[t] \notin Leased,
             TakeLease(t, z) \/ LoseAcquire(t, z), listed' = listed
      PROVE  Stored
  BY <1>1, <1>4 DEF TakeLease, LoseAcquire, Fault, RowsStored, TypeOK
<1>5. ASSUME NEW i \in Instances, TickNext(i) PROVE Stored
  <2>1. PICK z \in todo[i] : TakeLease(i, z) \/ LoseAcquire(i, z) \/ UNCHANGED <<pc, faults>>
    BY <1>5 DEF TickNext
  <2>2. z \in Schedules /\ i \in Threads /\ pc[i] \notin Leased /\ listed' = listed
    BY <1>5, <2>1, TickerIsThread DEF TickNext, TypeOK
  <2> QED
    BY <1>4, <2>1, <2>2 DEF RowsStored
<1>6. ASSUME NEW t \in Requests, NEW z \in Schedules, HttpRun(t, z) PROVE Stored
  BY <1>4, <1>6, RequestIsThread DEF HttpRun
<1>7. ASSUME NEW i \in Instances, Crash(i) PROVE Stored
  BY <1>7 DEF Crash, RowsStored, TypeOK
<1>8. ASSUME NEW t \in Threads, RunEnter(t) \/ RunWrite(t) \/ RunStamp(t) \/ Release(t)
      PROVE  Stored
  BY <1>1, <1>8 DEF RunEnter, RunWrite, RunStamp, Release, Fault, RowsStored, TypeOK
<1>9. ASSUME NEW t \in Threads, RunLoad(t) PROVE Stored
  BY <1>1, <1>9 DEF RunLoad, Fault, RowsStored, TypeOK
<1>10. ASSUME NEW t \in Threads, RunRecord(t) PROVE Stored
  BY <1>1, <1>10 DEF RunRecord, Fault, RowsStored, TypeOK
<1> QED
  BY <1>2, <1>3, <1>5, <1>6, <1>7, <1>8, <1>9, <1>10 DEF Next, Horizon, Ticker, RunStep

LEMMA ListedSame ==
  ASSUME NEW s,
         \A t \in Threads : pc[t] \in {"write", "record"} /\ job[t] = s /\ t \in listed
                              <=> pc'[t] \in {"write", "record"} /\ job'[t] = s /\ t \in listed'
  PROVE  Recorded(s)' = Recorded(s)
BY DEF Recorded, Writing, Runs, InRun

LEMMA RowClosed ==
  ASSUME NEW open \in Int, NEW left \in Int, NEW card \in Nat, NEW bound \in Nat, NEW limit \in Nat,
         open - card \in 0 .. bound, limit >= bound,
         left = open - 1 \/ (left = open /\ limit = bound + 1)
  PROVE  left - (card - 1) \in 0 .. limit
OBVIOUS

\* A run stores its row before it works, or fails to and goes on, and closes the
\* row afterwards: a row stays open with the failure or the crash that is counted.
LEMMA NextAccounted ==
  ASSUME IInv, RowsStored, \A s \in Schedules : Accounted(s), [Next]_vars, NEW s \in Schedules
  PROVE  Accounted(s)'
<1> USE DEF Leased, Relying, InRun, runVars, tickVars, boundVars, history, dbVars
<1>1. TypeOK /\ TypeOK' /\ Accounted(s)
  BY NextTypeOK DEF IInv
<1>num. /\ crashes \in Nat /\ crashes' \in Nat /\ faults \in Nat /\ faults' \in Nat
        /\ openRuns[s] \in Int /\ openRuns'[s] \in Int
  BY <1>1, TimeAssumption DEF TypeOK
<1>fin. IsFiniteSet(Recorded(s)) /\ Cardinality(Recorded(s)) \in Nat
  BY <1>1, FS_CardinalityType DEF Accounted
<1>2. /\ crashes \in Nat /\ crashes' \in Nat /\ faults \in Nat /\ faults' \in Nat
      /\ openRuns[s] \in Int /\ openRuns'[s] \in Int
      /\ IsFiniteSet(Recorded(s)) /\ Cardinality(Recorded(s)) \in Nat
  BY <1>num, <1>fin
<1>sum. crashes + faults \in Nat /\ crashes' + faults' \in Nat
  BY <1>num
<1>3. ASSUME openRuns' = openRuns, crashes' = crashes, faults' \in {faults, faults + 1},
             \A t \in Threads : pc[t] \in {"write", "record"} /\ job[t] = s /\ t \in listed
                                  <=> pc'[t] \in {"write", "record"} /\ job'[t] = s /\ t \in listed'
      PROVE  Accounted(s)'
  <2>1. Recorded(s)' = Recorded(s)
    BY <1>3, ListedSame
  <2> QED
    BY <1>1, <1>2, <1>3, <2>1 DEF Accounted
<1>4. ASSUME NEW t \in Threads, job[t] = s, t \notin Recorded(s), Recorded(s)' = Recorded(s) \cup {t},
             openRuns'[s] = openRuns[s] + 1, crashes' = crashes, faults' = faults
      PROVE  Accounted(s)'
  <2>1. IsFiniteSet(Recorded(s)') /\ Cardinality(Recorded(s)') = Cardinality(Recorded(s)) + 1
    BY <1>2, <1>4, FS_AddElement
  <2> QED
    BY <1>1, <1>2, <1>4, <2>1 DEF Accounted
<1>5. ASSUME NEW t \in Recorded(s), Recorded(s)' = Recorded(s) \ {t}, crashes' + faults' >= crashes + faults,
             \/ openRuns'[s] = openRuns[s] - 1
             \/ openRuns'[s] = openRuns[s] /\ crashes' + faults' = crashes + faults + 1
      PROVE  Accounted(s)'
  <2>1. IsFiniteSet(Recorded(s)') /\ Cardinality(Recorded(s)') = Cardinality(Recorded(s)) - 1
    BY <1>2, <1>5, FS_RemoveElement
  <2>2. openRuns[s] - Cardinality(Recorded(s)) \in 0 .. crashes + faults
    BY <1>1 DEF Accounted
  <2>3. openRuns'[s] - Cardinality(Recorded(s)') \in 0 .. crashes' + faults'
    BY <1>2, <1>5, <1>sum, <2>1, <2>2, RowClosed
  <2> QED
    BY <2>1, <2>3 DEF Accounted
<1>6. CASE Tick \/ UNCHANGED vars
  BY <1>3, <1>6 DEF Tick, vars
<1>7. ASSUME NEW i \in Instances, TickElect(i) \/ TickList(i) \/ TickDone(i) \/ Restart(i) PROVE Accounted(s)'
  BY <1>1, <1>3, <1>7, TickerIsThread DEF TickElect, TickList, TickDone, Restart, TypeOK
<1>8. ASSUME NEW t \in Threads, NEW z \in Schedules, pc[t] \notin Leased,
             TakeLease(t, z) \/ LoseAcquire(t, z), openRuns' = openRuns, listed' = listed, crashes' = crashes
      PROVE  Accounted(s)'
  BY <1>1, <1>3, <1>8 DEF TakeLease, LoseAcquire, Fault, TypeOK
<1>9. ASSUME NEW i \in Instances, TickNext(i) PROVE Accounted(s)'
  <2>1. i \in Threads /\ pc[i] \notin Leased /\ openRuns' = openRuns /\ listed' = listed /\ crashes' = crashes
    BY <1>9, TickerIsThread DEF TickNext
  <2>2. PICK z \in todo[i] : TakeLease(i, z) \/ LoseAcquire(i, z) \/ UNCHANGED <<pc, job, faults>>
    BY <1>9 DEF TickNext
  <2>3. z \in Schedules
    BY <1>1 DEF TypeOK
  <2> QED
    BY <1>3, <1>8, <2>1, <2>2, <2>3
<1>10. ASSUME NEW r \in Requests, NEW z \in Schedules, HttpRun(r, z) PROVE Accounted(s)'
  BY <1>8, <1>10, RequestIsThread DEF HttpRun
<1>11. ASSUME NEW i \in Instances, Crash(i) PROVE Accounted(s)'
  <2>1. Recorded(s)' = {t \in Recorded(s) : Host(t) # i}
    BY <1>1, <1>11 DEF Crash, Recorded, Writing, Runs, Host, TypeOK
  <2>2. CASE \A t \in Recorded(s) : Host(t) # i
    <3>1. Recorded(s)' = Recorded(s)
      BY <2>1, <2>2
    <3> QED
      BY <1>1, <1>2, <1>11, <3>1 DEF Crash, Accounted
  <2>3. CASE \E t \in Recorded(s) : Host(t) = i
    <3>1. PICK t \in Recorded(s) : Host(t) = i
      BY <2>3
    <3>2. \A u \in Recorded(s) : Host(u) = i => u = t
      BY <3>1 DEF IInv, SlotsExclusive, Recorded, Writing, Runs
    <3>3. Recorded(s)' = Recorded(s) \ {t}
      BY <2>1, <3>1, <3>2
    <3> QED
      BY <1>2, <1>5, <1>11, <3>3 DEF Crash
  <2> QED
    BY <2>2, <2>3
<1>12. ASSUME NEW t \in Threads, RunEnter(t) \/ RunStamp(t) \/ Release(t) PROVE Accounted(s)'
  BY <1>1, <1>3, <1>12 DEF RunEnter, RunStamp, Release, Goto, Fault, TypeOK
<1>13. ASSUME NEW t \in Threads, RunLoad(t) PROVE Accounted(s)'
  <2>1. t \notin listed /\ job' = job /\ crashes' = crashes /\ job[t] \in Schedules /\ pc[t] = "load"
    BY <1>1, <1>13 DEF RunLoad, RowsStored, TypeOK
  <2>2. \A u \in Threads \ {t} : pc'[u] = pc[u] /\ (u \in listed' <=> u \in listed)
    BY <1>1, <1>13 DEF RunLoad, Goto, TypeOK
  <2>3. \/ listed' = listed /\ openRuns' = openRuns /\ faults' \in {faults, faults + 1}
        \/ /\ pc'[t] \in {"write", "record"} /\ listed' = listed \cup {t} /\ faults' = faults
           /\ openRuns' = [openRuns EXCEPT ![job[t]] = @ + 1]
    BY <1>1, <1>13 DEF RunLoad, Goto, Fault, TypeOK
  <2>4. CASE listed' = listed /\ openRuns' = openRuns /\ faults' \in {faults, faults + 1}
    BY <1>3, <2>1, <2>2, <2>4
  <2>5. CASE /\ pc'[t] \in {"write", "record"} /\ listed' = listed \cup {t} /\ faults' = faults
             /\ openRuns' = [openRuns EXCEPT ![job[t]] = @ + 1]
    <3>1. CASE job[t] = s
      <4>1. Recorded(s)' = Recorded(s) \cup {t} /\ t \notin Recorded(s)
        BY <2>1, <2>2, <2>5, <3>1 DEF Recorded, Writing, Runs
      <4> QED
        BY <1>1, <1>4, <2>1, <2>5, <3>1, <4>1 DEF TypeOK
    <3>2. CASE job[t] # s
      <4>1. Recorded(s)' = Recorded(s)
        BY <2>1, <2>2, <2>5, <3>2, ListedSame
      <4> QED
        BY <1>1, <1>2, <2>1, <2>5, <3>2, <4>1 DEF TypeOK, Accounted
    <3> QED
      BY <3>1, <3>2
  <2> QED
    BY <2>3, <2>4, <2>5
<1>14. ASSUME NEW t \in Threads, RunWrite(t) PROVE Accounted(s)'
  BY <1>1, <1>3, <1>14 DEF RunWrite, Goto, TypeOK
<1>15. ASSUME NEW t \in Threads, RunRecord(t) PROVE Accounted(s)'
  <2>1. /\ job[t] \in Schedules /\ pc[t] = "record" /\ pc' = [pc EXCEPT ![t] = "stamp"]
        /\ job' = job /\ crashes' = crashes /\ listed' = listed \ {t}
    BY <1>1, <1>15 DEF RunRecord, Goto, TypeOK
  <2>2. CASE job[t] = s /\ t \in listed
    <3>1. t \in Recorded(s) /\ Recorded(s)' = Recorded(s) \ {t}
      BY <1>1, <2>1, <2>2 DEF Recorded, Writing, Runs, TypeOK
    <3>2. \/ openRuns'[s] = openRuns[s] - 1 /\ faults' = faults
          \/ openRuns'[s] = openRuns[s] /\ faults' = faults + 1
      BY <1>1, <1>15, <2>1, <2>2 DEF RunRecord, Fault, TypeOK
    <3>3. crashes' + faults' >= crashes + faults
      BY <1>num, <2>1, <3>2
    <3>4. faults' = faults + 1 => crashes' + faults' = crashes + faults + 1
      BY <1>num, <2>1
    <3> QED
      BY <1>5, <3>1, <3>2, <3>3, <3>4
  <2>3. CASE job[t] # s \/ t \notin listed
    <3>1. Recorded(s)' = Recorded(s)
      BY <1>1, <2>1, <2>3, ListedSame DEF TypeOK
    <3>2. openRuns'[s] = openRuns[s] /\ faults' \in {faults, faults + 1}
      BY <1>1, <1>15, <2>1, <2>3 DEF RunRecord, Fault, TypeOK
    <3> QED
      BY <1>1, <1>2, <2>1, <3>1, <3>2 DEF Accounted
  <2> QED
    BY <2>2, <2>3
<1> QED
  BY <1>6, <1>7, <1>9, <1>10, <1>11, <1>12, <1>13, <1>14, <1>15 DEF Next, Horizon, Ticker, RunStep

\* What a run takes, the lease of the cluster and its run row, it gives back,
\* unless a statement failed or its process died: for any number of instances,
\* requests and schedules.
THEOREM EverythingIsReturned == Spec => []TakenIsReturned
<1>1. IInv /\ Returned /\ [Next]_vars => Returned'
  BY NextLiving, NextNoLeakedLease, NextRowsStored, NextAccounted DEF Returned, IInv
<1>2. Returned => TakenIsReturned
  BY DEF Returned, TakenIsReturned, RunRowsAccounted, RowsStored, Accounted, Recorded, Writing, Runs
<1> QED
  BY <1>1, <1>2, InitReturned, InductiveInvariant, PTL DEF Spec

-----------------------------------------------------------------------------
\* One minute, one tick.

\* The ticks alone, on instances whose clocks agree, whose leader lease
\* outlasts a minute and the pause before the list is read.
OneClockTicks == Requests = {} /\ MaxSkew = 0 /\ MinuteLen + ListDelay <= LeaderTTL

LEMMA QuotientType ==
  ASSUME NEW n \in Nat \ {0}, NEW a \in Int
  PROVE  a \div n \in Int
BY Z3

LEMMA QuotientMonotone ==
  ASSUME NEW n \in Nat \ {0}, NEW a \in Int, NEW b \in Int, a <= b
  PROVE  a \div n <= b \div n
BY Z3

LEMMA QuotientGrows ==
  ASSUME NEW n \in Nat \ {0}, NEW a \in Int, NEW b \in Int, a + n <= b
  PROVE  a \div n < b \div n
BY Z3

LEMMA Minutes ==
  ASSUME NEW a \in Int, NEW b \in Int
  PROVE  /\ Minute(a) \in Int /\ Minute(b) \in Int
         /\ a <= b => Minute(a) <= Minute(b)
         /\ a + MinuteLen <= b => Minute(a) < Minute(b)
BY QuotientType, QuotientMonotone, QuotientGrows, TimeAssumption DEF Minute

LEMMA OneClock ==
  ASSUME OneClockTicks, TypeOK
  PROVE  /\ Threads = Instances
         /\ clock \in Nat
         /\ \A i \in Instances : Host(i) = i /\ Local(i) = clock
         /\ leader.expires \in Int
         /\ LeaderTTL \in Nat /\ MinuteLen \in Nat /\ MinuteLen > 0 /\ ListDelay \in Nat
         /\ MinuteLen + ListDelay <= LeaderTTL
<1>1. clock \in Nat
  BY TimeAssumption DEF TypeOK
<1>2. ASSUME NEW i \in Instances PROVE Local(i) = clock
  <2>1. Skew[i] = 0
    BY TimeAssumption DEF OneClockTicks
  <2> QED
    BY <1>1, <2>1 DEF Local
<1>3. leader.expires \in Int
  BY DEF TypeOK, LR!Lease, LR!NoLease
<1> QED
  BY <1>1, <1>2, <1>3, TimeAssumption DEF OneClockTicks, Threads, Host

\* The points of a tick that has read the list.
InLoop == Leased \cup {"loop"}

\* A ticker that has won reads the clock while it is the leader.
Elected(i) ==
  pc[i] = "elected" =>
    /\ leader.owner = i /\ leader.expires = since[i] + LeaderTTL
    /\ since[i] <= clock /\ clock <= since[i] + ListDelay

\* Who has lost the leader lease works off a minute that was over before its
\* successor was elected.
Listed(i) ==
  pc[i] \in InLoop =>
    /\ 0 <= slot[i] /\ slot[i] <= clock
    /\ slot[i] + LeaderTTL <= leader.expires + ListDelay
    /\ leader.owner # i => Minute(slot[i]) < Minute(leader.expires - LeaderTTL)

Elections ==
  /\ \A i \in Instances : pc[i] # "idle" => LR!Present(leader)
  /\ LR!Present(leader) => leader.expires - LeaderTTL <= clock
  /\ \A i \in Instances : Elected(i) /\ Listed(i)

MinutesApart ==
  \A i, j \in Instances :
    i # j /\ pc[i] \in InLoop /\ pc[j] \in InLoop => Minute(slot[i]) # Minute(slot[j])

LEMMA InitElections == Init => Elections /\ MinutesApart
BY DEF Init, Elections, Elected, Listed, MinutesApart, LR!Present, Threads, InLoop, Leased, Relying, InRun

LEMMA ElectionsSame ==
  ASSUME TypeOK, TypeOK', Elections, leader' = leader, clock <= clock',
         \A i \in Instances : pc'[i] = "elected" =>
           pc[i] = "elected" /\ since'[i] = since[i] /\ clock' <= since[i] + ListDelay,
         \A i \in Instances : pc'[i] \in InLoop => pc[i] \in InLoop /\ slot'[i] = slot[i]
  PROVE  Elections'
<1>1. /\ clock \in Int /\ clock' \in Int /\ leader.expires \in Int /\ LeaderTTL \in Int /\ ListDelay \in Int
      /\ slot \in [Instances -> Int] /\ since \in [Threads -> Nat]
  BY TimeAssumption DEF TypeOK, LR!Lease, LR!NoLease
<1>2. ASSUME NEW i \in Instances PROVE Elected(i)' /\ Listed(i)'
  <2>1. Elected(i) /\ Listed(i) /\ i \in Threads
    BY TickerIsThread DEF Elections
  <2>2. Elected(i)'
    BY <1>1, <2>1 DEF Elected
  <2>3. Listed(i)'
    BY <1>1, <2>1 DEF Listed
  <2> QED
    BY <2>2, <2>3
<1>3. ASSUME NEW i \in Instances, pc'[i] # "idle" PROVE LR!Present(leader')
  <2>1. pc'[i] = "elected" \/ pc'[i] \in InLoop
    BY <1>3, TickerIsThread DEF TypeOK, PCs, InLoop
  <2> QED
    BY <2>1 DEF Elections, InLoop, Leased, Relying, InRun
<1>4. LR!Present(leader') => leader'.expires - LeaderTTL <= clock'
  BY <1>1 DEF Elections
<1> QED
  BY <1>2, <1>3, <1>4 DEF Elections

\* The expiry of the leader's row moves on with every election, and whoever
\* takes it from another takes it a minute after the other read the list.
LEMMA NextElections ==
  ASSUME OneClockTicks, TypeOK, Elections, [Next]_vars
  PROVE  Elections'
<1> USE DEF Leased, Relying, InRun, InLoop, runVars, tickVars, boundVars, history, dbVars
<1>1. TypeOK'
  BY NextTypeOK
<1>2. /\ Threads = Instances /\ clock \in Nat /\ clock' \in Nat
      /\ \A i \in Instances : Host(i) = i /\ Local(i) = clock
      /\ leader.expires \in Int /\ LeaderTTL \in Nat /\ ListDelay \in Nat
      /\ MinuteLen \in Nat /\ MinuteLen > 0 /\ MinuteLen + ListDelay <= LeaderTTL
      /\ slot \in [Instances -> Int] /\ since \in [Threads -> Nat]
  BY <1>1, OneClock, TimeAssumption DEF TypeOK
<1>3. ASSUME leader' = leader, clock' = clock,
             \A i \in Instances : pc'[i] = "elected" => pc[i] = "elected" /\ since'[i] = since[i],
             \A i \in Instances : pc'[i] \in InLoop => pc[i] \in InLoop /\ slot'[i] = slot[i]
      PROVE  Elections'
  <2>1. \A i \in Instances : pc[i] = "elected" => clock' <= since[i] + ListDelay
    BY <1>3 DEF Elections, Elected
  <2> QED
    BY <1>1, <1>2, <1>3, <2>1, ElectionsSame
<1>4. CASE UNCHANGED vars
  BY <1>3, <1>4 DEF vars
<1>5. CASE Tick
  BY <1>1, <1>2, <1>5, ElectionsSame DEF Tick
<1>6. ASSUME NEW i \in Instances, TickElect(i) PROVE Elections'
  <2>1. /\ leader'.owner = i /\ leader'.expires = clock + LeaderTTL /\ LR!Present(leader')
        /\ pc' = [pc EXCEPT ![i] = "elected"] /\ since' = [since EXCEPT ![i] = clock]
        /\ slot' = slot /\ clock' = clock
        /\ LR!MayAcquire(leader, i, clock)
    BY <1>2, <1>6, InstanceAssumption DEF TickElect, LR!Acquired, LR!Present, LR!NoLease
  <2>2. Elected(i)' /\ Listed(i)'
    BY <1>2, <2>1 DEF Elected, Listed, TypeOK
  <2>3. ASSUME NEW j \in Instances, j # i, pc[j] # "idle"
        PROVE  leader.expires < clock \/ leader.owner = i
    BY <2>1, <2>3 DEF Elections, LR!MayAcquire, LR!Claimable
  <2>4. ASSUME NEW j \in Instances, j # i PROVE Elected(j)'
    <3> SUFFICES ASSUME pc[j] = "elected" PROVE FALSE
      BY <1>2, <2>1, <2>4 DEF Elected, TypeOK
    <3>1. leader.owner = j /\ leader.expires = since[j] + LeaderTTL /\ clock <= since[j] + ListDelay
      BY DEF Elections, Elected
    <3> QED
      BY <1>2, <2>3, <2>4, <3>1
  <2>5. ASSUME NEW j \in Instances, j # i PROVE Listed(j)'
    <3> SUFFICES ASSUME pc[j] \in InLoop
                 PROVE  /\ 0 <= slot[j] /\ slot[j] <= clock
                        /\ slot[j] + LeaderTTL <= clock + LeaderTTL + ListDelay
                        /\ Minute(slot[j]) < Minute(clock + LeaderTTL - LeaderTTL)
      BY <1>2, <2>1, <2>5 DEF Listed, TypeOK
    <3>1. /\ 0 <= slot[j] /\ slot[j] <= clock
          /\ slot[j] + LeaderTTL <= leader.expires + ListDelay
          /\ leader.owner # j => Minute(slot[j]) < Minute(leader.expires - LeaderTTL)
      BY DEF Elections, Listed
    <3>2. clock + LeaderTTL - LeaderTTL = clock
      BY <1>2
    <3>3. Minute(slot[j]) < Minute(clock)
      <4>1. CASE leader.expires < clock
        <5>1. slot[j] + MinuteLen <= clock
          BY <1>2, <3>1, <4>1
        <5> QED
          BY <1>2, <5>1, Minutes
      <4>2. CASE leader.owner = i
        <5>1. leader.expires - LeaderTTL \in Int /\ leader.expires - LeaderTTL <= clock
          BY <1>2 DEF Elections
        <5>2. Minute(leader.expires - LeaderTTL) <= Minute(clock)
          BY <1>2, <5>1, Minutes
        <5>3. Minute(slot[j]) \in Int /\ Minute(leader.expires - LeaderTTL) \in Int /\ Minute(clock) \in Int
          BY <1>2, <5>1, Minutes
        <5>4. Minute(slot[j]) < Minute(leader.expires - LeaderTTL)
          BY <2>5, <3>1, <4>2
        <5> QED
          BY <5>2, <5>3, <5>4
      <4> QED
        BY <2>3, <2>5, <4>1, <4>2
    <3> QED
      BY <1>2, <3>1, <3>2, <3>3
  <2>6. leader'.expires - LeaderTTL <= clock'
    BY <1>2, <2>1
  <2> QED
    BY <2>1, <2>2, <2>4, <2>5, <2>6 DEF Elections
<1>7. ASSUME NEW i \in Instances, TickList(i) PROVE Elections'
  <2>1. CASE pc' = [pc EXCEPT ![i] = "idle"] /\ UNCHANGED tickVars
    BY <1>2, <1>3, <1>7, <2>1 DEF TickList, TypeOK
  <2>2. CASE pc' = [pc EXCEPT ![i] = "loop"] /\ slot' = [slot EXCEPT ![i] = Local(i)]
    <3>1. leader' = leader /\ clock' = clock /\ since' = [since EXCEPT ![i] = 0] /\ pc[i] = "elected"
      BY <1>7 DEF TickList
    <3>2. leader.owner = i /\ leader.expires = since[i] + LeaderTTL /\ since[i] <= clock /\ clock <= since[i] + ListDelay
      BY <3>1 DEF Elections, Elected
    <3>3. Elected(i)' /\ Listed(i)'
      BY <1>2, <2>2, <3>1, <3>2 DEF Elected, Listed, TypeOK
    <3>4. ASSUME NEW j \in Instances, j # i PROVE Elected(j)' /\ Listed(j)'
      BY <1>2, <2>2, <3>1, <3>4 DEF Elections, Elected, Listed, TypeOK
    <3>5. LR!Present(leader')
      BY <3>1 DEF Elections
    <3>6. leader'.expires - LeaderTTL <= clock'
      BY <3>1, <3>5 DEF Elections
    <3> QED
      BY <3>3, <3>4, <3>5, <3>6 DEF Elections
  <2> QED
    BY <1>7, <2>1, <2>2 DEF TickList
<1>8. ASSUME NEW i \in Instances, TickNext(i) PROVE Elections'
  <2>1. pc[i] = "loop" /\ leader' = leader /\ slot' = slot /\ clock' = clock
    BY <1>8 DEF TickNext
  <2>2. PICK s \in todo[i] : TakeLease(i, s) \/ LoseAcquire(i, s) \/ UNCHANGED <<lease, pc, job, since, faults>>
    BY <1>8 DEF TickNext
  <2>3. CASE TakeLease(i, s)
    BY <1>2, <1>3, <2>1, <2>3 DEF TakeLease, TypeOK
  <2> QED
    BY <1>3, <2>1, <2>2, <2>3 DEF LoseAcquire
<1>9. ASSUME NEW i \in Instances, TickDone(i) \/ Restart(i) PROVE Elections'
  BY <1>2, <1>3, <1>9 DEF TickDone, Restart, TypeOK
<1>10. ASSUME NEW i \in Instances, Crash(i) PROVE Elections'
  <2>1. /\ clock' = clock /\ pc'[i] = "idle"
        /\ \A j \in Instances \ {i} : pc'[j] = pc[j] /\ since'[j] = since[j] /\ slot'[j] = slot[j]
    BY <1>2, <1>10 DEF Crash, TypeOK
  <2>2. /\ leader'.expires = leader.expires
        /\ LR!Present(leader') <=> LR!Present(leader)
        /\ \A j \in Instances \ {i} : leader'.owner = j <=> leader.owner = j
    BY <1>10, InstanceAssumption DEF Crash, Orphaned, TypeOK, LR!Lease, LR!NoLease, LR!Present
  <2>3. ASSUME NEW j \in Instances PROVE Elected(j)' /\ Listed(j)'
    BY <2>1, <2>2 DEF Elections, Elected, Listed
  <2> QED
    BY <2>1, <2>2, <2>3 DEF Elections
<1>11. ASSUME NEW t \in Threads, RunEnter(t) \/ RunLoad(t) \/ RunWrite(t) \/ RunRecord(t) \/ RunStamp(t)
       PROVE  Elections'
  BY <1>2, <1>3, <1>11 DEF RunEnter, RunLoad, RunWrite, RunRecord, RunStamp, Goto, TypeOK
<1>12. ASSUME NEW t \in Threads, Release(t) PROVE Elections'
  BY <1>2, <1>3, <1>12 DEF Release, Goto, TypeOK
<1> QED
  BY <1>4, <1>5, <1>6, <1>7, <1>8, <1>9, <1>10, <1>11, <1>12 DEF Next, Horizon, Ticker, RunStep, OneClockTicks

LEMMA NextMinutesApart ==
  ASSUME OneClockTicks, TypeOK, Elections, MinutesApart, [Next]_vars
  PROVE  MinutesApart'
<1> USE DEF Leased, Relying, InRun, InLoop, runVars, tickVars, boundVars, history, dbVars
<1>1. /\ Threads = Instances /\ clock \in Nat /\ \A i \in Instances : Host(i) = i /\ Local(i) = clock
      /\ slot \in [Instances -> Int] /\ pc \in [Instances -> PCs] /\ LeaderTTL \in Nat
      /\ since \in [Instances -> Nat]
  BY OneClock DEF TypeOK
<1>2. ASSUME \A i \in Instances : pc'[i] \in InLoop => pc[i] \in InLoop /\ slot'[i] = slot[i]
      PROVE  MinutesApart'
  BY <1>2 DEF MinutesApart
<1>3. CASE Tick \/ UNCHANGED vars
  BY <1>2, <1>3 DEF Tick, vars
<1>4. ASSUME NEW i \in Instances, TickElect(i) \/ TickDone(i) \/ Restart(i) PROVE MinutesApart'
  BY <1>1, <1>2, <1>4 DEF TickElect, TickDone, Restart
<1>8. ASSUME NEW i \in Instances, Crash(i) PROVE MinutesApart'
  <2>1. pc'[i] = "idle" /\ \A j \in Instances \ {i} : pc'[j] = pc[j] /\ slot'[j] = slot[j]
    BY <1>1, <1>8 DEF Crash
  <2> QED
    BY <1>2, <2>1
<1>5. ASSUME NEW i \in Instances, TickList(i) PROVE MinutesApart'
  <2>1. CASE pc' = [pc EXCEPT ![i] = "idle"] /\ UNCHANGED tickVars
    BY <1>1, <1>2, <2>1
  <2>2. CASE pc' = [pc EXCEPT ![i] = "loop"] /\ slot' = [slot EXCEPT ![i] = Local(i)]
    <3>1. leader.owner = i /\ leader.expires = since[i] + LeaderTTL /\ since[i] <= clock
      BY <1>5 DEF TickList, Elections, Elected
    <3>2. ASSUME NEW j \in Instances, j # i, pc[j] \in InLoop PROVE Minute(slot[j]) # Minute(clock)
      <4>1. leader.expires - LeaderTTL = since[i]
        BY <1>1, <3>1
      <4>2. Minute(slot[j]) < Minute(since[i])
        BY <3>1, <3>2, <4>1 DEF Elections, Listed
      <4>3. /\ Minute(since[i]) <= Minute(clock)
            /\ Minute(slot[j]) \in Int /\ Minute(since[i]) \in Int /\ Minute(clock) \in Int
        BY <1>1, <3>1, Minutes
      <4> QED
        BY <4>2, <4>3
    <3> QED
      BY <1>1, <2>2, <3>2 DEF MinutesApart
  <2> QED
    BY <1>5, <2>1, <2>2 DEF TickList
<1>6. ASSUME NEW i \in Instances, TickNext(i) PROVE MinutesApart'
  BY <1>1, <1>2, <1>6 DEF TickNext, TakeLease, LoseAcquire
<1>7. ASSUME NEW t \in Threads, RunStep(t) PROVE MinutesApart'
  BY <1>1, <1>2, <1>7 DEF RunStep, RunEnter, RunLoad, RunWrite, RunRecord, RunStamp, Release, Goto
<1> QED
  BY <1>3, <1>4, <1>5, <1>6, <1>7, <1>8 DEF Next, Horizon, Ticker, OneClockTicks

\* A run stores a finish time that no run of its schedule has passed.
Stamps ==
  /\ \A s \in Schedules : lastRun[s] <= clock
  /\ \A i \in Instances : pc[i] \in {"record", "stamp"} =>
       slot[i] <= stampAt[i] /\ stampAt[i] <= clock /\ lastRun[job[i]] <= stampAt[i]

\* A tick tries a schedule once.
TriedOnce ==
  \A i \in Instances :
    /\ pc[i] \in Leased => job[i] \notin todo[i]
    /\ pc[i] \notin InLoop => todo[i] = {}

StillToDo(i) == todo[i] \cup {s \in Schedules : pc[i] \in Relying /\ job[i] = s}

\* What has been fired in a minute is stamped with that minute or a later one,
\* and no tick has it still to do in that minute.
Settled(f) ==
  /\ 0 <= lastRun[f[1]] /\ f[2] <= Minute(lastRun[f[1]])
  /\ \A i \in Instances : f[1] \in StillToDo(i) => Minute(slot[i]) # f[2]

FiredOnce == faults = 0 => refired = {} /\ \A f \in fired : Settled(f)

LEMMA OneRunEach ==
  ASSUME IInv, spilled = {}, NEW t \in Threads, NEW u \in Threads, t # u, pc[t] \in InRun, pc[u] \in InRun
  PROVE  job[t] # job[u]
<1>1. job[t] \in Schedules
  BY DEF IInv, TypeOK, Leased, Relying
<1> QED
  BY <1>1, NoOverlap DEF OverlapOnlyAfterSpill, Runs

LEMMA InitFired == OneClockTicks /\ Init => Stamps /\ TriedOnce /\ FiredOnce
BY DEF Init, Stamps, TriedOnce, FiredOnce, OneClockTicks, Threads, Never, Leased, Relying, InRun, InLoop

LEMMA NextStamps ==
  ASSUME OneClockTicks, IInv, spilled = {}, Elections, Stamps, [Next]_vars
  PROVE  Stamps'
<1> USE DEF Leased, Relying, InRun, InLoop, runVars, tickVars, boundVars, history, dbVars
<1>1. /\ Threads = Instances /\ clock \in Nat /\ clock' \in Nat
      /\ \A i \in Instances : Host(i) = i /\ Local(i) = clock
      /\ slot \in [Instances -> Int] /\ pc \in [Instances -> PCs] /\ stampAt \in [Instances -> Int]
      /\ job \in [Instances -> Schedules \cup {NoJob}] /\ lastRun \in [Schedules -> Int]
      /\ \A i \in Instances : pc[i] \in Leased => job[i] \in Schedules
  BY OneClock, NextTypeOK, TimeAssumption DEF IInv, TypeOK
<1>2. ASSUME clock <= clock', lastRun' = lastRun,
             \A i \in Instances : pc'[i] \in {"record", "stamp"} =>
               /\ pc[i] \in {"record", "stamp"}
               /\ slot'[i] = slot[i] /\ stampAt'[i] = stampAt[i] /\ job'[i] = job[i]
      PROVE  Stamps'
  BY <1>1, <1>2 DEF Stamps
<1>3. CASE Tick \/ UNCHANGED vars
  BY <1>1, <1>2, <1>3 DEF Tick, vars
<1>4. ASSUME NEW i \in Instances, TickElect(i) \/ TickList(i) \/ TickDone(i) \/ Restart(i) PROVE Stamps'
  BY <1>1, <1>2, <1>4 DEF TickElect, TickList, TickDone, Restart
<1>5. ASSUME NEW i \in Instances, TickNext(i) PROVE Stamps'
  BY <1>1, <1>2, <1>5 DEF TickNext, TakeLease, LoseAcquire
<1>6. ASSUME NEW i \in Instances, Crash(i) PROVE Stamps'
  <2>1. /\ pc'[i] = "idle" /\ clock' = clock /\ lastRun' = lastRun
        /\ \A j \in Instances \ {i} :
             pc'[j] = pc[j] /\ slot'[j] = slot[j] /\ stampAt'[j] = stampAt[j] /\ job'[j] = job[j]
    BY <1>1, <1>6 DEF Crash
  <2> QED
    BY <1>1, <1>2, <2>1
<1>7. ASSUME NEW i \in Instances, RunEnter(i) \/ RunRecord(i) \/ Release(i) PROVE Stamps'
  BY <1>1, <1>2, <1>7 DEF RunEnter, RunRecord, Release, Goto
<1>8. ASSUME NEW i \in Instances, pc[i] \in InRun, clock' = clock, lastRun' = lastRun, slot' = slot, job' = job,
             pc' = [pc EXCEPT ![i] = "record"], stampAt' = [stampAt EXCEPT ![i] = clock]
      PROVE  Stamps'
  <2>1. slot[i] <= clock /\ lastRun[job[i]] <= clock
    BY <1>1, <1>8 DEF Elections, Listed, Stamps
  <2>2. \A j \in Instances \ {i} : pc'[j] = pc[j] /\ stampAt'[j] = stampAt[j]
    BY <1>1, <1>8
  <2>3. stampAt'[i] = clock
    BY <1>1, <1>8
  <2>4. ASSUME NEW j \in Instances, pc'[j] \in {"record", "stamp"}
        PROVE  slot'[j] <= stampAt'[j] /\ stampAt'[j] <= clock' /\ lastRun'[job'[j]] <= stampAt'[j]
    <3>1. CASE j = i
      BY <1>1, <1>8, <2>1, <2>3, <3>1
    <3>2. CASE j # i
      BY <1>8, <2>2, <2>4, <3>2 DEF Stamps
    <3> QED
      BY <3>1, <3>2
  <2>5. \A s \in Schedules : lastRun'[s] <= clock'
    BY <1>8 DEF Stamps
  <2> QED
    BY <2>4, <2>5 DEF Stamps
<1>9. ASSUME NEW i \in Instances, RunLoad(i) PROVE Stamps'
  <2>1. CASE stampAt' = stampAt /\ pc' \in {[pc EXCEPT ![i] = "release"], [pc EXCEPT ![i] = "write"]}
    BY <1>1, <1>2, <1>9, <2>1 DEF RunLoad, Goto
  <2>2. CASE pc' = [pc EXCEPT ![i] = "record"] /\ stampAt' = [stampAt EXCEPT ![i] = clock]
    BY <1>8, <1>9, <2>2 DEF RunLoad
  <2> QED
    BY <1>1, <1>9, <2>1, <2>2 DEF RunLoad, Goto
<1>10. ASSUME NEW i \in Instances, RunWrite(i) PROVE Stamps'
  BY <1>1, <1>8, <1>10 DEF RunWrite, Goto
<1>11. ASSUME NEW i \in Instances, RunStamp(i) PROVE Stamps'
  <2>1. CASE lastRun' = lastRun
    BY <1>1, <1>2, <1>11, <2>1 DEF RunStamp, Goto
  <2>2. CASE lastRun' = [lastRun EXCEPT ![job[i]] = stampAt[i]]
    <3>1. /\ pc[i] = "stamp" /\ pc' = [pc EXCEPT ![i] = "release"] /\ job' = job /\ slot' = slot /\ clock' = clock
          /\ stampAt' = [stampAt EXCEPT ![i] = 0]
      BY <1>11 DEF RunStamp, Goto
    <3>2. \A s \in Schedules : lastRun'[s] <= clock'
      BY <1>1, <2>2, <3>1 DEF Stamps
    <3>3. ASSUME NEW j \in Instances, pc'[j] \in {"record", "stamp"}
          PROVE  slot'[j] <= stampAt'[j] /\ stampAt'[j] <= clock' /\ lastRun'[job'[j]] <= stampAt'[j]
      <4>1. j # i /\ pc[j] \in {"record", "stamp"}
        BY <1>1, <3>1, <3>3
      <4>2. job[j] # job[i]
        BY <1>1, <3>1, <4>1, OneRunEach
      <4>3. job[j] \in Schedules
        BY <1>1, <4>1
      <4> QED
        BY <1>1, <2>2, <3>1, <4>1, <4>2, <4>3 DEF Stamps
    <3> QED
      BY <3>2, <3>3 DEF Stamps
  <2> QED
    BY <1>11, <2>1, <2>2 DEF RunStamp
<1> QED
  BY <1>1, <1>3, <1>4, <1>5, <1>6, <1>7, <1>9, <1>10, <1>11 DEF Next, Horizon, Ticker, RunStep, OneClockTicks

LEMMA NextTriedOnce ==
  ASSUME OneClockTicks, TypeOK, TriedOnce, [Next]_vars
  PROVE  TriedOnce'
<1> USE DEF Leased, Relying, InRun, InLoop, runVars, tickVars, boundVars, history, dbVars
<1>1. /\ Threads = Instances /\ \A i \in Instances : Host(i) = i
      /\ pc \in [Instances -> PCs] /\ job \in [Instances -> Schedules \cup {NoJob}]
      /\ todo \in [Instances -> SUBSET Schedules]
  BY OneClock DEF TypeOK
<1>2. ASSUME NEW i \in Instances,
             pc'[i] \in Leased => pc[i] \in Leased /\ job'[i] = job[i],
             pc'[i] \notin InLoop => pc[i] \notin InLoop \/ todo'[i] = {},
             todo'[i] \in {todo[i], {}}
      PROVE  /\ pc'[i] \in Leased => job'[i] \notin todo'[i]
             /\ pc'[i] \notin InLoop => todo'[i] = {}
  BY <1>2 DEF TriedOnce
<1>3. CASE Tick \/ UNCHANGED vars
  BY <1>3 DEF Tick, vars, TriedOnce
<1>4. ASSUME NEW i \in Instances, TickElect(i) \/ TickList(i) \/ TickDone(i) \/ Restart(i) PROVE TriedOnce'
  BY <1>1, <1>4 DEF TickElect, TickList, TickDone, Restart, TriedOnce
<1>5. ASSUME NEW i \in Instances, TickNext(i) PROVE TriedOnce'
  <2>1. PICK s \in todo[i] :
          /\ todo' = [todo EXCEPT ![i] = @ \ {s}]
          /\ TakeLease(i, s) \/ LoseAcquire(i, s) \/ UNCHANGED <<lease, pc, job, since, faults>>
    BY <1>5 DEF TickNext
  <2>2. \/ pc' = pc /\ job' = job
        \/ pc' = [pc EXCEPT ![i] = "enter"] /\ job' = [job EXCEPT ![i] = s]
    BY <2>1 DEF TakeLease, LoseAcquire
  <2> QED
    BY <1>1, <1>5, <2>1, <2>2 DEF TickNext, TriedOnce
<1>6. ASSUME NEW i \in Instances, Crash(i) PROVE TriedOnce'
  BY <1>1, <1>6 DEF Crash, TriedOnce
<1>7. ASSUME NEW i \in Instances, RunStep(i) PROVE TriedOnce'
  BY <1>1, <1>7 DEF RunStep, RunEnter, RunLoad, RunWrite, RunRecord, RunStamp, Release, Goto, TriedOnce
<1> QED
  BY <1>1, <1>3, <1>4, <1>5, <1>6, <1>7 DEF Next, Horizon, Ticker, OneClockTicks

\* A tick that finds a schedule due reads the clock in a later minute than the
\* last stamp; a tick that fires it stamps the minute it fired it in.
LEMMA NextFiredOnce ==
  ASSUME OneClockTicks, IInv, spilled = {}, Elections, MinutesApart, Stamps, TriedOnce, FiredOnce, [Next]_vars
  PROVE  FiredOnce'
<1> USE DEF Leased, Relying, InRun, InLoop, runVars, tickVars, boundVars, history, dbVars
<1>1. /\ Threads = Instances /\ clock \in Nat
      /\ \A i \in Instances : Host(i) = i /\ Local(i) = clock
      /\ slot \in [Instances -> Int] /\ pc \in [Instances -> PCs] /\ stampAt \in [Instances -> Int]
      /\ job \in [Instances -> Schedules \cup {NoJob}] /\ lastRun \in [Schedules -> Int]
      /\ todo \in [Instances -> SUBSET Schedules]
      /\ \A i \in Instances : pc[i] \in Leased => job[i] \in Schedules
      /\ fired \subseteq Schedules \X Int
  BY OneClock DEF IInv, TypeOK
<1>2. faults \in Nat /\ faults' \in Nat
  BY NextTypeOK, TimeAssumption DEF IInv, TypeOK
<1>3. faults' = faults \/ faults' = faults + 1
  BY DEF Next, vars, Tick, Horizon, Ticker, TickElect, TickList, TickNext, TickDone, Crash, Restart, HttpRun,
         RunStep, RunEnter, RunLoad, RunWrite, RunRecord, RunStamp, Release, TakeLease, LoseAcquire, Fault
<1>4. SUFFICES ASSUME faults' = 0 PROVE refired' = {} /\ \A f \in fired' : Settled(f)'
  BY DEF FiredOnce
<1>5. /\ faults = 0 /\ faults' = faults /\ refired = {}
      /\ \A f \in fired : Settled(f) /\ f[1] \in Schedules /\ f[2] \in Int
  BY <1>1, <1>2, <1>3, <1>4 DEF FiredOnce
<1>6. ASSUME fired' = fired, refired' = refired, lastRun' = lastRun,
             \A i \in Instances :
               StillToDo(i)' \subseteq StillToDo(i) /\ (slot'[i] = slot[i] \/ StillToDo(i)' = {})
      PROVE  refired' = {} /\ \A f \in fired' : Settled(f)'
  BY <1>5, <1>6 DEF Settled
<1>7. CASE Tick \/ UNCHANGED vars
  BY <1>6, <1>7 DEF Tick, vars, StillToDo
<1>8. ASSUME NEW i \in Instances, TickElect(i) \/ TickDone(i) \/ Restart(i)
      PROVE  refired' = {} /\ \A f \in fired' : Settled(f)'
  BY <1>1, <1>6, <1>8 DEF TickElect, TickDone, Restart, StillToDo
<1>9. ASSUME NEW i \in Instances, TickList(i) PROVE refired' = {} /\ \A f \in fired' : Settled(f)'
  <2>1. CASE pc' = [pc EXCEPT ![i] = "idle"] /\ UNCHANGED tickVars
    BY <1>1, <1>6, <1>9, <2>1 DEF TickList, StillToDo
  <2>2. CASE /\ pc' = [pc EXCEPT ![i] = "loop"]
             /\ slot' = [slot EXCEPT ![i] = clock]
             /\ todo' = [todo EXCEPT ![i] = {s \in Schedules : Due(s, clock)}]
    <3>1. /\ fired' = fired /\ refired' = refired /\ lastRun' = lastRun /\ job' = job
          /\ StillToDo(i)' = {s \in Schedules : Due(s, clock)}
          /\ \A j \in Instances \ {i} : StillToDo(j)' = StillToDo(j) /\ slot'[j] = slot[j]
      BY <1>1, <1>9, <2>2 DEF TickList, StillToDo
    <3>2. ASSUME NEW f \in fired, Due(f[1], clock) PROVE Minute(clock) # f[2]
      <4>1. 0 <= lastRun[f[1]] /\ f[2] <= Minute(lastRun[f[1]]) /\ lastRun[f[1]] <= clock /\ lastRun[f[1]] \in Int
        BY <1>1, <1>5 DEF Settled, Stamps
      <4>2. Minute(lastRun[f[1]]) # Minute(clock)
        BY <3>2, <4>1 DEF Due, Never
      <4>3. /\ Minute(lastRun[f[1]]) <= Minute(clock)
            /\ Minute(lastRun[f[1]]) \in Int /\ Minute(clock) \in Int
        BY <1>1, <4>1, Minutes
      <4> QED
        BY <1>5, <4>1, <4>2, <4>3
    <3>3. ASSUME NEW f \in fired PROVE Settled(f)'
      BY <1>1, <1>5, <2>2, <3>1, <3>2 DEF Settled
    <3> QED
      BY <1>5, <3>1, <3>3
  <2> QED
    BY <1>1, <1>9, <2>1, <2>2 DEF TickList
<1>10. ASSUME NEW i \in Instances, TickNext(i) PROVE refired' = {} /\ \A f \in fired' : Settled(f)'
  <2>1. PICK s \in todo[i] :
          /\ todo' = [todo EXCEPT ![i] = @ \ {s}]
          /\ TakeLease(i, s) \/ LoseAcquire(i, s) \/ UNCHANGED <<lease, pc, job, since, faults>>
    BY <1>10 DEF TickNext
  <2>2. \/ pc' = pc /\ job' = job
        \/ pc' = [pc EXCEPT ![i] = "enter"] /\ job' = [job EXCEPT ![i] = s]
    BY <2>1 DEF TakeLease, LoseAcquire
  <2>3. \A j \in Instances : StillToDo(j)' \subseteq StillToDo(j)
    BY <1>1, <2>1, <2>2 DEF StillToDo
  <2> QED
    BY <1>6, <1>10, <2>3 DEF TickNext
<1>11. ASSUME NEW i \in Instances, Crash(i) PROVE refired' = {} /\ \A f \in fired' : Settled(f)'
  <2>1. StillToDo(i)' = {} /\ \A j \in Instances \ {i} : StillToDo(j)' = StillToDo(j) /\ slot'[j] = slot[j]
    BY <1>1, <1>11 DEF Crash, StillToDo
  <2> QED
    BY <1>6, <1>11, <2>1 DEF Crash
<1>12. ASSUME NEW i \in Instances, RunEnter(i) \/ RunLoad(i) \/ RunWrite(i) \/ RunRecord(i) \/ Release(i)
       PROVE  refired' = {} /\ \A f \in fired' : Settled(f)'
  <2>1. \A j \in Instances : StillToDo(j)' \subseteq StillToDo(j)
    BY <1>1, <1>12 DEF RunEnter, RunLoad, RunWrite, RunRecord, Release, Goto, StillToDo
  <2> QED
    BY <1>6, <1>12, <2>1 DEF RunEnter, RunLoad, RunWrite, RunRecord, Release
<1>13. ASSUME NEW i \in Instances, RunStamp(i) PROVE refired' = {} /\ \A f \in fired' : Settled(f)'
  <2> DEFINE shot == <<job[i], Minute(slot[i])>>
  <2>1. /\ pc[i] = "stamp" /\ job[i] \in Schedules /\ pc' = [pc EXCEPT ![i] = "release"]
        /\ job' = job /\ slot' = slot /\ todo' = todo
        /\ fired' = fired \cup {shot} /\ refired' = refired \cup ({shot} \cap fired)
    BY <1>1, <1>13 DEF RunStamp, Goto
  <2>2. lastRun' = [lastRun EXCEPT ![job[i]] = stampAt[i]]
    BY <1>2, <1>5, <1>13 DEF RunStamp, Fault
  <2>3. job[i] \in StillToDo(i)
    BY <2>1 DEF StillToDo
  <2>4. shot \notin fired
    BY <1>5, <2>3 DEF Settled
  <2>5. /\ 0 <= slot[i] /\ slot[i] <= stampAt[i] /\ lastRun[job[i]] <= stampAt[i]
        /\ stampAt[i] \in Int /\ slot[i] \in Int /\ lastRun[job[i]] \in Int
    BY <1>1, <2>1 DEF Elections, Listed, Stamps
  <2>6. /\ Minute(slot[i]) <= Minute(stampAt[i]) /\ Minute(lastRun[job[i]]) <= Minute(stampAt[i])
        /\ Minute(slot[i]) \in Int /\ Minute(stampAt[i]) \in Int /\ Minute(lastRun[job[i]]) \in Int
    BY <2>5, Minutes
  <2>7. \A j \in Instances : StillToDo(j)' \subseteq StillToDo(j)
    BY <1>1, <2>1 DEF StillToDo
  <2>8. ASSUME NEW f \in fired PROVE Settled(f)'
    <3>1. 0 <= lastRun[f[1]] /\ f[2] <= Minute(lastRun[f[1]]) /\ f[1] \in Schedules /\ f[2] \in Int
      BY <1>5 DEF Settled
    <3>2. 0 <= lastRun'[f[1]] /\ f[2] <= Minute(lastRun'[f[1]])
      <4>1. CASE f[1] = job[i]
        <5>1. lastRun'[f[1]] = stampAt[i]
          BY <1>1, <2>1, <2>2, <4>1
        <5>2. f[2] <= Minute(stampAt[i])
          BY <2>6, <3>1, <4>1
        <5> QED
          BY <2>5, <5>1, <5>2
      <4>2. CASE f[1] # job[i]
        BY <1>1, <2>2, <3>1, <4>2
      <4> QED
        BY <4>1, <4>2
    <3> QED
      BY <1>5, <2>1, <2>7, <3>2 DEF Settled
  <2>9. Settled(shot)'
    <3>1. lastRun'[job[i]] = stampAt[i]
      BY <1>1, <2>1, <2>2
    <3>2. ASSUME NEW j \in Instances, job[i] \in StillToDo(j)' PROVE Minute(slot'[j]) # Minute(slot[i])
      <4>1. j # i
        BY <1>1, <2>1, <3>2 DEF StillToDo, TriedOnce
      <4>2. pc[j] \in InLoop
        BY <1>1, <2>1, <3>2, <4>1 DEF StillToDo, TriedOnce
      <4> QED
        BY <2>1, <4>1, <4>2 DEF MinutesApart
    <3>3. shot[1] = job[i] /\ shot[2] = Minute(slot[i])
      OBVIOUS
    <3>4. shot' = shot
      BY <2>1 DEF Minute
    <3> QED
      BY <2>5, <2>6, <3>1, <3>2, <3>3, <3>4 DEF Settled
  <2> QED
    BY <1>5, <2>1, <2>4, <2>8, <2>9
<1> QED
  BY <1>1, <1>7, <1>8, <1>9, <1>10, <1>11, <1>12, <1>13 DEF Next, Horizon, Ticker, RunStep, OneClockTicks

\* With the ticks alone, on clocks that agree and with a leader lease that
\* outlasts a minute and the pause before the list is read, no minute of a
\* cron is executed twice while no statement has failed, whatever crashes.
THEOREM OneMinuteOneTick == OneClockTicks /\ Spec => [](faults = 0 => NoDoubleFire)
<1> DEFINE Inv == OneClockTicks /\ spilled = {} /\ Elections /\ MinutesApart /\ Stamps /\ TriedOnce /\ FiredOnce
<1>1. OneClockTicks /\ Init => Inv
  BY InitElections, InitFired DEF Init
<1>2. IInv /\ Inv /\ [Next]_vars => Inv'
  BY NextNoSpill, NextElections, NextMinutesApart, NextStamps, NextTriedOnce, NextFiredOnce DEF OneClockTicks, IInv
<1>3. Inv => (faults = 0 => NoDoubleFire)
  BY DEF FiredOnce, NoDoubleFire
<1>4. Spec => []IInv
  BY InductiveInvariant
<1> HIDE DEF Inv
<1> QED
  BY <1>1, <1>2, <1>3, <1>4, PTL DEF Spec

=============================================================================
