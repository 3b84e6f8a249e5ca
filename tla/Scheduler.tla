------------------------------ MODULE Scheduler ------------------------------
(***************************************************************************)
(* Topbase instances that share one application database and run the       *)
(* warehouse schedules: the 30 second scheduler tick of every instance     *)
(* (tickWarehouse), the "run now" requests of administrators (runSchedule),*)
(* the leases both take, and warehouse.Service.Run.                        *)
(*                                                                         *)
(* A thread is either the ticker of an instance, named by the instance, or *)
(* an HTTP request.  Every database statement of a thread is one step, so  *)
(* an instance may crash, and another may act, between any two of them.    *)
(* What a run writes into its target table is the subject of module        *)
(* Materialization; here it succeeds or fails.                             *)
(***************************************************************************)
EXTENDS Integers, FiniteSets

CONSTANTS
  Instances,     \* the nodes, each with one ticker
  Requests,      \* HTTP "run now" requests that may be in flight together
  RequestHost,   \* RequestHost[r]: the instance that serves request r
  Schedules,
  Ghost,         \* the instance ID of a process that has died
  NoOwner,       \* no instance: the owner of an absent lease
  NoJob,         \* the job of an idle thread
  StableID,      \* TRUE: TOPBASE_INSTANCE_ID survives a restart
  Skew,          \* Skew[i]: how far the clock of i is ahead
  MaxSkew,
  LeaderTTL,     \* 75 seconds
  RunTTL,        \* 6 hours
  MaxRun,        \* longest time from taking a schedule's lease to the end
  ListDelay,     \* longest time from winning the tick to reading the clock
  MinuteLen,     \* clock units of one minute
  CronMinutes,   \* CronMinutes[s]: the minutes the cron of s matches
  MaxClock, MaxCrashes, MaxFaults   \* bounds of the model

Never == -1      \* LastRunAt of a schedule that has not run

ASSUME InstanceAssumption ==
  /\ Instances \cap Requests = {}
  /\ RequestHost \in [Requests -> Instances]
  /\ Ghost \notin Instances
  /\ NoOwner \notin Instances \cup {Ghost}
  /\ NoJob \notin Schedules
  /\ StableID \in BOOLEAN

ASSUME TimeAssumption ==
  /\ MaxSkew \in Nat
  /\ Skew \in [Instances -> 0 .. MaxSkew]
  /\ LeaderTTL \in Nat /\ RunTTL \in Nat /\ MaxRun \in Nat /\ ListDelay \in Nat
  /\ MinuteLen \in Nat \ {0}
  /\ CronMinutes \in [Schedules -> SUBSET Nat]
  /\ MaxClock \in Nat /\ MaxCrashes \in Nat /\ MaxFaults \in Nat

\* A run ends before its lease can expire on the fastest clock: the context of
\* Materialize ends after 5 minutes, the lease after 6 hours.
ASSUME RunFitsLease == MaxRun + MaxSkew <= RunTTL

VARIABLES
  clock,       \* real time
  up,          \* the instances whose process is running
  leader,      \* lease "warehouse:scheduler"
  lease,       \* lease[s]: lease "warehouse:schedule:" + s
  lastRun,     \* lastRun[s]: column last_run_at of the schedule
  openRuns,    \* openRuns[s]: rows of schedule_runs whose status is running
  listed,      \* the threads whose run has its row in schedule_runs
  running,     \* running[i]: the sync.Map of the warehouse service of i
  pc, job,
  since,       \* when the thread took the lease it works under
  todo,        \* todo[i]: the due schedules the tick of i has still to try
  slot,        \* slot[i]: `now' of the tick of i
  stampAt,     \* the finish time a run is about to store
  crashes, faults,
  \* history
  spilled,     \* threads whose lease another thread of their host deleted
  fired,       \* <<s, m>>: a tick of minute m ran s to the end
  refired      \* <<s, m>>: a second tick of minute m did so again

LR == INSTANCE LeaseRows WITH Owners <- Instances \cup {Ghost}

dbVars == <<leader, lease, lastRun, openRuns, listed>>
runVars == <<running, stampAt, lastRun, openRuns, listed>>
tickVars == <<todo, slot>>
boundVars == <<crashes, faults>>
history == <<spilled, fired, refired>>
vars == <<clock, up, leader, lease, lastRun, openRuns, listed, running, pc, job,
          since, todo, slot, stampAt, crashes, faults, spilled, fired, refired>>

Threads == Instances \cup Requests

Host(t) == IF t \in Instances THEN t ELSE RequestHost[t]

\* Program points.  A thread holds the lease of its job from "enter" to
\* "release", and the slot of the running map from "load" to "stamp".
InRun == {"load", "write", "record", "stamp"}
Relying == InRun \cup {"enter"}
Leased == Relying \cup {"release"}
PCs == Leased \cup {"idle", "elected", "loop"}

Local(i) == clock + Skew[i]

Minute(t) == t \div MinuteLen

\* Variant: the cron fields alone.
DueByFields(s, now) == Minute(now) \in CronMinutes[s]

\* cron.go: not twice in one minute, and the fields match.
Due(s, now) ==
  /\ lastRun[s] = Never \/ Minute(lastRun[s]) # Minute(now)
  /\ Minute(now) \in CronMinutes[s]

Init ==
  /\ clock = 0
  /\ up = Instances
  /\ leader = LR!NoLease
  /\ lease = [s \in Schedules |-> LR!NoLease]
  /\ lastRun = [s \in Schedules |-> Never]
  /\ openRuns = [s \in Schedules |-> 0] /\ listed = {}
  /\ running = [i \in Instances |-> {}]
  /\ pc = [t \in Threads |-> "idle"]
  /\ job = [t \in Threads |-> NoJob]
  /\ since = [t \in Threads |-> 0]
  /\ todo = [i \in Instances |-> {}]
  /\ slot = [i \in Instances |-> 0]
  /\ stampAt = [t \in Threads |-> 0]
  /\ crashes = 0 /\ faults = 0
  /\ spilled = {} /\ fired = {} /\ refired = {}

-----------------------------------------------------------------------------
\* Leases as the threads take them.

\* AcquireLease returns true: thread t now works on s under the lease.
TakeLease(t, s) ==
  /\ LR!MayAcquire(lease[s], Host(t), Local(Host(t)))
  /\ lease' = [lease EXCEPT ![s] = LR!Acquired(Host(t), Local(Host(t)), RunTTL)]
  /\ pc' = [pc EXCEPT ![t] = "enter"]
  /\ job' = [job EXCEPT ![t] = s]
  /\ since' = [since EXCEPT ![t] = clock]
  /\ UNCHANGED faults

\* A database statement fails, and its error is dropped or logged.
Fault == faults < MaxFaults /\ faults' = faults + 1

\* AcquireLease returns an error although its statement was applied: the
\* caller gives up and nobody releases the row.
LoseAcquire(t, s) ==
  /\ Fault
  /\ LR!MayAcquire(lease[s], Host(t), Local(Host(t)))
  /\ lease' = [lease EXCEPT ![s] = LR!Acquired(Host(t), Local(Host(t)), RunTTL)]
  /\ UNCHANGED <<pc, job, since>>

\* The other threads of t's host that rely on the lease of t's job.
Siblings(t) ==
  {u \in Threads \ {t} : Host(u) = Host(t) /\ job[u] = job[t] /\ pc[u] \in Relying}

-----------------------------------------------------------------------------
\* tickWarehouse.

TickElect(i) ==
  /\ i \in up /\ pc[i] = "idle"
  /\ LR!MayAcquire(leader, i, Local(i))
  /\ leader' = LR!Acquired(i, Local(i), LeaderTTL)
  /\ pc' = [pc EXCEPT ![i] = "elected"]
  /\ since' = [since EXCEPT ![i] = clock]
  /\ UNCHANGED <<clock, up, lease, runVars, job, tickVars, boundVars, history>>

\* The list of schedules is read once, and so is `now'.
TickList(i) ==
  /\ pc[i] = "elected"
  /\ since' = [since EXCEPT ![i] = 0]
  /\ \/ /\ pc' = [pc EXCEPT ![i] = "loop"]
        /\ slot' = [slot EXCEPT ![i] = Local(i)]
        /\ todo' = [todo EXCEPT ![i] = {s \in Schedules : Due(s, Local(i))}]
     \/ \* the list cannot be read
        /\ pc' = [pc EXCEPT ![i] = "idle"]
        /\ UNCHANGED tickVars
  /\ UNCHANGED <<clock, up, leader, lease, runVars, job, boundVars, history>>

\* Variant: a schedule held by another instance is tried until it is free.
TickNextRetries(i) ==
  /\ pc[i] = "loop"
  /\ \E s \in todo[i] :
       \/ TakeLease(i, s) /\ todo' = [todo EXCEPT ![i] = @ \ {s}]
       \/ LoseAcquire(i, s) /\ todo' = [todo EXCEPT ![i] = @ \ {s}]
       \/ /\ ~LR!MayAcquire(lease[s], i, Local(i))
          /\ UNCHANGED <<lease, pc, job, since, faults, todo>>
  /\ UNCHANGED <<clock, up, leader, runVars, slot, crashes, history>>

\* One due schedule: leased and run, held by another instance, or in error.
TickNext(i) ==
  /\ pc[i] = "loop"
  /\ \E s \in todo[i] :
       /\ todo' = [todo EXCEPT ![i] = @ \ {s}]
       /\ \/ TakeLease(i, s)
          \/ LoseAcquire(i, s)
          \/ /\ ~LR!MayAcquire(lease[s], i, Local(i))
             /\ UNCHANGED <<lease, pc, job, since, faults>>
  /\ UNCHANGED <<clock, up, leader, runVars, slot, crashes, history>>

TickDone(i) ==
  /\ pc[i] = "loop" /\ todo[i] = {}
  /\ pc' = [pc EXCEPT ![i] = "idle"]
  /\ slot' = [slot EXCEPT ![i] = 0]
  /\ UNCHANGED <<clock, up, leader, lease, runVars, job, since, todo, boundVars, history>>

\* runSchedule, as request r.  A refused lease is answered 409 and changes
\* nothing.
HttpRun(r, s) ==
  /\ RequestHost[r] \in up /\ pc[r] = "idle"
  /\ TakeLease(r, s) \/ LoseAcquire(r, s)
  /\ UNCHANGED <<clock, up, leader, runVars, tickVars, crashes, history>>

-----------------------------------------------------------------------------
\* warehouse.Service.Run, on behalf of thread t.

Goto(t, point) == pc' = [pc EXCEPT ![t] = point]

LeaveRun(t) == running' = [running EXCEPT ![Host(t)] = @ \ {job[t]}]

\* Variant: Store in place of LoadOrStore.
RunEnterAnyway(t) ==
  /\ pc[t] = "enter"
  /\ Goto(t, "load")
  /\ running' = [running EXCEPT ![Host(t)] = @ \cup {job[t]}]
  /\ UNCHANGED <<clock, up, dbVars, job, since, tickVars, stampAt, boundVars, history>>

\* LoadOrStore: entered, or "schedule is already running".
RunEnter(t) ==
  /\ pc[t] = "enter"
  /\ IF job[t] \in running[Host(t)]
     THEN Goto(t, "release") /\ UNCHANGED running
     ELSE /\ Goto(t, "load")
          /\ running' = [running EXCEPT ![Host(t)] = @ \cup {job[t]}]
  /\ UNCHANGED <<clock, up, dbVars, job, since, tickVars, stampAt, boundVars, history>>

\* Read the schedule and its source, compile, and store the run row.  The error
\* of storing the row is dropped: the run goes on without one.
RunLoad(t) ==
  /\ pc[t] = "load"
  /\ \/ \* the source is missing or not allowed: no run row, no LastRunAt
        /\ Goto(t, "release") /\ LeaveRun(t)
        /\ UNCHANGED <<openRuns, listed, stampAt, faults>>
     \/ /\ \/ /\ openRuns' = [openRuns EXCEPT ![job[t]] = @ + 1]
              /\ listed' = listed \cup {t}
              /\ UNCHANGED faults
           \/ Fault /\ UNCHANGED <<openRuns, listed>>
        /\ \/ Goto(t, "write") /\ UNCHANGED stampAt
           \/ \* the query does not compile
              /\ Goto(t, "record")
              /\ stampAt' = [stampAt EXCEPT ![t] = Local(Host(t))]
        /\ UNCHANGED running
  /\ UNCHANGED <<clock, up, leader, lease, lastRun, job, since, tickVars, crashes, history>>

\* Materialize returns, with a result or an error; `now' is read at once.
RunWrite(t) ==
  /\ pc[t] = "write"
  /\ Goto(t, "record")
  /\ stampAt' = [stampAt EXCEPT ![t] = Local(Host(t))]
  /\ UNCHANGED <<clock, up, dbVars, running, job, since, tickVars, boundVars, history>>

\* Runs.Update with the final status: no row is changed if none was stored.
RunRecord(t) ==
  /\ pc[t] = "record"
  /\ Goto(t, "stamp")
  /\ \/ t \in listed /\ openRuns' = [openRuns EXCEPT ![job[t]] = @ - 1] /\ UNCHANGED faults
     \/ t \notin listed /\ UNCHANGED <<openRuns, faults>>
     \/ Fault /\ UNCHANGED openRuns
  /\ listed' = listed \ {t}
  /\ UNCHANGED <<clock, up, leader, lease, lastRun, running, job, since, tickVars, stampAt,
                 crashes, history>>

\* Schedules.Update with LastRunAt; the deferred Delete of the running map.
RunStamp(t) ==
  /\ pc[t] = "stamp"
  /\ Goto(t, "release") /\ LeaveRun(t)
  /\ \/ lastRun' = [lastRun EXCEPT ![job[t]] = stampAt[t]] /\ UNCHANGED faults
     \/ Fault /\ UNCHANGED lastRun
  /\ stampAt' = [stampAt EXCEPT ![t] = 0]
  /\ LET shot == IF t \in Instances THEN {<<job[t], Minute(slot[t])>>} ELSE {} IN
     /\ fired' = fired \cup shot
     /\ refired' = refired \cup (shot \cap fired)
  /\ UNCHANGED <<clock, up, leader, lease, openRuns, listed, job, since, tickVars, crashes,
                 spilled>>

\* ReleaseLease, whoever of this instance needs the row; a failed DELETE is
\* logged.  A ticker goes on with its list, a request ends.
Release(t) ==
  /\ pc[t] = "release"
  /\ Goto(t, IF t \in Instances THEN "loop" ELSE "idle")
  /\ job' = [job EXCEPT ![t] = NoJob]
  /\ since' = [since EXCEPT ![t] = 0]
  /\ \/ /\ lease' = [lease EXCEPT ![job[t]] = LR!Released(@, Host(t))]
        /\ spilled' = (spilled \ {t}) \cup Siblings(t)
        /\ UNCHANGED faults
     \/ /\ Fault
        /\ spilled' = spilled \ {t}
        /\ UNCHANGED lease
  /\ UNCHANGED <<clock, up, leader, runVars, tickVars, crashes, fired, refired>>

-----------------------------------------------------------------------------
\* Time and failures.

\* Time passes, but not past the end of a run nor of a reading of the list.
Tick ==
  /\ clock < MaxClock
  /\ \A t \in Threads : pc[t] \in Leased => clock < since[t] + MaxRun
  /\ \A i \in Instances : pc[i] = "elected" => clock < since[i] + ListDelay
  /\ clock' = clock + 1
  /\ UNCHANGED <<up, dbVars, running, pc, job, since, tickVars, stampAt, boundVars, history>>

Orphaned(row, i) == IF row.owner = i THEN [row EXCEPT !.owner = Ghost] ELSE row

\* The process of i dies.  Its leases stay: unless the instance ID is
\* configured, no later process will have their owner's name.
Crash(i) ==
  /\ i \in up /\ crashes < MaxCrashes
  /\ crashes' = crashes + 1
  /\ up' = up \ {i}
  /\ pc' = [t \in Threads |-> IF Host(t) = i THEN "idle" ELSE pc[t]]
  /\ job' = [t \in Threads |-> IF Host(t) = i THEN NoJob ELSE job[t]]
  /\ since' = [t \in Threads |-> IF Host(t) = i THEN 0 ELSE since[t]]
  /\ stampAt' = [t \in Threads |-> IF Host(t) = i THEN 0 ELSE stampAt[t]]
  /\ slot' = [slot EXCEPT ![i] = 0]
  /\ running' = [running EXCEPT ![i] = {}]
  /\ todo' = [todo EXCEPT ![i] = {}]
  /\ spilled' = {t \in spilled : Host(t) # i}
  /\ listed' = {t \in listed : Host(t) # i}
  /\ IF StableID THEN UNCHANGED <<leader, lease>>
     ELSE /\ leader' = Orphaned(leader, i)
          /\ lease' = [s \in Schedules |-> Orphaned(lease[s], i)]
  /\ UNCHANGED <<clock, lastRun, openRuns, faults, fired, refired>>

Restart(i) ==
  /\ i \notin up
  /\ up' = up \cup {i}
  /\ UNCHANGED <<clock, dbVars, running, pc, job, since, tickVars, stampAt, boundVars, history>>

\* The bounded clock has run out and every thread is at rest.
Horizon ==
  /\ clock = MaxClock /\ \A t \in Threads : pc[t] = "idle"
  /\ UNCHANGED vars

Ticker(i) == TickElect(i) \/ TickList(i) \/ TickNext(i) \/ TickDone(i)

RunStep(t) ==
  RunEnter(t) \/ RunLoad(t) \/ RunWrite(t) \/ RunRecord(t) \/ RunStamp(t) \/ Release(t)

Next ==
  \/ Tick \/ Horizon
  \/ \E i \in Instances : Ticker(i) \/ Crash(i) \/ Restart(i)
  \/ \E r \in Requests, s \in Schedules : HttpRun(r, s)
  \/ \E t \in Threads : RunStep(t)

Spec == Init /\ [][Next]_vars

\* The goroutines of a live process keep running: a ticker works its list
\* off, and Materialize ends because its context does.  Nobody has to send
\* requests, and no tick has to win the leader lease.
Fairness ==
  /\ \A t \in Threads : WF_vars(RunStep(t))
  /\ \A i \in Instances : WF_vars(TickList(i)) /\ WF_vars(TickNext(i)) /\ WF_vars(TickDone(i))

FairSpec == Spec /\ Fairness

-----------------------------------------------------------------------------
\* Every variable holds values of its kind, and exactly the threads that work
\* on a schedule name it as their job.
TypeOK ==
  /\ clock \in 0 .. MaxClock
  /\ up \subseteq Instances
  /\ leader \in LR!Lease
  /\ lease \in [Schedules -> LR!Lease]
  /\ lastRun \in [Schedules -> Int]
  /\ openRuns \in [Schedules -> Int] /\ listed \subseteq Threads
  /\ running \in [Instances -> SUBSET Schedules]
  /\ pc \in [Threads -> PCs]
  /\ job \in [Threads -> Schedules \cup {NoJob}]
  /\ \A t \in Threads : job[t] # NoJob <=> pc[t] \in Leased
  /\ since \in [Threads -> Nat]
  /\ todo \in [Instances -> SUBSET Schedules]
  /\ slot \in [Instances -> Int]
  /\ stampAt \in [Threads -> Int]
  /\ crashes \in 0 .. MaxCrashes /\ faults \in 0 .. MaxFaults
  /\ spilled \subseteq Threads
  /\ fired \subseteq Schedules \X Int /\ refired \subseteq Schedules \X Int

Runs(s) == {t \in Threads : job[t] = s /\ pc[t] \in InRun}

\* The work under a lease is bounded in time.
WorkInTime ==
  \A t \in Threads : pc[t] \in Leased => since[t] <= clock /\ clock <= since[t] + MaxRun

\* Unless a sibling deleted it, the lease a thread relies on is in the name of
\* its host and long enough.
LeaseCovers ==
  \A t \in Threads :
    pc[t] \in Relying /\ t \notin spilled =>
      /\ lease[job[t]].owner = Host(t)
      /\ lease[job[t]].expires >= since[t] + RunTTL

\* The running map of an instance holds the schedules its threads run, each
\* for one thread.
SlotsExclusive ==
  \A t \in Threads : pc[t] \in InRun =>
    /\ job[t] \in running[Host(t)]
    /\ \A u \in Threads \ {t} :
         pc[u] \in InRun /\ Host(u) = Host(t) => job[u] # job[t]

\* The inductive invariant of the scheduler: TypeOK, and why no two instances
\* can believe that they may run a schedule.
IInv == TypeOK /\ WorkInTime /\ LeaseCovers /\ SlotsExclusive

\* Two threads are inside Run for the same schedule only on two instances, and
\* then one of them lost its lease to another thread of its own instance:
\* neither a crash, a takeover, a database error nor a clock ahead of the
\* others lets two runs of a schedule overlap.
OverlapOnlyAfterSpill ==
  \A s \in Schedules : \A t, u \in Runs(s) :
    t # u => Host(t) # Host(u) /\ (t \in spilled \/ u \in spilled)

\* A lease in the name of a live process either serves one of its threads or
\* was left behind by a database error or, under a configured instance ID, by
\* the process's predecessor: otherwise it would block the schedule for hours.
NoLeakedLease ==
  \A s \in Schedules, i \in up :
    lease[s].owner = i =>
      \/ \E t \in Threads : Host(t) = i /\ job[t] = s /\ pc[t] \in Leased
      \/ faults > 0
      \/ StableID /\ crashes > 0

\* The runs that are between the storing and the closing of their row.
Writing(s) == {t \in Runs(s) : pc[t] \in {"write", "record"}}

\* schedule_runs: the rows that say "running" are those of the runs in
\* progress and at most one for each crash and each failed statement; a run in
\* progress without a row is one whose row could not be stored.
RunRowsAccounted ==
  \A s \in Schedules :
    /\ openRuns[s] - Cardinality(Writing(s) \cap listed) \in 0 .. crashes + faults
    /\ Writing(s) \subseteq listed \/ faults > 0

\* What a run takes, the lease of the cluster and its run row, it gives back,
\* unless a statement failed or its process died.
TakenIsReturned == NoLeakedLease /\ RunRowsAccounted

\* No minute of a schedule's cron is executed by two ticks, be they of two
\* instances or of one, before and after a crash.
NoDoubleFire == refired = {}

\* The instances that run a schedule, as module JobExclusion sees them.
Active == [s \in Schedules |-> {Host(t) : t \in Runs(s)}]

Exclusion == INSTANCE JobExclusion WITH active <- Active

\* With the ticks alone, the leases implement mutual exclusion of the runs of
\* every schedule across instances, crashes and takeovers.
ImplementsExclusion == Exclusion!Spec

\* Every tick comes back: no schedule, slow or failing, holds the ticker.
TickReturns == \A i \in Instances : pc[i] = "loop" ~> pc[i] = "idle"
=============================================================================
