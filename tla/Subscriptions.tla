---------------------------- MODULE Subscriptions ----------------------------
(***************************************************************************)
(* Dashboard subscriptions (internal/app/notify/subscribe.go): the part of *)
(* every instance's tick that follows the schedules, the "send now"        *)
(* request, and the administrator's switch and delete.  Unlike schedules,  *)
(* subscriptions have no lease of their own: what keeps two instances      *)
(* apart is the leader lease of the tick, won before the schedules run.    *)
(*                                                                         *)
(* RunSubscription and SetSubscriptionEnabled read a row, and later store  *)
(* the whole row as they read it, with one column changed.                 *)
(***************************************************************************)
EXTENDS Integers, FiniteSets

CONSTANTS
  Instances,     \* the nodes, each with one ticker
  Requests,      \* requests in flight together, on any node
  Subs,
  Ghost,         \* the instance ID of a process that has died
  NoOwner,       \* no instance: the owner of an absent lease
  NoSub,         \* the job of an idle thread
  StableID,      \* TRUE: TOPBASE_INSTANCE_ID survives a restart
  LeaderTTL,     \* 75 seconds
  MinuteLen,     \* clock units of one minute
  CronMinutes,   \* CronMinutes[s]: the minutes the cron of s matches
  MaxClock, MaxCrashes   \* bounds of the model

Never == -1

Row == [state : {"none", "on", "off", "gone"}, last : Int]

NoRow == [state |-> "none", last |-> Never]

ASSUME SubscriptionAssumption ==
  /\ Instances \cap Requests = {}
  /\ Ghost \notin Instances
  /\ NoOwner \notin Instances \cup {Ghost}
  /\ NoSub \notin Subs
  /\ StableID \in BOOLEAN
  /\ LeaderTTL \in Nat /\ MinuteLen \in Nat \ {0}
  /\ CronMinutes \in [Subs -> SUBSET Nat]
  /\ MaxClock \in Nat /\ MaxCrashes \in Nat

VARIABLES
  clock, up,
  leader,      \* lease "warehouse:scheduler"
  row,         \* row[s]: its line of table subscriptions
  pc, job,
  copy,        \* copy[t]: the row of job[t], as t read it
  todo,        \* todo[i]: the due subscriptions the tick of i has still to run
  slot,        \* slot[i]: `now' of the tick of i, read before the schedules ran
  crashes,
  \* history
  wanted,      \* wanted[s]: the last state the creator or an administrator gave s
  stored,      \* rows stored over a row that had changed since it was read
  lagged,      \* some tick outlived its leader lease, read a `now' whose minute
               \* outlasts the lease, or listed in a later minute than that
  noted,       \* <<s, m>>: a tick of minute m recorded a notification of s
  renoted,     \* <<s, m>>: and a second one
  unstamped    \* <<s, m>>: and could not store LastRunAt, or died before that
               \* and comes back under the ID that has the leader lease

LR == INSTANCE LeaseRows WITH Owners <- Instances \cup {Ghost}

tickVars == <<leader, todo, slot>>
history == <<wanted, stored, lagged, noted, renoted, unstamped>>
vars == <<clock, up, leader, row, pc, job, copy, todo, slot, crashes,
          wanted, stored, lagged, noted, renoted, unstamped>>

Threads == Instances \cup Requests

Exists(s) == row[s].state \in {"on", "off"}

Minute(t) == t \div MinuteLen

\* Enabled, not run in this minute, and the cron fields match.
Due(s, now) ==
  /\ row[s].last = Never \/ Minute(row[s].last) # Minute(now)
  /\ Minute(now) \in CronMinutes[s]

Init ==
  /\ clock = 0 /\ up = Instances
  /\ leader = LR!NoLease
  /\ row = [s \in Subs |-> NoRow]
  /\ pc = [t \in Threads |-> "idle"]
  /\ job = [t \in Threads |-> NoSub]
  /\ copy = [t \in Threads |-> NoRow]
  /\ todo = [i \in Instances |-> {}]
  /\ slot = [i \in Instances |-> 0]
  /\ crashes = 0
  /\ wanted = [s \in Subs |-> "none"]
  /\ stored = {} /\ lagged = FALSE /\ noted = {} /\ renoted = {} /\ unstamped = {}

Goto(t, point) == pc' = [pc EXCEPT ![t] = point]

\* Variant: a run enables what it sent.
StoreEnabled(s, new) ==
  row' = IF Exists(s) THEN [row EXCEPT ![s] = [new EXCEPT !.state = "on"]] ELSE row

\* UPDATE subscriptions SET every column WHERE id=?
Store(s, new) == row' = IF Exists(s) THEN [row EXCEPT ![s] = new] ELSE row

\* The thread stores its copy of the row of its job with a change.
StoreCopy(t, new) ==
  /\ Store(job[t], new)
  /\ stored' = IF Exists(job[t]) /\ row[job[t]] # copy[t] THEN stored \cup {job[t]} ELSE stored

Forget(t) ==
  /\ job' = [job EXCEPT ![t] = NoSub]
  /\ copy' = [copy EXCEPT ![t] = NoRow]

-----------------------------------------------------------------------------
\* The tick.

TickElect(i) ==
  /\ i \in up /\ pc[i] = "idle"
  /\ LR!MayAcquire(leader, i, clock)
  /\ leader' = LR!Acquired(i, clock, LeaderTTL)
  /\ Goto(i, "elected")
  /\ UNCHANGED <<clock, up, row, job, copy, todo, slot, crashes, history>>

\* The schedules are listed, and `now' is read.
TickStart(i) ==
  /\ pc[i] = "elected"
  /\ Goto(i, "schedules")
  /\ slot' = [slot EXCEPT ![i] = clock]
  /\ lagged' = (lagged \/ clock + MinuteLen > leader.expires + 1)
  /\ UNCHANGED <<clock, up, leader, row, job, copy, todo, crashes, wanted, stored, noted, renoted,
                 unstamped>>

\* One of the two lists cannot be read.
TickEnds(i) ==
  /\ pc[i] \in {"elected", "schedules"}
  /\ Goto(i, "idle")
  /\ slot' = [slot EXCEPT ![i] = 0]
  /\ UNCHANGED <<clock, up, leader, row, job, copy, todo, crashes, history>>

\* The schedules have run, however long that took; RunDueSubscriptions lists.
TickList(i) ==
  /\ pc[i] = "schedules"
  /\ Goto(i, "loop")
  /\ todo' = [todo EXCEPT ![i] = {s \in Subs : row[s].state = "on" /\ Due(s, slot[i])}]
  /\ lagged' = (lagged \/ Minute(slot[i]) # Minute(clock))
  /\ UNCHANGED <<clock, up, leader, row, job, copy, slot, crashes, wanted, stored, noted, renoted,
                 unstamped>>

\* RunSubscription of the next one: read it and its dashboard, or give it up.
TickNext(i) ==
  /\ pc[i] = "loop"
  /\ \E s \in todo[i] :
       /\ todo' = [todo EXCEPT ![i] = @ \ {s}]
       /\ \/ /\ Exists(s)
             /\ Goto(i, "send")
             /\ job' = [job EXCEPT ![i] = s]
             /\ copy' = [copy EXCEPT ![i] = row[s]]
          \/ UNCHANGED <<pc, job, copy>>
  /\ UNCHANGED <<clock, up, leader, row, slot, crashes, history>>

TickDone(i) ==
  /\ pc[i] = "loop" /\ todo[i] = {}
  /\ Goto(i, "idle")
  /\ slot' = [slot EXCEPT ![i] = 0]
  /\ UNCHANGED <<clock, up, leader, row, job, copy, todo, crashes, history>>

-----------------------------------------------------------------------------
\* Requests.

\* POST /api/subscriptions/{id}/run
HttpRun(r, s) ==
  /\ pc[r] = "idle" /\ Exists(s)
  /\ Goto(r, "send")
  /\ job' = [job EXCEPT ![r] = s]
  /\ copy' = [copy EXCEPT ![r] = row[s]]
  /\ UNCHANGED <<clock, up, row, tickVars, crashes, history>>

\* POST /api/dashboards/{id}/subscriptions
HttpCreate(s) ==
  /\ row[s] = NoRow
  /\ row' = [row EXCEPT ![s].state = "on"]
  /\ wanted' = [wanted EXCEPT ![s] = "on"]
  /\ UNCHANGED <<clock, up, pc, job, copy, tickVars, crashes, stored, lagged, noted, renoted,
                 unstamped>>

\* DELETE /api/subscriptions/{id}
HttpDelete(s) ==
  /\ Exists(s)
  /\ row' = [row EXCEPT ![s] = [state |-> "gone", last |-> Never]]
  /\ wanted' = [wanted EXCEPT ![s] = "gone"]
  /\ UNCHANGED <<clock, up, pc, job, copy, tickVars, crashes, stored, lagged, noted, renoted,
                 unstamped>>

\* PUT /api/subscriptions/{id}: SetSubscriptionEnabled reads the row ...
HttpSwitch(r, s, point) ==
  /\ pc[r] = "idle" /\ Exists(s)
  /\ Goto(r, point)
  /\ job' = [job EXCEPT ![r] = s]
  /\ copy' = [copy EXCEPT ![r] = row[s]]
  /\ UNCHANGED <<clock, up, row, tickVars, crashes, history>>

\* ... and stores it with the other value, or answers with an error.
SwitchStore(r) ==
  /\ pc[r] \in {"on", "off"}
  /\ \/ /\ StoreCopy(r, [copy[r] EXCEPT !.state = pc[r]])
        /\ wanted' = IF Exists(job[r]) THEN [wanted EXCEPT ![job[r]] = pc[r]] ELSE wanted
     \/ UNCHANGED <<row, stored, wanted>>
  /\ Goto(r, "idle") /\ Forget(r)
  /\ UNCHANGED <<clock, up, tickVars, crashes, lagged, noted, renoted, unstamped>>

-----------------------------------------------------------------------------
\* RunSubscription, on behalf of thread t.

Back(t) == Goto(t, IF t \in Instances THEN "loop" ELSE "idle")

\* What the notification of t counts as: only ticks are to send once, and only
\* as long as none has lagged.
Shot(t) == IF t \in Instances /\ ~lagged THEN {<<job[t], Minute(slot[t])>>} ELSE {}

\* The cards have run; RecordNotification.
Send(t) ==
  /\ pc[t] = "send"
  /\ \/ /\ Goto(t, "stamp")
        /\ UNCHANGED <<job, copy>>
        /\ noted' = noted \cup Shot(t)
        /\ renoted' = renoted \cup (Shot(t) \cap noted)
     \/ \* it cannot be stored: no LastRunAt either
        Back(t) /\ Forget(t) /\ UNCHANGED <<noted, renoted>>
  /\ UNCHANGED <<clock, up, row, tickVars, crashes, wanted, stored, lagged, unstamped>>

\* LastRunAt, with the row as it was read, whose error is ignored; then the
\* delivery, to a channel whose failure nobody records.
Stamp(t) ==
  /\ pc[t] = "stamp"
  /\ \/ /\ StoreCopy(t, [copy[t] EXCEPT !.last = clock])
        /\ UNCHANGED unstamped
     \/ /\ unstamped' = unstamped \cup Shot(t)
        /\ UNCHANGED <<row, stored>>
  /\ Back(t) /\ Forget(t)
  /\ UNCHANGED <<clock, up, tickVars, crashes, wanted, lagged, noted, renoted>>

-----------------------------------------------------------------------------
Tick ==
  /\ clock < MaxClock
  /\ clock' = clock + 1
  /\ lagged' = (lagged \/ (clock' > leader.expires /\ \E i \in Instances : pc[i] # "idle"))
  /\ UNCHANGED <<up, row, pc, job, copy, tickVars, crashes, wanted, stored, noted, renoted, unstamped>>

\* The process of i dies, with its tick; requests end with theirs.
Crash(i) ==
  /\ i \in up /\ crashes < MaxCrashes
  /\ crashes' = crashes + 1
  /\ up' = up \ {i}
  /\ Goto(i, "idle") /\ Forget(i)
  /\ todo' = [todo EXCEPT ![i] = {}]
  /\ slot' = [slot EXCEPT ![i] = 0]
  /\ leader' = IF leader.owner = i /\ ~StableID THEN [leader EXCEPT !.owner = Ghost] ELSE leader
  /\ unstamped' = IF StableID /\ pc[i] = "stamp" THEN unstamped \cup Shot(i) ELSE unstamped
  /\ UNCHANGED <<clock, row, wanted, stored, lagged, noted, renoted>>

RequestDies(r) ==
  /\ pc[r] # "idle" /\ crashes < MaxCrashes
  /\ crashes' = crashes + 1
  /\ Goto(r, "idle") /\ Forget(r)
  /\ UNCHANGED <<clock, up, row, tickVars, history>>

Restart(i) ==
  /\ i \notin up
  /\ up' = up \cup {i}
  /\ UNCHANGED <<clock, row, pc, job, copy, tickVars, crashes, history>>

\* The bounded clock has run out and every thread is at rest.
Horizon ==
  /\ clock = MaxClock /\ \A t \in Threads : pc[t] = "idle"
  /\ UNCHANGED vars

Ticker(i) ==
  \/ TickElect(i) \/ TickStart(i) \/ TickEnds(i) \/ TickList(i) \/ TickNext(i) \/ TickDone(i)

Next ==
  \/ Tick \/ Horizon
  \/ \E i \in Instances : Ticker(i) \/ Crash(i) \/ Restart(i)
  \/ \E s \in Subs : HttpCreate(s) \/ HttpDelete(s)
  \/ \E r \in Requests, s \in Subs : HttpRun(r, s) \/ HttpSwitch(r, s, "on") \/ HttpSwitch(r, s, "off")
  \/ \E r \in Requests : SwitchStore(r) \/ RequestDies(r)
  \/ \E t \in Threads : Send(t) \/ Stamp(t)

Spec == Init /\ [][Next]_vars

-----------------------------------------------------------------------------
TypeOK ==
  /\ clock \in 0 .. MaxClock /\ up \subseteq Instances
  /\ leader \in LR!Lease
  /\ row \in [Subs -> Row]
  /\ pc \in [Threads -> {"idle", "elected", "schedules", "loop", "send", "stamp", "on", "off"}]
  /\ job \in [Threads -> Subs \cup {NoSub}]
  /\ \A t \in Threads : job[t] # NoSub <=> pc[t] \in {"send", "stamp", "on", "off"}
  /\ copy \in [Threads -> Row]
  /\ todo \in [Instances -> SUBSET Subs]
  /\ slot \in [Instances -> 0 .. MaxClock]
  /\ crashes \in 0 .. MaxCrashes
  /\ wanted \in [Subs -> {"none", "on", "off", "gone"}]
  /\ stored \subseteq Subs /\ lagged \in BOOLEAN
  /\ noted \subseteq Subs \X Nat /\ renoted \subseteq Subs \X Nat
  /\ unstamped \subseteq Subs \X Nat

\* A subscription is in the state the last answered request asked for, unless a
\* row was stored over a newer one: no run that overlaps no other writer of the
\* row touches the switch.
SwitchLostOnlyToStaleRow == \A s \in Subs : row[s].state # wanted[s] => s \in stored

\* A minute of a subscription's cron is sent by one tick, unless a tick lagged
\* behind, LastRunAt could not be stored, or a stale row took it back.  A
\* crash between the notification and LastRunAt does not repeat it, since the
\* lease of the dead leader outlasts the minute for all but itself.
RepeatedOnlyIfLaggedOrStale ==
  \A n \in renoted : lagged \/ n[1] \in stored \/ n \in unstamped

\* What the row of a subscription says and what is sent for it are as asked,
\* but for the ways the code has of losing that.
SentAsSwitched == SwitchLostOnlyToStaleRow /\ RepeatedOnlyIfLaggedOrStale
=============================================================================
