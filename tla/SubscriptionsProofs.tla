------------------------- MODULE SubscriptionsProofs -------------------------
(***************************************************************************)
(* The switch of a subscription is what was last asked for, and a minute   *)
(* of its cron is sent once, for any number of instances, requests and     *)
(* subscriptions, any crashes and failed statements, but for the ways the  *)
(* code has of losing that.                                                *)
(***************************************************************************)
EXTENDS Subscriptions, TLAPS

States == {"none", "on", "off", "gone"}

AtWork == {"send", "stamp", "on", "off"}

Shape ==
  /\ clock \in Nat
  /\ leader \in LR!Lease
  /\ row \in [Subs -> Row] /\ copy \in [Threads -> Row]
  /\ pc \in [Threads -> {"idle", "elected", "schedules", "loop", "send", "stamp", "on", "off"}]
  /\ job \in [Threads -> Subs \cup {NoSub}]
  /\ todo \in [Instances -> SUBSET Subs]
  /\ slot \in [Instances -> Nat]
  /\ wanted \in [Subs -> States]
  /\ lagged \in BOOLEAN
  /\ noted \subseteq Subs \X Int /\ renoted \subseteq Subs \X Int
  /\ \A i \in Instances : pc[i] \notin {"on", "off"}
  /\ \A t \in Threads : pc[t] \in AtWork =>
       job[t] \in Subs /\ row[job[t]].state # "none" /\ copy[t].state \in {"on", "off"}

AsWanted == \A s \in Subs : row[s].state = wanted[s] \/ s \in stored

\* What is written down happened before now.
Past ==
  /\ \A s \in Subs : row[s].last <= clock
  /\ \A t \in Threads : copy[t].last <= clock
  /\ \A i \in Instances : slot[i] <= clock

\* A tick that has not lagged has the leader lease, which outlasts its minute.
Leads == ~lagged => \A i \in Instances : pc[i] # "idle" =>
  /\ leader.owner = i /\ clock <= leader.expires
  /\ pc[i] # "elected" => slot[i] + MinuteLen <= leader.expires + 1

Excused(s, m) == lagged \/ s \in stored \/ <<s, m>> \in unstamped

\* LastRunAt says that minute m was sent or a later one, or will say so; or no
\* tick of minute m can be elected any more.
Settled(s, m) ==
  \/ row[s].state = "gone"
  \/ row[s].last # Never /\ m <= Minute(row[s].last)
  \/ \E i \in Instances : pc[i] = "stamp" /\ job[i] = s /\ Minute(slot[i]) = m
  \/ m < Minute(clock)
  \/ leader.owner = Ghost /\ m < Minute(leader.expires + 1)

Sent == \A s \in Subs, m \in Int : <<s, m>> \in noted =>
  row[s].state # "none" /\ (Excused(s, m) \/ Settled(s, m))

\* What a tick has still to send has not been sent in its minute.
Unsent ==
  /\ \A i \in Instances : pc[i] \in {"idle", "elected", "schedules"} => todo[i] = {}
  /\ \A i \in Instances : pc[i] \in {"send", "stamp"} => job[i] \notin todo[i]
  /\ \A i \in Instances, s \in Subs :
       s \in todo[i] \/ (pc[i] = "send" /\ s = job[i]) =>
         (<<s, Minute(slot[i])>> \in noted => Excused(s, Minute(slot[i])))

Repeated == \A s \in Subs, m \in Int : <<s, m>> \in renoted => Excused(s, m)

IInv == Shape /\ AsWanted /\ Past /\ Leads /\ Sent /\ Unsent /\ Repeated

----------------------------------------------------------------------------
(* Minutes and rows. *)

LEMMA QuotientType ==
  ASSUME NEW n \in Nat \ {0}, NEW a \in Int
  PROVE  a \div n \in Int
BY Z3

LEMMA QuotientMonotone ==
  ASSUME NEW n \in Nat \ {0}, NEW a \in Int, NEW b \in Int, a <= b
  PROVE  a \div n <= b \div n
BY Z3

LEMMA QuotientGrows ==
  ASSUME NEW n \in Nat \ {0}, NEW a \in Int, NEW b \in Int, a + n <= b
  PROVE  a \div n < b \div n
BY Z3

LEMMA Minutes ==
  ASSUME NEW a \in Int, NEW b \in Int
  PROVE  /\ Minute(a) \in Int /\ Minute(b) \in Int
         /\ a <= b => Minute(a) <= Minute(b)
         /\ a + MinuteLen <= b => Minute(a) < Minute(b)
BY QuotientType, QuotientMonotone, QuotientGrows, SubscriptionAssumption DEF Minute

LEMMA LeaseIs ==
  ASSUME Shape
  PROVE  /\ leader.expires \in Int
         /\ leader.owner \in Instances => LR!Present(leader)
         /\ leader.owner = Ghost => LR!Present(leader)
         /\ Ghost \notin Instances /\ MinuteLen \in Nat \ {0} /\ LeaderTTL \in Nat
BY SubscriptionAssumption DEF Shape, LR!Lease, LR!NoLease, LR!Present

\* What StoreCopy does to the row of the job, and to the other rows.
LEMMA StoreIs ==
  ASSUME Shape, NEW t \in Threads, job[t] \in Subs, NEW new \in Row, StoreCopy(t, new)
  PROVE  /\ row' \in [Subs -> Row]
         /\ \A s \in Subs \ {job[t]} : row'[s] = row[s]
         /\ Exists(job[t]) => row'[job[t]] = new /\ (row[job[t]] # copy[t] => job[t] \in stored')
         /\ ~Exists(job[t]) => row' = row
         /\ \A s : s \in stored => s \in stored'
BY DEF Shape, StoreCopy, Store

\* LastRunAt goes on, unless a stale row was stored, and no row comes back.
RowsGoOn == \A s \in Subs :
  /\ row[s].state # "none" => row'[s].state # "none"
  /\ row[s].state = "gone" => row'[s].state = "gone"
  /\ row'[s].state = "gone" \/ row'[s].last = row[s].last \/ row'[s].last = clock \/ s \in stored'

LEMMA StoredGoesOn ==
  ASSUME Shape, Past, NEW t \in Threads, pc[t] \in AtWork, NEW new \in Row,
         new.state \in {"on", "off"}, new.last \in {copy[t].last, clock}, StoreCopy(t, new)
  PROVE  RowsGoOn /\ \A s \in Subs : row'[s].last <= clock
<1>1. job[t] \in Subs /\ row[job[t]] \in Row
  BY DEF Shape
<1>2. Exists(job[t]) /\ job[t] \notin stored' => row[job[t]] = copy[t]
  BY <1>1, StoreIs
<1> QED
  BY <1>1, <1>2, StoreIs DEF RowsGoOn, Exists, Past, Shape

----------------------------------------------------------------------------
(* What the parts of the invariant say of the state after a step. *)

LEMMA SettledNext ==
  ASSUME NEW s \in Subs, NEW m \in Int
  PROVE  Settled(s, m)' <=>
           \/ row'[s].state = "gone"
           \/ row'[s].last # Never /\ m <= Minute(row'[s].last)
           \/ \E i \in Instances : pc'[i] = "stamp" /\ job'[i] = s /\ Minute(slot'[i]) = m
           \/ m < Minute(clock')
           \/ leader'.owner = Ghost /\ m < Minute(leader'.expires + 1)
BY DEF Settled, Minute, Never

LEMMA ExcusedNext ==
  ASSUME NEW s \in Subs, NEW m \in Int
  PROVE  Excused(s, m)' <=> lagged' \/ s \in stored' \/ <<s, m>> \in unstamped'
BY DEF Excused

LEMMA SentNext ==
  ASSUME \A s \in Subs, m \in Int : <<s, m>> \in noted' =>
           row'[s].state # "none" /\ (Excused(s, m)' \/ Settled(s, m)')
  PROVE  Sent'
BY DEF Sent

LEMMA UnsentNext ==
  ASSUME \A i \in Instances : pc'[i] \in {"idle", "elected", "schedules"} => todo'[i] = {},
         \A i \in Instances : pc'[i] \in {"send", "stamp"} => job'[i] \notin todo'[i],
         \A i \in Instances, s \in Subs :
           s \in todo'[i] \/ (pc'[i] = "send" /\ s = job'[i]) =>
             (<<s, Minute(slot'[i])>> \in noted' =>
               lagged' \/ s \in stored' \/ <<s, Minute(slot'[i])>> \in unstamped')
  PROVE  Unsent'
BY DEF Unsent, Excused, Minute

LEMMA RepeatedNext ==
  ASSUME \A s \in Subs, m \in Int : <<s, m>> \in renoted' => Excused(s, m)'
  PROVE  Repeated'
BY DEF Repeated

\* No step takes an excuse back.
ExcusesGoOn ==
  /\ lagged => lagged'
  /\ \A s : s \in stored => s \in stored'
  /\ \A n : n \in unstamped => n \in unstamped'

LEMMA ExcusedGoesOn ==
  ASSUME ExcusesGoOn, NEW s \in Subs, NEW m \in Int, Excused(s, m)
  PROVE  Excused(s, m)'
BY ExcusedNext DEF ExcusesGoOn, Excused

\* A tick about to store LastRunAt stays there, or leaves its minute settled.
StampsGoOn == \A i \in Instances : pc[i] = "stamp" =>
  \/ pc'[i] = "stamp" /\ job'[i] = job[i] /\ slot'[i] = slot[i]
  \/ lagged' \/ <<job[i], Minute(slot[i])>> \in unstamped'
  \/ row'[job[i]].state = "gone"
  \/ row'[job[i]].last # Never /\ Minute(slot[i]) <= Minute(row'[job[i]].last)
  \/ leader'.owner = Ghost /\ Minute(slot[i]) < Minute(leader'.expires + 1)

LeaseGoesOn ==
  /\ leader'.expires = leader.expires
  /\ leader'.owner = leader.owner \/ (leader.owner # Ghost /\ leader'.owner = Ghost)

LEMMA SettledGoesOn ==
  ASSUME Shape, Past, ExcusesGoOn, RowsGoOn, StampsGoOn, LeaseGoesOn, row' \in [Subs -> Row],
         clock' \in Nat, clock <= clock',
         NEW s \in Subs, NEW m \in Int, Excused(s, m) \/ Settled(s, m)
  PROVE  Excused(s, m)' \/ Settled(s, m)'
<1>1. CASE Excused(s, m)
  BY <1>1, ExcusedGoesOn
<1>2. CASE row[s].state = "gone"
  BY <1>2, SettledNext DEF RowsGoOn
<1>3. CASE row[s].last # Never /\ m <= Minute(row[s].last)
  <2>1. row[s].last \in Int /\ row[s].last <= clock /\ clock \in Int /\ clock # Never
    BY DEF Past, Shape, Row, Never
  <2>2. Minute(row[s].last) <= Minute(clock) /\ Minute(clock) \in Int /\ Minute(row[s].last) \in Int
    BY <2>1, Minutes
  <2>3. m <= Minute(clock)
    BY <1>3, <2>2
  <2>4. row'[s].state = "gone" \/ row'[s].last = row[s].last \/ row'[s].last = clock \/ s \in stored'
    BY DEF RowsGoOn
  <2> QED
    BY <1>3, <2>1, <2>3, <2>4, SettledNext, ExcusedNext
<1>4. CASE \E i \in Instances : pc[i] = "stamp" /\ job[i] = s /\ Minute(slot[i]) = m
  <2>1. PICK i \in Instances : pc[i] = "stamp" /\ job[i] = s /\ Minute(slot[i]) = m
    BY <1>4
  <2>2. \/ pc'[i] = "stamp" /\ job'[i] = s /\ Minute(slot'[i]) = m
        \/ lagged' \/ <<s, m>> \in unstamped'
        \/ row'[s].state = "gone"
        \/ row'[s].last # Never /\ m <= Minute(row'[s].last)
        \/ leader'.owner = Ghost /\ m < Minute(leader'.expires + 1)
    BY <2>1 DEF StampsGoOn
  <2>3. CASE lagged' \/ <<s, m>> \in unstamped'
    BY <2>3, ExcusedNext
  <2>4. CASE pc'[i] = "stamp" /\ job'[i] = s /\ Minute(slot'[i]) = m
    BY <2>4, SettledNext
  <2> QED
    BY <2>2, <2>3, <2>4, SettledNext
<1>5. CASE m < Minute(clock)
  <2>1. Minute(clock) <= Minute(clock') /\ Minute(clock) \in Int /\ Minute(clock') \in Int
    BY Minutes DEF Shape
  <2> QED
    BY <1>5, <2>1, SettledNext
<1>6. CASE leader.owner = Ghost /\ m < Minute(leader.expires + 1)
  BY <1>6, SettledNext DEF LeaseGoesOn
<1> QED
  BY <1>1, <1>2, <1>3, <1>4, <1>5, <1>6 DEF Settled

\* What a step that notifies nobody leaves true.
LEMMA QuietStep ==
  ASSUME IInv, ExcusesGoOn, RowsGoOn, StampsGoOn, LeaseGoesOn, row' \in [Subs -> Row],
         clock' \in Nat, clock <= clock', noted' = noted, renoted' = renoted
  PROVE  Sent' /\ Repeated'
<1>1. ASSUME NEW s \in Subs, NEW m \in Int, <<s, m>> \in noted'
      PROVE  row'[s].state # "none" /\ (Excused(s, m)' \/ Settled(s, m)')
  <2>1. row[s].state # "none" /\ (Excused(s, m) \/ Settled(s, m))
    BY <1>1 DEF IInv, Sent
  <2> QED
    BY <2>1, SettledGoesOn DEF IInv, RowsGoOn
<1>2. ASSUME NEW s \in Subs, NEW m \in Int, <<s, m>> \in renoted'
      PROVE  Excused(s, m)'
  BY <1>2, ExcusedGoesOn DEF IInv, Repeated
<1> QED
  BY <1>1, <1>2, SentNext, RepeatedNext

\* What a step of a request, or of an administrator, leaves true.
LEMMA ForeignStep ==
  ASSUME IInv, ExcusesGoOn, RowsGoOn, row' \in [Subs -> Row],
         UNCHANGED <<clock, leader, todo, slot, lagged, noted, renoted>>,
         \A i \in Instances : pc'[i] = pc[i] /\ job'[i] = job[i]
  PROVE  Leads' /\ Sent' /\ Unsent' /\ Repeated'
<1>1. Sent' /\ Repeated'
  BY QuietStep DEF IInv, Shape, StampsGoOn, LeaseGoesOn
<1>2. Leads'
  BY DEF IInv, Leads
<1>3. Unsent'
  <2>1. \A i \in Instances, s \in Subs :
          s \in todo[i] \/ (pc[i] = "send" /\ s = job[i]) =>
            (<<s, Minute(slot[i])>> \in noted =>
               lagged \/ s \in stored \/ <<s, Minute(slot[i])>> \in unstamped)
    BY DEF IInv, Unsent, Excused
  <2>2. \A i \in Instances, s \in Subs :
          s \in todo'[i] \/ (pc'[i] = "send" /\ s = job'[i]) =>
            (<<s, Minute(slot'[i])>> \in noted' =>
               lagged' \/ s \in stored' \/ <<s, Minute(slot'[i])>> \in unstamped')
    BY <2>1 DEF ExcusesGoOn
  <2>3. /\ \A i \in Instances : pc'[i] \in {"idle", "elected", "schedules"} => todo'[i] = {}
        /\ \A i \in Instances : pc'[i] \in {"send", "stamp"} => job'[i] \notin todo'[i]
    BY DEF IInv, Unsent
  <2> QED
    BY <2>2, <2>3, UnsentNext
<1> QED
  BY <1>1, <1>2, <1>3

----------------------------------------------------------------------------
(* The first state, and the requests. *)

LEMMA FirstState ==
  ASSUME Init
  PROVE  IInv
<1>1. Shape
  <2>1. NoRow \in Row /\ leader \in LR!Lease
    BY DEF Init, Row, NoRow, Never, LR!Lease
  <2>2. job \in [Threads -> Subs \cup {NoSub}] /\ wanted \in [Subs -> States]
    BY DEF Init, States
  <2>3. pc \in [Threads -> {"idle", "elected", "schedules", "loop", "send", "stamp", "on", "off"}]
    BY DEF Init
  <2>4. \A t \in Threads : pc[t] = "idle"
    BY DEF Init
  <2>5. Instances \subseteq Threads
    BY DEF Threads
  <2> QED
    BY <2>1, <2>2, <2>3, <2>4, <2>5 DEF Init, Shape, AtWork
<1>2. AsWanted /\ Past
  BY SubscriptionAssumption DEF Init, AsWanted, Past, NoRow, Never, Threads
<1>3. Leads /\ Sent /\ Repeated
  BY SubscriptionAssumption DEF Init, Leads, Sent, Repeated, Threads
<1>4. Unsent
  BY SubscriptionAssumption DEF Init, Unsent, Threads
<1> QED
  BY <1>1, <1>2, <1>3, <1>4 DEF IInv

LEMMA RequestReads ==
  ASSUME IInv, NEW r \in Requests, NEW s \in Subs, NEW point \in {"send", "on", "off"},
         HttpSwitch(r, s, point) \/ (point = "send" /\ HttpRun(r, s))
  PROVE  IInv'
<1>1. /\ pc[r] = "idle" /\ Exists(s) /\ pc' = [pc EXCEPT ![r] = point]
      /\ job' = [job EXCEPT ![r] = s] /\ copy' = [copy EXCEPT ![r] = row[s]]
      /\ UNCHANGED <<clock, up, row, leader, todo, slot, crashes,
                     wanted, stored, lagged, noted, renoted, unstamped>>
  BY DEF HttpSwitch, HttpRun, Goto, tickVars, history
<1>2. r \in Threads /\ r \notin Instances
  BY SubscriptionAssumption DEF Threads
<1>3. Shape'
  <2>1. row[s] \in Row /\ row[s].state \in {"on", "off"}
    BY <1>1 DEF IInv, Shape, Exists
  <2>2. pc' \in [Threads -> {"idle", "elected", "schedules", "loop", "send", "stamp", "on", "off"}]
    BY <1>1, <1>2 DEF IInv, Shape
  <2>3. job' \in [Threads -> Subs \cup {NoSub}] /\ copy' \in [Threads -> Row]
    BY <1>1, <1>2, <2>1 DEF IInv, Shape
  <2>4. \A i \in Instances : pc'[i] \notin {"on", "off"}
    BY <1>1, <1>2 DEF IInv, Shape
  <2>5. \A t \in Threads : pc'[t] \in AtWork =>
          job'[t] \in Subs /\ row[job'[t]].state # "none" /\ copy'[t].state \in {"on", "off"}
    <3> SUFFICES ASSUME NEW t \in Threads, pc'[t] \in AtWork
                 PROVE  job'[t] \in Subs /\ row[job'[t]].state # "none" /\ copy'[t].state \in {"on", "off"}
      OBVIOUS
    <3>1. CASE t = r
      BY <1>1, <1>2, <2>1, <3>1 DEF IInv, Shape
    <3>2. CASE t # r
      BY <1>1, <1>2, <3>2 DEF IInv, Shape
    <3> QED
      BY <3>1, <3>2
  <2> QED
    BY <1>1, <2>2, <2>3, <2>4, <2>5 DEF IInv, Shape
<1>4. AsWanted'
  BY <1>1 DEF IInv, AsWanted
<1>5. Past'
  BY <1>1, <1>2 DEF IInv, Past, Shape
<1>6. Leads' /\ Sent' /\ Unsent' /\ Repeated'
  <2>1. RowsGoOn /\ ExcusesGoOn /\ row' \in [Subs -> Row]
    BY <1>1 DEF RowsGoOn, ExcusesGoOn, IInv, Shape
  <2>2. \A i \in Instances : pc'[i] = pc[i] /\ job'[i] = job[i]
    BY <1>1, <1>2 DEF IInv, Shape
  <2> QED
    BY <1>1, <2>1, <2>2, ForeignStep
<1> QED
  BY <1>3, <1>4, <1>5, <1>6 DEF IInv

LEMMA RowIsCreatedOrDeleted ==
  ASSUME IInv, NEW s \in Subs, HttpCreate(s) \/ HttpDelete(s)
  PROVE  IInv'
<1>1. /\ \/ row[s] = NoRow /\ row' = [row EXCEPT ![s].state = "on"] /\ wanted' = [wanted EXCEPT ![s] = "on"]
         \/ /\ row' = [row EXCEPT ![s] = [state |-> "gone", last |-> Never]]
            /\ wanted' = [wanted EXCEPT ![s] = "gone"]
      /\ UNCHANGED <<clock, up, pc, job, copy, leader, todo, slot, crashes, stored, lagged, noted, renoted, unstamped>>
  BY DEF HttpCreate, HttpDelete, tickVars
<1>2. /\ row' \in [Subs -> Row] /\ \A z \in Subs \ {s} : row'[z] = row[z]
      /\ row'[s].state = wanted'[s] /\ row'[s].state \in {"on", "gone"} /\ row'[s].last = Never
      /\ row'[s].state = "on" => row[s] = NoRow
      /\ wanted' \in [Subs -> States] /\ \A z \in Subs \ {s} : wanted'[z] = wanted[z]
  <2>1. CASE row[s] = NoRow /\ row' = [row EXCEPT ![s].state = "on"] /\ wanted' = [wanted EXCEPT ![s] = "on"]
    <3>1. row'[s] = [state |-> "on", last |-> Never]
      BY <2>1 DEF IInv, Shape, NoRow
    <3>2. row' \in [Subs -> Row]
      BY <2>1, <3>1 DEF IInv, Shape, Row, Never
    <3> QED
      BY <2>1, <3>1, <3>2 DEF IInv, Shape, States
  <2>2. CASE /\ row' = [row EXCEPT ![s] = [state |-> "gone", last |-> Never]]
             /\ wanted' = [wanted EXCEPT ![s] = "gone"]
    BY <2>2 DEF IInv, Shape, Row, Never, States
  <2> QED
    BY <1>1, <2>1, <2>2
<1>3. Shape'
  BY <1>1, <1>2 DEF IInv, Shape
<1>4. AsWanted'
  BY <1>1, <1>2 DEF IInv, AsWanted
<1>5. Past'
  BY <1>1, <1>2 DEF IInv, Past, Shape, Never
<1>6. Leads' /\ Sent' /\ Unsent' /\ Repeated'
  <2>1. RowsGoOn /\ ExcusesGoOn
    BY <1>1, <1>2 DEF RowsGoOn, ExcusesGoOn, IInv, Shape, NoRow
  <2> QED
    BY <1>1, <1>2, <2>1, ForeignStep
<1> QED
  BY <1>3, <1>4, <1>5, <1>6 DEF IInv

Points == {"idle", "elected", "schedules", "loop", "send", "stamp", "on", "off"}

\* A thread that forgets its job.
LEMMA ThreadForgets ==
  ASSUME Shape, Past, NEW t \in Threads, NEW point \in {"idle", "loop"}, Goto(t, point), Forget(t),
         row' \in [Subs -> Row], RowsGoOn
  PROVE  /\ pc' \in [Threads -> Points] /\ job' \in [Threads -> Subs \cup {NoSub}]
         /\ copy' \in [Threads -> Row]
         /\ \A i \in Instances : pc'[i] \notin {"on", "off"}
         /\ \A u \in Threads : pc'[u] \in AtWork =>
              job'[u] \in Subs /\ row'[job'[u]].state # "none" /\ copy'[u].state \in {"on", "off"}
         /\ \A u \in Threads \ {t} : pc'[u] = pc[u] /\ job'[u] = job[u]
         /\ pc'[t] = point
         /\ \A u \in Threads : copy'[u].last <= clock
<1>1. NoRow \in Row /\ NoRow.last <= clock
  BY DEF NoRow, Row, Never, Shape
<1>2. /\ pc' \in [Threads -> Points] /\ job' \in [Threads -> Subs \cup {NoSub}]
      /\ copy' \in [Threads -> Row]
  BY <1>1 DEF Shape, Points, Goto, Forget
<1>3. /\ \A u \in Threads \ {t} : pc'[u] = pc[u] /\ job'[u] = job[u] /\ copy'[u] = copy[u]
      /\ pc'[t] = point /\ copy'[t] = NoRow
  BY DEF Shape, Goto, Forget
<1>4. \A u \in Threads : copy'[u].last <= clock
  BY <1>1, <1>3 DEF Past
<1>5. \A i \in Instances : pc'[i] \notin {"on", "off"}
  BY <1>3 DEF Shape, Threads
<1>6. ASSUME NEW u \in Threads, pc'[u] \in AtWork
      PROVE  job'[u] \in Subs /\ row'[job'[u]].state # "none" /\ copy'[u].state \in {"on", "off"}
  <2>1. u # t
    BY <1>3, <1>6 DEF AtWork
  <2> QED
    BY <2>1, <1>3, <1>6 DEF Shape, RowsGoOn
<1> QED
  BY <1>2, <1>3, <1>4, <1>5, <1>6

LEMMA SwitchIsStored ==
  ASSUME IInv, NEW r \in Requests, SwitchStore(r)
  PROVE  IInv'
<1>1. /\ pc[r] \in {"on", "off"} /\ Goto(r, "idle") /\ Forget(r)
      /\ UNCHANGED <<clock, up, leader, todo, slot, crashes, lagged, noted, renoted, unstamped>>
      /\ \/ /\ StoreCopy(r, [copy[r] EXCEPT !.state = pc[r]])
            /\ wanted' = IF Exists(job[r]) THEN [wanted EXCEPT ![job[r]] = pc[r]] ELSE wanted
         \/ UNCHANGED <<row, stored, wanted>>
  BY DEF SwitchStore, tickVars
<1>2. r \in Threads /\ \A i \in Instances : i \in Threads \ {r}
  BY SubscriptionAssumption DEF Threads
<1>3. /\ row' \in [Subs -> Row] /\ RowsGoOn /\ ExcusesGoOn /\ wanted' \in [Subs -> States] /\ AsWanted'
      /\ \A s \in Subs : row'[s].last <= clock
  <2>1. CASE UNCHANGED <<row, stored, wanted>>
    BY <1>1, <2>1 DEF IInv, Shape, RowsGoOn, ExcusesGoOn, AsWanted, Past
  <2>2. CASE /\ StoreCopy(r, [copy[r] EXCEPT !.state = pc[r]])
             /\ wanted' = IF Exists(job[r]) THEN [wanted EXCEPT ![job[r]] = pc[r]] ELSE wanted
    <3> DEFINE new == [copy[r] EXCEPT !.state = pc[r]]
    <3>1. copy[r] \in Row /\ job[r] \in Subs /\ pc[r] \in AtWork
      BY <1>1, <1>2 DEF IInv, Shape, AtWork
    <3>2. new \in Row /\ new.state = pc[r] /\ new.last = copy[r].last
      BY <3>1, <1>1 DEF Row
    <3>3. StoreCopy(r, new)
      BY <2>2
    <3> HIDE DEF new
    <3>4. /\ row' \in [Subs -> Row] /\ RowsGoOn /\ \A s \in Subs : row'[s].last <= clock
      BY <3>1, <3>2, <3>3, <1>1, <1>2, StoredGoesOn, StoreIs DEF IInv
    <3>5. /\ \A s \in Subs \ {job[r]} : row'[s] = row[s]
          /\ Exists(job[r]) => row'[job[r]] = new
          /\ ~Exists(job[r]) => row' = row
          /\ \A s : s \in stored => s \in stored'
      BY <3>1, <3>2, <3>3, <1>2, StoreIs DEF IInv
    <3>6. wanted' \in [Subs -> States] /\ \A s \in Subs \ {job[r]} : wanted'[s] = wanted[s]
      BY <2>2, <3>1, <1>1 DEF IInv, Shape, States
    <3>7. IF Exists(job[r]) THEN wanted'[job[r]] = pc[r] ELSE wanted' = wanted
      BY <2>2, <3>1 DEF IInv, Shape
    <3>8. AsWanted'
      BY <3>1, <3>2, <3>5, <3>6, <3>7 DEF IInv, AsWanted
    <3> QED
      BY <3>4, <3>5, <3>6, <3>8, <1>1 DEF ExcusesGoOn
  <2> QED
    BY <1>1, <2>1, <2>2
<1>4. Shape' /\ Past'
  BY <1>1, <1>2, <1>3, ThreadForgets DEF IInv, Shape, Past, Points
<1>5. \A i \in Instances : pc'[i] = pc[i] /\ job'[i] = job[i]
  BY <1>1, <1>2, <1>3, ThreadForgets DEF IInv
<1>6. Leads' /\ Sent' /\ Unsent' /\ Repeated'
  BY <1>1, <1>3, <1>5, ForeignStep
<1> QED
  BY <1>3, <1>4, <1>6 DEF IInv

LEMMA RequestEnds ==
  ASSUME IInv, NEW r \in Requests, RequestDies(r)
  PROVE  IInv'
<1>1. /\ Goto(r, "idle") /\ Forget(r)
      /\ UNCHANGED <<clock, up, row, leader, todo, slot, wanted, stored, lagged, noted, renoted, unstamped>>
  BY DEF RequestDies, tickVars, history
<1>2. r \in Threads /\ \A i \in Instances : i \in Threads \ {r}
  BY SubscriptionAssumption DEF Threads
<1>3. row' \in [Subs -> Row] /\ RowsGoOn /\ ExcusesGoOn /\ AsWanted'
  BY <1>1 DEF IInv, Shape, RowsGoOn, ExcusesGoOn, AsWanted
<1>4. Shape' /\ Past'
  BY <1>1, <1>2, <1>3, ThreadForgets DEF IInv, Shape, Past, Points
<1>5. \A i \in Instances : pc'[i] = pc[i] /\ job'[i] = job[i]
  BY <1>1, <1>2, <1>3, ThreadForgets DEF IInv
<1>6. Leads' /\ Sent' /\ Unsent' /\ Repeated'
  BY <1>1, <1>3, <1>5, ForeignStep
<1> QED
  BY <1>3, <1>4, <1>6 DEF IInv

----------------------------------------------------------------------------
(* A notification, and LastRunAt. *)

\* Only one tick is at work as long as none has lagged.
LEMMA OneTick ==
  ASSUME Shape, Leads, ~lagged, NEW i \in Instances, NEW j \in Instances,
         pc[i] # "idle", pc[j] # "idle"
  PROVE  i = j
BY DEF Leads

\* What a tick has still to send, as a fact about its minute.
LEMMA UnsentIs ==
  ASSUME IInv
  PROVE  \A i \in Instances, s \in Subs :
           s \in todo[i] \/ (pc[i] = "send" /\ s = job[i]) =>
             (<<s, Minute(slot[i])>> \in noted =>
                lagged \/ s \in stored \/ <<s, Minute(slot[i])>> \in unstamped)
BY DEF IInv, Unsent, Excused

\* A tick whose notification, or whose LastRunAt, is over.
LEMMA TickGoesOn ==
  ASSUME IInv, NEW i \in Instances, pc[i] \in {"send", "stamp"}, Goto(i, "loop"), Forget(i),
         UNCHANGED <<clock, leader, todo, slot, lagged, noted, renoted, wanted>>,
         row' \in [Subs -> Row], RowsGoOn, ExcusesGoOn, AsWanted',
         \A s \in Subs : row'[s].last <= clock, StampsGoOn
  PROVE  IInv'
<1>1. i \in Threads /\ \A j \in Instances : j \in Threads
  BY DEF Threads
<1>2. Shape' /\ Past'
  BY <1>1, ThreadForgets DEF IInv, Shape, Past, Points
<1>3. Sent' /\ Repeated'
  BY QuietStep DEF IInv, Shape, LeaseGoesOn
<1>4. pc'[i] = "loop" /\ \A j \in Instances \ {i} : pc'[j] = pc[j] /\ job'[j] = job[j]
  BY <1>1, ThreadForgets DEF IInv
<1>5. Leads'
  BY <1>4 DEF IInv, Leads
<1>6. Unsent'
  <2>1. \A j \in Instances, s \in Subs :
          s \in todo'[j] \/ (pc'[j] = "send" /\ s = job'[j]) =>
            (<<s, Minute(slot'[j])>> \in noted' =>
               lagged' \/ s \in stored' \/ <<s, Minute(slot'[j])>> \in unstamped')
    BY <1>4, UnsentIs DEF ExcusesGoOn
  <2>2. /\ \A j \in Instances : pc'[j] \in {"idle", "elected", "schedules"} => todo'[j] = {}
        /\ \A j \in Instances : pc'[j] \in {"send", "stamp"} => job'[j] \notin todo'[j]
    BY <1>4 DEF IInv, Unsent
  <2> QED
    BY <2>1, <2>2, UnsentNext
<1> QED
  BY <1>2, <1>3, <1>5, <1>6 DEF IInv

LEMMA TickSends ==
  ASSUME IInv, NEW t \in Instances, pc[t] = "send", Goto(t, "stamp"),
         noted' = noted \cup Shot(t), renoted' = renoted \cup (Shot(t) \cap noted),
         UNCHANGED <<clock, row, job, copy, leader, todo, slot, wanted, stored, lagged, unstamped>>
  PROVE  IInv'
<1> DEFINE mine == <<job[t], Minute(slot[t])>>
<1>1. t \in Threads /\ \A j \in Instances : j \in Threads
  BY DEF Threads
<1>2. job[t] \in Subs /\ row[job[t]].state # "none" /\ Minute(slot[t]) \in Int
  BY <1>1, Minutes DEF IInv, Shape, AtWork
<1>3. \A n : n \in Shot(t) => n = mine /\ ~lagged
  BY DEF Shot
<1> HIDE DEF mine
<1>4. pc'[t] = "stamp" /\ \A j \in Threads \ {t} : pc'[j] = pc[j]
  BY <1>1 DEF IInv, Shape, Goto
<1>5. Shape'
  <2>1. mine \in Subs \X Int
    BY <1>2 DEF mine
  <2>2. noted' \subseteq Subs \X Int /\ renoted' \subseteq Subs \X Int
    BY <1>3, <2>1 DEF IInv, Shape
  <2>3. pc' \in [Threads -> Points]
    BY DEF IInv, Shape, Goto, Points
  <2>4. \A u \in Threads : pc'[u] \in AtWork =>
          job[u] \in Subs /\ row[job[u]].state # "none" /\ copy[u].state \in {"on", "off"}
    BY <1>1, <1>4 DEF IInv, Shape, AtWork
  <2>5. \A j \in Instances : pc'[j] \notin {"on", "off"}
    BY <1>1, <1>4 DEF IInv, Shape
  <2> QED
    BY <2>2, <2>3, <2>4, <2>5 DEF IInv, Shape, Points
<1>6. AsWanted' /\ Past'
  BY DEF IInv, AsWanted, Past
<1>7. Leads'
  BY <1>1, <1>4 DEF IInv, Leads
<1>8. RowsGoOn /\ ExcusesGoOn /\ StampsGoOn /\ LeaseGoesOn
  BY <1>1, <1>4 DEF RowsGoOn, ExcusesGoOn, StampsGoOn, LeaseGoesOn, IInv, Shape
<1>9. Sent'
  <2> SUFFICES ASSUME NEW s \in Subs, NEW m \in Int, <<s, m>> \in noted'
               PROVE  row'[s].state # "none" /\ (Excused(s, m)' \/ Settled(s, m)')
    BY SentNext
  <2>1. CASE <<s, m>> \in noted
    <3>1. row[s].state # "none" /\ (Excused(s, m) \/ Settled(s, m))
      BY <2>1 DEF IInv, Sent
    <3> QED
      BY <3>1, <1>8, SettledGoesOn DEF IInv, Shape
  <2>2. CASE <<s, m>> \in Shot(t)
    <3>1. s = job[t] /\ m = Minute(slot[t])
      BY <2>2, <1>3 DEF mine
    <3> QED
      BY <3>1, <1>2, <1>4, SettledNext
  <2> QED
    BY <2>1, <2>2
<1>10. Unsent'
  <2>1. ASSUME NEW j \in Instances, NEW s \in Subs,
               s \in todo'[j] \/ (pc'[j] = "send" /\ s = job'[j]), <<s, Minute(slot'[j])>> \in noted'
        PROVE  lagged' \/ s \in stored' \/ <<s, Minute(slot'[j])>> \in unstamped'
    <3>1. s \in todo[j] \/ (pc[j] = "send" /\ s = job[j])
      BY <2>1, <1>1, <1>4
    <3>2. CASE <<s, Minute(slot[j])>> \in noted
      BY <3>1, <3>2, UnsentIs
    <3>3. CASE <<s, Minute(slot[j])>> \in Shot(t)
      <4>1. s = job[t] /\ ~lagged
        BY <3>3, <1>3 DEF mine
      <4>2. pc[j] # "idle" /\ pc[t] # "idle"
        BY <3>1 DEF IInv, Unsent
      <4>3. j = t
        BY <4>1, <4>2, OneTick DEF IInv
      <4>4. s \in todo[t]
        BY <2>1, <4>3, <1>4
      <4> QED
        BY <4>1, <4>4 DEF IInv, Unsent
    <3> QED
      BY <2>1, <3>2, <3>3
  <2>2. /\ \A j \in Instances : pc'[j] \in {"idle", "elected", "schedules"} => todo'[j] = {}
        /\ \A j \in Instances : pc'[j] \in {"send", "stamp"} => job'[j] \notin todo'[j]
    BY <1>1, <1>4 DEF IInv, Unsent
  <2> QED
    BY <2>1, <2>2, UnsentNext
<1>11. Repeated'
  <2> SUFFICES ASSUME NEW s \in Subs, NEW m \in Int, <<s, m>> \in renoted'
               PROVE  Excused(s, m)'
    BY RepeatedNext
  <2>1. CASE <<s, m>> \in renoted
    BY <2>1, <1>8, ExcusedGoesOn DEF IInv, Repeated
  <2>2. CASE <<s, m>> \in Shot(t) \cap noted
    <3>1. s = job[t] /\ m = Minute(slot[t]) /\ <<s, m>> \in noted
      BY <2>2, <1>3 DEF mine
    <3>2. lagged \/ s \in stored \/ <<s, m>> \in unstamped
      BY <3>1, UnsentIs
    <3> QED
      BY <3>2, ExcusedNext
  <2> QED
    BY <2>1, <2>2
<1> QED
  BY <1>5, <1>6, <1>7, <1>9, <1>10, <1>11 DEF IInv

LEMMA SendKeeps ==
  ASSUME IInv, NEW t \in Threads, Send(t)
  PROVE  IInv'
<1>1. /\ pc[t] = "send"
      /\ UNCHANGED <<clock, up, row, leader, todo, slot, crashes, wanted, stored, lagged, unstamped>>
      /\ \/ /\ Goto(t, "stamp") /\ UNCHANGED <<job, copy>>
            /\ noted' = noted \cup Shot(t) /\ renoted' = renoted \cup (Shot(t) \cap noted)
         \/ Goto(t, IF t \in Instances THEN "loop" ELSE "idle") /\ Forget(t) /\ UNCHANGED <<noted, renoted>>
  BY DEF Send, tickVars, Back
<1>2. RowsGoOn /\ ExcusesGoOn /\ row' \in [Subs -> Row] /\ AsWanted' /\ \A s \in Subs : row'[s].last <= clock
  BY <1>1 DEF RowsGoOn, ExcusesGoOn, IInv, Shape, AsWanted, Past
<1>3. CASE t \in Instances
  <2>1. CASE /\ Goto(t, "stamp") /\ UNCHANGED <<job, copy>>
             /\ noted' = noted \cup Shot(t) /\ renoted' = renoted \cup (Shot(t) \cap noted)
    BY <1>1, <1>3, <2>1, TickSends
  <2>2. CASE Goto(t, "loop") /\ Forget(t) /\ UNCHANGED <<noted, renoted>>
    <3>1. \A j \in Instances \ {t} : pc'[j] = pc[j] /\ job'[j] = job[j]
      BY <2>2, <1>2, ThreadForgets DEF IInv, Threads
    <3>2. StampsGoOn
      BY <3>1, <1>1 DEF StampsGoOn
    <3> QED
      BY <1>1, <1>2, <1>3, <2>2, <3>2, TickGoesOn
  <2> QED
    BY <1>1, <1>3, <2>1, <2>2
<1>4. CASE t \in Requests
  <2>1. t \notin Instances /\ \A i \in Instances : i \in Threads \ {t}
    BY <1>4, SubscriptionAssumption DEF Threads
  <2>2. Shot(t) = {}
    BY <2>1 DEF Shot
  <2>3. noted' = noted /\ renoted' = renoted
    BY <1>1, <2>2
  <2>4. CASE Goto(t, "stamp") /\ UNCHANGED <<job, copy>>
    <3>1. pc' \in [Threads -> Points] /\ pc'[t] = "stamp" /\ \A u \in Threads \ {t} : pc'[u] = pc[u]
      BY <2>4 DEF IInv, Shape, Goto, Points
    <3>2. Shape' /\ Past'
      BY <1>1, <2>1, <2>3, <2>4, <3>1 DEF IInv, Shape, Past, Points, AtWork
    <3>3. \A i \in Instances : pc'[i] = pc[i] /\ job'[i] = job[i]
      BY <2>1, <2>4, <3>1
    <3>4. Leads' /\ Sent' /\ Unsent' /\ Repeated'
      BY <1>1, <1>2, <2>3, <3>3, ForeignStep
    <3> QED
      BY <1>2, <3>2, <3>4 DEF IInv
  <2>5. CASE Goto(t, "idle") /\ Forget(t)
    <3>1. Shape' /\ Past'
      BY <1>1, <1>2, <2>3, <2>5, ThreadForgets DEF IInv, Shape, Past, Points
    <3>2. \A i \in Instances : pc'[i] = pc[i] /\ job'[i] = job[i]
      BY <1>2, <2>1, <2>5, ThreadForgets DEF IInv
    <3>3. Leads' /\ Sent' /\ Unsent' /\ Repeated'
      BY <1>1, <1>2, <2>3, <3>2, ForeignStep
    <3> QED
      BY <1>2, <3>1, <3>3 DEF IInv
  <2> QED
    BY <1>1, <2>1, <2>4, <2>5
<1> QED
  BY <1>3, <1>4 DEF Threads

LEMMA StampKeeps ==
  ASSUME IInv, NEW t \in Threads, Stamp(t)
  PROVE  IInv'
<1> DEFINE new == [copy[t] EXCEPT !.last = clock]
<1>1. /\ pc[t] = "stamp" /\ Forget(t)
      /\ Goto(t, IF t \in Instances THEN "loop" ELSE "idle")
      /\ UNCHANGED <<clock, up, leader, todo, slot, crashes, wanted, lagged, noted, renoted>>
      /\ \/ StoreCopy(t, new) /\ UNCHANGED unstamped
         \/ unstamped' = unstamped \cup Shot(t) /\ UNCHANGED <<row, stored>>
  BY DEF Stamp, tickVars, Back
<1>2. /\ copy[t] \in Row /\ job[t] \in Subs /\ pc[t] \in AtWork /\ row[job[t]] \in Row
      /\ row[job[t]].state # "none" /\ copy[t].state \in {"on", "off"} /\ clock \in Nat
  BY <1>1 DEF IInv, Shape, AtWork
<1>3. new \in Row /\ new.state = copy[t].state /\ new.last = clock
  BY <1>2 DEF Row
<1> HIDE DEF new
<1>4. /\ row' \in [Subs -> Row] /\ RowsGoOn /\ ExcusesGoOn /\ AsWanted'
      /\ \A s \in Subs : row'[s].last <= clock
      /\ StoreCopy(t, new) => row'[job[t]].state = "gone" \/ row'[job[t]].last = clock
  <2>1. CASE unstamped' = unstamped \cup Shot(t) /\ UNCHANGED <<row, stored>> /\ ~StoreCopy(t, new)
    BY <1>1, <2>1 DEF IInv, Shape, RowsGoOn, ExcusesGoOn, AsWanted, Past
  <2>2. CASE StoreCopy(t, new)
    <3>1. row' \in [Subs -> Row] /\ RowsGoOn /\ \A s \in Subs : row'[s].last <= clock
      BY <1>2, <1>3, <2>2, StoredGoesOn, StoreIs DEF IInv
    <3>2. /\ \A s \in Subs \ {job[t]} : row'[s] = row[s]
          /\ Exists(job[t]) => row'[job[t]] = new /\ (row[job[t]] # copy[t] => job[t] \in stored')
          /\ ~Exists(job[t]) => row' = row
          /\ \A s : s \in stored => s \in stored'
      BY <1>2, <1>3, <2>2, StoreIs DEF IInv
    <3>3. ~Exists(job[t]) => row[job[t]].state = "gone"
      BY <1>2 DEF Exists, Row
    <3>4. AsWanted'
      BY <1>1, <1>2, <1>3, <3>2 DEF IInv, AsWanted
    <3>5. ExcusesGoOn
      BY <1>1, <3>2 DEF ExcusesGoOn
    <3> QED
      BY <1>3, <3>1, <3>2, <3>3, <3>4, <3>5
  <2> QED
    BY <1>1, <2>1, <2>2
<1>5. CASE t \in Instances
  <2>1. \A j \in Instances \ {t} : pc'[j] = pc[j] /\ job'[j] = job[j]
    BY <1>1, <1>4, <1>5, ThreadForgets DEF IInv, Threads
  <2>2. \/ lagged' \/ <<job[t], Minute(slot[t])>> \in unstamped'
        \/ row'[job[t]].state = "gone"
        \/ row'[job[t]].last # Never /\ Minute(slot[t]) <= Minute(row'[job[t]].last)
    <3>1. CASE StoreCopy(t, new)
      <4>1. slot[t] \in Int /\ slot[t] <= clock /\ clock \in Int /\ clock # Never
        BY <1>2, <1>5 DEF IInv, Shape, Past, Never
      <4>2. Minute(slot[t]) <= Minute(clock)
        BY <4>1, Minutes
      <4> QED
        BY <1>4, <3>1, <4>1, <4>2
    <3>2. CASE unstamped' = unstamped \cup Shot(t)
      BY <1>1, <1>5, <3>2 DEF Shot
    <3> QED
      BY <1>1, <3>1, <3>2
  <2>3. StampsGoOn
    BY <1>1, <2>1, <2>2 DEF StampsGoOn
  <2> QED
    BY <1>1, <1>4, <1>5, <2>3, TickGoesOn
<1>6. CASE t \in Requests
  <2>1. t \notin Instances /\ \A i \in Instances : i \in Threads \ {t}
    BY <1>6, SubscriptionAssumption DEF Threads
  <2>2. Shape' /\ Past'
    BY <1>1, <1>4, <2>1, ThreadForgets DEF IInv, Shape, Past, Points
  <2>3. \A i \in Instances : pc'[i] = pc[i] /\ job'[i] = job[i]
    BY <1>1, <1>4, <2>1, ThreadForgets DEF IInv
  <2>4. Leads' /\ Sent' /\ Unsent' /\ Repeated'
    BY <1>1, <1>4, <2>3, ForeignStep
  <2> QED
    BY <1>4, <2>2, <2>4 DEF IInv
<1> QED
  BY <1>5, <1>6 DEF Threads

----------------------------------------------------------------------------
(* The tick. *)

Resting == {"idle", "elected", "schedules", "loop"}

\* A tick that goes from one point to another, with no subscription in hand.
LEMMA TickMoves ==
  ASSUME IInv, NEW i \in Instances, NEW point \in Resting, pc[i] \in Resting, Goto(i, point),
         UNCHANGED <<clock, row, job, copy, wanted, stored, noted, renoted, unstamped>>,
         leader' \in LR!Lease, todo' \in [Instances -> SUBSET Subs], slot' \in [Instances -> Nat],
         slot'[i] <= clock, \A j \in Instances \ {i} : slot'[j] = slot[j],
         lagged' \in BOOLEAN, lagged => lagged'
  PROVE  /\ Shape' /\ AsWanted' /\ Past' /\ RowsGoOn /\ ExcusesGoOn /\ StampsGoOn
         /\ pc'[i] = point /\ \A j \in Instances \ {i} : pc'[j] = pc[j]
<1>1. i \in Threads /\ \A j \in Instances : j \in Threads
  BY DEF Threads
<1>2. pc' \in [Threads -> Points] /\ pc'[i] = point /\ \A u \in Threads \ {i} : pc'[u] = pc[u]
  BY <1>1 DEF IInv, Shape, Goto, Points, Resting
<1>3. Shape'
  <2>1. \A j \in Instances : pc'[j] \notin {"on", "off"}
    BY <1>1, <1>2 DEF IInv, Shape, Resting
  <2>2. \A u \in Threads : pc'[u] \in AtWork =>
          job[u] \in Subs /\ row[job[u]].state # "none" /\ copy[u].state \in {"on", "off"}
    BY <1>2 DEF IInv, Shape, AtWork, Resting
  <2> QED
    BY <1>2, <2>1, <2>2 DEF IInv, Shape, Points
<1>4. AsWanted' /\ Past'
  BY DEF IInv, AsWanted, Past
<1>5. RowsGoOn /\ ExcusesGoOn
  BY DEF RowsGoOn, ExcusesGoOn, IInv, Shape
<1>6. StampsGoOn
  BY <1>1, <1>2 DEF StampsGoOn, Resting
<1> QED
  BY <1>1, <1>2, <1>3, <1>4, <1>5, <1>6

LEMMA UnsentGoesOn ==
  ASSUME IInv, NEW i \in Instances, NEW point \in Resting, pc[i] \in Resting, pc'[i] = point,
         \A j \in Instances \ {i} : pc'[j] = pc[j] /\ slot'[j] = slot[j] /\ todo'[j] = todo[j],
         UNCHANGED <<job, stored, noted, unstamped>>, ExcusesGoOn,
         point # "loop" => todo'[i] = {},
         todo'[i] = {} \/ (slot'[i] = slot[i] /\ todo'[i] \subseteq todo[i])
  PROVE  Unsent'
<1>1. \A j \in Instances, s \in Subs :
        s \in todo'[j] \/ (pc'[j] = "send" /\ s = job'[j]) =>
          (<<s, Minute(slot'[j])>> \in noted' =>
             lagged' \/ s \in stored' \/ <<s, Minute(slot'[j])>> \in unstamped')
  BY UnsentIs DEF ExcusesGoOn, Resting
<1>2. /\ \A j \in Instances : pc'[j] \in {"idle", "elected", "schedules"} => todo'[j] = {}
      /\ \A j \in Instances : pc'[j] \in {"send", "stamp"} => job'[j] \notin todo'[j]
  BY DEF IInv, Unsent, Resting
<1> QED
  BY <1>1, <1>2, UnsentNext

LEMMA ElectKeeps ==
  ASSUME IInv, NEW i \in Instances, TickElect(i)
  PROVE  IInv'
<1>1. /\ pc[i] = "idle" /\ LR!MayAcquire(leader, i, clock) /\ Goto(i, "elected")
      /\ leader' = [owner |-> i, expires |-> clock + LeaderTTL]
      /\ UNCHANGED <<clock, up, row, job, copy, todo, slot, crashes, wanted, stored, lagged, noted, renoted, unstamped>>
  BY DEF TickElect, history, LR!Acquired
<1>2. clock \in Nat /\ clock + LeaderTTL \in Int /\ clock <= clock + LeaderTTL
  BY LeaseIs DEF IInv, Shape
<1>3. leader' \in LR!Lease /\ leader'.owner = i /\ clock <= leader'.expires /\ i # Ghost
  BY <1>1, <1>2, LeaseIs DEF LR!Lease, IInv
<1>4. /\ Shape' /\ AsWanted' /\ Past' /\ RowsGoOn /\ ExcusesGoOn /\ StampsGoOn
      /\ pc'[i] = "elected" /\ \A j \in Instances \ {i} : pc'[j] = pc[j]
  BY <1>1, <1>3, TickMoves DEF IInv, Shape, Past, Resting
<1>5. ASSUME ~lagged PROVE \A j \in Instances : pc[j] = "idle"
  <2> SUFFICES ASSUME NEW j \in Instances, pc[j] # "idle" PROVE FALSE
    OBVIOUS
  <2>1. leader.owner = j /\ clock <= leader.expires
    BY <1>5 DEF IInv, Leads
  <2>2. LR!Present(leader) /\ leader.expires \in Int
    BY <2>1, LeaseIs DEF IInv
  <2>3. leader.expires < clock \/ leader.owner = i
    BY <1>1, <2>2 DEF LR!MayAcquire, LR!Claimable
  <2> QED
    BY <1>1, <1>2, <2>1, <2>2, <2>3
<1>6. Leads'
  BY <1>1, <1>3, <1>4, <1>5 DEF Leads
<1>7. Unsent'
  BY <1>1, <1>4, UnsentGoesOn DEF IInv, Unsent, Resting
<1>8. Repeated'
  BY <1>1 DEF IInv, Repeated, Excused
<1>9. Sent'
  <2> SUFFICES ASSUME NEW s \in Subs, NEW m \in Int, <<s, m>> \in noted'
               PROVE  row'[s].state # "none" /\ (Excused(s, m)' \/ Settled(s, m)')
    BY SentNext
  <2>1. row[s].state # "none" /\ (Excused(s, m) \/ Settled(s, m))
    BY <1>1 DEF IInv, Sent
  <2>2. CASE Excused(s, m)
    BY <1>1, <1>4, <2>1, <2>2, ExcusedGoesOn
  <2>3. CASE row[s].state = "gone" \/ (row[s].last # Never /\ m <= Minute(row[s].last))
    BY <1>1, <2>1, <2>3, SettledNext
  <2>4. CASE \E j \in Instances : pc[j] = "stamp" /\ job[j] = s /\ Minute(slot[j]) = m
    BY <1>1, <1>4, <2>1, <2>4, SettledNext
  <2>5. CASE m < Minute(clock)
    BY <1>1, <2>1, <2>5, SettledNext
  <2>6. CASE leader.owner = Ghost /\ m < Minute(leader.expires + 1)
    <3>1. LR!Present(leader) /\ leader.expires \in Int /\ leader.owner # i
      BY <2>6, <1>3, LeaseIs DEF IInv
    <3>2. leader.expires + 1 <= clock
      BY <1>1, <1>2, <3>1 DEF LR!MayAcquire, LR!Claimable
    <3>3. /\ Minute(leader.expires + 1) <= Minute(clock)
          /\ Minute(clock) \in Int /\ Minute(leader.expires + 1) \in Int
      BY <3>1, <3>2, <1>2, Minutes
    <3> QED
      BY <1>1, <2>1, <2>6, <3>3, SettledNext
  <2> QED
    BY <2>1, <2>2, <2>3, <2>4, <2>5, <2>6 DEF Settled
<1> QED
  BY <1>4, <1>6, <1>7, <1>8, <1>9 DEF IInv

LEMMA StartKeeps ==
  ASSUME IInv, NEW i \in Instances, TickStart(i)
  PROVE  IInv'
<1>1. /\ pc[i] = "elected" /\ Goto(i, "schedules")
      /\ slot' = [slot EXCEPT ![i] = clock]
      /\ lagged' = (lagged \/ clock + MinuteLen > leader.expires + 1)
      /\ UNCHANGED <<clock, up, leader, row, job, copy, todo, crashes, wanted, stored, noted, renoted, unstamped>>
  BY DEF TickStart
<1>2. /\ slot' \in [Instances -> Nat] /\ slot'[i] = clock /\ clock \in Nat
      /\ \A j \in Instances \ {i} : slot'[j] = slot[j]
  BY <1>1 DEF IInv, Shape
<1>3. /\ Shape' /\ AsWanted' /\ Past' /\ RowsGoOn /\ ExcusesGoOn /\ StampsGoOn
      /\ pc'[i] = "schedules" /\ \A j \in Instances \ {i} : pc'[j] = pc[j]
  BY <1>1, <1>2, TickMoves DEF IInv, Shape, Resting
<1>4. Leads'
  <2>1. MinuteLen \in Int /\ leader.expires \in Int
    BY LeaseIs DEF IInv
  <2>2. ASSUME ~lagged', NEW j \in Instances, pc'[j] # "idle"
        PROVE  /\ leader.owner = j /\ clock <= leader.expires
               /\ pc'[j] # "elected" => slot'[j] + MinuteLen <= leader.expires + 1
    <3>1. ~lagged /\ ~(clock + MinuteLen > leader.expires + 1)
      BY <1>1, <2>2
    <3>2. clock + MinuteLen <= leader.expires + 1
      BY <1>2, <2>1, <3>1
    <3>3. CASE j = i
      BY <1>1, <1>2, <3>1, <3>2, <3>3 DEF IInv, Leads
    <3>4. CASE j # i
      BY <1>2, <1>3, <2>2, <3>1, <3>4 DEF IInv, Leads
    <3> QED
      BY <3>3, <3>4
  <2> QED
    BY <1>1, <2>2 DEF Leads
<1>5. Unsent'
  BY <1>1, <1>2, <1>3, UnsentGoesOn DEF IInv, Unsent, Resting
<1>6. Sent' /\ Repeated'
  BY <1>1, <1>2, <1>3, QuietStep DEF IInv, Shape, LeaseGoesOn
<1> QED
  BY <1>3, <1>4, <1>5, <1>6 DEF IInv

\* The tick is over, or ends before its list.
LEMMA EndKeeps ==
  ASSUME IInv, NEW i \in Instances, TickEnds(i) \/ TickDone(i)
  PROVE  IInv'
<1>1. /\ pc[i] \in Resting /\ Goto(i, "idle") /\ todo[i] = {}
      /\ slot' = [slot EXCEPT ![i] = 0]
      /\ UNCHANGED <<clock, up, leader, row, job, copy, todo, crashes, wanted, stored, lagged, noted, renoted, unstamped>>
  BY DEF TickEnds, TickDone, history, Resting, IInv, Unsent
<1>2. /\ slot' \in [Instances -> Nat] /\ slot'[i] = 0 /\ clock \in Nat
      /\ \A j \in Instances \ {i} : slot'[j] = slot[j]
  BY <1>1 DEF IInv, Shape
<1>3. /\ Shape' /\ AsWanted' /\ Past' /\ RowsGoOn /\ ExcusesGoOn /\ StampsGoOn
      /\ pc'[i] = "idle" /\ \A j \in Instances \ {i} : pc'[j] = pc[j]
  BY <1>1, <1>2, TickMoves DEF IInv, Shape, Resting
<1>4. Leads'
  BY <1>1, <1>2, <1>3 DEF IInv, Leads
<1>5. Unsent'
  BY <1>1, <1>2, <1>3, UnsentGoesOn DEF Resting
<1>6. Sent' /\ Repeated'
  BY <1>1, <1>2, <1>3, QuietStep DEF IInv, Shape, LeaseGoesOn
<1> QED
  BY <1>3, <1>4, <1>5, <1>6 DEF IInv

LEMMA ListKeeps ==
  ASSUME IInv, NEW i \in Instances, TickList(i)
  PROVE  IInv'
<1>1. /\ pc[i] = "schedules" /\ Goto(i, "loop")
      /\ todo' = [todo EXCEPT ![i] = {s \in Subs : row[s].state = "on" /\ Due(s, slot[i])}]
      /\ lagged' = (lagged \/ Minute(slot[i]) # Minute(clock))
      /\ UNCHANGED <<clock, up, leader, row, job, copy, slot, crashes, wanted, stored, noted, renoted, unstamped>>
  BY DEF TickList
<1>2. /\ todo' \in [Instances -> SUBSET Subs]
      /\ \A s : s \in todo'[i] => s \in Subs /\ row[s].state = "on" /\ Due(s, slot[i])
      /\ \A j \in Instances \ {i} : todo'[j] = todo[j]
  BY <1>1 DEF IInv, Shape
<1>3. lagged' \in BOOLEAN /\ (lagged => lagged') /\ (~lagged' => Minute(slot[i]) = Minute(clock))
  BY <1>1 DEF IInv, Shape
<1>4. /\ Shape' /\ AsWanted' /\ Past' /\ RowsGoOn /\ ExcusesGoOn /\ StampsGoOn
      /\ pc'[i] = "loop" /\ \A j \in Instances \ {i} : pc'[j] = pc[j]
  BY <1>1, <1>2, <1>3, TickMoves DEF IInv, Shape, Past, Resting
<1>5. Leads'
  BY <1>1, <1>3, <1>4 DEF IInv, Leads
<1>6. Sent' /\ Repeated'
  BY <1>1, <1>2, <1>4, QuietStep DEF IInv, Shape, LeaseGoesOn
<1>7. ASSUME NEW s \in Subs, s \in todo'[i], <<s, Minute(slot[i])>> \in noted
      PROVE  lagged' \/ s \in stored \/ <<s, Minute(slot[i])>> \in unstamped
  <2> SUFFICES ASSUME ~lagged', ~Excused(s, Minute(slot[i])) PROVE FALSE
    BY <1>3 DEF Excused
  <2> DEFINE m == Minute(slot[i])
  <2>1. ~lagged /\ m = Minute(clock) /\ m \in Int /\ clock \in Int
    BY <1>3, Minutes DEF IInv, Shape
  <2>2. row[s].last \in Int /\ row[s].last <= clock /\ row[s].state = "on"
    BY <1>2, <1>7 DEF IInv, Shape, Past, Row
  <2>3. row[s].last = Never \/ Minute(row[s].last) # m
    BY <1>2, <1>7 DEF Due
  <2>4. <<s, m>> \in noted /\ ~Excused(s, m)
    BY <1>7
  <2> HIDE DEF m
  <2>5. Settled(s, m)
    BY <2>1, <2>4 DEF IInv, Sent
  <2>6. ~(row[s].last # Never /\ m <= Minute(row[s].last))
    <3>1. Minute(row[s].last) <= Minute(clock) /\ Minute(row[s].last) \in Int
      BY <2>1, <2>2, Minutes
    <3> QED
      BY <2>1, <2>3, <3>1
  <2>7. ~\E j \in Instances : pc[j] = "stamp"
    BY <1>1, <2>1, OneTick DEF IInv
  <2>8. leader.owner # Ghost
    BY <1>1, <2>1, LeaseIs DEF IInv, Leads
  <2>9. ~(m < Minute(clock))
    BY <2>1
  <2> QED
    BY <2>2, <2>5, <2>6, <2>7, <2>8, <2>9 DEF Settled
<1>8. Unsent'
  <2>1. ASSUME NEW j \in Instances, NEW s \in Subs,
               s \in todo'[j] \/ (pc'[j] = "send" /\ s = job'[j]), <<s, Minute(slot'[j])>> \in noted'
        PROVE  lagged' \/ s \in stored' \/ <<s, Minute(slot'[j])>> \in unstamped'
    <3>1. CASE j = i
      BY <1>1, <1>4, <1>7, <2>1, <3>1
    <3>2. CASE j # i
      <4>1. s \in todo[j] \/ (pc[j] = "send" /\ s = job[j])
        BY <1>1, <1>2, <1>4, <2>1, <3>2
      <4> QED
        BY <1>1, <1>3, <2>1, <4>1, UnsentIs
    <3> QED
      BY <3>1, <3>2
  <2>2. /\ \A j \in Instances : pc'[j] \in {"idle", "elected", "schedules"} => todo'[j] = {}
        /\ \A j \in Instances : pc'[j] \in {"send", "stamp"} => job'[j] \notin todo'[j]
    BY <1>1, <1>2, <1>4 DEF IInv, Unsent
  <2> QED
    BY <2>1, <2>2, UnsentNext
<1> QED
  BY <1>4, <1>5, <1>6, <1>8 DEF IInv

LEMMA NextKeeps ==
  ASSUME IInv, NEW i \in Instances, TickNext(i)
  PROVE  IInv'
<1>1. PICK s \in todo[i] :
        /\ todo' = [todo EXCEPT ![i] = @ \ {s}]
        /\ \/ /\ Exists(s) /\ Goto(i, "send")
              /\ job' = [job EXCEPT ![i] = s] /\ copy' = [copy EXCEPT ![i] = row[s]]
           \/ UNCHANGED <<pc, job, copy>>
  BY DEF TickNext
<1>2. /\ pc[i] = "loop"
      /\ UNCHANGED <<clock, up, leader, row, slot, crashes, wanted, stored, lagged, noted, renoted, unstamped>>
  BY DEF TickNext, history
<1>3. /\ todo' \in [Instances -> SUBSET Subs] /\ todo'[i] = todo[i] \ {s} /\ s \in Subs
      /\ \A j \in Instances \ {i} : todo'[j] = todo[j]
  BY <1>1 DEF IInv, Shape
<1>4. i \in Threads /\ \A j \in Instances : j \in Threads
  BY DEF Threads
<1>5. CASE UNCHANGED <<pc, job, copy>>
  <2>1. Shape' /\ AsWanted' /\ Past' /\ Leads'
    BY <1>2, <1>3, <1>5 DEF IInv, Shape, AsWanted, Past, Leads
  <2>2. RowsGoOn /\ ExcusesGoOn /\ StampsGoOn
    BY <1>2, <1>5 DEF RowsGoOn, ExcusesGoOn, StampsGoOn
  <2>3. Sent' /\ Repeated'
    BY <1>2, <2>1, <2>2, QuietStep DEF IInv, Shape, LeaseGoesOn
  <2>4. Unsent'
    BY <1>2, <1>3, <1>5, <2>2, UnsentGoesOn DEF Resting
  <2> QED
    BY <2>1, <2>3, <2>4 DEF IInv
<1>6. CASE /\ Exists(s) /\ Goto(i, "send")
           /\ job' = [job EXCEPT ![i] = s] /\ copy' = [copy EXCEPT ![i] = row[s]]
  <2>1. /\ pc' \in [Threads -> Points] /\ job' \in [Threads -> Subs \cup {NoSub}]
        /\ copy' \in [Threads -> Row]
        /\ pc'[i] = "send" /\ job'[i] = s /\ copy'[i] = row[s]
        /\ \A u \in Threads \ {i} : pc'[u] = pc[u] /\ job'[u] = job[u] /\ copy'[u] = copy[u]
    BY <1>3, <1>4, <1>6 DEF IInv, Shape, Goto, Points
  <2>2. Shape'
    <3>1. \A j \in Instances : pc'[j] \notin {"on", "off"}
      BY <1>4, <2>1 DEF IInv, Shape
    <3>2. \A u \in Threads : pc'[u] \in AtWork =>
            job'[u] \in Subs /\ row[job'[u]].state # "none" /\ copy'[u].state \in {"on", "off"}
      BY <1>3, <1>6, <2>1 DEF IInv, Shape, Exists
    <3> QED
      BY <1>2, <1>3, <2>1, <3>1, <3>2 DEF IInv, Shape, Points
  <2>3. AsWanted'
    BY <1>2 DEF IInv, AsWanted
  <2>4. Past'
    BY <1>2, <1>3, <2>1 DEF IInv, Past
  <2>5. Leads'
    BY <1>2, <1>4, <2>1 DEF IInv, Leads
  <2>6. RowsGoOn /\ ExcusesGoOn /\ StampsGoOn
    BY <1>2, <1>4, <2>1 DEF RowsGoOn, ExcusesGoOn, StampsGoOn
  <2>7. Sent' /\ Repeated'
    BY <1>2, <2>2, <2>6, QuietStep DEF IInv, Shape, LeaseGoesOn
  <2>8. Unsent'
    <3>1. \A j \in Instances, z \in Subs :
            z \in todo'[j] \/ (pc'[j] = "send" /\ z = job'[j]) => z \in todo[j] \/ (pc[j] = "send" /\ z = job[j])
      BY <1>1, <1>3, <1>4, <2>1
    <3>2. \A j \in Instances, z \in Subs :
            z \in todo'[j] \/ (pc'[j] = "send" /\ z = job'[j]) =>
              (<<z, Minute(slot'[j])>> \in noted' =>
                 lagged' \/ z \in stored' \/ <<z, Minute(slot'[j])>> \in unstamped')
      BY <1>2, <3>1, UnsentIs
    <3>3. /\ \A j \in Instances : pc'[j] \in {"idle", "elected", "schedules"} => todo'[j] = {}
          /\ \A j \in Instances : pc'[j] \in {"send", "stamp"} => job'[j] \notin todo'[j]
      BY <1>3, <1>4, <2>1 DEF IInv, Unsent
    <3> QED
      BY <3>2, <3>3, UnsentNext
  <2> QED
    BY <2>2, <2>3, <2>4, <2>5, <2>7, <2>8 DEF IInv
<1> QED
  BY <1>1, <1>5, <1>6

----------------------------------------------------------------------------
(* Time and crashes. *)

LEMMA TimeKeeps ==
  ASSUME IInv, Tick
  PROVE  IInv'
<1>1. /\ clock' = clock + 1
      /\ lagged' = (lagged \/ (clock' > leader.expires /\ \E i \in Instances : pc[i] # "idle"))
      /\ UNCHANGED <<up, row, pc, job, copy, leader, todo, slot, crashes, wanted, stored, noted, renoted, unstamped>>
  BY DEF Tick, tickVars
<1>2. clock \in Nat /\ clock' \in Nat /\ clock <= clock' /\ leader.expires \in Int
  BY <1>1, LeaseIs DEF IInv, Shape
<1>3. Shape' /\ AsWanted'
  BY <1>1, <1>2 DEF IInv, Shape, AsWanted
<1>4. Past'
  <2>1. /\ \A s \in Subs : row[s].last \in Int
        /\ \A t \in Threads : copy[t].last \in Int
        /\ \A i \in Instances : slot[i] \in Int
    BY DEF IInv, Shape, Row
  <2> QED
    BY <1>1, <1>2, <2>1 DEF IInv, Past
<1>5. RowsGoOn /\ ExcusesGoOn /\ StampsGoOn
  BY <1>1 DEF RowsGoOn, ExcusesGoOn, StampsGoOn
<1>6. Leads'
  <2>1. ~lagged' /\ (\E i \in Instances : pc[i] # "idle") => ~lagged /\ clock' <= leader.expires
    <3>1. clock' <= leader.expires \/ clock' > leader.expires
      BY <1>2
    <3> QED
      BY <1>1, <3>1
  <2> QED
    BY <1>1, <2>1 DEF IInv, Leads
<1>7. Sent' /\ Repeated'
  BY <1>1, <1>2, <1>5, QuietStep DEF IInv, Shape, LeaseGoesOn
<1>8. Unsent'
  <2>1. \A j \in Instances, s \in Subs :
          s \in todo'[j] \/ (pc'[j] = "send" /\ s = job'[j]) =>
            (<<s, Minute(slot'[j])>> \in noted' =>
               lagged' \/ s \in stored' \/ <<s, Minute(slot'[j])>> \in unstamped')
    BY <1>1, UnsentIs
  <2>2. /\ \A j \in Instances : pc'[j] \in {"idle", "elected", "schedules"} => todo'[j] = {}
        /\ \A j \in Instances : pc'[j] \in {"send", "stamp"} => job'[j] \notin todo'[j]
    BY <1>1 DEF IInv, Unsent
  <2> QED
    BY <2>1, <2>2, UnsentNext
<1> QED
  BY <1>3, <1>4, <1>6, <1>7, <1>8 DEF IInv

LEMMA CrashKeeps ==
  ASSUME IInv, NEW i \in Instances, Crash(i)
  PROVE  IInv'
<1>1. /\ Goto(i, "idle") /\ Forget(i)
      /\ todo' = [todo EXCEPT ![i] = {}]
      /\ slot' = [slot EXCEPT ![i] = 0]
      /\ leader' = IF leader.owner = i /\ ~StableID THEN [leader EXCEPT !.owner = Ghost] ELSE leader
      /\ unstamped' = IF StableID /\ pc[i] = "stamp" THEN unstamped \cup Shot(i) ELSE unstamped
      /\ UNCHANGED <<clock, row, wanted, stored, lagged, noted, renoted>>
  BY DEF Crash
<1>2. i \in Threads /\ \A j \in Instances : j \in Threads
  BY DEF Threads
<1>3. RowsGoOn /\ ExcusesGoOn /\ row' \in [Subs -> Row]
  BY <1>1 DEF RowsGoOn, ExcusesGoOn, IInv, Shape
<1>4. /\ pc'[i] = "idle" /\ todo'[i] = {} /\ slot'[i] = 0
      /\ todo' \in [Instances -> SUBSET Subs] /\ slot' \in [Instances -> Nat]
      /\ \A j \in Instances \ {i} :
           pc'[j] = pc[j] /\ job'[j] = job[j] /\ todo'[j] = todo[j] /\ slot'[j] = slot[j]
  BY <1>1, <1>2, <1>3, ThreadForgets DEF IInv, Shape
<1>5. /\ leader' \in LR!Lease /\ leader'.expires = leader.expires
      /\ IF leader.owner = i /\ ~StableID THEN leader'.owner = Ghost ELSE leader'.owner = leader.owner
  <2>1. CASE leader.owner = i /\ ~StableID
    <3>1. leader \in [owner : Instances \cup {Ghost}, expires : Int]
      BY <2>1, LeaseIs DEF IInv, Shape, LR!Lease, LR!Present
    <3> QED
      BY <1>1, <2>1, <3>1 DEF LR!Lease
  <2>2. CASE ~(leader.owner = i /\ ~StableID)
    BY <1>1, <2>2 DEF IInv, Shape
  <2> QED
    BY <2>1, <2>2
<1>6. Shape' /\ AsWanted' /\ Past'
  <2>1. \A j \in Instances : slot'[j] <= clock
    BY <1>4 DEF IInv, Shape, Past
  <2> QED
    BY <1>1, <1>2, <1>3, <1>4, <1>5, <2>1, ThreadForgets DEF IInv, Shape, AsWanted, Past, Points
<1>7. Leads'
  BY <1>1, <1>4, <1>5 DEF IInv, Leads
<1>8. LeaseGoesOn
  BY <1>5, LeaseIs DEF LeaseGoesOn, IInv
<1>9. StampsGoOn
  <2> SUFFICES ASSUME pc[i] = "stamp", ~lagged, ~StableID
               PROVE  leader'.owner = Ghost /\ Minute(slot[i]) < Minute(leader'.expires + 1)
    BY <1>1, <1>4 DEF StampsGoOn, Shot
  <2>1. leader.owner = i /\ slot[i] + MinuteLen <= leader.expires + 1
    BY DEF IInv, Leads
  <2>2. slot[i] \in Int /\ leader.expires + 1 \in Int
    BY LeaseIs DEF IInv, Shape
  <2>3. Minute(slot[i]) < Minute(leader.expires + 1)
    BY <2>1, <2>2, Minutes
  <2> QED
    BY <1>5, <2>1, <2>3
<1>10. Sent' /\ Repeated'
  BY <1>1, <1>3, <1>8, <1>9, QuietStep DEF IInv, Shape
<1>11. Unsent'
  <2>1. \A j \in Instances, s \in Subs :
          s \in todo'[j] \/ (pc'[j] = "send" /\ s = job'[j]) =>
            (<<s, Minute(slot'[j])>> \in noted' =>
               lagged' \/ s \in stored' \/ <<s, Minute(slot'[j])>> \in unstamped')
    BY <1>1, <1>3, <1>4, UnsentIs DEF ExcusesGoOn
  <2>2. /\ \A j \in Instances : pc'[j] \in {"idle", "elected", "schedules"} => todo'[j] = {}
        /\ \A j \in Instances : pc'[j] \in {"send", "stamp"} => job'[j] \notin todo'[j]
    BY <1>4 DEF IInv, Unsent
  <2> QED
    BY <2>1, <2>2, UnsentNext
<1> QED
  BY <1>6, <1>7, <1>10, <1>11 DEF IInv

LEMMA NothingHappens ==
  ASSUME IInv,
         UNCHANGED <<clock, leader, row, pc, job, copy, todo, slot, wanted, stored, lagged, noted, renoted, unstamped>>
  PROVE  IInv'
<1>1. Shape' /\ AsWanted' /\ Past'
  BY DEF IInv, Shape, AsWanted, Past
<1>2. RowsGoOn /\ ExcusesGoOn /\ row' \in [Subs -> Row]
  BY DEF RowsGoOn, ExcusesGoOn, IInv, Shape
<1>3. Leads' /\ Sent' /\ Unsent' /\ Repeated'
  BY <1>2, ForeignStep
<1> QED
  BY <1>1, <1>3 DEF IInv

LEMMA StepKeeps ==
  ASSUME IInv, [Next]_vars
  PROVE  IInv'
<1>1. CASE Tick
  BY <1>1, TimeKeeps
<1>2. CASE Horizon \/ vars' = vars \/ \E i \in Instances : Restart(i)
  BY <1>2, NothingHappens DEF Horizon, vars, Restart, tickVars, history
<1>3. ASSUME NEW i \in Instances, Ticker(i) \/ Crash(i) PROVE IInv'
  BY <1>3, ElectKeeps, StartKeeps, EndKeeps, ListKeeps, NextKeeps, CrashKeeps DEF Ticker
<1>4. ASSUME NEW s \in Subs, HttpCreate(s) \/ HttpDelete(s) PROVE IInv'
  BY <1>4, RowIsCreatedOrDeleted
<1>5. ASSUME NEW r \in Requests, NEW s \in Subs,
             HttpRun(r, s) \/ HttpSwitch(r, s, "on") \/ HttpSwitch(r, s, "off")
      PROVE  IInv'
  BY <1>5, RequestReads
<1>6. ASSUME NEW r \in Requests, SwitchStore(r) \/ RequestDies(r) PROVE IInv'
  BY <1>6, SwitchIsStored, RequestEnds
<1>7. ASSUME NEW t \in Threads, Send(t) \/ Stamp(t) PROVE IInv'
  BY <1>7, SendKeeps, StampKeeps
<1> QED
  BY <1>1, <1>2, <1>3, <1>4, <1>5, <1>6, <1>7 DEF Next

----------------------------------------------------------------------------
\* For any number of instances, requests and subscriptions, whatever fails or
\* dies in between: the row of a subscription is as it was last switched,
\* created or deleted, unless a row was stored over a newer one, and a minute of
\* its cron is notified by one tick, unless a tick lagged, LastRunAt was not
\* stored, or a stale row took it back.
THEOREM SwitchIsKeptAndSentOnce ==
  Spec => []SentAsSwitched
<1>1. Init => IInv
  BY FirstState
<1>2. IInv /\ [Next]_vars => IInv'
  BY StepKeeps
<1>3. IInv => SentAsSwitched
  <2> SUFFICES ASSUME IInv PROVE SentAsSwitched
    OBVIOUS
  <2>1. SwitchLostOnlyToStaleRow
    BY DEF IInv, AsWanted, SwitchLostOnlyToStaleRow
  <2>2. RepeatedOnlyIfLaggedOrStale
    <3> SUFFICES ASSUME NEW n \in renoted PROVE lagged \/ n[1] \in stored \/ n \in unstamped
      BY DEF RepeatedOnlyIfLaggedOrStale
    <3>1. PICK s \in Subs, m \in Int : n = <<s, m>>
      BY DEF IInv, Shape
    <3> QED
      BY <3>1 DEF IInv, Repeated, Excused
  <2> QED
    BY <2>1, <2>2 DEF SentAsSwitched
<1> QED
  BY <1>1, <1>2, <1>3, PTL DEF Spec

=============================================================================
