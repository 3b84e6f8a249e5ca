-------------------------- MODULE ConnectionsProofs --------------------------
(***************************************************************************)
(* No pool and no tunnel gets out of everybody's hands, and one failure of *)
(* the network fails no query, for any number of threads, databases, slots *)
(* and failures.  Where the tunnels matter this is for connections entered *)
(* as a DSN: the other form loses its tunnel.                              *)
(***************************************************************************)
EXTENDS Connections, TLAPS

AsDsn == "fields" \notin Forms

Conns == [pool : Nat \cup {None}, tunnel : Nat \cup {None}]

Shape ==
  /\ databases \in [Ids -> Conns]
  /\ mine \in [Threads -> Conns] /\ old \in [Threads -> Conns]
  /\ used \in [Threads -> Nat \cup {None}]
  /\ reconnect \in [Ids -> Threads \cup {None}]
  /\ opened \in Nat
  /\ pc \in [Threads -> Labels]
  /\ op \in [Threads -> {"none", "query", "connect", "test", "remove"}]
  /\ id \in [Threads -> Ids]
  /\ hits \in [Threads -> Nat]
  /\ overtaken \in [Threads -> BOOLEAN]

----------------------------------------------------------------------------
(* Whose hands a connection is in. *)

\* A recorded connection is open, and its tunnel is the one opened with it.
Fits(c) ==
  /\ c.pool # None => c.pool \in pools
  /\ c.tunnel \in {c.pool, None}
  /\ AsDsn => c.tunnel = c.pool

Apart(c, d) == c.pool = d.pool => c.pool = None

\* One entry of the map or one thread has a connection.
OneHolder ==
  /\ \A i, j \in Ids : i # j => Apart(databases[i], databases[j])
  /\ \A s, t \in Threads : s # t => Apart(mine[s], mine[t]) /\ Apart(old[s], old[t])
  /\ \A i \in Ids, t \in Threads : Apart(databases[i], mine[t]) /\ Apart(databases[i], old[t])
  /\ \A s, t \in Threads : Apart(mine[s], old[t])

HeldBy(n) ==
  \/ \E i \in Ids : databases[i].pool = n
  \/ \E t \in Threads : mine[t].pool = n \/ old[t].pool = n

Hands ==
  /\ \A i \in Ids : Fits(databases[i])
  /\ \A t \in Threads : Fits(mine[t]) /\ Fits(old[t])
  /\ OneHolder
  /\ \A n \in pools : HeldBy(n)
  /\ pools \subseteq 1 .. opened /\ tunnels \subseteq 1 .. opened
  /\ AsDsn => tunnels \subseteq pools

\* A thread holds what it has opened until it stores it, what it replaces until
\* it closes it, and only a query can fail.
Stage(t) ==
  /\ mine[t].pool # None <=> pc[t] \in {"ping", "swap"}
  /\ old[t].pool # None => pc[t] = "closeOld"
  /\ pc[t] \in {"slot", "pick", "run", "pickAgain", "runAgain"} => op[t] = "query"
  /\ pc[t] = "close" => op[t] # "query"

Drained ==
  down = "drained" => (\A t \in Threads : pc[t] = "idle") /\ \A i \in Ids : databases[i].pool = None

----------------------------------------------------------------------------
(* What a query can count on that nobody has overtaken. *)

Current(t) == databases[id[t]].pool

\* No query has given the current connection up.
NoneGivesUp(t) == \A u \in Threads :
  op[u] = "query" /\ id[u] = id[t] /\ pc[u] = "lock" => used[u] # Current(t)

\* No query is replacing it.
NoneReplaces(t) == \A u \in Threads :
  op[u] = "query" /\ id[u] = id[t] => pc[u] \notin {"open", "ping", "swap"}

Undisturbed(t) ==
  /\ Current(t) # None
  /\ pc[t] \in {"slot", "pick"} =>
       \/ hits[t] >= 1
       \/ /\ Current(t) \in tunnels
          /\ \A u \in Threads : pc[u] = "swap" /\ id[u] = id[t] => mine[u].pool \in tunnels
  /\ pc[t] = "run" => used[t] = Current(t) /\ (hits[t] >= 1 \/ Current(t) \in tunnels)
  /\ pc[t] \in {"lock", "open", "ping", "swap", "closeOld", "pickAgain", "runAgain"} => hits[t] >= 1
  /\ hits[t] < 2 =>
       /\ pc[t] \in {"ping", "swap"} => mine[t].pool \in tunnels
       /\ pc[t] = "lock" /\ used[t] # Current(t) /\ Current(t) \in tunnels => NoneGivesUp(t)
       /\ pc[t] \in {"closeOld", "pickAgain", "runAgain"} => Current(t) \in tunnels /\ NoneGivesUp(t)
       /\ pc[t] \in {"pickAgain", "runAgain"} => NoneReplaces(t)
       /\ pc[t] = "runAgain" => used[t] = Current(t)

\* A query replaces a connection under the mutex, and nobody has used the new
\* one before.
Mutex == \A t \in Threads :
  op[t] = "query" /\ pc[t] \in {"open", "ping", "swap", "closeOld"} => reconnect[id[t]] = t

Unused == \A s, t \in Threads : mine[t].pool # None => used[s] # mine[t].pool

KnownUsed == \A t \in Threads : used[t] \in (1 .. opened) \cup {None}

Queries ==
  /\ \A t \in Threads : op[t] = "query" /\ ~overtaken[t] => Undisturbed(t)
  /\ \A t \in Threads : pc[t] = "failed" => hits[t] >= 2 \/ overtaken[t]
  /\ Mutex /\ Unused /\ KnownUsed

Base ==
  /\ Shape
  /\ Hands
  /\ \A t \in Threads : Stage(t)
  /\ Drained

IInv == Base /\ (AsDsn => Queries)

----------------------------------------------------------------------------
(* What a step does to the hands. *)

\* The pools stay, and tunnels end at most.
LEMMA SameHands ==
  ASSUME Hands, UNCHANGED <<databases, mine, old, pools, opened>>, tunnels' \subseteq tunnels
  PROVE  Hands'
BY DEF Hands, OneHolder, HeldBy, Fits, Apart

\* A connection is opened, and held by the thread that opens it.
LEMMA OpenHands ==
  ASSUME Shape, Hands, NEW t \in Threads, mine[t].pool = None,
         UNCHANGED <<databases, old>>, opened' = opened + 1,
         pools' = pools \cup {opened + 1}, tunnels' = tunnels \cup {opened + 1},
         NEW c \in Conns, mine' = [mine EXCEPT ![t] = c],
         c.pool = opened + 1, c.tunnel \in {c.pool, None}, AsDsn => c.tunnel = c.pool
  PROVE  Hands'
<1>1. mine'[t] = c /\ \A s \in Threads : s # t => mine'[s] = mine[s]
  BY DEF Shape
<1>2. opened \in Nat /\ opened + 1 \notin pools
  BY DEF Shape, Hands
<1>3. opened + 1 # None
  BY <1>2, ConnectionsAssumption
<1>4. /\ \A i \in Ids : databases[i].pool # opened + 1
      /\ \A s \in Threads : mine[s].pool # opened + 1 /\ old[s].pool # opened + 1
  BY <1>2, <1>3 DEF Hands, Fits
<1>5. OneHolder'
  BY <1>1, <1>4 DEF Hands, OneHolder, Apart
<1>6. (\A i \in Ids : Fits(databases[i])') /\ \A s \in Threads : Fits(mine[s])' /\ Fits(old[s])'
  BY <1>1 DEF Hands, Fits
<1>7. \A n \in pools' : HeldBy(n)'
  <2>1. ASSUME NEW n, n = opened + 1 PROVE HeldBy(n)'
    BY <1>1, <2>1 DEF HeldBy
  <2>2. ASSUME NEW n \in pools PROVE HeldBy(n)'
    <3>1. HeldBy(n) /\ n # None
      BY <2>2, ConnectionsAssumption DEF Hands, Shape
    <3>2. mine[t].pool # n
      BY <3>1
    <3> QED
      BY <1>1, <3>1, <3>2 DEF HeldBy
  <2> QED
    BY <2>1, <2>2
<1>8. pools' \subseteq 1 .. opened' /\ tunnels' \subseteq 1 .. opened'
  <2> SUFFICES ASSUME NEW n \in pools' \cup tunnels' PROVE n \in 1 .. opened + 1
    OBVIOUS
  <2>1. n \in 1 .. opened \/ n = opened + 1
    BY DEF Hands
  <2> QED
    BY <1>2, <2>1
<1> QED
  BY <1>5, <1>6, <1>7, <1>8 DEF Hands

\* What a thread has opened is closed again.
LEMMA DropMine ==
  ASSUME Shape, Hands, NEW t \in Threads,
         UNCHANGED <<databases, opened>>, \A s \in Threads : old'[s] = old[s],
         mine' = [mine EXCEPT ![t] = NoConnection],
         pools' = pools \ {mine[t].pool}, tunnels' = tunnels \ {mine[t].tunnel}
  PROVE  Hands'
<1>1. mine'[t] = NoConnection /\ \A s \in Threads : s # t => mine'[s] = mine[s]
  BY DEF Shape
<1>2. OneHolder'
  BY <1>1 DEF Hands, OneHolder, Apart, NoConnection
<1>3. (\A i \in Ids : Fits(databases[i])') /\ \A s \in Threads : Fits(mine[s])' /\ Fits(old[s])'
  BY <1>1 DEF Hands, Fits, OneHolder, Apart, NoConnection
<1>4. \A n \in pools' : HeldBy(n)'
  BY <1>1 DEF Hands, HeldBy
<1>5. AsDsn => tunnels' \subseteq pools'
  BY DEF Hands, Fits
<1> QED
  BY <1>2, <1>3, <1>4, <1>5 DEF Hands

\* What a thread has replaced is closed.
LEMMA DropOld ==
  ASSUME Shape, Hands, NEW t \in Threads,
         UNCHANGED <<databases, opened>>, \A s \in Threads : mine'[s] = mine[s],
         old' = [old EXCEPT ![t] = NoConnection],
         pools' = pools \ {old[t].pool}, tunnels' = tunnels \ {old[t].tunnel}
  PROVE  Hands'
<1>1. old'[t] = NoConnection /\ \A s \in Threads : s # t => old'[s] = old[s]
  BY DEF Shape
<1>2. OneHolder'
  BY <1>1 DEF Hands, OneHolder, Apart, NoConnection
<1>3. (\A i \in Ids : Fits(databases[i])') /\ \A s \in Threads : Fits(mine[s])' /\ Fits(old[s])'
  BY <1>1 DEF Hands, Fits, OneHolder, Apart, NoConnection
<1>4. \A n \in pools' : HeldBy(n)'
  BY <1>1 DEF Hands, HeldBy
<1>5. AsDsn => tunnels' \subseteq pools'
  BY DEF Hands, Fits
<1> QED
  BY <1>2, <1>3, <1>4, <1>5 DEF Hands

\* The entry of the map goes to the thread, and what the thread has to the map.
LEMMA SwapHands ==
  ASSUME Shape, Hands, NEW t \in Threads, UNCHANGED <<pools, tunnels, opened>>,
         old[t].pool = None, old' = [old EXCEPT ![t] = databases[id[t]]],
         databases' = [databases EXCEPT ![id[t]] = mine[t]],
         mine'[t] = NoConnection, \A s \in Threads : s # t => mine'[s] = mine[s]
  PROVE  Hands'
<1> DEFINE d == id[t]
<1>1. /\ d \in Ids
      /\ databases'[d] = mine[t] /\ \A i \in Ids : i # d => databases'[i] = databases[i]
      /\ old'[t] = databases[d] /\ \A s \in Threads : s # t => old'[s] = old[s]
  BY DEF Shape
<1> HIDE DEF d
<1>2. /\ \A i \in Ids : Fits(databases[i])
      /\ \A s \in Threads : Fits(mine[s]) /\ Fits(old[s])
      /\ OneHolder
  BY DEF Hands
<1>3. (\A i \in Ids : Fits(databases[i])') /\ \A s \in Threads : Fits(mine[s])' /\ Fits(old[s])'
  BY <1>1, <1>2 DEF Fits, NoConnection
<1>4. \A i, j \in Ids : i # j => Apart(databases'[i], databases'[j])
  BY <1>1, <1>2 DEF OneHolder, Apart
<1>5. \A r, s \in Threads : r # s => Apart(mine'[r], mine'[s]) /\ Apart(old'[r], old'[s])
  BY <1>1, <1>2 DEF OneHolder, Apart, NoConnection
<1>6. \A i \in Ids, s \in Threads : Apart(databases'[i], mine'[s])
  BY <1>1, <1>2 DEF OneHolder, Apart, NoConnection
<1>7. \A i \in Ids, s \in Threads : Apart(databases'[i], old'[s])
  BY <1>1, <1>2 DEF OneHolder, Apart
<1>8. \A r, s \in Threads : Apart(mine'[r], old'[s])
  BY <1>1, <1>2 DEF OneHolder, Apart, NoConnection
<1>9. OneHolder'
  BY <1>4, <1>5, <1>6, <1>7, <1>8 DEF OneHolder, Apart
<1>10. ASSUME NEW n \in pools PROVE HeldBy(n)'
  <2>1. HeldBy(n) /\ n # None
    BY ConnectionsAssumption DEF Hands, Shape
  <2> QED
    BY <1>1, <2>1 DEF HeldBy
<1> QED
  BY <1>3, <1>9, <1>10 DEF Hands

\* All entries of the map are closed.
LEMMA CloseAllHands ==
  ASSUME Shape, Hands, UNCHANGED <<mine, old, opened>>,
         databases' = [i \in Ids |-> NoConnection],
         pools' = pools \ {databases[i].pool : i \in Ids},
         tunnels' = tunnels \ {databases[i].tunnel : i \in Ids}
  PROVE  Hands'
<1>1. \A i \in Ids : databases'[i] = NoConnection
  OBVIOUS
<1>2. OneHolder'
  BY <1>1 DEF Hands, OneHolder, Apart, NoConnection
<1>3. (\A i \in Ids : Fits(databases[i])') /\ \A s \in Threads : Fits(mine[s])' /\ Fits(old[s])'
  BY <1>1 DEF Hands, Fits, OneHolder, Apart, NoConnection
<1>4. \A n \in pools' : HeldBy(n)'
  BY DEF Hands, HeldBy
<1>5. AsDsn => tunnels' \subseteq pools'
  BY DEF Hands, Fits
<1> QED
  BY <1>2, <1>3, <1>4, <1>5 DEF Hands

----------------------------------------------------------------------------
(* The steps, as far as the hands go. *)

\* What a step of t leaves of the other threads.
OthersStay(t) == \A s \in Threads \ {t} :
  /\ pc'[s] = pc[s] /\ op'[s] = op[s] /\ id'[s] = id[s]
  /\ used'[s] = used[s] /\ mine'[s] = mine[s] /\ old'[s] = old[s]

LEMMA BaseStays ==
  ASSUME Base, NEW t \in Threads, OthersStay(t), down' = down, pc[t] # "idle" \/ down = "up",
         Shape', Hands', Stage(t)'
  PROVE  Base'
<1>1. \A s \in Threads : Stage(s)'
  BY DEF Base, Stage, OthersStay
<1>2. Drained'
  BY DEF Base, Drained
<1> QED
  BY <1>1, <1>2 DEF Base

\* A thread that ends has nothing left, and gives its mutex back.
LEMMA EndIs ==
  ASSUME Shape, NEW t \in Threads, NEW label \in Labels, End(t, label)
  PROVE  /\ pc'[t] = label /\ op'[t] = "none" /\ mine'[t] = NoConnection /\ old'[t] = NoConnection
         /\ id'[t] = t /\ used'[t] = None
         /\ OthersStay(t)
         /\ \A i \in Ids : reconnect'[i] = IF reconnect[i] = t THEN None ELSE reconnect[i]
         /\ pc' \in [Threads -> Labels] /\ id' \in [Threads -> Ids]
         /\ op' \in [Threads -> {"none", "query", "connect", "test", "remove"}]
         /\ mine' \in [Threads -> Conns] /\ old' \in [Threads -> Conns]
         /\ used' \in [Threads -> Nat \cup {None}] /\ reconnect' \in [Ids -> Threads \cup {None}]
<1>1. NoConnection \in Conns /\ t \in Ids
  BY DEF NoConnection, Conns, Ids
<1>2. /\ pc'[t] = label /\ pc' \in [Threads -> Labels] /\ op'[t] = "none"
      /\ op' \in [Threads -> {"none", "query", "connect", "test", "remove"}]
      /\ \A s \in Threads \ {t} : pc'[s] = pc[s] /\ op'[s] = op[s]
  BY DEF End, Goto, Shape
<1>3. /\ mine'[t] = NoConnection /\ mine' \in [Threads -> Conns]
      /\ old'[t] = NoConnection /\ old' \in [Threads -> Conns]
      /\ \A s \in Threads \ {t} : mine'[s] = mine[s] /\ old'[s] = old[s]
  BY <1>1 DEF End, Shape
<1>4. /\ id'[t] = t /\ id' \in [Threads -> Ids] /\ used'[t] = None /\ used' \in [Threads -> Nat \cup {None}]
      /\ \A s \in Threads \ {t} : id'[s] = id[s] /\ used'[s] = used[s]
  BY <1>1 DEF End, Shape
<1>5. /\ \A i \in Ids : reconnect'[i] = IF reconnect[i] = t THEN None ELSE reconnect[i]
      /\ reconnect' \in [Ids -> Threads \cup {None}]
  BY DEF End, Shape
<1> QED
  BY <1>2, <1>3, <1>4, <1>5 DEF OthersStay

\* A thread that has nothing ends.
LEMMA EndBase ==
  ASSUME Base, NEW t \in Threads, NEW label \in {"idle", "failed"}, End(t, label), pc[t] # "idle",
         mine[t].pool = None, old[t].pool = None,
         UNCHANGED <<databases, pools, opened, down>>, tunnels' \subseteq tunnels,
         hits' \in [Threads -> Nat], overtaken' \in [Threads -> BOOLEAN]
  PROVE  Base'
<1>1. label \in Labels
  BY DEF Labels
<1>2. Shape'
  BY <1>1, EndIs DEF Base, Shape
<1>3. mine[t] = NoConnection /\ old[t] = NoConnection
  BY ConnectionsAssumption DEF Base, Hands, Fits, NoConnection, Shape, Conns
<1>4. mine' = mine /\ old' = old
  BY <1>3 DEF End, Base, Shape
<1>5. Hands'
  BY <1>4, SameHands DEF Base
<1>6. Stage(t)'
  BY <1>1, EndIs, <1>2 DEF Base, Stage, NoConnection
<1> QED
  BY <1>1, <1>2, <1>5, <1>6, EndIs, BaseStays DEF Base

LEMMA SucceedBase ==
  ASSUME Base, NEW t \in Threads, Succeed(t), pc[t] # "idle", pc[t] \notin {"ping", "swap", "closeOld"}
  PROVE  Base'
<1>1. mine[t].pool = None /\ old[t].pool = None
  BY DEF Base, Stage
<1>2. hits' \in [Threads -> Nat] /\ overtaken' \in [Threads -> BOOLEAN]
  BY DEF Succeed, Base, Shape
<1> QED
  BY <1>1, <1>2, EndBase DEF Succeed

LEMMA FailBase ==
  ASSUME Base, NEW t \in Threads, Fail(t), pc[t] # "idle", pc[t] \notin {"ping", "swap", "closeOld"}
  PROVE  Base'
<1>1. mine[t].pool = None /\ old[t].pool = None
  BY DEF Base, Stage
<1>2. hits' \in [Threads -> Nat] /\ overtaken' \in [Threads -> BOOLEAN]
  BY DEF Fail, Base, Shape, history
<1> QED
  BY <1>1, <1>2, EndBase DEF Fail

LEMMA HitIs ==
  ASSUME Shape, Hit
  PROVE  /\ hits' \in [Threads -> Nat]
         /\ \A t \in Threads : hits'[t] = IF op[t] = "query" THEN hits[t] + 1 ELSE hits[t]
BY DEF Shape, Hit

LEMMA RefusedBase ==
  ASSUME Base, NEW t \in Threads, Refused(t), pc[t] # "idle", pc[t] \notin {"ping", "swap", "closeOld"},
         pools' = pools, tunnels' = tunnels, hits' = hits \/ Hit
  PROVE  Base'
<1>1. mine[t].pool = None /\ old[t].pool = None
  BY DEF Base, Stage
<1>2. hits' \in [Threads -> Nat] /\ overtaken' \in [Threads -> BOOLEAN]
  BY HitIs DEF Refused, Base, Shape
<1> QED
  BY <1>1, <1>2, EndBase DEF Refused

\* A step of t that moves it on and leaves the connections.
LEMMA GotoBase ==
  ASSUME Base, NEW t \in Threads, NEW label \in Labels, Goto(t, label), pc[t] # "idle" \/ down = "up",
         UNCHANGED <<databases, pools, tunnels, opened, down, mine, old>>,
         label \in {"ping", "swap"} <=> pc[t] \in {"ping", "swap"}, pc[t] # "closeOld",
         op' \in [Threads -> {"none", "query", "connect", "test", "remove"}],
         id' \in [Threads -> Ids], used' \in [Threads -> Nat \cup {None}],
         \A s \in Threads \ {t} : op'[s] = op[s] /\ id'[s] = id[s] /\ used'[s] = used[s],
         label \in {"slot", "pick", "run", "pickAgain", "runAgain"} => op'[t] = "query",
         label = "close" => op'[t] # "query",
         reconnect' \in [Ids -> Threads \cup {None}],
         hits' \in [Threads -> Nat], overtaken' \in [Threads -> BOOLEAN]
  PROVE  Base'
<1>1. pc' \in [Threads -> Labels] /\ pc'[t] = label /\ \A s \in Threads \ {t} : pc'[s] = pc[s]
  BY DEF Goto, Base, Shape
<1>2. Shape'
  BY <1>1 DEF Base, Shape
<1>3. Hands'
  BY SameHands DEF Base
<1>4. OthersStay(t)
  BY <1>1 DEF OthersStay
<1>5. Stage(t)'
  BY <1>1 DEF Base, Stage
<1> QED
  BY <1>2, <1>3, <1>4, <1>5, BaseStays

LEMMA BeginIs ==
  ASSUME Base, NEW t \in Threads, NEW what \in {"query", "connect", "test", "remove"}, NEW which \in Ids,
         NEW label, Begin(t, what, which, label)
  PROVE  /\ op' \in [Threads -> {"none", "query", "connect", "test", "remove"}] /\ id' \in [Threads -> Ids]
         /\ op'[t] = what /\ id'[t] = which /\ Goto(t, label) /\ pc[t] = "idle" /\ down = "up"
         /\ \A s \in Threads \ {t} : op'[s] = op[s] /\ id'[s] = id[s]
BY DEF Begin, Base, Shape

LEMMA StartBase ==
  ASSUME Base, NEW t \in Threads, NEW d \in Databases,
         StartConnect(t, d) \/ StartRemove(t, d) \/ StartQuery(t, d)
  PROVE  Base'
<1>1. {"lock", "close", "slot"} \subseteq Labels /\ d \in Ids
  BY DEF Labels, Ids
<1>2. Shape
  BY DEF Base
<1>3. CASE StartConnect(t, d)
  <2>1. UNCHANGED <<shared, used, mine, old, history>> /\ Begin(t, "connect", d, "lock")
    BY <1>3 DEF StartConnect
  <2> QED
    BY <1>1, <1>2, <2>1, BeginIs, GotoBase DEF shared, history, Shape
<1>5. CASE StartRemove(t, d)
  <2>1. UNCHANGED <<shared, used, mine, old, history>> /\ Begin(t, "remove", d, "close")
    BY <1>5 DEF StartRemove
  <2> QED
    BY <1>1, <1>2, <2>1, BeginIs, GotoBase DEF shared, history, Shape
<1>6. CASE StartQuery(t, d)
  <2>1. UNCHANGED <<shared, used, mine, old>> /\ Begin(t, "query", d, "slot")
    BY <1>6 DEF StartQuery
  <2>2. hits' \in [Threads -> Nat] /\ overtaken' \in [Threads -> BOOLEAN]
    BY <1>2, <1>6 DEF StartQuery, Shape
  <2> QED
    BY <1>1, <1>2, <2>1, <2>2, BeginIs, GotoBase DEF shared, Shape
<1> QED
  BY <1>3, <1>5, <1>6

LEMMA StartTestBase ==
  ASSUME Base, NEW t \in Threads, StartTest(t)
  PROVE  Base'
<1>1. "open" \in Labels /\ t \in Ids /\ Shape
  BY DEF Labels, Ids, Base
<1>2. UNCHANGED <<shared, used, mine, old, history>> /\ Begin(t, "test", t, "open")
  BY DEF StartTest
<1> QED
  BY <1>1, <1>2, BeginIs, GotoBase DEF shared, history, Shape

LEMMA LockBase ==
  ASSUME Base, NEW t \in Threads, Lock(t)
  PROVE  Base'
<1> DEFINE current == databases[id[t]]
<1>1. pc[t] = "lock" /\ {"pickAgain", "open"} \subseteq Labels /\ Shape
  BY DEF Lock, Labels, Base
<1>2. CASE Fail(t)
  BY <1>1, <1>2, FailBase
<1>3. CASE /\ op[t] = "query" /\ Goto(t, "pickAgain")
           /\ UNCHANGED <<shared, op, id, used, mine, old, history>>
  BY <1>1, <1>3, GotoBase DEF shared, history, Shape
<1>4. CASE /\ reconnect' = [reconnect EXCEPT ![id[t]] = t]
           /\ Goto(t, "open")
           /\ UNCHANGED <<databases, pools, tunnels, slots, opened, cuts, down, op, id, used, mine,
                          old, history>>
  <2>1. reconnect' \in [Ids -> Threads \cup {None}]
    BY <1>1, <1>4 DEF Shape
  <2> QED
    BY <1>1, <1>4, <2>1, GotoBase DEF history, Shape
<1> QED
  BY <1>2, <1>3, <1>4 DEF Lock

LEMMA OpenBase ==
  ASSUME Base, NEW t \in Threads, Open(t)
  PROVE  Base'
<1>1. Shape /\ pc[t] = "open" /\ mine[t].pool = None /\ old[t].pool = None
  BY DEF Base, Stage, Open
<1>2. PICK form \in Forms :
        mine' = [mine EXCEPT ![t] = [pool |-> opened + 1, tunnel |-> RecordedTunnel(form, opened + 1)]]
  BY DEF Open
<1> DEFINE c == [pool |-> opened + 1, tunnel |-> RecordedTunnel(form, opened + 1)]
<1>3. c \in Conns /\ c.pool = opened + 1 /\ c.tunnel \in {c.pool, None} /\ (AsDsn => c.tunnel = c.pool)
  BY <1>1 DEF Shape, Conns, RecordedTunnel, AsDsn
<1> HIDE DEF c
<1>4. Hands'
  BY <1>1, <1>2, <1>3, OpenHands DEF Base, Open, c
<1>5. /\ pc' \in [Threads -> Labels] /\ pc'[t] = "ping" /\ mine' \in [Threads -> Conns] /\ mine'[t] = c
      /\ \A s \in Threads \ {t} : pc'[s] = pc[s] /\ mine'[s] = mine[s]
  BY <1>1, <1>2, <1>3 DEF Shape, Open, Goto, Labels, c
<1>6. opened + 1 # None /\ opened + 1 \in Nat
  BY <1>1, ConnectionsAssumption DEF Shape
<1>7. Shape'
  BY <1>1, <1>5, <1>6 DEF Shape, Open, history
<1>8. Stage(t)'
  BY <1>1, <1>3, <1>5, <1>6 DEF Stage, Open
<1>9. OthersStay(t)
  BY <1>5 DEF OthersStay, Open
<1> QED
  BY <1>1, <1>4, <1>7, <1>8, <1>9, BaseStays DEF Open

LEMMA PingBase ==
  ASSUME Base, NEW t \in Threads, Ping(t)
  PROVE  Base'
<1>1. Shape /\ pc[t] = "ping" /\ old[t].pool = None
  BY DEF Base, Stage, Ping
<1>2. CASE Goto(t, "swap") /\ UNCHANGED <<shared, op, id, used, mine, old, history>>
  BY <1>1, <1>2, GotoBase DEF shared, history, Shape, Labels
<1>3. CASE /\ hits' = hits \/ Hit
           /\ pools' = pools \ {mine[t].pool}
           /\ tunnels' = tunnels \ {mine[t].tunnel}
           /\ Refused(t)
  <2>1. PICK label \in {"idle", "failed"} : End(t, label)
    BY <1>3 DEF Refused
  <2>2. label \in Labels
    BY DEF Labels
  <2>3. hits' \in [Threads -> Nat]
    BY <1>1, <1>3, HitIs DEF Shape
  <2>4. Shape'
    BY <1>1, <1>3, <2>1, <2>2, <2>3, EndIs DEF Shape, Refused
  <2>5. old[t] = NoConnection
    BY <1>1, ConnectionsAssumption DEF Base, Hands, Fits, NoConnection, Shape, Conns
  <2>6. \A s \in Threads : old'[s] = old[s]
    BY <1>1, <2>1, <2>2, <2>5, EndIs DEF OthersStay
  <2>7. Hands'
    BY <1>1, <1>3, <2>1, <2>6, DropMine DEF Base, Refused, End
  <2>8. Stage(t)'
    BY <1>1, <2>1, <2>2, EndIs DEF Stage, NoConnection
  <2> QED
    BY <1>1, <1>3, <2>1, <2>2, <2>4, <2>7, <2>8, EndIs, BaseStays DEF Refused
<1> QED
  BY <1>2, <1>3 DEF Ping

LEMMA SwapBase ==
  ASSUME Base, NEW t \in Threads, Swap(t) \/ Close(t)
  PROVE  Base'
<1>1. Shape /\ pc[t] \in {"swap", "close"} /\ old[t].pool = None
  BY DEF Base, Stage, Swap, Close
<1>2. NoConnection \in Conns /\ id[t] \in Ids
  BY <1>1 DEF NoConnection, Conns, Shape
<1>3. Close(t) => mine[t] = NoConnection
  <2> SUFFICES ASSUME Close(t) PROVE mine[t] = NoConnection
    OBVIOUS
  <2>1. mine[t].pool = None
    BY DEF Base, Stage, Close
  <2> QED
    BY <1>1, <2>1, ConnectionsAssumption DEF Base, Hands, Fits, NoConnection, Shape, Conns
<1>4. /\ databases' = [databases EXCEPT ![id[t]] = mine[t]]
      /\ old' = [old EXCEPT ![t] = databases[id[t]]]
      /\ UNCHANGED <<pools, tunnels, reconnect, opened, down, id, used, hits>>
      /\ Goto(t, "closeOld")
  BY <1>3 DEF Swap, Close
<1>5. mine'[t] = NoConnection /\ mine' \in [Threads -> Conns] /\ \A s \in Threads \ {t} : mine'[s] = mine[s]
  BY <1>1, <1>2, <1>3 DEF Swap, Close, Shape
<1>6. Hands'
  BY <1>1, <1>4, <1>5, SwapHands DEF Base
<1>7. /\ pc' \in [Threads -> Labels] /\ pc'[t] = "closeOld" /\ \A s \in Threads \ {t} : pc'[s] = pc[s]
      /\ op' \in [Threads -> {"none", "query", "connect", "test", "remove"}]
      /\ \A s \in Threads \ {t} : op'[s] = op[s]
  BY <1>1, <1>4 DEF Shape, Goto, Labels, Swap, Close
<1>8. /\ databases' \in [Ids -> Conns] /\ old' \in [Threads -> Conns]
      /\ \A s \in Threads \ {t} : old'[s] = old[s]
  BY <1>1, <1>2, <1>4 DEF Shape
<1>9. overtaken' \in [Threads -> BOOLEAN]
  BY <1>1 DEF Swap, Close, Overtakes, Shape
<1>10. Shape'
  BY <1>1, <1>4, <1>5, <1>7, <1>8, <1>9 DEF Shape
<1>11. Stage(t)'
  BY <1>5, <1>7 DEF Stage, NoConnection
<1>12. OthersStay(t)
  BY <1>4, <1>5, <1>7, <1>8 DEF OthersStay
<1> QED
  BY <1>1, <1>4, <1>6, <1>10, <1>11, <1>12, BaseStays

LEMMA CloseOldBase ==
  ASSUME Base, NEW t \in Threads, CloseOld(t)
  PROVE  Base'
<1>1. Shape /\ pc[t] = "closeOld" /\ mine[t].pool = None
  BY DEF Base, Stage, CloseOld
<1>2. NoConnection \in Conns /\ mine[t] = NoConnection
  BY <1>1, ConnectionsAssumption DEF Base, Hands, Fits, NoConnection, Shape, Conns
<1>3. /\ pools' = pools \ {old[t].pool} /\ tunnels' = tunnels \ {old[t].tunnel}
      /\ UNCHANGED <<databases, opened, down, hits, overtaken>>
  BY DEF CloseOld, ClosedPools, history
<1>4. CASE /\ op[t] \in {"query", "test"}
           /\ old' = [old EXCEPT ![t] = NoConnection]
           /\ reconnect' = [reconnect EXCEPT ![id[t]] = IF @ = t THEN None ELSE @]
           /\ Goto(t, IF op[t] = "query" THEN "pickAgain" ELSE "close")
           /\ UNCHANGED <<slots, op, id, used, mine>>
  <2>1. Hands'
    BY <1>1, <1>3, <1>4, DropOld DEF Base
  <2>2. /\ pc' \in [Threads -> Labels] /\ \A s \in Threads \ {t} : pc'[s] = pc[s]
        /\ pc'[t] = IF op[t] = "query" THEN "pickAgain" ELSE "close"
    BY <1>1, <1>4 DEF Shape, Goto, Labels
  <2>3. /\ old' \in [Threads -> Conns] /\ old'[t] = NoConnection /\ \A s \in Threads \ {t} : old'[s] = old[s]
        /\ reconnect' \in [Ids -> Threads \cup {None}]
    BY <1>1, <1>2, <1>4 DEF Shape
  <2>4. Shape'
    BY <1>1, <1>3, <1>4, <2>2, <2>3 DEF Shape
  <2>5. Stage(t)' /\ OthersStay(t)
    BY <1>1, <1>4, <2>2, <2>3 DEF Stage, OthersStay, NoConnection
  <2> QED
    BY <1>1, <1>3, <2>1, <2>4, <2>5, BaseStays
<1>5. CASE End(t, "idle")
  <2>1. "idle" \in Labels
    BY DEF Labels
  <2>2. Shape'
    BY <1>1, <1>3, <1>5, <2>1, EndIs DEF Shape
  <2>3. \A s \in Threads : mine'[s] = mine[s]
    BY <1>1, <1>2, <1>5, <2>1, EndIs DEF OthersStay
  <2>4. Hands'
    BY <1>1, <1>3, <1>5, <2>3, DropOld DEF Base, End
  <2>5. Stage(t)'
    BY <1>1, <1>5, <2>1, EndIs DEF Stage, NoConnection
  <2> QED
    BY <1>1, <1>3, <1>5, <2>1, <2>2, <2>4, <2>5, EndIs, BaseStays
<1> QED
  BY <1>4, <1>5 DEF CloseOld

LEMMA QueryBase ==
  ASSUME Base, NEW t \in Threads,
         \/ TakeSlot(t) \/ GiveUp(t) \/ Pick(t, "pick", "run") \/ Pick(t, "pickAgain", "runAgain")
         \/ Run(t) \/ RunAgain(t) \/ Answer(t) \/ OpenFails(t)
  PROVE  Base'
<1>1. Shape /\ {"pick", "run", "runAgain", "lock"} \subseteq Labels
  BY DEF Base, Labels
<1>2. CASE TakeSlot(t)
  <2>1. op[t] = "query"
    BY <1>2 DEF Base, Stage, TakeSlot
  <2> QED
    BY <1>1, <1>2, <2>1, GotoBase DEF TakeSlot, history, Shape
<1>3. CASE GiveUp(t) \/ Answer(t)
  BY <1>3, SucceedBase DEF GiveUp, Answer
<1>4. ASSUME NEW here \in {"pick", "pickAgain"}, NEW next \in {"run", "runAgain"}, Pick(t, here, next)
      PROVE  Base'
  <2>1. op[t] = "query" /\ pc[t] = here
    BY <1>4 DEF Base, Stage, Pick
  <2>2. CASE Fail(t)
    BY <2>1, <2>2, FailBase
  <2>3. CASE /\ used' = [used EXCEPT ![t] = databases[id[t]].pool]
             /\ Goto(t, next)
             /\ UNCHANGED <<shared, op, id, mine, old, history>>
    <3>1. used' \in [Threads -> Nat \cup {None}] /\ \A s \in Threads \ {t} : used'[s] = used[s]
      BY <1>1, <2>3 DEF Shape, Conns
    <3> QED
      BY <1>1, <2>1, <2>3, <3>1, GotoBase DEF shared, history, Shape
  <2> QED
    BY <1>4, <2>2, <2>3 DEF Pick
<1>5. CASE Run(t)
  <2>1. pc[t] = "run"
    BY <1>5 DEF Run
  <2>2. CASE Succeed(t) \/ Fail(t)
    BY <2>1, <2>2, SucceedBase, FailBase
  <2>3. CASE Goto(t, "lock") /\ (hits' = hits \/ Hit) /\ UNCHANGED <<databases, pools, tunnels, reconnect, slots, opened, down, op, id,
                              used, mine, old, overtaken>>
    BY <1>1, <2>1, <2>3, HitIs, GotoBase DEF Shape
  <2>4. CASE Refused(t) /\ UNCHANGED <<pools, tunnels>> /\ (hits' = hits \/ Hit)
    BY <2>1, <2>4, RefusedBase
  <2> QED
    BY <1>5, <2>2, <2>3, <2>4 DEF Run, RunFails
<1>6. CASE RunAgain(t)
  BY <1>6, SucceedBase, FailBase DEF RunAgain
<1>7. CASE OpenFails(t)
  BY <1>7, RefusedBase DEF OpenFails
<1> QED
  BY <1>2, <1>3, <1>4, <1>5, <1>6, <1>7

LEMMA NobodysBase ==
  ASSUME Base, CloseAll \/ \E n \in Handles : TunnelDies(n)
  PROVE  Base'
<1>1. Shape /\ NoConnection \in Conns
  BY DEF Base, NoConnection, Conns
<1>2. CASE CloseAll
  <2>1. Hands'
    BY <1>2, CloseAllHands DEF Base, CloseAll, local
  <2>2. Shape'
    BY <1>1, <1>2 DEF Shape, CloseAll, local
  <2>3. \A t \in Threads : Stage(t)'
    BY <1>2 DEF Base, Stage, CloseAll, local
  <2>4. Drained'
    BY <1>2 DEF CloseAll, Drained, Busy, NoConnection, local
  <2> QED
    BY <2>1, <2>2, <2>3, <2>4 DEF Base
<1>3. CASE \E n \in Handles : TunnelDies(n)
  <2>1. Hands'
    BY <1>3, SameHands DEF Base, TunnelDies, local
  <2>2. Shape'
    BY <1>1, <1>3, HitIs DEF Shape, TunnelDies, local
  <2>3. \A t \in Threads : Stage(t)'
    BY <1>3 DEF Base, Stage, TunnelDies, local
  <2>4. Drained'
    BY <1>3 DEF Base, TunnelDies, Drained, local
  <2> QED
    BY <2>1, <2>2, <2>3, <2>4 DEF Base
<1> QED
  BY <1>2, <1>3

LEMMA BaseStep == Base /\ [Next]_vars => Base'
<1> SUFFICES ASSUME Base, [Next]_vars PROVE Base'
  OBVIOUS
<1>1. ASSUME NEW t \in Threads, Step(t) \/ OpenFails(t) \/ GiveUp(t) PROVE Base'
  BY <1>1, LockBase, OpenBase, PingBase, SwapBase, CloseOldBase, QueryBase DEF Step
<1>2. ASSUME NEW t \in Threads, NEW d \in Databases, StartConnect(t, d) \/ StartRemove(t, d) \/ StartQuery(t, d)
      PROVE  Base'
  BY <1>2, StartBase
<1>3. ASSUME NEW t \in Threads, StartTest(t) PROVE Base'
  BY <1>3, StartTestBase
<1>4. CASE UNCHANGED vars
  BY <1>4 DEF vars, Base, Shape, Hands, OneHolder, HeldBy, Fits, Apart, Stage, Drained
<1> QED
  BY <1>1, <1>2, <1>3, <1>4, NobodysBase DEF Next

----------------------------------------------------------------------------
(* The steps, as far as the queries go. *)

\* What a query may claim, and what it may fail for.
Own(t) ==
  /\ op[t] = "query" /\ ~overtaken[t] => Undisturbed(t)
  /\ pc[t] = "failed" => hits[t] >= 2 \/ overtaken[t]

\* A step of u ends only tunnels of its own, and a new one has a new number.
TunnelsKept(u) ==
  /\ \A n \in tunnels \ tunnels' : n \in {mine[u].pool, old[u].pool}
  /\ \A n \in tunnels' \ tunnels : n = opened + 1

\* A step of u brings no dead connection near the map, no query to reconnect from a
\* tunnel that runs, and no query to replace a connection but one it gave up or
\* that is dead.
NoWorse(u) ==
  /\ pc'[u] = "swap" => mine'[u].pool \in tunnels'
  /\ op'[u] = "query" /\ pc'[u] = "lock" => used'[u] \notin tunnels'
  /\ op'[u] = "query" /\ pc'[u] \in {"open", "ping", "swap"} =>
       /\ op[u] = "query" /\ id'[u] = id[u]
       /\ \/ pc[u] \in {"open", "ping", "swap"}
          \/ pc[u] = "lock" /\ (used[u] = Current(u) \/ Current(u) \notin tunnels)

LEMMA TunnelsArePools ==
  ASSUME Base, AsDsn
  PROVE  /\ \A c \in Conns : Fits(c) => c.tunnel = c.pool
         /\ \A i \in Ids : databases[i].pool # None => databases[i].pool \in 1 .. opened
         /\ \A t \in Threads : mine[t].pool # None => mine[t].pool \in 1 .. opened
         /\ \A n \in pools : n # None
         /\ \A n \in tunnels : n # None /\ n \in pools
         /\ opened \in Nat /\ opened + 1 \notin 1 .. opened
<1>1. Shape /\ opened \in Nat /\ opened + 1 \notin 1 .. opened
  BY DEF Base, Shape
<1>2. \A c \in Conns : Fits(c) => c.tunnel = c.pool
  BY DEF Fits
<1>3. /\ \A i \in Ids : Fits(databases[i])
      /\ \A t \in Threads : Fits(mine[t])
      /\ pools \subseteq 1 .. opened /\ tunnels \subseteq pools
  BY DEF Base, Hands
<1>4. \A n \in pools : n # None
  BY <1>1, <1>3, ConnectionsAssumption
<1> QED
  BY <1>1, <1>2, <1>3, <1>4 DEF Fits

\* A second failure is an answer to everything.
LEMMA HitKeeps ==
  ASSUME Base, NEW t \in Threads, Undisturbed(t), hits'[t] = hits[t] + 1,
         pc'[t] = pc[t], used'[t] = used[t], id'[t] = id[t], databases'[id[t]] = databases[id[t]]
  PROVE  Undisturbed(t)'
<1>1. hits[t] \in Nat
  BY DEF Base, Shape
<1>2. hits'[t] >= 1 /\ (hits[t] >= 1 => hits'[t] >= 2 /\ ~(hits'[t] < 2))
  BY <1>1
<1> QED
  BY <1>1, <1>2 DEF Undisturbed, Current

LEMMA OtherKeeps ==
  ASSUME Base, AsDsn, NEW u \in Threads, NEW t \in Threads \ {u}, Undisturbed(t), OthersStay(u),
         hits'[t] = hits[t], databases'[id[t]] = databases[id[t]], TunnelsKept(u), NoWorse(u)
  PROVE  Undisturbed(t)'
<1>1. /\ Current(t)' = Current(t) /\ Current(t) # None
      /\ pc'[t] = pc[t] /\ used'[t] = used[t] /\ mine'[t] = mine[t] /\ id'[t] = id[t]
  BY DEF OthersStay, Current, Undisturbed
<1>2. Current(t) \in tunnels <=> Current(t) \in tunnels'
  <2>1. id[t] \in Ids /\ Current(t) \in 1 .. opened
    BY <1>1, TunnelsArePools DEF Base, Shape, Current
  <2>2. Current(t) # mine[u].pool /\ Current(t) # old[u].pool
    BY <1>1, <2>1 DEF Base, Hands, OneHolder, Apart, Current
  <2> QED
    BY <2>1, <2>2, TunnelsArePools DEF TunnelsKept
<1>3. \A s \in Threads \ {u} : mine[s].pool \in tunnels => mine[s].pool \in tunnels'
  <2> SUFFICES ASSUME NEW s \in Threads \ {u}, mine[s].pool \in tunnels PROVE mine[s].pool \in tunnels'
    OBVIOUS
  <2>1. mine[s].pool # None
    BY TunnelsArePools
  <2>2. mine[s].pool # mine[u].pool /\ mine[s].pool # old[u].pool
    BY <2>1 DEF Base, Hands, OneHolder, Apart
  <2> QED
    BY <2>2 DEF TunnelsKept
<1>4. NoneGivesUp(t) /\ Current(t) \in tunnels => NoneGivesUp(t)'
  BY <1>1, <1>2 DEF NoneGivesUp, NoWorse, OthersStay
<1>5. NoneGivesUp(t) /\ Current(t) \in tunnels /\ NoneReplaces(t) => NoneReplaces(t)'
  BY <1>1 DEF NoneGivesUp, NoneReplaces, NoWorse, OthersStay, Current
<1>6. (\A s \in Threads : pc[s] = "swap" /\ id[s] = id[t] => mine[s].pool \in tunnels)
      => \A s \in Threads : pc'[s] = "swap" /\ id'[s] = id'[t] => mine'[s].pool \in tunnels'
  BY <1>1, <1>3 DEF NoWorse, OthersStay
<1> HIDE DEF Current, NoneGivesUp, NoneReplaces
<1>7. pc[t] \in {"slot", "pick"} /\ ~(hits[t] >= 1) =>
        Current(t) \in tunnels' /\ \A s \in Threads : pc'[s] = "swap" /\ id'[s] = id'[t] => mine'[s].pool \in tunnels'
  BY <1>2, <1>6 DEF Undisturbed
<1>8. hits[t] < 2 =>
       /\ pc[t] \in {"ping", "swap"} => mine[t].pool \in tunnels'
       /\ pc[t] = "lock" /\ used[t] # Current(t) /\ Current(t) \in tunnels' => NoneGivesUp(t)'
       /\ pc[t] \in {"closeOld", "pickAgain", "runAgain"} => Current(t) \in tunnels' /\ NoneGivesUp(t)'
       /\ pc[t] \in {"pickAgain", "runAgain"} => NoneReplaces(t)'
       /\ pc[t] = "runAgain" => used[t] = Current(t)
  BY <1>2, <1>3, <1>4, <1>5 DEF Undisturbed
<1>9. /\ pc[t] = "run" => used[t] = Current(t) /\ (hits[t] >= 1 \/ Current(t) \in tunnels')
      /\ pc[t] \in {"lock", "open", "ping", "swap", "closeOld", "pickAgain", "runAgain"} => hits[t] >= 1
  BY <1>2 DEF Undisturbed
<1> QED
  BY <1>1, <1>7, <1>8, <1>9 DEF Undisturbed

\* A step of u that leaves the map.
LEMMA QueriesStay ==
  ASSUME Base, AsDsn, Queries, NEW u \in Threads, OthersStay(u), databases' = databases,
         \A t \in Threads \ {u} : overtaken'[t] = overtaken[t],
         \/ Hit
         \/ (\A t \in Threads \ {u} : hits'[t] = hits[t]) /\ TunnelsKept(u) /\ NoWorse(u),
         Own(u)', Mutex', Unused', KnownUsed'
  PROVE  Queries'
<1>1. ASSUME NEW t \in Threads \ {u} PROVE Own(t)'
  <2>1. op'[t] = op[t] /\ pc'[t] = pc[t] /\ used'[t] = used[t] /\ id'[t] = id[t] /\ Shape
    BY DEF OthersStay, Base
  <2>2. hits[t] \in Nat /\ (hits'[t] = hits[t] \/ hits'[t] = hits[t] + 1)
    BY <2>1, HitIs DEF Shape
  <2>3. pc'[t] = "failed" => hits'[t] >= 2 \/ overtaken'[t]
    <3>1. (pc[t] = "failed" => hits[t] >= 2 \/ overtaken[t]) /\ overtaken'[t] = overtaken[t]
      BY DEF Queries
    <3>2. hits[t] >= 2 => hits'[t] >= 2
      BY <2>2
    <3> QED
      BY <2>1, <3>1, <3>2
  <2>4. ASSUME op'[t] = "query", ~overtaken'[t] PROVE Undisturbed(t)'
    <3>1. Undisturbed(t)
      BY <2>1, <2>4 DEF Queries
    <3>2. CASE Hit
      BY <2>1, <2>4, <3>1, <3>2, HitIs, HitKeeps
    <3>3. CASE (\A s \in Threads \ {u} : hits'[s] = hits[s]) /\ TunnelsKept(u) /\ NoWorse(u)
      BY <3>1, <3>3, OtherKeeps
    <3> QED
      BY <3>2, <3>3
  <2> QED
    BY <2>3, <2>4 DEF Own
<1>2. \A t \in Threads : Own(t)'
  BY <1>1
<1> QED
  BY <1>2 DEF Queries, Own

\* A thread that ends leaves the queries, and gives its mutex back.
LEMMA EndQueries ==
  ASSUME Base, AsDsn, Queries, NEW u \in Threads, NEW label \in {"idle", "failed"}, End(u, label),
         databases' = databases, opened' = opened,
         \A t \in Threads \ {u} : overtaken'[t] = overtaken[t],
         Hit \/ ((\A t \in Threads \ {u} : hits'[t] = hits[t]) /\ TunnelsKept(u)),
         label = "failed" => hits'[u] >= 2 \/ overtaken'[u]
  PROVE  Queries'
<1>1. label \in Labels /\ Shape
  BY DEF Labels, Base
<1>2. /\ pc'[u] = label /\ op'[u] = "none" /\ mine'[u] = NoConnection /\ used'[u] = None
      /\ OthersStay(u)
      /\ \A i \in Ids : reconnect'[i] = IF reconnect[i] = u THEN None ELSE reconnect[i]
  BY <1>1, EndIs
<1>3. Own(u)' /\ NoWorse(u)
  BY <1>2 DEF Own, NoWorse
<1>4. Mutex'
  BY <1>1, <1>2 DEF Mutex, Queries, OthersStay, Shape
<1>5. Unused'
  BY <1>1, <1>2 DEF Unused, Queries, OthersStay, NoConnection
<1>6. KnownUsed'
  BY <1>1, <1>2 DEF KnownUsed, Queries, OthersStay
<1> QED
  BY <1>2, <1>3, <1>4, <1>5, <1>6, QueriesStay

\* Nothing of the map, the pools and the tunnels changes.
LEMMA NoTunnelLost ==
  ASSUME NEW u \in Threads, tunnels' = tunnels
  PROVE  TunnelsKept(u)
BY DEF TunnelsKept

LEMMA SucceedQueries ==
  ASSUME Base, AsDsn, Queries, NEW u \in Threads, Succeed(u)
  PROVE  Queries'
<1>1. /\ \A t \in Threads \ {u} : overtaken'[t] = overtaken[t] /\ hits'[t] = hits[t]
      /\ TunnelsKept(u)
  BY NoTunnelLost DEF Succeed, Base, Shape
<1> QED
  BY <1>1, EndQueries DEF Succeed

LEMMA FailQueries ==
  ASSUME Base, AsDsn, Queries, NEW u \in Threads, Fail(u), hits[u] >= 2 \/ overtaken[u]
  PROVE  Queries'
BY NoTunnelLost, EndQueries DEF Fail, history

----------------------------------------------------------------------------
(* Every action keeps what the queries count on. *)

LEMMA StartQueries ==
  ASSUME Base, AsDsn, Queries, NEW u \in Threads, NEW d \in Databases,
         StartConnect(u, d) \/ StartRemove(u, d) \/ StartQuery(u, d)
  PROVE  Queries'
<1>1. d \in Ids /\ Shape
  BY DEF Ids, Base
<1>2. PICK what \in {"query", "connect", "remove"}, label \in {"lock", "close", "slot"} :
        /\ Begin(u, what, d, label)
        /\ (what = "query") = (label = "slot")
        /\ IF what = "query" THEN StartQuery(u, d) ELSE UNCHANGED history
  BY DEF StartConnect, StartRemove, StartQuery
<1>3. UNCHANGED <<shared, used, mine, old>>
  BY DEF StartConnect, StartRemove, StartQuery
<1>4. /\ op'[u] = what /\ id'[u] = d /\ pc'[u] = label /\ pc[u] = "idle"
      /\ \A s \in Threads \ {u} : pc'[s] = pc[s] /\ op'[s] = op[s] /\ id'[s] = id[s]
  BY <1>1, <1>2, BeginIs DEF Goto, Shape
<1>5. OthersStay(u) /\ TunnelsKept(u) /\ NoWorse(u)
  BY <1>2, <1>3, <1>4, NoTunnelLost DEF OthersStay, NoWorse, shared
<1>6. \A t \in Threads \ {u} : hits'[t] = hits[t] /\ overtaken'[t] = overtaken[t]
  BY <1>1, <1>2 DEF StartQuery, history, Shape
<1>7. Own(u)'
  <2> SUFFICES ASSUME what = "query", ~overtaken'[u] PROVE Undisturbed(u)'
    BY <1>2, <1>4 DEF Own
  <2>1. /\ hits'[u] = IF DeadAlready(d) THEN 1 ELSE 0
        /\ databases[d] # NoConnection
    BY <1>1, <1>2 DEF StartQuery, Shape
  <2>2. databases[d].pool # None
    BY <1>1, <2>1, ConnectionsAssumption DEF Base, Hands, Fits, NoConnection, Shape, Conns
  <2>3. ~DeadAlready(d) =>
          /\ databases[d].pool \in tunnels
          /\ \A s \in Threads : pc[s] = "swap" /\ id[s] = d => mine[s].pool \in tunnels
    BY <2>1, <2>2 DEF DeadAlready, Dead, Base, Stage, NoConnection
  <2> HIDE DEF DeadAlready
  <2> QED
    BY <1>2, <1>3, <1>4, <2>1, <2>2, <2>3 DEF Undisturbed, Current, shared
<1>8. Mutex' /\ Unused' /\ KnownUsed'
  BY <1>2, <1>3, <1>4 DEF Queries, Mutex, Unused, KnownUsed, shared
<1> QED
  BY <1>3, <1>5, <1>6, <1>7, <1>8, QueriesStay DEF shared

LEMMA StartTestQueries ==
  ASSUME Base, AsDsn, Queries, NEW u \in Threads, StartTest(u)
  PROVE  Queries'
<1>1. u \in Ids /\ Shape
  BY DEF Ids, Base
<1>2. UNCHANGED <<shared, used, mine, old, history>> /\ Begin(u, "test", u, "open")
  BY DEF StartTest
<1>3. /\ op'[u] = "test" /\ pc'[u] = "open"
      /\ \A s \in Threads \ {u} : pc'[s] = pc[s] /\ op'[s] = op[s] /\ id'[s] = id[s]
  BY <1>1, <1>2, BeginIs DEF Goto, Shape
<1>4. OthersStay(u) /\ TunnelsKept(u) /\ NoWorse(u) /\ Own(u)'
  BY <1>2, <1>3, NoTunnelLost DEF OthersStay, NoWorse, Own, shared
<1>5. Mutex' /\ Unused' /\ KnownUsed'
  BY <1>2, <1>3 DEF Queries, Mutex, Unused, KnownUsed, shared
<1> QED
  BY <1>2, <1>4, <1>5, QueriesStay DEF shared, history

LEMMA LockQueries ==
  ASSUME Base, AsDsn, Queries, NEW u \in Threads, Lock(u)
  PROVE  Queries'
<1> DEFINE current == databases[id[u]]
<1>1. Shape /\ pc[u] = "lock" /\ MutexFree(id[u]) /\ u # None /\ id[u] \in Ids
  BY ConnectionsAssumption DEF Lock, Base, Shape
<1>2. op[u] = "query" /\ ~overtaken[u] => Undisturbed(u)
  BY DEF Queries
<1>3. current \in Conns /\ Fits(current) /\ current.tunnel = current.pool
  BY <1>1, TunnelsArePools DEF Base, Hands, Shape
<1>4. current.pool = None => current = NoConnection
  BY <1>3 DEF Conns, NoConnection
<1>5. CASE op[u] = "query" /\ current = NoConnection /\ Fail(u)
  <2>1. overtaken[u]
    BY <1>2, <1>5 DEF Undisturbed, Current, NoConnection
  <2> QED
    BY <1>5, <2>1, FailQueries
<1>6. CASE /\ op[u] = "query" /\ current # NoConnection
           /\ current.pool # used[u] /\ Alive(current)
           /\ Goto(u, "pickAgain")
           /\ UNCHANGED <<shared, op, id, used, mine, old, history>>
  <2>1. pc'[u] = "pickAgain" /\ \A s \in Threads \ {u} : pc'[s] = pc[s]
    BY <1>1, <1>6 DEF Goto, Shape
  <2>2. OthersStay(u) /\ TunnelsKept(u) /\ NoWorse(u)
    BY <1>6, <2>1, NoTunnelLost DEF OthersStay, NoWorse, shared
  <2>3. Current(u) \in tunnels /\ used[u] # Current(u)
    BY <1>3, <1>6 DEF Alive, Current
  <2>4. \A s \in Threads : op[s] = "query" /\ id[s] = id[u] => pc[s] \notin {"open", "ping", "swap"}
    BY <1>1, ConnectionsAssumption DEF MutexFree, Queries, Mutex
  <2>5. Own(u)'
    <3> SUFFICES ASSUME op'[u] = "query", ~overtaken'[u] PROVE Undisturbed(u)'
      BY <2>1 DEF Own
    <3>1. Undisturbed(u)
      BY <1>2, <1>6 DEF history
    <3>2. hits[u] >= 1 /\ Current(u) # None /\ (hits[u] < 2 => NoneGivesUp(u))
      BY <1>1, <2>3, <3>1 DEF Undisturbed
    <3>3. NoneGivesUp(u) => NoneGivesUp(u)'
      BY <1>6, <2>1 DEF NoneGivesUp, Current, shared
    <3>4. NoneReplaces(u)'
      BY <1>6, <2>1, <2>4 DEF NoneReplaces
    <3>5. Current(u)' = Current(u) /\ tunnels' = tunnels /\ hits'[u] = hits[u]
      BY <1>6 DEF Current, shared, history
    <3> HIDE DEF Current, NoneGivesUp, NoneReplaces
    <3> QED
      BY <2>1, <2>3, <3>2, <3>3, <3>4, <3>5 DEF Undisturbed
  <2>6. Mutex' /\ Unused' /\ KnownUsed'
    BY <1>6, <2>1 DEF Queries, Mutex, Unused, KnownUsed, shared
  <2> QED
    BY <1>6, <2>2, <2>5, <2>6, QueriesStay DEF shared, history
<1>7. CASE /\ op[u] = "query" =>
                current # NoConnection /\ ~(current.pool # used[u] /\ Alive(current))
           /\ reconnect' = [reconnect EXCEPT ![id[u]] = u]
           /\ Goto(u, "open")
           /\ UNCHANGED <<databases, pools, tunnels, slots, opened, cuts, down, op, id, used, mine,
                          old, history>>
  <2>1. pc'[u] = "open" /\ \A s \in Threads \ {u} : pc'[s] = pc[s]
    BY <1>1, <1>7 DEF Goto, Shape
  <2>2. op[u] = "query" => used[u] = Current(u) \/ Current(u) \notin tunnels
    BY <1>3, <1>4, <1>7 DEF Alive, Current
  <2>3. OthersStay(u) /\ TunnelsKept(u)
    BY <1>7, <2>1, NoTunnelLost DEF OthersStay
  <2>4. NoWorse(u)
    BY <1>1, <1>7, <2>1, <2>2 DEF NoWorse
  <2>5. Own(u)'
    <3> SUFFICES ASSUME op'[u] = "query", ~overtaken'[u] PROVE Undisturbed(u)'
      BY <2>1 DEF Own
    <3>1. Undisturbed(u)
      BY <1>2, <1>7 DEF history
    <3>2. hits[u] >= 1 /\ Current(u) # None /\ Current(u)' = Current(u) /\ hits'[u] = hits[u]
      BY <1>1, <1>7, <3>1 DEF Undisturbed, Current, history
    <3> QED
      BY <2>1, <3>2 DEF Undisturbed
  <2>6. Mutex'
    BY <1>1, <1>7, <2>1, ConnectionsAssumption DEF Queries, Mutex, MutexFree, Shape
  <2>7. Unused' /\ KnownUsed'
    BY <1>7 DEF Queries, Unused, KnownUsed
  <2> QED
    BY <1>7, <2>3, <2>4, <2>5, <2>6, <2>7, QueriesStay DEF history
<1> QED
  BY <1>5, <1>6, <1>7 DEF Lock

LEMMA OpenQueries ==
  ASSUME Base, AsDsn, Queries, NEW u \in Threads, Open(u)
  PROVE  Queries'
<1>1. Shape /\ pc[u] = "open" /\ opened \in Nat /\ opened + 1 # None /\ opened + 1 \notin 1 .. opened
  BY ConnectionsAssumption DEF Base, Shape, Open
<1>2. PICK form \in Forms :
        mine' = [mine EXCEPT ![u] = [pool |-> opened + 1, tunnel |-> RecordedTunnel(form, opened + 1)]]
  BY DEF Open
<1>3. /\ pc'[u] = "ping" /\ mine'[u].pool = opened + 1
      /\ \A s \in Threads \ {u} : pc'[s] = pc[s] /\ mine'[s] = mine[s]
      /\ UNCHANGED <<databases, reconnect, op, id, used, old, history>>
      /\ opened' = opened + 1 /\ tunnels' = tunnels \cup {opened + 1}
  BY <1>1, <1>2 DEF Open, Goto, Shape
<1>4. OthersStay(u) /\ TunnelsKept(u) /\ NoWorse(u)
  BY <1>1, <1>3 DEF OthersStay, TunnelsKept, NoWorse
<1>5. Own(u)'
  <2> SUFFICES ASSUME op'[u] = "query", ~overtaken'[u] PROVE Undisturbed(u)'
    BY <1>3 DEF Own
  <2>1. Undisturbed(u)
    BY <1>3 DEF Queries, history
  <2>2. hits[u] >= 1 /\ Current(u) # None /\ Current(u)' = Current(u) /\ hits'[u] = hits[u]
    BY <1>1, <1>3, <2>1 DEF Undisturbed, Current, history
  <2> QED
    BY <1>3, <2>2 DEF Undisturbed
<1>6. Mutex'
  BY <1>1, <1>3 DEF Queries, Mutex
<1>7. Unused'
  <2>1. \A s \in Threads : used[s] # opened + 1
    BY <1>1 DEF Queries, KnownUsed
  <2> QED
    BY <1>3, <2>1 DEF Queries, Unused
<1>8. KnownUsed'
  <2>1. 1 .. opened \subseteq 1 .. opened + 1
    BY <1>1
  <2> QED
    BY <1>3, <2>1 DEF Queries, KnownUsed
<1> QED
  BY <1>3, <1>4, <1>5, <1>6, <1>7, <1>8, QueriesStay DEF history

\* What a connection that was refused means for the query that wanted it.
LEMMA RefusedQueries ==
  ASSUME Base, AsDsn, Queries, NEW u \in Threads, Refused(u), TunnelsKept(u),
         \/ Hit /\ (op[u] = "query" /\ ~overtaken[u] => hits[u] >= 1)
         \/ hits' = hits /\ (op[u] = "query" /\ ~overtaken[u] => hits[u] >= 2)
  PROVE  Queries'
<1>1. PICK label \in {"idle", "failed"} : End(u, label) /\ (label = "failed" => op[u] = "query")
  BY DEF Refused
<1>2. Shape /\ databases' = databases /\ opened' = opened /\ overtaken' = overtaken
  BY DEF Base, Refused
<1>3. hits[u] \in Nat /\ overtaken[u] \in BOOLEAN
  BY <1>2 DEF Shape
<1>4. CASE Hit /\ (op[u] = "query" /\ ~overtaken[u] => hits[u] >= 1)
  <2>1. label = "failed" => hits'[u] >= 2 \/ overtaken'[u]
    <3> SUFFICES ASSUME label = "failed", ~overtaken[u] PROVE hits'[u] >= 2
      BY <1>2
    <3>1. hits[u] >= 1 /\ hits'[u] = hits[u] + 1
      BY <1>1, <1>2, <1>4, HitIs
    <3> QED
      BY <1>3, <3>1
  <2> QED
    BY <1>1, <1>2, <1>4, <2>1, EndQueries
<1>5. CASE hits' = hits /\ (op[u] = "query" /\ ~overtaken[u] => hits[u] >= 2)
  <2>1. label = "failed" => hits'[u] >= 2 \/ overtaken'[u]
    BY <1>1, <1>2, <1>5
  <2> QED
    BY <1>1, <1>2, <1>5, <2>1, EndQueries
<1> QED
  BY <1>4, <1>5

LEMMA PingQueries ==
  ASSUME Base, AsDsn, Queries, NEW u \in Threads, Ping(u)
  PROVE  Queries'
<1>1. Shape /\ pc[u] = "ping" /\ hits[u] \in Nat
  BY DEF Base, Shape, Ping
<1>2. op[u] = "query" /\ ~overtaken[u] =>
        /\ Undisturbed(u) /\ hits[u] >= 1
        /\ hits[u] < 2 => mine[u].pool \in tunnels
  BY <1>1 DEF Queries, Undisturbed
<1>3. CASE mine[u].pool \in tunnels /\ Goto(u, "swap") /\ UNCHANGED <<shared, op, id, used, mine, old, history>>
  <2>1. pc'[u] = "swap" /\ \A s \in Threads \ {u} : pc'[s] = pc[s]
    BY <1>1, <1>3 DEF Goto, Shape
  <2>2. OthersStay(u) /\ TunnelsKept(u) /\ NoWorse(u)
    BY <1>1, <1>3, <2>1, NoTunnelLost DEF OthersStay, NoWorse, shared
  <2>3. Own(u)'
    <3> SUFFICES ASSUME op'[u] = "query", ~overtaken'[u] PROVE Undisturbed(u)'
      BY <2>1 DEF Own
    <3>1. hits[u] >= 1 /\ Current(u) # None /\ Current(u)' = Current(u) /\ hits'[u] = hits[u]
      BY <1>2, <1>3 DEF Undisturbed, Current, history, shared
    <3> QED
      BY <1>3, <2>1, <3>1 DEF Undisturbed, shared
  <2>4. Mutex' /\ Unused' /\ KnownUsed'
    BY <1>1, <1>3, <2>1 DEF Queries, Mutex, Unused, KnownUsed, shared
  <2> QED
    BY <1>3, <2>2, <2>3, <2>4, QueriesStay DEF shared, history
<1>4. CASE /\ \/ mine[u].pool \notin tunnels /\ UNCHANGED <<cuts, hits>>
              \/ Cut /\ Hit
           /\ pools' = pools \ {mine[u].pool}
           /\ tunnels' = tunnels \ {mine[u].tunnel}
           /\ Refused(u)
  <2>1. TunnelsKept(u)
    BY <1>1, <1>4, TunnelsArePools DEF TunnelsKept, Base, Hands, Shape
  <2>2. mine[u].pool \notin tunnels => (op[u] = "query" /\ ~overtaken[u] => hits[u] >= 2)
    BY <1>1, <1>2
  <2> QED
    BY <1>2, <1>4, <2>1, <2>2, RefusedQueries
<1> QED
  BY <1>3, <1>4 DEF Ping

LEMMA CloseOldQueries ==
  ASSUME Base, AsDsn, Queries, NEW u \in Threads, CloseOld(u)
  PROVE  Queries'
<1>1. Shape /\ pc[u] = "closeOld" /\ u # None /\ id[u] \in Ids
  BY ConnectionsAssumption DEF Base, Shape, CloseOld
<1>2. /\ tunnels' = tunnels \ {old[u].tunnel}
      /\ UNCHANGED <<databases, opened, hits, overtaken>>
  BY DEF CloseOld, history
<1>3. TunnelsKept(u)
  BY <1>1, <1>2, TunnelsArePools DEF TunnelsKept, Base, Hands, Shape
<1>4. CASE /\ op[u] \in {"query", "test"}
           /\ old' = [old EXCEPT ![u] = NoConnection]
           /\ reconnect' = [reconnect EXCEPT ![id[u]] = IF @ = u THEN None ELSE @]
           /\ Goto(u, IF op[u] = "query" THEN "pickAgain" ELSE "close")
           /\ UNCHANGED <<slots, op, id, used, mine>>
  <2>1. /\ pc'[u] = IF op[u] = "query" THEN "pickAgain" ELSE "close"
        /\ \A s \in Threads \ {u} : pc'[s] = pc[s] /\ old'[s] = old[s]
        /\ \A i \in Ids : reconnect'[i] = IF i = id[u] /\ reconnect[i] = u THEN None ELSE reconnect[i]
    BY <1>1, <1>4 DEF Goto, Shape
  <2>2. OthersStay(u) /\ NoWorse(u)
    BY <1>4, <2>1 DEF OthersStay, NoWorse
  <2>3. Own(u)'
    <3> SUFFICES ASSUME op[u] = "query", ~overtaken[u] PROVE Undisturbed(u)'
      BY <1>2, <1>4, <2>1 DEF Own
    <3>1. /\ Current(u) # None /\ hits[u] >= 1
          /\ hits[u] < 2 => Current(u) \in tunnels /\ NoneGivesUp(u)
      BY <1>1 DEF Queries, Undisturbed
    <3>2. Current(u)' = Current(u) /\ hits'[u] = hits[u] /\ pc'[u] = "pickAgain"
      BY <1>2, <1>4, <2>1 DEF Current
    <3>3. Current(u) # old[u].tunnel
      BY <1>1, <3>1, TunnelsArePools DEF Base, Hands, OneHolder, Apart, Current, Shape
    <3>4. NoneGivesUp(u) => NoneGivesUp(u)'
      BY <1>4, <2>1, <3>2 DEF NoneGivesUp
    <3>5. NoneReplaces(u)'
      BY <1>1, <1>4, <2>1 DEF NoneReplaces, Queries, Mutex
    <3> HIDE DEF Current, NoneGivesUp, NoneReplaces
    <3> QED
      BY <1>2, <3>1, <3>2, <3>3, <3>4, <3>5 DEF Undisturbed
  <2>4. Mutex'
    BY <1>1, <1>4, <2>1 DEF Queries, Mutex, Shape
  <2>5. Unused' /\ KnownUsed'
    BY <1>2, <1>4 DEF Queries, Unused, KnownUsed
  <2> QED
    BY <1>2, <1>3, <2>2, <2>3, <2>4, <2>5, QueriesStay
<1>5. CASE End(u, "idle")
  BY <1>2, <1>3, <1>5, EndQueries
<1> QED
  BY <1>4, <1>5 DEF CloseOld

\* The map's entry changes: the queries of that ID that did not take part are
\* overtaken.
LEMMA SwapQueries ==
  ASSUME Base, AsDsn, Queries, NEW u \in Threads, Swap(u)
  PROVE  Queries'
<1>1. Shape /\ pc[u] = "swap" /\ mine[u].pool # None /\ id[u] \in Ids
  BY DEF Base, Shape, Swap, Stage
<1>2. /\ databases'[id[u]] = mine[u]
      /\ \A i \in Ids : i # id[u] => databases'[i] = databases[i]
      /\ mine'[u] = NoConnection
      /\ pc'[u] = "closeOld"
      /\ \A s \in Threads \ {u} : pc'[s] = pc[s] /\ mine'[s] = mine[s] /\ old'[s] = old[s]
      /\ UNCHANGED <<tunnels, reconnect, opened, op, id, used, hits>>
  BY <1>1 DEF Swap, Goto, Shape
<1>3. \A t \in Threads :
        overtaken'[t] = \/ overtaken[t]
                        \/ /\ t # u /\ op[t] = "query" /\ id[t] = id[u]
                           /\ op[u] = "query" => pc[t] = "run"
  BY DEF Swap, Overtakes
<1>4. OthersStay(u) /\ TunnelsKept(u) /\ NoWorse(u)
  BY <1>2, NoTunnelLost DEF OthersStay, NoWorse
<1>5. \A s \in Threads : used[s] # mine[u].pool
  BY <1>1 DEF Queries, Unused
<1>6. ASSUME NEW t \in Threads, op'[t] = "query", ~overtaken'[t] PROVE Undisturbed(t)'
  <2>1. op[t] = "query" /\ ~overtaken[t] /\ Undisturbed(t) /\ hits'[t] = hits[t] /\ id[t] \in Ids
    BY <1>1, <1>2, <1>3, <1>6 DEF Queries, Shape
  <2>2. CASE t = u
    <3>1. hits[u] >= 1 /\ (hits[u] < 2 => mine[u].pool \in tunnels)
      BY <1>1, <2>1, <2>2 DEF Undisturbed
    <3>2. Current(u)' = mine[u].pool
      BY <1>2 DEF Current
    <3>3. NoneGivesUp(u)'
      BY <1>2, <1>5, <3>2 DEF NoneGivesUp
    <3> HIDE DEF Current, NoneGivesUp
    <3> QED
      BY <1>1, <1>2, <2>2, <3>1, <3>2, <3>3 DEF Undisturbed
  <2>3. CASE id[t] # id[u]
    BY <1>2, <1>4, <2>1, <2>3, OtherKeeps
  <2>4. CASE t # u /\ id[t] = id[u]
    <3>1. op[u] = "query" /\ pc[t] # "run"
      BY <1>3, <1>6, <2>1, <2>4
    <3>2. pc[t] \notin {"open", "ping", "swap", "closeOld"}
      BY <1>1, <2>1, <2>4, <3>1 DEF Queries, Mutex
    <3>3. Current(t)' = mine[u].pool /\ pc'[t] = pc[t] /\ used'[t] = used[t]
      BY <1>2, <2>4 DEF Current
    <3>4. NoneGivesUp(t)'
      BY <1>2, <1>5, <3>3 DEF NoneGivesUp
    <3>5. hits[t] < 2 => pc[t] \notin {"pickAgain", "runAgain"}
      BY <1>1, <2>1, <2>4, <3>1 DEF Undisturbed, NoneReplaces
    <3>6. pc[t] \in {"slot", "pick"} /\ ~(hits[t] >= 1) =>
            /\ mine[u].pool \in tunnels
            /\ \A s \in Threads : pc'[s] = "swap" /\ id'[s] = id'[t] => mine'[s].pool \in tunnels'
      BY <1>1, <1>2, <2>1, <2>4 DEF Undisturbed
    <3>7. pc[t] \in {"lock", "pickAgain", "runAgain"} => hits[t] >= 1
      BY <2>1 DEF Undisturbed
    <3> HIDE DEF Current, NoneGivesUp
    <3> QED
      BY <1>1, <1>2, <2>1, <3>1, <3>2, <3>3, <3>4, <3>5, <3>6, <3>7 DEF Undisturbed
  <2> QED
    BY <2>2, <2>3, <2>4
<1>7. \A t \in Threads : pc'[t] = "failed" => hits'[t] >= 2 \/ overtaken'[t]
  BY <1>2, <1>3 DEF Queries
<1>8. Mutex' /\ Unused' /\ KnownUsed'
  BY <1>1, <1>2 DEF Queries, Mutex, Unused, KnownUsed, NoConnection
<1> QED
  BY <1>6, <1>7, <1>8 DEF Queries

LEMMA CloseQueries ==
  ASSUME Base, AsDsn, Queries, NEW u \in Threads, Close(u)
  PROVE  Queries'
<1>1. Shape /\ pc[u] = "close" /\ op[u] # "query"
  BY DEF Base, Close, Stage
<1>2. /\ \A i \in Ids : i # id[u] => databases'[i] = databases[i]
      /\ pc'[u] = "closeOld" /\ op'[u] = "remove"
      /\ \A s \in Threads \ {u} : pc'[s] = pc[s] /\ old'[s] = old[s] /\ op'[s] = op[s]
      /\ UNCHANGED <<tunnels, reconnect, opened, id, used, mine, hits>>
  BY <1>1 DEF Close, Goto, Shape
<1>3. \A t \in Threads :
        overtaken'[t] = (overtaken[t] \/ (t # u /\ op[t] = "query" /\ id[t] = id[u]))
  BY <1>1 DEF Close, Overtakes
<1>4. OthersStay(u) /\ TunnelsKept(u) /\ NoWorse(u)
  BY <1>2, NoTunnelLost DEF OthersStay, NoWorse
<1>5. ASSUME NEW t \in Threads, op'[t] = "query", ~overtaken'[t] PROVE Undisturbed(t)'
  <2>1. t # u /\ op[t] = "query" /\ ~overtaken[t] /\ id[t] # id[u] /\ Undisturbed(t) /\ id[t] \in Ids
    BY <1>1, <1>2, <1>3, <1>5 DEF Queries, Shape
  <2> QED
    BY <1>2, <1>4, <2>1, OtherKeeps
<1>6. \A t \in Threads : pc'[t] = "failed" => hits'[t] >= 2 \/ overtaken'[t]
  BY <1>2, <1>3 DEF Queries
<1>7. Mutex' /\ Unused' /\ KnownUsed'
  BY <1>1, <1>2 DEF Queries, Mutex, Unused, KnownUsed
<1> QED
  BY <1>5, <1>6, <1>7 DEF Queries

\* The query goes on to next, on the connection it has looked up.
LEMMA PickQueries ==
  ASSUME Base, AsDsn, Queries, NEW u \in Threads, NEW here, NEW next,
         here \in {"pick", "pickAgain"}, next = (IF here = "pick" THEN "run" ELSE "runAgain"),
         Pick(u, here, next)
  PROVE  Queries'
<1>1. Shape /\ pc[u] = here /\ op[u] = "query" /\ id[u] \in Ids
  <2>1. Shape /\ pc[u] = here /\ id[u] \in Ids
    BY DEF Base, Shape, Pick
  <2> QED
    BY <2>1 DEF Base, Stage
<1>2. ~overtaken[u] => Undisturbed(u)
  BY <1>1 DEF Queries
<1>3. CASE databases[id[u]] = NoConnection /\ Fail(u)
  <2>1. overtaken[u]
    BY <1>2, <1>3 DEF Undisturbed, Current, NoConnection
  <2> QED
    BY <1>3, <2>1, FailQueries
<1>4. CASE /\ databases[id[u]] # NoConnection
           /\ used' = [used EXCEPT ![u] = databases[id[u]].pool]
           /\ Goto(u, next)
           /\ UNCHANGED <<shared, op, id, mine, old, history>>
  <2>1. /\ pc'[u] = next /\ used'[u] = Current(u)
        /\ \A s \in Threads \ {u} : pc'[s] = pc[s] /\ used'[s] = used[s]
    BY <1>1, <1>4 DEF Goto, Shape, Current
  <2>2. OthersStay(u) /\ TunnelsKept(u) /\ NoWorse(u)
    BY <1>1, <1>4, <2>1, NoTunnelLost DEF OthersStay, NoWorse, shared
  <2>3. Current(u)' = Current(u) /\ hits' = hits /\ tunnels' = tunnels
    BY <1>4 DEF Current, shared, history
  <2>4. Own(u)'
    <3> SUFFICES ASSUME op'[u] = "query", ~overtaken'[u] PROVE Undisturbed(u)'
      BY <1>1, <2>1 DEF Own
    <3>1. Undisturbed(u)
      BY <1>2, <1>4 DEF history
    <3>2. (NoneGivesUp(u) => NoneGivesUp(u)') /\ (NoneReplaces(u) => NoneReplaces(u)')
      BY <1>1, <1>4, <2>1, <2>3 DEF NoneGivesUp, NoneReplaces
    <3> HIDE DEF Current, NoneGivesUp, NoneReplaces
    <3> QED
      BY <1>1, <2>1, <2>3, <3>1, <3>2 DEF Undisturbed
  <2>5. Mutex'
    BY <1>1, <1>4, <2>1 DEF Queries, Mutex, shared
  <2>6. Unused'
    <3>1. \A t \in Threads : mine[t].pool # None => Current(u) # mine[t].pool
      BY <1>1 DEF Base, Hands, OneHolder, Apart, Current
    <3> HIDE DEF Current
    <3> QED
      BY <1>4, <2>1, <3>1 DEF Queries, Unused
  <2>7. KnownUsed'
    <3>1. Current(u) \in (1 .. opened) \cup {None}
      BY <1>1, TunnelsArePools DEF Current
    <3> HIDE DEF Current
    <3> QED
      BY <1>4, <2>1, <3>1 DEF Queries, KnownUsed, shared
  <2> QED
    BY <1>4, <2>2, <2>4, <2>5, <2>6, <2>7, QueriesStay DEF shared, history
<1> QED
  BY <1>3, <1>4 DEF Pick

LEMMA RunQueries ==
  ASSUME Base, AsDsn, Queries, NEW u \in Threads, Run(u)
  PROVE  Queries'
<1>1. Shape /\ pc[u] = "run" /\ op[u] = "query" /\ id[u] \in Ids /\ hits[u] \in Nat
  BY DEF Base, Shape, Run, Stage
<1>2. ~overtaken[u] => /\ used[u] = Current(u) /\ Current(u) # None
                       /\ hits[u] >= 1 \/ Current(u) \in tunnels
  BY <1>1 DEF Queries, Undisturbed
<1>3. used[u] \notin pools => overtaken[u]
  BY <1>1, <1>2 DEF Base, Hands, Fits, Current
<1>4. CASE Succeed(u)
  BY <1>4, SucceedQueries
<1>5. CASE used[u] \notin pools /\ Fail(u)
  BY <1>3, <1>5, FailQueries
<1>6. CASE /\ \/ used[u] \notin tunnels /\ UNCHANGED <<cuts, hits>>
              \/ Works(u) /\ Cut /\ Hit
           /\ Goto(u, "lock")
           /\ UNCHANGED <<databases, pools, tunnels, reconnect, slots, opened, down, op, id,
                          used, mine, old, overtaken>>
  <2>1. pc'[u] = "lock" /\ \A s \in Threads \ {u} : pc'[s] = pc[s]
    BY <1>1, <1>6 DEF Goto, Shape
  <2>2. OthersStay(u) /\ TunnelsKept(u)
    BY <1>6, <2>1, NoTunnelLost DEF OthersStay
  <2>3. used[u] \notin tunnels => NoWorse(u)
    BY <1>6, <2>1 DEF NoWorse
  <2>4. Own(u)'
    <3> SUFFICES ASSUME op'[u] = "query", ~overtaken'[u] PROVE Undisturbed(u)'
      BY <2>1 DEF Own
    <3>1. used'[u] = Current(u)' /\ Current(u)' # None
      BY <1>2, <1>6 DEF Current
    <3>2. hits'[u] >= 1
      <4>1. CASE used[u] \notin tunnels /\ hits' = hits
        BY <1>2, <1>6, <4>1
      <4>2. CASE Hit
        BY <1>1, <4>2, HitIs
      <4> QED
        BY <1>6, <4>1, <4>2
    <3> HIDE DEF Current
    <3> QED
      BY <2>1, <3>1, <3>2 DEF Undisturbed
  <2>5. Mutex' /\ Unused' /\ KnownUsed'
    BY <1>6, <2>1 DEF Queries, Mutex, Unused, KnownUsed
  <2> QED
    BY <1>6, <2>2, <2>3, <2>4, <2>5, QueriesStay
<1>7. CASE /\ used[u] \notin pools
           /\ hits' = hits \/ Hit
           /\ Refused(u) /\ UNCHANGED <<pools, tunnels>>
  BY <1>3, <1>7, NoTunnelLost, RefusedQueries
<1> QED
  BY <1>4, <1>5, <1>6, <1>7 DEF Run, RunFails, Recoverable

LEMMA RunAgainQueries ==
  ASSUME Base, AsDsn, Queries, NEW u \in Threads, RunAgain(u)
  PROVE  Queries'
<1>1. Shape /\ pc[u] = "runAgain" /\ op[u] = "query" /\ hits[u] \in Nat
  BY DEF Base, Shape, RunAgain, Stage
<1>2. ~overtaken[u] /\ hits[u] < 2 => used[u] \in tunnels
  BY <1>1 DEF Queries, Undisturbed
<1>3. ~Works(u) => hits[u] >= 2 \/ overtaken[u]
  BY <1>1, <1>2, TunnelsArePools DEF Works
<1> QED
  BY <1>3, SucceedQueries, FailQueries DEF RunAgain

LEMMA OpenFailsQueries ==
  ASSUME Base, AsDsn, Queries, NEW u \in Threads, OpenFails(u)
  PROVE  Queries'
<1>1. op[u] = "query" /\ ~overtaken[u] => hits[u] >= 1
  BY DEF OpenFails, Queries, Undisturbed
<1> QED
  BY <1>1, NoTunnelLost, RefusedQueries DEF OpenFails

LEMMA TakeSlotQueries ==
  ASSUME Base, AsDsn, Queries, NEW u \in Threads, TakeSlot(u)
  PROVE  Queries'
<1>1. pc[u] = "slot" /\ pc'[u] = "pick" /\ \A s \in Threads \ {u} : pc'[s] = pc[s]
  BY DEF TakeSlot, Goto, Base, Shape
<1>2. UNCHANGED <<databases, tunnels, reconnect, opened, op, id, used, mine, old, hits, overtaken>>
  BY DEF TakeSlot, history
<1>3. OthersStay(u) /\ TunnelsKept(u) /\ NoWorse(u)
  BY <1>1, <1>2, NoTunnelLost DEF OthersStay, NoWorse
<1>4. Own(u)'
  BY <1>1, <1>2 DEF Own, Queries, Undisturbed, Current
<1>5. Mutex' /\ Unused' /\ KnownUsed'
  BY <1>1, <1>2 DEF Queries, Mutex, Unused, KnownUsed
<1> QED
  BY <1>2, <1>3, <1>4, <1>5, QueriesStay

LEMMA NobodysQueries ==
  ASSUME Base, AsDsn, Queries, CloseAll \/ \E n \in Handles : TunnelDies(n)
  PROVE  Queries'
<1>1. Shape /\ UNCHANGED local /\ UNCHANGED <<reconnect, opened>>
  BY DEF Base, CloseAll, TunnelDies
<1>2. Mutex' /\ Unused' /\ KnownUsed'
  BY <1>1 DEF Queries, Mutex, Unused, KnownUsed, local
<1>3. CASE CloseAll
  <2>1. \A t \in Threads : overtaken'[t] = (overtaken[t] \/ op[t] = "query")
    BY <1>3 DEF CloseAll
  <2>2. hits' = hits
    BY <1>3 DEF CloseAll
  <2>3. \A t \in Threads : op'[t] = "query" => overtaken'[t]
    BY <1>1, <2>1 DEF local
  <2>4. \A t \in Threads : pc'[t] = "failed" => hits'[t] >= 2 \/ overtaken'[t]
    BY <1>1, <2>1, <2>2 DEF Queries, local
  <2> QED
    BY <1>2, <2>3, <2>4 DEF Queries
<1>4. CASE \E n \in Handles : TunnelDies(n)
  <2>1. Hit /\ databases' = databases /\ overtaken' = overtaken
    BY <1>4 DEF TunnelDies
  <2>2. ASSUME NEW t \in Threads PROVE Own(t)'
    <3>1. op'[t] = "query" /\ ~overtaken'[t] => Undisturbed(t)'
      BY <1>1, <2>1, HitIs, HitKeeps DEF Queries, local
    <3>2. hits[t] \in Nat /\ (hits[t] >= 2 => hits'[t] >= 2)
      BY <1>1, <2>1, HitIs DEF Shape
    <3>3. pc'[t] = "failed" => hits'[t] >= 2 \/ overtaken'[t]
      BY <1>1, <2>1, <3>2 DEF Queries, local
    <3> QED
      BY <3>1, <3>3 DEF Own
  <2> QED
    BY <1>2, <2>2 DEF Queries, Own
<1> QED
  BY <1>3, <1>4

LEMMA QueriesStep ==
  ASSUME Base, AsDsn, Queries, [Next]_vars
  PROVE  Queries'
<1>1. ASSUME NEW t \in Threads, Step(t) PROVE Queries'
  <2>1. CASE Lock(t) \/ Open(t) \/ Ping(t) \/ Swap(t) \/ CloseOld(t) \/ Close(t)
    BY <2>1, LockQueries, OpenQueries, PingQueries, SwapQueries, CloseOldQueries, CloseQueries
  <2>2. CASE TakeSlot(t) \/ Run(t) \/ RunAgain(t) \/ Answer(t)
    BY <2>2, TakeSlotQueries, RunQueries, RunAgainQueries, SucceedQueries DEF Answer
  <2>3. CASE Pick(t, "pick", "run")
    BY <2>3, PickQueries
  <2>4. CASE Pick(t, "pickAgain", "runAgain")
    BY <2>4, PickQueries
  <2> QED
    BY <1>1, <2>1, <2>2, <2>3, <2>4 DEF Step
<1>2. ASSUME NEW t \in Threads, OpenFails(t) \/ GiveUp(t) \/ StartTest(t) PROVE Queries'
  BY <1>2, OpenFailsQueries, SucceedQueries, StartTestQueries DEF GiveUp
<1>3. ASSUME NEW t \in Threads, NEW d \in Databases, StartConnect(t, d) \/ StartRemove(t, d) \/ StartQuery(t, d)
      PROVE  Queries'
  BY <1>3, StartQueries
<1>4. CASE UNCHANGED vars
  BY <1>4 DEF vars, Queries, Undisturbed, Current, NoneGivesUp, NoneReplaces, Mutex, Unused, KnownUsed
<1> QED
  BY <1>1, <1>2, <1>3, <1>4, NobodysQueries DEF Next

----------------------------------------------------------------------------

LEMMA InductiveInvariant == Spec => []IInv
<1>1. Init => IInv
  <2> SUFFICES ASSUME Init PROVE IInv
    OBVIOUS
  <2>1. NoConnection \in Conns /\ Threads \subseteq Ids /\ "idle" \in Labels
    BY DEF NoConnection, Conns, Ids, Labels
  <2>2. Shape
    BY <2>1 DEF Init, Shape
  <2>3. Hands
    BY <2>1 DEF Init, Hands, OneHolder, Apart, Fits, NoConnection
  <2>4. (\A t \in Threads : Stage(t)) /\ Drained
    BY DEF Init, Stage, Drained, NoConnection
  <2>5. Queries
    BY DEF Init, Queries, Mutex, Unused, KnownUsed, NoConnection
  <2> QED
    BY <2>2, <2>3, <2>4, <2>5 DEF IInv, Base
<1>2. IInv /\ [Next]_vars => IInv'
  BY BaseStep, QueriesStep DEF IInv, AsDsn
<1> QED
  BY <1>1, <1>2, PTL DEF Spec

\* Whatever queries, saves, tests and removals of the connections overlap, the
\* pools that are open are those of the map and those a thread has just opened
\* or is about to close, in either form of connection.
THEOREM NoPoolIsForgotten == Spec => []PoolsAreHeld
<1>1. IInv => PoolsAreHeld
  <2> SUFFICES ASSUME Base PROVE PoolsAreHeld
    BY DEF IInv
  <2>1. \A c \in Held : c.pool # None => c.pool \in pools
    BY DEF Base, Hands, Fits, Held
  <2>2. ASSUME NEW n \in pools PROVE n # None /\ \E c \in Held : c.pool = n
    <3>1. opened \in Nat /\ n \in 1 .. opened /\ HeldBy(n)
      BY DEF Base, Hands, Shape
    <3>2. n # None
      BY <3>1, ConnectionsAssumption
    <3> QED
      BY <3>1, <3>2 DEF HeldBy, Held
  <2> QED
    BY <2>1, <2>2 DEF PoolsAreHeld
<1> QED
  BY <1>1, InductiveInvariant, PTL

\* With connections entered as a DSN the tunnels too are those of the pools,
\* and CloseAll leaves none after the requests have drained.
THEOREM NoTunnelIsForgotten == "fields" \notin Forms /\ Spec => []AllAreHeld
<1> SUFFICES ASSUME AsDsn PROVE Spec => []AllAreHeld
  BY DEF AsDsn
<1>1. IInv => TunnelsAreHeld
  <2> SUFFICES ASSUME Base, NEW n \in tunnels PROVE \E c \in Held : c.tunnel = n
    BY DEF IInv, TunnelsAreHeld
  <2>1. HeldBy(n)
    BY DEF Base, Hands
  <2> QED
    BY <2>1, TunnelsArePools DEF HeldBy, Held, Base, Shape, Hands
<1>2. IInv => CloseAllReleases
  <2> SUFFICES ASSUME Base, down = "drained" PROVE pools = {} /\ tunnels = {}
    BY DEF IInv, CloseAllReleases
  <2>1. \A n \in pools : HeldBy(n) /\ n # None
    BY TunnelsArePools DEF Base, Hands
  <2>2. /\ \A i \in Ids : databases[i].pool = None
        /\ \A t \in Threads : mine[t].pool = None /\ old[t].pool = None
    BY DEF Base, Drained, Stage
  <2>3. pools = {}
    BY <2>1, <2>2 DEF HeldBy
  <2> QED
    BY <2>3, TunnelsArePools
<1> QED
  BY <1>1, <1>2, NoPoolIsForgotten, InductiveInvariant, PTL DEF AllAreHeld

\* With connections entered as a DSN one failure of the network fails no query
\* that nobody disturbs: whoever loses its tunnel waits for its turn, and runs
\* again on a connection that works.
THEOREM OneFailureIsRepaired == "fields" \notin Forms /\ Spec => []QueryFailsOnlyIfDisturbed
<1> SUFFICES ASSUME AsDsn PROVE Spec => []QueryFailsOnlyIfDisturbed
  BY DEF AsDsn
<1>1. IInv => QueryFailsOnlyIfDisturbed
  BY DEF IInv, Queries, QueryFailsOnlyIfDisturbed
<1> QED
  BY <1>1, InductiveInvariant, PTL
=============================================================================
