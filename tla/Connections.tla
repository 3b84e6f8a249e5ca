---------------------------- MODULE Connections ----------------------------
(***************************************************************************)
(* The connections of one instance to its source databases: SQLConnector   *)
(* in internal/adapters/postgres.go with the SSH tunnels of                *)
(* prepareSQLConnection.  A connection is a pool of the driver and the     *)
(* tunnel it goes through; the n-th pool and the n-th tunnel opened belong *)
(* together and are both called n.                                         *)
(*                                                                         *)
(* Threads are requests: queries, which reconnect once when the network    *)
(* fails under them, saved or restored connections, tests of a connection, *)
(* and removals.                                                           *)
(***************************************************************************)
EXTENDS Integers, FiniteSets

CONSTANTS
  Threads,
  Databases,
  None,
  Slots,        \* TOPBASE_MAX_CONCURRENT_QUERIES
  Forms,        \* how connections are entered: "dsn" or "fields"
  MaxHandles,   \* bound: connections opened
  MaxCuts       \* bound: tunnels that die and connections that break

ASSUME ConnectionsAssumption ==
  /\ Forms \subseteq {"dsn", "fields"} /\ Forms # {}
  /\ Slots \in Nat \ {0} /\ MaxHandles \in Nat /\ MaxCuts \in Nat
  /\ None \notin Threads \cup Nat /\ Databases \cap Threads = {}

\* A tested connection gets an ID of its own: the name of the thread.
Ids == Databases \cup Threads
Handles == 1 .. MaxHandles

VARIABLES
  databases,    \* the map: ID to connection
  pools,        \* open pools
  tunnels,      \* tunnels that listen and are connected
  reconnect,    \* the mutex of each ID
  slots,        \* queries that may still start
  opened, cuts,
  down,         \* "up", or how CloseAll found the requests: "drained" or "cut"
  pc, op, id,   \* next step of a thread, what it does, to which connection
  used,         \* the pool the query ran on
  mine, old,    \* the connection it has opened, and the one it must close
  \* History, used by no action:
  hits,         \* cuts since the query of the thread began, and one it began with
  overtaken     \* the query's connection was closed by someone it did not wait for

shared == <<databases, pools, tunnels, reconnect, slots, opened, cuts, down>>
local == <<pc, op, id, used, mine, old>>
history == <<hits, overtaken>>
vars == <<databases, pools, tunnels, reconnect, slots, opened, cuts, down,
          pc, op, id, used, mine, old, hits, overtaken>>

NoConnection == [pool |-> None, tunnel |-> None]

Init ==
  /\ databases = [i \in Ids |-> NoConnection]
  /\ pools = {} /\ tunnels = {}
  /\ reconnect = [i \in Ids |-> None]
  /\ slots = Slots
  /\ opened = 0 /\ cuts = 0 /\ down = "up"
  /\ pc = [t \in Threads |-> "idle"]
  /\ op = [t \in Threads |-> "none"]
  /\ id = [t \in Threads |-> t]
  /\ used = [t \in Threads |-> None]
  /\ mine = [t \in Threads |-> NoConnection]
  /\ old = [t \in Threads |-> NoConnection]
  /\ hits = [t \in Threads |-> 0]
  /\ overtaken = [t \in Threads |-> FALSE]

Goto(t, label) == pc' = [pc EXCEPT ![t] = label]

\* Connected, of a connection in the map.
Alive(c) == c.pool # None /\ (c.tunnel = None \/ c.tunnel \in tunnels)

\* A thread opens at most one connection: the bound is kept at its start.
Busy == {t \in Threads : pc[t] # "idle"}

Begin(t, what, which, label) ==
  /\ pc[t] = "idle" /\ down = "up"
  /\ opened + Cardinality(Busy) < MaxHandles
  /\ op' = [op EXCEPT ![t] = what]
  /\ id' = [id EXCEPT ![t] = which]
  /\ Goto(t, label)

\* Variant: a query keeps its slot.
SlotKept(t) == FALSE

SlotReturned(t) == op[t] = "query" /\ pc[t] # "slot"

\* What the thread gives back when it ends.
End(t, label) ==
  /\ Goto(t, label)
  /\ op' = [op EXCEPT ![t] = "none"]
  /\ id' = [id EXCEPT ![t] = t]
  /\ used' = [used EXCEPT ![t] = None]
  /\ mine' = [mine EXCEPT ![t] = NoConnection]
  /\ old' = [old EXCEPT ![t] = NoConnection]
  /\ reconnect' = [i \in Ids |-> IF reconnect[i] = t THEN None ELSE reconnect[i]]
  /\ slots' = IF SlotReturned(t) THEN slots + 1 ELSE slots

\* A query that failed is "failed" until its error is answered.
Succeed(t) ==
  /\ End(t, "idle")
  /\ hits' = [hits EXCEPT ![t] = 0]
  /\ overtaken' = [overtaken EXCEPT ![t] = FALSE]
  /\ UNCHANGED <<databases, pools, tunnels, opened, cuts, down>>

Fail(t) ==
  /\ End(t, "failed")
  /\ UNCHANGED <<databases, pools, tunnels, opened, cuts, down, history>>

Answer(t) ==
  /\ pc[t] = "failed"
  /\ Succeed(t)

-----------------------------------------------------------------------------
(* Connect. *)

\* Update connects always, EnsureConnected and the restore at start-up what is
\* not connected; Add and Test connect under an ID nobody knows yet.
StartConnect(t, d) ==
  /\ Begin(t, "connect", d, "lock")
  /\ UNCHANGED <<shared, used, mine, old, history>>

StartTest(t) ==
  /\ Begin(t, "test", t, "open")
  /\ UNCHANGED <<shared, used, mine, old, history>>

MutexFree(i) == reconnect[i] = None

\* Connect and reconnectDatabase: under the mutex, a query first looks whether
\* another one has already reconnected.
Lock(t) ==
  LET current == databases[id[t]] IN
  /\ pc[t] = "lock"
  /\ MutexFree(id[t])
  /\ \/ /\ op[t] = "query" /\ current = NoConnection
        /\ Fail(t)
     \/ /\ op[t] = "query" /\ current # NoConnection
        /\ current.pool # used[t] /\ Alive(current)
        /\ Goto(t, "pickAgain")
        /\ UNCHANGED <<shared, op, id, used, mine, old, history>>
     \/ /\ op[t] = "query" =>
             current # NoConnection /\ ~(current.pool # used[t] /\ Alive(current))
        /\ reconnect' = [reconnect EXCEPT ![id[t]] = t]
        /\ Goto(t, "open")
        /\ UNCHANGED <<databases, pools, tunnels, slots, opened, cuts, down, op, id, used, mine,
                       old, history>>

\* Variant: the tunnel of the DSN form is not recorded either.
NoTunnelRecorded(form, n) == None

\* prepareSQLConnection declares the tunnel of the "fields" form a second time,
\* in the block that opens it: the connection it returns has none.
RecordedTunnel(form, n) == IF form = "fields" THEN None ELSE n

\* openSSHTunnel and sql.Open.
Open(t) ==
  LET n == opened + 1 IN
  /\ pc[t] = "open"
  /\ opened' = n
  /\ tunnels' = tunnels \cup {n}
  /\ pools' = pools \cup {n}
  /\ \E form \in Forms :
       mine' = [mine EXCEPT ![t] = [pool |-> n, tunnel |-> RecordedTunnel(form, n)]]
  /\ Goto(t, "ping")
  /\ UNCHANGED <<databases, reconnect, slots, cuts, down, op, id, used, old, history>>

Cut == cuts < MaxCuts /\ cuts' = cuts + 1
Hit == hits' = [t \in Threads |-> IF op[t] = "query" THEN hits[t] + 1 ELSE hits[t]]

\* The end of a Connect that failed.
Refused(t) ==
  /\ End(t, IF op[t] = "query" THEN "failed" ELSE "idle")
  /\ UNCHANGED <<databases, opened, down, overtaken>>

OpenFails(t) ==
  /\ pc[t] = "open"
  /\ Cut /\ Hit
  /\ Refused(t)
  /\ UNCHANGED <<pools, tunnels>>

Ping(t) ==
  /\ pc[t] = "ping"
  /\ \/ /\ mine[t].pool \in tunnels
        /\ Goto(t, "swap")
        /\ UNCHANGED <<shared, op, id, used, mine, old, history>>
     \/ /\ \/ mine[t].pool \notin tunnels /\ UNCHANGED <<cuts, hits>>
           \/ Cut /\ Hit
        /\ pools' = pools \ {mine[t].pool}
        /\ tunnels' = tunnels \ {mine[t].tunnel}
        /\ Refused(t)

\* A query that has not started yet loses its connection to anyone; one that
\* reconnects, to anyone but the other queries that reconnect.
Overtakes(t) == overtaken' =
  [s \in Threads |-> \/ overtaken[s]
                     \/ /\ s # t /\ op[s] = "query" /\ id[s] = id[t]
                        /\ op[t] = "query" => pc[s] = "run"]

Swap(t) ==
  /\ pc[t] = "swap"
  /\ old' = [old EXCEPT ![t] = databases[id[t]]]
  /\ databases' = [databases EXCEPT ![id[t]] = mine[t]]
  /\ mine' = [mine EXCEPT ![t] = NoConnection]
  /\ Overtakes(t)
  /\ Goto(t, "closeOld")
  /\ UNCHANGED <<pools, tunnels, reconnect, slots, opened, cuts, down, op, id, used, hits>>

\* Variant: the replaced pool is left to the garbage collector.
ForgottenPools(t) == {}

ClosedPools(t) == {old[t].pool}

\* The deferred unlock, then what the caller does with the connection.
CloseOld(t) ==
  /\ pc[t] = "closeOld"
  /\ pools' = pools \ ClosedPools(t)
  /\ tunnels' = tunnels \ {old[t].tunnel}
  /\ \/ /\ op[t] \in {"query", "test"}
        /\ old' = [old EXCEPT ![t] = NoConnection]
        /\ reconnect' = [reconnect EXCEPT ![id[t]] = IF @ = t THEN None ELSE @]
        /\ Goto(t, IF op[t] = "query" THEN "pickAgain" ELSE "close")
        /\ UNCHANGED <<slots, op, id, used, mine>>
     \/ op[t] \in {"connect", "remove"} /\ End(t, "idle")
  /\ UNCHANGED <<databases, opened, cuts, down, history>>

\* Close, by Remove and at the end of Test.
StartRemove(t, d) ==
  /\ Begin(t, "remove", d, "close")
  /\ UNCHANGED <<shared, used, mine, old, history>>

Close(t) ==
  /\ pc[t] = "close"
  /\ old' = [old EXCEPT ![t] = databases[id[t]]]
  /\ databases' = [databases EXCEPT ![id[t]] = NoConnection]
  /\ Overtakes(t)
  /\ op' = [op EXCEPT ![t] = "remove"]
  /\ Goto(t, "closeOld")
  /\ UNCHANGED <<pools, tunnels, reconnect, slots, opened, cuts, down, id, used, mine, hits>>

\* The process ends after its requests, or after waiting 15 s for them.
CloseAll ==
  /\ down = "up"
  /\ down' = IF Busy = {} THEN "drained" ELSE "cut"
  /\ databases' = [i \in Ids |-> NoConnection]
  /\ pools' = pools \ {databases[i].pool : i \in Ids}
  /\ tunnels' = tunnels \ {databases[i].tunnel : i \in Ids}
  /\ overtaken' = [t \in Threads |-> overtaken[t] \/ op[t] = "query"]
  /\ UNCHANGED <<reconnect, slots, opened, cuts, local, hits>>

\* keepalive and monitor: a tunnel closes itself.
TunnelDies(n) ==
  /\ n \in tunnels
  /\ Cut /\ Hit
  /\ tunnels' = tunnels \ {n}
  /\ UNCHANGED <<databases, pools, reconnect, slots, opened, down, local, overtaken>>

-----------------------------------------------------------------------------
(* Execute. *)

Dead(c) == c # NoConnection /\ c.pool \notin tunnels

\* The connection of the map is dead, or the one that is about to replace it.
DeadAlready(d) ==
  \/ Dead(databases[d])
  \/ \E u \in Threads : pc[u] = "swap" /\ id[u] = d /\ Dead(mine[u])

StartQuery(t, d) ==
  /\ Begin(t, "query", d, "slot")
  /\ hits' = [hits EXCEPT ![t] = IF DeadAlready(d) THEN 1 ELSE 0]
  /\ overtaken' = [overtaken EXCEPT ![t] = databases[d] = NoConnection]
  /\ UNCHANGED <<shared, used, mine, old>>

TakeSlot(t) ==
  /\ pc[t] = "slot"
  /\ slots > 0
  /\ slots' = slots - 1
  /\ Goto(t, "pick")
  /\ UNCHANGED <<databases, pools, tunnels, reconnect, opened, cuts, down, op, id, used, mine, old,
                 history>>

\* The request ends while it waits.
GiveUp(t) ==
  /\ pc[t] = "slot"
  /\ Succeed(t)

Pick(t, here, next) ==
  /\ pc[t] = here
  /\ IF databases[id[t]] = NoConnection
       THEN Fail(t)
       ELSE /\ used' = [used EXCEPT ![t] = databases[id[t]].pool]
            /\ Goto(t, next)
            /\ UNCHANGED <<shared, op, id, mine, old, history>>

Works(t) == used[t] \in pools /\ used[t] \in tunnels

\* Variant: the error is given to the caller.
NeverRecoverable(t) == FALSE

\* A query that starts on a closed pool gets "database is closed", which is not
\* among the errors of recoverableConnectionError; one whose network breaks, on
\* an open pool or on one closed since it started, gets one that is.
Recoverable(t) == used[t] \notin tunnels \/ used[t] \in pools

RunFails(t) ==
  \/ used[t] \notin pools /\ Fail(t)
  \/ /\ \/ used[t] \notin tunnels /\ UNCHANGED <<cuts, hits>>
        \/ Works(t) /\ Cut /\ Hit
     /\ IF Recoverable(t)
          THEN /\ Goto(t, "lock")
               /\ UNCHANGED <<databases, pools, tunnels, reconnect, slots, opened, down, op, id,
                              used, mine, old, overtaken>>
          ELSE Refused(t) /\ UNCHANGED <<pools, tunnels>>

Run(t) ==
  /\ pc[t] = "run"
  /\ (Works(t) /\ Succeed(t)) \/ RunFails(t)

RunAgain(t) ==
  /\ pc[t] = "runAgain"
  /\ IF Works(t) THEN Succeed(t) ELSE Fail(t)

Step(t) ==
  \/ Lock(t) \/ Open(t) \/ Ping(t) \/ Swap(t) \/ CloseOld(t) \/ Close(t)
  \/ TakeSlot(t) \/ Pick(t, "pick", "run") \/ Pick(t, "pickAgain", "runAgain")
  \/ Run(t) \/ RunAgain(t) \/ Answer(t)

Next ==
  \/ \E t \in Threads :
       \/ Step(t) \/ OpenFails(t) \/ GiveUp(t) \/ StartTest(t)
       \/ \E d \in Databases : StartConnect(t, d) \/ StartRemove(t, d) \/ StartQuery(t, d)
  \/ \E n \in Handles : TunnelDies(n)
  \/ CloseAll

Spec == Init /\ [][Next]_vars

\* Threads go on: the driver and the tunnel answer or fail.  A Go mutex and a
\* Go channel serve those who wait in their order.
FairSpec == Spec /\ \A t \in Threads :
  WF_vars(Step(t)) /\ SF_vars(TakeSlot(t)) /\ SF_vars(Lock(t))

-----------------------------------------------------------------------------
(* Properties. *)

Connection == [pool : Handles \cup {None}, tunnel : Handles \cup {None}]
Labels == {"idle", "lock", "open", "ping", "swap", "closeOld", "close",
           "slot", "pick", "run", "pickAgain", "runAgain", "failed"}

\* The type of every variable of the connector and of its threads.
TypeOK ==
  /\ databases \in [Ids -> Connection]
  /\ pools \subseteq Handles /\ tunnels \subseteq Handles
  /\ reconnect \in [Ids -> Threads \cup {None}]
  /\ slots \in 0 .. Slots
  /\ opened \in 0 .. MaxHandles /\ cuts \in 0 .. MaxCuts
  /\ down \in {"up", "drained", "cut"}
  /\ pc \in [Threads -> Labels]
  /\ op \in [Threads -> {"none", "query", "connect", "test", "remove"}]
  /\ id \in [Threads -> Ids]
  /\ used \in [Threads -> Handles \cup {None}]
  /\ mine \in [Threads -> Connection] /\ old \in [Threads -> Connection]
  /\ hits \in [Threads -> 0 .. MaxCuts + 1]
  /\ overtaken \in [Threads -> BOOLEAN]

Held == {databases[i] : i \in Ids} \cup {mine[t] : t \in Threads} \cup {old[t] : t \in Threads}

\* Whatever queries, saves, tests and removals of one connection overlap, the
\* pools that are open are those of the map and those a thread has just opened
\* or is about to close: none is forgotten, and the map keeps no closed one.
PoolsAreHeld == pools = {c.pool : c \in Held} \ {None}

\* Every tunnel that runs is recorded beside a pool somebody holds, so that
\* who closes the pool closes the tunnel.
TunnelsAreHeld == tunnels \subseteq {c.tunnel : c \in Held}

\* "CloseAll releases every source connection and SSH tunnel owned by this
\* process" (postgres.go:447), after the HTTP requests have drained.
CloseAllReleases == down = "drained" => pools = {} /\ tunnels = {}

\* No pool or tunnel is ever out of everybody's hands, and after CloseAll none
\* is left.
AllAreHeld == PoolsAreHeld /\ TunnelsAreHeld /\ CloseAllReleases

\* One failure of the network never fails a query that waits for its turn to
\* reconnect: it fails only after a second failure (the first may have been before
\* it began, if that connection is still the map's or about to be), or when its
\* connection was saved again, removed or closed under it, or was replaced between
\* its reading the map and its start.
QueryFailsOnlyIfDisturbed ==
  \A t \in Threads : pc[t] = "failed" => hits[t] >= 2 \/ overtaken[t]

\* A query that waits for a slot ends, with a result or an error.
QueryReturns == \A t \in Threads : pc[t] = "slot" ~> pc[t] \in {"idle", "failed"}
=============================================================================
