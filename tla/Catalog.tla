------------------------------ MODULE Catalog ------------------------------
(***************************************************************************)
(* The data source catalog: CatalogService in internal/core/catalog.go     *)
(* over three tables of the application database (the list, the encrypted  *)
(* settings, the schema snapshots) and the open connections of each node,  *)
(* the handlers in internal/platform/httpapi/handlers.go, and what a node  *)
(* does when it starts: the import of the files of former versions and     *)
(* restoreConnections (internal/platform/httpapi/server.go).               *)
(*                                                                         *)
(* A data source has settings <<host, password>>; the password of a host   *)
(* is the host, and a blank one is 0.  Nothing here is in a transaction.   *)
(* A process is one administrator's request at one node; a source it adds  *)
(* has the process as its identifier.  Connections has what is inside a    *)
(* connection.                                                             *)
(***************************************************************************)
EXTENDS Integers

CONSTANTS
  Procs, Nodes,
  Requests,    \* the requests a process may be
  Sources,     \* data sources that may exist before
  Legacy,      \* Legacy[n]: those in the files of a former version at node n
  Starts,      \* the sources listed and saved at first
  Serving,     \* the nodes that serve at first; the others start
  Gone,        \* no settings, no host
  MaxFaults    \* bound: statements that fail and nodes that crash

Ids == Sources \cup Procs
Settings(host, password) == [host |-> host, password |-> password]
Blank == 0

\* The settings every source of a former version was saved with.
Filed == Settings(1, 1)

VARIABLES
  listed,      \* listed[d]: the host in the catalog
  secrets,     \* secrets[d]: the settings saved
  snapshots,   \* snapshots[d]: the host whose schema was stored
  notes,       \* notes[d]: the annotation of its table, "file" or "user" when there is one
  pools,       \* pools[n][d]: the settings node n has a connection with
  boot, todo,  \* what the node is at when it starts, and for which sources still
  at, seen,    \* the source whose settings it stores, the settings it restores
  req, pc, mem,
  faults,
  \* History:
  raced,       \* raced[p]: another worked on the same source, or a row of it stayed
  dirty,       \* sources last changed by someone who failed or was not alone
  changer,     \* changer[d]: the node of its last change
  filled       \* filled[n]: sources saved since node n looked for their settings

tables == <<listed, secrets, snapshots, notes>>
startup == <<boot, todo, at, seen>>
history == <<raced, dirty, changer, filled>>
vars == <<tables, pools, startup, req, pc, mem, faults, history>>

NoPools == [d \in Ids |-> Gone]

Init ==
  /\ \E s \in Starts :
       /\ listed = [d \in Ids |-> IF d \in s THEN Filed.host ELSE Gone]
       /\ secrets = [d \in Ids |-> IF d \in s THEN Filed ELSE Gone]
  /\ snapshots = [d \in Ids |-> Gone]
  /\ notes = [d \in Ids |-> "none"]
  /\ pools = [n \in Nodes |-> IF n \in Serving THEN secrets ELSE NoPools]
  /\ boot = [n \in Nodes |-> IF n \in Serving THEN "up" ELSE "list"] /\ todo = [n \in Nodes |-> {}]
  /\ at = [n \in Nodes |-> Gone] /\ seen = [n \in Nodes |-> NoPools]
  /\ req \in [Procs -> Requests]
  /\ pc = [p \in Procs |-> "begin"]
  /\ mem = [p \in Procs |-> Gone]
  /\ faults = 0
  /\ raced = [p \in Procs |-> FALSE] /\ dirty = {}
  /\ changer = [d \in Ids |-> Gone] /\ filled = [n \in Nodes |-> {}]

Source(p) == IF req[p].kind \in {"add", "test"} /\ req[p].id = Gone THEN p ELSE req[p].id
Node(p) == req[p].node
Changes(p) == req[p].kind \in {"add", "update", "remove"}

At(p, kinds, label) == req[p].kind \in kinds /\ pc[p] = label
Goto(p, label) == pc' = [pc EXCEPT ![p] = label]
Ended == {"begin", "ok", "error"}

\* Those at work on d: requests, and nodes that import it or restore it.
AtWork(d) == {p \in Procs : pc[p] \notin Ended /\ Source(p) = d}
Starting(d) == {n \in Nodes : boot[n] # "up" /\ d \in Legacy[n] \cup todo[n]}

\* A request answers; one that changed its source alone and to the end leaves
\* it clean, one that stores the schema a former connection shows does not.
Answer(p, result) ==
  /\ Goto(p, result)
  /\ mem' = [mem EXCEPT ![p] = Gone]

Stays == UNCHANGED <<startup, req, faults, raced, changer, filled>>
Clean(p) ==
  dirty' = CASE Changes(p) /\ ~raced[p] -> dirty \ {Source(p)}
             [] ~Changes(p) /\ changer[Source(p)] \notin {Gone, Node(p)} -> dirty \cup {Source(p)}
             [] OTHER -> dirty
Soiled(p) == dirty' = dirty \cup {Source(p)}

\* A statement fails, or the network does.
Fault(p) ==
  /\ faults < MaxFaults /\ faults' = faults + 1
  /\ UNCHANGED <<startup, req, raced, changer, filled>>

----------------------------------------------------------------------------
(* A request begins, when its node serves.                                 *)

First(kind) ==
  CASE kind = "add" -> "connect" [] kind = "update" -> "find" [] kind = "test" -> "merge"
    [] kind = "remove" -> "close" [] kind \in {"sync", "query"} -> "ensure" [] kind = "annotate" -> "note"

Begin(p) ==
  LET d == Source(p)  rivals == AtWork(d)
  IN /\ pc[p] = "begin" /\ boot[Node(p)] = "up"
     /\ Goto(p, First(req[p].kind))
     /\ mem' = [mem EXCEPT ![p] = IF req[p].kind \in {"add", "update", "test"} THEN req[p].settings ELSE Gone]
     /\ raced' = [q \in Procs |-> raced[q] \/ (rivals \cup Starting(d) # {} /\ q \in rivals \cup {p})]
     /\ dirty' = IF rivals \cup Starting(d) # {} THEN dirty \cup {d} ELSE dirty
     /\ UNCHANGED <<tables, pools, startup, req, faults, changer, filled>>

----------------------------------------------------------------------------
(* Connecting: the source answers and accepts the password, or not.        *)

Accepts(s) == s # Gone /\ s.password = s.host

\* Update: the source is looked up.
Find(p) ==
  /\ At(p, {"update"}, "find")
  /\ IF listed[Source(p)] = Gone THEN Answer(p, "error") ELSE Goto(p, "merge") /\ UNCHANGED mem
  /\ Stays /\ UNCHANGED <<tables, pools, dirty>>

\* mergeSecret: what was left blank is taken from the saved settings.
Merged(s, saved) == IF s.password = Blank /\ saved # Gone THEN Settings(s.host, saved.password) ELSE s

Merge(p) ==
  /\ At(p, {"update", "test"}, "merge")
  /\ mem' = [mem EXCEPT ![p] = IF req[p].id = Gone THEN @ ELSE Merged(@, secrets[req[p].id])]
  /\ Goto(p, "connect")
  /\ Stays /\ UNCHANGED <<tables, pools, dirty>>

\* Variant: a connection that is there is kept.
OpenedOnce(n, d, s) == IF pools[n][d] # Gone THEN pools ELSE [pools EXCEPT ![n][d] = s]

\* Connect of a source: the connection replaces the one in the map.
Opened(n, d, s) == [pools EXCEPT ![n][d] = s]

Connect(p) ==
  /\ At(p, {"add", "update"}, "connect")
  /\ Accepts(mem[p])
  /\ pools' = Opened(Node(p), Source(p), mem[p])
  /\ Goto(p, "save")
  /\ Stays /\ UNCHANGED <<tables, mem, dirty>>

\* Nothing has changed when the source does not answer.
Refused(p) ==
  /\ At(p, {"add", "update", "test"}, "connect") \/ At(p, {"add", "update", "sync", "query"}, "reconnect")
  /\ Answer(p, IF At(p, {"add", "update"}, "reconnect") THEN "ok" ELSE "error")
  /\ IF Accepts(mem[p])
     THEN Fault(p) /\ (IF req[p].kind = "update" /\ pc[p] = "reconnect" THEN Soiled(p) ELSE UNCHANGED dirty)
     ELSE Stays /\ UNCHANGED dirty
  /\ UNCHANGED <<tables, pools>>

\* Test connects under an identifier of its own and closes.
Test(p) ==
  /\ At(p, {"test"}, "connect") /\ Accepts(mem[p])
  /\ Answer(p, "ok")
  /\ Stays /\ UNCHANGED <<tables, pools, dirty>>

----------------------------------------------------------------------------
(* Add and Update, after Connect.                                          *)

Save(p) ==
  /\ At(p, {"add", "update"}, "save")
  /\ listed' = [listed EXCEPT ![Source(p)] = mem[p].host]
  /\ Goto(p, "secret")
  /\ Stays /\ UNCHANGED <<secrets, snapshots, notes, pools, mem, dirty>>

\* Add closes the connection, Update leaves the new one.
SaveFails(p) ==
  /\ At(p, {"add", "update"}, "save")
  /\ Fault(p) /\ Answer(p, "error")
  /\ IF req[p].kind = "add"
     THEN pools' = [pools EXCEPT ![Node(p)][p] = Gone] /\ UNCHANGED dirty
     ELSE Soiled(p) /\ UNCHANGED pools
  /\ UNCHANGED tables

SaveSecret(p) ==
  /\ At(p, {"add", "update"}, "secret")
  /\ secrets' = [secrets EXCEPT ![Source(p)] = mem[p]]
  /\ filled' = [n \in Nodes |-> filled[n] \cup {Source(p)}]
  /\ changer' = [changer EXCEPT ![Source(p)] = Node(p)]
  /\ Goto(p, "ensure")
  /\ UNCHANGED <<listed, snapshots, notes, pools, startup, req, mem, faults, raced, dirty>>

SecretFails(p) ==
  /\ At(p, {"add", "update"}, "secret")
  /\ Fault(p)
  /\ IF req[p].kind = "add"
     THEN Goto(p, "undo") /\ UNCHANGED <<mem, dirty>>
     ELSE Answer(p, "error") /\ Soiled(p)
  /\ UNCHANGED <<tables, pools>>

\* Variant: only the connection.
ClosedOnly(p) == pools' = [pools EXCEPT ![Node(p)][p] = Gone] /\ UNCHANGED listed

\* What Add takes back.
TakenBack(p) == listed' = [listed EXCEPT ![p] = Gone] /\ pools' = [pools EXCEPT ![Node(p)][p] = Gone]

Undo(p) ==
  /\ At(p, {"add"}, "undo")
  /\ TakenBack(p)
  /\ Answer(p, "error")
  /\ Stays /\ UNCHANGED <<secrets, snapshots, notes, dirty>>

\* The error of Delete is dropped.
UndoFails(p) ==
  /\ At(p, {"add"}, "undo")
  /\ Fault(p)
  /\ pools' = [pools EXCEPT ![Node(p)][p] = Gone]
  /\ Answer(p, "error") /\ Soiled(p)
  /\ UNCHANGED tables

----------------------------------------------------------------------------
(* Sync, which ends Add and Update as well, and EnsureConnected.           *)

Syncing == {"add", "update", "sync"}

Ensure(p) ==
  /\ At(p, Syncing \cup {"query"}, "ensure")
  /\ Goto(p, IF pools[Node(p)][Source(p)] # Gone THEN "tables" ELSE "reopen")
  /\ Stays /\ UNCHANGED <<tables, pools, mem, dirty>>

\* How Sync's end is answered: Add and Update succeed whatever became of it.
SyncFailed(p) == IF req[p].kind \in {"add", "update"} THEN "ok" ELSE "error"

Reopen(p) ==
  /\ At(p, Syncing \cup {"query"}, "reopen")
  /\ mem' = [mem EXCEPT ![p] = secrets[Source(p)]]
  /\ Goto(p, IF secrets[Source(p)] = Gone THEN SyncFailed(p) ELSE "reconnect")
  /\ Stays /\ UNCHANGED <<tables, pools, dirty>>

Reconnect(p) ==
  /\ At(p, Syncing \cup {"query"}, "reconnect") /\ Accepts(mem[p])
  /\ pools' = Opened(Node(p), Source(p), mem[p])
  /\ Goto(p, "tables")
  /\ Stays /\ UNCHANGED <<tables, mem, dirty>>

\* A query ends here; Tables reads the schema through the connection.
ReadTables(p) ==
  LET s == pools[Node(p)][Source(p)]
  IN /\ At(p, Syncing \cup {"query"}, "tables")
     /\ \/ /\ s # Gone /\ req[p].kind # "query"
           /\ mem' = [mem EXCEPT ![p] = s]
           /\ Goto(p, "snapshot") /\ UNCHANGED dirty
        \/ s # Gone /\ req[p].kind = "query" /\ Answer(p, "ok") /\ UNCHANGED dirty
        \/ s = Gone /\ Answer(p, SyncFailed(p)) /\ UNCHANGED dirty
     /\ Stays /\ UNCHANGED <<tables, pools>>

SaveSnapshot(p) ==
  /\ At(p, Syncing, "snapshot")
  /\ snapshots' = [snapshots EXCEPT ![Source(p)] = mem[p].host]
  /\ Answer(p, "ok") /\ Clean(p)
  /\ Stays /\ UNCHANGED <<listed, secrets, notes, pools>>

\* The former snapshot stays: after Update it may be that of another host.
SyncFails(p) ==
  /\ At(p, Syncing, "tables") \/ At(p, Syncing, "snapshot")
  /\ Fault(p) /\ Answer(p, SyncFailed(p))
  /\ IF req[p].kind = "update" THEN Soiled(p) ELSE UNCHANGED dirty
  /\ UNCHANGED <<tables, pools>>

----------------------------------------------------------------------------
(* Remove, and the annotation of a table.                                  *)

Close(p) ==
  /\ At(p, {"remove"}, "close")
  /\ pools' = [pools EXCEPT ![Node(p)][Source(p)] = Gone]
  /\ Goto(p, "unsecret")
  /\ Stays /\ UNCHANGED <<tables, mem, dirty>>

DeleteSecret(p) ==
  /\ At(p, {"remove"}, "unsecret")
  /\ secrets' = [secrets EXCEPT ![Source(p)] = Gone]
  /\ changer' = [changer EXCEPT ![Source(p)] = Node(p)]
  /\ Goto(p, "unsnap")
  /\ UNCHANGED <<listed, snapshots, notes, pools, startup, req, mem, faults, raced, dirty, filled>>

DeleteSnapshot(p) ==
  /\ At(p, {"remove"}, "unsnap")
  /\ snapshots' = [snapshots EXCEPT ![Source(p)] = Gone]
  /\ Goto(p, "unlist")
  /\ Stays /\ UNCHANGED <<listed, secrets, notes, pools, mem, dirty>>

Delete(p) ==
  /\ At(p, {"remove"}, "unlist")
  /\ listed' = [listed EXCEPT ![Source(p)] = Gone]
  /\ Answer(p, "ok") /\ Clean(p)
  /\ Stays /\ UNCHANGED <<secrets, snapshots, notes, pools>>

\* The error of the snapshot is dropped.
SnapshotStays(p) ==
  /\ At(p, {"remove"}, "unsnap")
  /\ faults < MaxFaults /\ faults' = faults + 1
  /\ Soiled(p) /\ raced' = [raced EXCEPT ![p] = TRUE]
  /\ Goto(p, "unlist")
  /\ UNCHANGED <<tables, pools, startup, req, mem, changer, filled>>

\* A connection that does not close has left the map all the same.
RemoveFails(p) ==
  /\ req[p].kind = "remove" /\ pc[p] \in {"close", "unsecret", "unlist"}
  /\ Fault(p) /\ Soiled(p)
  /\ Answer(p, "error")
  /\ pools' = IF pc[p] = "close" THEN [pools EXCEPT ![Node(p)][Source(p)] = Gone] ELSE pools
  /\ UNCHANGED tables

Annotate(p) ==
  /\ At(p, {"annotate"}, "note")
  /\ notes' = [notes EXCEPT ![Source(p)] = "user"]
  /\ Answer(p, "ok")
  /\ Stays /\ UNCHANGED <<listed, secrets, snapshots, pools, dirty>>

----------------------------------------------------------------------------
(* A node starts; it serves once it is up.  The maps of Go are walked in    *)
(* any order.  No error of a file or a statement stops it.                  *)

BootTo(n, label, ds) == boot' = [boot EXCEPT ![n] = label] /\ todo' = [todo EXCEPT ![n] = ds]
Left(n, d) == todo' = [todo EXCEPT ![n] = @ \ {d}] /\ UNCHANGED boot
BootKeeps == UNCHANGED <<req, pc, mem, raced, dirty, changer>>

Empty == \A d \in Ids : listed[d] = Gone

\* ImportCatalog: only into an empty list.
LookAtList(n) ==
  /\ boot[n] = "list"
  /\ BootTo(n, "catalog", IF Empty THEN Legacy[n] ELSE {})
  /\ BootKeeps /\ UNCHANGED <<tables, pools, at, seen, faults, filled>>

ImportRow(n) ==
  /\ boot[n] = "catalog"
  /\ \E d \in todo[n] : listed' = [listed EXCEPT ![d] = Filed.host] /\ Left(n, d)
  /\ BootKeeps /\ UNCHANGED <<secrets, snapshots, notes, pools, at, seen, faults, filled>>

\* Each note of the file is saved, whether there is one or not.
ImportNote(n) ==
  /\ boot[n] = "notes"
  /\ \E d \in todo[n] : notes' = [notes EXCEPT ![d] = "file"] /\ Left(n, d)
  /\ BootKeeps /\ UNCHANGED <<listed, secrets, snapshots, pools, at, seen, faults, filled>>

\* Variant: whatever is saved.
MissingOrNot(d) == TRUE

Missing(d) == secrets[d] = Gone

LookForSecret(n) ==
  /\ boot[n] = "secrets" /\ at[n] = Gone
  /\ \E d \in todo[n] :
       IF Missing(d)
       THEN at' = [at EXCEPT ![n] = d] /\ filled' = [filled EXCEPT ![n] = {}] /\ UNCHANGED <<boot, todo>>
       ELSE Left(n, d) /\ UNCHANGED <<at, filled>>
  /\ BootKeeps /\ UNCHANGED <<tables, pools, seen, faults>>

StoreSecret(n) ==
  /\ boot[n] = "secrets" /\ at[n] # Gone
  /\ secrets' = [secrets EXCEPT ![at[n]] = Filed]
  /\ filled' = [m \in Nodes |-> filled[m] \cup {at[n]}]
  /\ at' = [at EXCEPT ![n] = Gone] /\ Left(n, at[n])
  /\ BootKeeps /\ UNCHANGED <<listed, snapshots, notes, pools, seen, faults>>

\* restoreConnections reads all settings, then connects one after the other.
ReadSecrets(n) ==
  /\ boot[n] = "secrets" /\ todo[n] = {}
  /\ seen' = [seen EXCEPT ![n] = secrets]
  /\ BootTo(n, "restore", {d \in Ids : secrets[d] # Gone})
  /\ BootKeeps /\ UNCHANGED <<tables, pools, at, faults, filled>>

Restore(n) ==
  /\ boot[n] = "restore"
  /\ \E d \in todo[n] :
       /\ pools' = IF Accepts(seen[n][d]) THEN Opened(n, d, seen[n][d]) ELSE pools
       /\ Left(n, d)
  /\ BootKeeps /\ UNCHANGED <<tables, at, seen, faults, filled>>

NextStage(n) ==
  /\ todo[n] = {}
  /\ \/ boot[n] = "catalog" /\ BootTo(n, "notes", Legacy[n]) /\ UNCHANGED seen
     \/ boot[n] = "notes" /\ BootTo(n, "secrets", Legacy[n]) /\ UNCHANGED seen
     \/ boot[n] = "restore" /\ BootTo(n, "up", {}) /\ seen' = [seen EXCEPT ![n] = NoPools]
  /\ BootKeeps /\ UNCHANGED <<tables, pools, at, faults, filled>>

\* A failed Save ends the import of the list, a failed read of the settings
\* ends restoreConnections; otherwise the next source is taken.
BootFails(n) ==
  /\ faults < MaxFaults /\ faults' = faults + 1
  /\ \/ boot[n] \in {"list", "catalog"} /\ BootTo(n, "notes", Legacy[n]) /\ UNCHANGED <<at, dirty>>
     \/ boot[n] = "secrets" /\ todo[n] = {} /\ BootTo(n, "up", {}) /\ UNCHANGED <<at, dirty>>
     \/ \E d \in todo[n] : boot[n] \in {"notes", "restore"} /\ Left(n, d) /\ UNCHANGED <<at, dirty>>
     \/ \E d \in todo[n] : /\ boot[n] = "secrets" /\ at[n] \in {Gone, d} /\ Left(n, d)
                           /\ at' = [at EXCEPT ![n] = Gone] /\ dirty' = dirty \cup {d}
  /\ UNCHANGED <<tables, pools, seen, req, pc, mem, raced, changer, filled>>

\* The node dies with its connections and requests, and starts again: whoever
\* works on a source of its files at another node is not alone any more.
Crash(n) ==
  /\ boot[n] = "up"
  /\ faults < MaxFaults /\ faults' = faults + 1
  /\ boot' = [boot EXCEPT ![n] = "list"]
  /\ pools' = [pools EXCEPT ![n] = NoPools]
  /\ LET hit == {p \in Procs : Node(p) = n /\ pc[p] \notin Ended}
         others == {p \in Procs \ hit : pc[p] \notin Ended /\ Source(p) \in Legacy[n]}
     IN /\ pc' = [p \in Procs |-> IF p \in hit THEN "error" ELSE pc[p]]
        /\ mem' = [p \in Procs |-> IF p \in hit THEN Gone ELSE mem[p]]
        /\ raced' = [p \in Procs |-> raced[p] \/ p \in others]
        /\ dirty' = dirty \cup {Source(p) : p \in others \cup {q \in hit : Changes(q) \/ req[q].kind = "sync"}}
  /\ UNCHANGED <<tables, todo, at, seen, req, changer, filled>>

----------------------------------------------------------------------------
Step(p) ==
  \/ Begin(p) \/ Find(p) \/ Merge(p) \/ Connect(p) \/ Refused(p) \/ Test(p)
  \/ Save(p) \/ SaveFails(p) \/ SaveSecret(p) \/ SecretFails(p) \/ Undo(p) \/ UndoFails(p)
  \/ Ensure(p) \/ Reopen(p) \/ Reconnect(p) \/ ReadTables(p) \/ SaveSnapshot(p) \/ SyncFails(p)
  \/ Close(p) \/ DeleteSecret(p) \/ DeleteSnapshot(p) \/ Delete(p) \/ SnapshotStays(p) \/ RemoveFails(p) \/ Annotate(p)

Boot(n) ==
  \/ LookAtList(n) \/ ImportRow(n) \/ ImportNote(n) \/ LookForSecret(n) \/ StoreSecret(n)
  \/ ReadSecrets(n) \/ Restore(n) \/ NextStage(n) \/ BootFails(n) \/ Crash(n)

Next == (\E p \in Procs : Step(p)) \/ (\E n \in Nodes : Boot(n))

Spec == Init /\ [][Next]_vars

----------------------------------------------------------------------------
(* Properties.                                                             *)

Calm(d) == AtWork(d) = {} /\ Starting(d) = {}

\* Listed and saved with one host, or neither; the schema stored is of that
\* host.  The file of a former version brings back the settings of a source
\* that was removed, and Sync and queries ask for the settings only.
Whole(d) ==
  \/ listed[d] # Gone /\ secrets[d] # Gone /\ listed[d] = secrets[d].host /\ snapshots[d] \in {Gone, listed[d]}
  \/ listed[d] = Gone /\ snapshots[d] = Gone /\ secrets[d] = Gone
  \/ (\E n \in Nodes : d \in Legacy[n]) /\ listed[d] = Gone /\ snapshots[d] \in {Gone, Filed.host} /\ secrets[d] = Filed

\* After Add, Update and Remove a data source is whole, once nobody works on
\* it: listed with the settings it is reached by, or gone with all its rows.
\* It is not only when the last to change it failed halfway, died, or was not
\* alone, or when a node that has not heard of the change stored a schema; the
\* next Update or Remove that ends makes it whole again.
WholeOrDirty == \A d \in Ids : Calm(d) => Whole(d) \/ d \in dirty

\* A node that has a connection has it with the settings saved, once nobody
\* works on the source, unless it is dirty or another node changed it last:
\* no node hears of what another one changes, and keeps its connection.
ConnectedAsSavedOrElsewhere ==
  \A n \in Nodes, d \in Ids :
    Calm(d) /\ pools[n][d] # Gone =>
      pools[n][d] = secrets[d] \/ d \in dirty \/ changer[d] \notin {Gone, n}

\* "Only what is missing is imported": a start replaces settings only when
\* they were saved after it found none.
ImportFillsGaps ==
  \A n \in Nodes :
    (at[n] # Gone /\ at'[n] = Gone /\ secrets' # secrets) => (secrets[at[n]] = Gone \/ at[n] \in filled[n])
ImportsOnlyMissingOrOverlap == [][ImportFillsGaps]_vars

----------------------------------------------------------------------------
\* What the theorems assume of the constants: a request is about a source of
\* the list, or one that it adds; the files are of sources of the list.
Plausible ==
  /\ Gone \notin Ids /\ Gone \notin Nodes /\ Gone # Filed /\ Gone # Filed.host
  /\ Sources \cap Procs = {} /\ \A n \in Nodes : Legacy[n] \subseteq Sources
  /\ \A s \in Starts : s \subseteq Sources
  /\ \A r \in Requests :
       /\ r.kind \in {"add", "update", "remove", "test", "sync", "query", "annotate"} /\ r.node \in Nodes
       /\ IF r.kind = "add" THEN r.id = Gone ELSE r.id \in Ids \/ (r.kind = "test" /\ r.id = Gone)
       /\ r.kind \in {"add", "update"} => r.settings.host # Gone
=============================================================================
