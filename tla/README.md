# Topbase: a TLA+ model

Topbase is a self-hosted BI server: one Go binary that serves a web front end and an HTTP API,
keeps its own data in an *application database* (SQLite, PostgreSQL or MySQL), queries *source
databases* for its users, and writes scheduled results into a warehouse schema.  Several instances
may share one application database behind a load balancer (`docs/deployment.md`, "多节点负载均衡").

This directory holds TLA+ modules of the parts of Topbase where the order of steps matters, the
TLC configurations that check them, and TLAPS proofs of what matters most.  `PROJECT.json` maps every
definition to the lines it models and lists the runs, the mutants, the hazards and the theorems.

## 1. Inventory

How a request travels: `cmd/topbase` starts `internal/platform/httpapi` (router, sessions, handlers);
handlers call the services of `internal/app/*`; those use the ports of `internal/core`, implemented by
`internal/adapters` (source databases, SSH tunnels) and `internal/adapters/appdb` (application database).
Except for the connection map, the tunnels and the map of running schedules, an instance keeps no state
in memory: state is rows, and handlers that run at the same time, on one instance or several, meet there.
Almost every operation is a sequence of single statements without a transaction around it.

| Component | State | Operations | What is hard | What makes it correct |
|---|---|---|---|---|
| Distributed leases (`appdb/leases.go`) | rows name, owner, expiry | acquire, release | two statements per acquire, local clocks, lost answers, dead owners | a granted lease is worth its time to live; nobody is refused without a rival |
| Warehouse scheduler (`httpapi/warehouse.go`) | leases, `last_run_at`, run rows, in-memory running map | 30 s tick, run-now request | several tickers and requests, crash and takeover, stale list and `now` | one run of a schedule at a time, no minute twice, nothing left locked |
| Warehouse runs (`app/warehouse`, `adapters/warehouse.go`) | target table, watermark, run row | run with four strategies | two databases without a common transaction, overlapping runs | no row lost, repeated only after a loss |
| Cron (`app/warehouse/cron.go`) | none | parse, due | time zones, once per minute | due exactly in the minutes the fields name |
| Subscriptions (`app/notify/subscribe.go`) | subscription rows, notifications | tick, send now, switch, delete | rows stored whole after a slow run, no lease of their own | a pause holds, a minute is sent once |
| Alerts (`app/notify/alert.go`) | alert rows | create, run, delete | concurrent runs, a failed disable | a fire-once alert fires once |
| Identity (`app/identity/service.go`) | users, sessions, API keys, settings | setup, login, settings, bindings, keys, profile | setup in several statements, lists stored whole, settings that depend on each other, credentials looked up by every layer | setup can be finished once and only once; some way to log in remains; nothing expired or revoked lets a request in |
| Permissions and groups (`app/identity/org.go`) | groups, members, permission graph | replace members, save graph, directory sync | delete-then-insert, last writer wins | no half-replaced group, no lost revision |
| Single sign-on (`httpapi/oauth.go`, `csrf.go`) | state cookie, bindings | start, callback, bind, unbind | two browsers, replays, retries | an external account belongs to one user |
| Content (`app/content`) | questions, dashboards, collections, revisions | create, update, archive, delete, move | whole documents stored without a version | an update loses no other update; trees stay trees |
| Sharing (`app/content/share.go`, `dashboard.go`) | public and embedding flags of documents | publish, revoke, embed | a stale document brings a revoked link back | a revoked link stays revoked |
| Catalog (`core/catalog.go`) | catalog entry, settings, snapshot, open connection of each node | add, test, update, sync, remove, imports at start-up | four stores changed one after the other, nodes that hear nothing of each other | a source is whole or gone |
| Connections (`sql_engines.go`, `ssh_tunnel.go`) | map of pools, tunnels | connect, close, keep alive | replacement while in use, goroutines | what is opened is closed once |
| Query limits (`query_limits.go`) | none | scan rows | boundaries of row and byte limits | never more than the limit, truncation reported |
| QueryIR (`core/queryir`, `app/query`) | none | validate, expand, bind, compile | filters from five places, numbered arguments, questions edited meanwhile | the answer is what was asked for |
| Migrations (`appdb/migrate.go`) | schema, ledger, lock | bootstrap, upgrade | crash between a migration and its ledger row, several instances | each migration takes effect once |
| Transfer (`appdb/transfer.go`) | source and target database, marker | copy to production | crash after commit, writes after the export | no row lost or doubled |
| Backup (`backup/backup.go`) | archive | export | consistency of the copy | one snapshot |

The semantic layer, uploads, the command line clients, the MCP server and the front end keep no state of
their own beyond single statements or files; section 7 says what is left out and why.

## 2. Plan

Order: first what several instances do together, then what several requests do to one row, then what one
request does to several stores, then the computation of an answer.

1. Instances: leases, scheduler, materialization, subscriptions, migration, connections, first-run setup.
   Each has a module, an instance (`MC...`) and a run that carries its safety and liveness together.
2. Requests: `SignIn`, `Accounts`, `Groups`, `Publishing`, `Collections`, `Catalog`, `Transfer`, `Query`.  They and
   the first-run setup are composed in `Server`: a behaviour is one of one module, because no module writes a row
   another one reads (the exceptions are named in section 3), and the variables of the others are idle.
3. Abstract specifications: `LeaseLock` (the lease row) and `JobExclusion` (the runs of a schedule).
4. Theorems: see section 5.

What would come next: the composition of `Catalog` with `Connections` (a source's connection is one step in `Catalog`), and RFC3339
texts in `LeaseRows`.

## 3. Modules

| Module | Models | Checked by |
|---|---|---|
| `LeaseRows` | the operators of one row of `distributed_leases` | through the modules that use it |
| `LeaseTable` | `AcquireLease` and `ReleaseLease`, statement by statement | `MCLeaseTable` |
| `LeaseLock` | abstract: a lock with a time limit | refined by `LeaseTable` |
| `Scheduler` | `tickWarehouse`, `runSchedule`, `warehouse.Service.Run` over instances that share a database | `MCScheduler` |
| `JobExclusion` | abstract: mutual exclusion of the runs of each schedule | refined by `Scheduler` |
| `Materialization` | what runs do to the target table and the watermark | `MCMaterialization` |
| `Subscriptions` | the subscription part of the tick and the requests on subscriptions | `MCSubscriptions` |
| `Setup` | `CompleteSetup`, statement by statement, for forms sent together | `MCSetup`, `MCRequests` |
| `Migration` | `applyMigrations` on SQLite, PostgreSQL and MySQL | `MCMigration` |
| `Connections` | `SQLConnector`: map of pools, reconnects, tunnels, slots of queries | `MCConnections` |
| `SignIn` | sign-in settings, providers, bindings, the OAuth flow | `MCRequests` |
| `Accounts` | who a request is from; keys, passwords, profiles | `MCRequests` |
| `Groups` | groups, permission graph, project rules, the checks | `MCRequests` |
| `Publishing` | dashboards as documents, public links, visits, revisions | `MCRequests` |
| `Collections` | the tree of groups, what is filed in it, shares, alerts | `MCRequests` |
| `Catalog` | data sources over list, settings, snapshot and connections of nodes | `MCRequests` |
| `Transfer` | SQLite to production, the logical export | `MCRequests` |
| `Query` | a query from request to answer, for any compiler of filters | `MCRequests` |
| `QueryFilters` | the compiler: trees of filters and of tests, recursive | `MCRequests` |
| `QueryAnswers` | what the answer of a query should be, from the request's words | `MCRequests` |
| `Server` | the eight request modules and `Setup`, as parts of one server | `MCRequests` |
| `MCRequests` | `Server` with the compiler of `QueryFilters`, and the cases of the run | |
| `RequestCases`, `DataCases` | the requests and first states of `MCRequests` | |
| `LeaseTableProofs`, `SchedulerProofs`, `SubscriptionsProofs`, `MaterializationProofs`, `ConnectionsProofs`, `MigrationProofs` | TLAPS proofs about what runs side by side | `tlapm` |
| `GroupsProofs` | TLAPS proofs about groups, permissions and checks | `tlapm` |
| `ServerProofs` | TLAPS proofs about `Collections`, `Accounts`, `Catalog`, `SignIn`, `Publishing`, `Transfer`, `Setup` and `Query`, and about the composed server | `tlapm` |

Conventions: `clock` is real time, an instance reads `clock + Skew[i]`; every database statement is one
step, what the process does between two statements belongs to the first; `pc` names the next statement.
`Variant` operators are mutations of the definition that follows them and are used by no specification.
History variables are listed as such and guard nothing.

### Leases: LeaseRows, LeaseTable, LeaseLock

`AcquireLease` reads the local clock, sends `INSERT OR IGNORE` and, if a row was there, an `UPDATE`
guarded by `expires_at < now OR owner = me`.  `LeaseTable` has a step for each (`Start`, `Insert`,
`Update`), the loss of the answer of an applied statement, and the abandonment of the call between them.
`Finish` either releases the row or keeps it, as the tick does with the leader lease.  The owner a call names is
its instance: the ticker and every run-now request pass the same `instanceID` (`warehouse.go:68`, `77`, `172`), so
`Calls` are many and `OwnerOf` says which share an owner.  Calls of one owner overlap, renew each other's row and
release it under each other; the history `undercut` marks the calls another call of their owner did that to.  Times
are whole numbers; the comparison of their texts is a listed hazard.

* `IInv` / `GrantCovers`: an answer "true" is worth the time to live, counted from the reading of the clock
  and less the largest clock difference; "false" means that another owner's row existed during the call.  Both hold
  unless the call was `undercut`: a sibling's release takes the row from under a grant, or deletes it between an ignored
  INSERT and the UPDATE that then finds nothing.
* `ImplementsLock`: rows change hands only when free, own, or expired by the taker's clock.

### Scheduler, JobExclusion

Threads are the ticker of each instance and the run-now requests.  A tick elects itself with the leader
lease (`TickElect`), lists the schedules and reads `now` (`TickList`), and tries the due ones one by one
(`TickNext`: acquire, refused, or error); a thread with a lease goes through `Service.Run` (`RunEnter`
for the running map, `RunLoad`, `RunWrite`, `RunRecord`, `RunStamp`) and releases the lease (`Release`).
The error of storing the run row is dropped (`service.go:176`): `listed` are the threads whose run has one.
`AcquireLease` is one step here, which `LeaseTable` justifies: the call keeps its time from its start, so
`since` and the time to live are counted from there.  A crash gives the rows of the instance to
`Ghost`, an owner nobody will be again, unless `TOPBASE_INSTANCE_ID` is configured (`StableID`).
`Fault` is a failed statement whose error the code drops or logs.  The checked instances use IDs drawn at
start-up; configured IDs are covered by the theorems, which hold for either value of `StableID`.

Time: `MaxRun` bounds the work under a lease (`Materialize` has a context of 5 minutes, the lease 6 hours),
`RunFitsLease` says that it fits the lease on any clock, and `ListDelay` bounds the pause between winning
the tick and reading the list.  With a pause longer than the leader lease `NoDoubleFire` is false: another
leader runs the minute in between, and the first one's list may still show the old `LastRunAt`.

The leases are in the name of an instance.  If a run-now request meets a run of the ticker on its own
instance, it acquires the lease again, is refused by the running map, and deletes the lease under which
the ticker is still running: the other instance may then start a second run.  The history
variable `spilled` marks the threads that lost their lease that way, and the invariant
`OverlapOnlyAfterSpill` says that nothing else makes two runs overlap.  `TakenIsReturned` follows what a thread
takes (the place in the running map, the lease, the run row) to the point where it is given back; a run in progress
without a row is one whose row could not be stored.

### Materialization

Rows of the source arrive at any time with a watermark value; the target is a bag.  A run reads the recorded
watermark, selects into `<target>__new`, writes by strategy and commits in one transaction, then records
`MAX(watermark)` in the application database.  The strategy is chosen at the start.  `overlapped` says that
the leases failed to keep two runs apart: only a full reload is exact even then.  `losses` counts the commits whose watermark was not
recorded and the marks that could not be read (the code takes an error for "no watermark").
`NamedDatabase` is whether the schedule row names its database: the watermark is stored under the database the
query ran on but looked up under the one the row names, and run `materialization_unnamed` shows what
happens when they differ.  `TargetIsExact` says what each strategy leaves in the target: rows twice only after a
loss, rows missing only if they came late, a reload exact, loaded rows kept.  The watermark is a number; other column types go through `fmt.Sprint` and are not
modelled.

### Subscriptions

Subscriptions run at the end of a tick, after the schedules, with the `now` of the tick and under the leader
lease only.  Runs and the administrator's switch read a row and later store it whole.  `wanted` is the
state the last answered request asked for, `stored` the subscriptions some stale row was stored over,
`lagged` whether some tick outlived its leader lease, read a `now` whose minute outlasts the lease or listed in a
later minute than its `now`, and `unstamped` the minutes whose notification is recorded and whose LastRunAt is not: its
error is ignored (subscribe.go:114), or the process died before it and comes back under the ID that has the leader lease
(`StableID`).  `SentAsSwitched` says that what is sent and what is stored follows `wanted` and is sent once a minute, and names the
exceptions: a run in progress undoes a pause made meanwhile (`stored`), a lagging tick repeats a minute, and so does the
next tick, 30 seconds later, after a LastRunAt that was not stored.  A crash under a new ID repeats nothing, because
the lease of the dead leader outlasts the minute for all others.

### Setup

`CompleteSetup` looks at the setting `setup_completed`, then creates a user, two groups and their
members, the site name, the flag, a collection and a session with a statement each and no transaction.
`Requests` are forms sent together (two with one address are one form sent twice).  What decides is the primary key
of the group `grp_all_users`: the request that creates it is the only one to go on, all others end in an error
and leave at most their user row behind.  `CompletedIsWhole` says that the parts of two forms never mix, and
that only a failure between the group and the flag leaves an instance in which
every later form fails (`StuckOnlyAfterFault`).  A form is sent to a server without members, so setup is a part of
`Server` like any other: its rows are those of the other parts before these have any.

### Migration

An instance that starts takes the migration lock (none on SQLite), inspects the namespace, and bootstraps an
empty database from `schema.sql` or goes through the files that its ledger does not list.  A database is a
record: its engine, the statements that left something behind (`schema`), temporary tables, how often a statement
that changes rows took effect (`runs`), and the ledger.  A transaction of SQLite or PostgreSQL works
on a copy (`work`) while no other one writes; MySQL ends the transaction at its first DDL statement, which is
the first statement of every file, and so each statement is committed by itself.  Migrations are given by the
kinds of their statements (a table or column added, rows changed, a table built anew and renamed); the
instance uses three files that hold all of them, the second of which replaces a table as
`007_app_hardening.sql` does and is known to both binaries.  A file is assumed to leave something behind and to rename
the table it builds before it ends (`BodiesAssumption`; every file of `migrations/` does), and a first database is
somebody else's or one that no migration is under way in (`InitialAssumption`).  `Fault` ends a start-up at any statement, `LoseLock`
ends the session of the lock while its owner goes on working, and `Stop` makes room for another start-up.
The old binary of the instance knows two of the three migrations and is a development build whose second
checksum the new one accepts (`migrationChecksumMatches`).

### Connections

Threads are queries, saves (or the restore at start-up), tests of unsaved settings, and removals.  A connection is a
pool and the tunnel below it; `Lock` ... `CloseOld` are the steps of `Connect` and `reconnectDatabase`, whose swap
of the map entry is the only atomic one.  A query takes a slot, reads the map (`Pick`), and runs; on an error of
the network it waits for the mutex of the connection, looks whether another query has reconnected in the
meantime, and runs once more.  A closed pool answers "database is closed", which is not retried:
`QueryFailsOnlyIfDisturbed` lists who may do that to a query, by the history variables `hits` (failures of
the network during the query, and the one it meets when the connection of the map, or the new one about to be stored there,
is dead already when it begins) and `overtaken` (its pool was closed by a save or a removal, or by a
reconnect before it started).  `AllAreHeld` says that every open pool and tunnel is reachable from the map or from a thread at work.
Settings entered field by field lose their tunnel (`RecordedTunnel`), see the findings.

### Requests: what the eight modules share

A process `p` is one HTTP request (or, in `Catalog`, the start of a node): `req[p]` what it asks for, `pc[p]` its next
statement, `mem[p]` what it has read.  One step is one statement of the application database with what the
process does up to the next one; there is no transaction unless the code has one.  `Fault` steps are failed
statements, as often as `MaxFaults` says.  A behaviour starts in one of the first states of `RequestCases` or `DataCases`
and has two processes, each with one of the requests listed there; every combination is tried.

Most operations read, check and store in separate statements, and two requests that overlap do undo each
other.  The properties therefore say exactly when: a name that ends in `OrOverlap` holds always but after an overlap of
the kind its comment names, and the history that records the overlap is set only by the very statement that stored
over a rival's (`raced`), worked half-way (`dirty`) or acted on a stale look (`fresh`, `knew`).  "On some moment" means
that the answer of a check, which reads row after row, was the truth at one moment of the request (`truth`, `met`).
Where nothing is excused (`LinkedOnce`, `EmbedNeedsLink`, `PersonalTree`, `OwnedMembershipsStay`), it holds in
every interleaving; `AnswerAsAsked` excuses no interleaving, but leaves out three uses of segments (`Plain`).

Failed statements.  Where the code drops the error of a read or of a store and goes on, the module has the branch: the
providers and the settings of a sign-in (`subscribe.go:217`, `profile.go:133`), a lookup of a member (`org.go:28`, `60`), the membership of
an invited user (`service.go:244`), the rules of the projects (`identity.go:307`, `318`, `369`), a broken read of the export
(`transfer.go:221-239`), a revision, the switch of an alert, the rows of a run.  The properties excuse exactly these.  Where a failed read
is answered with an error or "denied" and nothing is stored, as in the permission checks of `Groups`, in the visits of `Publishing`
and in most other reads of requests, the failure is left out: it ends the request without a change, as an abandoned one does.  No fairness is assumed here and nothing is promised to happen: a request may be abandoned at any
statement, as a client may.

The modules are joined by what they leave to each other: a member signs in (`SignIn`), each later request is
admitted (`Accounts`), its permission decided (`Groups`), and then it does one of the operations of the other five,
whose checks of a role are a function of their first state.  The group a dashboard is in belongs to
`Collections`, the rest of its row to `Publishing`.

### SignIn

`SaveAuthSettings`, `SaveIdentityProviders`, `Bind`, `Unbind...`, password login, and the three redirects of the OAuth
flow with the state cookie of a browser.  Providers, bindings and password login are three JSON settings, read and stored whole.
`LinkedOnce`: an external account signs in one member at most, although the list has no key.
`SignInKeptOrOverlap`: a way to sign in is left, and the acknowledged bindings are the stored ones.
`LastSignInKeptOrOverlap`: no member unbinds the last account that lets that member in, and a provider that is saved
again keeps its stored secret.  Two reads may fail unnoticed: without the settings (`profile.go:133`, where `AuthSettings`
answers that password login is on) the last account is not checked for, and without the providers (`subscribe.go:217`) the
secrets the form did not send are stored blank.  Both are excuses of `LastSignInKeptOrOverlap` and of no other property; the
list is judged as it will be stored, so even then a way to sign in is left.

### Accounts

Every layer (`accessControl`, `csrfProtection`, the handler) looks a session or key up again; time passes between
statements up to `MaxTime`.  `AdmittedOnSomeMoment`: what a request passed was valid at moments of its own, for keys
with developer mode, an active member and the write switch.  `ChangedAsAllowedOnSomeMoment`: passwords,
addresses and keys change with the password or the settings of a moment of the request.

### Groups

A list of members is one DELETE and an INSERT per member.  `GroupsAsSavedOrOverlap`: a list that nobody is storing
is what the edits asked for, and no grant or rule is lost, except by an overlap, a failure half-way or a dropped
error: `SyncDirectory` leaves out who it could not look up, `InviteUser` answers ok for a user it put into no group, and
`createCollection` for a group whose rules it could not store (`new` in a request to save rules).  `OwnedMembershipsStay`: only the
directory changes departments, only an invitation everybody's group.  `DecidedOnSomeMoment`: a check answers
what was true at some moment; the graph is read twice, so two writes, or one of the graph, may make it answer what never was.

### Publishing

A dashboard is read by several SELECTs and stored by one transaction.  `BoardAsAskedOrOverlap`: the public link is the last
one enabled or disabled, every card is on a tab of its dashboard, and the last revision is the dashboard.
`EmbedNeedsLink`: an embeddable dashboard has a link, in every interleaving.  `VisitOnSomeMoment`: a visitor sees what
was public at some moment of the visit, unless two writes, or one over a rival's, fell into it.

### Collections

`PersonalTree`: a group inside a personal group is of the same member, and the group it is in exists.
`FiledOrOverlap`: so is every analysis in a group that exists.  `OneOwnGroupOrOverlap`: a member has one personal group.
`MovedByEditorOrOverlap`: who moves an analysis may edit both groups.  `OnceOrOverlap`: a fire-once alert fires once.
Cycles of groups are not excluded by the code and not by `PersonalTree`.

### Catalog

Nodes hold connections of their own.  `Whole` is what a data source should be: listed with the settings it is reached by,
or gone with all its rows; `WholeOrDirty` says it is, once nobody works on it, unless the last to change it failed half-way,
died or was not alone (`dirty`).  `ConnectedAsSavedOrElsewhere`: a node's connection has the settings saved, unless
another node changed them (`changer`).  `ImportsOnlyMissingOrOverlap`: a start fills gaps only.
A node that crashes starts again and imports its files: whoever changes one of those sources at another node meanwhile
is not alone, because the import may store the old settings over those just saved (it looks and stores in two statements).

### Transfer

A row is the number of its write, so "the database at one moment" is a prefix.  `CopiesOneMoment`: what a target or an archive
shows is nothing or one moment of the source; a table of an archive whose read broke off (`BreakOff`, `cut`) shows some of the rows of
that moment.  A transfer does ask `rows.Err` (`copyTable`), and ends in an error.  `OneTargetOrOverlap`: two transfers succeed only
when under way together.  It counts answers: a process that dies after the target's commit, or whose mark fails, has not
answered ok, and the transfer may be done again to another target; nothing in the code prevents that.
What is written to the source after that moment is not in the target: nothing stops such writes until the source
is marked.

### Query

One request at a time, against a question that may be edited and a table of a few rows: accept, expand (model, question,
metric, segments, joins), compile, execute, and scan the rows one by one (`ScanRow`, `ScanEnd`).  When the statement fails or its
rows break off (`Break`), what was scanned is dropped, and it may run again on a new connection; how often is left open (the
code tries once).  What is made of a tree of filters (`WithoutSegments`, `Validated`, `StatementOf`, `PassesTests`, `ColumnsOf`)
is a parameter of `Query`; `QueryFilters` defines it by recursion, and the run gives the one to the other.  A statement is
a tree of tests with argument numbers, which `PassesTests` evaluates against the rows.  `AnswerAsAsked` compares the answer with `Whole`, which takes the request's own words:
all filters of request, bases, segments and dashboard values.  `AnswerWithinLimits`: rows and bytes stay
within the limits, a key gets no more rows than its setting, and an answer is marked exactly when the scanner cut it.  `Plain` leaves out three uses of segments the code
takes otherwise (a hazard at `expand.go:71-91`): one inside another, one of several filters in an OR, and one in HAVING, which is never
looked up.  A date that `parseDateValue` cannot read ends the request in an error (`Refused`, `Missing`); of a native card, what was
sent by the name of a declared parameter comes before what is mapped to it, and what was sent by any other name after (`NativeValues`).

## 4. Runs

| Run | Instance | Shows |
|---|---|---|
| `lease_table` | 2 instances, one clock ahead by 1; a ticker and a request of the first, a call of the second; TTL 1, clock to 4, 1 fault | grants hold and refusals have a rival, unless a sibling undercut the call; the lock is implemented |
| `scheduler_ticks` | 2 instances, 2 schedules, 1 crash, clock to 2, run lease of 1 | exclusion, no minute twice, ticks come back |
| `scheduler_requests` | 2 instances, 1 schedule, 1 request, skew 1, 1 crash, 1 fault | overlap only after a spill, what is taken is given back |
| `materialization` | 2 rows, 2 values, 2 workers, 4 strategies, 1 loss | the target is exact up to named losses, rows arrive |
| `materialization_unnamed` (violation) | 2 rows, no failure | every row twice |
| `subscriptions_tick` | 2 instances (symmetric), 1 request at a time, failing statements, 1 crash, clock to 3 | sent as switched, but for the named causes |
| `setup` | 3 forms, 2 of them the same, 2 failures | setup completes when nothing fails, whichever form loses |
| `migration` | old and new binary, 3 files, 10 initial databases of 3 engines, 1 failure, 1 lost lock | migrated once, tables replaced whole, who serves has a whole schema, foreign tables untouched; all serve |
| `connections` | 2 threads, 4 connections, 3 failures of the network | no pool or tunnel forgotten, one failure fails no query, queries end |
| `connections_fields` (violation) | settings entered field by field | a tunnel that outlives `CloseAll` |
| `requests` | 2 processes, every pair of the requests of `RequestCases` and `DataCases`, 1 or 2 faults, 2 nodes, 2 writes | the 24 properties of the eight request modules and of the setup (2 forms, 2 failures); 1.3 million states |
| `requests_unmarked` (violation) | as `requests` | an answer that misses rows and is not marked |

Why the bounds are enough: leases involve an owner, a rival and a taker or a sibling (three calls, two of which share
an owner, or two instances and the ghost of a crash); a clock difference of one unit is the smallest that can break `<` against `<=`; the clock
runs past the expiry of the longest lease in each run; one fault or crash at every point covers each single
failure, and two the failure of the recovery.  Two schedules are needed for a tick that goes on after a run.
Two rows with two values hold a row below and above a watermark, or two at it, in either order of arrival.
Three forms are a winner, its own repetition and a stranger.  Two start-ups are an owner of the lock
and the one that takes it over when the session dies.  Two threads are a query and whoever closes its pool;
the failure that starts a reconnect, the one that strikes the new connection before it is stored and the one after it need
three cuts.

Two requests side by side are what an overlap needs, and one may also begin when the other has ended.  That a third one
adds nothing is not shown by this run; the theorems of section 5 hold for any number of them.  The first states hold each case a request tells apart: a member with no, one and two
ways in; a grant, a rule and a role on either side of what is asked; a board that is private, public, embedded, archived;
a personal and a team group with something in it, and one inside another; a source that is listed, and one that is only in
an old file; a session and a key one tick from expiry; tables on either side of each limit, whose numbers are
shrunk (1000 rows are 3, bytes are units) with their order kept: the default limit of the compiler equals the
scanner's, an API key's is below, a drill's above.

Fairness.  `scheduler_ticks` assumes weak fairness of each step of a live thread: goroutines are scheduled,
`Materialize` ends because its context does, and the loop of the tick never waits for a lease.  Nothing is
assumed of requests, of elections or of time.  `materialization` assumes that runs go on being started
(the tick) and that a run that is tried again and again commits at some time (strong fairness of
`RunSelect` and of the successful `RunCommit`): a target database that always fails never gets its rows.
`setup` assumes that requests go on.  `migration` assumes that an instance that ended is started again
(`restart: unless-stopped` in `docker-compose.yml`) and that the engine grants its advisory lock to those
who wait in their order.  `connections` assumes that a step of a thread ends, which the contexts and time limits of the
code give for every call but one: the SSH handshake has none (listed as a hazard); a Go mutex and a Go channel serve
those who wait in their order, hence strong fairness of `Lock` and `TakeSlot`.  `requests` assumes nothing.

Deadlock is checked in every run but those of `Connections`, which really stop when `CloseAll` has run or the bound on
connections is reached, and of `MCRequests`, where nothing is left to do once both requests have their answers; `Horizon` lets a scheduler rest when the bounded clock has run out and
every thread is at rest, so a thread that is stuck is still found.

## 5. Proofs

For every value of the constants, under the named assumptions of the modules:

* `LeaseTableProofs`: `GrantHolds` (`Spec => []IInv`) and `TwoStatementsImplementLock`
  (`Spec => ImplementsLock`).  `GrantCovers` is not inductive without `NowInPast`: a statement carries a time
  that was read earlier, and it is because that time is not ahead of the taker's clock now that it cannot
  pass the expiry of a row that is still worth its time (`CoveredNotClaimable`).  `GrantAlone` takes the excuse away: with one
  call for each owner (`OneCallEach`, as the leader lease is used, which only the ticker takes) no call is ever undercut, and
  every grant is worth its whole time.
* `SchedulerProofs`: `TypeCorrect`, `InductiveInvariant` (`Spec => []IInv`), `RunsExclude`
  (`Spec => []OverlapOnlyAfterSpill`) and `TicksImplementExclusion`
  (`Requests = {} /\ Spec => ImplementsExclusion`).  Exclusion is not inductive: that a taker cannot get the
  row needs `LeaseCovers` (an unspilled lease is in the host's name and lasts `RunTTL` from `since`) and
  `WorkInTime` (the work is done `MaxRun` after `since`), joined by `RunFitsLease`; two threads of one
  instance are kept apart by `SlotsExclusive`.  Without requests no lease is ever spilled, which gives the
  refinement.  `EverythingIsReturned` (`Spec => []TakenIsReturned`) counts: each run row, lease and place left behind is matched
  to a run in progress, a crash or a failed statement.  `OneMinuteOneTick` (`OneClockTicks /\ Spec => [](faults = 0 => NoDoubleFire)`) has
  hypotheses: no run-now requests, clocks that agree, `MinuteLen + ListDelay <= LeaderTTL`, and no statement has failed.  Run
  `scheduler_ticks` meets them, and each is needed: a clock ahead, a request at the minute, a pause longer than the lease or a
  `last_run_at` that could not be stored lets a minute run twice.  The argument follows the leader's row: its expiry moves on
  with each election, and whoever takes it from another does so a minute after the other read the list (`Elections`).
* `SubscriptionsProofs`: `SwitchIsKeptAndSentOnce` (`Spec => []SentAsSwitched`), without hypotheses.  The switch follows from what is
  stored being what was read, or the row being in `stored` (`AsWanted`).  Once a minute is inductive with what makes a noted
  minute safe (`Settled`): LastRunAt says it, a tick is about to store it, the minute is over, or a dead leader's lease
  outlasts it; and with what a tick that has not lagged can count on (`Leads`): it alone has the leader lease, which lasts to the
  end of its minute.  The search for `Settled` showed that the model left out three things the code does: a LastRunAt that fails to be stored, a
  list that cannot be read, and a `now` read after the lease was won; and that the property was false for an
  ID that survives a restart, which the run did not have.  They are in the model now.
* `MaterializationProofs`: `NothingInTimeIsSkipped` (`Spec => []SkippedOnlyIfLate`) and `TargetHoldsWhatWasLoaded`
  (`NamedDatabase /\ Spec => []TargetIsExact`).  The hypothesis is the one finding 1 is about: a schedule that names no database
  loads everything again, and only the first theorem holds of it.  A watermark hides nothing because every watermark in use,
  recorded, read or about to be recorded, is that of a row of the target (`Reached`), and a row in time below one that is held is
  held too (`HeldUpTo`, `BatchUpTo`).  That nothing is held twice needs that runs do not overlap (`OneRun`) and that what lies
  above the watermark was loaded once for each watermark that was lost (`FreshAbove`).  `LargestValue` gives the maximum of
  a set of watermarks from the well-foundedness of the numbers.
* `ConnectionsProofs`: `NoPoolIsForgotten` (`Spec => []PoolsAreHeld`), `NoTunnelIsForgotten` and `OneFailureIsRepaired`, which
  state `AllAreHeld` and `QueryFailsOnlyIfDisturbed` for `"fields" \notin Forms`, because a connection entered field by
  field loses its tunnel (finding 2).  For the first two, each pool is in one hand (`OneHolder`), of the map or of a thread at
  the step where it must have one (`Stage`).  For the third, `Undisturbed` says what a query that nobody has overtaken can
  count on: until it has met one failure the map's connection works, then it replaces a connection that is dead or was given up, and
  from there on nobody gives up or replaces what it will run on (`NoneGivesUp`, `NoneReplaces`), because a query that replaces holds
  the mutex (`Mutex`) and nobody has used a connection that is not yet in the map (`Unused`).  Looking for
  this invariant showed that the property was false beyond the bound of its run (two failures): the tunnel of a new
  connection can die between its test and the swap, and a query that begins then meets a failure from before its time.
  `StartQuery` counts that one now, and the run has three failures.
* `MigrationProofs`: `TypeCorrect` and `MigratedOnceHolds` (`Spec => []MigratedOnce`), for any migrations, any number of
  instances of any versions, and any failures and lost locks.  What the four parts of `MigratedOnce` rest on:
  on SQLite and PostgreSQL the writer alone is inside a transaction, and its copy continues the committed database
  (`Private`); a start-up has left behind what the statements before its position leave (`Position`, `Left`); no ledger, committed
  or being written, promises more than its database has (`Truthful`), and what a start-up has seen in it is still there (`Noted`).
  `StuckOnlyByHalf` needs where tables without a ledger (`Tables`) and temporary tables (`Temporary`) come from: for each there is
  a start-up that goes on, or MySQL kept half of one that failed.  `RowsOnce` and the temporary tables of MySQL need
  that one instance at a time migrates until a session loses the lock (`Alone`), which is why what it read of the ledger is
  still all there is from its position on, and that changed rows are recorded or under way (`Rows`).
  The attempt showed that `ServingIsWhole` was false: on MySQL, when a session has lost the lock, the instance that
  takes it over may replace a table again while the first one serves, and the run did not find it because only one binary of
  its instance had a migration that replaces a table.  The property names that case now, and both binaries know the migration.

* `ServerProofs`, on `SignIn`: `OneMemberPerAccount`, `SomeWayIsLeft`, `NobodyLocksThemselvesOut`.  That an account is in the list once is
  inductive only with the same said of every list some request has read (`SignInInv`).  For the other two the history earns its
  keep: what a request has read is what is stored as long as it is `fresh` (`Ways`), so a check of the last way to sign in
  holds until somebody else writes; a check that was left out after a failed read knows nothing, and is not `checked`.  A secret
  of a fresh list is merged from the stored one, so it is lost only with what `raced` calls `secrets`.
* `ServerProofs`, on `Publishing`: `EmbeddedIsPublished` (with `Held`: what a request is about to store is published if it is
  embeddable), `BoardsAreAsAsked` and `VisitorsAreToldAMoment`.  The second rests on `Known`: what a fresh request has read
  is what is stored, and what it wrote down is the dashboard until somebody stores over it.  The third rests on `Owned` (a
  token belongs to one dashboard) and `Visiting`: what a visit found holds now, or held before the one write it has seen.
* `ServerProofs`, on `Transfer`: `CopiesAreOfOneMoment` and `TransferredOnce`.  A snapshot is a prefix of the writes, and a row written
  later is in no copy (`CopySound`, `Shown`), and what a broken read left of a table is part of the snapshot; a transfer that is reported has marked the source, so none begins
  after it, and two that are both reported had overlapped (`Once`).
* `GroupsProofs`: `ChecksAnswerForAMoment`, `SettingsAreKept`, `GroupsAreAsSaved` and `OwnersChangeMembers`.  A check passes several rows
  and answers with the first that allows.  What it found not to be so was not so at one moment, now or before the one write it
  has seen (`Deciding`): a write gives memberships or takes them or changes the rules, and fewer members are never granted more
  (`FewerGrantNoMore`).  Grants and rules are kept because a list that nobody has stored since is the one that was read.  A
  list of members is the plan of one editor, statement by statement: what it has still to insert and those who are members already
  make up the list it was asked for, as long as no other editor of the group is at work, and that nobody else looks at the group
  while it is half stored is what `raced` and `dirty` say otherwise.
* `ServerProofs`, on `Collections`: `PersonalGroupsStay`, `NothingIsLeftBehind`, `OnceIsOnce`, `OneOwnGroup`, `EditorsMove`.  Personal groups
  are neither moved nor deleted, and what a request has found out stays true until it writes (`Sound`); an alert that was told
  of is disabled or about to be, unless two runs overlapped or one died (`ToldOnce`).
* `ServerProofs`, on `Accounts`: `LetThroughAtSomeMoment` and `ChangesAreAllowed`.  Every layer looks the credential up again, so what
  a request has passed is not what holds now.  The invariant (`Accounted`) says of every check behind the
  request that what it asks for is among the moments the request has met, and moments are never taken back.
* `ServerProofs`, on `Catalog`: `SourcesAreWhole`, `ConnectionsShowWhatIsSaved` and `StartsFillGaps`.  A request that works on a
  source works alone or is marked, its rivals with it, and no node is about to import what it works on (`Marked`); alone, it
  finds the rows where its own last statement left them (`OnItsWay`), and until its first change of them the source is as whole as it found
  it (`FoundClean`).  What is not dirty is therefore whole when nobody works on it, or half of it is imported and a start still has the
  other half to do (`HalfImported`, which ends when the node serves); a connection shows what is saved, or
  the request that opened it is about to save it (`Underway`).  The attempt to prove this showed that the history was wrong: a crash
  did not mark the requests of other nodes whose source the restarted node imports, and TLC then found the state in which
  nobody was to blame for a source that was not whole.  `Crash` marks them now, and `DataCases` has the case.
* `ServerProofs`, on `Setup`: `SetupCorrect` (`SU!Spec => []SU!IInv`), for any number of forms and failures.  The strengthening
  is `OneWinner` (past the group's primary key there is one request) with `StoredBy` (what a request at a label has
  stored) and `AdminsFromWinner` (nobody else joins the administrators): a loser's step changes nothing the winner's parts
  depend on (`LoserStep`).
* `ServerProofs`, on `Query`: `AnswersAreWithinLimits`, whatever the compiler and the database make of a tree of filters, and
  although questions are edited meanwhile.  The limit of a request with a key is set before anything is expanded, and no base, segment,
  join or compilation changes it (`Capped`, `PreparingKeepsLimit`); so the database gives it no more rows, and as what is
  scanned is a part of what is given (`Scanning`), neither are there more in the answer.  That an answer is marked exactly
  when it was cut is said row by row: before the end for a cell, at the end for a row that was left out.
* `ServerProofs`, on the composition: a behaviour of `Server` is of one part for good and, as that, one of its module
  (`SignInPart` ... `QueryPart`), so every theorem about a module holds of the server: `AccountsAreOneMembers`, `SignInIsKept`,
  `NobodyIsLockedOut`, `GroupsStayAsSaved`, `ChecksAreOfAMoment`, `OwnersAloneChange`, `EmbeddedHasALink`, `BoardsStayAsAsked`,
  `VisitsAreOfAMoment`, `CopyIsOfOneMoment`, `OneTargetIsUsed`, `SetupIsWhole`, `AnswersAreWithinLimits` state the properties that the run `requests` checks.

The modules of requests assume `Plausible` of the first rows and of the requests: the rows are such as the code has
written (a card is on a tab of its own dashboard, a token belongs to one dashboard, a time to live is not negative, the files of a
former version list sources that existed, limits are numbers and a key may ask for at least one row), and a request names what it needs.  `Server` states the assumption for its parts
(`PlausibleCases`), and TLC evaluates it for the cases of the run.

Only model-checked: the liveness properties and `AnswerAsAsked`.  Liveness under fairness is out of the prover's reach, and so is
what the recursive operators of `QueryFilters` make of every tree of filters.

## 6. Findings

Checked by runs that expect a violation, against a sentence of the documentation or a test:

1. The watermark of a schedule that names no database is never found (`materialization_unnamed`).
2. The tunnel of a connection entered field by field is held by a shadowed variable and never closed
   (`connections_fields`).
3. A query without a limit gets a `LIMIT` equal to the scanner's, which then never sees the row it would mark: the
   answer misses rows and is not marked, against `docs/performance.md` (`requests_unmarked`).

Named as the exception of a property, which shows that nothing else does it:

4. A refused run-now request deletes the lease of a run in progress on its own instance (`OverlapOnlyAfterSpill`).
5. A run in progress undoes the pause of a subscription, and a LastRunAt that cannot be stored, whose error is ignored,
   repeats a notification within its minute (`SentAsSwitched`).
6. Two administrators who save overlapping settings undo each other (`SignInKeptOrOverlap`, `GroupsAsSavedOrOverlap`), and
   dropped errors lose data with no rival at all: a failed read of the rules counts as none (`identity.go:369`), rules of a new group, a member
   of a department or the membership of an invited user go missing behind an answer "ok" (`identity.go:318`, `org.go:60`,
   `service.go:244`; all `GroupsAsSavedOrOverlap`), a failed read of the providers blanks their secrets and one of
   the settings lets the last sign-in be unbound (`subscribe.go:217`, `profile.go:133`; `LastSignInKeptOrOverlap`).
7. Nodes do not hear of changes to data sources (`ConnectedAsSavedOrElsewhere`), settings of a removed source
   come back from the file of a former version at the next start, and a start may store old settings over those somebody
   saves at another node meanwhile (`WholeOrDirty`, `ImportsOnlyMissingOrOverlap`).
8. A segment inside a segment is left out, one of several filters inside an OR is spread over it, one in HAVING is dropped
   (`AnswerAsAsked`).
9. On MySQL a failure in the middle of a migration makes its changes of rows take effect twice or leaves a table no start-up gets
   past, and after a lost lock a table may be replaced again while another instance serves (`MigratedOnce`).
10. An export whose read of a table breaks off is answered as a complete archive (`CopiesOneMoment`), and a run whose row could not be
   stored leaves no trace in `schedule_runs` (`TakenIsReturned`).

## 7. Not modelled

* Semantic layer: models, metrics, segments and glossary are only created and listed, with a statement each; what they
  mean to a query is in `Query`.
* Uploads, the backup of the file directory, the command line, the MCP server, the API client and the front end: single
  statements, files or presentation, without rules that an order of steps could break.
* Cron fields (a set of minutes here) and the order of RFC3339Nano texts within a second (time is a number).
* Encryption of secrets, tokens of CSRF and of signed embedding, the exchange with an identity provider, mail and
  webhooks: the conversions are data that no property tells apart.
* SQL text, dialects other than PostgreSQL's, native templates as text, orderings: `Query` has statements as trees.
* `saveWebhooks` (`subscribe.go:276`) drops a read error as `saveIdentityProviders` does and may blank the secrets of webhooks; the
  webhooks are rows that only deliveries read.
* Failed reads that fail closed (see section 3, "Requests").
* `bookmarks`, search, lineage, avatars, release notes: rows of their own that nothing else reads.
