----------------------------- MODULE Migration -----------------------------
(***************************************************************************)
(* Start-up of instances that share an application database:               *)
(* applyMigrations in internal/adapters/appdb/migrate.go, statement by     *)
(* statement, on the three engines.                                        *)
(*                                                                         *)
(* SQLite and PostgreSQL run a migration, or the bootstrap of an empty     *)
(* database, in a transaction.  Its first statement keeps every other      *)
(* writer out until the commit, so it is a private copy work[i] of the     *)
(* database.  MySQL ends the transaction at its first DDL statement, which *)
(* is the first statement of every migration: there each statement is      *)
(* committed by itself, the rows of the ledger included.                   *)
(*                                                                         *)
(* PostgreSQL and MySQL migrate under a lock that belongs to a session of  *)
(* its own (MaxLost of them die while the work goes on); SQLite has none.  *)
(***************************************************************************)
EXTENDS Integers, Sequences, FiniteSets

CONSTANTS
  Instances,
  NoOne,
  Body,          \* Body[v]: the kinds of the statements of migration v
  Knows,         \* Knows[i]: the last migration in the binary of i
  Text,          \* Text[i][v]: the checksum of migration v in the binary of i
  SameText,      \* pairs <<recorded, own>> of checksums taken for equal
  InitialDbs,    \* the databases an installation may start from
  MaxFaults,     \* bound: failed statements and dead processes
  MaxLost        \* bound: lock sessions that die

Versions == DOMAIN Body
Statements == UNION {{v} \X (1 .. Len(Body[v])) : v \in Versions}
Kinds == {"table", "column", "rows", "create", "rename"}
Kind(s) == Body[s[1]][s[2]]
\* Statements that leave a table, a column or a renamed table behind.
Lasting == {s \in Statements : Kind(s) \in {"table", "column", "rename"}}
Part(v) == {s \in Lasting : s[1] = v}

\* The table that replaces another one is there, under its temporary name,
\* before statement j of migration v.
Replacing(v, j) == \E k \in 1 .. j - 1 :
  Body[v][k] = "create" /\ \A l \in k + 1 .. j - 1 : Body[v][l] # "rename"

Checksums == UNION {{Text[i][v] : v \in DOMAIN Text[i]} : i \in Instances}

Dbs == [engine : {"sqlite", "postgres", "mysql"}, foreign : BOOLEAN, schema : SUBSET Lasting, temp : SUBSET Versions,
        runs : [Statements -> 0 .. 2], ledgerTable : BOOLEAN,
        ledger : SUBSET (Versions \X Checksums)]

ASSUME MigrationAssumption ==
  /\ Body \in Seq(Seq(Kinds))
  /\ Knows \in [Instances -> Versions]
  /\ \A i \in Instances : 1 .. Knows[i] \subseteq DOMAIN Text[i]
  /\ NoOne \notin Instances
  /\ MaxFaults \in Nat /\ MaxLost \in Nat

\* Every file of migrations/ leaves something behind, and renames the table it
\* builds before it builds another one or ends.
ASSUME BodiesAssumption == \A v \in Versions :
  /\ Part(v) # {}
  /\ ~Replacing(v, Len(Body[v]) + 1)
  /\ \A j \in 1 .. Len(Body[v]) : Body[v][j] = "create" => ~Replacing(v, j)

\* An installation starts from somebody else's database, or from one of ours
\* that no migration is under way in: the ledger tells what is there.
ASSUME InitialAssumption == \A d \in InitialDbs :
  /\ d \in Dbs
  /\ d.temp = {} /\ d.runs = [s \in Statements |-> 0]
  /\ \A row \in d.ledger : Part(row[1]) \subseteq d.schema
  /\ d.engine = "sqlite" \/ d.foreign \/ d.ledgerTable \/ d.schema = {}

NoWork == [none |-> TRUE]

VARIABLES
  db,            \* the committed database: see InitialDbs
  installation,  \* the row of topbase_installation: who drew its ID
  lock,          \* owner of the migration lock
  writer,        \* whose transaction has written
  pc, at,        \* next step of an instance; its migration and statement
  seen,          \* the ledger as readAppliedMigrations returned it
  work,          \* the database as the instance's transaction sees it
  faults, lost

procs == <<pc, at, seen>>
vars == <<db, installation, lock, writer, pc, at, seen, work, faults, lost>>

Engine == db.engine
Transactional == Engine # "mysql"

Init ==
  /\ db \in InitialDbs
  /\ installation = NoOne /\ lock = NoOne /\ writer = NoOne
  /\ pc = [i \in Instances |-> "down"]
  /\ at = [i \in Instances |-> <<1, 1>>]
  /\ seen = [i \in Instances |-> {}]
  /\ work = [i \in Instances |-> NoWork]
  /\ faults = 0 /\ lost = 0

Goto(i, label) == pc' = [pc EXCEPT ![i] = label]
At(i, v, j) == at' = [at EXCEPT ![i] = <<v, j>>]

\* Every error ends the start-up and the process: the session and its lock
\* are gone and the transaction is rolled back.
Down(i) ==
  /\ Goto(i, "down")
  /\ lock' = IF lock = i THEN NoOne ELSE lock
  /\ writer' = IF writer = i THEN NoOne ELSE writer
  /\ work' = [work EXCEPT ![i] = NoWork]
  /\ At(i, 1, 1)
  /\ seen' = [seen EXCEPT ![i] = {}]

Fail(i) == Down(i) /\ UNCHANGED <<db, installation, faults, lost>>

\* The tables as i's statements see them, and a statement of i.
View(i) == IF Transactional THEN work[i] ELSE db
Write(i, d) ==
  IF Transactional
    THEN work' = [work EXCEPT ![i] = d] /\ UNCHANGED db
    ELSE db' = d /\ UNCHANGED work

\* The first statement of a transaction waits for the writer.
Begin(i) ==
  IF Transactional
    THEN writer = NoOne /\ writer' = i /\ work' = [work EXCEPT ![i] = db]
    ELSE UNCHANGED <<writer, work>>

\* Start, and withMigrationLock.
Start(i) ==
  /\ pc[i] = "down"
  /\ Goto(i, "lock")
  /\ UNCHANGED <<db, installation, lock, writer, at, seen, work, faults, lost>>

LockFree == Engine = "sqlite" \/ lock = NoOne

Lock(i) ==
  /\ pc[i] = "lock"
  /\ LockFree
  /\ lock' = IF Engine = "sqlite" THEN lock ELSE i
  /\ Goto(i, "inspect")
  /\ UNCHANGED <<db, installation, writer, at, seen, work, faults, lost>>

Occupied == db.foreign \/ db.schema # {} \/ db.temp # {} \/ db.ledgerTable

Unknown == Occupied /\ ~db.ledgerTable /\ Engine # "sqlite"

\* inspectNamespace and the choice of applyMigrations.
Inspect(i) ==
  /\ pc[i] = "inspect"
  /\ IF Unknown
       THEN Fail(i)
       ELSE /\ Goto(i, IF ~Occupied /\ Engine # "sqlite" THEN "boot" ELSE "ledger")
            /\ UNCHANGED <<db, installation, lock, writer, at, seen, work, faults, lost>>

\* bootstrapCurrentSchema: the tables of schema.sql (its statements create
\* what is not there, but for the indexes, which are last and which MySQL
\* creates once), the ledger, and a row per migration.
BeginBoot(i) ==
  /\ pc[i] = "boot"
  /\ Begin(i)
  /\ Goto(i, "part")
  /\ UNCHANGED <<db, installation, lock, at, seen, faults, lost>>

BootPart(i) ==
  LET v == at[i][1] d == View(i) IN
  /\ pc[i] = "part"
  /\ IF Engine = "mysql" /\ v = Knows[i] /\ Part(v) \subseteq d.schema
       THEN Fail(i)
       ELSE /\ Write(i, [d EXCEPT !.schema = @ \cup Part(v)])
            /\ IF v < Knows[i]
                 THEN At(i, v + 1, 1) /\ UNCHANGED pc
                 ELSE At(i, 1, 1) /\ Goto(i, "bootLedger")
            /\ UNCHANGED <<installation, lock, writer, seen, faults, lost>>

BootLedger(i) ==
  /\ pc[i] = "bootLedger"
  /\ Write(i, [View(i) EXCEPT !.ledgerTable = TRUE])
  /\ Goto(i, "bootRow")
  /\ UNCHANGED <<installation, lock, writer, at, seen, faults, lost>>

\* Variant: INSERT OR IGNORE.
RecordedIgnored(d, v) == FALSE

\* The version is the primary key of the ledger.
Recorded(d, v) == \E row \in d.ledger : row[1] = v

BootRow(i) ==
  LET v == at[i][1] d == View(i) IN
  /\ pc[i] = "bootRow"
  /\ IF Recorded(d, v)
       THEN Fail(i)
       ELSE /\ Write(i, [d EXCEPT !.ledger = @ \cup {<<v, Text[i][v]>>}])
            /\ IF v < Knows[i]
                 THEN At(i, v + 1, 1) /\ UNCHANGED pc
                 ELSE At(i, 1, 1) /\ Goto(i, "bootCommit")
            /\ UNCHANGED <<installation, lock, writer, seen, faults, lost>>

Commit(i, d) ==
  /\ db' = d
  /\ writer' = IF Transactional THEN NoOne ELSE writer
  /\ work' = [work EXCEPT ![i] = NoWork]

BootCommit(i) ==
  /\ pc[i] = "bootCommit"
  /\ Commit(i, View(i))
  /\ Goto(i, "install")
  /\ UNCHANGED <<installation, lock, at, seen, faults, lost>>

\* migrateIncrementally.
CreateLedger(i) ==
  /\ pc[i] = "ledger"
  /\ db.ledgerTable \/ writer = NoOne
  /\ db' = [db EXCEPT !.ledgerTable = TRUE]
  /\ Goto(i, "read")
  /\ UNCHANGED <<installation, lock, writer, at, seen, work, faults, lost>>

ReadLedger(i) ==
  /\ pc[i] = "read"
  /\ seen' = [seen EXCEPT ![i] = db.ledger]
  /\ Goto(i, "file")
  /\ UNCHANGED <<db, installation, lock, writer, at, work, faults, lost>>

\* Variant: the checksum is not compared.
SameIgnored(i, v) == TRUE

Same(i, v) == \A row \in seen[i] :
  row[1] = v => row[2] = Text[i][v] \/ <<row[2], Text[i][v]>> \in SameText

\* The loop over the files.
File(i) ==
  LET v == at[i][1]
      done == \E row \in seen[i] : row[1] = v
      rest == UNCHANGED <<db, installation, lock, seen, faults, lost>>
  IN
  /\ pc[i] = "file"
  /\ \/ v > Knows[i] /\ Goto(i, "install") /\ UNCHANGED <<at, writer, work>> /\ rest
     \/ v <= Knows[i] /\ done /\ ~Same(i, v) /\ Fail(i)
     \/ /\ v <= Knows[i] /\ done /\ Same(i, v)
        /\ At(i, v + 1, 1) /\ UNCHANGED <<pc, writer, work>> /\ rest
     \/ v <= Knows[i] /\ ~done /\ Begin(i) /\ Goto(i, "statement") /\ UNCHANGED at /\ rest

\* A column that is there is no error, except that PostgreSQL then refuses the
\* rest of the transaction; a table that is in the way is one.
Fails(d, s) ==
  \/ Kind(s) = "column" /\ s \in d.schema /\ Engine = "postgres"
  \/ Kind(s) = "create" /\ s[1] \in d.temp

\* Once, or more than once.
OnceMore(runs, s) == [runs EXCEPT ![s] = IF @ < 2 THEN @ + 1 ELSE @]

After(d, s) ==
  [d EXCEPT !.schema = IF s \in Lasting THEN @ \cup {s} ELSE @,
            !.temp = CASE Kind(s) = "create" -> @ \cup {s[1]}
                       [] Kind(s) = "rename" -> @ \ {s[1]}
                       [] OTHER -> @,
            !.runs = IF Kind(s) = "rows" THEN OnceMore(@, s) ELSE @]

\* Variant: the last statement of a file has no semicolon and is lost.
BeforeSemicolon(s) == <<s[1], s[2] + 1>> \in Statements

\* splitMigrationStatements.
InFile(s) == s \in Statements

Statement(i) ==
  LET s == at[i] IN
  /\ pc[i] = "statement"
  /\ InFile(s)
  /\ IF Fails(View(i), s)
       THEN Fail(i)
       ELSE /\ Write(i, After(View(i), s))
            /\ At(i, s[1], s[2] + 1)
            /\ UNCHANGED <<installation, lock, writer, pc, seen, faults, lost>>

\* The row of the ledger, and the commit.
Record(i) ==
  LET v == at[i][1] d == View(i) IN
  /\ pc[i] = "statement"
  /\ ~InFile(at[i])
  /\ IF Recorded(d, v)
       THEN Fail(i)
       ELSE /\ Commit(i, [d EXCEPT !.ledger = @ \cup {<<v, Text[i][v]>>}])
            /\ Goto(i, "file")
            /\ At(i, v + 1, 1)
            /\ UNCHANGED <<installation, lock, seen, faults, lost>>

InstallationOf(i) == IF installation = NoOne THEN i ELSE installation

\* Variant: the session goes back to its pool with the lock.
Kept(i) == lock

Unlocked(i) == IF lock = i THEN NoOne ELSE lock

\* ensureInstallationRecord, and the end of the start-up.
Install(i) ==
  /\ pc[i] = "install"
  /\ writer = NoOne
  /\ installation' = InstallationOf(i)
  /\ lock' = Unlocked(i)
  /\ Goto(i, "serving")
  /\ At(i, 1, 1)
  /\ seen' = [seen EXCEPT ![i] = {}]
  /\ UNCHANGED <<db, writer, work, faults, lost>>

Step(i) ==
  \/ Start(i) \/ Lock(i) \/ Inspect(i)
  \/ BeginBoot(i) \/ BootPart(i) \/ BootLedger(i) \/ BootRow(i) \/ BootCommit(i)
  \/ CreateLedger(i) \/ ReadLedger(i) \/ File(i) \/ Statement(i) \/ Record(i) \/ Install(i)

\* A statement fails, the two minutes are over, or the process dies.
Fault(i) ==
  /\ pc[i] # "down"
  /\ faults < MaxFaults
  /\ faults' = faults + 1
  /\ Down(i)
  /\ UNCHANGED <<db, installation, lost>>

\* The session that holds the lock dies; the work goes on in other sessions.
LoseLock(i) ==
  /\ lock = i
  /\ lost < MaxLost
  /\ lost' = lost + 1
  /\ lock' = NoOne
  /\ UNCHANGED <<db, installation, writer, procs, work, faults>>

\* An instance is replaced or restarted by its operator.
Stop(i) ==
  /\ pc[i] = "serving"
  /\ Fail(i)

Next == \E i \in Instances : Step(i) \/ Stop(i) \/ Fault(i) \/ LoseLock(i)

Spec == Init /\ [][Next]_vars

\* docker-compose restarts an instance that ended, and PostgreSQL grants the
\* lock to those who wait for it in their order.
FairSpec == Spec /\ \A i \in Instances : WF_vars(Step(i)) /\ SF_vars(Lock(i))

-----------------------------------------------------------------------------
Labels == {"down", "lock", "inspect", "boot", "part", "bootLedger", "bootRow", "bootCommit",
           "ledger", "read", "file", "statement", "install", "serving"}

TypeOK ==
  /\ db \in Dbs
  /\ installation \in Instances \cup {NoOne}
  /\ lock \in Instances \cup {NoOne}
  /\ writer \in Instances \cup {NoOne}
  /\ pc \in [Instances -> Labels]
  /\ at \in [Instances -> (1 .. Len(Body) + 1) \X Nat]
  /\ seen \in [Instances -> SUBSET (Versions \X Checksums)]
  /\ work \in [Instances -> Dbs \cup {NoWork}]
  /\ faults \in 0 .. MaxFaults /\ lost \in 0 .. MaxLost

\* An instance serves only over a whole schema: everything its own migrations
\* leave behind is there and none is half-way, the ledger holds its checksum of
\* each, and the installation has an ID.  Whoever else migrates at the same
\* time, whatever fails, and however old the binary is (applyMigrations;
\* docs/upgrading.md: no service on a half-upgraded state).  Only on MySQL, when
\* a session lost the lock, may the one after it replace the table again.
ServingIsWhole == \A i \in Instances : pc[i] = "serving" =>
  /\ installation # NoOne
  /\ \A v \in 1 .. Knows[i] :
       /\ Part(v) \subseteq db.schema
       /\ v \in db.temp => ~Transactional /\ lost > 0
       /\ \E row \in db.ledger :
            row[1] = v /\ (row[2] = Text[i][v] \/ <<row[2], Text[i][v]>> \in SameText)

\* The ledger never promises what is not there, committed or not: no order of
\* statements, crashes and lost locks records a migration before its effects.
LedgerTrue == TypeOK /\ \A row \in db.ledger : Part(row[1]) \subseteq db.schema

\* The statements of migrations that change rows take effect once; a second
\* time only on MySQL, which commits them before the ledger's row, and only
\* after something failed.
RowsOnce == \A s \in Statements :
  db.runs[s] > 1 => ~Transactional /\ faults + lost > 0

\* A database of our own that no start-up will ever accept again (tables
\* without a ledger, or the temporary table of a migration) is left behind only
\* by MySQL's commit of every DDL statement, when something failed.
StuckOnlyByHalf ==
  db.temp # {} \/ (Unknown /\ ~db.foreign) =>
    \/ Engine = "mysql" /\ faults > 0
    \/ \E i \in Instances : pc[i] \in {"part", "bootLedger", "statement"}

\* Migrations take effect whole and once, and say so only then, whoever
\* else starts and wherever a start-up breaks off.
MigratedOnce == LedgerTrue /\ ServingIsWhole /\ RowsOnce /\ StuckOnlyByHalf

\* On a transactional engine a start-up, restarted after each failure, ends in
\* service for every instance, wherever the failures struck: unless the tables
\* are somebody else's or the ledger holds a checksum its binary refuses.
Refused(i) == \E row \in db.ledger :
  /\ row[1] <= Knows[i]
  /\ row[2] # Text[i][row[1]] /\ <<row[2], Text[i][row[1]]>> \notin SameText

AllServe == \A i \in Instances :
  []<>(pc[i] = "serving" \/ ~Transactional \/ Unknown \/ Refused(i))
=============================================================================
