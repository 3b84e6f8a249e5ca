-------------------------- MODULE MigrationProofs --------------------------
(***************************************************************************)
(* Spec => []MigratedOnce, whatever the migrations, the binaries and the   *)
(* bounds on faults are.                                                   *)
(***************************************************************************)
EXTENDS Migration, TLAPS, WellFoundedInduction

Booting == {"part", "bootLedger", "bootRow", "bootCommit"}
InTx == Booting \cup {"statement"}
UnderLock == Labels \ {"down", "lock", "serving"}

\* The ledger of d holds a checksum of migration v that i accepts.
Has(d, i, v) == \E row \in d.ledger :
  row[1] = v /\ (row[2] = Text[i][v] \/ <<row[2], Text[i][v]>> \in SameText)

\* A database with the tables of migration v, with the ledger, and with i's
\* row for v in it.
WithPart(d, v) == [d EXCEPT !.schema = @ \cup Part(v)]
WithLedger(d) == [d EXCEPT !.ledgerTable = TRUE]
WithRow(d, i, v) == [d EXCEPT !.ledger = @ \cup {<<v, Text[i][v]>>}]

\* Nothing of d is gone in e.
Grown(d, e) ==
  /\ e \in Dbs
  /\ e.engine = d.engine /\ e.foreign = d.foreign
  /\ d.schema \subseteq e.schema
  /\ d.ledger \subseteq e.ledger
  /\ d.ledgerTable => e.ledgerTable

\* Exactly the writer is between its first statement and its commit, and what
\* it works on continues the committed database.
Private ==
  /\ Transactional => \A i \in Instances : pc[i] \in InTx <=> writer = i
  /\ ~Transactional => writer = NoOne
  /\ Transactional => \A i \in Instances : pc[i] \in InTx => Grown(db, work[i])

\* How far i is.
PositionOf(i) ==
  /\ pc[i] \in {"part", "bootRow"} => at[i][1] \in 1 .. Knows[i]
  /\ pc[i] \notin {"part", "bootRow", "file", "statement", "install"} => at[i] = <<1, 1>>
  /\ pc[i] = "file" => at[i][1] \in 1 .. Knows[i] + 1 /\ at[i][2] = 1
  /\ pc[i] = "statement" =>
       at[i][1] \in 1 .. Knows[i] /\ at[i][2] \in 1 .. Len(Body[at[i][1]]) + 1
Position == \A i \in Instances : PositionOf(i)

\* What the statements before i's position have left behind.
LeftOf(i) ==
  /\ pc[i] = "part" => \A v \in 1 .. at[i][1] - 1 : Part(v) \subseteq View(i).schema
  /\ pc[i] \in Booting \ {"part"} => \A v \in 1 .. Knows[i] : Part(v) \subseteq View(i).schema
  /\ pc[i] = "statement" =>
       \A s \in Part(at[i][1]) : s[2] < at[i][2] => s \in View(i).schema
Left == \A i \in Instances : LeftOf(i)

\* A ledger tells what is there: the committed one and those being written.
LedgerOf(d) == \A row \in d.ledger : Part(row[1]) \subseteq d.schema
Truthful ==
  /\ LedgerOf(db)
  /\ \A i \in Instances : pc[i] \in InTx => LedgerOf(View(i))

\* What i knows to be in the ledger.
NotedOf(i) ==
  /\ seen[i] \subseteq db.ledger
  /\ pc[i] = "bootRow" => \A v \in 1 .. at[i][1] - 1 : Has(View(i), i, v)
  /\ pc[i] = "bootCommit" => \A v \in 1 .. Knows[i] : Has(View(i), i, v)
  /\ pc[i] \in {"file", "statement"} => \A v \in 1 .. at[i][1] - 1 : Has(db, i, v)
  /\ pc[i] \in {"install", "serving"} => \A v \in 1 .. Knows[i] : Has(db, i, v)
  /\ pc[i] = "serving" => installation # NoOne
Noted == \A i \in Instances : NotedOf(i)

\* Tables without a ledger: somebody else's, on SQLite, or of a bootstrap that
\* is under way, whose last step so far was taken by one that goes on.
LedgerThere(i) ==
  /\ pc[i] \in {"read", "file", "statement"} => db.ledgerTable
  /\ pc[i] \in {"bootRow", "bootCommit"} => View(i).ledgerTable
GoesOn(i, v) == pc[i] = "bootLedger" \/ (pc[i] = "part" /\ at[i][1] > v)
Last(v) == Part(v) \cap db.schema # {} /\ \A w \in Versions : w > v => Part(w) \cap db.schema = {}
Tables ==
  /\ \A i \in Instances : LedgerThere(i)
  /\ Engine = "postgres" => db.foreign \/ db.ledgerTable \/ db.schema = {}
  /\ Engine = "mysql" /\ faults = 0 /\ ~db.foreign /\ ~db.ledgerTable =>
       \A v \in Versions : Last(v) => \E i \in Instances : GoesOn(i, v)

\* Where the temporary table of a migration comes from.
Owns(i, v) == pc[i] = "statement" /\ at[i][1] = v /\ Replacing(v, at[i][2])
Temporary ==
  /\ Transactional =>
       /\ db.temp = {}
       /\ \A i \in Instances : pc[i] \in InTx =>
            \A v \in work[i].temp : Owns(i, v)
  /\ ~Transactional /\ faults = 0 => \A v \in db.temp : \E i \in Instances : Owns(i, v)

\* MySQL, as long as no session has lost its lock: one instance at a time
\* migrates, what it read of the ledger is still all there is from its
\* position on, and a temporary table belongs to a migration not recorded.
Begun(v, j) == \E k \in 1 .. j - 1 : Body[v][k] = "create"
AloneOf(i) ==
  /\ pc[i] \in UnderLock => lock = i
  /\ pc[i] \in Booting \cup {"boot"} => db.temp = {}
  /\ pc[i] \in {"file", "statement"} =>
       \A row \in db.ledger : row[1] >= at[i][1] => row \in seen[i]
  /\ pc[i] = "statement" =>
       /\ ~Recorded(db, at[i][1])
       /\ at[i][1] \in db.temp /\ Begun(at[i][1], at[i][2]) => Replacing(at[i][1], at[i][2])
Alone == ~Transactional /\ lost = 0 =>
  /\ \A i \in Instances : AloneOf(i)
  /\ \A v \in db.temp : ~Recorded(db, v) /\ Begun(v, Len(Body[v]) + 1)

\* Rows are changed by a migration under way or recorded.
Rows ==
  /\ Transactional =>
       /\ \A s \in Statements : db.runs[s] <= 1 /\ (db.runs[s] > 0 => Recorded(db, s[1]))
       /\ \A i \in Instances : pc[i] \in Booting => work[i].runs = db.runs
       /\ \A i \in Instances : pc[i] = "statement" => \A s \in Statements :
            /\ s[1] # at[i][1] \/ s[2] >= at[i][2] => work[i].runs[s] = db.runs[s]
            /\ s[1] = at[i][1] => work[i].runs[s] <= db.runs[s] + 1
  /\ ~Transactional /\ faults + lost = 0 => \A s \in Statements :
       /\ db.runs[s] <= 1
       /\ db.runs[s] > 0 => Recorded(db, s[1]) \/ \E i \in Instances :
            pc[i] = "statement" /\ at[i][1] = s[1] /\ at[i][2] > s[2]

IInv ==
  /\ TypeOK /\ Private /\ Position /\ Left /\ Truthful /\ Noted
  /\ Tables /\ Temporary /\ Alone /\ Rows

-----------------------------------------------------------------------------
LEMMA StatementForm == ASSUME NEW s
  PROVE s \in Statements <=> s = <<s[1], s[2]>> /\ s[1] \in Versions /\ s[2] \in 1 .. Len(Body[s[1]])
BY MigrationAssumption DEF Statements

LEMMA BodyForm ==
  /\ Len(Body) \in Nat /\ Versions = 1 .. Len(Body)
  /\ \A v \in Versions : Len(Body[v]) \in Nat /\ \A j \in 1 .. Len(Body[v]) : Body[v][j] \in Kinds
BY MigrationAssumption DEF Versions

\* What each write does to a database.
LEMMA GrownRefl == ASSUME NEW d \in Dbs PROVE Grown(d, d)
BY DEF Grown

LEMMA GrownTrans == ASSUME NEW d, NEW e, NEW f, Grown(d, e), Grown(e, f) PROVE Grown(d, f)
BY DEF Grown

LEMMA PartGrows == ASSUME NEW d \in Dbs, NEW v
  PROVE LET e == WithPart(d, v) IN
        /\ Grown(d, e)
        /\ e.schema = d.schema \cup Part(v)
        /\ e.temp = d.temp /\ e.runs = d.runs /\ e.ledger = d.ledger /\ e.ledgerTable = d.ledgerTable
BY DEF Grown, Dbs, Part, WithPart

LEMMA TableGrows == ASSUME NEW d \in Dbs
  PROVE LET e == WithLedger(d) IN
        /\ Grown(d, e)
        /\ e.ledgerTable
        /\ e.temp = d.temp /\ e.runs = d.runs /\ e.ledger = d.ledger /\ e.schema = d.schema
BY DEF Grown, Dbs, WithLedger

LEMMA RowGrows == ASSUME NEW d \in Dbs, NEW i \in Instances, NEW v \in 1 .. Knows[i]
  PROVE LET e == WithRow(d, i, v) IN
        /\ Grown(d, e)
        /\ e.ledger = d.ledger \cup {<<v, Text[i][v]>>}
        /\ e.temp = d.temp /\ e.runs = d.runs /\ e.schema = d.schema /\ e.ledgerTable = d.ledgerTable
<1>0. Knows[i] \in Versions /\ 1 .. Knows[i] \subseteq DOMAIN Text[i]
  BY MigrationAssumption
<1>1. v \in Versions /\ v \in DOMAIN Text[i]
  BY <1>0, BodyForm
<1>2. Text[i][v] \in {Text[i][w] : w \in DOMAIN Text[i]}
  BY <1>1
<1>3. Text[i][v] \in Checksums
  BY <1>2 DEF Checksums
<1> QED BY <1>1, <1>3 DEF Grown, Dbs, WithRow

LEMMA AfterGrows == ASSUME NEW d \in Dbs, NEW s \in Statements
  PROVE /\ Grown(d, After(d, s))
        /\ After(d, s).schema = d.schema \cup (IF s \in Lasting THEN {s} ELSE {})
        /\ After(d, s).temp = CASE Kind(s) = "create" -> d.temp \cup {s[1]}
                                [] Kind(s) = "rename" -> d.temp \ {s[1]}
                                [] OTHER -> d.temp
        /\ \A r \in Statements : After(d, s).runs[r] =
             IF r = s /\ Kind(s) = "rows" /\ d.runs[r] < 2 THEN d.runs[r] + 1 ELSE d.runs[r]
        /\ After(d, s).ledger = d.ledger /\ After(d, s).ledgerTable = d.ledgerTable
<1> USE DEF After, Dbs
<1>1. s[1] \in Versions /\ Lasting \subseteq Statements
  BY StatementForm DEF Lasting
<1>2. d.runs \in [Statements -> 0 .. 2]
  OBVIOUS
<1>10. After(d, s).runs = IF Kind(s) = "rows" THEN OnceMore(d.runs, s) ELSE d.runs
  <2>1. CASE Kind(s) = "rows" BY <2>1
  <2>2. CASE Kind(s) # "rows" BY <2>2
  <2> QED BY <2>1, <2>2
<1>11. After(d, s).runs \in [Statements -> 0 .. 2]
  <2> HIDE DEF After, Dbs
  <2> QED BY <1>2, <1>10 DEF OnceMore
<1>3. After(d, s).schema = d.schema \cup (IF s \in Lasting THEN {s} ELSE {})
  OBVIOUS
<1>4. After(d, s).temp = CASE Kind(s) = "create" -> d.temp \cup {s[1]}
                                [] Kind(s) = "rename" -> d.temp \ {s[1]}
                                [] OTHER -> d.temp
  OBVIOUS
<1>5. After(d, s).temp \in SUBSET Versions
  BY <1>1, <1>4
<1>6. After(d, s).schema \in SUBSET Lasting
  BY <1>1, <1>3
<1>7. After(d, s).ledger = d.ledger /\ After(d, s).ledgerTable = d.ledgerTable
      /\ After(d, s).engine = d.engine /\ After(d, s).foreign = d.foreign
  OBVIOUS
<1>8. \A r \in Statements : After(d, s).runs[r] =
             IF r = s /\ Kind(s) = "rows" /\ d.runs[r] < 2 THEN d.runs[r] + 1 ELSE d.runs[r]
  <2> HIDE DEF After, Dbs
  <2> QED BY <1>2, <1>10 DEF OnceMore
<1>9. After(d, s) \in Dbs
  BY <1>11, <1>5, <1>6
<1> QED BY <1>3, <1>4, <1>6, <1>7, <1>8, <1>9 DEF Grown

-----------------------------------------------------------------------------
(***************************************************************************)
(* The steps, said point by point.                                         *)
(***************************************************************************)
Others(i) == \A k \in Instances \ {i} :
  pc'[k] = pc[k] /\ at'[k] = at[k] /\ seen'[k] = seen[k] /\ work'[k] = work[k]

\* The start-up of i is over and has changed nothing.
Ended(i) ==
  /\ Others(i)
  /\ pc'[i] = "down" /\ at'[i] = <<1, 1>> /\ seen'[i] = {} /\ work'[i] = NoWork
  /\ lock' = IF lock = i THEN NoOne ELSE lock
  /\ writer' = IF writer = i THEN NoOne ELSE writer
  /\ UNCHANGED <<db, installation, lost>>

\* i has made d of the tables it sees.
Wrote(i, d) ==
  /\ Others(i)
  /\ seen'[i] = seen[i]
  /\ Transactional => work'[i] = d /\ db' = db
  /\ ~Transactional => db' = d /\ work'[i] = work[i]
  /\ UNCHANGED <<installation, lock, writer, faults, lost>>

\* i has made d of the database.
Committed(i, d) ==
  /\ Others(i)
  /\ seen'[i] = seen[i] /\ work'[i] = NoWork
  /\ db' = d
  /\ writer' = IF Transactional THEN NoOne ELSE writer
  /\ UNCHANGED <<installation, lock, faults, lost>>

\* Only i's position changes.
Moved(i) ==
  /\ Others(i)
  /\ seen'[i] = seen[i] /\ work'[i] = work[i]
  /\ UNCHANGED <<db, installation, lock, writer, faults, lost>>

LEMMA EndForm == ASSUME TypeOK, NEW i \in Instances, Down(i), UNCHANGED <<db, installation, lost>> PROVE Ended(i)
BY DEF TypeOK, Down, Goto, At, Ended, Others

LEMMA FailForm == ASSUME TypeOK, NEW i \in Instances, Fail(i) PROVE Ended(i) /\ faults' = faults
BY EndForm DEF Fail

LEMMA WriteForm == ASSUME TypeOK, NEW i \in Instances, NEW d, Write(i, d),
    pc' = pc \/ \E p : pc' = [pc EXCEPT ![i] = p],
    at' = at \/ \E a : at' = [at EXCEPT ![i] = a],
    UNCHANGED <<seen, installation, lock, writer, faults, lost>>
  PROVE Wrote(i, d)
BY DEF TypeOK, Write, Wrote, Others

LEMMA InspectForm == ASSUME TypeOK, NEW i \in Instances, Inspect(i)
  PROVE /\ pc[i] = "inspect"
        /\ \/ Unknown /\ Ended(i) /\ faults' = faults
           \/ ~Unknown /\ Moved(i) /\ at'[i] = at[i] /\ pc'[i] = IF ~Occupied /\ Engine # "sqlite" THEN "boot" ELSE "ledger"
<1>1. CASE Unknown BY <1>1, FailForm DEF Inspect
<1>2. CASE ~Unknown BY <1>2 DEF Inspect, TypeOK, Goto, Moved, Others
<1> QED BY <1>1, <1>2

\* MySQL has the indexes of schema.sql already.
Doubled(i) == Engine = "mysql" /\ at[i][1] = Knows[i] /\ Part(at[i][1]) \subseteq View(i).schema

LEMMA BootPartForm == ASSUME TypeOK, NEW i \in Instances, BootPart(i)
  PROVE /\ Others(i)
        /\ pc[i] = "part"
        /\ \/ /\ Doubled(i)
              /\ Ended(i) /\ faults' = faults
           \/ /\ ~Doubled(i)
              /\ Wrote(i, WithPart(View(i), at[i][1]))
              /\ \/ at[i][1] < Knows[i] /\ pc'[i] = "part" /\ at'[i] = <<at[i][1] + 1, 1>>
                 \/ ~(at[i][1] < Knows[i]) /\ pc'[i] = "bootLedger" /\ at'[i] = <<1, 1>>
<1>1. CASE Doubled(i)
  BY <1>1, FailForm DEF Doubled, Ended, BootPart
<1>2. CASE ~Doubled(i)
  <2> DEFINE d == WithPart(View(i), at[i][1])
  <2>1. pc[i] = "part" /\ Write(i, d) /\ UNCHANGED <<installation, lock, writer, seen, faults, lost>>
    BY <1>2 DEF Doubled, BootPart, WithPart
  <2>2. CASE at[i][1] < Knows[i]
    <3>1. pc' = pc /\ at' = [at EXCEPT ![i] = <<at[i][1] + 1, 1>>] BY <1>2, <2>2 DEF Doubled, BootPart, At
    <3>2. pc'[i] = pc[i] /\ at'[i] = <<at[i][1] + 1, 1>> BY <3>1 DEF TypeOK
    <3>3. Wrote(i, d) /\ Others(i)
      <4> HIDE DEF d
      <4> QED BY <2>1, <3>1, WriteForm DEF Wrote
    <3> QED BY <2>1, <2>2, <3>2, <3>3, <1>2
  <2>3. CASE ~(at[i][1] < Knows[i])
    <3>1. pc' = [pc EXCEPT ![i] = "bootLedger"] /\ at' = [at EXCEPT ![i] = <<1, 1>>]
      BY <1>2, <2>3 DEF Doubled, BootPart, At, Goto
    <3>2. pc'[i] = "bootLedger" /\ at'[i] = <<1, 1>> BY <3>1 DEF TypeOK
    <3>3. Wrote(i, d) /\ Others(i)
      <4> HIDE DEF d
      <4> QED BY <2>1, <3>1, WriteForm DEF Wrote
    <3> QED BY <2>1, <2>3, <3>2, <3>3, <1>2
  <2> QED BY <2>2, <2>3
<1> QED BY <1>1, <1>2

LEMMA BootLedgerForm == ASSUME TypeOK, NEW i \in Instances, BootLedger(i)
  PROVE /\ Others(i)
        /\ pc[i] = "bootLedger"
        /\ Wrote(i, WithLedger(View(i)))
        /\ pc'[i] = "bootRow" /\ at'[i] = at[i]
<1> DEFINE d == WithLedger(View(i))
<1>1. pc[i] = "bootLedger" /\ Write(i, d) /\ UNCHANGED <<installation, lock, writer, at, seen, faults, lost>>
      /\ pc' = [pc EXCEPT ![i] = "bootRow"]
  BY DEF BootLedger, Goto, WithLedger
<1>2. pc'[i] = "bootRow" /\ at'[i] = at[i]
  BY <1>1 DEF TypeOK
<1>3. Wrote(i, d) /\ Others(i)
  <2> HIDE DEF d
  <2> QED BY <1>1, WriteForm DEF Wrote
<1> QED BY <1>1, <1>2, <1>3

LEMMA BootRowForm == ASSUME TypeOK, NEW i \in Instances, BootRow(i)
  PROVE /\ Others(i)
        /\ pc[i] = "bootRow"
        /\ \/ Recorded(View(i), at[i][1]) /\ Ended(i) /\ faults' = faults
           \/ /\ ~Recorded(View(i), at[i][1])
              /\ Wrote(i, WithRow(View(i), i, at[i][1]))
              /\ \/ at[i][1] < Knows[i] /\ pc'[i] = "bootRow" /\ at'[i] = <<at[i][1] + 1, 1>>
                 \/ ~(at[i][1] < Knows[i]) /\ pc'[i] = "bootCommit" /\ at'[i] = <<1, 1>>
<1>1. CASE Recorded(View(i), at[i][1]) BY <1>1, FailForm DEF Ended, BootRow
<1>2. CASE ~Recorded(View(i), at[i][1])
  <2> DEFINE d == WithRow(View(i), i, at[i][1])
  <2>1. pc[i] = "bootRow" /\ Write(i, d) /\ UNCHANGED <<installation, lock, writer, seen, faults, lost>>
    BY <1>2 DEF BootRow, WithRow
  <2>2. CASE at[i][1] < Knows[i]
    <3>1. pc' = pc /\ at' = [at EXCEPT ![i] = <<at[i][1] + 1, 1>>] BY <1>2, <2>2 DEF BootRow, At
    <3>2. pc'[i] = pc[i] /\ at'[i] = <<at[i][1] + 1, 1>> BY <3>1 DEF TypeOK
    <3>3. Wrote(i, d) /\ Others(i)
      <4> HIDE DEF d
      <4> QED BY <2>1, <3>1, WriteForm DEF Wrote
    <3> QED BY <2>1, <2>2, <3>2, <3>3, <1>2
  <2>3. CASE ~(at[i][1] < Knows[i])
    <3>1. pc' = [pc EXCEPT ![i] = "bootCommit"] /\ at' = [at EXCEPT ![i] = <<1, 1>>]
      BY <1>2, <2>3 DEF BootRow, At, Goto
    <3>2. pc'[i] = "bootCommit" /\ at'[i] = <<1, 1>> BY <3>1 DEF TypeOK
    <3>3. Wrote(i, d) /\ Others(i)
      <4> HIDE DEF d
      <4> QED BY <2>1, <3>1, WriteForm DEF Wrote
    <3> QED BY <2>1, <2>3, <3>2, <3>3, <1>2
  <2> QED BY <2>2, <2>3
<1> QED BY <1>1, <1>2

LEMMA CreateForm == ASSUME TypeOK, NEW i \in Instances, CreateLedger(i)
  PROVE /\ pc[i] = "ledger" /\ pc'[i] = "read" /\ at'[i] = at[i]
        /\ db' = WithLedger(db)
        /\ db.ledgerTable \/ writer = NoOne
        /\ db.ledgerTable => db' = db
        /\ Others(i) /\ seen'[i] = seen[i] /\ work'[i] = work[i]
        /\ UNCHANGED <<installation, lock, writer, faults, lost>>
BY DEF TypeOK, CreateLedger, WithLedger, Goto, Others, Dbs

LEMMA FileForm == ASSUME TypeOK, NEW i \in Instances, File(i)
  PROVE LET done == \E row \in seen[i] : row[1] = at[i][1] IN
        /\ pc[i] = "file"
        /\ \/ at[i][1] > Knows[i] /\ Moved(i) /\ pc'[i] = "install" /\ at'[i] = at[i]
           \/ at[i][1] <= Knows[i] /\ done /\ ~Same(i, at[i][1]) /\ Ended(i) /\ faults' = faults
           \/ /\ at[i][1] <= Knows[i] /\ done /\ Same(i, at[i][1])
              /\ Moved(i) /\ pc'[i] = "file" /\ at'[i] = <<at[i][1] + 1, 1>>
           \/ /\ at[i][1] <= Knows[i] /\ ~done /\ Begin(i)
              /\ Others(i) /\ seen'[i] = seen[i] /\ pc'[i] = "statement" /\ at'[i] = at[i]
              /\ UNCHANGED <<db, installation, lock, faults, lost>>
<1> DEFINE v == at[i][1]
           done == \E row \in seen[i] : row[1] = v
<1>1. CASE v > Knows[i] /\ Goto(i, "install") /\ UNCHANGED <<at, writer, work>> /\ UNCHANGED <<db, installation, lock, seen, faults, lost>>
  BY <1>1 DEF File, TypeOK, Goto, Moved, Others
<1>2. CASE v <= Knows[i] /\ done /\ ~Same(i, v) /\ Fail(i)
  BY <1>2, FailForm DEF File
<1>3. CASE v <= Knows[i] /\ done /\ Same(i, v) /\ At(i, v + 1, 1) /\ UNCHANGED <<pc, writer, work>> /\ UNCHANGED <<db, installation, lock, seen, faults, lost>>
  <2>1. Moved(i) /\ pc'[i] = pc[i] /\ at'[i] = <<v + 1, 1>>
    BY <1>3 DEF TypeOK, At, Moved, Others
  <2> QED BY <2>1, <1>3 DEF File
<1>4. CASE v <= Knows[i] /\ ~done /\ Begin(i) /\ Goto(i, "statement") /\ UNCHANGED at /\ UNCHANGED <<db, installation, lock, seen, faults, lost>>
  <2>1. Others(i) /\ seen'[i] = seen[i] /\ pc'[i] = "statement" /\ at'[i] = at[i]
    BY <1>4 DEF TypeOK, Goto, Begin, Others
  <2> QED BY <2>1, <1>4 DEF File
<1> QED BY <1>1, <1>2, <1>3, <1>4 DEF File

LEMMA StatementStep == ASSUME TypeOK, NEW i \in Instances, Statement(i)
  PROVE /\ pc[i] = "statement" /\ at[i] \in Statements
        /\ \/ Fails(View(i), at[i]) /\ Ended(i) /\ faults' = faults
           \/ /\ ~Fails(View(i), at[i])
              /\ Wrote(i, After(View(i), at[i]))
              /\ pc'[i] = "statement" /\ at'[i] = <<at[i][1], at[i][2] + 1>>
<1>1. CASE Fails(View(i), at[i]) BY <1>1, FailForm DEF Statement, InFile
<1>2. CASE ~Fails(View(i), at[i])
  <2>1. /\ pc[i] = "statement" /\ at[i] \in Statements /\ Write(i, After(View(i), at[i]))
        /\ at' = [at EXCEPT ![i] = <<at[i][1], at[i][2] + 1>>]
        /\ UNCHANGED <<installation, lock, writer, pc, seen, faults, lost>>
    BY <1>2 DEF Statement, At, InFile
  <2>2. pc'[i] = pc[i] /\ at'[i] = <<at[i][1], at[i][2] + 1>>
    BY <2>1 DEF TypeOK
  <2>3. Wrote(i, After(View(i), at[i]))
    BY <2>1, WriteForm
  <2> QED BY <2>1, <2>2, <2>3, <1>2
<1> QED BY <1>1, <1>2

LEMMA RecordForm == ASSUME TypeOK, NEW i \in Instances, Record(i)
  PROVE /\ Others(i)
        /\ pc[i] = "statement" /\ at[i] \notin Statements
        /\ \/ Recorded(View(i), at[i][1]) /\ Ended(i) /\ faults' = faults
           \/ /\ ~Recorded(View(i), at[i][1])
              /\ Committed(i, WithRow(View(i), i, at[i][1]))
              /\ pc'[i] = "file" /\ at'[i] = <<at[i][1] + 1, 1>>
<1>1. CASE Recorded(View(i), at[i][1]) BY <1>1, FailForm DEF Ended, Record, InFile
<1>2. CASE ~Recorded(View(i), at[i][1])
  <2> DEFINE d == WithRow(View(i), i, at[i][1])
  <2>1. /\ pc[i] = "statement" /\ at[i] \notin Statements /\ Commit(i, d)
        /\ pc' = [pc EXCEPT ![i] = "file"] /\ at' = [at EXCEPT ![i] = <<at[i][1] + 1, 1>>]
        /\ UNCHANGED <<installation, lock, seen, faults, lost>>
    BY <1>2 DEF Record, WithRow, At, Goto, InFile
  <2> HIDE DEF d
  <2>2. Committed(i, d) /\ Others(i) /\ pc'[i] = "file" /\ at'[i] = <<at[i][1] + 1, 1>>
    BY <2>1 DEF TypeOK, Commit, Committed, Others
  <2> QED BY <2>1, <2>2, <1>2 DEF d
<1> QED BY <1>1, <1>2


-----------------------------------------------------------------------------
(***************************************************************************)
(* The parts of the invariant.                                             *)
(***************************************************************************)
LEMMA PrivateNext == Private' <=>
  /\ db'.engine # "mysql" => \A k \in Instances : pc'[k] \in InTx <=> writer' = k
  /\ db'.engine = "mysql" => writer' = NoOne
  /\ db'.engine # "mysql" => \A k \in Instances : pc'[k] \in InTx => Grown(db', work'[k])
BY DEF Private, Grown, Transactional, Engine

\* An instance between its first statement and its commit sees a database
\* that continues the committed one; the other instances know no position.
LEMMA ViewForm == ASSUME TypeOK, Private, NEW i \in Instances, pc[i] \in InTx
  PROVE View(i) \in Dbs /\ Grown(db, View(i)) /\ View(i).engine = Engine
BY GrownRefl DEF TypeOK, Private, View, Transactional, Grown, Engine

LEMMA EndKeepsPrivate == ASSUME TypeOK, Private, NEW i \in Instances, Ended(i) PROVE Private'
BY PrivateNext, MigrationAssumption DEF TypeOK, Private, Transactional, Engine, InTx, Booting, Others, Ended

LEMMA WriteKeepsPrivate ==
  ASSUME TypeOK, Private, NEW i \in Instances, pc[i] \in InTx, pc'[i] \in InTx,
         NEW d, Grown(View(i), d), Wrote(i, d)
  PROVE Private'
<1>1. CASE Transactional
  <2>1. db' = db /\ work'[i] = d /\ writer' = writer /\ View(i) = work[i] BY <1>1 DEF Wrote, View
  <2>2. Grown(db', work'[i]) BY <2>1, ViewForm, GrownTrans
  <2> QED BY <1>1, <2>1, <2>2, PrivateNext DEF Private, Wrote, Others, Transactional, Engine
<1>2. CASE ~Transactional
  <2>1. d.engine = "mysql" BY <1>2, ViewForm DEF Grown, Transactional, Engine
  <2> QED BY <1>2, <2>1, PrivateNext DEF Private, Wrote, Transactional
<1> QED BY <1>1, <1>2

LEMMA CommitKeepsPrivate ==
  ASSUME TypeOK, Private, NEW i \in Instances, pc[i] \in InTx, pc'[i] \notin InTx,
         NEW d, Grown(View(i), d), Committed(i, d)
  PROVE Private'
<1>1. d.engine = db.engine BY ViewForm DEF Grown, Engine
<1>2. CASE Transactional
  <2>1. writer = i /\ writer' = NoOne BY <1>2 DEF Private, Committed
  <2>2. \A k \in Instances : pc'[k] \notin InTx BY <1>2, <2>1 DEF Private, Committed, Others
  <2> QED BY <1>1, <1>2, <2>1, <2>2, PrivateNext, MigrationAssumption DEF Committed, Transactional, Engine
<1>3. CASE ~Transactional
  BY <1>1, <1>3, PrivateNext DEF Private, Committed, Transactional, Engine
<1> QED BY <1>2, <1>3

LEMMA PrivateStep == IInv /\ [Next]_vars => Private'
<1> SUFFICES ASSUME IInv, [Next]_vars PROVE Private' OBVIOUS
<1>0. /\ TypeOK /\ db \in Dbs /\ pc \in [Instances -> Labels] /\ work \in [Instances -> Dbs \cup {NoWork}]
      /\ Private /\ Position
  BY DEF IInv, TypeOK
<1>1. ASSUME NEW i \in Instances, Start(i) PROVE Private'
  BY <1>1, <1>0, PrivateNext, GrownRefl, GrownTrans, MigrationAssumption DEF Start, Goto, At, Private, Transactional, Engine, InTx, Booting, View, Others, Moved, Ended
<1>2. ASSUME NEW i \in Instances, Lock(i) PROVE Private'
  BY <1>2, <1>0, PrivateNext, GrownRefl, GrownTrans, MigrationAssumption DEF Lock, Goto, At, LockFree, Private, Transactional, Engine, InTx, Booting, View, Others, Moved, Ended
<1>3. ASSUME NEW i \in Instances, Inspect(i) PROVE Private'
  <2>1. CASE Ended(i) BY <2>1, <1>0, EndKeepsPrivate
  <2>2. CASE Moved(i) /\ pc[i] \notin InTx /\ pc'[i] \notin InTx
    BY <2>2, <1>0, PrivateNext DEF Private, Transactional, Engine, Moved, Others
  <2> QED BY <2>1, <2>2, <1>3, <1>0, InspectForm DEF InTx, Booting
<1>4. ASSUME NEW i \in Instances, BeginBoot(i) PROVE Private'
  BY <1>4, <1>0, PrivateNext, GrownRefl, GrownTrans, MigrationAssumption DEF BeginBoot, Goto, At, Begin, Private, Transactional, Engine, InTx, Booting, View, Others, Moved, Ended
<1>5. ASSUME NEW i \in Instances, BootPart(i) PROVE Private'
  <2> DEFINE d == WithPart(View(i), at[i][1])
  <2>1. pc[i] = "part" BY <1>5, <1>0, BootPartForm
  <2>2. Grown(View(i), d) BY <2>1, <1>5, <1>0, ViewForm, BootPartForm, PartGrows DEF InTx, Booting
  <2>3. CASE Wrote(i, d) /\ pc'[i] \in InTx
    <3> HIDE DEF d
    <3> QED BY <2>1, <2>2, <2>3, <1>0, WriteKeepsPrivate DEF InTx, Booting
  <2>4. CASE Ended(i) BY <2>4, <1>0, EndKeepsPrivate
  <2> QED BY <2>3, <2>4, <1>5, <1>0, BootPartForm DEF InTx, Booting
<1>6. ASSUME NEW i \in Instances, BootLedger(i) PROVE Private'
  <2> DEFINE d == WithLedger(View(i))
  <2>1. pc[i] = "bootLedger" BY <1>6, <1>0, BootLedgerForm
  <2>2. Grown(View(i), d) BY <2>1, <1>6, <1>0, ViewForm, BootLedgerForm, TableGrows DEF InTx, Booting
  <2>3. CASE Wrote(i, d) /\ pc'[i] \in InTx
    <3> HIDE DEF d
    <3> QED BY <2>1, <2>2, <2>3, <1>0, WriteKeepsPrivate DEF InTx, Booting
  <2> QED BY <2>3, <1>6, <1>0, BootLedgerForm DEF InTx, Booting
<1>7. ASSUME NEW i \in Instances, BootRow(i) PROVE Private'
  <2> DEFINE d == WithRow(View(i), i, at[i][1])
  <2>1. pc[i] = "bootRow" BY <1>7, <1>0, BootRowForm
  <2>0. at[i][1] \in 1 .. Knows[i] BY <2>1, <1>0 DEF Position, PositionOf
  <2>2. Grown(View(i), d) BY <2>1, <2>0, <1>7, <1>0, ViewForm, BootRowForm, RowGrows DEF InTx, Booting
  <2>3. CASE Wrote(i, d) /\ pc'[i] \in InTx
    <3> HIDE DEF d
    <3> QED BY <2>1, <2>2, <2>3, <1>0, WriteKeepsPrivate DEF InTx, Booting
  <2>4. CASE Ended(i) BY <2>4, <1>0, EndKeepsPrivate
  <2> QED BY <2>3, <2>4, <1>7, <1>0, BootRowForm DEF InTx, Booting
<1>8. ASSUME NEW i \in Instances, BootCommit(i) PROVE Private'
  BY <1>8, <1>0, PrivateNext, GrownRefl, GrownTrans, MigrationAssumption DEF BootCommit, Goto, At, Commit, Private, Transactional, Engine, InTx, Booting, View, Others, Moved, Ended
<1>9. ASSUME NEW i \in Instances, CreateLedger(i) PROVE Private'
  <2>0. CreateLedger(i) BY <1>9
  <2>1. Grown(db, db') /\ (db.ledgerTable => db' = db) BY <2>0, <1>0, CreateForm, TableGrows
  <2>2. db'.engine = db.engine BY <2>1 DEF Grown
  <2>3. Transactional => \A k \in Instances : pc[k] \in InTx => db' = db
    BY <2>0, <2>1, <1>0, CreateForm, MigrationAssumption DEF Private
  <2> QED BY <2>0, <2>2, <2>3, <1>0, CreateForm, PrivateNext
          DEF Private, Transactional, Engine, Others, InTx, Booting
<1>10. ASSUME NEW i \in Instances, ReadLedger(i) PROVE Private'
  BY <1>10, <1>0, PrivateNext, GrownRefl, GrownTrans, MigrationAssumption DEF ReadLedger, Goto, At, Private, Transactional, Engine, InTx, Booting, View, Others, Moved, Ended
<1>11. ASSUME NEW i \in Instances, File(i) PROVE Private'
  <2>1. CASE Ended(i) BY <2>1, <1>0, EndKeepsPrivate
  <2>2. CASE Moved(i) /\ pc[i] \notin InTx /\ pc'[i] \notin InTx
    BY <2>2, <1>0, PrivateNext DEF Private, Transactional, Engine, Moved, Others
  <2>3. CASE Begin(i) /\ Others(i) /\ pc[i] = "file" /\ pc'[i] = "statement" /\ db' = db
    <3>1. Transactional => work'[i] = db BY <2>3, <1>0 DEF Begin, TypeOK
    <3> QED BY <3>1, <2>3, <1>0, PrivateNext, GrownRefl, MigrationAssumption
            DEF Private, Transactional, Engine, Begin, Others, InTx, Booting
  <2> QED BY <2>1, <2>2, <2>3, <1>11, <1>0, FileForm DEF InTx, Booting
<1>12. ASSUME NEW i \in Instances, Statement(i) PROVE Private'
  <2> DEFINE d == After(View(i), at[i])
  <2>1. pc[i] = "statement" BY <1>12, <1>0, StatementStep
  <2>2. Grown(View(i), d) BY <2>1, <1>12, <1>0, ViewForm, StatementStep, AfterGrows DEF InTx, Booting
  <2>3. CASE Wrote(i, d) /\ pc'[i] \in InTx
    <3> HIDE DEF d
    <3> QED BY <2>1, <2>2, <2>3, <1>0, WriteKeepsPrivate DEF InTx, Booting
  <2>4. CASE Ended(i) BY <2>4, <1>0, EndKeepsPrivate
  <2> QED BY <2>3, <2>4, <1>12, <1>0, StatementStep DEF InTx, Booting
<1>13. ASSUME NEW i \in Instances, Record(i) PROVE Private'
  <2> DEFINE d == WithRow(View(i), i, at[i][1])
  <2>1. pc[i] = "statement" BY <1>13, <1>0, RecordForm
  <2>0. at[i][1] \in 1 .. Knows[i] BY <2>1, <1>0 DEF Position, PositionOf
  <2>2. Grown(View(i), d) BY <2>1, <2>0, <1>0, ViewForm, RowGrows DEF InTx, Booting
  <2>3. CASE Committed(i, d) /\ pc'[i] = "file"
    <3> HIDE DEF d
    <3> QED BY <2>1, <2>2, <2>3, <1>0, CommitKeepsPrivate DEF InTx, Booting
  <2>4. CASE Ended(i) BY <2>4, <1>0, EndKeepsPrivate
  <2> QED BY <2>3, <2>4, <1>13, <1>0, RecordForm
<1>14. ASSUME NEW i \in Instances, Install(i) PROVE Private'
  BY <1>14, <1>0, PrivateNext, GrownRefl, GrownTrans, MigrationAssumption DEF Install, Goto, At, Unlocked, InstallationOf, Private, Transactional, Engine, InTx, Booting, View, Others, Moved, Ended
<1>15. ASSUME NEW i \in Instances, Stop(i) PROVE Private'
  BY <1>15, EndForm, <1>0, PrivateNext, GrownRefl, GrownTrans, MigrationAssumption DEF Stop, Fail, Private, Transactional, Engine, InTx, Booting, View, Others, Moved, Ended
<1>16. ASSUME NEW i \in Instances, Fault(i) PROVE Private'
  BY <1>16, EndForm, <1>0, PrivateNext, GrownRefl, GrownTrans, MigrationAssumption DEF Fault, Private, Transactional, Engine, InTx, Booting, View, Others, Moved, Ended
<1>17. ASSUME NEW i \in Instances, LoseLock(i) PROVE Private'
  BY <1>17, <1>0, PrivateNext, GrownRefl, GrownTrans, MigrationAssumption DEF LoseLock, Goto, At, procs, Private, Transactional, Engine, InTx, Booting, View, Others, Moved, Ended
<1>18. ASSUME UNCHANGED vars PROVE Private'
  BY <1>18, <1>0, PrivateNext, GrownRefl, GrownTrans, MigrationAssumption DEF vars, procs, Private, Transactional, Engine, InTx, Booting, View, Others, Moved, Ended
<1> QED BY <1>1, <1>2, <1>3, <1>4, <1>5, <1>6, <1>7, <1>8, <1>9, <1>10, <1>11, <1>12, <1>13, <1>14, <1>15, <1>16, <1>17, <1>18 DEF Next, Step

LEMMA KnowsForm == \A k \in Instances : Knows[k] \in Nat /\ 1 <= Knows[k] /\ Knows[k] <= Len(Body) /\ 1 .. Knows[k] \subseteq Versions
BY BodyForm, MigrationAssumption

LEMMA PositionOthers == ASSUME Position, NEW i \in Instances, Others(i), PositionOf(i)' PROVE Position'
BY DEF Position, PositionOf, Others

LEMMA AtForm == ASSUME TypeOK, NEW i \in Instances
  PROVE at[i] = <<at[i][1], at[i][2]>> /\ at[i][1] \in 1 .. Len(Body) + 1 /\ at[i][2] \in Nat
BY DEF TypeOK

LEMMA PositionStep == IInv /\ [Next]_vars => Position'
<1> SUFFICES ASSUME IInv, [Next]_vars PROVE Position' OBVIOUS
<1>0. /\ TypeOK /\ at \in [Instances -> (1 .. Len(Body) + 1) \X Nat] /\ pc \in [Instances -> Labels]
      /\ Position
  BY DEF IInv, TypeOK
<1>1. ASSUME NEW i \in Instances, Start(i) PROVE Position'
  BY <1>1, <1>0, PositionOthers, KnowsForm, AtForm, BodyForm DEF Start, Goto, At, Position, PositionOf, Labels, Others, Moved, Ended, Wrote, Committed
<1>2. ASSUME NEW i \in Instances, Lock(i) PROVE Position'
  BY <1>2, <1>0, PositionOthers, KnowsForm, AtForm, BodyForm DEF Lock, Goto, At, LockFree, Position, PositionOf, Labels, Others, Moved, Ended, Wrote, Committed
<1>3. ASSUME NEW i \in Instances, Inspect(i) PROVE Position'
  <2>0. Inspect(i) BY <1>3
  <2>1. PositionOf(i) BY <1>0 DEF Position
  <2>2. Others(i) BY <2>0, <1>0, InspectForm DEF Moved, Ended, Wrote
  <2>3. PositionOf(i)' BY <2>0, <2>1, <1>0, InspectForm, KnowsForm, AtForm, BodyForm DEF PositionOf, Ended, Moved
  <2> QED BY <2>2, <2>3, <1>0, PositionOthers
<1>4. ASSUME NEW i \in Instances, BeginBoot(i) PROVE Position'
  BY <1>4, <1>0, PositionOthers, KnowsForm, AtForm, BodyForm DEF BeginBoot, Goto, At, Begin, Position, PositionOf, Labels, Others, Moved, Ended, Wrote, Committed
<1>5. ASSUME NEW i \in Instances, BootPart(i) PROVE Position'
  <2>0. BootPart(i) BY <1>5
  <2>1. PositionOf(i) BY <1>0 DEF Position
  <2>2. Others(i) BY <2>0, <1>0, BootPartForm
  <2>3. PositionOf(i)' BY <2>0, <2>1, <1>0, BootPartForm, KnowsForm, AtForm, BodyForm DEF PositionOf, Ended, Moved
  <2> QED BY <2>2, <2>3, <1>0, PositionOthers
<1>6. ASSUME NEW i \in Instances, BootLedger(i) PROVE Position'
  <2>0. BootLedger(i) BY <1>6
  <2>1. PositionOf(i) BY <1>0 DEF Position
  <2>2. Others(i) BY <2>0, <1>0, BootLedgerForm
  <2>3. PositionOf(i)' BY <2>0, <2>1, <1>0, BootLedgerForm, KnowsForm, AtForm, BodyForm DEF PositionOf, Ended, Moved
  <2> QED BY <2>2, <2>3, <1>0, PositionOthers
<1>7. ASSUME NEW i \in Instances, BootRow(i) PROVE Position'
  <2>0. BootRow(i) BY <1>7
  <2>1. PositionOf(i) BY <1>0 DEF Position
  <2>2. Others(i) BY <2>0, <1>0, BootRowForm
  <2>3. PositionOf(i)' BY <2>0, <2>1, <1>0, BootRowForm, KnowsForm, AtForm, BodyForm DEF PositionOf, Ended, Moved
  <2> QED BY <2>2, <2>3, <1>0, PositionOthers
<1>8. ASSUME NEW i \in Instances, BootCommit(i) PROVE Position'
  BY <1>8, <1>0, PositionOthers, KnowsForm, AtForm, BodyForm DEF BootCommit, Goto, At, Commit, Position, PositionOf, Labels, Others, Moved, Ended, Wrote, Committed
<1>9. ASSUME NEW i \in Instances, CreateLedger(i) PROVE Position'
  <2>0. CreateLedger(i) BY <1>9
  <2>1. PositionOf(i) BY <1>0 DEF Position
  <2>2. Others(i) BY <2>0, <1>0, CreateForm DEF Moved, Ended, Wrote
  <2>3. PositionOf(i)' BY <2>0, <2>1, <1>0, CreateForm, KnowsForm, AtForm, BodyForm DEF PositionOf, Ended, Moved
  <2> QED BY <2>2, <2>3, <1>0, PositionOthers
<1>10. ASSUME NEW i \in Instances, ReadLedger(i) PROVE Position'
  BY <1>10, <1>0, PositionOthers, KnowsForm, AtForm, BodyForm DEF ReadLedger, Goto, At, Position, PositionOf, Labels, Others, Moved, Ended, Wrote, Committed
<1>11. ASSUME NEW i \in Instances, File(i) PROVE Position'
  <2>0. File(i) BY <1>11
  <2>1. PositionOf(i) BY <1>0 DEF Position
  <2>2. Others(i) BY <2>0, <1>0, FileForm DEF Moved, Ended, Wrote
  <2>3. PositionOf(i)' BY <2>0, <2>1, <1>0, FileForm, KnowsForm, AtForm, BodyForm DEF PositionOf, Ended, Moved
  <2> QED BY <2>2, <2>3, <1>0, PositionOthers
<1>12. ASSUME NEW i \in Instances, Statement(i) PROVE Position'
  <2>0. Statement(i) BY <1>12
  <2>1. PositionOf(i) BY <1>0 DEF Position
  <2>2. Others(i) BY <2>0, <1>0, StatementStep DEF Moved, Ended, Wrote
  <2>3. PositionOf(i)' BY <2>0, <2>1, <1>0, StatementStep, KnowsForm, AtForm, BodyForm, StatementForm DEF PositionOf, Ended, Moved
  <2> QED BY <2>2, <2>3, <1>0, PositionOthers
<1>13. ASSUME NEW i \in Instances, Record(i) PROVE Position'
  <2>0. Record(i) BY <1>13
  <2>1. PositionOf(i) BY <1>0 DEF Position
  <2>2. Others(i) BY <2>0, <1>0, RecordForm
  <2>3. PositionOf(i)' BY <2>0, <2>1, <1>0, RecordForm, KnowsForm, AtForm, BodyForm, StatementForm DEF PositionOf, Ended, Moved
  <2> QED BY <2>2, <2>3, <1>0, PositionOthers
<1>14. ASSUME NEW i \in Instances, Install(i) PROVE Position'
  BY <1>14, <1>0, PositionOthers, KnowsForm, AtForm, BodyForm DEF Install, Goto, At, Unlocked, InstallationOf, Position, PositionOf, Labels, Others, Moved, Ended, Wrote, Committed
<1>15. ASSUME NEW i \in Instances, Stop(i) PROVE Position'
  <2>1. Ended(i) BY <1>15, <1>0, EndForm DEF Stop, Fail
  <2>2. PositionOf(i)' BY <2>1 DEF PositionOf, Ended
  <2> QED BY <2>1, <2>2, <1>0, PositionOthers DEF Ended
<1>16. ASSUME NEW i \in Instances, Fault(i) PROVE Position'
  <2>1. Ended(i) BY <1>16, <1>0, EndForm DEF Fault, Fail
  <2>2. PositionOf(i)' BY <2>1 DEF PositionOf, Ended
  <2> QED BY <2>1, <2>2, <1>0, PositionOthers DEF Ended
<1>17. ASSUME NEW i \in Instances, LoseLock(i) PROVE Position'
  BY <1>17, <1>0, PositionOthers, KnowsForm, AtForm, BodyForm DEF LoseLock, Goto, At, procs, Position, PositionOf, Labels, Others, Moved, Ended, Wrote, Committed
<1>18. ASSUME UNCHANGED vars PROVE Position'
  BY <1>18, <1>0, PositionOthers, KnowsForm, AtForm, BodyForm DEF vars, procs, Position, PositionOf, Labels, Others, Moved, Ended, Wrote, Committed
<1> QED BY <1>1, <1>2, <1>3, <1>4, <1>5, <1>6, <1>7, <1>8, <1>9, <1>10, <1>11, <1>12, <1>13, <1>14, <1>15, <1>16, <1>17, <1>18 DEF Next, Step

\* The committed database grows, and what an instance sees between its first
\* statement and its commit does.
LEMMA ViewNext == \A k \in Instances : View(k)' = IF db'.engine # "mysql" THEN work'[k] ELSE db'
BY DEF View, Transactional, Engine

Growing == Grown(db, db') /\ \A k \in Instances :
  pc[k] \in InTx /\ pc'[k] \in InTx => Grown(View(k), View(k)')

LEMMA OthersGrow ==
  ASSUME TypeOK, Private, NEW i \in Instances, Others(i), Grown(db, db'),
         pc[i] \in InTx /\ pc'[i] \in InTx => Grown(View(i), View(i)')
  PROVE Growing
<1>1. db'.engine = db.engine BY DEF Grown
<1>2. ASSUME NEW k \in Instances, k # i, pc[k] \in InTx PROVE Grown(View(k), View(k)')
  <2>1. CASE Transactional
    <3>1. View(k)' = View(k) BY <1>1, <1>2, <2>1, ViewNext DEF View, Others, Transactional, Engine
    <3> QED BY <1>2, <3>1, ViewForm, GrownRefl
  <2>2. CASE ~Transactional
    BY <1>1, <2>2, ViewNext DEF View, Transactional, Engine
  <2> QED BY <2>1, <2>2
<1> QED BY <1>2 DEF Growing

LEMMA WriteGrows ==
  ASSUME TypeOK, Private, NEW i \in Instances, pc[i] \in InTx, NEW d, Grown(View(i), d), Wrote(i, d)
  PROVE Growing /\ View(i)' = d
<1>0. d.engine = db.engine /\ db \in Dbs BY ViewForm DEF Grown, Engine, TypeOK
<1>1. Grown(db, db') /\ View(i)' = d
  <2>1. CASE Transactional BY <1>0, <2>1, ViewNext, GrownRefl DEF Wrote, Transactional, Engine
  <2>2. CASE ~Transactional BY <1>0, <2>2, ViewNext DEF Wrote, View, Transactional, Engine
  <2> QED BY <2>1, <2>2
<1>2. Others(i) BY DEF Wrote
<1> QED BY <1>1, <1>2, OthersGrow

LEMMA CommitGrows ==
  ASSUME TypeOK, Private, NEW i \in Instances, pc[i] \in InTx, pc'[i] \notin InTx,
         NEW d, Grown(View(i), d), Committed(i, d)
  PROVE Growing /\ db' = d
<1>1. db' = d /\ Others(i) BY DEF Committed
<1>2. Grown(db, db') BY <1>1, ViewForm, GrownTrans
<1> QED BY <1>1, <1>2, OthersGrow

LEMMA RestGrows ==
  ASSUME TypeOK, Private, NEW i \in Instances, Others(i), pc[i] \notin InTx \/ pc'[i] \notin InTx, db' = db
  PROVE Growing
BY OthersGrow, GrownRefl DEF TypeOK

LEMMA BootPartGrown == ASSUME TypeOK, Private, Position, NEW i \in Instances, BootPart(i)
  PROVE View(i) \in Dbs /\ Grown(View(i), WithPart(View(i), at[i][1])) /\ pc[i] \in InTx
<1>1. pc[i] = "part" /\ pc[i] \in InTx BY BootPartForm DEF InTx, Booting
<1>3. View(i) \in Dbs BY <1>1, ViewForm
<1>4. Grown(View(i), WithPart(View(i), at[i][1])) BY <1>3, PartGrows
<1> QED BY <1>1, <1>3, <1>4

LEMMA BootLedgerGrown == ASSUME TypeOK, Private, Position, NEW i \in Instances, BootLedger(i)
  PROVE View(i) \in Dbs /\ Grown(View(i), WithLedger(View(i))) /\ pc[i] \in InTx
<1>1. pc[i] = "bootLedger" /\ pc[i] \in InTx BY BootLedgerForm DEF InTx, Booting
<1>3. View(i) \in Dbs BY <1>1, ViewForm
<1>4. Grown(View(i), WithLedger(View(i))) BY <1>3, TableGrows
<1> QED BY <1>1, <1>3, <1>4

LEMMA BootRowGrown == ASSUME TypeOK, Private, Position, NEW i \in Instances, BootRow(i)
  PROVE View(i) \in Dbs /\ Grown(View(i), WithRow(View(i), i, at[i][1])) /\ pc[i] \in InTx
<1>1. pc[i] = "bootRow" /\ pc[i] \in InTx BY BootRowForm DEF InTx, Booting
<1>2. at[i][1] \in 1 .. Knows[i] BY <1>1 DEF Position, PositionOf
<1>3. View(i) \in Dbs BY <1>1, ViewForm
<1>4. Grown(View(i), WithRow(View(i), i, at[i][1])) BY <1>2, <1>3, RowGrows
<1> QED BY <1>1, <1>3, <1>4

LEMMA StatementGrown == ASSUME TypeOK, Private, Position, NEW i \in Instances, Statement(i)
  PROVE View(i) \in Dbs /\ Grown(View(i), After(View(i), at[i])) /\ pc[i] \in InTx
<1>1. pc[i] = "statement" /\ pc[i] \in InTx BY StatementStep DEF InTx, Booting
<1>2. at[i] \in Statements BY StatementStep
<1>3. View(i) \in Dbs BY <1>1, ViewForm
<1>4. Grown(View(i), After(View(i), at[i])) BY <1>2, <1>3, AfterGrows
<1> QED BY <1>1, <1>3, <1>4

LEMMA RecordGrown == ASSUME TypeOK, Private, Position, NEW i \in Instances, Record(i)
  PROVE View(i) \in Dbs /\ Grown(View(i), WithRow(View(i), i, at[i][1])) /\ pc[i] \in InTx
<1>1. pc[i] = "statement" /\ pc[i] \in InTx BY RecordForm DEF InTx, Booting
<1>2. at[i][1] \in 1 .. Knows[i] BY <1>1 DEF Position, PositionOf
<1>3. View(i) \in Dbs BY <1>1, ViewForm
<1>4. Grown(View(i), WithRow(View(i), i, at[i][1])) BY <1>2, <1>3, RowGrows
<1> QED BY <1>1, <1>3, <1>4

LEMMA GrowStep == IInv /\ [Next]_vars => Growing
<1> SUFFICES ASSUME IInv, [Next]_vars PROVE Growing OBVIOUS
<1>0. TypeOK /\ Private /\ Position /\ at \in [Instances -> (1 .. Len(Body) + 1) \X Nat] /\ pc \in [Instances -> Labels]
  BY DEF IInv, TypeOK
<1>1. ASSUME NEW i \in Instances, Start(i) PROVE Growing
  <2>1. Others(i) /\ db' = db /\ pc[i] \notin InTx
    BY <1>1, <1>0 DEF TypeOK, Start, Goto, At, Begin, Others, InTx, Booting
  <2> QED BY <2>1, <1>0, RestGrows
<1>2. ASSUME NEW i \in Instances, Lock(i) PROVE Growing
  <2>1. Others(i) /\ db' = db /\ pc[i] \notin InTx
    BY <1>2, <1>0 DEF TypeOK, Lock, Goto, At, Begin, Others, InTx, Booting
  <2> QED BY <2>1, <1>0, RestGrows
<1>3. ASSUME NEW i \in Instances, Inspect(i) PROVE Growing
  <2>1. Others(i) /\ db' = db /\ pc[i] \notin InTx
    BY <1>3, <1>0, InspectForm DEF Ended, Moved, InTx, Booting
  <2> QED BY <2>1, <1>0, RestGrows
<1>4. ASSUME NEW i \in Instances, BeginBoot(i) PROVE Growing
  <2>1. Others(i) /\ db' = db /\ pc[i] \notin InTx
    BY <1>4, <1>0 DEF TypeOK, BeginBoot, Goto, At, Begin, Others, InTx, Booting
  <2> QED BY <2>1, <1>0, RestGrows
<1>5. ASSUME NEW i \in Instances, BootPart(i) PROVE Growing
  <2> DEFINE d == WithPart(View(i), at[i][1])
  <2>1. View(i) \in Dbs /\ Grown(View(i), d) /\ pc[i] \in InTx BY <1>5, <1>0, BootPartGrown
  <2>2. CASE Wrote(i, d)
    <3> HIDE DEF d
    <3> QED BY <2>1, <2>2, <1>0, WriteGrows
  <2>3. CASE Ended(i) BY <2>3, <1>0, RestGrows DEF Ended, InTx, Booting
  <2> QED BY <2>2, <2>3, <1>5, <1>0, BootPartForm
<1>6. ASSUME NEW i \in Instances, BootLedger(i) PROVE Growing
  <2> DEFINE d == WithLedger(View(i))
  <2>1. View(i) \in Dbs /\ Grown(View(i), d) /\ pc[i] \in InTx BY <1>6, <1>0, BootLedgerGrown
  <2>2. CASE Wrote(i, d)
    <3> HIDE DEF d
    <3> QED BY <2>1, <2>2, <1>0, WriteGrows
  <2> QED BY <2>2, <1>6, <1>0, BootLedgerForm
<1>7. ASSUME NEW i \in Instances, BootRow(i) PROVE Growing
  <2> DEFINE d == WithRow(View(i), i, at[i][1])
  <2>1. View(i) \in Dbs /\ Grown(View(i), d) /\ pc[i] \in InTx BY <1>7, <1>0, BootRowGrown
  <2>2. CASE Wrote(i, d)
    <3> HIDE DEF d
    <3> QED BY <2>1, <2>2, <1>0, WriteGrows
  <2>3. CASE Ended(i) BY <2>3, <1>0, RestGrows DEF Ended, InTx, Booting
  <2> QED BY <2>2, <2>3, <1>7, <1>0, BootRowForm
<1>8. ASSUME NEW i \in Instances, BootCommit(i) PROVE Growing
  <2>1. pc[i] = "bootCommit" /\ pc'[i] = "install" /\ Committed(i, View(i))
    BY <1>8, <1>0 DEF TypeOK, BootCommit, Commit, Goto, Committed, Others
  <2>2. View(i) \in Dbs /\ Grown(View(i), View(i)) BY <2>1, <1>0, ViewForm, GrownRefl DEF InTx, Booting
  <2> QED BY <2>1, <2>2, <1>0, CommitGrows DEF InTx, Booting
<1>9. ASSUME NEW i \in Instances, CreateLedger(i) PROVE Growing
  <2>1. CreateLedger(i) BY <1>9
  <2>2. Grown(db, db') /\ Others(i) /\ pc[i] \notin InTx BY <2>1, <1>0, CreateForm, TableGrows DEF TypeOK, InTx, Booting
  <2> QED BY <2>2, <1>0, OthersGrow
<1>10. ASSUME NEW i \in Instances, ReadLedger(i) PROVE Growing
  <2>1. Others(i) /\ db' = db /\ pc[i] \notin InTx
    BY <1>10, <1>0 DEF TypeOK, ReadLedger, Goto, At, Begin, Others, InTx, Booting
  <2> QED BY <2>1, <1>0, RestGrows
<1>11. ASSUME NEW i \in Instances, File(i) PROVE Growing
  <2>1. Others(i) /\ db' = db /\ pc[i] \notin InTx
    BY <1>11, <1>0, FileForm DEF Ended, Moved, InTx, Booting
  <2> QED BY <2>1, <1>0, RestGrows
<1>12. ASSUME NEW i \in Instances, Statement(i) PROVE Growing
  <2> DEFINE d == After(View(i), at[i])
  <2>1. View(i) \in Dbs /\ Grown(View(i), d) /\ pc[i] \in InTx BY <1>12, <1>0, StatementGrown
  <2>2. CASE Wrote(i, d)
    <3> HIDE DEF d
    <3> QED BY <2>1, <2>2, <1>0, WriteGrows
  <2>3. CASE Ended(i) BY <2>3, <1>0, RestGrows DEF Ended, InTx, Booting
  <2> QED BY <2>2, <2>3, <1>12, <1>0, StatementStep
<1>13. ASSUME NEW i \in Instances, Record(i) PROVE Growing
  <2> DEFINE d == WithRow(View(i), i, at[i][1])
  <2>1. View(i) \in Dbs /\ Grown(View(i), d) /\ pc[i] \in InTx BY <1>13, <1>0, RecordGrown
  <2>2. CASE Committed(i, d) /\ pc'[i] = "file"
    <3> HIDE DEF d
    <3> QED BY <2>1, <2>2, <1>0, CommitGrows DEF InTx, Booting
  <2>3. CASE Ended(i) BY <2>3, <1>0, RestGrows DEF Ended, InTx, Booting
  <2> QED BY <2>2, <2>3, <1>13, <1>0, RecordForm
<1>14. ASSUME NEW i \in Instances, Install(i) PROVE Growing
  <2>1. Others(i) /\ db' = db /\ pc[i] \notin InTx
    BY <1>14, <1>0 DEF TypeOK, Install, Goto, At, Begin, Others, InTx, Booting
  <2> QED BY <2>1, <1>0, RestGrows
<1>15. ASSUME NEW i \in Instances, Stop(i) PROVE Growing
  <2>1. Ended(i) BY <1>15, <1>0, EndForm DEF Stop, Fail
  <2> QED BY <2>1, <1>0, RestGrows DEF Ended, InTx, Booting
<1>16. ASSUME NEW i \in Instances, Fault(i) PROVE Growing
  <2>1. Ended(i) BY <1>16, <1>0, EndForm DEF Fault, Fail
  <2> QED BY <2>1, <1>0, RestGrows DEF Ended, InTx, Booting
<1>17. ASSUME NEW i \in Instances, LoseLock(i) PROVE Growing
  <2>1. \A k \in Instances : View(k)' = View(k) BY <1>17, <1>0, ViewNext DEF LoseLock, procs, View, Transactional, Engine
  <2> QED BY <2>1, <1>17, <1>0, ViewForm, GrownRefl DEF TypeOK, Growing, LoseLock
<1>18. ASSUME UNCHANGED vars PROVE Growing
  <2>1. \A k \in Instances : View(k)' = View(k) BY <1>18, <1>0, ViewNext DEF vars, procs, View, Transactional, Engine
  <2> QED BY <2>1, <1>18, <1>0, ViewForm, GrownRefl DEF TypeOK, Growing, vars
<1> QED BY <1>1, <1>2, <1>3, <1>4, <1>5, <1>6, <1>7, <1>8, <1>9, <1>10, <1>11, <1>12, <1>13, <1>14, <1>15, <1>16, <1>17, <1>18 DEF Next, Step

LEMMA TypeNext == TypeOK' <=>
  /\ db' \in Dbs
  /\ installation' \in Instances \cup {NoOne}
  /\ lock' \in Instances \cup {NoOne}
  /\ writer' \in Instances \cup {NoOne}
  /\ pc' \in [Instances -> Labels]
  /\ at' \in [Instances -> (1 .. Len(Body) + 1) \X Nat]
  /\ seen' \in [Instances -> SUBSET (Versions \X Checksums)]
  /\ work' \in [Instances -> Dbs \cup {NoWork}]
  /\ faults' \in 0 .. MaxFaults /\ lost' \in 0 .. MaxLost
BY DEF TypeOK, Dbs, Labels

LEMMA DownType == ASSUME TypeOK, NEW i \in Instances, Down(i), UNCHANGED <<db, installation, lost>>, faults' \in 0 .. MaxFaults
  PROVE TypeOK'
<1>1. 1 \in 1 .. Len(Body) + 1 BY BodyForm
<1>2. at' \in [Instances -> (1 .. Len(Body) + 1) \X Nat] BY <1>1 DEF TypeOK, Down, At
<1> QED BY <1>2, TypeNext DEF TypeOK, Down, Goto, Labels

LEMMA WriteType ==
  ASSUME TypeOK, NEW i \in Instances, NEW d \in Dbs, Write(i, d), NEW p \in Labels, NEW v \in 1 .. Len(Body) + 1, NEW j \in Nat,
         pc' = pc \/ pc' = [pc EXCEPT ![i] = p],
         at' = at \/ at' = [at EXCEPT ![i] = <<v, j>>],
         UNCHANGED <<installation, lock, writer, seen, faults, lost>>
  PROVE TypeOK'
<1>0. <<v, j>> \in (1 .. Len(Body) + 1) \X Nat OBVIOUS
<1>1. at' \in [Instances -> (1 .. Len(Body) + 1) \X Nat]
  <2> DEFINE P == (1 .. Len(Body) + 1) \X Nat
  <2>1. at \in [Instances -> P] /\ <<v, j>> \in P BY <1>0 DEF TypeOK
  <2> HIDE DEF P
  <2>2. at' \in [Instances -> P] BY <2>1
  <2> QED BY <2>2 DEF P
<1>2. pc' \in [Instances -> Labels] BY DEF TypeOK
<1>3. db' \in Dbs /\ work' \in [Instances -> Dbs \cup {NoWork}] BY DEF TypeOK, Write
<1> QED BY <1>1, <1>2, <1>3, TypeNext DEF TypeOK

LEMMA TypeStep == IInv /\ [Next]_vars => TypeOK'
<1> SUFFICES ASSUME IInv, [Next]_vars PROVE TypeOK' OBVIOUS
<1>0. TypeOK /\ Private /\ Position BY DEF IInv
<1>g. Growing /\ db' \in Dbs BY GrowStep DEF Growing, Grown
<1>b. 1 \in 1 .. Len(Body) + 1 BY BodyForm
<1>1. ASSUME NEW i \in Instances, Start(i) PROVE TypeOK'
  BY <1>1, <1>0, <1>g, <1>b, TypeNext, MigrationAssumption DEF Start, Goto, At, TypeOK, Labels
<1>2. ASSUME NEW i \in Instances, Lock(i) PROVE TypeOK'
  BY <1>2, <1>0, <1>g, <1>b, TypeNext, MigrationAssumption DEF Lock, Goto, At, LockFree, TypeOK, Labels
<1>3. ASSUME NEW i \in Instances, Inspect(i) PROVE TypeOK'
  <2>1. CASE Fail(i) BY <2>1, <1>0, DownType DEF Fail, TypeOK
  <2>2. CASE ~Fail(i)
    BY <2>2, <1>3, <1>0, TypeNext DEF TypeOK, Inspect, Goto, Labels
  <2> QED BY <2>1, <2>2
<1>4. ASSUME NEW i \in Instances, BeginBoot(i) PROVE TypeOK'
  BY <1>4, <1>0, <1>g, <1>b, TypeNext, MigrationAssumption DEF BeginBoot, Goto, At, Begin, TypeOK, Labels
<1>5. ASSUME NEW i \in Instances, BootPart(i) PROVE TypeOK'
  <2>1. CASE Fail(i) BY <2>1, <1>0, DownType DEF Fail, TypeOK
  <2>2. CASE ~Fail(i)
    <3> DEFINE d == WithPart(View(i), at[i][1])
    <3>1. d \in Dbs BY <1>5, <1>0, BootPartGrown DEF Grown
    <3>2. Write(i, d) /\ UNCHANGED <<installation, lock, writer, seen, faults, lost>>
      BY <2>2, <1>5 DEF BootPart, WithPart
    <3>3. CASE at[i][1] < Knows[i] /\ pc' = pc /\ at' = [at EXCEPT ![i] = <<at[i][1] + 1, 1>>]
      <4>1. at[i][1] + 1 \in 1 .. Len(Body) + 1 BY <3>3, <1>0, AtForm, KnowsForm, BodyForm
      <4> HIDE DEF d
      <4> QED BY <3>1, <3>2, <3>3, <4>1, <1>0, WriteType DEF TypeOK
    <3>4. CASE pc' = [pc EXCEPT ![i] = "bootLedger"] /\ at' = [at EXCEPT ![i] = <<1, 1>>]
      <4> HIDE DEF d
      <4> QED BY <3>1, <3>2, <3>4, <1>b, <1>0, WriteType DEF Labels
    <3> QED BY <3>3, <3>4, <2>2, <1>5 DEF BootPart, Goto, At
  <2> QED BY <2>1, <2>2
<1>6. ASSUME NEW i \in Instances, BootLedger(i) PROVE TypeOK'
  <2> DEFINE d == WithLedger(View(i))
  <2>1. d \in Dbs BY <1>6, <1>0, BootLedgerGrown DEF Grown
  <2>2. Write(i, d) /\ pc' = [pc EXCEPT ![i] = "bootRow"] /\ at' = at /\ UNCHANGED <<installation, lock, writer, seen, faults, lost>>
    BY <1>6 DEF BootLedger, WithLedger, Goto
  <2> HIDE DEF d
  <2> QED BY <2>1, <2>2, <1>0, <1>b, WriteType DEF Labels
<1>7. ASSUME NEW i \in Instances, BootRow(i) PROVE TypeOK'
  <2>1. CASE Fail(i) BY <2>1, <1>0, DownType DEF Fail, TypeOK
  <2>2. CASE ~Fail(i)
    <3> DEFINE d == WithRow(View(i), i, at[i][1])
    <3>1. d \in Dbs BY <1>7, <1>0, BootRowGrown DEF Grown
    <3>2. Write(i, d) /\ UNCHANGED <<installation, lock, writer, seen, faults, lost>>
      BY <2>2, <1>7 DEF BootRow, WithRow
    <3>3. CASE at[i][1] < Knows[i] /\ pc' = pc /\ at' = [at EXCEPT ![i] = <<at[i][1] + 1, 1>>]
      <4>1. at[i][1] + 1 \in 1 .. Len(Body) + 1 BY <3>3, <1>0, AtForm, KnowsForm, BodyForm
      <4> HIDE DEF d
      <4> QED BY <3>1, <3>2, <3>3, <4>1, <1>0, WriteType DEF TypeOK
    <3>4. CASE pc' = [pc EXCEPT ![i] = "bootCommit"] /\ at' = [at EXCEPT ![i] = <<1, 1>>]
      <4> HIDE DEF d
      <4> QED BY <3>1, <3>2, <3>4, <1>b, <1>0, WriteType DEF Labels
    <3> QED BY <3>3, <3>4, <2>2, <1>7 DEF BootRow, Goto, At
  <2> QED BY <2>1, <2>2
<1>8. ASSUME NEW i \in Instances, BootCommit(i) PROVE TypeOK'
  BY <1>8, <1>0, <1>g, <1>b, TypeNext, MigrationAssumption DEF BootCommit, Goto, At, Commit, TypeOK, Labels
<1>9. ASSUME NEW i \in Instances, CreateLedger(i) PROVE TypeOK'
  <2>1. pc' \in [Instances -> Labels] BY <1>9, <1>0 DEF CreateLedger, Goto, TypeOK, Labels
  <2> QED BY <2>1, <1>9, <1>0, <1>g, TypeNext DEF CreateLedger, TypeOK
<1>10. ASSUME NEW i \in Instances, ReadLedger(i) PROVE TypeOK'
  <2>1. pc' \in [Instances -> Labels] BY <1>10, <1>0 DEF ReadLedger, Goto, TypeOK, Labels
  <2>2. db.ledger \in SUBSET (Versions \X Checksums) BY <1>0 DEF TypeOK, Dbs
  <2>3. seen' \in [Instances -> SUBSET (Versions \X Checksums)] BY <2>2, <1>10, <1>0 DEF ReadLedger, TypeOK
  <2> QED BY <2>1, <2>3, <1>10, <1>0, <1>g, TypeNext DEF ReadLedger, TypeOK
<1>11. ASSUME NEW i \in Instances, File(i) PROVE TypeOK'
  <2>1. CASE Fail(i) BY <2>1, <1>0, DownType DEF Fail, TypeOK
  <2>2. CASE ~Fail(i)
    <3> DEFINE P == (1 .. Len(Body) + 1) \X Nat
    <3>a. at \in [Instances -> P] BY <1>0 DEF TypeOK
    <3>b. at' = at \/ (at[i][1] <= Knows[i] /\ at' = [at EXCEPT ![i] = <<at[i][1] + 1, 1>>])
      BY <2>2, <1>11 DEF File, At
    <3>c. at[i][1] <= Knows[i] => <<at[i][1] + 1, 1>> \in P BY <1>0, AtForm, KnowsForm, BodyForm
    <3>1. at' \in [Instances -> P]
      <4> HIDE DEF P
      <4> QED BY <3>a, <3>b, <3>c
    <3>2. pc' \in [Instances -> Labels] /\ work' \in [Instances -> Dbs \cup {NoWork}]
          /\ writer' \in Instances \cup {NoOne}
      BY <2>2, <1>11, <1>0 DEF TypeOK, File, Goto, Begin, Labels
    <3>3. UNCHANGED <<db, installation, lock, seen, faults, lost>> BY <2>2, <1>11 DEF File
    <3> QED BY <3>1, <3>2, <3>3, <1>0, TypeNext DEF TypeOK
  <2> QED BY <2>1, <2>2
<1>12. ASSUME NEW i \in Instances, Statement(i) PROVE TypeOK'
  <2>1. CASE Fail(i) BY <2>1, <1>0, DownType DEF Fail, TypeOK
  <2>2. CASE ~Fail(i)
    <3>1. After(View(i), at[i]) \in Dbs BY <1>12, <1>0, StatementGrown DEF Grown
    <3>2. /\ Write(i, After(View(i), at[i])) /\ pc' = pc /\ at' = [at EXCEPT ![i] = <<at[i][1], at[i][2] + 1>>]
          /\ UNCHANGED <<installation, lock, writer, seen, faults, lost>>
      BY <2>2, <1>12 DEF Statement, At
    <3>3. at[i][1] \in 1 .. Len(Body) + 1 /\ at[i][2] + 1 \in Nat BY <1>0, AtForm
    <3> QED BY <3>1, <3>2, <3>3, <1>0, WriteType DEF TypeOK
  <2> QED BY <2>1, <2>2
<1>13. ASSUME NEW i \in Instances, Record(i) PROVE TypeOK'
  <2>1. CASE Fail(i) BY <2>1, <1>0, DownType DEF Fail, TypeOK
  <2>2. CASE ~Fail(i)
    <3>1. /\ pc' = [pc EXCEPT ![i] = "file"] /\ at' = [at EXCEPT ![i] = <<at[i][1] + 1, 1>>]
          /\ work' = [work EXCEPT ![i] = NoWork] /\ writer' \in {NoOne, writer}
          /\ UNCHANGED <<installation, lock, seen, faults, lost>>
      BY <2>2, <1>13 DEF Record, Commit, Goto, At
    <3>2. at[i][1] + 1 \in 1 .. Len(Body) + 1
      BY <1>13, <1>0, RecordForm, KnowsForm, BodyForm DEF Position, PositionOf
    <3>3. at' \in [Instances -> (1 .. Len(Body) + 1) \X Nat] BY <3>1, <3>2, <1>0 DEF TypeOK
    <3> QED BY <3>1, <3>3, <1>0, <1>g, TypeNext DEF TypeOK, Labels
  <2> QED BY <2>1, <2>2
<1>14. ASSUME NEW i \in Instances, Install(i) PROVE TypeOK'
  BY <1>14, <1>0, <1>g, <1>b, TypeNext, MigrationAssumption DEF Install, Goto, At, Unlocked, InstallationOf, TypeOK, Labels
<1>15. ASSUME NEW i \in Instances, Stop(i) PROVE TypeOK'
  <2>1. Down(i) /\ UNCHANGED <<db, installation, lost>> BY <1>15 DEF Stop, Fail
  <2>2. faults' \in 0 .. MaxFaults BY <1>15, <1>0, MigrationAssumption DEF Stop, Fail, TypeOK
  <2> QED BY <2>1, <2>2, <1>0, DownType
<1>16. ASSUME NEW i \in Instances, Fault(i) PROVE TypeOK'
  <2>1. Down(i) /\ UNCHANGED <<db, installation, lost>> BY <1>16 DEF Fault, Fail
  <2>2. faults' \in 0 .. MaxFaults BY <1>16, <1>0, MigrationAssumption DEF Fault, Fail, TypeOK
  <2> QED BY <2>1, <2>2, <1>0, DownType
<1>17. ASSUME NEW i \in Instances, LoseLock(i) PROVE TypeOK'
  BY <1>17, <1>0, <1>g, <1>b, TypeNext, MigrationAssumption DEF LoseLock, Goto, At, procs, TypeOK, Labels
<1>18. ASSUME UNCHANGED vars PROVE TypeOK'
  BY <1>18, <1>0, <1>g, <1>b, TypeNext, MigrationAssumption DEF vars, procs, TypeOK, Labels
<1> QED BY <1>1, <1>2, <1>3, <1>4, <1>5, <1>6, <1>7, <1>8, <1>9, <1>10, <1>11, <1>12, <1>13, <1>14, <1>15, <1>16, <1>17, <1>18 DEF Next, Step

LEMMA BootPartView == ASSUME TypeOK, Private, Position, NEW i \in Instances, BootPart(i), ~Doubled(i)
  PROVE Wrote(i, WithPart(View(i), at[i][1])) /\ View(i)' = WithPart(View(i), at[i][1]) /\ View(i) \in Dbs
<1> DEFINE d == WithPart(View(i), at[i][1])
<1>1. Wrote(i, d) BY BootPartForm
<1>2. View(i) \in Dbs /\ Grown(View(i), d) /\ pc[i] \in InTx BY BootPartGrown
<1>3. View(i)' = d
  <2> HIDE DEF d
  <2> QED BY <1>1, <1>2, WriteGrows
<1> QED BY <1>1, <1>2, <1>3

LEMMA BootLedgerView == ASSUME TypeOK, Private, Position, NEW i \in Instances, BootLedger(i)
  PROVE Wrote(i, WithLedger(View(i))) /\ View(i)' = WithLedger(View(i)) /\ View(i) \in Dbs
<1> DEFINE d == WithLedger(View(i))
<1>1. Wrote(i, d) BY BootLedgerForm
<1>2. View(i) \in Dbs /\ Grown(View(i), d) /\ pc[i] \in InTx BY BootLedgerGrown
<1>3. View(i)' = d
  <2> HIDE DEF d
  <2> QED BY <1>1, <1>2, WriteGrows
<1> QED BY <1>1, <1>2, <1>3

LEMMA BootRowView == ASSUME TypeOK, Private, Position, NEW i \in Instances, BootRow(i), ~Recorded(View(i), at[i][1])
  PROVE Wrote(i, WithRow(View(i), i, at[i][1])) /\ View(i)' = WithRow(View(i), i, at[i][1]) /\ View(i) \in Dbs
<1> DEFINE d == WithRow(View(i), i, at[i][1])
<1>1. Wrote(i, d) BY BootRowForm
<1>2. View(i) \in Dbs /\ Grown(View(i), d) /\ pc[i] \in InTx BY BootRowGrown
<1>3. View(i)' = d
  <2> HIDE DEF d
  <2> QED BY <1>1, <1>2, WriteGrows
<1> QED BY <1>1, <1>2, <1>3

LEMMA StatementView == ASSUME TypeOK, Private, Position, NEW i \in Instances, Statement(i), ~Fails(View(i), at[i])
  PROVE Wrote(i, After(View(i), at[i])) /\ View(i)' = After(View(i), at[i]) /\ View(i) \in Dbs
<1> DEFINE d == After(View(i), at[i])
<1>1. Wrote(i, d) BY StatementStep
<1>2. View(i) \in Dbs /\ Grown(View(i), d) /\ pc[i] \in InTx BY StatementGrown
<1>3. View(i)' = d
  <2> HIDE DEF d
  <2> QED BY <1>1, <1>2, WriteGrows
<1> QED BY <1>1, <1>2, <1>3

LEMMA BootCommitForm == ASSUME TypeOK, NEW i \in Instances, BootCommit(i)
  PROVE /\ pc[i] = "bootCommit" /\ pc'[i] = "install" /\ at'[i] = at[i] /\ Others(i)
        /\ Committed(i, View(i)) /\ db' = View(i)
BY DEF TypeOK, BootCommit, Commit, Goto, Committed, Others

\* Of the other instances: what they have left behind is still there.
LEMMA OthersKeep == ASSUME Growing, NEW i \in Instances, Others(i), NEW k \in Instances \ {i}, pc[k] \in InTx
  PROVE View(k).schema \subseteq View(k)'.schema /\ View(k).ledger \subseteq View(k)'.ledger
        /\ (View(k).ledgerTable => View(k)'.ledgerTable)
<1>1. pc'[k] \in InTx BY DEF Others
<1> QED BY <1>1 DEF Growing, Grown

LEMMA LeftOthers == ASSUME Left, Growing, NEW i \in Instances, Others(i), LeftOf(i)' PROVE Left'
<1>1. ASSUME NEW k \in Instances \ {i} PROVE LeftOf(k)'
  <2>1. LeftOf(k) /\ pc'[k] = pc[k] /\ at'[k] = at[k] BY DEF Left, Others
  <2>2. pc[k] \in InTx => View(k).schema \subseteq View(k)'.schema BY OthersKeep
  <2> QED BY <2>1, <2>2 DEF LeftOf, InTx, Booting
<1> QED BY <1>1 DEF Left

LEMMA LeftVoid == ASSUME NEW i \in Instances, pc'[i] \notin InTx PROVE LeftOf(i)'
BY DEF LeftOf, InTx, Booting

LEMMA PartForm == ASSUME NEW v, NEW s
  PROVE s \in Part(v) <=> s \in Lasting /\ s[1] = v
BY DEF Part

LEMMA LastingForm == \A s \in Lasting : s \in Statements /\ Kind(s) \in {"table", "column", "rename"}
BY DEF Lasting

LEMMA LeftStep == IInv /\ [Next]_vars => Left'
<1> SUFFICES ASSUME IInv, [Next]_vars PROVE Left' OBVIOUS
<1>0. TypeOK /\ Private /\ Position /\ Left BY DEF IInv
<1>g. Growing BY GrowStep
<1>1. ASSUME NEW i \in Instances, Start(i) PROVE Left'
  <2>1. Others(i) /\ pc'[i] \notin InTx BY <1>1, <1>0 DEF TypeOK, Start, Goto, At, Others, InTx, Booting
  <2> QED BY <2>1, <1>0, <1>g, LeftOthers, LeftVoid
<1>2. ASSUME NEW i \in Instances, Lock(i) PROVE Left'
  <2>1. Others(i) /\ pc'[i] \notin InTx BY <1>2, <1>0 DEF TypeOK, Lock, Goto, At, Others, InTx, Booting
  <2> QED BY <2>1, <1>0, <1>g, LeftOthers, LeftVoid
<1>3. ASSUME NEW i \in Instances, Inspect(i) PROVE Left'
  <2>1. Others(i) /\ pc'[i] \notin InTx BY <1>3, <1>0, InspectForm DEF Ended, Moved, InTx, Booting
  <2> QED BY <2>1, <1>0, <1>g, LeftOthers, LeftVoid
<1>4. ASSUME NEW i \in Instances, BeginBoot(i) PROVE Left'
  <2>1. Others(i) /\ pc'[i] = "part" /\ at'[i] = at[i] /\ at[i] = <<1, 1>>
    BY <1>4, <1>0 DEF TypeOK, BeginBoot, Begin, Goto, Others, Position, PositionOf
  <2>2. LeftOf(i)' BY <2>1 DEF LeftOf, Booting
  <2> QED BY <2>1, <2>2, <1>0, <1>g, LeftOthers
<1>5. ASSUME NEW i \in Instances, BootPart(i) PROVE Left'
  <2>e. CASE Ended(i) BY <2>e, <1>0, <1>g, LeftOthers, LeftVoid DEF Ended, InTx, Booting
  <2>1. CASE ~Doubled(i)
    <3>1. View(i)' = WithPart(View(i), at[i][1]) /\ View(i) \in Dbs BY <2>1, <1>5, <1>0, BootPartView
    <3>2. View(i)'.schema = View(i).schema \cup Part(at[i][1]) BY <3>1, PartGrows
    <3>3. at[i][1] \in 1 .. Knows[i] /\ Knows[i] \in Nat /\ Others(i) /\ pc[i] = "part"
      BY <1>5, <1>0, BootPartForm, KnowsForm DEF Position, PositionOf
    <3>4. \A v \in 1 .. at[i][1] : Part(v) \subseteq View(i)'.schema
      BY <3>2, <3>3, <1>0 DEF Left, LeftOf
    <3>5. \/ pc'[i] = "part" /\ at'[i] = <<at[i][1] + 1, 1>>
          \/ at[i][1] = Knows[i] /\ pc'[i] = "bootLedger"
      BY <2>1, <3>3, <1>5, <1>0, BootPartForm DEF Ended
    <3>6. LeftOf(i)' BY <3>3, <3>4, <3>5 DEF LeftOf, Booting
    <3> QED BY <3>3, <3>6, <1>0, <1>g, LeftOthers
  <2> QED BY <2>e, <2>1, <1>5, <1>0, BootPartForm
<1>6. ASSUME NEW i \in Instances, BootLedger(i) PROVE Left'
  <2>1. View(i)' = WithLedger(View(i)) /\ View(i) \in Dbs BY <1>6, <1>0, BootLedgerView
  <2>2. View(i)'.schema = View(i).schema BY <2>1, TableGrows
  <2>3. Others(i) /\ pc[i] = "bootLedger" /\ pc'[i] = "bootRow" BY <1>6, <1>0, BootLedgerForm
  <2>4. LeftOf(i)' BY <2>2, <2>3, <1>0 DEF Left, LeftOf, Booting
  <2> QED BY <2>3, <2>4, <1>0, <1>g, LeftOthers
<1>7. ASSUME NEW i \in Instances, BootRow(i) PROVE Left'
  <2>e. CASE Ended(i) BY <2>e, <1>0, <1>g, LeftOthers, LeftVoid DEF Ended, InTx, Booting
  <2>1. CASE ~Recorded(View(i), at[i][1])
    <3>1. View(i)' = WithRow(View(i), i, at[i][1]) /\ View(i) \in Dbs BY <2>1, <1>7, <1>0, BootRowView
    <3>2. at[i][1] \in 1 .. Knows[i] /\ Others(i) /\ pc[i] = "bootRow"
      BY <1>7, <1>0, BootRowForm DEF Position, PositionOf
    <3>3. View(i)'.schema = View(i).schema BY <3>1, <3>2, RowGrows
    <3>4. pc'[i] \in {"bootRow", "bootCommit"} BY <2>1, <1>7, <1>0, BootRowForm DEF Ended
    <3>5. LeftOf(i)' BY <3>2, <3>3, <3>4, <1>0 DEF Left, LeftOf, Booting
    <3> QED BY <3>2, <3>5, <1>0, <1>g, LeftOthers
  <2> QED BY <2>e, <2>1, <1>7, <1>0, BootRowForm
<1>8. ASSUME NEW i \in Instances, BootCommit(i) PROVE Left'
  <2>1. Others(i) /\ pc'[i] \notin InTx BY <1>8, <1>0, BootCommitForm DEF InTx, Booting
  <2> QED BY <2>1, <1>0, <1>g, LeftOthers, LeftVoid
<1>9. ASSUME NEW i \in Instances, CreateLedger(i) PROVE Left'
  <2>1. Others(i) /\ pc'[i] \notin InTx BY <1>9, <1>0, CreateForm DEF InTx, Booting
  <2> QED BY <2>1, <1>0, <1>g, LeftOthers, LeftVoid
<1>10. ASSUME NEW i \in Instances, ReadLedger(i) PROVE Left'
  <2>1. Others(i) /\ pc'[i] \notin InTx BY <1>10, <1>0 DEF TypeOK, ReadLedger, Goto, At, Others, InTx, Booting
  <2> QED BY <2>1, <1>0, <1>g, LeftOthers, LeftVoid
<1>11. ASSUME NEW i \in Instances, File(i) PROVE Left'
  <2>e. CASE pc'[i] \notin InTx
    BY <2>e, <1>11, <1>0, <1>g, FileForm, LeftOthers, LeftVoid DEF Ended, Moved
  <2>1. CASE pc'[i] \in InTx
    <3>1. pc[i] = "file" /\ pc'[i] = "statement" /\ at'[i] = at[i] /\ Others(i)
      BY <2>1, <1>11, <1>0, FileForm DEF Ended, InTx, Booting
    <3>2. at[i][2] = 1 BY <3>1, <1>0 DEF Position, PositionOf
    <3>3. \A s \in Part(at[i][1]) : s[2] \in Nat /\ s[2] >= 1
      BY PartForm, LastingForm, StatementForm, BodyForm
    <3>4. LeftOf(i)' BY <3>1, <3>2, <3>3 DEF LeftOf, Booting
    <3> QED BY <3>1, <3>4, <1>0, <1>g, LeftOthers
  <2> QED BY <2>e, <2>1
<1>12. ASSUME NEW i \in Instances, Statement(i) PROVE Left'
  <2>e. CASE Ended(i) BY <2>e, <1>0, <1>g, LeftOthers, LeftVoid DEF Ended, InTx, Booting
  <2>1. CASE ~Fails(View(i), at[i])
    <3>1. View(i)' = After(View(i), at[i]) /\ View(i) \in Dbs BY <2>1, <1>12, <1>0, StatementView
    <3>2. at[i] \in Statements /\ pc[i] = "statement" BY <1>12, <1>0, StatementStep
    <3>3. View(i)'.schema = View(i).schema \cup (IF at[i] \in Lasting THEN {at[i]} ELSE {}) BY <3>1, <3>2, AfterGrows
    <3>4. pc'[i] = "statement" /\ at'[i] = <<at[i][1], at[i][2] + 1>> /\ Others(i)
      BY <2>1, <1>12, <1>0, StatementStep DEF Wrote
    <3>5. ASSUME NEW s \in Part(at[i][1]), s[2] < at[i][2] + 1 PROVE s \in View(i)'.schema
      <4>1. s[2] \in Nat /\ at[i][2] \in Nat /\ s = <<s[1], s[2]>> /\ at[i] = <<at[i][1], at[i][2]>> /\ s[1] = at[i][1] /\ s \in Lasting
        BY <3>2, <1>0, PartForm, LastingForm, StatementForm, BodyForm, AtForm
      <4>2. CASE s[2] < at[i][2] BY <4>2, <3>2, <3>3, <1>0 DEF Left, LeftOf
      <4>3. CASE s[2] = at[i][2]
        <5>1. s = at[i] BY <4>1, <4>3
        <5> QED BY <5>1, <4>1, <3>3
      <4> QED BY <4>1, <4>2, <4>3, <3>5
    <3>6. LeftOf(i)' BY <3>4, <3>5 DEF LeftOf, Booting
    <3> QED BY <3>4, <3>6, <1>0, <1>g, LeftOthers
  <2> QED BY <2>e, <2>1, <1>12, <1>0, StatementStep
<1>13. ASSUME NEW i \in Instances, Record(i) PROVE Left'
  <2>1. Others(i) /\ pc'[i] \notin InTx BY <1>13, <1>0, RecordForm DEF Ended, InTx, Booting
  <2> QED BY <2>1, <1>0, <1>g, LeftOthers, LeftVoid
<1>14. ASSUME NEW i \in Instances, Install(i) PROVE Left'
  <2>1. Others(i) /\ pc'[i] \notin InTx BY <1>14, <1>0 DEF TypeOK, Install, Goto, At, Others, InTx, Booting
  <2> QED BY <2>1, <1>0, <1>g, LeftOthers, LeftVoid
<1>15. ASSUME NEW i \in Instances, Stop(i) PROVE Left'
  <2>1. Others(i) /\ pc'[i] \notin InTx BY <1>15, <1>0, EndForm DEF Stop, Fail, Ended, InTx, Booting
  <2> QED BY <2>1, <1>0, <1>g, LeftOthers, LeftVoid
<1>16. ASSUME NEW i \in Instances, Fault(i) PROVE Left'
  <2>1. Others(i) /\ pc'[i] \notin InTx BY <1>16, <1>0, EndForm DEF Fault, Fail, Ended, InTx, Booting
  <2> QED BY <2>1, <1>0, <1>g, LeftOthers, LeftVoid
<1>17. ASSUME NEW i \in Instances, LoseLock(i) PROVE Left'
  <2>1. Others(i) /\ pc' = pc /\ at' = at BY <1>17 DEF LoseLock, procs, Others
  <2>2. \A k \in Instances : pc[k] \in InTx => View(k).schema \subseteq View(k)'.schema BY <2>1, <1>g DEF Growing, Grown
  <2>3. \A k \in Instances : LeftOf(k)' BY <2>1, <2>2, <1>0 DEF Left, LeftOf, InTx, Booting
  <2> QED BY <2>3 DEF Left
<1>18. ASSUME UNCHANGED vars PROVE Left'
  <2>1. pc' = pc /\ at' = at BY <1>18 DEF vars
  <2>2. \A k \in Instances : pc[k] \in InTx => View(k).schema \subseteq View(k)'.schema BY <2>1, <1>g DEF Growing, Grown
  <2>3. \A k \in Instances : LeftOf(k)' BY <2>1, <2>2, <1>0 DEF Left, LeftOf, InTx, Booting
  <2> QED BY <2>3 DEF Left
<1> QED BY <1>1, <1>2, <1>3, <1>4, <1>5, <1>6, <1>7, <1>8, <1>9, <1>10, <1>11, <1>12, <1>13, <1>14, <1>15, <1>16, <1>17, <1>18 DEF Next, Step

\* Writes keep a ledger truthful; a row is, once its migration's tables are there.
LEMMA WritesTrue == ASSUME NEW d \in Dbs, LedgerOf(d)
  PROVE /\ \A v : LedgerOf(WithPart(d, v))
        /\ LedgerOf(WithLedger(d))
        /\ \A s \in Statements : LedgerOf(After(d, s))
        /\ \A i \in Instances : \A v \in 1 .. Knows[i] : Part(v) \subseteq d.schema => LedgerOf(WithRow(d, i, v))
<1>1. ASSUME NEW v PROVE LedgerOf(WithPart(d, v)) BY PartGrows DEF LedgerOf
<1>2. LedgerOf(WithLedger(d)) BY TableGrows DEF LedgerOf
<1>3. ASSUME NEW s \in Statements PROVE LedgerOf(After(d, s)) BY AfterGrows DEF LedgerOf
<1>4. ASSUME NEW i \in Instances, NEW v \in 1 .. Knows[i], Part(v) \subseteq d.schema PROVE LedgerOf(WithRow(d, i, v))
  <2>1. WithRow(d, i, v).ledger = d.ledger \cup {<<v, Text[i][v]>>} /\ WithRow(d, i, v).schema = d.schema BY RowGrows
  <2> QED BY <2>1, <1>4 DEF LedgerOf
<1> QED BY <1>1, <1>2, <1>3, <1>4

LEMMA TruthfulNext == Truthful' <=>
  LedgerOf(db') /\ \A k \in Instances : pc'[k] \in InTx => LedgerOf(View(k)')
BY DEF Truthful, LedgerOf

LEMMA TruthfulOthers ==
  ASSUME TypeOK, Private, Truthful, Growing, NEW i \in Instances, Others(i), LedgerOf(db'),
         pc'[i] \in InTx => LedgerOf(View(i)')
  PROVE Truthful'
<1>1. db'.engine = db.engine BY DEF Growing, Grown
<1>2. ASSUME NEW k \in Instances \ {i}, pc'[k] \in InTx PROVE LedgerOf(View(k)')
  <2>1. View(k)' = View(k) \/ View(k)' = db' BY <1>1, ViewNext DEF View, Others, Transactional, Engine
  <2>2. LedgerOf(View(k)) BY <1>2 DEF Truthful, Others
  <2> QED BY <2>1, <2>2
<1> QED BY <1>2, TruthfulNext

\* A write of i.
LEMMA TruthfulWrite ==
  ASSUME TypeOK, Private, Truthful, Growing, NEW i \in Instances, NEW d, Wrote(i, d), View(i)' = d, LedgerOf(d)
  PROVE Truthful'
<1>1. db' = db \/ db' = d BY DEF Wrote
<1>2. LedgerOf(db') BY <1>1 DEF Truthful
<1> QED BY <1>2, TruthfulOthers DEF Wrote

LEMMA TruthfulRest ==
  ASSUME TypeOK, Private, Truthful, Growing, NEW i \in Instances, Others(i), db' = db, pc'[i] \notin InTx
  PROVE Truthful'
<1>1. LedgerOf(db') BY DEF Truthful
<1> QED BY <1>1, TruthfulOthers

\* At the end of its file, a migration has left everything behind.
LEMMA WholeAtEnd ==
  ASSUME TypeOK, Position, Left, NEW i \in Instances, pc[i] = "statement", at[i] \notin Statements
  PROVE at[i][1] \in 1 .. Knows[i] /\ at[i][2] = Len(Body[at[i][1]]) + 1 /\ Part(at[i][1]) \subseteq View(i).schema
<1>1. at[i][1] \in 1 .. Knows[i] /\ at[i][2] \in 1 .. Len(Body[at[i][1]]) + 1 BY DEF Position, PositionOf
<1>2. at[i][1] \in Versions /\ Len(Body[at[i][1]]) \in Nat BY <1>1, KnowsForm, BodyForm
<1>a. at[i] = <<at[i][1], at[i][2]>> /\ at[i][2] \in Nat BY AtForm
<1>b. at[i][2] \notin 1 .. Len(Body[at[i][1]]) BY <1>a, <1>2, StatementForm
<1>3. at[i][2] = Len(Body[at[i][1]]) + 1
  <2> DEFINE n == Len(Body[at[i][1]])
             j == at[i][2]
  <2>1. n \in Nat /\ j \in Nat /\ j \notin 1 .. n /\ j \in 1 .. n + 1 BY <1>1, <1>2, <1>a, <1>b
  <2> HIDE DEF n, j
  <2>2. j = n + 1 BY <2>1
  <2> QED BY <2>2 DEF n, j
<1>4. \A s \in Part(at[i][1]) : s[2] \in 1 .. Len(Body[at[i][1]]) BY PartForm, LastingForm, StatementForm
<1>5. \A s \in Part(at[i][1]) : s[2] < at[i][2] BY <1>2, <1>3, <1>4
<1> QED BY <1>1, <1>3, <1>5 DEF Left, LeftOf

LEMMA TruthfulStep == IInv /\ [Next]_vars => Truthful'
<1> SUFFICES ASSUME IInv, [Next]_vars PROVE Truthful' OBVIOUS
<1>0. TypeOK /\ Private /\ Position /\ Left /\ Truthful BY DEF IInv
<1>g. Growing BY GrowStep
<1>1. ASSUME NEW i \in Instances, Start(i) PROVE Truthful'
  <2>1. Others(i) /\ db' = db /\ pc'[i] \notin InTx BY <1>1, <1>0 DEF TypeOK, Start, Goto, At, Others, InTx, Booting
  <2> QED BY <2>1, <1>0, <1>g, TruthfulRest
<1>2. ASSUME NEW i \in Instances, Lock(i) PROVE Truthful'
  <2>1. Others(i) /\ db' = db /\ pc'[i] \notin InTx BY <1>2, <1>0 DEF TypeOK, Lock, Goto, At, Others, InTx, Booting
  <2> QED BY <2>1, <1>0, <1>g, TruthfulRest
<1>3. ASSUME NEW i \in Instances, Inspect(i) PROVE Truthful'
  <2>1. Others(i) /\ db' = db /\ pc'[i] \notin InTx BY <1>3, <1>0, InspectForm DEF Ended, Moved, InTx, Booting
  <2> QED BY <2>1, <1>0, <1>g, TruthfulRest
<1>4. ASSUME NEW i \in Instances, BeginBoot(i) PROVE Truthful'
  <2>1. Others(i) /\ db' = db /\ Begin(i) BY <1>4, <1>0 DEF TypeOK, BeginBoot, Begin, Goto, Others
  <2>2. View(i)' = db BY <2>1, <1>0, ViewNext DEF TypeOK, Begin, Transactional, Engine
  <2> QED BY <2>1, <2>2, <1>0, <1>g, TruthfulOthers DEF Truthful
<1>5. ASSUME NEW i \in Instances, BootPart(i) PROVE Truthful'
  <2>e. CASE Ended(i) BY <2>e, <1>0, <1>g, TruthfulRest DEF Ended, InTx, Booting
  <2>1. CASE ~Doubled(i)
    <3>1. Wrote(i, WithPart(View(i), at[i][1])) /\ View(i)' = WithPart(View(i), at[i][1]) /\ View(i) \in Dbs BY <2>1, <1>5, <1>0, BootPartView
    <3>2. pc[i] = "part" /\ LedgerOf(View(i)) BY <1>5, <1>0, BootPartForm DEF Truthful, InTx, Booting
    <3>4. LedgerOf(WithPart(View(i), at[i][1])) BY <3>1, <3>2, WritesTrue
    <3> QED BY <3>1, <3>4, <1>0, <1>g, TruthfulWrite
  <2> QED BY <2>e, <2>1, <1>5, <1>0, BootPartForm
<1>6. ASSUME NEW i \in Instances, BootLedger(i) PROVE Truthful'
  <2>1. CASE TRUE
    <3>1. Wrote(i, WithLedger(View(i))) /\ View(i)' = WithLedger(View(i)) /\ View(i) \in Dbs BY <2>1, <1>6, <1>0, BootLedgerView
    <3>2. pc[i] = "bootLedger" /\ LedgerOf(View(i)) BY <1>6, <1>0, BootLedgerForm DEF Truthful, InTx, Booting
    <3>4. LedgerOf(WithLedger(View(i))) BY <3>1, <3>2, WritesTrue
    <3> QED BY <3>1, <3>4, <1>0, <1>g, TruthfulWrite
  <2> QED BY <2>1, <1>6, <1>0, BootLedgerForm
<1>7. ASSUME NEW i \in Instances, BootRow(i) PROVE Truthful'
  <2>e. CASE Ended(i) BY <2>e, <1>0, <1>g, TruthfulRest DEF Ended, InTx, Booting
  <2>1. CASE ~Recorded(View(i), at[i][1])
    <3>1. Wrote(i, WithRow(View(i), i, at[i][1])) /\ View(i)' = WithRow(View(i), i, at[i][1]) /\ View(i) \in Dbs BY <2>1, <1>7, <1>0, BootRowView
    <3>2. pc[i] = "bootRow" /\ LedgerOf(View(i)) BY <1>7, <1>0, BootRowForm DEF Truthful, InTx, Booting
    <3>3. at[i][1] \in 1 .. Knows[i] /\ Part(at[i][1]) \subseteq View(i).schema
      BY <3>2, <1>0 DEF Position, PositionOf, Left, LeftOf, Booting
    <3>4. LedgerOf(WithRow(View(i), i, at[i][1])) BY <3>3, <3>1, <3>2, WritesTrue
    <3> QED BY <3>1, <3>4, <1>0, <1>g, TruthfulWrite
  <2> QED BY <2>e, <2>1, <1>7, <1>0, BootRowForm
<1>8. ASSUME NEW i \in Instances, BootCommit(i) PROVE Truthful'
  <2>1. Others(i) /\ db' = View(i) /\ pc[i] = "bootCommit" /\ pc'[i] = "install" BY <1>8, <1>0, BootCommitForm
  <2>2. LedgerOf(db') BY <2>1, <1>0 DEF Truthful, InTx, Booting
  <2> QED BY <2>1, <2>2, <1>0, <1>g, TruthfulOthers DEF InTx, Booting
<1>9. ASSUME NEW i \in Instances, CreateLedger(i) PROVE Truthful'
  <2>1. Others(i) /\ db' = WithLedger(db) /\ pc'[i] = "read" BY <1>9, <1>0, CreateForm
  <2>2. LedgerOf(db') BY <2>1, <1>0, WritesTrue DEF Truthful, TypeOK
  <2> QED BY <2>1, <2>2, <1>0, <1>g, TruthfulOthers DEF InTx, Booting
<1>10. ASSUME NEW i \in Instances, ReadLedger(i) PROVE Truthful'
  <2>1. Others(i) /\ db' = db /\ pc'[i] \notin InTx BY <1>10, <1>0 DEF TypeOK, ReadLedger, Goto, At, Others, InTx, Booting
  <2> QED BY <2>1, <1>0, <1>g, TruthfulRest
<1>11. ASSUME NEW i \in Instances, File(i) PROVE Truthful'
  <2>1. Others(i) /\ db' = db BY <1>11, <1>0, FileForm DEF Ended, Moved
  <2>2. CASE pc'[i] \notin InTx BY <2>1, <2>2, <1>0, <1>g, TruthfulRest
  <2>3. CASE pc'[i] \in InTx
    <3>1. Begin(i) BY <2>3, <1>11, <1>0, FileForm DEF Ended, InTx, Booting
    <3>2. View(i)' = db BY <2>1, <3>1, <1>0, ViewNext DEF TypeOK, Begin, Transactional, Engine
    <3> QED BY <2>1, <3>2, <1>0, <1>g, TruthfulOthers DEF Truthful
  <2> QED BY <2>2, <2>3
<1>12. ASSUME NEW i \in Instances, Statement(i) PROVE Truthful'
  <2>e. CASE Ended(i) BY <2>e, <1>0, <1>g, TruthfulRest DEF Ended, InTx, Booting
  <2>1. CASE ~Fails(View(i), at[i])
    <3>1. Wrote(i, After(View(i), at[i])) /\ View(i)' = After(View(i), at[i]) /\ View(i) \in Dbs BY <2>1, <1>12, <1>0, StatementView
    <3>2. pc[i] = "statement" /\ LedgerOf(View(i)) BY <1>12, <1>0, StatementStep DEF Truthful, InTx, Booting
    <3>3. at[i] \in Statements BY <1>12, <1>0, StatementStep
    <3>4. LedgerOf(After(View(i), at[i])) BY <3>3, <3>1, <3>2, WritesTrue
    <3> QED BY <3>1, <3>4, <1>0, <1>g, TruthfulWrite
  <2> QED BY <2>e, <2>1, <1>12, <1>0, StatementStep
<1>13. ASSUME NEW i \in Instances, Record(i) PROVE Truthful'
  <2>e. CASE Ended(i) BY <2>e, <1>0, <1>g, TruthfulRest DEF Ended, InTx, Booting
  <2>1. CASE ~Recorded(View(i), at[i][1])
    <3> DEFINE d == WithRow(View(i), i, at[i][1])
    <3>1. pc[i] = "statement" /\ at[i] \notin Statements BY <1>13, <1>0, RecordForm
    <3>2. Committed(i, d) /\ pc'[i] = "file" BY <2>1, <1>13, <1>0, RecordForm DEF Ended
    <3>3. View(i) \in Dbs /\ LedgerOf(View(i)) BY <3>1, <1>0, ViewForm DEF Truthful, InTx, Booting
    <3>4. LedgerOf(d) BY <3>1, <3>3, <1>0, WholeAtEnd, WritesTrue
    <3> HIDE DEF d
    <3> QED BY <3>2, <3>4, <1>0, <1>g, TruthfulOthers DEF Committed, InTx, Booting
  <2> QED BY <2>e, <2>1, <1>13, <1>0, RecordForm
<1>14. ASSUME NEW i \in Instances, Install(i) PROVE Truthful'
  <2>1. Others(i) /\ db' = db /\ pc'[i] \notin InTx BY <1>14, <1>0 DEF TypeOK, Install, Goto, At, Others, InTx, Booting
  <2> QED BY <2>1, <1>0, <1>g, TruthfulRest
<1>15. ASSUME NEW i \in Instances, Stop(i) PROVE Truthful'
  <2>1. Others(i) /\ db' = db /\ pc'[i] \notin InTx BY <1>15, <1>0, EndForm DEF Stop, Fail, Ended, InTx, Booting
  <2> QED BY <2>1, <1>0, <1>g, TruthfulRest
<1>16. ASSUME NEW i \in Instances, Fault(i) PROVE Truthful'
  <2>1. Others(i) /\ db' = db /\ pc'[i] \notin InTx BY <1>16, <1>0, EndForm DEF Fault, Fail, Ended, InTx, Booting
  <2> QED BY <2>1, <1>0, <1>g, TruthfulRest
<1>17. ASSUME NEW i \in Instances, LoseLock(i) PROVE Truthful'
  <2>1. db' = db /\ pc' = pc /\ \A k \in Instances : View(k)' = View(k)
    BY <1>17, ViewNext DEF LoseLock, procs, View, Transactional, Engine
  <2> QED BY <2>1, <1>0, TruthfulNext DEF Truthful
<1>18. ASSUME UNCHANGED vars PROVE Truthful'
  <2>1. db' = db /\ pc' = pc /\ \A k \in Instances : View(k)' = View(k)
    BY <1>18, ViewNext DEF vars, View, Transactional, Engine
  <2> QED BY <2>1, <1>0, TruthfulNext DEF Truthful
<1> QED BY <1>1, <1>2, <1>3, <1>4, <1>5, <1>6, <1>7, <1>8, <1>9, <1>10, <1>11, <1>12, <1>13, <1>14, <1>15, <1>16, <1>17, <1>18 DEF Next, Step

LEMMA NotedNext == \A k \in Instances : NotedOf(k)' <=>
  /\ seen'[k] \subseteq db'.ledger
  /\ pc'[k] = "bootRow" => \A v \in 1 .. at'[k][1] - 1 : Has(View(k)', k, v)
  /\ pc'[k] = "bootCommit" => \A v \in 1 .. Knows[k] : Has(View(k)', k, v)
  /\ pc'[k] \in {"file", "statement"} => \A v \in 1 .. at'[k][1] - 1 : Has(db', k, v)
  /\ pc'[k] \in {"install", "serving"} => \A v \in 1 .. Knows[k] : Has(db', k, v)
  /\ pc'[k] = "serving" => installation' # NoOne
BY DEF NotedOf, Has

LEMMA HasGrows == ASSUME NEW d, NEW e, d.ledger \subseteq e.ledger, NEW i, NEW v, Has(d, i, v) PROVE Has(e, i, v)
BY DEF Has

LEMMA HasRow == ASSUME NEW d \in Dbs, NEW i \in Instances, NEW v \in 1 .. Knows[i]
  PROVE Has(WithRow(d, i, v), i, v) /\ \A w \in Nat : Has(d, i, w) => Has(WithRow(d, i, v), i, w)
<1>1. WithRow(d, i, v).ledger = d.ledger \cup {<<v, Text[i][v]>>} BY RowGrows
<1>2. <<v, Text[i][v]>> \in WithRow(d, i, v).ledger /\ d.ledger \subseteq WithRow(d, i, v).ledger BY <1>1
<1>3. Has(WithRow(d, i, v), i, v)
  <2> DEFINE row == <<v, Text[i][v]>>
  <2>1. row[1] = v /\ row[2] = Text[i][v] OBVIOUS
  <2> QED BY <1>2, <2>1 DEF Has
<1> QED BY <1>2, <1>3, HasGrows

LEMMA NotedOthers ==
  ASSUME Noted, Growing, NEW i \in Instances, Others(i), NotedOf(i)',
         installation # NoOne => installation' # NoOne
  PROVE Noted'
<1>0. db.ledger \subseteq db'.ledger BY DEF Growing, Grown
<1>1. ASSUME NEW k \in Instances \ {i} PROVE NotedOf(k)'
  <2>1. NotedOf(k) /\ pc'[k] = pc[k] /\ at'[k] = at[k] /\ seen'[k] = seen[k] BY DEF Noted, Others
  <2>2. \A v : Has(db, k, v) => Has(db', k, v) BY <1>0, HasGrows
  <2>3. pc[k] \in InTx => \A v : Has(View(k), k, v) => Has(View(k)', k, v) BY OthersKeep, HasGrows
  <2> QED BY <1>0, <2>1, <2>2, <2>3, NotedNext DEF NotedOf, InTx, Booting
<1> QED BY <1>1 DEF Noted

\* Where nothing needs to be noted.
LEMMA NotedVoid ==
  ASSUME Noted, Growing, NEW i \in Instances, seen'[i] \subseteq seen[i],
         pc'[i] \in {"down", "lock", "inspect", "boot", "part", "bootLedger", "ledger", "read"}
  PROVE NotedOf(i)'
<1>1. seen'[i] \subseteq db'.ledger BY DEF Noted, NotedOf, Growing, Grown
<1> QED BY <1>1, NotedNext

LEMMA NotedStep == IInv /\ [Next]_vars => Noted'
<1> SUFFICES ASSUME IInv, [Next]_vars PROVE Noted' OBVIOUS
<1>0. TypeOK /\ Private /\ Position /\ Noted BY DEF IInv
<1>g. Growing /\ db.ledger \subseteq db'.ledger BY GrowStep DEF Growing, Grown
<1>1. ASSUME NEW i \in Instances, Start(i) PROVE Noted'
  <2>1. Others(i) /\ seen'[i] \subseteq seen[i] /\ installation' = installation BY <1>1, <1>0 DEF TypeOK, Start, Goto, Others
  <2>2. pc'[i] \in {"down", "lock", "inspect", "boot", "part", "bootLedger", "ledger", "read"} BY <1>1, <1>0 DEF TypeOK, Start, Goto, Others
  <2> QED BY <2>1, <2>2, <1>0, <1>g, NotedOthers, NotedVoid
<1>2. ASSUME NEW i \in Instances, Lock(i) PROVE Noted'
  <2>1. Others(i) /\ seen'[i] \subseteq seen[i] /\ installation' = installation BY <1>2, <1>0 DEF TypeOK, Lock, Goto, Others
  <2>2. pc'[i] \in {"down", "lock", "inspect", "boot", "part", "bootLedger", "ledger", "read"} BY <1>2, <1>0 DEF TypeOK, Lock, Goto, Others
  <2> QED BY <2>1, <2>2, <1>0, <1>g, NotedOthers, NotedVoid
<1>3. ASSUME NEW i \in Instances, Inspect(i) PROVE Noted'
  <2>1. Others(i) /\ seen'[i] \subseteq seen[i] /\ installation' = installation BY <1>3, <1>0, InspectForm DEF Ended, Moved
  <2>2. pc'[i] \in {"down", "lock", "inspect", "boot", "part", "bootLedger", "ledger", "read"} BY <1>3, <1>0, InspectForm DEF Ended, Moved
  <2> QED BY <2>1, <2>2, <1>0, <1>g, NotedOthers, NotedVoid
<1>4. ASSUME NEW i \in Instances, BeginBoot(i) PROVE Noted'
  <2>1. Others(i) /\ seen'[i] \subseteq seen[i] /\ installation' = installation BY <1>4, <1>0 DEF TypeOK, BeginBoot, Begin, Goto, Others
  <2>2. pc'[i] \in {"down", "lock", "inspect", "boot", "part", "bootLedger", "ledger", "read"} BY <1>4, <1>0 DEF TypeOK, BeginBoot, Begin, Goto, Others
  <2> QED BY <2>1, <2>2, <1>0, <1>g, NotedOthers, NotedVoid
<1>5. ASSUME NEW i \in Instances, BootPart(i) PROVE Noted'
  <2>e. CASE Ended(i) BY <2>e, <1>0, <1>g, NotedOthers, NotedVoid DEF Ended
  <2>1. CASE Wrote(i, WithPart(View(i), at[i][1]))
    <3>1. Others(i) /\ seen'[i] = seen[i] /\ installation' = installation BY <2>1 DEF Wrote
    <3>2. pc'[i] \in {"down", "part", "bootLedger"} BY <1>5, <1>0, BootPartForm DEF Ended
    <3> QED BY <3>1, <3>2, <1>0, <1>g, NotedOthers, NotedVoid
  <2> QED BY <2>e, <2>1, <1>5, <1>0, BootPartForm
<1>6. ASSUME NEW i \in Instances, BootLedger(i) PROVE Noted'
  <2>1. Wrote(i, WithLedger(View(i))) /\ pc[i] = "bootLedger" /\ pc'[i] = "bootRow" /\ at'[i] = at[i]
    BY <1>6, <1>0, BootLedgerForm
  <2>2. Others(i) /\ seen'[i] = seen[i] /\ installation' = installation BY <2>1 DEF Wrote
  <2>3. at'[i][1] = 1 BY <2>1, <1>0 DEF Position, PositionOf
  <2>4. seen'[i] \subseteq db'.ledger BY <2>2, <1>0, <1>g DEF Noted, NotedOf
  <2>5. NotedOf(i)' BY <2>1, <2>3, <2>4, NotedNext
  <2> QED BY <2>2, <2>5, <1>0, <1>g, NotedOthers
<1>7. ASSUME NEW i \in Instances, BootRow(i) PROVE Noted'
  <2>e. CASE Ended(i) BY <2>e, <1>0, <1>g, NotedOthers, NotedVoid DEF Ended
  <2>1. CASE ~Recorded(View(i), at[i][1])
    <3> DEFINE v == at[i][1]
    <3>1. Wrote(i, WithRow(View(i), i, v)) /\ View(i)' = WithRow(View(i), i, v) /\ View(i) \in Dbs
      BY <2>1, <1>7, <1>0, BootRowView
    <3>2. pc[i] = "bootRow" /\ v \in 1 .. Knows[i] /\ Knows[i] \in Nat
      BY <1>7, <1>0, BootRowForm, KnowsForm DEF Position, PositionOf
    <3>3. Others(i) /\ seen'[i] = seen[i] /\ installation' = installation BY <3>1 DEF Wrote
    <3>4. \A w \in 1 .. v : Has(View(i)', i, w)
      <4>1. \A w \in 1 .. v - 1 : Has(View(i), i, w) BY <3>2, <1>0 DEF Noted, NotedOf
      <4>2. \A w \in 1 .. v - 1 : Has(View(i)', i, w) BY <4>1, <3>1, <3>2, HasRow
      <4>3. Has(View(i)', i, v) BY <3>1, <3>2, HasRow
      <4> QED BY <4>2, <4>3, <3>2
    <3>5. \/ pc'[i] = "bootRow" /\ at'[i] = <<v + 1, 1>>
          \/ v = Knows[i] /\ pc'[i] = "bootCommit"
      BY <2>1, <3>2, <1>7, <1>0, BootRowForm
    <3>6. seen'[i] \subseteq db'.ledger BY <3>3, <1>0, <1>g DEF Noted, NotedOf
    <3>7. CASE pc'[i] = "bootRow" /\ at'[i] = <<v + 1, 1>>
      <4>1. 1 .. at'[i][1] - 1 = 1 .. v BY <3>2, <3>7
      <4>2. NotedOf(i)' BY <3>4, <3>6, <3>7, <4>1, NotedNext
      <4> QED BY <3>3, <4>2, <1>0, <1>g, NotedOthers
    <3>8. CASE v = Knows[i] /\ pc'[i] = "bootCommit"
      <4>2. NotedOf(i)' BY <3>4, <3>6, <3>8, NotedNext
      <4> QED BY <3>3, <4>2, <1>0, <1>g, NotedOthers
    <3> QED BY <3>5, <3>7, <3>8
  <2> QED BY <2>e, <2>1, <1>7, <1>0, BootRowForm
<1>8. ASSUME NEW i \in Instances, BootCommit(i) PROVE Noted'
  <2>1. pc[i] = "bootCommit" /\ pc'[i] = "install" /\ Others(i) /\ Committed(i, View(i)) /\ db' = View(i)
    BY <1>8, <1>0, BootCommitForm
  <2>2. seen'[i] = seen[i] /\ installation' = installation BY <2>1 DEF Committed
  <2>3. seen'[i] \subseteq db'.ledger BY <2>2, <1>0, <1>g DEF Noted, NotedOf
  <2>4. \A v \in 1 .. Knows[i] : Has(db', i, v) BY <2>1, <1>0 DEF Noted, NotedOf
  <2>5. NotedOf(i)' BY <2>1, <2>3, <2>4, NotedNext
  <2> QED BY <2>1, <2>2, <2>5, <1>0, <1>g, NotedOthers
<1>9. ASSUME NEW i \in Instances, CreateLedger(i) PROVE Noted'
  <2>1. Others(i) /\ seen'[i] \subseteq seen[i] /\ installation' = installation BY <1>9, <1>0, CreateForm
  <2>2. pc'[i] \in {"down", "lock", "inspect", "boot", "part", "bootLedger", "ledger", "read"} BY <1>9, <1>0, CreateForm
  <2> QED BY <2>1, <2>2, <1>0, <1>g, NotedOthers, NotedVoid
<1>10. ASSUME NEW i \in Instances, ReadLedger(i) PROVE Noted'
  <2>1. pc[i] = "read" /\ pc'[i] = "file" /\ at'[i] = at[i] /\ Others(i) /\ seen'[i] = db.ledger /\ installation' = installation
    BY <1>10, <1>0 DEF TypeOK, ReadLedger, Goto, Others
  <2>2. at'[i][1] = 1 BY <2>1, <1>0 DEF Position, PositionOf
  <2>3. NotedOf(i)' BY <2>1, <2>2, <1>g, NotedNext
  <2> QED BY <2>1, <2>3, <1>0, <1>g, NotedOthers
<1>11. ASSUME NEW i \in Instances, File(i) PROVE Noted'
  <2>e. CASE Ended(i) BY <2>e, <1>0, <1>g, NotedOthers, NotedVoid DEF Ended
  <2> DEFINE v == at[i][1]
  <2>0. pc[i] = "file" /\ v \in Nat /\ v >= 1 /\ v <= Knows[i] + 1 /\ Knows[i] \in Nat
    BY <1>11, <1>0, FileForm, KnowsForm DEF Position, PositionOf
  <2>1. CASE ~Ended(i)
    <3>1. Others(i) /\ db' = db /\ seen'[i] = seen[i] /\ installation' = installation
      BY <2>1, <1>11, <1>0, FileForm DEF Moved
    <3>2. seen'[i] \subseteq db'.ledger BY <3>1, <1>0 DEF Noted, NotedOf
    <3>3. \A w \in 1 .. v - 1 : Has(db', i, w) BY <2>0, <3>1, <1>0 DEF Noted, NotedOf
    <3>4. CASE v > Knows[i] /\ pc'[i] = "install"
      <4>1. 1 .. Knows[i] = 1 .. v - 1 BY <2>0, <3>4
      <4>2. NotedOf(i)' BY <3>2, <3>3, <3>4, <4>1, NotedNext
      <4> QED BY <3>1, <4>2, <1>0, <1>g, NotedOthers
    <3>5. CASE (\E row \in seen[i] : row[1] = v) /\ Same(i, v) /\ pc'[i] = "file" /\ at'[i] = <<v + 1, 1>>
      <4>1. PICK row \in seen[i] : row[1] = v BY <3>5
      <4>2. row \in db'.ledger /\ (row[2] = Text[i][v] \/ <<row[2], Text[i][v]>> \in SameText)
        BY <4>1, <3>1, <3>2, <3>5 DEF Same
      <4>3. Has(db', i, v) BY <4>1, <4>2 DEF Has
      <4>4. \A w \in 1 .. at'[i][1] - 1 : Has(db', i, w)
        <5>1. \A w \in 1 .. at'[i][1] - 1 : w = v \/ w \in 1 .. v - 1 BY <2>0, <3>5
        <5> QED BY <5>1, <4>3, <3>3
      <4>5. NotedOf(i)' BY <3>2, <3>5, <4>4, NotedNext
      <4> QED BY <3>1, <4>5, <1>0, <1>g, NotedOthers
    <3>6. CASE pc'[i] = "statement" /\ at'[i] = at[i]
      <4>1. NotedOf(i)' BY <3>2, <3>3, <3>6, NotedNext
      <4> QED BY <3>1, <4>1, <1>0, <1>g, NotedOthers
    <3> QED BY <3>4, <3>5, <3>6, <2>1, <1>11, <1>0, FileForm
  <2> QED BY <2>e, <2>1
<1>12. ASSUME NEW i \in Instances, Statement(i) PROVE Noted'
  <2>e. CASE Ended(i) BY <2>e, <1>0, <1>g, NotedOthers, NotedVoid DEF Ended
  <2>1. CASE Wrote(i, After(View(i), at[i])) /\ pc'[i] = "statement" /\ at'[i] = <<at[i][1], at[i][2] + 1>>
    <3>1. Others(i) /\ seen'[i] = seen[i] /\ installation' = installation BY <2>1 DEF Wrote
    <3>2. pc[i] = "statement" BY <1>12, <1>0, StatementStep
    <3>3. seen'[i] \subseteq db'.ledger BY <3>1, <1>0, <1>g DEF Noted, NotedOf
    <3>4. \A v \in 1 .. at[i][1] - 1 : Has(db', i, v) BY <3>2, <1>0, <1>g, HasGrows DEF Noted, NotedOf
    <3>5. NotedOf(i)' BY <2>1, <3>3, <3>4, NotedNext
    <3> QED BY <3>1, <3>5, <1>0, <1>g, NotedOthers
  <2> QED BY <2>e, <2>1, <1>12, <1>0, StatementStep
<1>13. ASSUME NEW i \in Instances, Record(i) PROVE Noted'
  <2>e. CASE Ended(i) BY <2>e, <1>0, <1>g, NotedOthers, NotedVoid DEF Ended
  <2>1. CASE ~Recorded(View(i), at[i][1])
    <3> DEFINE v == at[i][1]
               d == WithRow(View(i), i, v)
    <3>1. pc[i] = "statement" /\ v \in 1 .. Knows[i] /\ Knows[i] \in Nat
      BY <1>13, <1>0, RecordForm, KnowsForm DEF Position, PositionOf
    <3>2. Committed(i, d) /\ pc'[i] = "file" /\ at'[i] = <<v + 1, 1>> BY <2>1, <1>13, <1>0, RecordForm DEF Ended
    <3>3. db' = d /\ Others(i) /\ seen'[i] = seen[i] /\ installation' = installation
      <4> HIDE DEF d
      <4> QED BY <3>2 DEF Committed
    <3>4. View(i) \in Dbs BY <3>1, <1>0, ViewForm DEF InTx, Booting
    <3>5. Has(db', i, v) BY <3>1, <3>3, <3>4, HasRow
    <3> HIDE DEF d
    <3>6. seen'[i] \subseteq db'.ledger BY <3>3, <1>0, <1>g DEF Noted, NotedOf
    <3>7. \A w \in 1 .. v - 1 : Has(db', i, w) BY <3>1, <1>0, <1>g, HasGrows DEF Noted, NotedOf
    <3>8. \A w \in 1 .. at'[i][1] - 1 : Has(db', i, w)
      <4>1. \A w \in 1 .. at'[i][1] - 1 : w = v \/ w \in 1 .. v - 1 BY <3>1, <3>2
      <4> QED BY <4>1, <3>5, <3>7
    <3>9. NotedOf(i)' BY <3>2, <3>6, <3>8, NotedNext
    <3> QED BY <3>3, <3>9, <1>0, <1>g, NotedOthers
  <2> QED BY <2>e, <2>1, <1>13, <1>0, RecordForm
<1>14. ASSUME NEW i \in Instances, Install(i) PROVE Noted'
  <2>1. /\ pc[i] = "install" /\ pc'[i] = "serving" /\ Others(i) /\ db' = db /\ seen'[i] = {}
        /\ installation' = InstallationOf(i)
    BY <1>14, <1>0 DEF TypeOK, Install, Goto, At, Others
  <2>2. installation' # NoOne BY <2>1, MigrationAssumption DEF InstallationOf
  <2>3. \A v \in 1 .. Knows[i] : Has(db', i, v) BY <2>1, <1>0 DEF Noted, NotedOf
  <2>4. NotedOf(i)' BY <2>1, <2>2, <2>3, NotedNext
  <2> QED BY <2>1, <2>2, <2>4, <1>0, <1>g, NotedOthers
<1>15. ASSUME NEW i \in Instances, Stop(i) PROVE Noted'
  <2>1. Others(i) /\ seen'[i] \subseteq seen[i] /\ installation' = installation BY <1>15, <1>0, EndForm DEF Stop, Fail, Ended
  <2>2. pc'[i] \in {"down", "lock", "inspect", "boot", "part", "bootLedger", "ledger", "read"} BY <1>15, <1>0, EndForm DEF Stop, Fail, Ended
  <2> QED BY <2>1, <2>2, <1>0, <1>g, NotedOthers, NotedVoid
<1>16. ASSUME NEW i \in Instances, Fault(i) PROVE Noted'
  <2>1. Others(i) /\ seen'[i] \subseteq seen[i] /\ installation' = installation BY <1>16, <1>0, EndForm DEF Fault, Fail, Ended
  <2>2. pc'[i] \in {"down", "lock", "inspect", "boot", "part", "bootLedger", "ledger", "read"} BY <1>16, <1>0, EndForm DEF Fault, Fail, Ended
  <2> QED BY <2>1, <2>2, <1>0, <1>g, NotedOthers, NotedVoid
<1>17. ASSUME NEW i \in Instances, LoseLock(i) PROVE Noted'
  <2>1. pc' = pc /\ at' = at /\ seen' = seen /\ db' = db /\ installation' = installation /\ \A k \in Instances : View(k)' = View(k)
    BY <1>17, ViewNext DEF LoseLock, procs, View, Transactional, Engine
  <2>2. \A k \in Instances : NotedOf(k)' BY <2>1, <1>0, NotedNext DEF Noted, NotedOf
  <2> QED BY <2>2 DEF Noted
<1>18. ASSUME UNCHANGED vars PROVE Noted'
  <2>1. pc' = pc /\ at' = at /\ seen' = seen /\ db' = db /\ installation' = installation /\ \A k \in Instances : View(k)' = View(k)
    BY <1>18, ViewNext DEF vars, View, Transactional, Engine
  <2>2. \A k \in Instances : NotedOf(k)' BY <2>1, <1>0, NotedNext DEF Noted, NotedOf
  <2> QED BY <2>2 DEF Noted
<1> QED BY <1>1, <1>2, <1>3, <1>4, <1>5, <1>6, <1>7, <1>8, <1>9, <1>10, <1>11, <1>12, <1>13, <1>14, <1>15, <1>16, <1>17, <1>18 DEF Next, Step

LEMMA TablesNext == Tables' <=>
  /\ \A k \in Instances : LedgerThere(k)'
  /\ db'.engine = "postgres" => db'.foreign \/ db'.ledgerTable \/ db'.schema = {}
  /\ db'.engine = "mysql" /\ faults' = 0 /\ ~db'.foreign /\ ~db'.ledgerTable =>
       \A v \in Versions : Last(v)' => \E k \in Instances : GoesOn(k, v)'
BY DEF Tables, Engine, Last, GoesOn, LedgerThere

LEMMA ThereOthers == ASSUME Tables, Growing, NEW i \in Instances, Others(i), LedgerThere(i)'
  PROVE \A k \in Instances : LedgerThere(k)'
<1>1. ASSUME NEW k \in Instances \ {i} PROVE LedgerThere(k)'
  <2>1. LedgerThere(k) /\ pc'[k] = pc[k] BY DEF Tables, Others
  <2>2. db.ledgerTable => db'.ledgerTable BY DEF Growing, Grown
  <2>3. pc[k] \in InTx /\ View(k).ledgerTable => View(k)'.ledgerTable BY OthersKeep
  <2> QED BY <2>1, <2>2, <2>3 DEF LedgerThere, InTx, Booting
<1> QED BY <1>1

\* Once there is a ledger.
LEMMA TablesLedger == ASSUME Tables, Growing, NEW i \in Instances, Others(i), LedgerThere(i)', db'.ledgerTable
  PROVE Tables'
BY ThereOthers, TablesNext

\* Nothing is written, and nobody leaves a bootstrap; or what is written is not committed.
LEMMA TablesRest ==
  ASSUME Tables, Growing, NEW i \in Instances, Others(i), LedgerThere(i)', db' = db,
         (faults' = faults /\ pc[i] \notin {"part", "bootLedger"}) \/ faults' # 0 \/ Transactional
  PROVE Tables'
<1>1. \A k \in Instances : LedgerThere(k)' BY ThereOthers
<1>2. ASSUME db.engine = "mysql", faults' = 0, ~db.foreign, ~db.ledgerTable, NEW v \in Versions, Last(v)'
      PROVE \E k \in Instances : GoesOn(k, v)'
  <2>1. faults = 0 /\ pc[i] \notin {"part", "bootLedger"} BY <1>2 DEF Transactional, Engine
  <2>2. Last(v) BY <1>2 DEF Last
  <2>3. PICK k \in Instances : GoesOn(k, v) BY <1>2, <2>1, <2>2 DEF Tables, Engine
  <2>4. k # i /\ pc'[k] = pc[k] /\ at'[k] = at[k] BY <2>1, <2>3 DEF GoesOn, Others
  <2> QED BY <2>3, <2>4 DEF GoesOn
<1> QED BY <1>1, <1>2, TablesNext DEF Tables, Engine

\* A part of schema.sql is created on MySQL, where no ledger is yet.
LEMMA TablesPart ==
  ASSUME TypeOK, Private, Position, Tables, Growing, NEW i \in Instances, BootPart(i), ~Doubled(i), ~Transactional, ~db.ledgerTable
  PROVE Tables'
<1> DEFINE v == at[i][1]
<1>0. View(i)' = WithPart(View(i), v) /\ View(i) \in Dbs /\ Wrote(i, WithPart(View(i), v)) BY BootPartView
<1>1. db' = WithPart(db, v) /\ View(i) = db /\ Others(i) /\ faults' = faults
  BY <1>0 DEF Wrote, View
<1>2. pc[i] = "part" /\ v \in 1 .. Knows[i] /\ v \in Nat /\ Knows[i] \in Nat /\ v \in Versions
  BY BootPartForm, KnowsForm DEF Position, PositionOf
<1>3. db'.schema = db.schema \cup Part(v) BY <1>0, <1>1, PartGrows
<1>4. pc'[i] = "bootLedger" \/ (pc'[i] = "part" /\ at'[i] = <<v + 1, 1>>) BY BootPartForm DEF Ended
<1>5. LedgerThere(i)' BY <1>4 DEF LedgerThere
<1>6. db'.engine = "mysql" /\ db'.foreign = db.foreign /\ db'.ledgerTable = db.ledgerTable
  <2>1. db'.ledgerTable = db.ledgerTable BY <1>0, <1>1, PartGrows
  <2> QED BY <2>1 DEF Growing, Grown, Transactional, Engine
<1>7. ASSUME faults' = 0, ~db.foreign, NEW w \in Versions, Last(w)' PROVE \E k \in Instances : GoesOn(k, w)'
  <2>1. Part(w) \cap db'.schema # {} /\ \A u \in Versions : u > w => Part(u) \cap db'.schema = {} BY <1>7 DEF Last
  <2>2. Part(v) \cap db'.schema # {} BY <1>2, <1>3, BodiesAssumption
  <2>3. w \in Nat /\ ~(v > w) BY <1>2, <2>1, <2>2, BodyForm
  <2>4. CASE w = v
    <3>1. GoesOn(i, w)' BY <1>2, <1>4, <2>4 DEF GoesOn
    <3> QED BY <3>1
  <2>5. CASE w > v
    <3>1. Part(w) \cap Part(v) = {} BY <1>2, <2>5, PartForm
    <3>2. Last(w) BY <1>3, <2>1, <3>1 DEF Last
    <3>3. PICK k \in Instances : GoesOn(k, w)
      BY <1>1, <1>6, <1>7, <3>2 DEF Tables, Engine, Transactional
    <3>4. CASE k = i
      <4>1. v > w BY <3>3, <3>4, <1>2 DEF GoesOn
      <4> QED BY <4>1, <2>3
    <3>5. CASE k # i
      <4>1. GoesOn(k, w)' BY <3>3, <3>5, <1>1 DEF GoesOn, Others
      <4> QED BY <4>1
    <3> QED BY <3>4, <3>5
  <2> QED BY <2>3, <2>4, <2>5, <1>2
<1> QED BY <1>1, <1>5, <1>6, <1>7, ThereOthers, TablesNext

LEMMA TablesStep == IInv /\ [Next]_vars => Tables'
<1> SUFFICES ASSUME IInv, [Next]_vars PROVE Tables' OBVIOUS
<1>0. TypeOK /\ Private /\ Position /\ Tables BY DEF IInv
<1>g. Growing /\ (db.ledgerTable => db'.ledgerTable) BY GrowStep DEF Growing, Grown
<1>1. ASSUME NEW i \in Instances, Start(i) PROVE Tables'
  <2>1. Others(i) /\ db' = db /\ faults' = faults /\ pc[i] \notin {"part", "bootLedger"}
    BY <1>1, <1>0 DEF TypeOK, Start, Goto, Others
  <2>2. LedgerThere(i)' BY <1>1, <1>0 DEF Tables, LedgerThere, TypeOK, Start, Goto, Others
  <2> QED BY <2>1, <2>2, <1>0, <1>g, TablesRest
<1>2. ASSUME NEW i \in Instances, Lock(i) PROVE Tables'
  <2>1. Others(i) /\ db' = db /\ faults' = faults /\ pc[i] \notin {"part", "bootLedger"}
    BY <1>2, <1>0 DEF TypeOK, Lock, Goto, Others
  <2>2. LedgerThere(i)' BY <1>2, <1>0 DEF Tables, LedgerThere, TypeOK, Lock, Goto, Others
  <2> QED BY <2>1, <2>2, <1>0, <1>g, TablesRest
<1>3. ASSUME NEW i \in Instances, Inspect(i) PROVE Tables'
  <2>1. Others(i) /\ db' = db /\ faults' = faults /\ pc[i] \notin {"part", "bootLedger"}
    BY <1>3, <1>0, InspectForm DEF Ended, Moved
  <2>2. LedgerThere(i)' BY <1>3, <1>0, InspectForm DEF Tables, LedgerThere, Ended, Moved
  <2> QED BY <2>1, <2>2, <1>0, <1>g, TablesRest
<1>4. ASSUME NEW i \in Instances, BeginBoot(i) PROVE Tables'
  <2>1. Others(i) /\ db' = db /\ faults' = faults /\ pc[i] \notin {"part", "bootLedger"}
    BY <1>4, <1>0 DEF TypeOK, BeginBoot, Begin, Goto, Others
  <2>2. LedgerThere(i)' BY <1>4, <1>0 DEF Tables, LedgerThere, TypeOK, BeginBoot, Begin, Goto, Others
  <2> QED BY <2>1, <2>2, <1>0, <1>g, TablesRest
<1>5. ASSUME NEW i \in Instances, BootPart(i) PROVE Tables'
  <2>1. CASE Doubled(i)
    <3>1. Ended(i) /\ faults' = faults /\ pc[i] = "part" BY <2>1, <1>5, <1>0, BootPartForm
    <3>2. LedgerThere(i)' BY <3>1 DEF Ended, LedgerThere
    <3>3. \A k \in Instances : LedgerThere(k)' BY <3>1, <3>2, <1>0, <1>g, ThereOthers DEF Ended
    <3>4. db' = db /\ View(i) = db /\ at[i][1] = Knows[i] /\ Part(Knows[i]) \subseteq db.schema /\ Knows[i] \in Versions
      BY <2>1, <3>1, KnowsForm DEF Doubled, Ended, View, Transactional, Engine
    <3>5. ASSUME faults = 0, ~db.foreign, ~db.ledgerTable, NEW v \in Versions, Last(v)' PROVE \E k \in Instances : GoesOn(k, v)'
      <4>1. Last(v) BY <3>4, <3>5 DEF Last
      <4>2. PICK k \in Instances : GoesOn(k, v) BY <2>1, <3>5, <4>1, <1>0 DEF Tables, Doubled
      <4>3. Part(Knows[i]) \cap db.schema # {} BY <3>4, BodiesAssumption
      <4>4. ~(Knows[i] > v) BY <3>4, <4>1, <4>3 DEF Last
      <4>5. k # i BY <3>1, <3>4, <4>2, <4>4 DEF GoesOn
      <4>6. GoesOn(k, v)' BY <4>2, <4>5, <3>1 DEF GoesOn, Ended, Others
      <4> QED BY <4>6
    <3> QED BY <3>1, <3>3, <3>4, <3>5, <1>0, TablesNext DEF Tables, Engine
  <2>2. CASE ~Doubled(i)
    <3>1. pc[i] = "part" /\ pc'[i] \in {"part", "bootLedger"} /\ Others(i) BY <2>2, <1>5, <1>0, BootPartForm DEF Ended
    <3>2. LedgerThere(i)' BY <3>1 DEF LedgerThere
    <3>3. CASE db.ledgerTable BY <3>1, <3>2, <3>3, <1>0, <1>g, TablesLedger
    <3>4. CASE Transactional
      <4>1. Wrote(i, WithPart(View(i), at[i][1])) BY <2>2, <1>5, <1>0, BootPartForm
      <4>2. db' = db BY <3>4, <4>1 DEF Wrote
      <4> QED BY <3>1, <3>2, <3>4, <4>2, <1>0, <1>g, TablesRest
    <3>5. CASE ~db.ledgerTable /\ ~Transactional BY <2>2, <3>5, <1>5, <1>0, <1>g, TablesPart
    <3> QED BY <3>3, <3>4, <3>5
  <2> QED BY <2>1, <2>2
<1>6. ASSUME NEW i \in Instances, BootLedger(i) PROVE Tables'
  <2>1. View(i)' = WithLedger(View(i)) /\ View(i) \in Dbs /\ Wrote(i, WithLedger(View(i))) BY <1>6, <1>0, BootLedgerView
  <2>2. View(i)'.ledgerTable BY <2>1, TableGrows
  <2>3. Others(i) /\ pc[i] = "bootLedger" /\ pc'[i] = "bootRow" BY <1>6, <1>0, BootLedgerForm
  <2>4. LedgerThere(i)' BY <2>2, <2>3 DEF LedgerThere
  <2>5. CASE Transactional BY <2>1, <2>3, <2>4, <2>5, <1>0, <1>g, TablesRest DEF Wrote
  <2>6. CASE ~Transactional
    <3>1. db' = WithLedger(View(i)) BY <2>1, <2>6 DEF Wrote
    <3>2. db'.ledgerTable BY <3>1, <2>1, <2>2
    <3> QED BY <2>3, <2>4, <3>2, <1>0, <1>g, TablesLedger
  <2> QED BY <2>5, <2>6
<1>7. ASSUME NEW i \in Instances, BootRow(i) PROVE Tables'
  <2>0. pc[i] = "bootRow" /\ View(i).ledgerTable /\ Others(i)
    BY <1>7, <1>0, BootRowForm DEF Tables, LedgerThere
  <2>e. CASE Ended(i) /\ faults' = faults
    <3>1. LedgerThere(i)' BY <2>e DEF Ended, LedgerThere
    <3> QED BY <2>0, <2>e, <3>1, <1>0, <1>g, TablesRest DEF Ended
  <2>1. CASE ~Recorded(View(i), at[i][1])
    <3> DEFINE d == WithRow(View(i), i, at[i][1])
    <3>1. Wrote(i, d) /\ View(i)' = d /\ View(i) \in Dbs BY <2>1, <1>7, <1>0, BootRowView
    <3>2. Grown(View(i), d) BY <1>7, <1>0, BootRowGrown
    <3> HIDE DEF d
    <3>3. d.ledgerTable BY <2>0, <3>2 DEF Grown
    <3>4. pc'[i] \in {"bootRow", "bootCommit"} BY <2>1, <1>7, <1>0, BootRowForm
    <3>5. LedgerThere(i)' BY <3>1, <3>3, <3>4 DEF LedgerThere
    <3>6. (db' = db /\ Transactional) \/ db' = d BY <3>1 DEF Wrote
    <3> QED BY <2>0, <3>3, <3>5, <3>6, <1>0, <1>g, TablesLedger, TablesRest
  <2> QED BY <2>e, <2>1, <1>7, <1>0, BootRowForm
<1>8. ASSUME NEW i \in Instances, BootCommit(i) PROVE Tables'
  <2>1. pc[i] = "bootCommit" /\ pc'[i] = "install" /\ Others(i) /\ db' = View(i) BY <1>8, <1>0, BootCommitForm
  <2>2. db'.ledgerTable BY <2>1, <1>0 DEF Tables, LedgerThere
  <2>3. LedgerThere(i)' BY <2>1 DEF LedgerThere
  <2> QED BY <2>1, <2>2, <2>3, <1>0, <1>g, TablesLedger
<1>9. ASSUME NEW i \in Instances, CreateLedger(i) PROVE Tables'
  <2>1. Others(i) /\ pc'[i] = "read" /\ db' = WithLedger(db) BY <1>9, <1>0, CreateForm
  <2>2. db'.ledgerTable BY <2>1, <1>0, TableGrows DEF TypeOK
  <2>3. LedgerThere(i)' BY <2>1, <2>2 DEF LedgerThere
  <2> QED BY <2>1, <2>2, <2>3, <1>0, <1>g, TablesLedger
<1>10. ASSUME NEW i \in Instances, ReadLedger(i) PROVE Tables'
  <2>1. Others(i) /\ db' = db /\ faults' = faults /\ pc[i] \notin {"part", "bootLedger"}
    BY <1>10, <1>0 DEF TypeOK, ReadLedger, Goto, Others
  <2>2. LedgerThere(i)' BY <1>10, <1>0 DEF Tables, LedgerThere, TypeOK, ReadLedger, Goto, Others
  <2> QED BY <2>1, <2>2, <1>0, <1>g, TablesRest
<1>11. ASSUME NEW i \in Instances, File(i) PROVE Tables'
  <2>1. Others(i) /\ db' = db /\ faults' = faults /\ pc[i] \notin {"part", "bootLedger"}
    BY <1>11, <1>0, FileForm DEF Ended, Moved
  <2>2. LedgerThere(i)' BY <1>11, <1>0, FileForm DEF Tables, LedgerThere, Ended, Moved
  <2> QED BY <2>1, <2>2, <1>0, <1>g, TablesRest
<1>12. ASSUME NEW i \in Instances, Statement(i) PROVE Tables'
  <2>1. pc[i] = "statement" /\ Others(i) BY <1>12, <1>0, StatementStep DEF Ended, Wrote
  <2>2. db'.ledgerTable BY <2>1, <1>0, <1>g DEF Tables, LedgerThere
  <2>3. pc'[i] \notin {"bootRow", "bootCommit"} BY <1>12, <1>0, StatementStep DEF Ended
  <2>4. LedgerThere(i)' BY <2>2, <2>3 DEF LedgerThere
  <2> QED BY <2>1, <2>2, <2>4, <1>0, <1>g, TablesLedger
<1>13. ASSUME NEW i \in Instances, Record(i) PROVE Tables'
  <2>1. pc[i] = "statement" /\ Others(i) BY <1>13, <1>0, RecordForm DEF Ended, Wrote
  <2>2. db'.ledgerTable BY <2>1, <1>0, <1>g DEF Tables, LedgerThere
  <2>3. pc'[i] \notin {"bootRow", "bootCommit"} BY <1>13, <1>0, RecordForm DEF Ended
  <2>4. LedgerThere(i)' BY <2>2, <2>3 DEF LedgerThere
  <2> QED BY <2>1, <2>2, <2>4, <1>0, <1>g, TablesLedger
<1>14. ASSUME NEW i \in Instances, Install(i) PROVE Tables'
  <2>1. Others(i) /\ db' = db /\ faults' = faults /\ pc[i] \notin {"part", "bootLedger"}
    BY <1>14, <1>0 DEF TypeOK, Install, At, Goto, Others
  <2>2. LedgerThere(i)' BY <1>14, <1>0 DEF Tables, LedgerThere, TypeOK, Install, At, Goto, Others
  <2> QED BY <2>1, <2>2, <1>0, <1>g, TablesRest
<1>15. ASSUME NEW i \in Instances, Stop(i) PROVE Tables'
  <2>1. Others(i) /\ db' = db /\ faults' = faults /\ pc[i] \notin {"part", "bootLedger"}
    BY <1>15, <1>0, FailForm DEF Stop, Ended
  <2>2. LedgerThere(i)' BY <1>15, <1>0, FailForm DEF Tables, LedgerThere, Stop, Ended
  <2> QED BY <2>1, <2>2, <1>0, <1>g, TablesRest
<1>16. ASSUME NEW i \in Instances, Fault(i) PROVE Tables'
  <2>1. Ended(i) /\ faults' # 0 BY <1>16, <1>0, EndForm DEF Fault, TypeOK
  <2>2. LedgerThere(i)' BY <2>1 DEF Ended, LedgerThere
  <2> QED BY <2>1, <2>2, <1>0, <1>g, TablesRest DEF Ended
<1>17. ASSUME NEW i \in Instances, LoseLock(i) PROVE Tables'
  <2>1. pc' = pc /\ at' = at /\ faults' = faults /\ db' = db /\ \A k \in Instances : View(k)' = View(k)
    BY <1>17, ViewNext DEF LoseLock, procs, View, Transactional, Engine
  <2>2. \A k \in Instances : LedgerThere(k)' BY <2>1, <1>0 DEF Tables, LedgerThere
  <2>3. \A v : Last(v)' <=> Last(v) BY <2>1 DEF Last
  <2>4. \A k, v : GoesOn(k, v)' <=> GoesOn(k, v) BY <2>1 DEF GoesOn
  <2> QED BY <2>1, <2>2, <2>3, <2>4, <1>0, TablesNext DEF Tables, Engine
<1>18. ASSUME UNCHANGED vars PROVE Tables'
  <2>1. pc' = pc /\ at' = at /\ faults' = faults /\ db' = db /\ \A k \in Instances : View(k)' = View(k)
    BY <1>18, ViewNext DEF vars, View, Transactional, Engine
  <2>2. \A k \in Instances : LedgerThere(k)' BY <2>1, <1>0 DEF Tables, LedgerThere
  <2>3. \A v : Last(v)' <=> Last(v) BY <2>1 DEF Last
  <2>4. \A k, v : GoesOn(k, v)' <=> GoesOn(k, v) BY <2>1 DEF GoesOn
  <2> QED BY <2>1, <2>2, <2>3, <2>4, <1>0, TablesNext DEF Tables, Engine
<1> QED BY <1>1, <1>2, <1>3, <1>4, <1>5, <1>6, <1>7, <1>8, <1>9, <1>10, <1>11, <1>12, <1>13, <1>14, <1>15, <1>16, <1>17, <1>18 DEF Next, Step

LEMMA TemporaryNext == Temporary' <=>
  /\ db'.engine # "mysql" =>
       db'.temp = {} /\ \A k \in Instances : pc'[k] \in InTx => \A v \in work'[k].temp : Owns(k, v)'
  /\ db'.engine = "mysql" /\ faults' = 0 => \A v \in db'.temp : \E k \in Instances : Owns(k, v)'
BY DEF Temporary, Owns, Transactional, Engine

LEMMA TemporaryOthers ==
  ASSUME Temporary, Growing, NEW i \in Instances, Others(i),
         Transactional => db'.temp = {} /\ (pc'[i] \in InTx => \A v \in work'[i].temp : Owns(i, v)'),
         ~Transactional /\ faults' = 0 =>
           faults = 0 /\ \A v \in db'.temp : (v \in db.temp /\ ~Owns(i, v)) \/ Owns(i, v)'
  PROVE Temporary'
<1>0. db'.engine = db.engine BY DEF Growing, Grown
<1>1. ASSUME NEW k \in Instances \ {i}, NEW v PROVE Owns(k, v)' <=> Owns(k, v) BY DEF Owns, Others
<1>2. ASSUME Transactional, NEW k \in Instances, pc'[k] \in InTx, NEW v \in work'[k].temp PROVE Owns(k, v)'
  <2>1. CASE k = i BY <1>2, <2>1
  <2>2. CASE k # i
    <3>1. work'[k] = work[k] /\ pc'[k] = pc[k] BY <2>2 DEF Others
    <3>2. Owns(k, v) BY <1>2, <3>1 DEF Temporary
    <3> QED BY <1>1, <2>2, <3>2
  <2> QED BY <2>1, <2>2
<1>3. ASSUME ~Transactional, faults' = 0, NEW v \in db'.temp PROVE \E k \in Instances : Owns(k, v)'
  <2>1. CASE Owns(i, v)' BY <2>1
  <2>2. CASE v \in db.temp /\ ~Owns(i, v)
    <3>1. PICK k \in Instances : Owns(k, v) BY <1>3, <2>2 DEF Temporary
    <3> QED BY <1>1, <2>2, <3>1
  <2> QED BY <1>3, <2>1, <2>2
<1> QED BY <1>0, <1>2, <1>3, TemporaryNext DEF Transactional, Engine

\* Statement j of a migration is over.
LEMMA ReplacingStep == ASSUME NEW v \in Versions, NEW j \in 1 .. Len(Body[v])
  PROVE /\ Body[v][j] = "create" => Replacing(v, j + 1) /\ ~Replacing(v, j)
        /\ Replacing(v, j) /\ Body[v][j] # "rename" => Replacing(v, j + 1)
<1>0. Len(Body[v]) \in Nat /\ j \in Nat /\ j >= 1 BY BodyForm
<1>1. ASSUME Body[v][j] = "create" PROVE Replacing(v, j + 1)
  <2>1. j \in 1 .. (j + 1) - 1 /\ \A l \in j + 1 .. (j + 1) - 1 : FALSE BY <1>0
  <2> QED BY <1>1, <2>1 DEF Replacing
<1>2. ASSUME Replacing(v, j), Body[v][j] # "rename" PROVE Replacing(v, j + 1)
  <2>1. PICK k \in 1 .. j - 1 : Body[v][k] = "create" /\ \A l \in k + 1 .. j - 1 : Body[v][l] # "rename"
    BY <1>2 DEF Replacing
  <2>2. k \in 1 .. (j + 1) - 1 /\ \A l \in k + 1 .. (j + 1) - 1 : l = j \/ l \in k + 1 .. j - 1 BY <1>0
  <2>3. \A l \in k + 1 .. (j + 1) - 1 : Body[v][l] # "rename" BY <1>2, <2>1, <2>2
  <2> QED BY <2>1, <2>2, <2>3 DEF Replacing
<1> QED BY <1>1, <1>2, BodiesAssumption

LEMMA TemporaryStep == IInv /\ [Next]_vars => Temporary'
<1> SUFFICES ASSUME IInv, [Next]_vars PROVE Temporary' OBVIOUS
<1>0. TypeOK /\ Private /\ Position /\ Left /\ Temporary BY DEF IInv
<1>g. Growing /\ db \in Dbs BY GrowStep DEF IInv, TypeOK
<1>1. ASSUME NEW i \in Instances, Start(i) PROVE Temporary'
  <2>1. Others(i) /\ db' = db /\ faults' = faults /\ pc[i] # "statement" /\ pc'[i] \notin InTx
    BY <1>1, <1>0 DEF InTx, Booting, TypeOK, Start, Goto, Others
  <2>2. \A v : ~Owns(i, v) BY <2>1 DEF Owns
  <2> QED BY <2>1, <2>2, <1>0, <1>g, TemporaryOthers DEF Temporary
<1>2. ASSUME NEW i \in Instances, Lock(i) PROVE Temporary'
  <2>1. Others(i) /\ db' = db /\ faults' = faults /\ pc[i] # "statement" /\ pc'[i] \notin InTx
    BY <1>2, <1>0 DEF InTx, Booting, TypeOK, Lock, Goto, Others
  <2>2. \A v : ~Owns(i, v) BY <2>1 DEF Owns
  <2> QED BY <2>1, <2>2, <1>0, <1>g, TemporaryOthers DEF Temporary
<1>3. ASSUME NEW i \in Instances, Inspect(i) PROVE Temporary'
  <2>1. Others(i) /\ db' = db /\ faults' = faults /\ pc[i] # "statement" /\ pc'[i] \notin InTx
    BY <1>3, <1>0, InspectForm DEF InTx, Booting, Ended, Moved
  <2>2. \A v : ~Owns(i, v) BY <2>1 DEF Owns
  <2> QED BY <2>1, <2>2, <1>0, <1>g, TemporaryOthers DEF Temporary
<1>4. ASSUME NEW i \in Instances, BeginBoot(i) PROVE Temporary'
  <2>1. Others(i) /\ db' = db /\ faults' = faults /\ pc[i] # "statement" /\ Begin(i)
    BY <1>4, <1>0 DEF TypeOK, BeginBoot, Begin, Goto, Others
  <2>2. \A v : ~Owns(i, v) BY <2>1 DEF Owns
  <2>3. Transactional => work'[i] = db BY <2>1, <1>0 DEF Begin, TypeOK
  <2> QED BY <2>1, <2>2, <2>3, <1>0, <1>g, TemporaryOthers DEF Temporary
<1>5. ASSUME NEW i \in Instances, BootPart(i) PROVE Temporary'
  <2>0. pc[i] = "part" /\ pc[i] \in InTx BY <1>5, <1>0, BootPartForm DEF InTx, Booting
  <2>n. \A v : ~Owns(i, v) BY <2>0 DEF Owns
  <2>e. CASE Ended(i) /\ faults' = faults
    BY <2>e, <2>n, <1>0, <1>g, TemporaryOthers DEF Temporary, Ended, InTx, Booting
  <2>1. CASE ~Doubled(i)
    <3> DEFINE d == WithPart(View(i), at[i][1])
    <3>1. Wrote(i, d) /\ View(i)' = d /\ View(i) \in Dbs BY <2>1, <1>5, <1>0, BootPartView
    <3>2. d.temp = View(i).temp BY <3>1, PartGrows
    <3> HIDE DEF d
    <3>3. CASE Transactional
      <4>1. db' = db /\ work'[i] = d /\ View(i) = work[i] BY <3>1, <3>3 DEF Wrote, View
      <4>2. work'[i].temp = {} BY <4>1, <3>2, <3>3, <2>0, <2>n, <1>0 DEF Temporary
      <4> QED BY <4>1, <4>2, <3>1, <3>3, <1>0, <1>g, TemporaryOthers DEF Temporary, Wrote
    <3>4. CASE ~Transactional
      <4>1. db' = d /\ View(i) = db /\ faults' = faults BY <3>1, <3>4 DEF Wrote, View
      <4>2. db'.temp = db.temp BY <4>1, <3>2
      <4> QED BY <4>1, <4>2, <3>1, <3>4, <2>n, <1>0, <1>g, TemporaryOthers DEF Wrote
    <3> QED BY <3>3, <3>4
  <2> QED BY <2>e, <2>1, <1>5, <1>0, BootPartForm
<1>6. ASSUME NEW i \in Instances, BootLedger(i) PROVE Temporary'
  <2>0. pc[i] = "bootLedger" /\ pc[i] \in InTx BY <1>6, <1>0, BootLedgerForm DEF InTx, Booting
  <2>n. \A v : ~Owns(i, v) BY <2>0 DEF Owns
  <2>1. CASE TRUE
    <3> DEFINE d == WithLedger(View(i))
    <3>1. Wrote(i, d) /\ View(i)' = d /\ View(i) \in Dbs BY <2>1, <1>6, <1>0, BootLedgerView
    <3>2. d.temp = View(i).temp BY <3>1, TableGrows
    <3> HIDE DEF d
    <3>3. CASE Transactional
      <4>1. db' = db /\ work'[i] = d /\ View(i) = work[i] BY <3>1, <3>3 DEF Wrote, View
      <4>2. work'[i].temp = {} BY <4>1, <3>2, <3>3, <2>0, <2>n, <1>0 DEF Temporary
      <4> QED BY <4>1, <4>2, <3>1, <3>3, <1>0, <1>g, TemporaryOthers DEF Temporary, Wrote
    <3>4. CASE ~Transactional
      <4>1. db' = d /\ View(i) = db /\ faults' = faults BY <3>1, <3>4 DEF Wrote, View
      <4>2. db'.temp = db.temp BY <4>1, <3>2
      <4> QED BY <4>1, <4>2, <3>1, <3>4, <2>n, <1>0, <1>g, TemporaryOthers DEF Wrote
    <3> QED BY <3>3, <3>4
  <2> QED BY <2>1, <1>6, <1>0, BootLedgerForm
<1>7. ASSUME NEW i \in Instances, BootRow(i) PROVE Temporary'
  <2>0. pc[i] = "bootRow" /\ pc[i] \in InTx BY <1>7, <1>0, BootRowForm DEF InTx, Booting
  <2>n. \A v : ~Owns(i, v) BY <2>0 DEF Owns
  <2>e. CASE Ended(i) /\ faults' = faults
    BY <2>e, <2>n, <1>0, <1>g, TemporaryOthers DEF Temporary, Ended, InTx, Booting
  <2>1. CASE ~Recorded(View(i), at[i][1])
    <3> DEFINE d == WithRow(View(i), i, at[i][1])
    <3>1. Wrote(i, d) /\ View(i)' = d /\ View(i) \in Dbs BY <2>1, <1>7, <1>0, BootRowView
    <3>p. at[i][1] \in 1 .. Knows[i] BY <2>0, <1>0 DEF Position, PositionOf
    <3>2. d.temp = View(i).temp BY <3>p, <3>1, RowGrows
    <3> HIDE DEF d
    <3>3. CASE Transactional
      <4>1. db' = db /\ work'[i] = d /\ View(i) = work[i] BY <3>1, <3>3 DEF Wrote, View
      <4>2. work'[i].temp = {} BY <4>1, <3>2, <3>3, <2>0, <2>n, <1>0 DEF Temporary
      <4> QED BY <4>1, <4>2, <3>1, <3>3, <1>0, <1>g, TemporaryOthers DEF Temporary, Wrote
    <3>4. CASE ~Transactional
      <4>1. db' = d /\ View(i) = db /\ faults' = faults BY <3>1, <3>4 DEF Wrote, View
      <4>2. db'.temp = db.temp BY <4>1, <3>2
      <4> QED BY <4>1, <4>2, <3>1, <3>4, <2>n, <1>0, <1>g, TemporaryOthers DEF Wrote
    <3> QED BY <3>3, <3>4
  <2> QED BY <2>e, <2>1, <1>7, <1>0, BootRowForm
<1>8. ASSUME NEW i \in Instances, BootCommit(i) PROVE Temporary'
  <2>1. pc[i] = "bootCommit" /\ pc'[i] = "install" /\ Others(i) /\ db' = View(i) /\ faults' = faults
    BY <1>8, <1>0, BootCommitForm DEF Committed
  <2>2. \A v : ~Owns(i, v) BY <2>1 DEF Owns
  <2>3. CASE Transactional
    <3>1. db'.temp = {} BY <2>1, <2>2, <2>3, <1>0 DEF Temporary, View, InTx, Booting
    <3> QED BY <2>1, <2>3, <3>1, <1>0, <1>g, TemporaryOthers DEF InTx, Booting
  <2>4. CASE ~Transactional
    <3>1. db' = db BY <2>1, <2>4 DEF View
    <3> QED BY <2>1, <2>2, <2>4, <3>1, <1>0, <1>g, TemporaryOthers
  <2> QED BY <2>3, <2>4
<1>9. ASSUME NEW i \in Instances, CreateLedger(i) PROVE Temporary'
  <2>1. Others(i) /\ pc[i] = "ledger" /\ pc'[i] = "read" /\ db' = WithLedger(db) /\ faults' = faults BY <1>9, <1>0, CreateForm
  <2>2. db'.temp = db.temp BY <2>1, <1>g, TableGrows
  <2>3. \A v : ~Owns(i, v) BY <2>1 DEF Owns
  <2> QED BY <2>1, <2>2, <2>3, <1>0, <1>g, TemporaryOthers DEF Temporary, InTx, Booting
<1>10. ASSUME NEW i \in Instances, ReadLedger(i) PROVE Temporary'
  <2>1. Others(i) /\ db' = db /\ faults' = faults /\ pc[i] # "statement" /\ pc'[i] \notin InTx
    BY <1>10, <1>0 DEF InTx, Booting, TypeOK, ReadLedger, Goto, Others
  <2>2. \A v : ~Owns(i, v) BY <2>1 DEF Owns
  <2> QED BY <2>1, <2>2, <1>0, <1>g, TemporaryOthers DEF Temporary
<1>11. ASSUME NEW i \in Instances, File(i) PROVE Temporary'
  <2>1. Others(i) /\ db' = db /\ faults' = faults /\ pc[i] # "statement"
    BY <1>11, <1>0, FileForm DEF Ended, Moved
  <2>2. \A v : ~Owns(i, v) BY <2>1 DEF Owns
  <2>3. Transactional /\ pc'[i] \in InTx => work'[i] = db
    BY <1>11, <1>0, FileForm DEF Ended, Moved, Begin, TypeOK, InTx, Booting
  <2> QED BY <2>1, <2>2, <2>3, <1>0, <1>g, TemporaryOthers DEF Temporary
<1>12. ASSUME NEW i \in Instances, Statement(i) PROVE Temporary'
  <2> DEFINE v == at[i][1]
             j == at[i][2]
  <2>0. pc[i] = "statement" /\ at[i] \in Statements /\ at[i] = <<v, j>> /\ v \in Versions /\ j \in 1 .. Len(Body[v])
    BY <1>12, <1>0, StatementStep, StatementForm
  <2>k. Kind(at[i]) = Body[v][j] BY DEF Kind
  <2>e. CASE Fails(View(i), at[i])
    <3>1. Ended(i) /\ faults' = faults BY <2>e, <1>12, <1>0, StatementStep DEF Wrote
    <3>2. ~Transactional => \A w : ~Owns(i, w)
      <4>1. ~Transactional => Body[v][j] = "create" BY <2>e, <2>k DEF Fails, Transactional, Engine
      <4> QED BY <4>1, <2>0, ReplacingStep DEF Owns
    <3> QED BY <3>1, <3>2, <1>0, <1>g, TemporaryOthers DEF Temporary, Ended, InTx, Booting
  <2>1. CASE ~Fails(View(i), at[i])
    <3> DEFINE d == After(View(i), at[i])
    <3>1. Wrote(i, d) /\ View(i)' = d /\ View(i) \in Dbs BY <2>1, <1>12, <1>0, StatementView
    <3>2. pc'[i] = "statement" /\ at'[i] = <<v, j + 1>> BY <2>1, <1>12, <1>0, StatementStep DEF Ended
    <3>3. d.temp = CASE Body[v][j] = "create" -> View(i).temp \cup {v}
                     [] Body[v][j] = "rename" -> View(i).temp \ {v}
                     [] OTHER -> View(i).temp
      BY <3>1, <2>0, <2>k, AfterGrows
    <3> HIDE DEF d
    <3>4. \A w : Owns(i, w)' <=> w = v /\ Replacing(v, j + 1) BY <3>2 DEF Owns
    <3>5. \A w : Owns(i, w) <=> w = v /\ Replacing(v, j) BY <2>0 DEF Owns
    <3>6. ASSUME NEW w \in d.temp, Owns(i, w) PROVE Owns(i, w)'
      <4>1. w = v /\ Replacing(v, j) BY <3>6, <3>5
      <4>2. Body[v][j] # "rename" BY <3>3, <4>1, <3>6
      <4> QED BY <4>1, <4>2, <3>4, <2>0, ReplacingStep
    <3>7. ASSUME NEW w \in d.temp PROVE w \in View(i).temp \/ Owns(i, w)'
      <4>1. CASE Body[v][j] = "create" BY <4>1, <3>3, <3>4, <3>7, <2>0, ReplacingStep
      <4>2. CASE Body[v][j] # "create"
        <5>1. CASE Body[v][j] = "rename" BY <5>1, <3>3, <3>7
        <5>2. CASE Body[v][j] # "rename" BY <4>2, <5>2, <3>3, <3>7
        <5> QED BY <5>1, <5>2
      <4> QED BY <4>1, <4>2
    <3>8. CASE Transactional
      <4>1. db' = db /\ work'[i] = d /\ View(i) = work[i] BY <3>1, <3>8 DEF Wrote, View
      <4>2. \A w \in work[i].temp : Owns(i, w) BY <3>8, <2>0, <1>0 DEF Temporary, InTx
      <4>3. \A w \in work'[i].temp : Owns(i, w)' BY <4>1, <4>2, <3>6, <3>7
      <4> QED BY <4>1, <4>3, <3>1, <3>8, <1>0, <1>g, TemporaryOthers DEF Temporary, Wrote
    <3>9. CASE ~Transactional
      <4>1. db' = d /\ View(i) = db /\ faults' = faults BY <3>1, <3>9 DEF Wrote, View
      <4>2. \A w \in db'.temp : (w \in db.temp /\ ~Owns(i, w)) \/ Owns(i, w)' BY <4>1, <3>6, <3>7
      <4> QED BY <4>1, <4>2, <3>1, <3>9, <1>0, <1>g, TemporaryOthers DEF Wrote
    <3> QED BY <3>8, <3>9
  <2> QED BY <2>e, <2>1
<1>13. ASSUME NEW i \in Instances, Record(i) PROVE Temporary'
  <2> DEFINE v == at[i][1]
  <2>0. pc[i] = "statement" /\ at[i] \notin Statements BY <1>13, <1>0, RecordForm
  <2>1. v \in 1 .. Knows[i] /\ v \in Versions /\ at[i][2] = Len(Body[v]) + 1 BY <2>0, <1>0, WholeAtEnd, KnowsForm
  <2>n. \A w : ~Owns(i, w) BY <2>1, BodiesAssumption DEF Owns
  <2>e. CASE Ended(i) /\ faults' = faults BY <2>e, <2>n, <1>0, <1>g, TemporaryOthers DEF Temporary, Ended, InTx, Booting
  <2>2. CASE ~Recorded(View(i), v)
    <3> DEFINE d == WithRow(View(i), i, v)
    <3>1. Committed(i, d) /\ pc'[i] = "file" BY <2>2, <1>13, <1>0, RecordForm DEF Ended
    <3>2. View(i) \in Dbs BY <2>0, <1>0, ViewForm DEF InTx, Booting
    <3>3. d.temp = View(i).temp BY <2>1, <3>2, RowGrows
    <3> HIDE DEF d
    <3>4. db' = d /\ Others(i) /\ faults' = faults BY <3>1 DEF Committed
    <3>5. CASE Transactional
      <4>1. db'.temp = {} BY <3>3, <3>4, <3>5, <2>0, <2>n, <1>0 DEF Temporary, View, InTx
      <4> QED BY <3>1, <3>4, <3>5, <4>1, <1>0, <1>g, TemporaryOthers DEF InTx, Booting
    <3>6. CASE ~Transactional
      <4>1. db'.temp = db.temp BY <3>3, <3>4, <3>6 DEF View
      <4> QED BY <3>4, <3>6, <4>1, <2>n, <1>0, <1>g, TemporaryOthers
    <3> QED BY <3>5, <3>6
  <2> QED BY <2>e, <2>2, <1>13, <1>0, RecordForm
<1>14. ASSUME NEW i \in Instances, Install(i) PROVE Temporary'
  <2>1. Others(i) /\ db' = db /\ faults' = faults /\ pc[i] # "statement" /\ pc'[i] \notin InTx
    BY <1>14, <1>0 DEF InTx, Booting, TypeOK, Install, At, Goto, Others
  <2>2. \A v : ~Owns(i, v) BY <2>1 DEF Owns
  <2> QED BY <2>1, <2>2, <1>0, <1>g, TemporaryOthers DEF Temporary
<1>15. ASSUME NEW i \in Instances, Stop(i) PROVE Temporary'
  <2>1. Others(i) /\ db' = db /\ faults' = faults /\ pc[i] # "statement" /\ pc'[i] \notin InTx
    BY <1>15, <1>0, FailForm DEF InTx, Booting, Stop, Ended
  <2>2. \A v : ~Owns(i, v) BY <2>1 DEF Owns
  <2> QED BY <2>1, <2>2, <1>0, <1>g, TemporaryOthers DEF Temporary
<1>16. ASSUME NEW i \in Instances, Fault(i) PROVE Temporary'
  <2>1. Ended(i) /\ faults' # 0 BY <1>16, <1>0, EndForm DEF Fault, TypeOK
  <2> QED BY <2>1, <1>0, <1>g, TemporaryOthers DEF Temporary, Ended, InTx, Booting
<1>17. ASSUME NEW i \in Instances, LoseLock(i) PROVE Temporary'
  <2>1. pc' = pc /\ at' = at /\ faults' = faults /\ db' = db /\ work' = work
    BY <1>17 DEF LoseLock, procs
  <2>2. \A k, v : Owns(k, v)' <=> Owns(k, v) BY <2>1 DEF Owns
  <2> QED BY <2>1, <2>2, <1>0, TemporaryNext DEF Temporary, Transactional, Engine
<1>18. ASSUME UNCHANGED vars PROVE Temporary'
  <2>1. pc' = pc /\ at' = at /\ faults' = faults /\ db' = db /\ work' = work
    BY <1>18 DEF vars
  <2>2. \A k, v : Owns(k, v)' <=> Owns(k, v) BY <2>1 DEF Owns
  <2> QED BY <2>1, <2>2, <1>0, TemporaryNext DEF Temporary, Transactional, Engine
<1> QED BY <1>1, <1>2, <1>3, <1>4, <1>5, <1>6, <1>7, <1>8, <1>9, <1>10, <1>11, <1>12, <1>13, <1>14, <1>15, <1>16, <1>17, <1>18 DEF Next, Step

LEMMA AloneNext ==
  /\ Alone' <=> (db'.engine = "mysql" /\ lost' = 0 =>
       /\ \A k \in Instances : AloneOf(k)'
       /\ \A v \in db'.temp : ~Recorded(db', v) /\ Begun(v, Len(Body[v]) + 1))
  /\ \A k \in Instances : AloneOf(k)' <=>
       /\ pc'[k] \in UnderLock => lock' = k
       /\ pc'[k] \in Booting \cup {"boot"} => db'.temp = {}
       /\ pc'[k] \in {"file", "statement"} =>
            \A row \in db'.ledger : row[1] >= at'[k][1] => row \in seen'[k]
       /\ pc'[k] = "statement" =>
            /\ ~Recorded(db', at'[k][1])
            /\ at'[k][1] \in db'.temp /\ Begun(at'[k][1], at'[k][2]) => Replacing(at'[k][1], at'[k][2])
BY DEF Alone, AloneOf, Recorded, Begun, Replacing, Transactional, Engine

\* The databases of an instance alone: nothing recorded is half-way.
LoneTemp(d) == \A v \in d.temp : ~Recorded(d, v) /\ Begun(v, Len(Body[v]) + 1)

LEMMA AloneOthers ==
  ASSUME Alone, Growing, NEW i \in Instances, Others(i), lost' = lost,
         ~Transactional /\ lost = 0 =>
           /\ \A k \in Instances \ {i} : lock = k => lock' = k
           /\ db' = db \/ lock = i
           /\ AloneOf(i)'
           /\ LoneTemp(db')
  PROVE Alone'
<1>0. db'.engine = db.engine BY DEF Growing, Grown
<1>1. CASE Transactional \/ lost # 0 BY <1>0, <1>1, AloneNext DEF Transactional, Engine
<1>2. CASE ~Transactional /\ lost = 0
  <2>1. ASSUME NEW k \in Instances \ {i} PROVE AloneOf(k)'
    <3>1. AloneOf(k) /\ pc'[k] = pc[k] /\ at'[k] = at[k] /\ seen'[k] = seen[k] BY <1>2 DEF Alone, Others
    <3>2. CASE pc[k] \in UnderLock
      <4>1. lock = k /\ lock' = k BY <1>2, <3>1, <3>2 DEF AloneOf
      <4>2. db' = db BY <1>2, <4>1
      <4> QED BY <3>1, <4>1, <4>2, AloneNext DEF AloneOf
    <3>3. CASE pc[k] \notin UnderLock
      <4>1. pc'[k] \notin UnderLock BY <3>1, <3>3
      <4> QED BY <4>1, AloneNext DEF UnderLock, Labels, Booting
    <3> QED BY <3>2, <3>3
  <2> QED BY <1>2, <2>1, AloneNext DEF LoneTemp
<1> QED BY <1>1, <1>2

LEMMA AloneTemp == ASSUME Alone, ~Transactional, lost = 0 PROVE LoneTemp(db)
BY DEF Alone, LoneTemp

\* A start-up that is over, or not yet at work.
LEMMA AloneOut ==
  ASSUME TypeOK, Alone, Growing, NEW i \in Instances, Others(i), lost' = lost, db' = db,
         pc'[i] \in {"down", "lock", "serving"}, \A k \in Instances \ {i} : lock = k => lock' = k
  PROVE Alone'
<1>1. AloneOf(i)' BY AloneNext DEF UnderLock, Booting
<1>2. ~Transactional /\ lost = 0 => LoneTemp(db') BY AloneTemp DEF LoneTemp
<1> QED BY <1>1, <1>2, AloneOthers

LEMMA AloneEnd == ASSUME TypeOK, Alone, Growing, NEW i \in Instances, Ended(i) PROVE Alone'
<1>1. Others(i) /\ lost' = lost /\ db' = db /\ pc'[i] = "down" /\ \A k \in Instances \ {i} : lock = k => lock' = k
  BY MigrationAssumption DEF Ended
<1> QED BY <1>1, AloneOut

\* A step of the bootstrap.
LEMMA AloneBoot ==
  ASSUME TypeOK, Alone, Growing, NEW i \in Instances, Others(i), lost' = lost, lock' = lock,
         pc[i] \in Booting \cup {"boot"}, pc'[i] \in Booting \cup {"install"},
         ~Transactional => db'.temp = db.temp
  PROVE Alone'
<1>1. ASSUME ~Transactional, lost = 0 PROVE lock = i /\ db'.temp = {}
  BY <1>1 DEF Alone, AloneOf, UnderLock, Labels, Booting
<1>2. ASSUME ~Transactional, lost = 0 PROVE AloneOf(i)' /\ LoneTemp(db')
  BY <1>1, <1>2, AloneNext DEF UnderLock, Labels, Booting, LoneTemp
<1> QED BY <1>1, <1>2, AloneOthers

LEMMA AloneStep == IInv /\ [Next]_vars => Alone'
<1> SUFFICES ASSUME IInv, [Next]_vars PROVE Alone' OBVIOUS
<1>0. TypeOK /\ Private /\ Position /\ Left /\ Alone BY DEF IInv
<1>g. Growing /\ db \in Dbs BY GrowStep DEF IInv, TypeOK
<1>1. ASSUME NEW i \in Instances, Start(i) PROVE Alone'
  <2>1. Others(i) /\ lost' = lost /\ db' = db /\ lock' = lock /\ pc'[i] = "lock"
    BY <1>1, <1>0 DEF TypeOK, Start, Goto, Others
  <2> QED BY <2>1, <1>0, <1>g, AloneOut
<1>2. ASSUME NEW i \in Instances, Lock(i) PROVE Alone'
  <2>1. Others(i) /\ lost' = lost /\ db' = db /\ LockFree /\ lock' = (IF Engine = "sqlite" THEN lock ELSE i) /\ pc'[i] = "inspect"
    BY <1>2, <1>0 DEF TypeOK, Lock, Goto, Others
  <2>2. ~Transactional => lock = NoOne /\ lock' = i BY <2>1 DEF LockFree, Transactional, Engine
  <2>3. ~Transactional => AloneOf(i)' BY <2>1, <2>2, AloneNext DEF Booting
  <2>4. ~Transactional /\ lost = 0 => LoneTemp(db') BY <2>1, <1>0, AloneTemp DEF LoneTemp
  <2> QED BY <2>1, <2>2, <2>3, <2>4, <1>0, <1>g, AloneOthers, MigrationAssumption
<1>3. ASSUME NEW i \in Instances, Inspect(i) PROVE Alone'
  <2>e. CASE Ended(i) BY <2>e, <1>0, <1>g, AloneEnd
  <2>1. CASE ~Ended(i)
    <3>1. pc[i] = "inspect" /\ Moved(i) /\ pc'[i] = IF ~Occupied /\ Engine # "sqlite" THEN "boot" ELSE "ledger"
      BY <2>1, <1>3, <1>0, InspectForm
    <3>2. Others(i) /\ lost' = lost /\ db' = db /\ lock' = lock BY <3>1 DEF Moved
    <3>3. pc'[i] \in {"boot", "ledger"} /\ (pc'[i] = "boot" => db.temp = {}) BY <3>1 DEF Occupied
    <3>4. ~Transactional /\ lost = 0 => lock = i BY <3>1, <1>0 DEF Alone, AloneOf, UnderLock, Labels
    <3>5. ~Transactional /\ lost = 0 => AloneOf(i)' BY <3>2, <3>3, <3>4, AloneNext DEF Booting
    <3>6. ~Transactional /\ lost = 0 => LoneTemp(db') BY <3>2, <1>0, AloneTemp DEF LoneTemp
    <3> QED BY <3>2, <3>5, <3>6, <1>0, <1>g, AloneOthers
  <2> QED BY <2>e, <2>1
<1>4. ASSUME NEW i \in Instances, BeginBoot(i) PROVE Alone'
  <2>1. Others(i) /\ lost' = lost /\ db' = db /\ lock' = lock /\ pc[i] = "boot" /\ pc'[i] = "part"
    BY <1>4, <1>0 DEF TypeOK, BeginBoot, Begin, Goto, Others
  <2> QED BY <2>1, <1>0, <1>g, AloneBoot DEF Booting
<1>5. ASSUME NEW i \in Instances, BootPart(i) PROVE Alone'
  <2>e. CASE Ended(i) BY <2>e, <1>0, <1>g, AloneEnd
  <2>1. CASE ~Doubled(i)
    <3> DEFINE d == WithPart(View(i), at[i][1])
    <3>1. Wrote(i, d) /\ View(i) \in Dbs BY <2>1, <1>5, <1>0, BootPartView
    <3>0. pc[i] = "part" /\ pc'[i] \in Booting BY <2>1, <1>5, <1>0, BootPartForm DEF Booting
    <3>2. d.temp = View(i).temp BY <3>1, PartGrows
    <3> HIDE DEF d
    <3>3. ~Transactional => db'.temp = db.temp BY <3>1, <3>2 DEF Wrote, View
    <3> QED BY <3>0, <3>1, <3>3, <1>0, <1>g, AloneBoot DEF Wrote, Booting
  <2> QED BY <2>e, <2>1, <1>5, <1>0, BootPartForm
<1>6. ASSUME NEW i \in Instances, BootLedger(i) PROVE Alone'
  <2>1. CASE TRUE
    <3> DEFINE d == WithLedger(View(i))
    <3>1. Wrote(i, d) /\ View(i) \in Dbs BY <2>1, <1>6, <1>0, BootLedgerView
    <3>0. pc[i] = "bootLedger" /\ pc'[i] \in Booting BY <2>1, <1>6, <1>0, BootLedgerForm DEF Booting
    <3>2. d.temp = View(i).temp BY <3>1, TableGrows
    <3> HIDE DEF d
    <3>3. ~Transactional => db'.temp = db.temp BY <3>1, <3>2 DEF Wrote, View
    <3> QED BY <3>0, <3>1, <3>3, <1>0, <1>g, AloneBoot DEF Wrote, Booting
  <2> QED BY <2>1, <1>6, <1>0, BootLedgerForm
<1>7. ASSUME NEW i \in Instances, BootRow(i) PROVE Alone'
  <2>e. CASE Ended(i) BY <2>e, <1>0, <1>g, AloneEnd
  <2>1. CASE ~Recorded(View(i), at[i][1])
    <3> DEFINE d == WithRow(View(i), i, at[i][1])
    <3>1. Wrote(i, d) /\ View(i) \in Dbs BY <2>1, <1>7, <1>0, BootRowView
    <3>0. pc[i] = "bootRow" /\ pc'[i] \in Booting BY <2>1, <1>7, <1>0, BootRowForm DEF Booting
    <3>p. at[i][1] \in 1 .. Knows[i] BY <3>0, <1>0 DEF Position, PositionOf
    <3>2. d.temp = View(i).temp BY <3>p, <3>1, RowGrows
    <3> HIDE DEF d
    <3>3. ~Transactional => db'.temp = db.temp BY <3>1, <3>2 DEF Wrote, View
    <3> QED BY <3>0, <3>1, <3>3, <1>0, <1>g, AloneBoot DEF Wrote, Booting
  <2> QED BY <2>e, <2>1, <1>7, <1>0, BootRowForm
<1>8. ASSUME NEW i \in Instances, BootCommit(i) PROVE Alone'
  <2>1. pc[i] = "bootCommit" /\ pc'[i] = "install" /\ Others(i) /\ db' = View(i) /\ lost' = lost /\ lock' = lock
    BY <1>8, <1>0, BootCommitForm DEF Committed
  <2>2. ~Transactional => db'.temp = db.temp BY <2>1 DEF View
  <2> QED BY <2>1, <2>2, <1>0, <1>g, AloneBoot DEF Booting
<1>9. ASSUME NEW i \in Instances, CreateLedger(i) PROVE Alone'
  <2>1. Others(i) /\ pc[i] = "ledger" /\ pc'[i] = "read" /\ db' = WithLedger(db) /\ lost' = lost /\ lock' = lock
    BY <1>9, <1>0, CreateForm
  <2>2. db'.temp = db.temp /\ db'.ledger = db.ledger BY <2>1, <1>g, TableGrows
  <2>3. ~Transactional /\ lost = 0 => lock = i BY <2>1, <1>0 DEF Alone, AloneOf, UnderLock, Labels
  <2>4. ~Transactional /\ lost = 0 => AloneOf(i)' BY <2>1, <2>3, AloneNext DEF Booting
  <2>5. ~Transactional /\ lost = 0 => LoneTemp(db') BY <2>2, <1>0, AloneTemp DEF LoneTemp, Recorded
  <2> QED BY <2>1, <2>3, <2>4, <2>5, <1>0, <1>g, AloneOthers
<1>10. ASSUME NEW i \in Instances, ReadLedger(i) PROVE Alone'
  <2>1. Others(i) /\ pc[i] = "read" /\ pc'[i] = "file" /\ seen'[i] = db.ledger /\ db' = db /\ lost' = lost /\ lock' = lock
    BY <1>10, <1>0 DEF TypeOK, ReadLedger, Goto, Others
  <2>3. ~Transactional /\ lost = 0 => lock = i BY <2>1, <1>0 DEF Alone, AloneOf, UnderLock, Labels
  <2>4. ~Transactional /\ lost = 0 => AloneOf(i)' BY <2>1, <2>3, AloneNext DEF Booting
  <2>5. ~Transactional /\ lost = 0 => LoneTemp(db') BY <2>1, <1>0, AloneTemp DEF LoneTemp
  <2> QED BY <2>1, <2>3, <2>4, <2>5, <1>0, <1>g, AloneOthers
<1>11. ASSUME NEW i \in Instances, File(i) PROVE Alone'
  <2>e. CASE Ended(i) BY <2>e, <1>0, <1>g, AloneEnd
  <2>1. CASE ~Ended(i)
    <3> DEFINE v == at[i][1]
    <3>0. pc[i] = "file" /\ v \in Nat /\ at[i][2] = 1 BY <1>11, <1>0, FileForm, AtForm DEF Position, PositionOf
    <3>1. Others(i) /\ db' = db /\ seen'[i] = seen[i] /\ lost' = lost /\ lock' = lock
      BY <2>1, <1>11, <1>0, FileForm DEF Moved
    <3>2. \/ pc'[i] = "install"
          \/ pc'[i] = "file" /\ at'[i] = <<v + 1, 1>>
          \/ pc'[i] = "statement" /\ at'[i] = at[i] /\ ~(\E row \in seen[i] : row[1] = v)
      BY <2>1, <1>11, <1>0, FileForm
    <3>3. ASSUME ~Transactional, lost = 0 PROVE AloneOf(i)'
      <4>1. lock' = i /\ \A row \in db'.ledger : row[1] >= v => row \in seen'[i]
        BY <3>0, <3>1, <3>3, <1>0 DEF Alone, AloneOf, UnderLock, Labels
      <4>2. CASE pc'[i] = "install" BY <4>1, <4>2, AloneNext DEF Booting
      <4>3. CASE pc'[i] = "file" /\ at'[i] = <<v + 1, 1>>
        <5>1. db'.ledger \subseteq Versions \X Checksums BY <3>1, <1>g DEF Dbs
        <5>2. \A row \in db'.ledger : row[1] \in Nat BY <5>1, BodyForm
        <5>3. \A row \in db'.ledger : row[1] >= at'[i][1] => row \in seen'[i] BY <4>1, <4>3, <5>2, <3>0
        <5> QED BY <4>1, <4>3, <5>3, AloneNext DEF Booting
      <4>4. CASE pc'[i] = "statement" /\ at'[i] = at[i] /\ ~(\E row \in seen[i] : row[1] = v)
        <5>1. ~Recorded(db', v) BY <4>1, <4>4, <3>0, <3>1 DEF Recorded
        <5>2. ~Begun(v, at'[i][2]) BY <4>4, <3>0 DEF Begun
        <5> QED BY <4>1, <4>4, <5>1, <5>2, AloneNext DEF Booting
      <4> QED BY <3>2, <4>2, <4>3, <4>4
    <3>4. ~Transactional /\ lost = 0 => LoneTemp(db') BY <3>1, <1>0, AloneTemp DEF LoneTemp
    <3> QED BY <3>1, <3>3, <3>4, <1>0, <1>g, AloneOthers
  <2> QED BY <2>e, <2>1
<1>12. ASSUME NEW i \in Instances, Statement(i) PROVE Alone'
  <2> DEFINE v == at[i][1]
             j == at[i][2]
  <2>0. pc[i] = "statement" /\ at[i] \in Statements /\ v \in Versions /\ j \in 1 .. Len(Body[v]) /\ Kind(at[i]) = Body[v][j]
    BY <1>12, <1>0, StatementStep, StatementForm DEF Kind
  <2>n. Len(Body[v]) \in Nat BY <2>0, BodyForm
  <2>e. CASE Fails(View(i), at[i])
    <3>1. Ended(i) BY <2>e, <1>12, <1>0, StatementStep
    <3> QED BY <3>1, <1>0, <1>g, AloneEnd
  <2>1. CASE ~Fails(View(i), at[i])
    <3> DEFINE d == After(View(i), at[i])
    <3>1. Wrote(i, d) /\ View(i) \in Dbs BY <2>1, <1>12, <1>0, StatementView
    <3>2. pc'[i] = "statement" /\ at'[i] = <<v, j + 1>> BY <2>1, <1>12, <1>0, StatementStep DEF Ended
    <3>3. d.ledger = View(i).ledger /\
          d.temp = CASE Body[v][j] = "create" -> View(i).temp \cup {v}
                     [] Body[v][j] = "rename" -> View(i).temp \ {v}
                     [] OTHER -> View(i).temp
      BY <3>1, <2>0, AfterGrows
    <3> HIDE DEF d
    <3>4. Others(i) /\ lost' = lost /\ lock' = lock /\ seen'[i] = seen[i] BY <3>1 DEF Wrote
    <3>5. ASSUME ~Transactional, lost = 0 PROVE lock = i /\ AloneOf(i)' /\ LoneTemp(db')
      <4>1. db' = d /\ View(i) = db BY <3>1, <3>5 DEF Wrote, View
      <4>2. /\ lock = i /\ ~Recorded(db, v)
            /\ \A row \in db.ledger : row[1] >= v => row \in seen[i]
            /\ v \in db.temp /\ Begun(v, j) => Replacing(v, j)
        BY <3>5, <2>0, <1>0 DEF Alone, AloneOf, UnderLock, Labels
      <4>3. db'.ledger = db.ledger /\ \A w : Recorded(db', w) <=> Recorded(db, w) BY <3>3, <4>1 DEF Recorded
      <4>4. Body[v][j] # "create" /\ Begun(v, j + 1) => Begun(v, j)
        <5>1. ASSUME Body[v][j] # "create", NEW k \in 1 .. (j + 1) - 1, Body[v][k] = "create" PROVE k \in 1 .. j - 1
          <6>1. k \in 1 .. j /\ j \in Nat BY <2>0, <2>n
          <6>2. k # j BY <5>1
          <6> QED BY <6>1, <6>2
        <5> QED BY <5>1 DEF Begun
      <4>5. v \in db'.temp /\ Begun(v, j + 1) => Replacing(v, j + 1)
        <5>1. CASE Body[v][j] = "create" BY <5>1, <2>0, ReplacingStep
        <5>2. CASE Body[v][j] # "create"
          <6>1. v \in db'.temp => v \in db.temp /\ Body[v][j] # "rename" BY <5>2, <3>3, <4>1
          <6> QED BY <5>2, <6>1, <4>2, <4>4, <2>0, ReplacingStep
        <5> QED BY <5>1, <5>2
      <4>6. AloneOf(i)' BY <3>2, <3>4, <4>2, <4>3, <4>5, AloneNext DEF Booting
      <4>7. Body[v][j] = "create" => Begun(v, Len(Body[v]) + 1)
        <5>1. j \in 1 .. (Len(Body[v]) + 1) - 1 BY <2>0, <2>n
        <5> QED BY <5>1 DEF Begun
      <4>8. \A w \in db'.temp : w \in db.temp \/ (w = v /\ Body[v][j] = "create") BY <3>3, <4>1
      <4>9. LoneTemp(db') BY <4>2, <4>3, <4>7, <4>8, <3>5, <1>0, AloneTemp DEF LoneTemp
      <4> QED BY <4>2, <4>6, <4>9
    <3> QED BY <3>4, <3>5, <1>0, <1>g, AloneOthers
  <2> QED BY <2>e, <2>1
<1>13. ASSUME NEW i \in Instances, Record(i) PROVE Alone'
  <2>e. CASE Ended(i) BY <2>e, <1>0, <1>g, AloneEnd
  <2> DEFINE v == at[i][1]
  <2>0. pc[i] = "statement" /\ at[i] \notin Statements BY <1>13, <1>0, RecordForm
  <2>1. v \in 1 .. Knows[i] /\ v \in Versions /\ at[i][2] = Len(Body[v]) + 1 BY <2>0, <1>0, WholeAtEnd, KnowsForm
  <2>2. CASE ~Recorded(View(i), v)
    <3> DEFINE d == WithRow(View(i), i, v)
    <3>1. Committed(i, d) /\ pc'[i] = "file" /\ at'[i] = <<v + 1, 1>> BY <2>2, <1>13, <1>0, RecordForm DEF Ended
    <3>2. View(i) \in Dbs BY <2>0, <1>0, ViewForm DEF InTx, Booting
    <3>3. d.temp = View(i).temp /\ d.ledger = View(i).ledger \cup {<<v, Text[i][v]>>} BY <2>1, <3>2, RowGrows
    <3> HIDE DEF d
    <3>4. db' = d /\ Others(i) /\ lost' = lost /\ lock' = lock /\ seen'[i] = seen[i] BY <3>1 DEF Committed
    <3>5. ASSUME ~Transactional, lost = 0 PROVE lock = i /\ AloneOf(i)' /\ LoneTemp(db')
      <4>1. db'.temp = db.temp /\ db'.ledger = db.ledger \cup {<<v, Text[i][v]>>} BY <3>3, <3>4, <3>5 DEF View
      <4>2. /\ lock = i
            /\ \A row \in db.ledger : row[1] >= v => row \in seen[i]
            /\ v \in db.temp /\ Begun(v, at[i][2]) => Replacing(v, at[i][2])
        BY <3>5, <2>0, <1>0 DEF Alone, AloneOf, UnderLock, Labels
      <4>3. LoneTemp(db) BY <3>5, <1>0, AloneTemp
      <4>4. v \notin db.temp BY <4>2, <4>3, <2>1, BodiesAssumption DEF LoneTemp
      <4>5. \A row \in db.ledger : row[1] \in Nat BY <1>g, BodyForm DEF Dbs
      <4>6. v \in Nat BY <2>1, BodyForm
      <4>7. \A row \in db'.ledger : row[1] >= at'[i][1] => row \in seen'[i] BY <4>1, <4>2, <4>5, <4>6, <3>1, <3>4
      <4>8. AloneOf(i)' BY <3>1, <3>4, <4>2, <4>7, AloneNext DEF Booting
      <4>9. \A w : Recorded(db', w) => w = v \/ Recorded(db, w) BY <4>1 DEF Recorded
      <4>10. LoneTemp(db') BY <4>1, <4>3, <4>4, <4>9 DEF LoneTemp
      <4> QED BY <4>2, <4>8, <4>10
    <3> QED BY <3>4, <3>5, <1>0, <1>g, AloneOthers
  <2> QED BY <2>e, <2>2, <1>13, <1>0, RecordForm
<1>14. ASSUME NEW i \in Instances, Install(i) PROVE Alone'
  <2>1. Others(i) /\ lost' = lost /\ db' = db /\ lock' = Unlocked(i) /\ pc'[i] = "serving"
    BY <1>14, <1>0 DEF TypeOK, Install, Goto, At, Others
  <2>2. \A k \in Instances \ {i} : lock = k => lock' = k BY <2>1 DEF Unlocked
  <2> QED BY <2>1, <2>2, <1>0, <1>g, AloneOut
<1>15. ASSUME NEW i \in Instances, Stop(i) PROVE Alone'
  <2>1. Ended(i) BY <1>15, <1>0, EndForm DEF Stop, Fail
  <2> QED BY <2>1, <1>0, <1>g, AloneEnd
<1>16. ASSUME NEW i \in Instances, Fault(i) PROVE Alone'
  <2>1. Ended(i) BY <1>16, <1>0, EndForm DEF Fault, Fail
  <2> QED BY <2>1, <1>0, <1>g, AloneEnd
<1>17. ASSUME NEW i \in Instances, LoseLock(i) PROVE Alone'
  <2>1. lost' # 0 BY <1>17, <1>0 DEF LoseLock, TypeOK
  <2> QED BY <2>1, AloneNext
<1>18. ASSUME UNCHANGED vars PROVE Alone'
  <2>1. pc' = pc /\ at' = at /\ seen' = seen /\ lost' = lost /\ db' = db /\ lock' = lock BY <1>18 DEF vars, procs
  <2>2. \A k \in Instances : AloneOf(k)' <=> AloneOf(k) BY <2>1 DEF AloneOf
  <2> QED BY <2>1, <2>2, <1>0, AloneNext DEF Alone, Transactional, Engine
<1> QED BY <1>1, <1>2, <1>3, <1>4, <1>5, <1>6, <1>7, <1>8, <1>9, <1>10, <1>11, <1>12, <1>13, <1>14, <1>15, <1>16, <1>17, <1>18 DEF Next, Step

\* The three parts of Rows.
RunsRecorded(d) == \A s \in Statements : d.runs[s] <= 1 /\ (d.runs[s] > 0 => Recorded(d, s[1]))
RunsOf(i) ==
  /\ pc[i] \in Booting => work[i].runs = db.runs
  /\ pc[i] = "statement" => \A s \in Statements :
       /\ s[1] # at[i][1] \/ s[2] >= at[i][2] => work[i].runs[s] = db.runs[s]
       /\ s[1] = at[i][1] => work[i].runs[s] <= db.runs[s] + 1
Past(i, s) == pc[i] = "statement" /\ at[i][1] = s[1] /\ at[i][2] > s[2]

LEMMA NatSum == \A m, n \in Nat : m + n = 0 <=> m = 0 /\ n = 0
OBVIOUS

LEMMA RowsForm == Rows <=>
  /\ Transactional => RunsRecorded(db) /\ \A k \in Instances : RunsOf(k)
  /\ ~Transactional /\ faults + lost = 0 => \A s \in Statements :
       /\ db.runs[s] <= 1
       /\ db.runs[s] > 0 => Recorded(db, s[1]) \/ \E k \in Instances : Past(k, s)
BY DEF Rows, RunsRecorded, RunsOf, Past

LEMMA RowsNext ==
  /\ Rows' <=>
       /\ db'.engine # "mysql" => RunsRecorded(db') /\ \A k \in Instances : RunsOf(k)'
       /\ db'.engine = "mysql" /\ faults' + lost' = 0 => \A s \in Statements :
            /\ db'.runs[s] <= 1
            /\ db'.runs[s] > 0 => Recorded(db', s[1]) \/ \E k \in Instances : Past(k, s)'
  /\ \A k \in Instances : RunsOf(k)' <=>
       /\ pc'[k] \in Booting => work'[k].runs = db'.runs
       /\ pc'[k] = "statement" => \A s \in Statements :
            /\ s[1] # at'[k][1] \/ s[2] >= at'[k][2] => work'[k].runs[s] = db'.runs[s]
            /\ s[1] = at'[k][1] => work'[k].runs[s] <= db'.runs[s] + 1
  /\ \A k \in Instances, s \in Statements :
       Past(k, s)' <=> pc'[k] = "statement" /\ at'[k][1] = s[1] /\ at'[k][2] > s[2]
BY DEF Rows, RunsRecorded, RunsOf, Past, Recorded, Transactional, Engine

LEMMA RecordedGrows == ASSUME NEW d, NEW e, d.ledger \subseteq e.ledger
  PROVE \A v : Recorded(d, v) => Recorded(e, v)
BY DEF Recorded

LEMMA RowsOthers ==
  ASSUME TypeOK, Private, Rows, Growing, NEW i \in Instances, Others(i), lost' = lost, faults' \in Nat,
         Transactional =>
           /\ db'.runs = db.runs \/ pc[i] \in InTx
           /\ RunsRecorded(db')
           /\ RunsOf(i)',
         ~Transactional /\ faults' + lost' = 0 =>
           /\ faults = 0
           /\ \A s \in Statements :
                /\ db'.runs[s] <= 1
                /\ db'.runs[s] > 0 => (db.runs[s] > 0 /\ ~Past(i, s)) \/ Recorded(db', s[1]) \/ Past(i, s)'
  PROVE Rows'
<1>0. db'.engine = db.engine /\ db.ledger \subseteq db'.ledger BY DEF Growing, Grown
<1>1. ASSUME Transactional, NEW k \in Instances PROVE RunsOf(k)'
  <2>1. CASE k = i BY <1>1, <2>1
  <2>2. CASE k # i
    <3>1. pc'[k] = pc[k] /\ at'[k] = at[k] /\ work'[k] = work[k] BY <2>2 DEF Others
    <3>2. RunsOf(k) BY <1>1, RowsForm
    <3>3. CASE pc[k] \in InTx
      <4>1. writer = k BY <1>1, <3>3 DEF Private
      <4>2. pc[i] \notin InTx BY <1>1, <4>1, <2>2 DEF Private
      <4>3. db'.runs = db.runs BY <1>1, <4>2
      <4> QED BY <3>1, <3>2, <4>3, RowsNext DEF RunsOf
    <3>4. CASE pc[k] \notin InTx
      <4>1. pc'[k] \notin Booting /\ pc'[k] # "statement" BY <3>1, <3>4 DEF InTx
      <4> QED BY <4>1, RowsNext
    <3> QED BY <3>3, <3>4
  <2> QED BY <2>1, <2>2
<1>2. ASSUME ~Transactional, faults' + lost' = 0, NEW s \in Statements
      PROVE db'.runs[s] <= 1 /\ (db'.runs[s] > 0 => Recorded(db', s[1]) \/ \E k \in Instances : Past(k, s)')
  <2>1. faults = 0 /\ faults + lost = 0
    <3>2. faults = 0 BY <1>2
    <3>3. lost \in Nat BY DEF TypeOK
    <3>4. faults' + lost = 0 BY <1>2
    <3>5. lost = 0 BY <3>3, <3>4, NatSum
    <3> QED BY <3>2, <3>5
  <2>2. CASE db.runs[s] > 0 /\ ~Past(i, s)
    <3>1. Recorded(db, s[1]) \/ \E k \in Instances : Past(k, s) BY <1>2, <2>1, <2>2, RowsForm
    <3>2. CASE Recorded(db, s[1]) BY <1>2, <3>2, <1>0, RecordedGrows
    <3>3. ASSUME NEW k \in Instances, Past(k, s) PROVE Past(k, s)'
      <4>1. k # i BY <2>2, <3>3
      <4> QED BY <3>3, <4>1, RowsNext DEF Past, Others
    <3> QED BY <1>2, <3>1, <3>2, <3>3
  <2> QED BY <1>2, <2>2
<1> QED BY <1>0, <1>1, <1>2, RowsNext DEF Transactional, Engine

\* Rows are as they were, and i was not at a statement.
LEMMA RowsSame ==
  ASSUME TypeOK, Private, Rows, Growing, NEW i \in Instances, Others(i), lost' = lost, faults' \in Nat,
         ~Transactional /\ faults' = 0 => faults = 0 /\ (pc[i] # "statement" \/ lost # 0),
         db'.runs = db.runs,
         Transactional /\ pc'[i] \in InTx => work'[i].runs = db.runs
  PROVE Rows'
<1>1. ASSUME Transactional PROVE RunsRecorded(db') /\ RunsOf(i)'
  <2>1. \A v : Recorded(db, v) => Recorded(db', v) BY RecordedGrows DEF Growing, Grown
  <2>2. RunsRecorded(db') BY <1>1, <2>1, RowsForm DEF RunsRecorded
  <2>3. db.runs \in [Statements -> 0 .. 2] BY DEF TypeOK, Dbs
  <2>4. RunsOf(i)' BY <1>1, <2>3, RowsNext DEF InTx
  <2> QED BY <2>2, <2>4
<1>2. ASSUME ~Transactional, faults' + lost' = 0 PROVE faults = 0 /\ lost = 0 /\ \A s \in Statements :
           /\ db'.runs[s] <= 1
           /\ db'.runs[s] > 0 => db.runs[s] > 0 /\ ~Past(i, s)
  <2>1. lost \in Nat BY DEF TypeOK
  <2>2. faults' = 0 /\ lost = 0 BY <1>2, <2>1
  <2>3. faults = 0 /\ pc[i] # "statement" BY <1>2, <2>2
  <2>4. \A s \in Statements : db.runs[s] <= 1 BY <1>2, <2>2, <2>3, RowsForm
  <2> QED BY <2>2, <2>3, <2>4 DEF Past
<1> QED BY <1>1, <1>2, RowsOthers

\* MySQL, before anything has failed: the instance at a statement is the only
\* one that migrates.
LEMMA OnlyOne == ASSUME Alone, ~Transactional, lost = 0, NEW i \in Instances, pc[i] = "statement", NEW k \in Instances, pc[k] = "statement"
  PROVE k = i
BY DEF Alone, AloneOf, UnderLock, Labels

LEMMA RowsStep == IInv /\ [Next]_vars => Rows'
<1> SUFFICES ASSUME IInv, [Next]_vars PROVE Rows' OBVIOUS
<1>0. TypeOK /\ Private /\ Position /\ Left /\ Rows BY DEF IInv
<1>g. Growing /\ db \in Dbs BY GrowStep DEF IInv, TypeOK
<1>f. faults \in Nat BY <1>0 DEF TypeOK
<1>1. ASSUME NEW i \in Instances, Start(i) PROVE Rows'
  <2>1. Others(i) /\ db' = db /\ lost' = lost /\ faults' = faults /\ pc[i] # "statement" /\ pc'[i] \notin InTx
    BY <1>1, <1>0 DEF InTx, Booting, TypeOK, Start, Goto, Others
  <2> QED BY <2>1, <1>0, <1>f, <1>g, RowsSame
<1>2. ASSUME NEW i \in Instances, Lock(i) PROVE Rows'
  <2>1. Others(i) /\ db' = db /\ lost' = lost /\ faults' = faults /\ pc[i] # "statement" /\ pc'[i] \notin InTx
    BY <1>2, <1>0 DEF InTx, Booting, TypeOK, Lock, Goto, Others
  <2> QED BY <2>1, <1>0, <1>f, <1>g, RowsSame
<1>3. ASSUME NEW i \in Instances, Inspect(i) PROVE Rows'
  <2>1. Others(i) /\ db' = db /\ lost' = lost /\ faults' = faults /\ pc[i] # "statement" /\ pc'[i] \notin InTx
    BY <1>3, <1>0, InspectForm DEF InTx, Booting, Ended, Moved
  <2> QED BY <2>1, <1>0, <1>f, <1>g, RowsSame
<1>4. ASSUME NEW i \in Instances, BeginBoot(i) PROVE Rows'
  <2>1. Others(i) /\ db' = db /\ lost' = lost /\ faults' = faults /\ pc[i] # "statement" /\ Begin(i)
    BY <1>4, <1>0 DEF TypeOK, BeginBoot, Begin, Goto, Others
  <2>2. Transactional => work'[i] = db BY <2>1, <1>0 DEF Begin, TypeOK
  <2> QED BY <2>1, <2>2, <1>0, <1>f, <1>g, RowsSame
<1>5. ASSUME NEW i \in Instances, BootPart(i) PROVE Rows'
  <2>0. pc[i] = "part" BY <1>5, <1>0, BootPartForm
  <2>e. CASE Ended(i) /\ faults' = faults
    <3>1. Others(i) /\ db' = db /\ lost' = lost /\ pc'[i] \notin InTx BY <2>e DEF Ended, InTx, Booting
    <3> QED BY <2>0, <2>e, <3>1, <1>0, <1>f, <1>g, RowsSame
  <2>1. CASE ~Doubled(i)
    <3> DEFINE d == WithPart(View(i), at[i][1])
    <3>1. Wrote(i, d) /\ View(i) \in Dbs BY <2>1, <1>5, <1>0, BootPartView
    <3>2. d.runs = View(i).runs BY <3>1, PartGrows
    <3> HIDE DEF d
    <3>3. Others(i) /\ lost' = lost /\ faults' = faults BY <3>1 DEF Wrote
    <3>4. ASSUME Transactional PROVE db' = db /\ work'[i].runs = db.runs
      <4>1. db' = db /\ work'[i] = d /\ View(i) = work[i] BY <3>1, <3>4 DEF Wrote, View
      <4>2. work[i].runs = db.runs BY <3>4, <2>0, <1>0, RowsForm DEF RunsOf, Booting
      <4> QED BY <4>1, <4>2, <3>2
    <3>5. ~Transactional => db'.runs = db.runs BY <3>1, <3>2 DEF Wrote, View
    <3> QED BY <2>0, <3>3, <3>4, <3>5, <1>0, <1>f, <1>g, RowsSame
  <2> QED BY <2>e, <2>1, <1>5, <1>0, BootPartForm
<1>6. ASSUME NEW i \in Instances, BootLedger(i) PROVE Rows'
  <2>0. pc[i] = "bootLedger" BY <1>6, <1>0, BootLedgerForm
  <2>1. CASE TRUE
    <3> DEFINE d == WithLedger(View(i))
    <3>1. Wrote(i, d) /\ View(i) \in Dbs BY <2>1, <1>6, <1>0, BootLedgerView
    <3>2. d.runs = View(i).runs BY <3>1, TableGrows
    <3> HIDE DEF d
    <3>3. Others(i) /\ lost' = lost /\ faults' = faults BY <3>1 DEF Wrote
    <3>4. ASSUME Transactional PROVE db' = db /\ work'[i].runs = db.runs
      <4>1. db' = db /\ work'[i] = d /\ View(i) = work[i] BY <3>1, <3>4 DEF Wrote, View
      <4>2. work[i].runs = db.runs BY <3>4, <2>0, <1>0, RowsForm DEF RunsOf, Booting
      <4> QED BY <4>1, <4>2, <3>2
    <3>5. ~Transactional => db'.runs = db.runs BY <3>1, <3>2 DEF Wrote, View
    <3> QED BY <2>0, <3>3, <3>4, <3>5, <1>0, <1>f, <1>g, RowsSame
  <2> QED BY <2>1, <1>6, <1>0, BootLedgerForm
<1>7. ASSUME NEW i \in Instances, BootRow(i) PROVE Rows'
  <2>0. pc[i] = "bootRow" BY <1>7, <1>0, BootRowForm
  <2>e. CASE Ended(i) /\ faults' = faults
    <3>1. Others(i) /\ db' = db /\ lost' = lost /\ pc'[i] \notin InTx BY <2>e DEF Ended, InTx, Booting
    <3> QED BY <2>0, <2>e, <3>1, <1>0, <1>f, <1>g, RowsSame
  <2>1. CASE ~Recorded(View(i), at[i][1])
    <3> DEFINE d == WithRow(View(i), i, at[i][1])
    <3>1. Wrote(i, d) /\ View(i) \in Dbs BY <2>1, <1>7, <1>0, BootRowView
    <3>p. at[i][1] \in 1 .. Knows[i] BY <2>0, <1>0 DEF Position, PositionOf
    <3>2. d.runs = View(i).runs BY <3>p, <3>1, RowGrows
    <3> HIDE DEF d
    <3>3. Others(i) /\ lost' = lost /\ faults' = faults BY <3>1 DEF Wrote
    <3>4. ASSUME Transactional PROVE db' = db /\ work'[i].runs = db.runs
      <4>1. db' = db /\ work'[i] = d /\ View(i) = work[i] BY <3>1, <3>4 DEF Wrote, View
      <4>2. work[i].runs = db.runs BY <3>4, <2>0, <1>0, RowsForm DEF RunsOf, Booting
      <4> QED BY <4>1, <4>2, <3>2
    <3>5. ~Transactional => db'.runs = db.runs BY <3>1, <3>2 DEF Wrote, View
    <3> QED BY <2>0, <3>3, <3>4, <3>5, <1>0, <1>f, <1>g, RowsSame
  <2> QED BY <2>e, <2>1, <1>7, <1>0, BootRowForm
<1>8. ASSUME NEW i \in Instances, BootCommit(i) PROVE Rows'
  <2>1. pc[i] = "bootCommit" /\ pc'[i] = "install" /\ Others(i) /\ db' = View(i) /\ lost' = lost /\ faults' = faults
    BY <1>8, <1>0, BootCommitForm DEF Committed
  <2>2. Transactional => work[i].runs = db.runs BY <2>1, <1>0, RowsForm DEF RunsOf, Booting
  <2>3. db'.runs = db.runs BY <2>1, <2>2 DEF View
  <2> QED BY <2>1, <2>3, <1>0, <1>f, <1>g, RowsSame DEF InTx, Booting
<1>9. ASSUME NEW i \in Instances, CreateLedger(i) PROVE Rows'
  <2>1. Others(i) /\ pc[i] = "ledger" /\ pc'[i] = "read" /\ db' = WithLedger(db) /\ lost' = lost /\ faults' = faults
    BY <1>9, <1>0, CreateForm
  <2>2. db'.runs = db.runs BY <2>1, <1>g, TableGrows
  <2> QED BY <2>1, <2>2, <1>0, <1>f, <1>g, RowsSame DEF InTx, Booting
<1>10. ASSUME NEW i \in Instances, ReadLedger(i) PROVE Rows'
  <2>1. Others(i) /\ db' = db /\ lost' = lost /\ faults' = faults /\ pc[i] # "statement" /\ pc'[i] \notin InTx
    BY <1>10, <1>0 DEF InTx, Booting, TypeOK, ReadLedger, Goto, Others
  <2> QED BY <2>1, <1>0, <1>f, <1>g, RowsSame
<1>11. ASSUME NEW i \in Instances, File(i) PROVE Rows'
  <2>1. Others(i) /\ db' = db /\ lost' = lost /\ faults' = faults /\ pc[i] # "statement"
    BY <1>11, <1>0, FileForm DEF Ended, Moved
  <2>2. Transactional /\ pc'[i] \in InTx => work'[i] = db
    BY <1>11, <1>0, FileForm DEF Ended, Moved, Begin, TypeOK, InTx, Booting
  <2> QED BY <2>1, <2>2, <1>0, <1>f, <1>g, RowsSame
<1>12. ASSUME NEW i \in Instances, Statement(i) PROVE Rows'
  <2> DEFINE v == at[i][1]
             j == at[i][2]
  <2>0. /\ pc[i] = "statement" /\ at[i] \in Statements /\ at[i] = <<v, j>> /\ v \in Versions
        /\ j \in 1 .. Len(Body[v]) /\ j \in Nat /\ Kind(at[i]) = Body[v][j]
    BY <1>12, <1>0, StatementStep, StatementForm, BodyForm DEF Kind
  <2>e. CASE Fails(View(i), at[i])
    <3>1. Ended(i) /\ faults' = faults BY <2>e, <1>12, <1>0, StatementStep DEF Wrote
    <3>2. ASSUME ~Transactional, faults = 0, lost = 0 PROVE FALSE
      <4>1. Body[v][j] = "create" /\ v \in db.temp BY <3>2, <2>0, <2>e DEF Fails, Transactional, Engine, View
      <4>2. PICK k \in Instances : Owns(k, v) BY <3>2, <4>1 DEF IInv, Temporary
      <4>3. k = i BY <3>2, <4>2, <2>0, OnlyOne DEF Owns, IInv
      <4> QED BY <4>1, <4>2, <4>3, <2>0, ReplacingStep DEF Owns
    <3>3. Others(i) /\ db' = db /\ lost' = lost /\ pc'[i] \notin InTx BY <3>1 DEF Ended, InTx, Booting
    <3> QED BY <3>1, <3>2, <3>3, <1>0, <1>f, <1>g, RowsSame
  <2>1. CASE ~Fails(View(i), at[i])
    <3> DEFINE d == After(View(i), at[i])
    <3>1. Wrote(i, d) /\ View(i) \in Dbs BY <2>1, <1>12, <1>0, StatementView
    <3>2. pc'[i] = "statement" /\ at'[i] = <<v, j + 1>> BY <2>1, <1>12, <1>0, StatementStep DEF Ended
    <3>3. \A s \in Statements : d.runs[s] =
            IF s = at[i] /\ Kind(at[i]) = "rows" /\ View(i).runs[s] < 2 THEN View(i).runs[s] + 1 ELSE View(i).runs[s]
      BY <3>1, <2>0, AfterGrows
    <3> HIDE DEF d
    <3>4. Others(i) /\ lost' = lost /\ faults' = faults BY <3>1 DEF Wrote
    <3>5. \A s \in Statements : s[2] \in Nat /\ (s[1] = v /\ s[2] = j => s = at[i]) BY <2>0, StatementForm, BodyForm
    <3>t. \A s \in Statements : View(i).runs[s] \in 0 .. 2 /\ db.runs[s] \in 0 .. 2 BY <3>1, <1>g DEF Dbs
    <3>6. ASSUME Transactional PROVE db'.runs = db.runs /\ RunsRecorded(db') /\ RunsOf(i)'
      <4>1. db' = db /\ work'[i] = d /\ View(i) = work[i] BY <3>1, <3>6 DEF Wrote, View
      <4>2. RunsRecorded(db) /\ RunsOf(i) BY <3>6, <1>0, RowsForm
      <4>3. ASSUME NEW s \in Statements, s[1] # v \/ s[2] >= j + 1 PROVE work'[i].runs[s] = db'.runs[s]
        <5>1. s # at[i] /\ (s[1] # v \/ s[2] >= j) BY <4>3, <3>5, <2>0
        <5>2. work[i].runs[s] = db.runs[s] BY <5>1, <4>2, <2>0 DEF RunsOf
        <5> QED BY <5>1, <5>2, <4>1, <3>3
      <4>4. ASSUME NEW s \in Statements, s[1] = v PROVE work'[i].runs[s] <= db'.runs[s] + 1
        <5>1. CASE s = at[i]
          <6>1. work[i].runs[s] = db.runs[s] BY <5>1, <4>2, <2>0 DEF RunsOf
          <6>2. work'[i].runs[s] = IF Kind(at[i]) = "rows" /\ work[i].runs[s] < 2 THEN work[i].runs[s] + 1 ELSE work[i].runs[s]
            BY <5>1, <4>1, <3>3
          <6> QED BY <6>1, <6>2, <4>1, <3>t
        <5>2. CASE s # at[i]
          <6>1. work[i].runs[s] <= db.runs[s] + 1 BY <4>4, <4>2, <2>0 DEF RunsOf
          <6>2. work'[i].runs[s] = work[i].runs[s] BY <5>2, <4>1, <3>3
          <6> QED BY <6>1, <6>2, <4>1
        <5> QED BY <5>1, <5>2
      <4>5. RunsOf(i)'
        <5>1. at'[i][1] = v /\ at'[i][2] = j + 1 BY <3>2
        <5>2. pc'[i] \notin Booting BY <3>2 DEF Booting
        <5> QED BY <5>1, <5>2, <4>3, <4>4, RowsNext
      <4> QED BY <4>1, <4>2, <4>5
    <3>7. ASSUME ~Transactional, faults + lost = 0, NEW s \in Statements
          PROVE /\ db'.runs[s] <= 1
                /\ db'.runs[s] > 0 => (db.runs[s] > 0 /\ ~Past(i, s)) \/ Past(i, s)'
      <4>1. db' = d /\ View(i) = db BY <3>1, <3>7 DEF Wrote, View
      <4>0. faults = 0 /\ lost = 0
        <5>1. lost \in Nat BY <1>0 DEF TypeOK
        <5> QED BY <5>1, <1>f, <3>7
      <4>2. db.runs[s] <= 1 /\ (db.runs[s] > 0 => Recorded(db, s[1]) \/ \E k \in Instances : Past(k, s))
        BY <3>7, <1>0, RowsForm
      <4>3. CASE s = at[i]
        <5>1. ~Recorded(db, s[1]) BY <4>3, <4>0, <3>7, <2>0 DEF IInv, Alone, AloneOf
        <5>2. \A k \in Instances : ~Past(k, s)
          <6>1. ASSUME NEW k \in Instances, Past(k, s) PROVE FALSE
            <7>1. k = i BY <6>1, <4>0, <3>7, <2>0, OnlyOne DEF Past, IInv
            <7> QED BY <6>1, <7>1, <4>3, <2>0 DEF Past
          <6> QED BY <6>1
        <5>3. db.runs[s] = 0 BY <4>2, <5>1, <5>2, <3>t
        <5>4. db'.runs[s] <= 1 BY <5>3, <3>3, <4>1
        <5>5. Past(i, s)' BY <4>3, <3>2, <2>0, RowsNext
        <5> QED BY <5>4, <5>5
      <4>4. CASE s # at[i]
        <5>1. db'.runs[s] = db.runs[s] BY <4>4, <4>1, <3>3
        <5>2. Past(i, s) => Past(i, s)' BY <3>2, <3>5, <2>0, RowsNext DEF Past
        <5> QED BY <5>1, <5>2, <4>2
      <4> QED BY <4>3, <4>4
    <3>8. lost \in Nat /\ faults' \in Nat BY <3>4, <1>0, <1>f DEF TypeOK
    <3>9. faults' + lost' = 0 => faults = 0 /\ faults + lost = 0 BY <3>4, <3>8
    <3>10. pc[i] \in InTx BY <2>0 DEF InTx
    <3> QED BY <3>4, <3>6, <3>7, <3>8, <3>9, <3>10, <1>0, <1>g, RowsOthers
  <2> QED BY <2>e, <2>1
<1>13. ASSUME NEW i \in Instances, Record(i) PROVE Rows'
  <2> DEFINE v == at[i][1]
  <2>0. pc[i] = "statement" /\ at[i] \notin Statements BY <1>13, <1>0, RecordForm
  <2>1. v \in 1 .. Knows[i] /\ v \in Versions /\ at[i][2] = Len(Body[v]) + 1 BY <2>0, <1>0, WholeAtEnd, KnowsForm
  <2>l. lost \in Nat BY <1>0 DEF TypeOK
  <2>e. CASE Recorded(View(i), v)
    <3>1. Ended(i) /\ faults' = faults BY <2>e, <1>13, <1>0, RecordForm
    <3>2. ASSUME ~Transactional, faults = 0, lost = 0 PROVE FALSE
      <4>1. Recorded(db, v) BY <3>2, <2>e DEF View
      <4> QED BY <3>2, <4>1, <2>0 DEF IInv, Alone, AloneOf
    <3>3. Others(i) /\ db' = db /\ lost' = lost /\ pc'[i] \notin InTx BY <3>1 DEF Ended, InTx, Booting
    <3> QED BY <3>1, <3>2, <3>3, <1>0, <1>f, <1>g, RowsSame
  <2>2. CASE ~Recorded(View(i), v)
    <3> DEFINE d == WithRow(View(i), i, v)
    <3>1. Committed(i, d) /\ pc'[i] = "file" BY <2>2, <1>13, <1>0, RecordForm DEF Ended
    <3>2. View(i) \in Dbs /\ Grown(db, View(i)) BY <2>0, <1>0, ViewForm DEF InTx, Booting
    <3>3. d.runs = View(i).runs /\ d.ledger = View(i).ledger \cup {<<v, Text[i][v]>>} BY <2>1, <3>2, RowGrows
    <3>4. Recorded(d, v)
      <4>1. <<v, Text[i][v]>> \in d.ledger BY <3>3
      <4> HIDE DEF d
      <4> QED BY <4>1 DEF Recorded
    <3> HIDE DEF d
    <3>5. db' = d /\ Others(i) /\ lost' = lost /\ faults' = faults BY <3>1 DEF Committed
    <3>6. ASSUME Transactional PROVE RunsRecorded(db') /\ RunsOf(i)'
      <4>1. View(i) = work[i] BY <3>6 DEF View
      <4>2. RunsRecorded(db) /\ RunsOf(i) BY <3>6, <1>0, RowsForm
      <4>3. \A w : Recorded(db, w) => Recorded(View(i), w) BY <3>2, RecordedGrows DEF Grown
      <4>4. ~Recorded(db, v) BY <4>3, <2>2
      <4>5. \A w : Recorded(db, w) => Recorded(d, w) BY <4>3, <3>3, RecordedGrows
      <4>6. ASSUME NEW s \in Statements PROVE d.runs[s] <= 1 /\ (d.runs[s] > 0 => Recorded(d, s[1]))
        <5>t. work[i].runs[s] \in Nat /\ db.runs[s] \in Nat BY <4>1, <3>2, <1>g DEF Dbs
        <5>1. CASE s[1] = v
          <6>1. db.runs[s] = 0 BY <5>1, <5>t, <4>2, <4>4 DEF RunsRecorded
          <6>2. work[i].runs[s] <= db.runs[s] + 1 BY <5>1, <4>2, <2>0 DEF RunsOf
          <6> QED BY <5>1, <5>t, <6>1, <6>2, <3>3, <3>4, <4>1
        <5>2. CASE s[1] # v
          <6>1. work[i].runs[s] = db.runs[s] BY <5>2, <4>2, <2>0 DEF RunsOf
          <6> QED BY <6>1, <3>3, <4>1, <4>2, <4>5 DEF RunsRecorded
        <5> QED BY <5>1, <5>2
      <4>7. RunsRecorded(db') BY <4>6, <3>5 DEF RunsRecorded
      <4>8. RunsOf(i)' BY <3>1, RowsNext DEF Booting
      <4> QED BY <4>7, <4>8
    <3>7. ASSUME ~Transactional, faults + lost = 0, NEW s \in Statements
          PROVE db'.runs[s] <= 1 /\ (db'.runs[s] > 0 => (db.runs[s] > 0 /\ ~Past(i, s)) \/ Recorded(db', s[1]))
      <4>1. db'.runs = db.runs BY <3>7, <3>3, <3>5 DEF View
      <4>2. db.runs[s] <= 1 BY <3>7, <1>0, RowsForm
      <4>3. Past(i, s) => Recorded(db', s[1]) BY <3>4, <3>5 DEF Past
      <4> QED BY <4>1, <4>2, <4>3
    <3>8. pc[i] \in InTx BY <2>0 DEF InTx
    <3>9. faults' \in Nat BY <3>5, <1>f
    <3>10. faults' + lost' = 0 => faults = 0 /\ faults + lost = 0 BY <3>5, <2>l, <1>f
    <3> QED BY <3>5, <3>6, <3>7, <3>8, <3>9, <3>10, <1>0, <1>g, RowsOthers
  <2> QED BY <2>e, <2>2
<1>14. ASSUME NEW i \in Instances, Install(i) PROVE Rows'
  <2>1. Others(i) /\ db' = db /\ lost' = lost /\ faults' = faults /\ pc[i] # "statement" /\ pc'[i] \notin InTx
    BY <1>14, <1>0 DEF InTx, Booting, TypeOK, Install, At, Goto, Others
  <2> QED BY <2>1, <1>0, <1>f, <1>g, RowsSame
<1>15. ASSUME NEW i \in Instances, Stop(i) PROVE Rows'
  <2>1. Others(i) /\ db' = db /\ lost' = lost /\ faults' = faults /\ pc[i] # "statement" /\ pc'[i] \notin InTx
    BY <1>15, <1>0, FailForm DEF InTx, Booting, Stop, Ended
  <2> QED BY <2>1, <1>0, <1>f, <1>g, RowsSame
<1>16. ASSUME NEW i \in Instances, Fault(i) PROVE Rows'
  <2>1. Ended(i) /\ faults' # 0 /\ faults' \in Nat BY <1>16, <1>0, EndForm DEF Fault, TypeOK
  <2>2. Others(i) /\ db' = db /\ lost' = lost /\ pc'[i] \notin InTx BY <2>1 DEF Ended, InTx, Booting
  <2> QED BY <2>1, <2>2, <1>0, <1>g, RowsSame
<1>17. ASSUME NEW i \in Instances, LoseLock(i) PROVE Rows'
  <2>1. lost' \in Nat /\ lost' # 0 /\ faults' = faults /\ db' = db /\ pc' = pc /\ at' = at /\ work' = work
    BY <1>17, <1>0 DEF LoseLock, TypeOK, procs
  <2>2. faults' + lost' # 0
    <3>1. faults' \in Nat /\ lost' \in Nat /\ lost' # 0 BY <2>1, <1>f
    <3>2. faults' + lost' = 0 => lost' = 0 BY <3>1, NatSum
    <3> QED BY <3>1, <3>2
  <2>3. \A k \in Instances : RunsOf(k)' <=> RunsOf(k) BY <2>1 DEF RunsOf
  <2> QED BY <2>1, <2>2, <2>3, <1>0, RowsForm, RowsNext DEF Transactional, Engine
<1>18. ASSUME UNCHANGED vars PROVE Rows'
  <2>1. pc' = pc /\ at' = at /\ work' = work /\ lost' = lost /\ faults' = faults /\ db' = db BY <1>18 DEF vars, procs
  <2>2. \A k \in Instances : RunsOf(k)' <=> RunsOf(k) BY <2>1 DEF RunsOf
  <2>3. \A k \in Instances, s \in Statements : Past(k, s)' <=> Past(k, s) BY <2>1 DEF Past
  <2> QED BY <2>1, <2>2, <2>3, <1>0, RowsForm, RowsNext DEF Transactional, Engine
<1> QED BY <1>1, <1>2, <1>3, <1>4, <1>5, <1>6, <1>7, <1>8, <1>9, <1>10, <1>11, <1>12, <1>13, <1>14, <1>15, <1>16, <1>17, <1>18 DEF Next, Step

-----------------------------------------------------------------------------
(***************************************************************************)
(* The first state, and what the invariant says of every other.            *)
(***************************************************************************)
LEMMA FirstState == Init => IInv
<1> SUFFICES ASSUME Init PROVE IInv OBVIOUS
<1>1. /\ db \in Dbs /\ db.temp = {} /\ db.runs = [s \in Statements |-> 0] /\ LedgerOf(db)
      /\ db.engine = "sqlite" \/ db.foreign \/ db.ledgerTable \/ db.schema = {}
  BY InitialAssumption DEF Init, LedgerOf
<1>2. \A i \in Instances : pc[i] = "down" /\ at[i] = <<1, 1>> /\ seen[i] = {} /\ work[i] = NoWork BY DEF Init
<1>3. installation = NoOne /\ lock = NoOne /\ writer = NoOne /\ faults = 0 /\ lost = 0 BY DEF Init
<1>4. TypeOK
  <2>1. at \in [Instances -> (1 .. Len(Body) + 1) \X Nat] BY BodyForm DEF Init
  <2>2. pc \in [Instances -> Labels] BY DEF Init, Labels
  <2>3. seen \in [Instances -> SUBSET (Versions \X Checksums)] BY DEF Init
  <2>4. work \in [Instances -> Dbs \cup {NoWork}] BY DEF Init
  <2>5. faults \in 0 .. MaxFaults /\ lost \in 0 .. MaxLost BY <1>3, MigrationAssumption
  <2> QED BY <1>1, <1>3, <2>1, <2>2, <2>3, <2>4, <2>5 DEF TypeOK
<1>5. \A i \in Instances : pc[i] \notin InTx /\ pc[i] \notin Booting /\ pc[i] \notin UnderLock
  BY <1>2 DEF InTx, Booting, UnderLock
<1>6. Private BY <1>3, <1>5, MigrationAssumption DEF Private
<1>7. Position BY <1>2 DEF Position, PositionOf
<1>8. Left BY <1>2 DEF Left, LeftOf, Booting
<1>9. Truthful BY <1>1, <1>5 DEF Truthful
<1>10. Noted BY <1>2 DEF Noted, NotedOf
<1>11. Tables
  <2>1. \A i \in Instances : LedgerThere(i) BY <1>2 DEF LedgerThere
  <2>2. Engine = "mysql" /\ ~db.foreign /\ ~db.ledgerTable => \A v : ~Last(v) BY <1>1 DEF Last, Engine
  <2> QED BY <1>1, <2>1, <2>2 DEF Tables, Engine
<1>12. Temporary BY <1>1, <1>5 DEF Temporary
<1>13. Alone BY <1>1, <1>2 DEF Alone, AloneOf, UnderLock, Booting
<1>14. Rows
  <2>1. \A s \in Statements : db.runs[s] = 0 BY <1>1
  <2>2. RunsRecorded(db) BY <2>1 DEF RunsRecorded
  <2>3. \A i \in Instances : RunsOf(i) BY <1>2 DEF RunsOf, Booting
  <2> QED BY <2>1, <2>2, <2>3, RowsForm
<1> QED BY <1>4, <1>6, <1>7, <1>8, <1>9, <1>10, <1>11, <1>12, <1>13, <1>14 DEF IInv

\* Migrations are numbered: of some of them one is the last.
LEMMA LastOfSome ==
  ASSUME NEW T, T \subseteq Versions, T # {}
  PROVE  \E v \in T : \A u \in T : u <= v
<1> DEFINE N == Len(Body)
           R == {ss \in Nat \X Nat : ss[1] < ss[2]}
           D == {n \in Nat : N - n \in T}
<1>0. N \in Nat /\ T \subseteq 1 .. N BY BodyForm
<1> HIDE DEF N
<1>1. D # {}
  <2>1. PICK v \in T : TRUE OBVIOUS
  <2>2. N - v \in Nat /\ N - (N - v) = v BY <1>0
  <2> QED BY <2>2
<1>2. IsWellFoundedOn(R, Nat) BY NatLessThanWellFounded DEF OpToRel
<1>3. PICK x \in D : \A y \in D : ~(<<y, x>> \in R)
  <2>1. D \subseteq Nat OBVIOUS
  <2> HIDE DEF D, R
  <2> QED BY <1>1, <1>2, <2>1, WFMin
<1>4. \A y \in D : ~(y < x) BY <1>3
<1>5. N - x \in T /\ x \in Nat BY <1>3
<1>6. ASSUME NEW u \in T PROVE u <= N - x
  <2>1. N - u \in Nat /\ N - (N - u) = u BY <1>0
  <2>2. ~(N - u < x) BY <2>1, <1>4
  <2>3. u \in 1 .. N BY <1>0
  <2> HIDE DEF D
  <2> QED BY <1>0, <1>5, <2>2, <2>3
<1> QED BY <1>5, <1>6

LEMMA Serves == IInv => ServingIsWhole
<1> SUFFICES ASSUME IInv, NEW i \in Instances, pc[i] = "serving"
             PROVE  /\ installation # NoOne
                    /\ \A v \in 1 .. Knows[i] :
                         Part(v) \subseteq db.schema /\ (v \in db.temp => ~Transactional /\ lost > 0) /\ Has(db, i, v)
  BY DEF ServingIsWhole, Has
<1>0. NotedOf(i) BY DEF IInv, Noted
<1>1. installation # NoOne BY <1>0 DEF NotedOf
<1>2. ASSUME NEW v \in 1 .. Knows[i]
      PROVE  Part(v) \subseteq db.schema /\ (v \in db.temp => ~Transactional /\ lost > 0) /\ Has(db, i, v)
  <2>1. Has(db, i, v) BY <1>0 DEF NotedOf
  <2>2. PICK row \in db.ledger : row[1] = v BY <2>1 DEF Has
  <2>3. Part(v) \subseteq db.schema BY <2>2 DEF IInv, Truthful, LedgerOf
  <2>4. v \in db.temp => ~Transactional BY DEF IInv, Temporary
  <2>5. Recorded(db, v) BY <2>2 DEF Recorded
  <2>6. v \in db.temp => lost # 0 BY <2>4, <2>5 DEF IInv, Alone
  <2>7. lost \in Nat BY DEF IInv, TypeOK
  <2> QED BY <2>1, <2>3, <2>4, <2>6, <2>7
<1> QED BY <1>1, <1>2

LEMMA Once == IInv => RowsOnce
<1> SUFFICES ASSUME IInv, NEW s \in Statements, db.runs[s] > 1 PROVE ~Transactional /\ faults + lost > 0
  BY DEF RowsOnce
<1>0. db.runs[s] \in 0 .. 2 BY DEF IInv, TypeOK, Dbs
<1>1. Rows BY DEF IInv
<1>2. ~Transactional BY <1>0, <1>1, RowsForm DEF RunsRecorded
<1>3. faults + lost # 0 BY <1>0, <1>1, <1>2, RowsForm
<1>4. faults \in Nat /\ lost \in Nat BY DEF IInv, TypeOK
<1> QED BY <1>2, <1>3, <1>4

LEMMA OnlyHalf == IInv => StuckOnlyByHalf
<1> SUFFICES ASSUME IInv, db.temp # {} \/ (Unknown /\ ~db.foreign),
                    ~(Engine = "mysql" /\ faults > 0)
             PROVE  \E i \in Instances : pc[i] \in {"part", "bootLedger", "statement"}
  BY DEF StuckOnlyByHalf
<1>0. faults \in Nat /\ db \in Dbs BY DEF IInv, TypeOK
<1>1. ~Transactional => faults = 0 BY <1>0 DEF Transactional
<1>2. CASE db.temp # {}
  <2>1. ~Transactional BY <1>2 DEF IInv, Temporary
  <2>2. PICK v \in db.temp : \E i \in Instances : Owns(i, v) BY <1>1, <1>2, <2>1 DEF IInv, Temporary
  <2> QED BY <2>2 DEF Owns
<1>3. CASE db.temp = {} /\ Unknown /\ ~db.foreign
  <2>1. db.schema # {} /\ ~db.ledgerTable /\ Engine # "sqlite" BY <1>3 DEF Unknown, Occupied
  <2>2. Engine = "mysql" BY <1>0, <1>3, <2>1 DEF IInv, Tables, Dbs, Engine
  <2>3. faults = 0 BY <1>1, <2>2 DEF Transactional
  <2> DEFINE T == {v \in Versions : Part(v) \cap db.schema # {}}
  <2>4. T # {}
    <3>1. PICK s \in db.schema : TRUE BY <2>1
    <3>2. s \in Lasting BY <1>0 DEF Dbs
    <3>3. s[1] \in Versions /\ s \in Part(s[1]) BY <3>2, LastingForm, StatementForm DEF Part
    <3> QED BY <3>1, <3>3
  <2>5. PICK v \in T : \A u \in T : u <= v BY <2>4, LastOfSome
  <2>6. Last(v)
    <3>1. \A w \in Versions : w \in Nat BY BodyForm
    <3>2. ASSUME NEW w \in Versions, w > v PROVE w \notin T BY <2>5, <3>1, <3>2
    <3> QED BY <2>5, <3>2 DEF Last
  <2>7. \E i \in Instances : GoesOn(i, v) BY <1>3, <2>1, <2>2, <2>3, <2>6 DEF IInv, Tables
  <2> QED BY <2>7 DEF GoesOn
<1> QED BY <1>2, <1>3

-----------------------------------------------------------------------------
LEMMA Inductive == Spec => []IInv
<1>1. ASSUME IInv, [Next]_vars PROVE IInv'
  BY <1>1, TypeStep, PrivateStep, PositionStep, LeftStep, TruthfulStep, NotedStep, TablesStep, TemporaryStep,
     AloneStep, RowsStep DEF IInv
<1> QED BY <1>1, FirstState, PTL DEF Spec

\* The database, the instances' positions and copies stay of their types.
THEOREM TypeCorrect == Spec => []TypeOK
<1>1. IInv => TypeOK BY DEF IInv
<1> QED BY <1>1, Inductive, PTL

\* Migrations take effect whole and once, and say so only then: the ledger is
\* truthful, who serves does so over a whole schema, rows change once, and only
\* MySQL leaves a database that nobody starts on, for any migrations, binaries,
\* instances, faults and lost locks (applyMigrations and what it calls).
THEOREM MigratedOnceHolds == Spec => []MigratedOnce
<1>1. IInv => LedgerTrue BY DEF IInv, Truthful, LedgerOf, LedgerTrue
<1>2. IInv => MigratedOnce BY <1>1, Serves, Once, OnlyHalf DEF MigratedOnce
<1> QED BY <1>2, Inductive, PTL

=============================================================================
