------------------------------ MODULE Transfer ------------------------------
(***************************************************************************)
(* Moving a SQLite application database to PostgreSQL or MySQL, and the    *)
(* logical backup (internal/adapters/appdb/transfer.go, the handlers in    *)
(* internal/platform/httpapi/application_database.go), while requests go   *)
(* on writing.                                                             *)
(*                                                                         *)
(* A row is the number of its write, so the rows up to n are the database  *)
(* at one moment.  A read transaction of SQLite sees the database as it is *)
(* at its first SELECT.  In the target a transaction is a private copy;    *)
(* its DELETE of the one row of topbase_installation makes the next one    *)
(* wait, and a row inserted twice violates the primary key.                *)
(***************************************************************************)
EXTENDS Integers

CONSTANTS
  Procs, Requests,
  Tables, Targets,
  Skipped,      \* tables a transfer leaves out: sessions, leases
  Nobody,
  MaxWrites,    \* bound: rows written
  MaxFaults     \* bound: failed statements and crashes

VARIABLES
  source,       \* source[t]: rows in SQLite
  marked,       \* its setting application_database_production_migrated_at
  target,       \* target[k][t]: rows committed
  identity,     \* identity[k]: the installation row, "none", "own" or "source"
  holder,       \* holder[k]: the transaction that has deleted it
  live,         \* the database in use: "source" or a target
  writes, faults,
  req, pc, todo,
  view,         \* view[p]: the snapshot p reads, once it has read
  work,         \* work[p]: rows p has copied, or put into the archive
  raced,        \* history: transfers that began while another was under way
  cut           \* history: cut[p], tables of p's archive whose read broke off

db == <<source, marked, target, identity, holder, live>>
mine == <<pc, todo, view, work>>
vars == <<db, writes, faults, req, mine, raced, cut>>

NoRows == [t \in Tables |-> {}]
Unread == [t \in Tables |-> {-1}]

Init ==
  /\ source = [t \in Tables |-> {0}] /\ marked = FALSE
  /\ target = [k \in Targets |-> NoRows] /\ identity = [k \in Targets |-> "none"]
  /\ holder = [k \in Targets |-> Nobody]
  /\ live = "source" /\ writes = 0 /\ faults = 0
  /\ req \in [Procs -> Requests]
  /\ pc = [p \in Procs |-> "begin"] /\ todo = [p \in Procs |-> {}]
  /\ view = [p \in Procs |-> Unread] /\ work = [p \in Procs |-> NoRows]
  /\ raced = {} /\ cut = [p \in Procs |-> {}]

Goto(p, label) == pc' = [pc EXCEPT ![p] = label]
At(p, kind, label) == req[p].kind = kind /\ pc[p] = label
Target(p) == req[p].target
Ended == {"begin", "ok", "error"}

\* The tables of a transfer: schema_migrations is not among Tables.
Copied == Tables \ Skipped

\* An error: the transaction of the target is rolled back.
Released(p) == holder' = [k \in Targets |-> IF holder[k] = p THEN Nobody ELSE holder[k]]
Forgotten(p) ==
  todo' = [todo EXCEPT ![p] = {}] /\ view' = [view EXCEPT ![p] = Unread] /\ work' = [work EXCEPT ![p] = NoRows]

Refuse(p) ==
  /\ Goto(p, "error") /\ Forgotten(p) /\ Released(p)
  /\ UNCHANGED <<source, marked, target, identity, live, writes, req, raced, cut>>

----------------------------------------------------------------------------
(* MigrateSQLiteToProduction.                                              *)

\* Variant: the setting is not asked for.
StillOpen == TRUE

Available == ~marked

Begin(p) ==
  /\ At(p, "transfer", "begin") /\ live = "source"
  /\ IF Available THEN Goto(p, "open") ELSE Goto(p, "error")
  /\ raced' = IF \E q \in Procs : req[q].kind = "transfer" /\ pc[q] \notin Ended THEN raced \cup {p} ELSE raced
  /\ UNCHANGED <<db, writes, faults, req, todo, view, work, cut>>

\* OpenConfig creates the schema of the target, and its own identity.
Open(p) ==
  /\ pc[p] = "open"
  /\ identity' = [identity EXCEPT ![Target(p)] = IF @ = "none" THEN "own" ELSE @]
  /\ todo' = [todo EXCEPT ![p] = Tables] /\ Goto(p, "inspect")
  /\ UNCHANGED <<source, marked, target, holder, live, writes, faults, req, view, work, raced, cut>>

\* Every table must be empty, sessions and leases too; each is a statement.
Inspect(p) ==
  /\ pc[p] = "inspect"
  /\ \E t \in todo[p] :
       IF target[Target(p)][t] # {} THEN Refuse(p) /\ UNCHANGED faults
       ELSE /\ todo' = [todo EXCEPT ![p] = @ \ {t}]
            /\ UNCHANGED <<db, writes, faults, req, pc, view, work, raced, cut>>

\* Both transactions start; the identity of the target is deleted in its own.
Start(p) ==
  /\ pc[p] = "inspect" /\ todo[p] = {}
  /\ holder[Target(p)] = Nobody /\ holder' = [holder EXCEPT ![Target(p)] = p]
  /\ todo' = [todo EXCEPT ![p] = Copied] /\ Goto(p, "copy")
  /\ UNCHANGED <<source, marked, target, identity, live, writes, faults, req, view, work, raced, cut>>

\* Variant: each table is read for itself.
SeenNow(p) == source

\* What p reads: its first statement fixes the snapshot.
Seen(p) == IF view[p] = Unread THEN source ELSE view[p]

\* copyTable; a row that is there violates the primary key.
CopyTable(p) ==
  /\ pc[p] = "copy"
  /\ \E t \in todo[p] :
       IF req[p].kind = "transfer" /\ target[Target(p)][t] # {} THEN Refuse(p) /\ UNCHANGED faults
       ELSE /\ view' = [view EXCEPT ![p] = Seen(p)]
            /\ work' = [work EXCEPT ![p][t] = Seen(p)[t]]
            /\ todo' = [todo EXCEPT ![p] = @ \ {t}]
            /\ UNCHANGED <<db, writes, faults, req, pc, raced, cut>>

\* What the commit makes visible: all tables and the identity of the source.
Visible(p) ==
  /\ target' = [target EXCEPT ![Target(p)] = work[p]]
  /\ identity' = [identity EXCEPT ![Target(p)] = "source"]

Commit(p) ==
  /\ At(p, "transfer", "copy") /\ todo[p] = {}
  /\ Visible(p) /\ Released(p)
  /\ Goto(p, "close") /\ Forgotten(p)
  /\ UNCHANGED <<source, marked, live, writes, faults, req, raced, cut>>

CloseSource(p) ==
  /\ pc[p] = "close" /\ Goto(p, "mark")
  /\ UNCHANGED <<db, writes, faults, req, todo, view, work, raced, cut>>

Mark(p) ==
  /\ pc[p] = "mark"
  /\ marked' = TRUE /\ Goto(p, "ok")
  /\ UNCHANGED <<source, target, identity, holder, live, writes, faults, req, todo, view, work, raced, cut>>

\* A statement fails.  A commit that fails may have happened.
Fails(p) ==
  /\ pc[p] \notin Ended /\ faults < MaxFaults /\ faults' = faults + 1
  /\ \/ Refuse(p)
     \/ /\ At(p, "transfer", "copy") /\ todo[p] = {}
        /\ Visible(p) /\ Released(p) /\ Goto(p, "error") /\ Forgotten(p)
        /\ UNCHANGED <<source, marked, live, writes, req, raced, cut>>

----------------------------------------------------------------------------
(* ExportLogical: all tables, in one transaction, into an archive.         *)

Export(p) ==
  /\ At(p, "export", "begin") /\ live = "source"
  /\ todo' = [todo EXCEPT ![p] = Tables] /\ Goto(p, "copy")
  /\ UNCHANGED <<db, writes, faults, req, view, work, raced, cut>>

\* The loop over the rows ends at an error too, and nobody asks rows.Err:
\* the archive goes on without the rest of the table.
BreakOff(p) ==
  /\ At(p, "export", "copy") /\ faults < MaxFaults /\ faults' = faults + 1
  /\ \E t \in todo[p] : \E some \in SUBSET Seen(p)[t] :
       /\ some # Seen(p)[t]
       /\ view' = [view EXCEPT ![p] = Seen(p)]
       /\ work' = [work EXCEPT ![p][t] = some]
       /\ todo' = [todo EXCEPT ![p] = @ \ {t}]
       /\ cut' = [cut EXCEPT ![p] = @ \cup {t}]
  /\ UNCHANGED <<db, writes, req, pc, raced>>

Exported(p) ==
  /\ At(p, "export", "copy") /\ todo[p] = {}
  /\ Goto(p, "ok")
  /\ UNCHANGED <<db, writes, faults, req, todo, view, work, raced, cut>>

----------------------------------------------------------------------------
(* Others: requests write, the process dies, the operator switches to the  *)
(* target after a transfer that succeeded and restarts.                    *)

Write(t) ==
  /\ writes < MaxWrites /\ writes' = writes + 1
  /\ IF live = "source"
     THEN source' = [source EXCEPT ![t] = @ \cup {writes'}] /\ UNCHANGED target
     ELSE target' = [target EXCEPT ![live][t] = @ \cup {writes'}] /\ UNCHANGED source
  /\ UNCHANGED <<marked, identity, holder, live, faults, req, mine, raced, cut>>

Killed(database) ==
  /\ pc' = [p \in Procs |-> IF pc[p] \in Ended THEN pc[p] ELSE "error"]
  /\ todo' = [p \in Procs |-> {}]
  /\ view' = [p \in Procs |-> IF pc[p] = "ok" THEN view[p] ELSE Unread]
  /\ work' = [p \in Procs |-> IF pc[p] = "ok" THEN work[p] ELSE NoRows]
  /\ holder' = [k \in Targets |-> Nobody]
  /\ live' = database
  /\ UNCHANGED <<source, marked, target, identity, writes, req, raced, cut>>

Crash == faults < MaxFaults /\ faults' = faults + 1 /\ live = "source" /\ Killed("source")

Switch(k) ==
  /\ live = "source" /\ \E p \in Procs : At(p, "transfer", "ok") /\ Target(p) = k
  /\ Killed(k) /\ UNCHANGED faults

----------------------------------------------------------------------------
Next ==
  \/ \E p \in Procs :
       \/ Begin(p) \/ Open(p) \/ Inspect(p) \/ Start(p) \/ CopyTable(p) \/ Commit(p) \/ CloseSource(p) \/ Mark(p)
       \/ Fails(p) \/ Export(p) \/ BreakOff(p) \/ Exported(p)
  \/ \E t \in Tables : Write(t)
  \/ Crash
  \/ \E k \in Targets : Switch(k)

Spec == Init /\ [][Next]_vars

----------------------------------------------------------------------------
(* Properties.                                                             *)

\* The rows of a table up to write n, and those of tables ts up to one moment.
UpTo(t, n) == {r \in source[t] : r <= n}
OfOneMoment(rows, ts) == \E n \in 0 .. MaxWrites : \A t \in ts : rows[t] \cap source[t] = UpTo(t, n)

\* An archive shows every table at one moment; of a table whose read broke
\* off (transfer.go:221-239) it shows rows of that moment and no others.
ArchiveOfOneMoment(p) ==
  \E n \in 0 .. MaxWrites : \A t \in Tables :
    /\ work[p][t] \cap source[t] \subseteq UpTo(t, n)
    /\ t \notin cut[p] => UpTo(t, n) \subseteq work[p][t]

\* A target shows nothing of a transfer, or all of it: every table as the
\* source was at one moment, the sessions left out, and the identity of the
\* source.  An archive is of one moment too, whatever was written meanwhile;
\* it is whole unless a read of it broke off.
CopiesOneMoment ==
  /\ \A k \in Targets :
       IF identity[k] = "source"
       THEN OfOneMoment(target[k], Copied) /\ \A t \in Skipped : target[k][t] \cap source[t] = {}
       ELSE target[k] = NoRows
  /\ \A p \in Procs : At(p, "export", "ok") => ArchiveOfOneMoment(p)

\* The transfer is done once: two transfers that both report success to two
\* targets were under way at the same time.
OneTargetOrOverlap ==
  \A p, q \in Procs :
    At(p, "transfer", "ok") /\ At(q, "transfer", "ok") /\ Target(p) # Target(q) => p \in raced \/ q \in raced

-----------------------------------------------------------------------------
\* What the theorems assume of the constants: transfers and archives only.
Plausible ==
  /\ MaxWrites \in Nat /\ Skipped \subseteq Tables /\ "source" \notin Targets
  /\ \A r \in Requests : r.kind \in {"transfer", "export"} /\ r.target \in Targets
=============================================================================
