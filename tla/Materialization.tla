--------------------------- MODULE Materialization ---------------------------
(***************************************************************************)
(* What the runs of one schedule do to its target table: read the recorded *)
(* watermark, compile the source query with it, write the result in one    *)
(* transaction of the target database (SQLConnector.Materialize), and      *)
(* record the new watermark in table materialized_tables of the            *)
(* application database.  The two databases share no transaction.          *)
(*                                                                         *)
(* A source row is identified by an element of Rows and has a value of the *)
(* watermark column; the target is a bag of source rows.                   *)
(***************************************************************************)
EXTENDS Integers, FiniteSetsExt

CONSTANTS
  Rows,            \* the rows the source can come to hold
  Workers,         \* runs that may overlap, when the leases fail
  NamedDatabase,   \* the schedule row itself names its database
  MaxValue,        \* largest value of the watermark column
  MaxCrashes       \* bound of the model

Strategies == {"replace", "truncate_insert", "incremental", "create_only"}

NoMark == 0        \* no watermark: values start at 1

ASSUME MaterializationAssumption ==
  /\ NamedDatabase \in BOOLEAN
  /\ MaxValue \in Nat /\ MaxCrashes \in Nat

VARIABLES
  strategy,  \* of the schedule
  source,    \* source[r]: the watermark value of row r, NoMark: not there yet
  target,    \* target[r]: how often the target table holds row r
  exists,    \* the target table exists
  mark,      \* the watermark recorded in materialized_tables
  pc, from,  \* a run's program point, the watermark it starts from
  batch,     \* table <target>__new of its transaction
  result,    \* the MAX(watermark) its transaction returned
  crashes,
  \* history
  late,      \* rows that arrived at or below a value already read
  losses,    \* commits whose watermark was not recorded, and marks not read
  overlapped \* a run started while another one was in progress

vars == <<strategy, source, target, exists, mark, pc, from, batch, result, crashes, late, losses,
          overlapped>>
data == <<source, target, exists, mark>>

Present == {r \in Rows : source[r] # NoMark}

Held == {r \in Rows : target[r] > 0}

MaxMark(S) == IF S = {} THEN NoMark
              ELSE CHOOSE v \in {source[r] : r \in S} : \A r \in S : source[r] <= v

Init ==
  /\ strategy \in Strategies
  /\ source = [r \in Rows |-> NoMark]
  /\ target = [r \in Rows |-> 0]
  /\ exists = FALSE
  /\ mark = NoMark
  /\ pc = [w \in Workers |-> "idle"]
  /\ from = [w \in Workers |-> NoMark]
  /\ batch = [w \in Workers |-> {}]
  /\ result = [w \in Workers |-> NoMark]
  /\ crashes = 0
  /\ late = {} /\ losses = 0 /\ overlapped = FALSE

\* The world outside adds a row to the source.
Arrive(r, v) ==
  /\ source[r] = NoMark
  /\ source' = [source EXCEPT ![r] = v]
  /\ late' = IF v <= MaxMark(Held \cup UNION {batch[w] : w \in Workers})
             THEN late \cup {r} ELSE late
  /\ UNCHANGED <<target, exists, mark, pc, from, batch, result, crashes, losses, strategy,
                 overlapped>>

-----------------------------------------------------------------------------
\* ByTarget: the row is stored under the database the query ran on, and looked
\* up under the database the schedule names, which may be none.
RecordedMark == IF NamedDatabase THEN mark ELSE NoMark

\* Variant: rows at the watermark are read again.
SelectedFrom(start) ==
  IF strategy = "incremental" /\ start # NoMark
  THEN {r \in Present : source[r] >= start}
  ELSE Present

\* The source query of a run that starts from a watermark: rows strictly above.
Selected(start) ==
  IF strategy = "incremental" /\ start # NoMark
  THEN {r \in Present : source[r] > start}
  ELSE Present

Once(S) == [r \in Rows |-> IF r \in S THEN 1 ELSE 0]
Plus(bag, S) == [r \in Rows |-> bag[r] + Once(S)[r]]

\* Variant: the rows of the last run are left in the table.
WrittenOver(new) == IF exists THEN Plus(target, new) ELSE Once(new)

\* The table after the transaction, by strategy; a missing table is created
\* from the query by every strategy.
Written(new) ==
  CASE ~exists -> Once(new)
    [] exists /\ strategy = "create_only" -> target
    [] exists /\ strategy = "incremental" -> Plus(target, new)
    [] exists /\ strategy \in {"replace", "truncate_insert"} -> Once(new)

\* A run starts.  A watermark that cannot be read is taken for none.
RunRead(w) ==
  /\ pc[w] = "idle"
  /\ pc' = [pc EXCEPT ![w] = "select"]
  /\ \/ from' = [from EXCEPT ![w] = RecordedMark] /\ UNCHANGED <<crashes, losses>>
     \/ /\ crashes < MaxCrashes /\ crashes' = crashes + 1
        /\ from' = [from EXCEPT ![w] = NoMark]
        /\ losses' = losses + 1
  /\ overlapped' = (overlapped \/ \E u \in Workers \ {w} : pc[u] # "idle")
  /\ UNCHANGED <<data, batch, result, late, strategy>>

\* CREATE TABLE <target>__new AS the source query.
RunSelect(w) ==
  /\ pc[w] = "select"
  /\ pc' = [pc EXCEPT ![w] = "commit"]
  /\ batch' = [batch EXCEPT ![w] = Selected(from[w])]
  /\ UNCHANGED <<data, from, result, crashes, late, losses, strategy, overlapped>>

\* Variant: the MAX of the source.
ResultOfSource(w) == MaxMark(Present)

\* MAX(watermark) of the target, read in the transaction.
ResultMark(w) == MaxMark({r \in Rows : Written(batch[w])[r] > 0})

\* The transaction commits.  Its answer reaches the run, which will record
\* the watermark, or is lost, and the run ends as failed.
RunCommit(w) ==
  /\ pc[w] = "commit"
  /\ target' = Written(batch[w])
  /\ exists' = TRUE
  /\ batch' = [batch EXCEPT ![w] = {}]
  /\ \/ /\ pc' = [pc EXCEPT ![w] = "record"]
        /\ result' = [result EXCEPT ![w] = ResultMark(w)]
        /\ UNCHANGED <<crashes, losses>>
     \/ /\ crashes < MaxCrashes /\ crashes' = crashes + 1
        /\ pc' = [pc EXCEPT ![w] = "idle"]
        /\ losses' = losses + 1
        /\ UNCHANGED result
  /\ UNCHANGED <<source, mark, from, late, strategy, overlapped>>

\* The run fails; its transaction is rolled back and nothing is recorded.
RunFail(w) ==
  /\ pc[w] \in {"select", "commit"}
  /\ pc' = [pc EXCEPT ![w] = "idle"]
  /\ batch' = [batch EXCEPT ![w] = {}]
  /\ UNCHANGED <<data, from, result, crashes, late, losses, strategy, overlapped>>

\* Tables.Upsert: the row of the target, whoever wrote it last.
RunUpsert(w) ==
  /\ pc[w] = "record"
  /\ mark' = result[w]
  /\ pc' = [pc EXCEPT ![w] = "idle"]
  /\ UNCHANGED <<source, target, exists, from, batch, result, crashes, late, losses, strategy, overlapped>>

\* The instance dies after the commit, or the ignored Upsert fails.
RunLost(w) ==
  /\ pc[w] = "record" /\ crashes < MaxCrashes
  /\ crashes' = crashes + 1
  /\ losses' = losses + 1
  /\ pc' = [pc EXCEPT ![w] = "idle"]
  /\ UNCHANGED <<data, from, batch, result, late, strategy, overlapped>>

Run(w) == RunRead(w) \/ RunSelect(w) \/ RunCommit(w) \/ RunFail(w) \/ RunUpsert(w)

Next ==
  \/ \E r \in Rows, v \in 1 .. MaxValue : Arrive(r, v)
  \/ \E w \in Workers : Run(w) \/ RunLost(w)

Spec == Init /\ [][Next]_vars

\* Runs go on being started, and Materialize succeeds sooner or later.
FairSpec ==
  Spec /\ \A w \in Workers :
    /\ WF_vars(RunRead(w)) /\ SF_vars(RunSelect(w)) /\ WF_vars(RunUpsert(w))
    /\ SF_vars(RunCommit(w) /\ pc'[w] = "record")

-----------------------------------------------------------------------------
TypeOK ==
  /\ strategy \in Strategies
  /\ source \in [Rows -> 0 .. MaxValue]
  /\ target \in [Rows -> Nat]
  /\ exists \in BOOLEAN
  /\ mark \in 0 .. MaxValue
  /\ pc \in [Workers -> {"idle", "select", "commit", "record"}]
  /\ from \in [Workers -> 0 .. MaxValue]
  /\ batch \in [Workers -> SUBSET Rows]
  /\ result \in [Workers -> 0 .. MaxValue]
  /\ crashes \in 0 .. MaxCrashes
  /\ late \subseteq Rows
  /\ losses \in 0 .. crashes
  /\ overlapped \in BOOLEAN

\* "An incremental run reads only the data above the last watermark"
\* (web/warehouse/warehouse.js): no row is loaded twice.
NoDuplicateRows == \A r \in Rows : target[r] <= 1

\* While the leases keep the runs of a schedule apart, a row is in the target
\* once, and once more for each watermark that was lost: nothing else, no
\* failed run and no row that arrives during a run, repeats it.
DuplicatesOnlyAfterLoss ==
  overlapped \/ \A r \in Rows : target[r] <= 1 + losses

\* The watermark a run starts from hides no row that the target does not
\* hold, except one that came to the source too late, with a value no larger
\* than one already read.  Those are never loaded.
SkippedOnlyIfLate ==
  strategy = "incremental" =>
    \A r \in Present : source[r] <= mark /\ target[r] = 0 => r \in late

\* A full reload leaves one copy of each row, also when runs overlap, lose
\* their answer or their record, or are repeated.
ReloadIsExact == strategy # "incremental" => NoDuplicateRows

\* The target holds what the runs were to load, no more and no less.
TargetIsExact == DuplicatesOnlyAfterLoss /\ SkippedOnlyIfLate /\ ReloadIsExact

\* Every row that came in time is in the target in the end, whatever was lost
\* on the way, unless the table was only to be created.
RowsArrive ==
  \A r \in Rows :
    source[r] # NoMark ~> (target[r] > 0 \/ r \in late \/ strategy = "create_only")
=============================================================================
