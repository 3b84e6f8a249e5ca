-------------------------------- MODULE Query --------------------------------
(***************************************************************************)
(* A query from the request to its answer: internal/core/queryir,          *)
(* internal/app/query, the PostgreSQL compiler and the row scanner of      *)
(* internal/adapters, and the handlers that run a dataset, a drill, a CSV  *)
(* export or a dashboard card.                                             *)
(*                                                                         *)
(* What is made of trees of filters is given by operators that are         *)
(* constants, and defined in QueryFilters.  A statement is a tree of tests *)
(* and the arguments; what the database makes of it is Statement.  A table *)
(* is a sequence of rows, functions of the columns; a column of a joined   *)
(* table is one of Joined.  SQL text, quoting and the dialects of the      *)
(* other engines are left out.                                             *)
(***************************************************************************)
EXTENDS Integers, Sequences, SequencesExt

CONSTANTS
  Requests,
  Tables,          \* contents the table may have: sequences of rows
  Models, Metrics, \* id -> query, filters: never changed
  Questions,       \* id -> the versions saved, in this order
  Joined,          \* column -> the table that must be joined
  ForeignKeys,     \* tables the source table refers to
  DefaultLimit, MaxLimit,      \* CompilePostgres: 1000, 10000
  DrillLimit,      \* 2000
  ScanRows, ResultBytes, CellBytes,   \* queryLimits
  KeyRows,         \* DeveloperSettings.MaxQueryRows
  Today,           \* the day of a relative date
  MaxSaves,        \* bound: times a question is saved
  WithoutSegments(_),          \* filters with their segments expanded
  Validated(_),    \* whether Validate accepts filters
  StatementOf(_, _),           \* filters and the arguments so far: parts, args
  PassesTests(_, _, _),        \* parts, arguments and a row
  ColumnsOf(_)     \* columns that parts test

VARIABLES
  req, table,
  saved,           \* saved[i]: the version of question i that is stored
  first,           \* history: saved, when the request came
  stage,
  q,               \* the query under way
  args, where,     \* the compiled statement
  given,           \* the rows the database gives for it
  answer           \* those scanned so far, and meta: marked, bytes

vars == <<req, table, saved, first, stage, q, args, where, given, answer>>

\* Limits as the code has them; Validate refuses a query with a negative one,
\* and the developer settings a key without any rows.
Plausible ==
  /\ \A r \in Requests : "limit" \in DOMAIN r.query /\ r.query.limit \in Nat
  /\ {DefaultLimit, MaxLimit, ScanRows, ResultBytes, CellBytes} \subseteq Nat
  /\ KeyRows \in Nat \ {0}

NoStatement == [where |-> <<>>, having |-> <<>>]
NoAnswer == [rows |-> <<>>, marked |-> FALSE, bytes |-> 0]

Init ==
  /\ req \in Requests /\ table \in Tables
  /\ saved = [i \in DOMAIN Questions |-> 1] /\ first = saved
  /\ stage = "accept" /\ q = req.query
  /\ args = <<>> /\ where = NoStatement /\ given = <<>> /\ answer = NoAnswer

Question(i) == Questions[i][saved[i]]

----------------------------------------------------------------------------
(* The values of a dashboard become tests.                                 *)

Test(field, op, values) == [kind |-> "test", field |-> field, op |-> op, values |-> values]

\* parseDateValue: a day, a range (0: open) or the last days; anything else is
\* an error.
Unreadable(value) == value.kind \notin {"day", "range", "past"}

DayRange(value) ==
  CASE value.kind = "day" -> <<value.day, value.day>>
    [] value.kind = "range" -> <<value.start, value.end>>
    [] value.kind = "past" -> <<Today - value.days, Today>>

Bounds(field, value) ==
  LET range == DayRange(value)
  IN (IF range[1] = 0 THEN <<>> ELSE <<Test(field, "gte", <<range[1]>>)>>)
     \o (IF range[2] = 0 THEN <<>> ELSE <<Test(field, "lte", <<range[2]>>)>>)

\* valueToFilters.
ValueFilters(m) == IF m.type = "date" THEN Bounds(m.field, m.value) ELSE <<Test(m.field, "eq", <<m.value>>)>>

Maps(m, card) == m.card = "" \/ m.card = card

\* mappedValues: the filters of the dashboard that have a value.
Mapped(board, card, values) ==
  LET Of(f) ==
        IF f.id \notin DOMAIN values THEN <<>>
        ELSE LET here == SelectSeq(f.mappings, LAMBDA m : Maps(m, card))
             IN [i \in DOMAIN here |-> [field |-> here[i].field, type |-> f.type, value |-> values[f.id]]]
  IN FlattenSeq([i \in DOMAIN board.filters |-> Of(board.filters[i])])

\* ApplyMappedFilters fails on a date that it cannot read.
Refused(mapped) == \E i \in DOMAIN mapped : mapped[i].type = "date" /\ Unreadable(mapped[i].value)

WithValues(query, mapped) ==
  [query EXCEPT !.filters = @ \o FlattenSeq([i \in DOMAIN mapped |-> ValueFilters(mapped[i])])]

\* nativeValues: what was sent by the name of a parameter of the question comes
\* first, what was sent by any other name last.
NativeValues(mapped, values, params) ==
  LET names == DOMAIN values \cup {mapped[i].field : i \in DOMAIN mapped}
      Latest(n) == CHOOSE i \in DOMAIN mapped :
                   mapped[i].field = n /\ \A j \in DOMAIN mapped : mapped[j].field = n => j <= i
      First == DOMAIN values \cap (params \cup {n \in names : \A i \in DOMAIN mapped : mapped[i].field # n})
  IN [n \in names |-> IF n \in First THEN values[n] ELSE mapped[Latest(n)].value]

----------------------------------------------------------------------------
(* ApplyNative.  A native question is a sequence of conditions on a        *)
(* column: [field, param, type, optional].                                 *)

\* A condition without a value: an optional block goes, a field says TRUE.
Left(c, values) == c.param \notin DOMAIN values

\* A parameter without a value, or with a date that cannot be read.
Missing(conditions, values) ==
  \E i \in DOMAIN conditions :
    LET c == conditions[i] IN
    \/ Left(c, values) /\ ~c.optional /\ c.type = "plain"
    \/ ~Left(c, values) /\ c.type = "date" /\ Unreadable(values[c.param])

Condition(c, values) ==
  IF Left(c, values) THEN <<>>
  ELSE IF c.type = "date" THEN Bounds(c.field, values[c.param])
  ELSE <<Test(c.field, "eq", <<values[c.param]>>)>>

NativeFilters(conditions, values) ==
  FlattenSeq([i \in DOMAIN conditions |-> Condition(conditions[i], values)])

\* The limit of the statement; 0 stands for none asked.
Limit(query) ==
  LET limit == IF query.limit = 0 THEN DefaultLimit ELSE query.limit
  IN IF limit > MaxLimit THEN MaxLimit ELSE limit

----------------------------------------------------------------------------
(* The database.                                                           *)

\* The row of an aggregation over the rows selected.
Counted(rows) == [n |-> Len(rows), size |-> 1]

\* All the rows of the statement, whatever its limit.
Grouped(query, rows, Has(_)) ==
  IF query.count THEN SelectSeq(<<Counted(rows)>>, Has) ELSE rows

Statement(query, parts, as) ==
  Grouped(query, SelectSeq(table, LAMBDA row : PassesTests(parts.where, as, row)),
          LAMBDA row : PassesTests(parts.having, as, row))

----------------------------------------------------------------------------
(* The steps of a request.                                                 *)

Goto(s) == stage' = s
Fail ==
  Goto("error") /\ UNCHANGED <<req, table, saved, first, q, args, where, given, answer>>

\* runDataset: a request with an API key asks for no more than the setting.
CapForKey(limit) == IF limit <= 0 \/ limit > KeyRows THEN KeyRows ELSE limit

\* Drill, of kind "filter" or "records".
Drilled(query, drill) ==
  LET kept == [query EXCEPT !.filters = @ \o <<Test(drill.field, "eq", <<drill.value>>)>>]
  IN IF drill.kind = "filter" THEN kept
     ELSE [kept EXCEPT !.count = FALSE, !.having = <<>>,
                       !.limit = IF @ = 0 \/ @ > DrillLimit THEN DrillLimit ELSE @]

\* The handler, up to DatasetService.Run.
Accept ==
  /\ stage = "accept" /\ req.kind # "card"
  /\ Goto("model")
  /\ q' = CASE req.kind = "dataset" -> [q EXCEPT !.limit = IF req.key THEN CapForKey(@) ELSE @]
            [] req.kind = "export" -> [q EXCEPT !.limit = IF @ = 0 \/ @ > MaxLimit THEN MaxLimit ELSE @]
            [] req.kind = "drill" -> Drilled(q, req.drill)
  /\ UNCHANGED <<req, table, saved, first, args, where, given, answer>>

\* RunDashboardCard reads the question of the card.  A native one is not
\* expanded, and has no limit.
AcceptCard ==
  /\ stage = "accept" /\ req.kind = "card"
  /\ LET item == Question(req.question)
         mapped == Mapped(req.board, req.card, req.values)
     IN IF ~item.native
        THEN IF Refused(mapped) THEN Goto("error") /\ UNCHANGED q
             ELSE Goto("model") /\ q' = WithValues(item.query, mapped)
        ELSE LET values == NativeValues(mapped, req.values, item.params)
             IN IF Missing(item.conditions, values) THEN Goto("error") /\ UNCHANGED q
                ELSE /\ Goto("compile")
                     /\ q' = [req.query EXCEPT !.filters = NativeFilters(item.conditions, values), !.limit = -1]
  /\ UNCHANGED <<req, table, saved, first, args, where, given, answer>>

\* The filters of the base and of the request.
JoinedFilters(base) == base.filters \o q.filters

On(base) == [q EXCEPT !.source = base.source, !.joins = base.joins \o @, !.filters = JoinedFilters(base)]

\* A model also gives its columns; nothing else of the base is taken.
ExpandModel ==
  /\ stage = "model" /\ Goto("question")
  /\ q' = IF q.source.kind = "model"
          THEN LET base == Models[q.source.id]
               IN [On(base) EXCEPT !.fields = IF @ = {} THEN base.fields ELSE @]
          ELSE q
  /\ UNCHANGED <<req, table, saved, first, args, where, given, answer>>

\* A native question has no QueryIR.
ExpandQuestion ==
  /\ stage = "question"
  /\ IF q.source.kind # "question" THEN Goto("metric") /\ UNCHANGED q
     ELSE LET item == Question(q.source.id)
          IN IF item.native THEN Goto("error") /\ UNCHANGED q
             ELSE Goto("metric") /\ q' = On(item.query)
  /\ UNCHANGED <<req, table, saved, first, args, where, given, answer>>

ExpandMetric ==
  /\ stage = "metric" /\ Goto("segments")
  /\ q' = IF q.source.kind = "metric"
          THEN [q EXCEPT !.source = [kind |-> "table"], !.count = TRUE,
                         !.filters = JoinedFilters([filters |-> Metrics[q.source.id]])]
          ELSE q
  /\ UNCHANGED <<req, table, saved, first, args, where, given, answer>>

ExpandSegments ==
  /\ stage = "segments" /\ Goto("joins")
  /\ q' = [q EXCEPT !.filters = WithoutSegments(@)]
  /\ UNCHANGED <<req, table, saved, first, args, where, given, answer>>

\* The tables that the columns f names come from.
TableOf(f) == IF f \in DOMAIN Joined THEN {Joined[f]} ELSE {}

\* collectJoinTables looks at columns and outer filters.
Needed ==
  UNION {TableOf(f) : f \in q.fields}
  \cup UNION {TableOf(q.filters[i].field) : i \in {j \in DOMAIN q.filters : q.filters[j].kind = "test"}}

\* expandImplicitJoins, in the order of a map.
ExpandJoins ==
  /\ stage = "joins"
  /\ LET missing == IF q.source.kind = "table" THEN Needed \ Range(q.joins) ELSE {}
     IN IF missing = {} THEN Goto("compile") /\ UNCHANGED q
        ELSE \E t \in missing :
               IF t \in ForeignKeys THEN UNCHANGED stage /\ q' = [q EXCEPT !.joins = Append(@, t)]
               ELSE Goto("error") /\ UNCHANGED q
  /\ UNCHANGED <<req, table, saved, first, args, where, given, answer>>

\* compilePostgres: Validate, and a table by now.
Compile ==
  /\ stage = "compile"
  /\ IF q.source.kind = "table" /\ Validated(q.filters) /\ Validated(q.having)
     THEN LET w == StatementOf(q.filters, <<>>)
              h == StatementOf(q.having, w.args)
          IN /\ where' = [where |-> w.parts, having |-> h.parts] /\ args' = h.args
             /\ Goto("execute")
             /\ UNCHANGED <<req, table, saved, first, q, given, answer>>
     ELSE Fail

\* The database knows each column, and no table is joined twice.
FromClause ==
  /\ UNION {TableOf(f) : f \in ColumnsOf(where.where) \cup q.fields} \subseteq Range(q.joins)
  /\ IsInjective(q.joins)

\* The first n rows.
Upto(n, rows) == [i \in DOMAIN rows \cap (1 .. n) |-> rows[i]]

\* The statement runs.  A native one (limit -1) names its own tables.
Execute ==
  /\ stage = "execute"
  /\ IF q.limit >= 0 /\ ~FromClause
     THEN Fail
     ELSE /\ given' = IF q.limit < 0 THEN Statement(q, where, args) ELSE Upto(Limit(q), Statement(q, where, args))
          /\ Goto("scan")
          /\ UNCHANGED <<req, table, saved, first, q, args, where, answer>>

\* rows.Next
More == Len(answer.rows) + 1 \in DOMAIN given
Row == given[Len(answer.rows) + 1]

Cell(row) == IF row.size > CellBytes THEN CellBytes ELSE row.size

\* Variant: the size of the result is looked at after the row is kept.
FitsBefore(row) == answer.bytes <= ResultBytes

Fits(row) == answer.bytes + Cell(row) <= ResultBytes

\* scanQueryRows: the first row that is one too many or too large ends it.
ScanRow ==
  /\ stage = "scan" /\ More
  /\ IF Len(answer.rows) >= ScanRows \/ ~Fits(Row)
     THEN Goto("done") /\ answer' = [answer EXCEPT !.marked = TRUE]
     ELSE /\ answer' = [rows |-> Append(answer.rows, Row), bytes |-> answer.bytes + Cell(Row),
                        marked |-> answer.marked \/ Row.size > CellBytes]
          /\ UNCHANGED stage
  /\ UNCHANGED <<req, table, saved, first, q, args, where, given>>

ScanEnd ==
  /\ stage = "scan" /\ ~More
  /\ Goto("done")
  /\ UNCHANGED <<req, table, saved, first, q, args, where, given, answer>>

\* The statement fails, or its rows break off: what was scanned is dropped,
\* and the statement runs again if the connection could be made anew.
Break ==
  /\ stage \in {"execute", "scan"}
  /\ stage' \in {"execute", "error"} /\ given' = <<>> /\ answer' = NoAnswer
  /\ UNCHANGED <<req, table, saved, first, q, args, where>>

\* Someone saves a question.
UpdateQuestion(i) ==
  /\ stage \notin {"done", "error"} /\ saved[i] <= MaxSaves /\ saved[i] < Len(Questions[i])
  /\ saved' = [saved EXCEPT ![i] = @ + 1]
  /\ UNCHANGED <<req, table, first, stage, q, args, where, given, answer>>

Next ==
  \/ Accept \/ AcceptCard
  \/ ExpandModel \/ ExpandQuestion \/ ExpandMetric \/ ExpandSegments \/ ExpandJoins
  \/ Compile \/ Execute \/ ScanRow \/ ScanEnd \/ Break
  \/ \E i \in DOMAIN Questions : UpdateQuestion(i)

Spec == Init /\ [][Next]_vars

----------------------------------------------------------------------------
(* Properties.                                                             *)

\* An answer is within the limits on rows and bytes, one to an API key within
\* that of the developer settings, and it is marked exactly when the scanner
\* left out a row that the database gave or cut off a cell.
AnswerWithinLimits ==
  stage = "done" =>
    /\ answer.bytes <= ResultBytes /\ Len(answer.rows) <= ScanRows
    /\ req.kind = "dataset" /\ req.key => Len(answer.rows) <= KeyRows
    /\ answer.marked <=> More \/ \E i \in DOMAIN answer.rows : answer.rows[i].size > CellBytes

\* docs/performance.md: the default of 1,000 rows is kept, and an answer that
\* reaches it is marked.  A request without a limit of its own is not told
\* that rows are missing: the statement has the limit of the scanner.
CutIsMarked ==
  stage = "done" /\ q.limit = 0 /\ Len(answer.rows) < Len(Statement(q, where, args)) => answer.marked
=============================================================================
