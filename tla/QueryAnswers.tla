---------------------------- MODULE QueryAnswers ----------------------------
(***************************************************************************)
(* What the answer of a Query should be, from the request's own words: the *)
(* filters of the request, of its drill or dashboard, and those of its     *)
(* base, with each segment for what it says.                               *)
(***************************************************************************)
EXTENDS Query

CONSTANT Segments

QF == INSTANCE QueryFilters

\* With the questions as in the versions vs.
RECURSIVE Asked(_, _)
Asked(query, vs) ==
  CASE query.source.kind = "table" -> query.filters
    [] query.source.kind = "model" -> query.filters \o Asked(Models[query.source.id], vs)
    [] query.source.kind = "question" ->
         query.filters \o Asked(Questions[query.source.id][vs[query.source.id]].query, vs)
    [] query.source.kind = "metric" -> query.filters \o Metrics[query.source.id]

\* A value of the dashboard counts for the cards its filter is mapped to.
DashboardHolds(row) ==
  \A i \in DOMAIN req.board.filters :
    LET f == req.board.filters[i]
    IN f.id \in DOMAIN req.values =>
         \A m \in Range(f.mappings) :
           m.card \in {"", req.card} =>
             IF f.type = "date"
             THEN LET r == DayRange(req.values[f.id])
                  IN (r[1] # 0 => row[m.field] >= r[1]) /\ (r[2] # 0 => row[m.field] <= r[2])
             ELSE row[m.field] = req.values[f.id]

\* The conditions of a native card, for the values that are there.
NativeHolds(item, row) ==
  LET values == NativeValues(Mapped(req.board, req.card, req.values), req.values, item.params)
  IN \A i \in DOMAIN item.conditions :
       LET c == item.conditions[i]
       IN c.param \in DOMAIN values =>
            IF c.type = "date"
            THEN ~Unreadable(values[c.param]) /\ QF!HoldAll(Bounds(c.field, values[c.param]), row)
            ELSE row[c.field] = values[c.param]

Wanted(row, vs) ==
  IF req.kind # "card"
  THEN QF!HoldAll(Asked(req.query, vs), row)
       /\ (req.kind = "drill" => row[req.drill.field] = req.drill.value)
  ELSE LET item == Questions[req.question][vs[req.question]]
       IN IF item.native THEN NativeHolds(item, row)
          ELSE QF!HoldAll(Asked(item.query, vs), row) /\ DashboardHolds(row)

\* The answer, without limits.
Whole(vs) == Grouped(q, SelectSeq(table, LAMBDA row : Wanted(row, vs)), LAMBDA row : QF!HoldAll(q.having, row))

\* Left out: three uses of segments that expand.go takes otherwise.  One in
\* HAVING is never looked up, and dropped by the compiler.
Plain == ~QF!Spread(req.query.filters) /\ ~QF!Segmented(q.having)

\* The versions of the questions that were stored while the request ran.
Versions == {vs \in [DOMAIN Questions -> 1 .. MaxSaves + 1] : \A i \in DOMAIN Questions : vs[i] \in first[i] .. saved[i]}

\* The rows of an answer are the first of those that were asked for: every
\* filter of the request, of its base, of their segments, every value of the
\* dashboard that its card is mapped to, with its own argument, and no other
\* filter; each question as it was at some moment of the request.  Excepted are
\* the three uses of segments that Plain names.
AnswerAsAsked ==
  stage = "done" /\ Plain => \E vs \in Versions : IsPrefix(answer.rows, Whole(vs))
=============================================================================
