---------------------------- MODULE QueryFilters ----------------------------
(***************************************************************************)
(* Trees of filters: what they say of a row, and what internal/core/       *)
(* queryir, expand.go and the PostgreSQL compiler make of them.  They are  *)
(* recursive, and Query has them as parameters.                            *)
(*                                                                         *)
(* A filter is a "test" of a field, a "segment" by its ID, or an "and" or  *)
(* "or" of filters.  A part of a statement is a tree of tests, each with   *)
(* the numbers of its arguments.                                           *)
(***************************************************************************)
EXTENDS Integers, Sequences, SequencesExt

CONSTANT Segments   \* id -> filters: never changed

\* What a test says of a row.
Says(op, value, values) ==
  CASE op = "eq" -> value = values[1]
    [] op = "gte" -> value >= values[1]
    [] op = "lte" -> value <= values[1]
    [] op = "between" -> value >= values[1] /\ value <= values[2]
    [] op = "in" -> \E i \in DOMAIN values : value = values[i]
    [] op = "empty" -> value = 0

\* validateFilters: as many values as the operator takes.
Enough(f) ==
  CASE f.op = "between" -> Len(f.values) = 2
    [] f.op = "empty" -> TRUE
    [] OTHER -> Len(f.values) >= 1

RECURSIVE Valid(_)
Valid(fs) ==
  \A i \in DOMAIN fs :
    CASE fs[i].kind \in {"and", "or"} -> Valid(fs[i].of)
      [] fs[i].kind = "segment" -> TRUE
      [] OTHER -> Enough(fs[i])

\* replaceSegments: the filters of a segment take its place; they are not
\* looked at again.
RECURSIVE Replaced(_)
Replaced(fs) ==
  FlattenSeq([i \in DOMAIN fs |->
    CASE fs[i].kind = "segment" -> Segments[fs[i].id]
      [] fs[i].kind \in {"and", "or"} -> <<[fs[i] EXCEPT !.of = Replaced(@)]>>
      [] OTHER -> <<fs[i]>>])

----------------------------------------------------------------------------
(* The compiler.  A filter becomes [ok, part, args]: the part with the     *)
(* numbers of its arguments, after those there are.                        *)

Dropped(as) == [ok |-> FALSE, part |-> <<>>, args |-> as]

\* Variant: every statement part numbers its arguments from one.
NumberedAnew(f, as) == [i \in DOMAIN f.values |-> i]

Numbered(f, as) == [i \in DOMAIN f.values |-> Len(as) + i]

CompiledTest(f, as) ==
  IF Enough(f)
  THEN [ok |-> TRUE, args |-> as \o f.values,
        part |-> [kind |-> "test", field |-> f.field, op |-> f.op, at |-> Numbered(f, as)]]
  ELSE Dropped(as)

RECURSIVE Compiled(_, _)

\* postgresFilters, and the loop over the parts of an OR.
CompiledAll(fs, as) ==
  FoldLeft(LAMBDA done, f :
             LET next == Compiled(f, done.args)
             IN IF next.ok THEN [parts |-> Append(done.parts, next.part), args |-> next.args] ELSE done,
           [parts |-> <<>>, args |-> as], fs)

\* postgresFilter: a filter of no known operator is left out, a segment too.
Compiled(f, as) ==
  CASE f.kind = "test" -> CompiledTest(f, as)
    [] f.kind = "segment" -> Dropped(as)
    [] OTHER -> LET inner == CompiledAll(f.of, as)
                IN IF inner.parts = <<>> THEN Dropped(inner.args)
                   ELSE [ok |-> TRUE, part |-> [kind |-> f.kind, of |-> inner.parts], args |-> inner.args]

----------------------------------------------------------------------------
(* The database.                                                           *)

RECURSIVE Passes(_, _, _)
PassesAll(parts, as, row) == \A i \in DOMAIN parts : Passes(parts[i], as, row)
Passes(part, as, row) ==
  CASE part.kind = "test" -> Says(part.op, row[part.field], [i \in DOMAIN part.at |-> as[part.at[i]]])
    [] part.kind = "and" -> PassesAll(part.of, as, row)
    [] part.kind = "or" -> \E i \in DOMAIN part.of : Passes(part.of[i], as, row)

\* The columns of the tests of a statement.
RECURSIVE Columns(_)
Columns(parts) ==
  UNION {IF parts[i].kind = "test" THEN {parts[i].field} ELSE Columns(parts[i].of) : i \in DOMAIN parts}

----------------------------------------------------------------------------
(* What was asked: each segment for what it says.                          *)

RECURSIVE Holds(_, _)
Holds(f, row) ==
  CASE f.kind = "test" -> Says(f.op, row[f.field], f.values)
    [] f.kind = "segment" -> \A i \in DOMAIN Segments[f.id] : Holds(Segments[f.id][i], row)
    [] f.kind = "and" -> \A i \in DOMAIN f.of : Holds(f.of[i], row)
    [] f.kind = "or" -> \E i \in DOMAIN f.of : Holds(f.of[i], row)

HoldAll(fs, row) == \A i \in DOMAIN fs : Holds(fs[i], row)

\* Two uses of segments that expand.go takes otherwise: a segment inside a
\* segment is dropped, one with several filters inside an OR is spread.
RECURSIVE Spread(_)
Spread(fs) ==
  \E i \in DOMAIN fs :
    \/ fs[i].kind = "or" /\ \E g \in Range(fs[i].of) : g.kind = "segment" /\ Len(Segments[g.id]) > 1
    \/ fs[i].kind \in {"and", "or"} /\ Spread(fs[i].of)
    \/ fs[i].kind = "segment" /\ \E g \in Range(Segments[fs[i].id]) : g.kind = "segment"

\* A segment anywhere.
RECURSIVE Segmented(_)
Segmented(fs) ==
  \E i \in DOMAIN fs : fs[i].kind = "segment" \/ (fs[i].kind \in {"and", "or"} /\ Segmented(fs[i].of))
=============================================================================
