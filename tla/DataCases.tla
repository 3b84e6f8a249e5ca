----------------------------- MODULE DataCases ------------------------------
(*****************************************************************************)
(* The requests and first states TLC tries in Catalog, Transfer, Query and   *)
(* Accounts.                                                                 *)
(*****************************************************************************)
EXTENDS Integers, Sequences

CONSTANTS n1, n2, Gone, Nobody

----------------------------------------------------------------------------
(* The catalog: a node that serves and one that starts, with a data source *)
(* in the files of a former version.                                       *)

Host(host, password) == [host |-> host, password |-> password]
To(kind, d, s, n) == [kind |-> kind, id |-> d, settings |-> s, node |-> n]
None == Host(0, 0)
CatalogRequests ==
  { To("add", Gone, Host(2, 2), n1), To("update", "x", Host(2, 2), n1), To("update", "x", Host(1, 0), n2), To("update", "x", Host(2, 2), n2),
    To("remove", "x", None, n2), To("test", "x", Host(1, 0), n1), To("sync", "x", None, n1),
    To("query", "x", None, n2), To("annotate", "x", None, n1) }

----------------------------------------------------------------------------
(* A transfer: two targets, three tables, one of them left out.            *)

TransferRequests ==
  { [kind |-> "transfer", target |-> "k"], [kind |-> "transfer", target |-> "l"], [kind |-> "export", target |-> "k"] }

----------------------------------------------------------------------------
(* Accounts: a member and an administrator, a session each, a key.         *)

Dev(on, personal, write, ttl) == [enabled |-> on, personal |-> personal, write |-> write, ttl |-> ttl]
Account(email, password) == [email |-> email, password |-> password, active |-> TRUE]
AccountAtFirst ==
  { [users |-> [u \in {"u", "v"} |-> Account(u, IF u = "u" THEN "one" ELSE "two")],
     sessions |-> [s \in {"su", "sv"} |-> 1],
     keys |-> [k \in {"k"} |-> [user |-> "u", expires |-> 1]],
     dev |-> d] : d \in {Dev(TRUE, TRUE, TRUE, 1)} }
CredentialOwners == [i \in {"su", "sv", "k"} |-> IF i = "sv" THEN "v" ELSE "u"]

AccountRequests ==
  { [kind |-> "read", by |-> "su"], [kind |-> "read", by |-> "k"], [kind |-> "write", by |-> "k"],
    [kind |-> "logout", by |-> "su"],
    [kind |-> "settings", by |-> "sv", dev |-> Dev(FALSE, TRUE, TRUE, 1)],
    [kind |-> "settings", by |-> "sv", dev |-> Dev(TRUE, FALSE, FALSE, 0)],
    [kind |-> "active", by |-> "sv", user |-> "u", on |-> FALSE],
    [kind |-> "reset", by |-> "sv", user |-> "u", new |-> "three"],
    [kind |-> "dropAny", by |-> "sv", key |-> "k"],
    [kind |-> "createKey", by |-> "su", admin |-> FALSE],
    [kind |-> "dropKey", by |-> "su", key |-> "k"], [kind |-> "dropKey", by |-> "sv", key |-> "k"],
    [kind |-> "password", by |-> "su", current |-> "one", new |-> "three"],
    [kind |-> "password", by |-> "su", current |-> "three", new |-> "one"],
    [kind |-> "profile", by |-> "su", email |-> "w", current |-> "one"],
    [kind |-> "profile", by |-> "su", email |-> "w", current |-> "three"],
    [kind |-> "profile", by |-> "sv", email |-> "w", current |-> "two"],
    [kind |-> "profile", by |-> "su", email |-> "u", current |-> "none"] }

----------------------------------------------------------------------------
(* Queries: tables of up to five rows with limits small enough to meet;    *)
(* the default limit is that of the scanner, as in the code.               *)

Test(field, op, values) == [kind |-> "test", field |-> field, op |-> op, values |-> values]
Segment(i) == [kind |-> "segment", id |-> i]
Both(fs) == [kind |-> "and", of |-> fs]
Either(fs) == [kind |-> "or", of |-> fs]

Row(a, b, c, size) == [a |-> a, b |-> b, c |-> c, size |-> size]
QueryRows ==
  { <<Row(1, 1, 1, 1), Row(2, 1, 2, 1), Row(1, 2, 1, 1), Row(2, 2, 2, 1), Row(1, 1, 2, 1)>>,
    <<Row(1, 1, 1, 3), Row(1, 2, 1, 1)>>, <<Row(1, 1, 1, 2), Row(1, 1, 2, 2), Row(1, 2, 1, 1)>> }

Q(base, filters) ==
  [source |-> base, joins |-> <<>>, fields |-> {"a"}, filters |-> filters, count |-> FALSE, having |-> <<>>, limit |-> 0]
OnTable == [kind |-> "table"]
From(kind, id) == [kind |-> kind, id |-> id]
A(v) == Test("a", "eq", <<v>>)
B(v) == Test("b", "eq", <<v>>)

QueryModels == [m \in {"m"} |-> [Q(OnTable, <<A(1)>>) EXCEPT !.fields = {"b"}]]
QueryMetrics == [m \in {"t"} |-> <<Test("b", "gte", <<1>>)>>]
QuerySegments ==
  [g \in {"one", "two", "nest", "many"} |->
    CASE g = "one" -> <<B(1)>>
      [] g = "two" -> <<A(1), Test("b", "in", <<1>>)>>
      [] g = "nest" -> <<Segment("one")>>
      [] g = "many" -> <<Test("n", "gte", <<4>>)>>]
OfModel == [native |-> FALSE, query |-> Q(From("model", "m"), <<>>)]
OfTable(f) == [native |-> FALSE, query |-> Q(OnTable, f)]
Cond(field, param, type, optional) == [field |-> field, param |-> param, type |-> type, optional |-> optional]
Native(cs, ps) == [native |-> TRUE, conditions |-> cs, params |-> ps]
QueryQuestions ==
  [i \in {"q", "n", "r"} |->
    CASE i = "q" -> <<OfTable(<<A(1)>>), OfTable(<<B(2)>>)>>
      [] i = "n" -> <<Native(<<Cond("a", "x", "plain", TRUE), Cond("b", "y", "date", FALSE), Cond("c", "z", "field", FALSE)>>,
                             {"x", "y", "z"}),
                      Native(<<Cond("a", "x", "plain", FALSE)>>, {})>>
      [] i = "r" -> <<OfModel>>]

Selections ==
  { <<>>, <<B(1)>>, <<Segment("one"), A(2)>>, <<Segment("nest")>>,
    <<Either(<<A(2), Both(<<B(2), Test("c", "lte", <<1>>)>>)>>), Test("b", "between", <<1, 2>>)>>,
    <<Either(<<Segment("one"), A(2)>>)>>, <<Either(<<Segment("two"), B(2)>>)>>,
    <<Test("c", "eq", <<1>>), B(1)>>, <<Test("a", "empty", <<>>)>>, <<Test("a", "between", <<1>>)>> }
QuerySources == {OnTable, From("model", "m"), From("question", "q"), From("question", "r"), From("question", "n"), From("metric", "t")}
Counts == [Q(OnTable, <<A(1)>>) EXCEPT !.count = TRUE, !.having = <<Test("n", "gte", <<3>>)>>]
Queries == {Q(s, f) : s \in QuerySources, f \in Selections}
           \cup {Counts, [Counts EXCEPT !.filters = <<B(1)>>], [Counts EXCEPT !.having = <<Segment("many")>>],
                  [Q(OnTable, <<>>) EXCEPT !.fields = {"o"}],
                 [Q(OnTable, <<Test("c", "eq", <<1>>)>>) EXCEPT !.joins = <<"city">>]}
Limited(query, limit) == [query EXCEPT !.limit = limit]
Plenty == {Q(OnTable, <<>>), Q(OnTable, <<A(1)>>), Q(From("model", "m"), <<>>)}

Day(d) == [kind |-> "day", day |-> d]
Range2(s, e) == [kind |-> "range", start |-> s, end |-> e]
Past(n) == [kind |-> "past", days |-> n]
Map(card, field) == [card |-> card, field |-> field]
Board ==
  [filters |-> <<[id |-> "f", type |-> "text", mappings |-> <<Map("k", "a"), Map("l", "b")>>],
                 [id |-> "d", type |-> "date", mappings |-> <<Map("", "b")>>]>>]
NativeBoard ==
  [filters |-> <<[id |-> "f", type |-> "text", mappings |-> <<Map("k", "x"), Map("l", "z")>>],
                 [id |-> "d", type |-> "date", mappings |-> <<Map("", "y")>>]>>]
NoDay == [kind |-> "number"]
Values == {<<>>, [f |-> 1], [d |-> Day(1)], [f |-> 2, d |-> Range2(2, 0)], [f |-> 1, d |-> Past(1)], [f |-> 1, d |-> NoDay]}
\* Sent by the name of a parameter as well.
Named == {[f |-> 1, x |-> 2, d |-> Day(1)]}
CardAsk(board, card, i, vs) ==
  [kind |-> "card", board |-> board, card |-> card, question |-> i, values |-> vs, query |-> Q(OnTable, <<>>)]

QueryRequests ==
  {[kind |-> "dataset", key |-> FALSE, query |-> x] : x \in Queries}
  \cup {[kind |-> "dataset", key |-> k, query |-> Limited(x, l)] : x \in Plenty, k \in BOOLEAN, l \in {0, 1, 3, 9}}
  \cup {[kind |-> "export", query |-> Limited(x, l)] : x \in Plenty, l \in {0, 1, 9}}
  \cup {[kind |-> "drill", query |-> x, drill |-> [kind |-> k, field |-> "a", value |-> 1]] :
         x \in {Counts, Q(OnTable, <<B(1)>>)}, k \in {"filter", "records"}}
  \cup {CardAsk(Board, c, i, vs) : c \in {"k", "l"}, i \in {"q", "r"}, vs \in Values}
  \cup {CardAsk(NativeBoard, c, "n", vs) : c \in {"k", "l"}, vs \in Values \cup Named}
QueryJoined == [f \in {"c", "o"} |-> IF f = "c" THEN "city" ELSE "order"]
=============================================================================
