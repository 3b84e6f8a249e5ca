---------------------------- MODULE RequestCases ----------------------------
(*****************************************************************************)
(* The requests and first states TLC tries in SignIn, Groups, Publishing and *)
(* Collections.                                                              *)
(*****************************************************************************)
EXTENDS Integers

CONSTANTS old, NoUser, NoCol, NoTab

----------------------------------------------------------------------------
(* Signing in: two members, a google and a wechat provider, one account at  *)
(* each.                                                                    *)

Link(provider, subject, user) == [provider |-> provider, subject |-> subject, user |-> user]

On == [enabled |-> TRUE, secret |-> TRUE]
Off == [enabled |-> FALSE, secret |-> TRUE]
Blank == [enabled |-> TRUE, secret |-> FALSE]

Base == [auth |-> TRUE, providers |-> [g |-> On, w |-> On], links |-> {}, active |-> {"u", "v"}]

SignInAtFirst ==
  { Base,
    [Base EXCEPT !.auth = FALSE, !.links = {Link("g", "x", "u"), Link("w", "y", "u")}],
    [Base EXCEPT !.auth = FALSE, !.providers = [g |-> On, w |-> Off], !.active = {"v"},
                 !.links = {Link("g", "x", "v")}] }

Saves ==
  { [kind |-> "saveAuth", on |-> TRUE], [kind |-> "saveAuth", on |-> FALSE],
    [kind |-> "saveProviders", items |-> [g |-> Off, w |-> Off]],
    [kind |-> "saveProviders", items |-> [g |-> Blank]],
    [kind |-> "saveProviders", items |-> [w |-> Blank]] }
Binds ==
  { [kind |-> "bind", user |-> u, provider |-> "g", subject |-> "x"] : u \in {"u", "v"} }
Unbinds ==
  { [kind |-> "unbind", user |-> "u", provider |-> i] : i \in {"g", "w"} }
Flow(intent, i, x, email) ==
  [kind |-> "oauth", intent |-> intent, provider |-> i, subject |-> x, email |-> email, user |-> NoUser]
Flows == { Flow("bind", "g", "x", "v"), Flow("bind", "w", "z", NoUser), Flow("login", "w", "y", NoUser),
           Flow("login", "g", "n", "v") }
SignInRequests == Saves \cup Binds \cup Unbinds \cup Flows
            \cup {[kind |-> "login", user |-> "u"], [kind |-> "logout"]}

----------------------------------------------------------------------------
(* Groups: two members, two manual groups and one department, two projects. *)

None == [admin |-> FALSE, data |-> "none", sql |-> "none"]
Viewer == [admin |-> FALSE, data |-> "view", sql |-> "none"]
Curator == [admin |-> FALSE, data |-> "curate", sql |-> "query"]
Boss == [admin |-> TRUE, data |-> "none", sql |-> "none"]

Everyone == {"u", "v"}
ByHand == {"m", "n"}
Units == {"d"}

Rule(project, group, role) == [project |-> project, group |-> group, role |-> role]
GroupRows(ms, ns, m, n) ==
  [members |-> [g \in {"admins", "allUsers", "d"} \cup ByHand |-> CASE g = "m" -> ms [] g = "n" -> ns [] OTHER -> {}],
   graph |-> [g \in ByHand |-> IF g = "m" THEN m ELSE n],
   rules |-> {Rule("P", "m", "edit"), Rule("Q", "m", "view")}]
GroupsAtFirst == { GroupRows({"u", "v"}, {"v"}, Curator, None), GroupRows({"v"}, {"u"}, Viewer, Boss) }

Check(c, r) == [kind |-> "capability", user |-> "u", capability |-> c, required |-> r]
Open(q, r) == [kind |-> "project", user |-> "u", project |-> q, owner |-> "d", required |-> r]
SomeChecks == { Check("data", "curate"), Open("P", "edit"), Open("Q", "manage") }
Edits ==
  { [kind |-> "group", group |-> "m", users |-> {"u"}],
    [kind |-> "group", group |-> "admins", users |-> {"u"}],
    [kind |-> "user", user |-> "u", groups |-> {"n"}],
    [kind |-> "user", user |-> "v", groups |-> {"d"}],
    [kind |-> "sync", units |-> [g \in Units |-> {"u"}]], [kind |-> "invite", user |-> "v"],
    [kind |-> "graph", group |-> "m", grant |-> Boss], [kind |-> "graph", group |-> "n", grant |-> Viewer],
    [kind |-> "rules", new |-> FALSE, project |-> "P", rules |-> {Rule("P", "m", "manage")}],
    [kind |-> "rules", new |-> TRUE, project |-> "N", rules |-> {Rule("N", "n", "manage")}] }
GroupsRequests == SomeChecks \cup Edits

----------------------------------------------------------------------------
(* Publishing: one dashboard, published, embedded or private, identifiers   *)
(* for its copies, two tabs.                                                *)

Both == [sharing |-> TRUE, embedding |-> TRUE]
Doc(link, embed, archived) ==
  [uuid |-> link, embed |-> embed, archived |-> archived, text |-> 1, tabs |-> {"a"}, cards |-> {"a"}]
Start(d, s) == [boards |-> [b \in {"d"} |-> d], switches |-> s]
PublishingAtFirst ==
  { Start(Doc({}, FALSE, FALSE), Both), Start(Doc({old}, TRUE, FALSE), Both),
    Start(Doc({old}, FALSE, FALSE), Both) }

Ask(kind) == [kind |-> kind, board |-> "d"]
PublishingRequests ==
  { Ask("enable"), Ask("disable"), Ask("copy"), Ask("archive"), Ask("restore"),
    [kind |-> "embed", board |-> "d", on |-> TRUE], [kind |-> "embed", board |-> "d", on |-> FALSE],
    [kind |-> "edit", board |-> "d", text |-> 2, tabs |-> {"b"}, cards |-> {"b", NoTab}],
    [kind |-> "create", board |-> "new", text |-> 3, tabs |-> {}, cards |-> {NoTab}],
    [kind |-> "settings", board |-> "new", switches |-> [sharing |-> FALSE, embedding |-> FALSE]],
    [kind |-> "visit", board |-> "new", token |-> old, frame |-> TRUE] }

----------------------------------------------------------------------------
(* Collections: two team groups and a personal one, two members and an      *)
(* administrator, two analyses (one in the trash) and a dashboard, an alert *)
(* that fires once.                                                         *)

Col(parent, kind, owner) == [parent |-> parent, kind |-> kind, owner |-> owner]
Item(type, c, archived) == [type |-> type, col |-> c, archived |-> archived]
CollectionsAtFirst ==
  { [cols |-> [c \in {"T", "S", "U"} |-> IF c = "U" THEN Col(NoCol, "personal", "u") ELSE Col(NoCol, "team", NoUser)],
     items |-> [i \in {"q", "o", "d"} |->
                  CASE i = "q" -> Item("question", "U", FALSE)
                    [] i = "o" -> Item("question", "S", TRUE)
                    [] OTHER -> Item("dashboard", "S", FALSE)],
     roles |-> {<<"T", "v", "manage">>, <<"S", "v", "manage">>, <<"S", "u", "view">>},
     alerts |-> [a \in {"a"} |-> [question |-> "q", once |-> TRUE, enabled |-> TRUE]]] }

Create(u, type, c) == [kind |-> "create", user |-> u, type |-> type, col |-> c]
Move(u, i, c) == [kind |-> "move", user |-> u, item |-> i, col |-> c]
InTrash(kind, u, i) == [kind |-> kind, user |-> u, item |-> i]
NewCol(u, parent, personal) == [kind |-> "group", user |-> u, parent |-> parent, personal |-> personal]
Regroup(u, c, parent) == [kind |-> "regroup", user |-> u, col |-> c, parent |-> parent]
Delete(u, c) == [kind |-> "delete", user |-> u, col |-> c]
Alert(kind, u) == [kind |-> kind, user |-> u, alert |-> "a"]
CollectionsRequests ==
  { Create("v", "question", NoCol), Create("v", "question", "T"), Create("v", "dashboard", "S"),
    Move("u", "q", NoCol), Move("v", "q", "T"), Move("v", "o", "T"), Move("v", "o", NoCol), Move("r", "q", "S"),
    InTrash("archive", "r", "q"), InTrash("restore", "v", "o"),
    NewCol("v", "T", FALSE), NewCol("u", "U", FALSE), NewCol("v", NoCol, TRUE), NewCol("r", NoCol, FALSE),
    Regroup("v", "S", "T"), Regroup("v", "T", "S"), Regroup("u", "U", NoCol), Regroup("r", "U", "T"),
    Delete("v", "T"), Delete("v", "S"), Delete("u", "U"),
    [kind |-> "share", user |-> "u", col |-> "U", with |-> {"u", "v"}],
    Alert("run", "u"), Alert("run", "r"), Alert("drop", "u") }
=============================================================================
