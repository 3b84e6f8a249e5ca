---------------------------- MODULE Collections ----------------------------
(***************************************************************************)
(* Data groups (collections), the analyses (questions) and dashboards in   *)
(* them, sharing a personal group, the trash and the alerts of an analysis *)
(* (internal/app/content/service.go and share.go, internal/app/notify/     *)
(* alert.go, the handlers in internal/platform/httpapi/identity.go,        *)
(* dashboard.go and share.go).                                             *)
(*                                                                         *)
(* No table has a foreign key, and no check is in a transaction with the   *)
(* statement it allows.  A process is one request; a new row has the       *)
(* process as its identifier.  knew[p] is history: what p found to be true.*)
(* The rules of team groups are given as roles; Groups has their list.     *)
(***************************************************************************)
EXTENDS Integers

CONSTANTS
  Procs, Requests,
  Users, Admins,
  Alerts,
  NoCol, NoUser,
  Starts     \* the rows the model starts from

VARIABLES
  cols,      \* cols[c]: parent, kind and owner of data group c
  items,     \* items[i]: type, group and archive flag of an analysis or dashboard
  roles,     \* <<group, user, role>>: what the access rules come to
  shares,    \* <<group, user>>
  alerts,    \* alerts[a]: its analysis, whether it fires once, whether it is enabled
  notes,     \* notes[a]: the notifications of alert a
  req, pc, mem,
  knew,      \* history
  raced      \* history: the groups, items and alerts written after a rival's write

rows == <<cols, items, roles, shares, alerts, notes>>
vars == <<rows, req, pc, mem, knew, raced>>

Init ==
  /\ \E s \in Starts : cols = s.cols /\ items = s.items /\ roles = s.roles /\ alerts = s.alerts
  /\ shares = {}
  /\ notes = [a \in Alerts |-> 0]
  /\ req \in [Procs -> Requests]
  /\ pc = [p \in Procs |-> "begin"]
  /\ mem = [p \in Procs |-> [col |-> NoCol, from |-> NoCol, kind |-> "team", owner |-> NoUser, once |-> FALSE]]
  /\ knew = [p \in Procs |-> {}] /\ raced = {}

At(p, kinds, label) == req[p].kind \in kinds /\ pc[p] = label
Goto(p, label) == pc' = [pc EXCEPT ![p] = label]
Learn(p, facts) == knew' = [knew EXCEPT ![p] = @ \cup facts]
Answer(p, label) == Goto(p, label) /\ UNCHANGED <<rows, req, mem, knew, raced>>

\* p writes x although something it had found true is no longer so.
Overtaken(p, x, fact, holds) == raced' = raced \cup (IF fact \in knew[p] /\ ~holds THEN {x} ELSE {})

With(f, x, v) == [y \in DOMAIN f \cup {x} |-> IF y = x THEN v ELSE f[y]]

----------------------------------------------------------------------------
(* Access.                                                                *)

RoleRank == [view |-> 1, edit |-> 2, manage |-> 3]

\* CanAccessProject, with the rules resolved.
CanAccessProject(u, c, required) ==
  \/ u \in Admins
  \/ cols[c].kind = "personal" /\ cols[c].owner = u
  \/ cols[c].kind = "team" /\ \E r \in roles : r[1] = c /\ r[2] = u /\ RoleRank[r[3]] >= RoleRank[required]

\* Variant: whoever a personal group is shared with may do everything.
CanAccessShared(u, c, required) ==
  /\ c \in DOMAIN cols
  /\ CanAccessProject(u, c, required) \/ (cols[c].kind = "personal" /\ <<c, u>> \in shares)

\* canAccessCollection; an administrator passes canAccessQuestion for a group
\* that is gone.
CanAccessCollection(u, c, required) ==
  /\ c \in DOMAIN cols
  /\ \/ CanAccessProject(u, c, required)
     \/ required = "view" /\ cols[c].kind = "personal" /\ <<c, u>> \in shares

CanAccessItem(u, c, required) == u \in Admins \/ CanAccessCollection(u, c, required)

\* What the comment of content_access.go:33 promises.
Editor(u, c) == u \in Admins \/ (c \in DOMAIN cols /\ CanAccessProject(u, c, "edit"))

----------------------------------------------------------------------------
(* Analyses and dashboards.                                               *)

Own(u) == {c \in DOMAIN cols : cols[c].owner = u}

\* Variant: the wrong kind of group is looked for.
FoundOwnTeam(u) == {c \in Own(u) : cols[c].kind = "team"}

FoundOwn(u) == Own(u)

\* EnsurePersonalCollection: the first group of the user, or a new one.
EnsurePersonalCollection(p) ==
  LET u == req[p].user IN
  \/ /\ At(p, {"create", "move"}, "own")
     /\ \/ \E c \in FoundOwn(u) : mem' = [mem EXCEPT ![p].col = c] /\ Goto(p, "enter")
        \/ FoundOwn(u) = {} /\ mem' = mem /\ Goto(p, "own group")
     /\ Learn(p, IF Own(u) = {} THEN {"no own group"} ELSE {})
     /\ UNCHANGED <<rows, req, raced>>
  \/ /\ At(p, {"create", "move"}, "own group")
     /\ cols' = With(cols, p, [parent |-> NoCol, kind |-> "personal", owner |-> u])
     /\ mem' = [mem EXCEPT ![p].col = p]
     /\ Overtaken(p, u, "no own group", Own(u) = {})
     /\ Goto(p, "enter")
     /\ UNCHANGED <<items, roles, shares, alerts, notes, req, knew>>

\* The group an item is to enter, unless it is in it: its edit permission.
Enter(p) ==
  LET u == req[p].user
      c == mem[p].col IN
  /\ At(p, {"create", "move"}, "enter")
  /\ Goto(p, IF c = mem[p].from \/ CanAccessCollection(u, c, "edit") THEN "store" ELSE "refused")
  /\ Learn(p, (IF c \in DOMAIN cols THEN {"target"} ELSE {}) \cup (IF Editor(u, c) THEN {"enter"} ELSE {}))
  /\ UNCHANGED <<rows, req, mem, raced>>

\* createQuestion and createDashboard: without a group, into the user's own.
CreateItem(p) ==
  LET c == mem[p].col IN
  \/ /\ At(p, {"create"}, "begin")
     /\ mem' = [mem EXCEPT ![p].col = req[p].col]
     /\ Goto(p, IF req[p].col = NoCol THEN "own" ELSE "enter")
     /\ UNCHANGED <<rows, req, knew, raced>>
  \/ /\ At(p, {"create"}, "store")
     /\ items' = With(items, p, [type |-> req[p].type, col |-> c, archived |-> FALSE])
     /\ Overtaken(p, c, "target", c \in DOMAIN cols)
     /\ Goto(p, "done")
     /\ UNCHANGED <<cols, roles, shares, alerts, notes, req, mem, knew>>

\* The group that the page wants item i in: updateQuestion puts an analysis
\* without one into the user's own, updateDashboard leaves a dashboard.
Wanted(p, i) == IF req[p].col = NoCol /\ items[i].type = "dashboard" THEN items[i].col ELSE req[p].col

\* updateQuestion and updateDashboard: the item is stored whole.
MoveItem(p) ==
  LET i == req[p].item
      u == req[p].user
      c == mem[p].col IN
  \/ /\ At(p, {"move"}, "begin")
     /\ mem' = [mem EXCEPT ![p].from = items[i].col, ![p].col = Wanted(p, i)]
     /\ Goto(p, IF ~CanAccessItem(u, items[i].col, "edit") THEN "refused"
                ELSE IF Wanted(p, i) = NoCol THEN "own" ELSE "enter")
     /\ Learn(p, (IF Editor(u, items[i].col) THEN {"leave"} ELSE {})
                 \cup (IF Wanted(p, i) \in DOMAIN cols THEN {"target"} ELSE {}))
     /\ UNCHANGED <<rows, req, raced>>
  \/ /\ At(p, {"move"}, "store")
     /\ items' = [items EXCEPT ![i].col = c]
     /\ raced' = raced \cup (IF "target" \in knew[p] /\ c \notin DOMAIN cols THEN {c} ELSE {})
                       \cup (IF "leave" \in knew[p] /\ items[i].col # mem[p].from THEN {i} ELSE {})
     /\ Goto(p, "done")
     /\ UNCHANGED <<cols, roles, shares, alerts, notes, req, mem, knew>>

\* archiveQuestion, archiveDashboard and restoreTrash.
SetArchived(p) ==
  \/ /\ At(p, {"archive", "restore"}, "begin")
     /\ Answer(p, IF CanAccessItem(req[p].user, items[req[p].item].col, "edit") THEN "store" ELSE "refused")
  \/ /\ At(p, {"archive", "restore"}, "store")
     /\ items' = [items EXCEPT ![req[p].item].archived = req[p].kind = "archive"]
     /\ Goto(p, "done")
     /\ UNCHANGED <<cols, roles, shares, alerts, notes, req, mem, knew, raced>>

----------------------------------------------------------------------------
(* Data groups.                                                           *)

\* The parent's rules, and a copy of them for the new group p.
Inherited(p) == roles \cup {<<p, r[2], r[3]>> : r \in {x \in roles : x[1] = req[p].parent}}

\* createCollection: a child is what its parent is, with its parent's rules.
\* The errors of its rules are dropped: a list that cannot be read is empty, one
\* that cannot be stored stays as it was.
CreateCollection(p) ==
  LET u == req[p].user
      parent == req[p].parent IN
  \/ /\ At(p, {"group"}, "begin")
     /\ mem' = [mem EXCEPT ![p].kind = IF req[p].personal THEN "personal" ELSE "team",
                           ![p].owner = IF req[p].personal THEN u ELSE NoUser]
     /\ Goto(p, CASE parent # NoCol -> IF CanAccessCollection(u, parent, "edit") THEN "inherit" ELSE "refused"
                  [] OTHER -> IF req[p].personal \/ u \in Admins THEN "insert" ELSE "refused")
     /\ UNCHANGED <<rows, req, knew, raced>>
  \/ /\ At(p, {"group"}, "inherit") /\ parent \notin DOMAIN cols
     /\ Answer(p, "refused")
  \/ /\ At(p, {"group"}, "inherit") /\ parent \in DOMAIN cols
     /\ mem' = [mem EXCEPT ![p].kind = cols[parent].kind, ![p].owner = cols[parent].owner]
     /\ Learn(p, {"target"})
     /\ Goto(p, "insert")
     /\ UNCHANGED <<rows, req, raced>>
  \/ /\ At(p, {"group"}, "insert")
     /\ cols' = With(cols, p, [parent |-> parent, kind |-> mem[p].kind, owner |-> mem[p].owner])
     /\ Overtaken(p, parent, "target", parent \in DOMAIN cols)
     /\ Goto(p, IF mem[p].kind = "team" THEN "rules" ELSE "done")
     /\ UNCHANGED <<items, roles, shares, alerts, notes, req, mem, knew>>
  \/ /\ At(p, {"group"}, "rules")
     /\ roles' \in {Inherited(p), {}, roles}
     /\ Goto(p, "done")
     /\ UNCHANGED <<cols, items, shares, alerts, notes, req, mem, knew, raced>>

\* Variant: a personal group can be put anywhere.
MovableAny(c, parent) == TRUE

Movable(c, parent) == cols[c].owner = NoUser \/ parent = cols[c].parent

\* updateCollection: no look at cycles; a group that is gone stays gone.
UpdateCollection(p) ==
  LET u == req[p].user
      c == req[p].col
      parent == req[p].parent IN
  \/ /\ At(p, {"regroup"}, "begin")
     /\ Answer(p, IF CanAccessCollection(u, c, "edit") THEN "parent" ELSE "refused")
  \/ /\ At(p, {"regroup"}, "parent")
     /\ Goto(p, IF parent = NoCol \/ CanAccessCollection(u, parent, "edit") THEN "reload" ELSE "refused")
     /\ Learn(p, IF parent \in DOMAIN cols THEN {"target"} ELSE {})
     /\ UNCHANGED <<rows, req, mem, raced>>
  \/ /\ At(p, {"regroup"}, "reload")
     /\ Answer(p, IF c \in DOMAIN cols /\ Movable(c, parent) THEN "store" ELSE "refused")
  \/ /\ At(p, {"regroup"}, "store")
     /\ cols' = IF c \in DOMAIN cols THEN [cols EXCEPT ![c].parent = parent] ELSE cols
     /\ Overtaken(p, parent, "target", parent \in DOMAIN cols)
     /\ Goto(p, "done")
     /\ UNCHANGED <<items, roles, shares, alerts, notes, req, mem, knew>>

QuestionsIn(c) == {i \in DOMAIN items : items[i].type = "question" /\ items[i].col = c}
ChildrenOf(c) == {d \in DOMAIN cols : cols[d].parent = c}

\* Variant: what is in the trash is not counted.
InTheWayOutsideTrash(c) == {i \in QuestionsIn(c) : ~items[i].archived}

InTheWay(c) == QuestionsIn(c)

\* deleteCollection: dashboards are not looked at.
DeleteCollection(p) ==
  LET c == req[p].col IN
  \/ /\ At(p, {"delete"}, "begin")
     /\ Answer(p, IF CanAccessCollection(req[p].user, c, "manage") THEN "kind" ELSE "refused")
  \/ /\ At(p, {"delete"}, "kind")
     /\ Answer(p, IF c \in DOMAIN cols /\ cols[c].owner = NoUser THEN "questions" ELSE "refused")
  \/ /\ At(p, {"delete"}, "questions")
     /\ Goto(p, IF InTheWay(c) = {} THEN "children" ELSE "refused")
     /\ Learn(p, IF QuestionsIn(c) = {} THEN {"no questions"} ELSE {})
     /\ UNCHANGED <<rows, req, mem, raced>>
  \/ /\ At(p, {"delete"}, "children")
     /\ Goto(p, IF ChildrenOf(c) = {} THEN "delete" ELSE "refused")
     /\ Learn(p, IF ChildrenOf(c) = {} THEN {"no children"} ELSE {})
     /\ UNCHANGED <<rows, req, mem, raced>>
  \/ /\ At(p, {"delete"}, "delete")
     /\ cols' = [d \in DOMAIN cols \ {c} |-> cols[d]]
     /\ raced' = raced \cup (IF \/ "no questions" \in knew[p] /\ QuestionsIn(c) # {}
                                \/ "no children" \in knew[p] /\ ChildrenOf(c) # {} THEN {c} ELSE {})
     /\ Goto(p, "done")
     /\ UNCHANGED <<items, roles, shares, alerts, notes, req, mem, knew>>

\* putCollectionShares: the owner's list replaces the old one in a transaction.
PutCollectionShares(p) ==
  LET c == req[p].col IN
  \/ /\ At(p, {"share"}, "begin")
     /\ Answer(p, IF c \in DOMAIN cols /\ cols[c].kind = "personal" /\ cols[c].owner = req[p].user
                    THEN "store" ELSE "refused")
  \/ /\ At(p, {"share"}, "store")
     /\ shares' = {s \in shares : s[1] # c} \cup ({c} \X (req[p].with \ {req[p].user}))
     /\ Goto(p, "done")
     /\ UNCHANGED <<cols, items, roles, alerts, notes, req, mem, knew, raced>>

----------------------------------------------------------------------------
(* Alerts.                                                                *)

\* Variant: a disabled alert runs as well.
ArmedAlways(a) == a \in DOMAIN alerts

Armed(a) == a \in DOMAIN alerts /\ alerts[a].enabled

\* Nobody has been told of alert a, or who told is about to disable it.
Pending(a) == notes[a] = 0 \/ \E q \in Procs : At(q, {"run"}, "disarm") /\ req[q].alert = a

\* runAlert: the query, then the notification, then a fire-once alert is
\* disabled, with the error ignored.
RunAlert(p) ==
  LET a == req[p].alert IN
  \/ /\ At(p, {"run"}, "begin")
     /\ Answer(p, IF /\ a \in DOMAIN alerts
                     /\ CanAccessItem(req[p].user, items[alerts[a].question].col, "edit")
                    THEN "load" ELSE "refused")
  \/ /\ At(p, {"run"}, "load")
     /\ mem' = [mem EXCEPT ![p].once = a \in DOMAIN alerts /\ alerts[a].once]
     /\ Learn(p, IF a \in DOMAIN alerts /\ alerts[a].enabled /\ Pending(a) THEN {"armed"} ELSE {})
     /\ Goto(p, IF Armed(a) THEN "query" ELSE "refused")
     /\ UNCHANGED <<rows, req, raced>>
  \/ At(p, {"run"}, "query") /\ \E next \in {"notify", "refused"} : Answer(p, next)
  \/ /\ At(p, {"run"}, "notify")
     /\ notes' = [notes EXCEPT ![a] = @ + 1]
     /\ Overtaken(p, a, "armed", notes[a] = 0)
     /\ Goto(p, IF mem[p].once THEN "disarm" ELSE "done")
     /\ UNCHANGED <<cols, items, roles, shares, alerts, req, mem, knew>>
  \/ /\ At(p, {"run"}, "disarm")
     /\ \/ alerts' = [b \in DOMAIN alerts |-> IF b = a THEN [alerts[b] EXCEPT !.enabled = FALSE] ELSE alerts[b]]
           /\ raced' = raced
        \/ alerts' = alerts /\ raced' = raced \cup {a}
     /\ Goto(p, "done")
     /\ UNCHANGED <<cols, items, roles, shares, notes, req, mem, knew>>

\* deleteAlert: a run in flight still notifies.
DeleteAlert(p) ==
  LET a == req[p].alert IN
  \/ /\ At(p, {"drop"}, "begin")
     /\ Answer(p, IF /\ a \in DOMAIN alerts
                     /\ CanAccessItem(req[p].user, items[alerts[a].question].col, "edit")
                    THEN "delete" ELSE "refused")
  \/ /\ At(p, {"drop"}, "delete")
     /\ alerts' = [b \in DOMAIN alerts \ {a} |-> alerts[b]]
     /\ Goto(p, "done")
     /\ UNCHANGED <<cols, items, roles, shares, notes, req, mem, knew, raced>>

Step(p) ==
  \/ EnsurePersonalCollection(p) \/ Enter(p) \/ CreateItem(p) \/ MoveItem(p) \/ SetArchived(p)
  \/ CreateCollection(p) \/ UpdateCollection(p) \/ DeleteCollection(p) \/ PutCollectionShares(p)
  \/ RunAlert(p) \/ DeleteAlert(p)

Next == \E p \in Procs : Step(p)

Spec == Init /\ [][Next]_vars

----------------------------------------------------------------------------
(* A group inside a personal group belongs to the same member, and the      *)
(* group it is in exists: no overlap of requests puts a member's group      *)
(* under another's, or leaves it behind (service.go:139-143, 157, 175).     *)
PersonalTree ==
  \A c \in DOMAIN cols : cols[c].kind = "personal" /\ cols[c].parent # NoCol =>
    /\ cols[c].parent \in DOMAIN cols
    /\ cols[cols[c].parent].kind = "personal" /\ cols[cols[c].parent].owner = cols[c].owner

(* Every analysis, in the trash as well, is in a group that exists, and so  *)
(* is every group, unless the group was deleted while the analysis or group *)
(* was on its way into it: nothing else stops it (service.go:170-196).      *)
FiledOrOverlap ==
  /\ \A i \in DOMAIN items : items[i].type = "question" => items[i].col \in DOMAIN cols \cup raced
  /\ \A c \in DOMAIN cols : cols[c].parent \in DOMAIN cols \cup raced \cup {NoCol}

(* Requests give a member a personal group only if there is none, unless    *)
(* two of them overlapped: the table has no key for it (service.go:27-43).  *)
OwnGroupOnce ==
  \A p \in DOMAIN cols' \ DOMAIN cols :
    LET u == req[p].user IN
    req[p].kind \in {"create", "move"} => Own(u) = {} \/ u \in raced'

OneOwnGroupOrOverlap == [][OwnGroupOnce]_vars

(* "recipients can inspect its analyses but cannot edit, move, create, or   *)
(* delete anything inside it" (content_access.go:33): who moves an item may *)
(* edit the group it leaves and the one it enters, unless it has moved      *)
(* since it was looked at.                                                 *)
MovedByEditor ==
  \A i \in DOMAIN items : items'[i].col # items[i].col =>
    i \in raced' \/ \E p \in Procs : pc'[p] # pc[p] /\ req[p].kind = "move" /\ {"leave", "enter"} \subseteq knew[p]

MovedByEditorOrOverlap == [][MovedByEditor]_vars

(* An alert that fires once notifies once, unless two runs overlapped or    *)
(* it could not be disabled, which nobody is told (alert.go:50-53).         *)
OnceOrOverlap ==
  \A a \in DOMAIN alerts : alerts[a].once /\ notes[a] > 1 => a \in raced

-----------------------------------------------------------------------------
\* A personal group has an owner, a team group has none.
Kinds(row) == row.kind = "personal" <=> row.owner # NoUser

Columns(row) == {"parent", "kind", "owner"} \subseteq DOMAIN row

\* A personal group of an owner, in the rows cs.
PersonalOf(cs, c, owner) == c \in DOMAIN cs /\ cs[c].kind = "personal" /\ cs[c].owner = owner

Tree(cs) ==
  \A c \in DOMAIN cs : cs[c].kind = "personal" /\ cs[c].parent # NoCol => PersonalOf(cs, cs[c].parent, cs[c].owner)

\* The first rows and the requests a server can meet: rows that this code
\* stored, a member who is logged in, new identifiers for new rows.
Plausible ==
  /\ \A s \in Starts :
       /\ \A c \in DOMAIN s.cols : Columns(s.cols[c]) /\ Kinds(s.cols[c])
       /\ Tree(s.cols)
       /\ \A c \in DOMAIN s.cols : s.cols[c].parent \in DOMAIN s.cols \cup {NoCol}
       /\ \A i \in DOMAIN s.items :
            /\ {"type", "col", "archived"} \subseteq DOMAIN s.items[i]
            /\ s.items[i].type = "question" => s.items[i].col \in DOMAIN s.cols
       /\ \A a \in DOMAIN s.alerts : {"once", "enabled"} \subseteq DOMAIN s.alerts[a]
       /\ DOMAIN s.alerts \subseteq Alerts
       /\ (DOMAIN s.cols \cup DOMAIN s.items) \cap Procs = {}
       /\ NoCol \notin DOMAIN s.cols \cup Procs
  /\ \A r \in Requests :
       /\ r.user # NoUser
       /\ r.kind \in {"move", "archive", "restore"} => \A s \in Starts : r.item \in DOMAIN s.items
=============================================================================
