------------------------------- MODULE Groups -------------------------------
(***************************************************************************)
(* Groups, their members and what members may do: table group_members, the *)
(* settings "permission_graph" and "project_access_rules"                  *)
(* (internal/app/identity/service.go and org.go, the handlers in           *)
(* internal/platform/httpapi/subscribe.go, share.go, identity.go).          *)
(*                                                                         *)
(* A list of members is replaced by one DELETE and one INSERT per member,  *)
(* without a transaction; a permission check is a sequence of SELECTs.     *)
(* A process is one request: todo holds the statements it has planned (the *)
(* pairs to look up, the groups to clear, the rows to insert), pc where it *)
(* goes when they are done, mem what it has read.  A handler that changes  *)
(* something has passed its own check, which is a request here.            *)
(***************************************************************************)
EXTENDS Integers

CONSTANTS
  Procs, Requests,
  Users,
  Manual,      \* groups of kind "manual"
  Synced,      \* groups of kind "feishu_dept"
  Starts,      \* the rows the model starts from
  MaxFaults    \* bound of the model: statements that fail, processes that die

\* grp_admins, and grp_all_users that every invited user joins.
System == {"admins", "allUsers"}
AllGroups == System \cup Manual \cup Synced

VARIABLES
  members,   \* members[g]: the rows of table group_members
  graph,     \* graph[g]: the record of group g in the permission graph
  rules,     \* the list of project access rules, as a set
  req, todo, pc, mem,
  faults,
  lists,     \* history: lists[g], the members the edits of g asked for
  asked,     \* history: the graph and the rules the edits asked for
  fresh,     \* history: fresh[p], what p has read and no one else wrote since
  raced,     \* history: what an edit stored over a rival's, or only in part
  truth,     \* history: truth[p], what p's check should have said, at any moment
  changes    \* history: changes[p], the writes during p's check (2: two, or the graph)

rows == <<members, graph, rules>>
vars == <<members, graph, rules, req, todo, pc, mem, faults, lists, asked, fresh, raced, truth, changes>>

NoPlan == [look |-> {}, clear |-> {}, add |-> {}]

Init ==
  /\ \E s \in Starts : members = s.members /\ graph = s.graph /\ rules = s.rules
  /\ req \in [Procs -> Requests]
  /\ todo = [p \in Procs |-> NoPlan]
  /\ pc = [p \in Procs |-> "begin"]
  /\ mem = [p \in Procs |-> [got |-> {}, graph |-> graph, rules |-> {}, left |-> {}]]
  /\ faults = 0 /\ raced = {}
  /\ lists = members
  /\ asked = [graph |-> graph, rules |-> rules]
  /\ fresh = [p \in Procs |-> {}]
  /\ truth = [p \in Procs |-> {}] /\ changes = [p \in Procs |-> 0]

At(p, kind, label) == req[p].kind = kind /\ pc[p] = label /\ todo[p] = NoPlan
Goto(p, label) == pc' = [pc EXCEPT ![p] = label]
Answer(p, label) ==
  Goto(p, label) /\ UNCHANGED <<rows, req, todo, mem, faults, lists, asked, fresh, raced>>

----------------------------------------------------------------------------
(* Who may do what: functions of what a request has read.                 *)

\* The ranks of HasCapability.
Rank == [data |-> [none |-> 0, view |-> 1, curate |-> 2],
         sql  |-> [none |-> 0, query |-> 1, native |-> 2]]

Grants(graphs, groups, capability, required) ==
  \E g \in groups \cap DOMAIN graphs :
    Rank[capability][graphs[g][capability]] >= Rank[capability][required]

\* IsAdmin, for a user who is not in grp_admins.
GraphAdmin(graphs, groups) == \E g \in groups \cap DOMAIN graphs : graphs[g].admin

RoleRank == [view |-> 1, edit |-> 2, manage |-> 3]

\* CanAccessProject: the groups that the rules admit.
Admitted(list, project, required) ==
  {r.group : r \in {x \in list : x.project = project /\ RoleRank[x.role] >= RoleRank[required]}}

GroupsForUser(u) == {g \in AllGroups : u \in members[g]}

\* The decision of a check, made in one moment.
Entitled(r) ==
  LET mine == GroupsForUser(r.user) IN
  \/ "admins" \in mine
  \/ GraphAdmin(graph, mine)
  \/ r.kind = "capability" /\ Grants(graph, mine, r.capability, r.required)
  \/ r.kind = "project" /\ ({r.owner} \cup Admitted(rules, r.project, r.required)) \cap mine # {}

IsCheck(p) == req[p].kind \in {"capability", "project"}

\* IsAdmin, which both checks begin with.
IsAdmin(p, next) ==
  LET u == req[p].user IN
  \/ /\ IsCheck(p) /\ pc[p] = "begin"
     /\ Answer(p, IF u \in members["admins"] THEN "granted" ELSE "isAdmin")
  \/ /\ pc[p] = "isAdmin"
     /\ mem' = [mem EXCEPT ![p].graph = graph]
     /\ Goto(p, "isAdminIn")
     /\ UNCHANGED <<rows, req, todo, faults, lists, asked, fresh, raced>>
  \/ /\ pc[p] = "isAdminIn"
     /\ Answer(p, IF GraphAdmin(mem[p].graph, GroupsForUser(u)) THEN "granted" ELSE next)

\* HasCapability: the graph and the groups are read once more.
HasCapability(p) ==
  \/ req[p].kind = "capability" /\ IsAdmin(p, "graph")
  \/ /\ At(p, "capability", "graph")
     /\ mem' = [mem EXCEPT ![p].graph = graph]
     /\ Goto(p, "groups")
     /\ UNCHANGED <<rows, req, todo, faults, lists, asked, fresh, raced>>
  \/ /\ At(p, "capability", "groups")
     /\ Answer(p, IF Grants(mem[p].graph, GroupsForUser(req[p].user), req[p].capability, req[p].required)
                    THEN "granted" ELSE "denied")

\* Variant: every rule of the project counts, whatever its role.
AdmittedAny(p) == {r.group : r \in {x \in rules : x.project = req[p].project}}

AdmittedNow(p) == Admitted(rules, req[p].project, req[p].required)

\* CanAccessProject, for a team project: its owner group, then the rules, one
\* HasMember for each.
CanAccessProject(p) ==
  LET u == req[p].user IN
  \/ req[p].kind = "project" /\ IsAdmin(p, "owner")
  \/ /\ At(p, "project", "owner")
     /\ Answer(p, IF u \in members[req[p].owner] THEN "granted" ELSE "rules")
  \/ /\ At(p, "project", "rules")
     /\ mem' = [mem EXCEPT ![p].left = AdmittedNow(p)]
     /\ Goto(p, "member")
     /\ UNCHANGED <<rows, req, todo, faults, lists, asked, fresh, raced>>
  \/ /\ At(p, "project", "member") /\ mem[p].left = {}
     /\ Answer(p, "denied")
  \/ /\ At(p, "project", "member")
     /\ \E g \in mem[p].left :
          /\ Goto(p, IF u \in members[g] THEN "granted" ELSE "member")
          /\ mem' = [mem EXCEPT ![p].left = @ \ {g}]
     /\ UNCHANGED <<rows, req, todo, faults, lists, asked, fresh, raced>>

----------------------------------------------------------------------------
(* Edits of members.                                                      *)

\* Variant: the rows are inserted before the old ones are deleted.
DueAnyTime(p) == todo[p].add

\* ReplaceMembers: the rows of a group whose old ones are deleted.
Due(p) == {x \in todo[p].add : x[1] \notin todo[p].clear}

EditedBy(p) == todo[p].clear \cup {x[1] : x \in todo[p].add}
EditedByOthers(p) == UNION {EditedBy(q) : q \in Procs \ {p}}

\* The statements come in the order of the lists the handler has in hand: in
\* one order, and no property depends on which.
First(set) == CHOOSE x \in set : TRUE

\* p has written group g.
Written(p, g) == fresh' = [q \in Procs |-> IF q = p THEN fresh[q] ELSE fresh[q] \ {g}]

\* One lookup of ListGroups, which drops an error: who could not be looked up
\* is no member.
HasMember(p) ==
  LET x == First(todo[p].look) IN
  /\ todo[p].look # {}
  /\ todo' = [todo EXCEPT ![p].look = @ \ {x}]
  /\ \/ /\ mem' = [mem EXCEPT ![p].got = @ \cup {y \in {x} : x[2] \in members[x[1]]}]
        /\ UNCHANGED <<faults, fresh>>
     \/ /\ faults < MaxFaults
        /\ faults' = faults + 1
        /\ fresh' = [fresh EXCEPT ![p] = @ \ {x[1]}]
        /\ UNCHANGED mem
  /\ UNCHANGED <<rows, req, pc, lists, asked, raced>>

\* The DELETE of ReplaceMembers.
DeleteMembers(p) ==
  LET g == First(todo[p].clear) IN
  /\ Due(p) = {} /\ todo[p].clear # {}
  /\ todo' = [todo EXCEPT ![p].clear = @ \ {g}]
  /\ members' = [members EXCEPT ![g] = {}]
  /\ Written(p, g)
  /\ UNCHANGED <<graph, rules, req, pc, mem, faults, lists, asked, raced>>

AddMember(p) ==
  LET x == First(Due(p)) IN
  /\ Due(p) # {}
  /\ todo' = [todo EXCEPT ![p].add = @ \ {x}]
  /\ members' = [members EXCEPT ![x[1]] = @ \cup {x[2]}]
  /\ Written(p, x[1])
  /\ UNCHANGED <<graph, rules, req, pc, mem, faults, lists, asked, raced>>

\* p begins to store wanted[g] for some groups g; meant[g] is what it was for.
Edit(p, wanted, meant, stale) ==
  /\ todo' = [todo EXCEPT ![p] =
                [look |-> {}, clear |-> DOMAIN wanted,
                 add |-> UNION {{g} \X wanted[g] : g \in DOMAIN wanted}]]
  /\ lists' = [g \in AllGroups |-> IF g \in DOMAIN wanted THEN meant[g] ELSE lists[g]]
  /\ raced' = raced \cup stale \cup (DOMAIN wanted \cap EditedByOthers(p))
  /\ Goto(p, "done")
  /\ UNCHANGED <<rows, req, mem, asked, fresh>>

\* Variant: the kind is not looked at.
EditableAny == AllGroups

Editable == Manual

\* ReplaceGroupMembers: the kind is looked up, then the list replaced.
ReplaceGroupMembers(p) ==
  LET wanted == [g \in {req[p].group} |-> req[p].users] IN
  \/ At(p, "group", "begin") /\ req[p].group \notin Editable /\ Answer(p, "refused")
  \/ At(p, "group", "begin") /\ req[p].group \in Editable /\ Edit(p, wanted, wanted, {}) /\ UNCHANGED faults

\* ReplaceUserManualGroups: ListGroups looks the members up one by one, then
\* every manual group is stored again, with or without the user.
ReplaceUserManualGroups(p) ==
  LET With(us, g) == (us \ {req[p].user}) \cup (IF g \in req[p].groups THEN {req[p].user} ELSE {}) IN
  \/ At(p, "user", "begin") /\ ~(req[p].groups \subseteq Manual) /\ Answer(p, "refused")
  \/ /\ At(p, "user", "begin") /\ req[p].groups \subseteq Manual
     /\ todo' = [todo EXCEPT ![p].look = Manual \X Users]
     /\ fresh' = [fresh EXCEPT ![p] = Manual \ EditedByOthers(p)]
     /\ Goto(p, "store")
     /\ UNCHANGED <<rows, req, mem, faults, lists, asked, raced>>
  \/ /\ At(p, "user", "store")
     /\ Edit(p, [g \in Manual |-> With({v \in Users : <<g, v>> \in mem[p].got}, g)],
                [g \in Manual |-> With(lists[g], g)], Manual \ fresh[p])
     /\ UNCHANGED faults

\* SyncDirectory: each department is stored as a group "grp_fs_..." of the
\* members whose open ID is known.  Any error of the lookup means unknown: who
\* could not be looked up is left out, and the sync still answers ok.
SyncDirectory(p) ==
  LET units == req[p].units IN
  /\ At(p, "sync", "begin")
  /\ \/ Edit(p, units, units, {}) /\ UNCHANGED faults
     \/ \E found \in [DOMAIN units -> SUBSET Users] :
          /\ faults < MaxFaults /\ faults' = faults + 1
          /\ \A g \in DOMAIN units : found[g] \subseteq units[g]
          /\ Edit(p, found, units, {g \in DOMAIN units : found[g] # units[g]})

\* InviteUser adds the new row to everybody's group; with an error it answers
\* ok as well.
InviteUser(p) ==
  /\ At(p, "invite", "begin")
  /\ lists' = [lists EXCEPT !["allUsers"] = @ \cup {req[p].user}]
  /\ \/ /\ members' = [members EXCEPT !["allUsers"] = @ \cup {req[p].user}]
        /\ UNCHANGED <<faults, raced>>
     \/ /\ faults < MaxFaults /\ faults' = faults + 1
        /\ raced' = raced \cup {"allUsers"}
        /\ UNCHANGED members
  /\ Goto(p, "done")
  /\ UNCHANGED <<graph, rules, req, todo, mem, asked, fresh>>

----------------------------------------------------------------------------
(* Edits of the graph and of the rules.                                   *)

\* putPermissionGraph: the page's copy of the graph, one group's record
\* changed.  The revision is incremented and never compared.
SavePermissionGraph(p) ==
  LET grant == [g \in {req[p].group} |-> req[p].grant] IN
  \/ /\ At(p, "graph", "begin")
     /\ mem' = [mem EXCEPT ![p].graph = graph]
     /\ fresh' = [fresh EXCEPT ![p] = {"graph"}]
     /\ Goto(p, "store")
     /\ UNCHANGED <<rows, req, todo, faults, lists, asked, raced>>
  \/ /\ At(p, "graph", "store")
     /\ graph' = [mem[p].graph EXCEPT ![req[p].group] = req[p].grant]
     /\ asked' = [asked EXCEPT !.graph[req[p].group] = req[p].grant]
     /\ fresh' = [q \in Procs |-> fresh[q] \ {"graph"}]
     /\ raced' = raced \cup ({"graph"} \ fresh[p])
     /\ Goto(p, "done")
     /\ UNCHANGED <<members, rules, req, todo, mem, faults, lists>>

\* Variant: the rules of other projects are dropped.
NewRulesOnly(list, r) == r.rules

\* putProjectAccess replaces the rules of one project; createCollection adds
\* those of a new one, which has none yet.
NewRules(list, r) == {x \in list : x.project # r.project} \cup r.rules

\* What the saves so far and that of p have asked for.
Asking(p) == [asked EXCEPT !.rules = {x \in @ : x.project # req[p].project} \cup req[p].rules]

\* The error of the read is dropped: a list that cannot be read is empty.  When
\* the list cannot be stored, putProjectAccess answers with the error, and
\* createCollection, whose group is new, ok.
SaveProjectAccessRules(p) ==
  \/ /\ At(p, "rules", "begin")
     /\ mem' = [mem EXCEPT ![p].rules = rules]
     /\ fresh' = [fresh EXCEPT ![p] = {"rules"}]
     /\ Goto(p, "store")
     /\ UNCHANGED <<rows, req, todo, faults, lists, asked, raced>>
  \/ /\ At(p, "rules", "begin") /\ faults < MaxFaults
     /\ faults' = faults + 1
     /\ Goto(p, "store")
     /\ UNCHANGED <<rows, req, todo, mem, lists, asked, fresh, raced>>
  \/ /\ At(p, "rules", "store")
     /\ rules' = NewRules(mem[p].rules, req[p])
     /\ asked' = Asking(p)
     /\ fresh' = [q \in Procs |-> fresh[q] \ {"rules"}]
     /\ raced' = raced \cup ({"rules"} \ fresh[p])
     /\ Goto(p, "done")
     /\ UNCHANGED <<members, graph, req, todo, mem, faults, lists>>
  \/ /\ At(p, "rules", "store") /\ faults < MaxFaults
     /\ faults' = faults + 1
     /\ \/ /\ ~req[p].new /\ Goto(p, "refused")
           /\ UNCHANGED <<asked, raced>>
        \/ /\ req[p].new /\ Goto(p, "done")
           /\ asked' = Asking(p) /\ raced' = raced \cup {"rules"}
     /\ UNCHANGED <<rows, req, todo, mem, lists, fresh>>

\* A planned statement fails, or the process dies before it.
Fault(p) ==
  /\ todo[p] # NoPlan /\ faults < MaxFaults
  /\ faults' = faults + 1
  /\ raced' = raced \cup EditedBy(p)
  /\ todo' = [todo EXCEPT ![p] = NoPlan]
  /\ Goto(p, "failed")
  /\ UNCHANGED <<rows, req, mem, lists, asked, fresh>>

Step(p) ==
  \/ HasCapability(p) \/ CanAccessProject(p)
  \/ HasMember(p) \/ DeleteMembers(p) \/ AddMember(p) \/ Fault(p)
  \/ ReplaceGroupMembers(p) \/ ReplaceUserManualGroups(p) \/ SyncDirectory(p) \/ InviteUser(p)
  \/ SavePermissionGraph(p) \/ SaveProjectAccessRules(p)

\* History: what the checks under way should say now, and the writes they see.
Watch ==
  /\ truth' = [q \in Procs |-> IF IsCheck(q) /\ pc'[q] # "begin" /\ pc[q] \notin {"granted", "denied"}
                                 THEN truth[q] \cup {Entitled(req[q]), Entitled(req[q])'}
                                 ELSE truth[q]]
  /\ changes' = [q \in Procs |->
       IF ~IsCheck(q) \/ pc[q] = "begin" \/ rows' = rows THEN changes[q]
       ELSE IF graph' # graph \/ changes[q] = 2 THEN 2 ELSE changes[q] + 1]

Next == \E p \in Procs : Step(p) /\ Watch

Spec == Init /\ [][Next]_vars

----------------------------------------------------------------------------
TypeOK ==
  /\ members \in [AllGroups -> SUBSET Users] /\ lists \in [AllGroups -> SUBSET Users]
  /\ raced \subseteq AllGroups \cup {"graph", "rules"}
  /\ faults \in 0..MaxFaults

(* "System and synchronized memberships remain owned by their respective   *)
(* sources" (service.go:349): only the directory's sync changes a          *)
(* department, only an invitation everybody's group.                       *)
OwnerChanges ==
  \A g \in AllGroups \ Manual : members'[g] # members[g] =>
    \E p \in Procs : pc'[p] = "done" /\ req[p].kind = (IF g = "allUsers" THEN "invite" ELSE "sync")

OwnedMembershipsStay == [][OwnerChanges]_vars

(* A group that no request is storing holds what the edits asked for, one  *)
(* after the other, unless two of them overlapped, one failed half-way, a   *)
(* member could not be looked up (org.go:28, 60) or a new user not be added *)
(* (service.go:244), which nobody is told.                                  *)
ListStoredOrOverlap ==
  \A g \in AllGroups :
    (\A p \in Procs : g \notin EditedBy(p)) /\ g \notin raced => members[g] = lists[g]

(* The answer of a check, which reads one row after the other, was the     *)
(* truth at some moment of the check, unless two writes fell into it, or   *)
(* one of the graph, which is read twice: a group whose grant becomes the  *)
(* role of an administrator is refused, the old graph with the new groups  *)
(* grants what was never granted.                                          *)
DecidedOnSomeMoment ==
  \A p \in Procs : pc[p] \in {"granted", "denied"} /\ changes[p] < 2 =>
    (pc[p] = "granted") \in truth[p]

(* No grant and no rule of any group or project is lost, unless an edit     *)
(* stored over a rival's or after a failed read (identity.go:369), or a new *)
(* group's rules were not stored (identity.go:318), which nobody is told.   *)
SettingsKeptOrOverlap ==
  /\ "graph" \in raced \/ graph = asked.graph
  /\ "rules" \in raced \/ rules = asked.rules

(* Every list, the graph and the rules are what the saves asked for, in    *)
(* some order, except where two of them overlapped, one failed half-way,   *)
(* what it stores again could not be read, or an error was dropped.        *)
GroupsAsSavedOrOverlap == ListStoredOrOverlap /\ SettingsKeptOrOverlap

-----------------------------------------------------------------------------
\* The first rows and the requests a server can meet: a group has one kind,
\* every group that a list of rules or a project names exists, and so does
\* every user whom a list of members names.
Plausible ==
  /\ System \cap (Manual \cup Synced) = {} /\ Manual \cap Synced = {}
  /\ \A s \in Starts : s.members \in [AllGroups -> SUBSET Users] /\ \A x \in s.rules : x.group \in AllGroups
  /\ \A r \in Requests :
       /\ r.kind = "project" => r.owner \in AllGroups
       /\ r.kind = "rules" => \A x \in r.rules : x.group \in AllGroups
       /\ r.kind = "group" => r.users \subseteq Users
       /\ r.kind \in {"user", "invite"} => r.user \in Users
       /\ r.kind = "sync" => DOMAIN r.units \subseteq Synced /\ \A g \in DOMAIN r.units : r.units[g] \subseteq Users
=============================================================================
