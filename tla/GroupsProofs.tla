---------------------------- MODULE GroupsProofs ----------------------------
(***************************************************************************)
(* For any number of groups, members, rules and requests: a permission     *)
(* check, which reads one row after the other, answers what was true at    *)
(* some moment of the check, unless two writes fall into it; the lists of  *)
(* members, the graph and the rules are what the saves asked for, except   *)
(* where two of them overlapped or one failed half-way; the directory and  *)
(* the invitations alone change the groups that are theirs.                *)
(*                                                                         *)
(* One write either gives memberships, or takes them, or changes the       *)
(* rules.  What the check found to be absent before a write that gives was *)
(* absent before it altogether; what it found absent before one that takes *)
(* is absent after it as well.                                             *)
(***************************************************************************)
EXTENDS Groups, TLAPS

GroupsIn(m, u) == {g \in AllGroups : u \in m[g]}

\* The decision of a check on graph gr, memberships m and rules l.
AllowsBy(r, gr, m, l) ==
  \/ "admins" \in GroupsIn(m, r.user)
  \/ GraphAdmin(gr, GroupsIn(m, r.user))
  \/ r.kind = "capability" /\ Grants(gr, GroupsIn(m, r.user), r.capability, r.required)
  \/ r.kind = "project" /\ ({r.owner} \cup Admitted(l, r.project, r.required)) \cap GroupsIn(m, r.user) # {}

Allows(r, m, l) == AllowsBy(r, graph, m, l)

Below(m1, m2) == \A g \in AllGroups : m1[g] \subseteq m2[g]

Stages == {"isAdmin", "isAdminIn", "graph", "groups", "owner", "rules", "member"}

\* What p has found not to be so is not so of memberships m and rules l.
Denies(p, m, l) ==
  LET u == req[p].user
      wanted == Admitted(l, req[p].project, req[p].required) IN
  /\ u \notin m["admins"]
  /\ pc[p] \in {"graph", "groups", "owner", "rules", "member"} => ~GraphAdmin(graph, GroupsIn(m, u))
  /\ pc[p] \in {"rules", "member"} => u \notin m[req[p].owner]
  /\ pc[p] = "member" => mem[p].left \subseteq wanted /\ \A g \in wanted \ mem[p].left : u \notin m[g]

\* The moment before the one write that p has seen.
Before(p, m, l) ==
  /\ Allows(req[p], m, l) \in truth[p]
  /\ Denies(p, m, l)
  /\ (Below(m, members) /\ l = rules) \/ m = members

\* p, between its first read and its answer.
Deciding(p) ==
  /\ Allows(req[p], members, rules) \in truth[p]
  /\ pc[p] \in {"isAdminIn", "groups"} => mem[p].graph = graph
  /\ Denies(p, members, rules) \/ (changes[p] = 1 /\ \E m, l : Before(p, m, l))

Sound(p) ==
  IF ~IsCheck(p) THEN pc[p] \notin {"granted", "denied"}
  ELSE
    /\ todo[p] = NoPlan
    /\ pc[p] \in Stages \cup {"begin", "granted", "denied"}
    /\ changes[p] \in {0, 1, 2} /\ (pc[p] = "begin" => changes[p] = 0)
    /\ mem[p].left \subseteq AllGroups
    /\ pc[p] \in {"graph", "groups"} => req[p].kind = "capability"
    /\ pc[p] \in {"owner", "rules", "member"} => req[p].kind = "project"
    /\ pc[p] \in Stages /\ changes[p] < 2 => Deciding(p)
    /\ pc[p] \in {"granted", "denied"} /\ changes[p] < 2 => (pc[p] = "granted") \in truth[p]

Existing(list) == \A x \in list : x.group \in AllGroups

Shape ==
  /\ DOMAIN req = Procs /\ DOMAIN todo = Procs /\ DOMAIN pc = Procs /\ DOMAIN mem = Procs
  /\ DOMAIN truth = Procs /\ DOMAIN changes = Procs
  /\ DOMAIN members = AllGroups
  /\ Existing(rules)
  /\ \A p \in Procs : {"got", "graph", "rules", "left"} \subseteq DOMAIN mem[p] /\ Existing(mem[p].rules)
  /\ \A p \in Procs : /\ req[p].kind = "project" => req[p].owner \in AllGroups
                      /\ req[p].kind = "rules" => Existing(req[p].rules)

IInv == Shape /\ \A p \in Procs : Sound(p)

----------------------------------------------------------------------------
\* What a step adds to the history of p.
LEMMA Watched ==
  ASSUME Watch, NEW p \in Procs, IsCheck(p), req' = req
  PROVE  /\ pc[p] \notin {"granted", "denied"} /\ pc'[p] # "begin" =>
              truth'[p] = truth[p] \cup {AllowsBy(req[p], graph, members, rules), AllowsBy(req[p], graph', members', rules')}
         /\ pc[p] \in {"granted", "denied"} => truth'[p] = truth[p]
<1>1. \A q \in Procs :
        truth'[q] = IF IsCheck(q) /\ pc'[q] # "begin" /\ pc[q] \notin {"granted", "denied"}
                      THEN truth[q] \cup {AllowsBy(req[q], graph, members, rules),
                                          AllowsBy(req'[q], graph', members', rules')}
                      ELSE truth[q]
  BY DEF Watch, Entitled, GroupsForUser, GroupsIn, AllowsBy
<1> QED
  BY <1>1

LEMMA Counted ==
  ASSUME Watch, NEW p \in Procs, IsCheck(p)
  PROVE  changes'[p] = IF pc[p] = "begin" \/ rows' = rows THEN changes[p]
                       ELSE IF graph' # graph \/ changes[p] = 2 THEN 2 ELSE changes[p] + 1
BY DEF Watch

\* Fewer memberships grant no more.
LEMMA FewerGrantNoMore ==
  ASSUME NEW m1, NEW m2, Below(m1, m2), NEW p, NEW l, Denies(p, m2, l),
         req[p].kind = "project" => req[p].owner \in AllGroups,
         pc[p] \in {"rules", "member"} => req[p].kind = "project",
         \A x \in l : x.group \in AllGroups
  PROVE  Denies(p, m1, l)
<1> DEFINE u == req[p].user
           wanted == Admitted(l, req[p].project, req[p].required)
<1>1. GroupsIn(m1, u) \subseteq GroupsIn(m2, u)
  BY DEF Below, GroupsIn
<1>2. u \notin m1["admins"]
  BY DEF Denies, Below, AllGroups, System
<1>3. ~GraphAdmin(graph, GroupsIn(m2, u)) => ~GraphAdmin(graph, GroupsIn(m1, u))
  BY <1>1 DEF GraphAdmin
<1>4. wanted \subseteq AllGroups
  BY DEF Admitted
<1>5. pc[p] \in {"rules", "member"} => u \notin m1[req[p].owner]
  BY DEF Denies, Below
<1>6. ASSUME NEW g \in wanted, u \notin m2[g] PROVE u \notin m1[g]
  BY <1>4, <1>6 DEF Below
<1> QED
  BY <1>2, <1>3, <1>5, <1>6 DEF Denies

\* A step of another process, with at most one kind of change to the rows.
LEMMA OthersStep ==
  ASSUME IInv, NEW p \in Procs, IsCheck(p), Watch,
         DOMAIN members' = AllGroups, Existing(rules'),
         req' = req, pc'[p] = pc[p], mem'[p] = mem[p], todo'[p] = todo[p],
         \/ graph' = graph /\ rules' = rules /\ (Below(members, members') \/ Below(members', members))
         \/ graph' = graph /\ members' = members
         \/ members' = members /\ rules' = rules
  PROVE  Sound(p)'
<1>1. Sound(p) /\ IsCheck(p)'
  BY DEF IInv, IsCheck
<1>2. CASE pc[p] \in {"begin", "granted", "denied"}
  <2>1. changes'[p] \in {0, 1, 2} /\ (pc[p] = "begin" => changes'[p] = 0)
    BY <1>1, <1>2, Counted DEF Sound
  <2>2. pc[p] \in {"granted", "denied"} /\ changes'[p] < 2 => changes[p] < 2
    BY <1>1, <1>2, Counted DEF Sound
  <2>3. pc[p] \in {"granted", "denied"} => truth'[p] = truth[p]
    BY Watched
  <2> QED
    BY <1>1, <1>2, <2>1, <2>2, <2>3 DEF Sound, Stages, IsCheck
<1>3. CASE pc[p] \in Stages
  <2> DEFINE same == rows' = rows
             other == graph' # graph
  <2>3. changes[p] \in {0, 1, 2} /\ pc[p] # "begin" /\ (changes[p] < 2 => Deciding(p))
    BY <1>1, <1>3 DEF Sound, Stages
  <2>4. changes'[p] = IF same THEN changes[p] ELSE IF other \/ changes[p] = 2 THEN 2 ELSE changes[p] + 1
    BY <2>3, Counted
  <2>5. other => ~same
    BY DEF rows
  <2> HIDE DEF same, other
  <2>1. changes'[p] \in {0, 1, 2}
    BY <2>3, <2>4
  <2>2. ASSUME changes'[p] < 2 PROVE Deciding(p)'
    <3>0. changes[p] < 2 /\ ~other
      BY <2>2, <2>3, <2>4, <2>5
    <3>1. changes[p] < 2 /\ graph' = graph /\ Deciding(p)
      BY <2>3, <3>0 DEF other
    <3>2. truth'[p] = truth[p] \cup {AllowsBy(req[p], graph, members, rules), AllowsBy(req[p], graph, members', rules')}
      <4>1. pc[p] \notin {"granted", "denied"} /\ pc'[p] # "begin"
        BY <1>3 DEF Stages
      <4> QED
        BY <3>1, <4>1, Watched
    <3>3. Allows(req[p], members, rules)'  \in truth'[p]
      BY <3>1, <3>2 DEF Allows
    <3>4. pc'[p] \in {"isAdminIn", "groups"} => mem'[p].graph = graph'
      BY <3>1 DEF Deciding
    <3>5. ASSUME NEW m, NEW l, Denies(p, m, l) PROVE Denies(p, m, l)'
      BY <3>1, <3>5 DEF Denies, Admitted, GraphAdmin, GroupsIn
    <3>6. ASSUME NEW m, NEW l, Allows(req[p], m, l) \in truth[p] PROVE Allows(req[p], m, l)' \in truth'[p]
      BY <3>1, <3>2, <3>6 DEF Allows, AllowsBy, Admitted, GraphAdmin, GroupsIn, Grants
    <3>7. CASE members' = members /\ rules' = rules
      <4>1. CASE Denies(p, members, rules)
        <5>1. Denies(p, members, rules)'
          BY <3>1, <3>7, <4>1 DEF Denies, Admitted, GraphAdmin, GroupsIn
        <5> QED
          BY <3>3, <3>4, <5>1 DEF Deciding
      <4>2. CASE changes[p] = 1 /\ \E m, l : Before(p, m, l)
        <5>1. PICK m, l : Before(p, m, l)
          BY <4>2
        <5>2. Before(p, m, l)'
          BY <3>5, <3>6, <3>7, <5>1 DEF Before, Below
        <5>3. same
          BY <3>1, <3>7 DEF same, rows
        <5> QED
          BY <2>4, <3>3, <3>4, <4>2, <5>2, <5>3 DEF Deciding
      <4> QED
        BY <3>1, <4>1, <4>2 DEF Deciding
    <3>8. CASE ~(members' = members /\ rules' = rules)
      <4>1. ~same /\ changes[p] = 0 /\ changes'[p] = 1
        <5>1. ~same
          BY <3>8 DEF same, rows
        <5> QED
          BY <2>2, <2>3, <2>4, <3>0, <5>1
      <4>2. Denies(p, members, rules) /\ Allows(req[p], members, rules) \in truth[p]
        <5>1. changes[p] # 1
          BY <4>1
        <5> QED
          BY <3>1, <5>1 DEF Deciding
      <4>3. CASE Below(members', members) /\ rules' = rules
        <5>1. Denies(p, members', rules)
          BY <1>1, <4>2, <4>3, FewerGrantNoMore DEF IInv, Shape, Existing, Sound
        <5>2. Denies(p, members, rules)'
          BY <3>1, <4>3, <5>1 DEF Denies, Admitted, GraphAdmin, GroupsIn
        <5> QED
          BY <3>3, <3>4, <5>2 DEF Deciding
      <4>4. CASE (Below(members, members') /\ rules' = rules) \/ members' = members
        <5>1. PICK m, l : m = members /\ l = rules
          OBVIOUS
        <5>2. Denies(p, m, l)' /\ Allows(req[p], m, l)' \in truth'[p]
          BY <3>5, <3>6, <4>2, <5>1
        <5>3. (Below(m, members') /\ l = rules') \/ m = members'
          BY <4>4, <5>1
        <5>4. Before(p, m, l)'
          BY <5>2, <5>3 DEF Before, Below
        <5> QED
          BY <3>3, <3>4, <4>1, <5>4 DEF Deciding
      <4> QED
        BY <3>1, <4>3, <4>4
    <3> QED
      BY <3>7, <3>8
  <2> QED
    BY <1>1, <1>3, <2>1, <2>2 DEF Sound, Stages, IsCheck
<1> QED
  BY <1>1, <1>2, <1>3 DEF Sound

----------------------------------------------------------------------------
\* A moment that p may still answer for: now, or before the write it has seen.
Moment(m, l) == (Below(m, members) /\ l = rules) \/ m = members

\* A read of p leaves the rows.
Reading(p) ==
  /\ req' = req /\ members' = members /\ rules' = rules /\ graph' = graph
  /\ changes'[p] = changes[p]
  /\ truth'[p] = truth[p] \cup {Allows(req[p], members, rules)}

\* p goes on to its next read: what it had found out, and now finds out, was
\* so at a moment.
LEMMA Onward ==
  ASSUME NEW p \in Procs, Deciding(p), Reading(p),
         pc'[p] \in {"isAdminIn", "groups"} => mem'[p].graph = graph,
         \A m, l : Denies(p, m, l) /\ Moment(m, l) => Denies(p, m, l)' \/ Denies(p, members, rules)'
  PROVE  Deciding(p)'
<1>1. Allows(req[p], members, rules)' \in truth'[p]
  BY DEF Reading, Allows, AllowsBy, Admitted, GraphAdmin, GroupsIn, Grants
<1>2. pc'[p] \in {"isAdminIn", "groups"} => mem'[p].graph = graph'
  BY DEF Reading
<1>3. CASE Denies(p, members, rules)
  <2>1. PICK m, l : m = members /\ l = rules
    OBVIOUS
  <2>2. Denies(p, m, l) /\ Moment(m, l)
    BY <1>3, <2>1 DEF Moment
  <2>3. Denies(p, m, l)' \/ Denies(p, members, rules)'
    BY <2>2
  <2>4. m = members' /\ l = rules'
    BY <2>1 DEF Reading
  <2>5. Denies(p, members, rules)'
    BY <2>3, <2>4 DEF Denies, Admitted, GraphAdmin, GroupsIn
  <2> QED
    BY <1>1, <1>2, <2>5 DEF Deciding
<1>4. CASE changes[p] = 1 /\ \E m, l : Before(p, m, l)
  <2>1. PICK m, l : Before(p, m, l)
    BY <1>4
  <2>2. Denies(p, m, l)' \/ Denies(p, members, rules)'
    BY <2>1 DEF Before, Moment
  <2>3. Allows(req[p], m, l)' \in truth'[p]
    BY <2>1 DEF Before, Reading, Allows, AllowsBy, Admitted, GraphAdmin, GroupsIn, Grants
  <2>4. ASSUME Denies(p, m, l)' PROVE Before(p, m, l)'
    BY <2>1, <2>3, <2>4 DEF Before, Reading, Below
  <2>5. changes'[p] = 1
    BY <1>4 DEF Reading
  <2> QED
    BY <1>1, <1>2, <2>2, <2>4, <2>5 DEF Deciding
<1> QED
  BY <1>3, <1>4 DEF Deciding

\* p answers: the answer is that of a moment.
LEMMA Answered ==
  ASSUME NEW p \in Procs, Deciding(p), Reading(p), NEW answer \in BOOLEAN,
         \A m, l : Denies(p, m, l) /\ Moment(m, l) =>
           (Allows(req[p], m, l) <=> answer) \/ (Allows(req[p], members, rules) <=> answer)
  PROVE  answer \in truth'[p]
<1>1. ASSUME Allows(req[p], members, rules) <=> answer PROVE answer \in truth'[p]
  <2>1. Allows(req[p], members, rules) = answer
    BY <1>1 DEF Allows, AllowsBy
  <2> QED
    BY <2>1 DEF Reading
<1>2. CASE Denies(p, members, rules)
  BY <1>1, <1>2 DEF Moment
<1>3. CASE \E m, l : Before(p, m, l)
  <2>1. PICK m, l : Before(p, m, l)
    BY <1>3
  <2>2. (Allows(req[p], m, l) <=> answer) \/ (Allows(req[p], members, rules) <=> answer)
    BY <2>1 DEF Before, Moment
  <2>3. ASSUME Allows(req[p], m, l) <=> answer PROVE answer \in truth'[p]
    <3>1. Allows(req[p], m, l) = answer
      BY <2>3 DEF Allows, AllowsBy
    <3> QED
      BY <2>1, <3>1 DEF Before, Reading
  <2> QED
    BY <1>1, <2>2, <2>3
<1> QED
  BY <1>2, <1>3 DEF Deciding

----------------------------------------------------------------------------
\* What every read of a check has in common.
LEMMA CheckReads ==
  ASSUME IInv, NEW p \in Procs, IsCheck(p), Watch, NEW label, Goto(p, label), label # "begin",
         UNCHANGED <<rows, req, todo, faults, lists, asked, fresh, raced>>,
         pc[p] \in Stages
  PROVE  /\ pc'[p] = label /\ Sound(p) /\ IsCheck(p)' /\ Reading(p) /\ todo'[p] = NoPlan
         /\ changes'[p] \in {0, 1, 2}
         /\ changes'[p] < 2 => Deciding(p)
<1>1. pc'[p] = label
  BY DEF Goto, IInv, Shape
<1>2. Sound(p) /\ IsCheck(p)' /\ todo'[p] = NoPlan /\ changes[p] \in {0, 1, 2} /\ (changes[p] < 2 => Deciding(p))
  BY DEF IInv, Sound, IsCheck
<1>3. rows' = rows /\ members' = members /\ rules' = rules /\ graph' = graph /\ req' = req
  BY DEF rows
<1>4. changes'[p] = changes[p]
  BY <1>3, Counted
<1>5. truth'[p] = truth[p] \cup {AllowsBy(req[p], graph, members, rules), AllowsBy(req[p], graph', members', rules')}
  BY <1>1, <1>3, Watched DEF Stages
<1>6. truth'[p] = truth[p] \cup {Allows(req[p], members, rules)}
  BY <1>3, <1>5 DEF Allows
<1> QED
  BY <1>1, <1>2, <1>3, <1>4, <1>6 DEF Reading

\* A group of the moment grants whoever is in it, nothing else does.
LEMMA AdminsEnter ==
  ASSUME NEW r, NEW m, NEW l, r.user \in m["admins"]
  PROVE  Allows(r, m, l)
BY DEF Allows, AllowsBy, GroupsIn, AllGroups, System

LEMMA CapabilityRefused ==
  ASSUME NEW p, NEW m, NEW l, req[p].kind = "capability", pc[p] \in {"graph", "groups"}, Denies(p, m, l),
         ~Grants(graph, GroupsIn(m, req[p].user), req[p].capability, req[p].required)
  PROVE  ~Allows(req[p], m, l)
<1>1. "admins" \notin GroupsIn(m, req[p].user)
  BY DEF Denies, GroupsIn
<1>2. ~GraphAdmin(graph, GroupsIn(m, req[p].user))
  BY DEF Denies
<1> QED
  BY <1>1, <1>2 DEF Allows, AllowsBy

LEMMA ProjectRefused ==
  ASSUME NEW p, NEW m, NEW l, req[p].kind = "project", pc[p] = "member", Denies(p, m, l), mem[p].left = {}
  PROVE  ~Allows(req[p], m, l)
<1>1. "admins" \notin GroupsIn(m, req[p].user)
  BY DEF Denies, GroupsIn
<1>2. ~GraphAdmin(graph, GroupsIn(m, req[p].user))
  BY DEF Denies
<1>3. ({req[p].owner} \cup Admitted(l, req[p].project, req[p].required)) \cap GroupsIn(m, req[p].user) = {}
  BY DEF Denies, GroupsIn
<1> QED
  BY <1>1, <1>2, <1>3 DEF Allows, AllowsBy

LEMMA MomentIsBelow ==
  ASSUME NEW m, NEW l, Moment(m, l)
  PROVE  Below(m, members)
BY DEF Moment, Below

\* The first read.
LEMMA BeginKeeps ==
  ASSUME IInv, NEW p \in Procs, IsCheck(p), Watch, pc[p] = "begin", NEW next, IsAdmin(p, next)
  PROVE  Sound(p)'
<1> DEFINE label == IF req[p].user \in members["admins"] THEN "granted" ELSE "isAdmin"
<1>1. Answer(p, label)
  BY DEF IsAdmin
<1>2. pc'[p] = label /\ mem' = mem /\ todo'[p] = todo[p]
  BY <1>1 DEF Answer, Goto, IInv, Shape
<1>3. rows' = rows /\ members' = members /\ rules' = rules /\ graph' = graph /\ req' = req
  BY <1>1 DEF Answer, rows
<1>4. Sound(p) /\ IsCheck(p)'
  BY <1>3 DEF IInv, IsCheck
<1>5. changes'[p] = 0
  BY <1>3, <1>4, Counted DEF Sound
<1>6. Allows(req[p], members, rules) \in truth'[p]
  BY <1>2, <1>3, Watched DEF Allows
<1>7. CASE req[p].user \in members["admins"]
  <2>1. Allows(req[p], members, rules)
    BY <1>7, AdminsEnter
  <2>2. Allows(req[p], members, rules) = TRUE
    BY <2>1 DEF Allows, AllowsBy
  <2>3. TRUE \in truth'[p]
    BY <1>6, <2>2
  <2>4. (pc'[p] = "granted") \in truth'[p]
    BY <1>2, <1>7, <2>3
  <2> QED
    BY <1>2, <1>3, <1>4, <1>5, <1>7, <2>4 DEF Sound, Stages
<1>8. CASE req[p].user \notin members["admins"]
  <2>1. Denies(p, members, rules)'
    BY <1>2, <1>3, <1>8 DEF Denies
  <2>2. Allows(req[p], members, rules)' \in truth'[p]
    BY <1>3, <1>6 DEF Allows, AllowsBy, Admitted, GraphAdmin, GroupsIn, Grants
  <2>3. Deciding(p)'
    BY <1>2, <1>8, <2>1, <2>2 DEF Deciding
  <2> QED
    BY <1>2, <1>3, <1>4, <1>5, <1>8, <2>3 DEF Sound, Stages
<1> QED
  BY <1>7, <1>8

\* The second and third read of both checks: the graph, and the member's groups.
LEMMA AdminKeeps ==
  ASSUME IInv, NEW p \in Procs, IsCheck(p), Watch, pc[p] \in {"isAdmin", "isAdminIn"},
         NEW next, IsAdmin(p, next),
         next = (IF req[p].kind = "capability" THEN "graph" ELSE "owner")
  PROVE  Sound(p)'
<1>1. req[p].kind \in {"capability", "project"} /\ req' = req
  BY DEF IsCheck, IsAdmin, Answer
<1>2. CASE pc[p] = "isAdmin"
  <2>1. mem' = [mem EXCEPT ![p].graph = graph] /\ Goto(p, "isAdminIn") /\ UNCHANGED <<rows, req, todo, faults, lists, asked, fresh, raced>>
    BY <1>2 DEF IsAdmin
  <2>2. /\ pc'[p] = "isAdminIn" /\ Sound(p) /\ IsCheck(p)' /\ Reading(p) /\ todo'[p] = NoPlan
        /\ changes'[p] \in {0, 1, 2} /\ (changes'[p] < 2 => Deciding(p))
    BY <1>2, <2>1, CheckReads DEF Stages
  <2>3. mem'[p].graph = graph /\ mem'[p].left = mem[p].left
    BY <2>1 DEF IInv, Shape
  <2>4. \A m, l : Denies(p, m, l) => Denies(p, m, l)'
    BY <1>1, <2>2 DEF Denies
  <2>5. changes'[p] < 2 => Deciding(p)'
    BY <2>2, <2>3, <2>4, Onward
  <2> QED
    BY <2>2, <2>3, <2>5 DEF Sound, Stages
<1>3. CASE pc[p] = "isAdminIn"
  <2> DEFINE u == req[p].user
             label == IF GraphAdmin(mem[p].graph, GroupsForUser(u)) THEN "granted" ELSE next
  <2>1. Answer(p, label) /\ Goto(p, label) /\ mem' = mem /\ UNCHANGED <<rows, req, todo, faults, lists, asked, fresh, raced>>
    BY <1>3 DEF IsAdmin, Answer
  <2>2. /\ pc'[p] = label /\ Sound(p) /\ IsCheck(p)' /\ Reading(p) /\ todo'[p] = NoPlan
        /\ changes'[p] \in {0, 1, 2} /\ (changes'[p] < 2 => Deciding(p))
    BY <1>3, <2>1, CheckReads DEF Stages
  <2>3. changes'[p] < 2 => mem[p].graph = graph
    BY <1>3, <2>2 DEF Deciding
  <2>4. GroupsForUser(u) = GroupsIn(members, u)
    BY DEF GroupsForUser, GroupsIn
  <2>5. CASE GraphAdmin(mem[p].graph, GroupsForUser(u))
    <3>1. changes'[p] < 2 => Allows(req[p], members, rules)
      BY <2>3, <2>4, <2>5 DEF Allows, AllowsBy
    <3>2. changes'[p] < 2 => TRUE \in truth'[p]
      BY <2>2, <3>1, Answered
    <3>3. pc'[p] = "granted"
      BY <2>2, <2>5
    <3> HIDE DEF label
    <3> QED
      BY <2>1, <2>2, <3>2, <3>3 DEF Sound, Stages
  <2>6. CASE ~GraphAdmin(mem[p].graph, GroupsForUser(u))
    <3>1. pc'[p] = next /\ next \in {"graph", "owner"}
      BY <2>2, <2>6
    <3>2. ASSUME changes'[p] < 2, NEW m, NEW l, Denies(p, m, l), Moment(m, l)
          PROVE  Denies(p, m, l)'
      <4>1. ~GraphAdmin(graph, GroupsIn(members, u))
        BY <2>3, <2>4, <2>6, <3>2
      <4>2. GroupsIn(m, u) \subseteq GroupsIn(members, u)
        BY <3>2, MomentIsBelow DEF Below, GroupsIn
      <4>3. ~GraphAdmin(graph, GroupsIn(m, u))
        BY <4>1, <4>2 DEF GraphAdmin
      <4>4. graph' = graph
        BY <2>2 DEF Reading
      <4> QED
        BY <1>1, <3>1, <3>2, <4>3, <4>4 DEF Denies, GraphAdmin, GroupsIn
    <3>3. changes'[p] < 2 => Deciding(p)'
      <4> SUFFICES ASSUME changes'[p] < 2 PROVE Deciding(p)'
        OBVIOUS
      <4>1. pc'[p] \notin {"isAdminIn", "groups"}
        BY <3>1
      <4> QED
        BY <2>2, <3>2, <4>1, Onward
    <3>4. /\ pc'[p] \in {"graph", "groups"} => req'[p].kind = "capability"
          /\ pc'[p] \in {"owner", "rules", "member"} => req'[p].kind = "project"
      BY <1>1, <3>1
    <3> HIDE DEF label
    <3> QED
      BY <2>1, <2>2, <3>1, <3>3, <3>4 DEF Sound, Stages
  <2> QED
    BY <2>5, <2>6
<1> QED
  BY <1>2, <1>3

\* HasCapability, after IsAdmin.
LEMMA CapabilityKeeps ==
  ASSUME IInv, NEW p \in Procs, IsCheck(p), Watch, pc[p] \in {"graph", "groups"}, HasCapability(p)
  PROVE  Sound(p)'
<1>1. req' = req /\ req[p].kind = "capability"
  BY DEF HasCapability, IsAdmin, Answer, At
<1>2. CASE pc[p] = "graph"
  <2>1. mem' = [mem EXCEPT ![p].graph = graph] /\ Goto(p, "groups") /\ UNCHANGED <<rows, req, todo, faults, lists, asked, fresh, raced>>
    BY <1>2 DEF HasCapability, IsAdmin, At
  <2>2. /\ pc'[p] = "groups" /\ Sound(p) /\ IsCheck(p)' /\ Reading(p) /\ todo'[p] = NoPlan
        /\ changes'[p] \in {0, 1, 2} /\ (changes'[p] < 2 => Deciding(p))
    BY <1>2, <2>1, CheckReads DEF Stages
  <2>3. mem'[p].graph = graph /\ mem'[p].left = mem[p].left
    BY <2>1 DEF IInv, Shape
  <2>4. \A m, l : Denies(p, m, l) => Denies(p, m, l)'
    BY <1>1, <1>2, <2>2 DEF Denies, Reading, GraphAdmin, GroupsIn
  <2>5. changes'[p] < 2 => Deciding(p)'
    BY <2>2, <2>3, <2>4, Onward
  <2> QED
    BY <1>1, <2>2, <2>3, <2>5 DEF Sound, Stages
<1>3. CASE pc[p] = "groups"
  <2> DEFINE u == req[p].user
             grants == Grants(mem[p].graph, GroupsForUser(u), req[p].capability, req[p].required)
             label == IF grants THEN "granted" ELSE "denied"
  <2>1. Goto(p, label) /\ mem' = mem /\ UNCHANGED <<rows, req, todo, faults, lists, asked, fresh, raced>>
    BY <1>3 DEF HasCapability, IsAdmin, Answer, At
  <2>2. /\ pc'[p] = label /\ Sound(p) /\ IsCheck(p)' /\ Reading(p) /\ todo'[p] = NoPlan
        /\ changes'[p] \in {0, 1, 2} /\ (changes'[p] < 2 => Deciding(p))
    BY <1>3, <2>1, CheckReads DEF Stages
  <2>3. ASSUME changes'[p] < 2 PROVE (pc'[p] = "granted") \in truth'[p]
    <3>1. mem[p].graph = graph
      BY <1>3, <2>2, <2>3 DEF Deciding
    <3>2. GroupsForUser(u) = GroupsIn(members, u)
      BY DEF GroupsForUser, GroupsIn
    <3>3. CASE grants
      <4>1. Allows(req[p], members, rules)
        BY <1>1, <3>1, <3>2, <3>3 DEF Allows, AllowsBy
      <4>2. TRUE \in truth'[p]
        BY <2>2, <2>3, <4>1, Answered
      <4>3. pc'[p] = "granted"
        BY <2>2, <3>3
      <4> QED
        BY <4>2, <4>3
    <3>4. CASE ~grants
      <4>1. ASSUME NEW m, NEW l, Denies(p, m, l), Moment(m, l) PROVE ~Allows(req[p], m, l)
        <5>1. GroupsIn(m, u) \subseteq GroupsIn(members, u)
          BY <4>1, MomentIsBelow DEF Below, GroupsIn
        <5>2. ~Grants(graph, GroupsIn(m, u), req[p].capability, req[p].required)
          BY <3>1, <3>2, <3>4, <5>1 DEF Grants
        <5> QED
          BY <1>1, <1>3, <4>1, <5>2, CapabilityRefused
      <4>2. FALSE \in truth'[p]
        BY <2>2, <2>3, <4>1, Answered
      <4>3. pc'[p] # "granted"
        BY <2>2, <3>4
      <4> QED
        BY <4>2, <4>3
    <3> QED
      BY <3>3, <3>4
  <2>4. pc'[p] \in {"granted", "denied"}
    BY <2>2
  <2> HIDE DEF label
  <2> QED
    BY <2>1, <2>2, <2>3, <2>4 DEF Sound, Stages
<1> QED
  BY <1>2, <1>3

\* CanAccessProject, after IsAdmin.
LEMMA ProjectKeeps ==
  ASSUME IInv, NEW p \in Procs, IsCheck(p), Watch, pc[p] \in {"owner", "rules", "member"}, CanAccessProject(p)
  PROVE  Sound(p)'
<1> DEFINE u == req[p].user
           wanted == Admitted(rules, req[p].project, req[p].required)
<1>1. req' = req /\ req[p].kind = "project" /\ req[p].owner \in AllGroups
  BY DEF CanAccessProject, IsAdmin, Answer, At, IInv, Shape
<1>2. CASE pc[p] = "owner"
  <2> DEFINE label == IF u \in members[req[p].owner] THEN "granted" ELSE "rules"
  <2>1. Goto(p, label) /\ mem' = mem /\ UNCHANGED <<rows, req, todo, faults, lists, asked, fresh, raced>>
    BY <1>2 DEF CanAccessProject, IsAdmin, Answer, At
  <2>2. /\ pc'[p] = label /\ Sound(p) /\ IsCheck(p)' /\ Reading(p) /\ todo'[p] = NoPlan
        /\ changes'[p] \in {0, 1, 2} /\ (changes'[p] < 2 => Deciding(p))
    BY <1>2, <2>1, CheckReads DEF Stages
  <2>3. CASE u \in members[req[p].owner]
    <3>1. Allows(req[p], members, rules)
      BY <1>1, <2>3 DEF Allows, AllowsBy, GroupsIn
    <3>2. changes'[p] < 2 => TRUE \in truth'[p]
      BY <2>2, <3>1, Answered
    <3>3. pc'[p] = "granted"
      BY <2>2, <2>3
    <3> HIDE DEF label
    <3> QED
      BY <2>1, <2>2, <3>2, <3>3 DEF Sound, Stages
  <2>4. CASE u \notin members[req[p].owner]
    <3>1. pc'[p] = "rules"
      BY <2>2, <2>4
    <3>2. ASSUME NEW m, NEW l, Denies(p, m, l), Moment(m, l) PROVE Denies(p, m, l)'
      <4>1. u \notin m[req[p].owner]
        BY <1>1, <2>4, <3>2, MomentIsBelow DEF Below
      <4> QED
        BY <1>1, <1>2, <2>2, <3>1, <3>2, <4>1 DEF Denies, Reading, GraphAdmin, GroupsIn
    <3>3. changes'[p] < 2 => Deciding(p)'
      BY <2>2, <3>1, <3>2, Onward
    <3> HIDE DEF label
    <3> QED
      BY <1>1, <2>1, <2>2, <3>1, <3>3 DEF Sound, Stages
  <2> QED
    BY <2>3, <2>4
<1>3. CASE pc[p] = "rules"
  <2>1. mem' = [mem EXCEPT ![p].left = AdmittedNow(p)] /\ Goto(p, "member") /\ UNCHANGED <<rows, req, todo, faults, lists, asked, fresh, raced>>
    BY <1>3 DEF CanAccessProject, IsAdmin, At
  <2>2. /\ pc'[p] = "member" /\ Sound(p) /\ IsCheck(p)' /\ Reading(p) /\ todo'[p] = NoPlan
        /\ changes'[p] \in {0, 1, 2} /\ (changes'[p] < 2 => Deciding(p))
    BY <1>3, <2>1, CheckReads DEF Stages
  <2>3. mem'[p].left = wanted
    BY <2>1 DEF IInv, Shape, AdmittedNow
  <2>4. wanted \subseteq AllGroups
    BY DEF IInv, Shape, Existing, Admitted
  <2>5. ASSUME NEW m, NEW l, Denies(p, m, l), Moment(m, l) PROVE Denies(p, m, l)' \/ Denies(p, members, rules)'
    <3>1. /\ u \notin m["admins"] /\ ~GraphAdmin(graph, GroupsIn(m, u)) /\ u \notin m[req[p].owner]
      BY <1>3, <2>5 DEF Denies
    <3>2. req' = req /\ graph' = graph /\ members' = members /\ rules' = rules
      BY <2>2 DEF Reading
    <3>3. CASE l = rules
      BY <2>2, <2>3, <3>1, <3>2, <3>3 DEF Denies, GraphAdmin, GroupsIn, Admitted
    <3>4. CASE m = members
      BY <2>2, <2>3, <3>1, <3>2, <3>4 DEF Denies, GraphAdmin, GroupsIn, Admitted
    <3> QED
      BY <2>5, <3>3, <3>4 DEF Moment
  <2>6. changes'[p] < 2 => Deciding(p)'
    BY <2>2, <2>5, Onward
  <2> QED
    BY <1>1, <2>2, <2>3, <2>4, <2>6 DEF Sound, Stages
<1>4. CASE pc[p] = "member" /\ mem[p].left = {}
  <2>1. Goto(p, "denied") /\ mem' = mem /\ UNCHANGED <<rows, req, todo, faults, lists, asked, fresh, raced>>
    BY <1>4 DEF CanAccessProject, IsAdmin, Answer, At
  <2>2. /\ pc'[p] = "denied" /\ Sound(p) /\ IsCheck(p)' /\ Reading(p) /\ todo'[p] = NoPlan
        /\ changes'[p] \in {0, 1, 2} /\ (changes'[p] < 2 => Deciding(p))
    BY <1>4, <2>1, CheckReads DEF Stages
  <2>3. \A m, l : Denies(p, m, l) => ~Allows(req[p], m, l)
    BY <1>1, <1>4, ProjectRefused
  <2>4. changes'[p] < 2 => FALSE \in truth'[p]
    BY <2>2, <2>3, Answered
  <2>5. (pc'[p] = "granted") = FALSE
    BY <2>2
  <2>6. changes'[p] < 2 => (pc'[p] = "granted") \in truth'[p]
    BY <2>4, <2>5
  <2> QED
    BY <2>1, <2>2, <2>6 DEF Sound, Stages
<1>5. CASE pc[p] = "member" /\ mem[p].left # {}
  <2>1. PICK g \in mem[p].left :
          /\ Goto(p, IF u \in members[g] THEN "granted" ELSE "member")
          /\ mem' = [mem EXCEPT ![p].left = @ \ {g}]
          /\ UNCHANGED <<rows, req, todo, faults, lists, asked, fresh, raced>>
    BY <1>5 DEF CanAccessProject, IsAdmin, At
  <2> DEFINE label == IF u \in members[g] THEN "granted" ELSE "member"
  <2>2. /\ pc'[p] = label /\ Sound(p) /\ IsCheck(p)' /\ Reading(p) /\ todo'[p] = NoPlan
        /\ changes'[p] \in {0, 1, 2} /\ (changes'[p] < 2 => Deciding(p))
    BY <1>5, <2>1, CheckReads DEF Stages
  <2>3. mem'[p].left = mem[p].left \ {g} /\ mem[p].left \subseteq AllGroups
    BY <2>1, <2>2 DEF IInv, Shape, Sound
  <2>4. CASE u \in members[g]
    <3>1. ASSUME NEW m, NEW l, Denies(p, m, l), Moment(m, l)
          PROVE  Allows(req[p], m, l) \/ Allows(req[p], members, rules)
      <4>1. g \in Admitted(l, req[p].project, req[p].required)
        BY <1>5, <3>1 DEF Denies
      <4>2. g \in GroupsIn(members, u)
        BY <2>3, <2>4 DEF GroupsIn
      <4>3. CASE l = rules
        BY <1>1, <4>1, <4>2, <4>3 DEF Allows, AllowsBy
      <4>4. CASE m = members
        BY <1>1, <4>1, <4>2, <4>4 DEF Allows, AllowsBy
      <4> QED
        BY <3>1, <4>3, <4>4 DEF Moment
    <3>2. changes'[p] < 2 => TRUE \in truth'[p]
      BY <2>2, <3>1, Answered
    <3>3. pc'[p] = "granted"
      BY <2>2, <2>4
    <3> HIDE DEF label
    <3> QED
      BY <2>2, <2>3, <3>2, <3>3 DEF Sound, Stages
  <2>5. CASE u \notin members[g]
    <3>1. pc'[p] = "member"
      BY <2>2, <2>5
    <3>2. ASSUME NEW m, NEW l, Denies(p, m, l), Moment(m, l) PROVE Denies(p, m, l)'
      <4>1. u \notin m[g]
        BY <2>3, <2>5, <3>2, MomentIsBelow DEF Below
      <4>2. req' = req /\ graph' = graph
        BY <2>2 DEF Reading
      <4>3. /\ u \notin m["admins"] /\ ~GraphAdmin(graph, GroupsIn(m, u)) /\ u \notin m[req[p].owner]
            /\ mem[p].left \subseteq Admitted(l, req[p].project, req[p].required)
            /\ \A h \in Admitted(l, req[p].project, req[p].required) \ mem[p].left : u \notin m[h]
        BY <1>5, <3>2 DEF Denies
      <4>4. \A h \in Admitted(l, req[p].project, req[p].required) \ mem'[p].left : u \notin m[h]
        BY <2>3, <4>1, <4>3
      <4> QED
        BY <2>3, <3>1, <4>2, <4>3, <4>4 DEF Denies, GraphAdmin, GroupsIn, Admitted
    <3>3. changes'[p] < 2 => Deciding(p)'
      BY <2>2, <3>1, <3>2, Onward
    <3> HIDE DEF label
    <3> QED
      BY <1>1, <2>2, <2>3, <3>1, <3>3 DEF Sound, Stages
  <2> QED
    BY <2>4, <2>5
<1> QED
  BY <1>2, <1>3, <1>4, <1>5

----------------------------------------------------------------------------
\* What a step of p leaves alone, and the rows after it.
LEMMA StepShape ==
  ASSUME IInv, NEW p \in Procs, Step(p), Watch
  PROVE  /\ req' = req /\ DOMAIN members' = AllGroups /\ Existing(rules')
         /\ \A q \in Procs \ {p} : pc'[q] = pc[q] /\ mem'[q] = mem[q] /\ todo'[q] = todo[q]
         /\ \/ graph' = graph /\ rules' = rules /\ (Below(members, members') \/ Below(members', members))
            \/ graph' = graph /\ members' = members
            \/ members' = members /\ rules' = rules
         /\ Shape'
<1>1. DOMAIN truth' = Procs /\ DOMAIN changes' = Procs
  BY DEF Watch
<1> DEFINE Fields == {"got", "graph", "rules", "left"}
           Frame == /\ req' = req /\ DOMAIN pc' = Procs /\ DOMAIN mem' = Procs /\ DOMAIN todo' = Procs
                    /\ \A q \in Procs \ {p} : pc'[q] = pc[q] /\ mem'[q] = mem[q] /\ todo'[q] = todo[q]
                    /\ Fields \subseteq DOMAIN mem'[p] /\ Existing(mem'[p].rules)
           RowsMove == \/ graph' = graph /\ rules' = rules /\ (Below(members, members') \/ Below(members', members))
                       \/ graph' = graph /\ members' = members
                       \/ members' = members /\ rules' = rules
<1>2. SUFFICES Frame /\ RowsMove /\ DOMAIN members' = AllGroups /\ Existing(rules')
  <2> HIDE DEF RowsMove
  <2> QED
    BY <1>1 DEF IInv, Shape, RowsMove
<1>3. ASSUME rows' = rows
      PROVE  RowsMove /\ DOMAIN members' = AllGroups /\ Existing(rules')
  BY <1>3 DEF rows, IInv, Shape
<1>4. ASSUME NEW label, Answer(p, label)
      PROVE  Frame /\ rows' = rows
  BY <1>4 DEF Answer, Goto, IInv, Shape
<1>5. CASE HasCapability(p) \/ CanAccessProject(p)
  <2>1. rows' = rows /\ req' = req /\ todo' = todo
    BY <1>5 DEF HasCapability, CanAccessProject, IsAdmin, Answer
  <2>2. \E label : Goto(p, label)
    BY <1>5 DEF HasCapability, CanAccessProject, IsAdmin, Answer
  <2>3. mem' = mem \/ \E x : mem' = [mem EXCEPT ![p].graph = x] \/ mem' = [mem EXCEPT ![p].left = x]
    BY <1>5 DEF HasCapability, CanAccessProject, IsAdmin, Answer
  <2>4. DOMAIN pc' = Procs /\ \A q \in Procs \ {p} : pc'[q] = pc[q]
    BY <2>2 DEF Goto, IInv, Shape
  <2>5. /\ DOMAIN mem' = Procs /\ \A q \in Procs \ {p} : mem'[q] = mem[q]
        /\ Fields \subseteq DOMAIN mem'[p] /\ Existing(mem'[p].rules)
    BY <2>3 DEF IInv, Shape
  <2>6. Frame
    BY <2>1, <2>4, <2>5 DEF IInv, Shape
  <2> QED
    BY <1>3, <2>1, <2>6
<1>6. CASE HasMember(p) \/ DeleteMembers(p) \/ AddMember(p)
  <2>1. /\ \E x : todo' = [todo EXCEPT ![p].look = x] \/ todo' = [todo EXCEPT ![p].clear = x]
                  \/ todo' = [todo EXCEPT ![p].add = x]
        /\ graph' = graph /\ rules' = rules /\ req' = req /\ pc' = pc
    BY <1>6 DEF HasMember, DeleteMembers, AddMember, rows
  <2>2. \/ members' = members /\ (mem' = mem \/ \E x : mem' = [mem EXCEPT ![p].got = x])
        \/ mem' = mem /\ \E g, x : \/ members' = [members EXCEPT ![g] = {}]
                                   \/ members' = [members EXCEPT ![g] = @ \cup {x}]
    <3>1. CASE HasMember(p)
      BY <3>1 DEF HasMember, rows
    <3>2. CASE DeleteMembers(p)
      BY <3>2 DEF DeleteMembers
    <3>3. CASE AddMember(p)
      BY <3>3 DEF AddMember
    <3> QED
      BY <1>6, <3>1, <3>2, <3>3
  <2>3. DOMAIN todo' = Procs /\ \A q \in Procs \ {p} : todo'[q] = todo[q]
    BY <2>1 DEF IInv, Shape
  <2>4. /\ DOMAIN mem' = Procs /\ \A q \in Procs \ {p} : mem'[q] = mem[q]
        /\ Fields \subseteq DOMAIN mem'[p] /\ Existing(mem'[p].rules)
    BY <2>2 DEF IInv, Shape
  <2>5. DOMAIN members' = AllGroups /\ (Below(members, members') \/ Below(members', members))
    <3>1. DOMAIN members = AllGroups
      BY DEF IInv, Shape
    <3>2. CASE members' = members
      BY <3>1, <3>2 DEF Below
    <3>3. ASSUME NEW g, members' = [members EXCEPT ![g] = {}]
          PROVE  DOMAIN members' = AllGroups /\ Below(members', members)
      BY <3>1, <3>3 DEF Below
    <3>4. ASSUME NEW g, NEW x, members' = [members EXCEPT ![g] = @ \cup {x}]
          PROVE  DOMAIN members' = AllGroups /\ Below(members, members')
      BY <3>1, <3>4 DEF Below
    <3> QED
      BY <2>2, <3>2, <3>3, <3>4
  <2> QED
    BY <2>1, <2>3, <2>4, <2>5 DEF IInv, Shape
<1>7. CASE Fault(p)
  BY <1>3, <1>7 DEF Fault, Goto, IInv, Shape
<1>8. ASSUME NEW wanted, NEW meant, NEW stale, Edit(p, wanted, meant, stale)
      PROVE  Frame /\ rows' = rows
  <2>1. /\ \E x : todo' = [todo EXCEPT ![p] = x]
        /\ Goto(p, "done") /\ rows' = rows /\ req' = req /\ mem' = mem
    BY <1>8 DEF Edit
  <2> QED
    BY <2>1 DEF Goto, IInv, Shape
<1>9. CASE ReplaceGroupMembers(p) \/ SyncDirectory(p)
  BY <1>3, <1>4, <1>8, <1>9 DEF ReplaceGroupMembers, SyncDirectory
<1>10. CASE ReplaceUserManualGroups(p)
  <2>1. CASE At(p, "user", "begin") /\ req[p].groups \subseteq Manual
    <3>1. /\ \E x : todo' = [todo EXCEPT ![p].look = x]
          /\ Goto(p, "store") /\ rows' = rows /\ req' = req /\ mem' = mem
      BY <1>10, <2>1 DEF ReplaceUserManualGroups, At
    <3>2. Frame
      BY <3>1 DEF Goto, IInv, Shape
    <3> QED
      BY <1>3, <3>1, <3>2
  <2>2. CASE At(p, "user", "begin") /\ ~(req[p].groups \subseteq Manual)
    BY <1>3, <1>4, <1>10, <2>2 DEF ReplaceUserManualGroups, At
  <2>3. CASE At(p, "user", "store")
    <3>1. \E wanted, meant, stale : Edit(p, wanted, meant, stale)
      BY <1>10, <2>3 DEF ReplaceUserManualGroups, At
    <3> QED
      BY <1>3, <1>8, <3>1
  <2> QED
    BY <1>10, <2>1, <2>2, <2>3 DEF ReplaceUserManualGroups
<1>11. CASE InviteUser(p)
  <2>1. /\ members' = members \/ members' = [members EXCEPT !["allUsers"] = @ \cup {req[p].user}]
        /\ graph' = graph /\ rules' = rules /\ req' = req /\ todo' = todo /\ mem' = mem /\ Goto(p, "done")
    BY <1>11 DEF InviteUser
  <2>2. DOMAIN members' = AllGroups /\ Below(members, members')
    BY <2>1 DEF Below, IInv, Shape
  <2>3. Frame
    BY <2>1 DEF Goto, IInv, Shape
  <2> QED
    BY <2>1, <2>2, <2>3 DEF IInv, Shape
<1>12. CASE SavePermissionGraph(p)
  <2>1. /\ members' = members /\ rules' = rules /\ req' = req /\ todo' = todo /\ \E label : Goto(p, label)
        /\ mem' = mem \/ \E x : mem' = [mem EXCEPT ![p].graph = x]
    BY <1>12 DEF SavePermissionGraph, rows
  <2>2. /\ DOMAIN mem' = Procs /\ \A q \in Procs \ {p} : mem'[q] = mem[q]
        /\ Fields \subseteq DOMAIN mem'[p] /\ Existing(mem'[p].rules)
    BY <2>1 DEF IInv, Shape
  <2>3. Frame
    BY <2>1, <2>2 DEF Goto, IInv, Shape
  <2> QED
    BY <2>1, <2>3 DEF IInv, Shape
<1>13. CASE SaveProjectAccessRules(p)
  <2>1. /\ members' = members /\ graph' = graph /\ req' = req /\ todo' = todo /\ \E label : Goto(p, label)
        /\ mem' = mem \/ mem' = [mem EXCEPT ![p].rules = rules]
        /\ rules' = rules \/ (req[p].kind = "rules" /\ rules' = NewRules(mem[p].rules, req[p]))
    BY <1>13 DEF SaveProjectAccessRules, rows, At
  <2>2. /\ DOMAIN mem' = Procs /\ \A q \in Procs \ {p} : mem'[q] = mem[q]
        /\ Fields \subseteq DOMAIN mem'[p] /\ Existing(mem'[p].rules)
    BY <2>1 DEF IInv, Shape
  <2>3. Frame
    BY <2>1, <2>2 DEF Goto, IInv, Shape
  <2>4. Existing(rules')
    BY <2>1 DEF IInv, Shape, Existing, NewRules
  <2> QED
    BY <2>1, <2>3, <2>4 DEF IInv, Shape
<1> QED
  BY <1>5, <1>6, <1>7, <1>9, <1>10, <1>11, <1>12, <1>13 DEF Step

\* An edit is no answer.
LEMMA EditsEnd ==
  ASSUME IInv, NEW p \in Procs, ~IsCheck(p), Step(p)
  PROVE  pc'[p] = pc[p] \/ pc'[p] \notin {"granted", "denied"}
<1>1. ~HasCapability(p) /\ ~CanAccessProject(p)
  BY DEF HasCapability, CanAccessProject, IsCheck, At
<1>2. ASSUME NEW label, Goto(p, label) PROVE pc'[p] = label
  BY <1>2 DEF Goto, IInv, Shape
<1>3. CASE HasMember(p) \/ DeleteMembers(p) \/ AddMember(p)
  BY <1>3 DEF HasMember, DeleteMembers, AddMember
<1>4. CASE ~(HasMember(p) \/ DeleteMembers(p) \/ AddMember(p))
  <2>1. Goto(p, "failed") \/ Goto(p, "refused") \/ Goto(p, "done") \/ Goto(p, "store")
    BY <1>1, <1>4 DEF Step, Fault, ReplaceGroupMembers, ReplaceUserManualGroups, SyncDirectory, InviteUser,
                      SavePermissionGraph, SaveProjectAccessRules, Edit, Answer, At
  <2> QED
    BY <1>2, <2>1
<1> QED
  BY <1>3, <1>4

\* The steps of a check.
LEMMA CheckKeeps ==
  ASSUME IInv, NEW p \in Procs, IsCheck(p), Step(p), Watch
  PROVE  Sound(p)'
<1>1. Sound(p) /\ todo[p] = NoPlan /\ req[p].kind \in {"capability", "project"}
  BY DEF IInv, Sound, IsCheck
<1>2. HasCapability(p) \/ CanAccessProject(p)
  BY <1>1 DEF Step, HasMember, DeleteMembers, AddMember, Due, NoPlan, Fault, ReplaceGroupMembers, ReplaceUserManualGroups, SyncDirectory, InviteUser,
              SavePermissionGraph, SaveProjectAccessRules, At
<1>3. CASE pc[p] \in {"begin", "isAdmin", "isAdminIn"}
  <2>1. \E next : IsAdmin(p, next) /\ next = (IF req[p].kind = "capability" THEN "graph" ELSE "owner")
    BY <1>1, <1>2, <1>3 DEF HasCapability, CanAccessProject, At
  <2> QED
    BY <1>3, <2>1, BeginKeeps, AdminKeeps
<1>4. CASE pc[p] \in {"graph", "groups"}
  <2>1. HasCapability(p)
    BY <1>1, <1>2, <1>4 DEF CanAccessProject, IsAdmin, At
  <2> QED
    BY <1>4, <2>1, CapabilityKeeps
<1>5. CASE pc[p] \in {"owner", "rules", "member"}
  <2>1. CanAccessProject(p)
    BY <1>1, <1>2, <1>5 DEF HasCapability, IsAdmin, At
  <2> QED
    BY <1>5, <2>1, ProjectKeeps
<1>6. CASE pc[p] \notin {"begin", "isAdmin", "isAdminIn", "graph", "groups", "owner", "rules", "member"}
  BY <1>2, <1>6 DEF HasCapability, CanAccessProject, IsAdmin, At
<1> QED
  BY <1>3, <1>4, <1>5, <1>6

LEMMA Inductive == Plausible /\ Spec => []IInv
<1>1. Plausible /\ Init => IInv
  <2> SUFFICES ASSUME Plausible, Init PROVE IInv
    OBVIOUS
  <2>1. \A p \in Procs : mem[p] = [got |-> {}, graph |-> graph, rules |-> {}, left |-> {}]
    BY DEF Init
  <2>2. ASSUME NEW p \in Procs PROVE {"got", "graph", "rules", "left"} \subseteq DOMAIN mem[p] /\ mem[p].rules = {}
    BY <2>1
  <2>3. \A p \in Procs : /\ req[p].kind = "project" => req[p].owner \in AllGroups
                         /\ req[p].kind = "rules" => Existing(req[p].rules)
    BY DEF Init, Plausible, Existing
  <2>4. PICK s \in Starts : members = s.members /\ graph = s.graph /\ rules = s.rules
    BY DEF Init
  <2>5. DOMAIN members = AllGroups /\ Existing(rules)
    BY <2>4 DEF Plausible, Existing
  <2>6. Shape
    BY <2>2, <2>3, <2>5 DEF Shape, Init, Existing
  <2>7. ASSUME NEW p \in Procs PROVE Sound(p)
    BY <2>1 DEF Init, Sound, Stages
  <2> QED
    BY <2>6, <2>7 DEF IInv
<1>2. IInv /\ [Next]_vars => IInv'
  <2> SUFFICES ASSUME IInv, [Next]_vars PROVE IInv'
    OBVIOUS
  <2>1. CASE UNCHANGED vars
    <3>1. Shape'
      BY <2>1 DEF vars, IInv, Shape
    <3>2. ASSUME NEW p \in Procs PROVE Sound(p)'
      <4>1. Sound(p)
        BY DEF IInv
      <4>2. UNCHANGED <<members, graph, rules, req, todo, pc, mem, truth, changes>>
        BY <2>1 DEF vars
      <4>3. ASSUME NEW m, NEW l PROVE Denies(p, m, l)' <=> Denies(p, m, l)
        BY <4>2 DEF Denies, Admitted, GraphAdmin, GroupsIn
      <4>4. ASSUME NEW m, NEW l, Allows(req[p], m, l) \in truth[p] PROVE Allows(req[p], m, l)' \in truth'[p]
        BY <4>2, <4>4 DEF Allows, AllowsBy, GraphAdmin, Grants, Admitted, GroupsIn
      <4>5. ASSUME NEW m, NEW l, Before(p, m, l) PROVE Before(p, m, l)'
        BY <4>2, <4>3, <4>4, <4>5 DEF Before, Below
      <4>6. Denies(p, members, rules) => Denies(p, members, rules)'
        BY <4>2 DEF Denies, Admitted, GraphAdmin, GroupsIn
      <4>7. Allows(req[p], members, rules) \in truth[p] => Allows(req[p], members, rules)' \in truth'[p]
        BY <4>2 DEF Allows, AllowsBy, GraphAdmin, Grants, Admitted, GroupsIn
      <4>8. Deciding(p) => Deciding(p)'
        BY <4>2, <4>5, <4>6, <4>7 DEF Deciding
      <4> QED
        BY <4>1, <4>2, <4>8 DEF Sound, IsCheck
    <3> QED
      BY <3>1, <3>2 DEF IInv
  <2>2. ASSUME NEW p \in Procs, Step(p), Watch PROVE IInv'
    <3>1. ASSUME NEW q \in Procs, ~IsCheck(q) PROVE Sound(q)'
      <4>1. pc[q] \notin {"granted", "denied"} /\ ~IsCheck(q)'
        BY <2>2, <3>1, StepShape DEF IInv, Sound, IsCheck
      <4>2. pc'[q] = pc[q] \/ (q = p /\ pc'[p] \notin {"granted", "denied"})
        BY <2>2, <3>1, StepShape, EditsEnd
      <4> QED
        BY <4>1, <4>2 DEF Sound
    <3>2. ASSUME NEW q \in Procs \ {p}, IsCheck(q) PROVE Sound(q)'
      BY <2>2, <3>2, StepShape, OthersStep
    <3>3. IsCheck(p) => Sound(p)'
      BY <2>2, CheckKeeps
    <3> QED
      BY <2>2, <3>1, <3>2, <3>3, StepShape DEF IInv
  <2> QED
    BY <2>1, <2>2 DEF Next
<1> QED
  BY <1>1, <1>2, PTL DEF Spec

(* The answer of a permission check was the truth at some moment of the     *)
(* check, unless two writes fell into it or one of the graph, which is read *)
(* twice (identity/service.go HasCapability, org.go CanAccessProject).      *)
THEOREM ChecksAnswerForAMoment == Plausible /\ Spec => []DecidedOnSomeMoment
<1>1. IInv => DecidedOnSomeMoment
  <2> SUFFICES ASSUME IInv, NEW p \in Procs, pc[p] \in {"granted", "denied"}, changes[p] < 2
               PROVE  (pc[p] = "granted") \in truth[p]
    BY DEF DecidedOnSomeMoment
  <2>1. Sound(p)
    BY DEF IInv
  <2>2. IsCheck(p)
    BY <2>1 DEF Sound
  <2> QED
    BY <2>1, <2>2 DEF Sound
<1> QED
  BY <1>1, Inductive, PTL

----------------------------------------------------------------------------
(* The settings: who has read a list that nobody stored since holds it.    *)

Kept ==
  /\ DOMAIN fresh = Procs /\ {"graph", "rules"} \subseteq DOMAIN asked
  /\ SettingsKeptOrOverlap
  /\ \A p \in Procs : /\ req[p].kind = "graph" /\ "graph" \in fresh[p] => mem[p].graph = graph
                      /\ req[p].kind = "rules" /\ "rules" \in fresh[p] => mem[p].rules = rules

\* A step that stores no settings leaves what others have read, and p's own
\* unless p reads it now.
LEMMA NoSettings ==
  ASSUME IInv, Kept, NEW p \in Procs,
         graph' = graph, rules' = rules, asked' = asked, raced \subseteq raced', req' = req,
         DOMAIN fresh' = Procs, \A q \in Procs \ {p} : mem'[q] = mem[q] /\ fresh'[q] \subseteq fresh[q],
         req[p].kind = "graph" /\ "graph" \in fresh'[p] => mem'[p].graph = graph,
         req[p].kind = "rules" /\ "rules" \in fresh'[p] => mem'[p].rules = rules
  PROVE  Kept'
BY DEF Kept, SettingsKeptOrOverlap

LEMMA GraphKept ==
  ASSUME IInv, Kept, NEW p \in Procs, SavePermissionGraph(p)
  PROVE  Kept'
<1>1. req[p].kind = "graph"
  BY DEF SavePermissionGraph, At
<1>2. CASE mem' = [mem EXCEPT ![p].graph = graph] /\ fresh' = [fresh EXCEPT ![p] = {"graph"}]
           /\ UNCHANGED <<rows, req, todo, faults, lists, asked, raced>>
  <2>1. mem'[p].graph = graph /\ \A q \in Procs \ {p} : mem'[q] = mem[q]
    BY <1>2 DEF IInv, Shape
  <2> QED
    BY <1>1, <1>2, <2>1, NoSettings DEF rows, Kept
<1>3. CASE /\ graph' = [mem[p].graph EXCEPT ![req[p].group] = req[p].grant]
           /\ asked' = [asked EXCEPT !.graph[req[p].group] = req[p].grant]
           /\ fresh' = [q \in Procs |-> fresh[q] \ {"graph"}]
           /\ raced' = raced \cup ({"graph"} \ fresh[p])
           /\ UNCHANGED <<members, rules, req, todo, mem, faults, lists>>
  <2>1. /\ {"graph", "rules"} \subseteq DOMAIN asked' /\ asked'.rules = asked.rules
        /\ asked'.graph = [asked.graph EXCEPT ![req[p].group] = req[p].grant]
    BY <1>3 DEF Kept
  <2>2. "graph" \in raced' \/ graph' = asked'.graph
    BY <1>1, <1>3, <2>1 DEF Kept, SettingsKeptOrOverlap
  <2>3. "rules" \in raced' \/ rules' = asked'.rules
    BY <1>3, <2>1 DEF Kept, SettingsKeptOrOverlap
  <2> QED
    BY <1>3, <2>1, <2>2, <2>3 DEF Kept, SettingsKeptOrOverlap
<1> QED
  BY <1>2, <1>3 DEF SavePermissionGraph

LEMMA RulesKept ==
  ASSUME IInv, Kept, NEW p \in Procs, SaveProjectAccessRules(p)
  PROVE  Kept'
<1>1. req[p].kind = "rules"
  BY DEF SaveProjectAccessRules, At
<1>2. CASE mem' = [mem EXCEPT ![p].rules = rules] /\ fresh' = [fresh EXCEPT ![p] = {"rules"}]
           /\ UNCHANGED <<rows, req, todo, faults, lists, asked, raced>>
  <2>1. mem'[p].rules = rules /\ \A q \in Procs \ {p} : mem'[q] = mem[q]
    BY <1>2 DEF IInv, Shape
  <2> QED
    BY <1>1, <1>2, <2>1, NoSettings DEF rows, Kept
<1>3. CASE UNCHANGED <<rows, req, todo, mem, lists, asked, fresh, raced>>
  BY <1>1, <1>3, NoSettings DEF rows, Kept
<1>4. CASE /\ rules' = NewRules(mem[p].rules, req[p])
           /\ asked' = Asking(p)
           /\ fresh' = [q \in Procs |-> fresh[q] \ {"rules"}]
           /\ raced' = raced \cup ({"rules"} \ fresh[p])
           /\ UNCHANGED <<members, graph, req, todo, mem, faults, lists>>
  <2>1. /\ {"graph", "rules"} \subseteq DOMAIN asked' /\ asked'.graph = asked.graph
        /\ asked'.rules = NewRules(asked.rules, req[p])
    BY <1>4 DEF Kept, NewRules, Asking
  <2>2. "rules" \in raced' \/ rules' = asked'.rules
    BY <1>1, <1>4, <2>1 DEF Kept, SettingsKeptOrOverlap
  <2>3. "graph" \in raced' \/ graph' = asked'.graph
    BY <1>4, <2>1 DEF Kept, SettingsKeptOrOverlap
  <2> QED
    BY <1>4, <2>1, <2>2, <2>3 DEF Kept, SettingsKeptOrOverlap
<1>5. CASE UNCHANGED <<rows, req, todo, mem, lists, fresh, asked, raced>>
  BY <1>5 DEF rows, Kept, SettingsKeptOrOverlap
<1>6. CASE asked' = Asking(p) /\ raced' = raced \cup {"rules"} /\ UNCHANGED <<rows, req, todo, mem, lists, fresh>>
  <2>1. {"graph", "rules"} \subseteq DOMAIN asked' /\ asked'.graph = asked.graph
    BY <1>6 DEF Kept, Asking
  <2> QED
    BY <1>6, <2>1 DEF rows, Kept, SettingsKeptOrOverlap
<1> QED
  BY <1>2, <1>3, <1>4, <1>5, <1>6 DEF SaveProjectAccessRules

LEMMA OthersKept ==
  ASSUME IInv, Kept, NEW p \in Procs, Step(p), ~SavePermissionGraph(p), ~SaveProjectAccessRules(p)
  PROVE  Kept'
<1>1. ASSUME NEW label, Answer(p, label) PROVE Kept'
  BY <1>1, NoSettings DEF Answer, rows, Kept
<1>2. ASSUME NEW wanted, NEW meant, NEW stale, Edit(p, wanted, meant, stale) PROVE Kept'
  BY <1>2, NoSettings DEF Edit, rows, Kept
<1>3. CASE HasCapability(p) \/ CanAccessProject(p)
  <2>1. UNCHANGED <<rows, req, asked, fresh, raced>>
    BY <1>3 DEF HasCapability, CanAccessProject, IsAdmin, Answer
  <2>2. req[p].kind \in {"capability", "project"}
    BY <1>3 DEF HasCapability, CanAccessProject, At
  <2>3. mem' = mem \/ \E x : mem' = [mem EXCEPT ![p].graph = x] \/ mem' = [mem EXCEPT ![p].left = x]
    BY <1>3 DEF HasCapability, CanAccessProject, IsAdmin, Answer
  <2>4. \A q \in Procs \ {p} : mem'[q] = mem[q]
    BY <2>3 DEF IInv, Shape
  <2> QED
    BY <2>1, <2>2, <2>4, NoSettings DEF rows, Kept
<1>4. CASE HasMember(p) \/ DeleteMembers(p) \/ AddMember(p)
  <2>1. /\ UNCHANGED <<graph, rules, req, asked, raced>>
        /\ DOMAIN fresh' = Procs /\ \A q \in Procs : fresh'[q] \subseteq fresh[q]
        /\ mem' = mem \/ \E x : mem' = [mem EXCEPT ![p].got = x]
    BY <1>4 DEF HasMember, DeleteMembers, AddMember, Written, rows, Kept
  <2>2. /\ \A q \in Procs \ {p} : mem'[q] = mem[q]
        /\ mem'[p].graph = mem[p].graph /\ mem'[p].rules = mem[p].rules
    BY <2>1 DEF IInv, Shape
  <2>3. /\ req[p].kind = "graph" /\ "graph" \in fresh'[p] => mem'[p].graph = graph
        /\ req[p].kind = "rules" /\ "rules" \in fresh'[p] => mem'[p].rules = rules
    BY <2>1, <2>2 DEF Kept
  <2> QED
    BY <2>1, <2>2, <2>3, NoSettings
<1>5. CASE Fault(p)
  BY <1>5, NoSettings DEF Fault, rows, Kept
<1>6. CASE ReplaceGroupMembers(p) \/ SyncDirectory(p)
  BY <1>1, <1>2, <1>6 DEF ReplaceGroupMembers, SyncDirectory
<1>7. CASE ReplaceUserManualGroups(p)
  <2>1. ASSUME fresh' = [fresh EXCEPT ![p] = Manual \ EditedByOthers(p)], req[p].kind = "user",
               UNCHANGED <<rows, req, mem, faults, lists, asked, raced>>
        PROVE  Kept'
    BY <2>1, NoSettings DEF rows, Kept
  <2> QED
    BY <1>1, <1>2, <1>7, <2>1 DEF ReplaceUserManualGroups, At
<1>8. CASE InviteUser(p)
  BY <1>8, NoSettings DEF InviteUser, Kept
<1> QED
  BY <1>3, <1>4, <1>5, <1>6, <1>7, <1>8 DEF Step

(* No grant of another group and no rule of another project is lost, for   *)
(* any number of saves, unless one stored over a rival's, after a failed   *)
(* read (identity.go:369), or dropped the error of its store (:318).       *)
THEOREM SettingsAreKept == Plausible /\ Spec => []SettingsKeptOrOverlap
<1>1. Init => Kept
  BY DEF Init, Kept, SettingsKeptOrOverlap
<1>2. IInv /\ Kept /\ [Next]_vars => Kept'
  <2> SUFFICES ASSUME IInv, Kept, [Next]_vars PROVE Kept'
    OBVIOUS
  <2>1. CASE UNCHANGED vars
    BY <2>1 DEF vars, Kept, SettingsKeptOrOverlap
  <2>2. ASSUME NEW p \in Procs, Step(p) PROVE Kept'
    BY <2>2, GraphKept, RulesKept, OthersKept
  <2> QED
    BY <2>1, <2>2 DEF Next
<1>3. Kept => SettingsKeptOrOverlap
  BY DEF Kept
<1> QED
  BY <1>1, <1>2, <1>3, Inductive, PTL DEF Spec

----------------------------------------------------------------------------
(* The lists of members.  A group that one request is storing has, with    *)
(* the rows that it still inserts, the members of the list it stores; who  *)
(* looks the members up has seen every one of a group that nobody wrote.   *)

Plans == [look : SUBSET (Manual \X Users), clear : SUBSET AllGroups, add : SUBSET (AllGroups \X Users)]

ListTypes ==
  /\ Plausible
  /\ members \in [AllGroups -> SUBSET Users] /\ lists \in [AllGroups -> SUBSET Users]
  /\ req \in [Procs -> Requests]
  /\ todo \in [Procs -> Plans]
  /\ DOMAIN fresh = Procs

\* The members of g that a plan still inserts.
Planned(plan, g) == {v \in Users : <<g, v>> \in plan.add}

Edits(plan, g) == g \in plan.clear \/ Planned(plan, g) # {}

Found(read, got, look, m) ==
  \A g \in Manual \cap read, v \in Users :
    /\ <<g, v>> \in got => v \in m[g]
    /\ v \in m[g] => <<g, v>> \in got \/ <<g, v>> \in look

\* What a request has planned, and what it has found.
InOrder(p) ==
  /\ \A g : Edits(todo[p], g) =>
       /\ todo[p].look = {} /\ pc[p] = "done"
       /\ req[p].kind \in {"group", "user", "sync"}
       /\ g \in (IF req[p].kind = "sync" THEN Synced ELSE Manual)
  /\ todo[p].look # {} => req[p].kind = "user" /\ pc[p] = "store"
  /\ req[p].kind = "user" /\ pc[p] = "begin" => mem[p].got = {}
  /\ req[p].kind = "user" /\ pc[p] = "store" => Found(fresh[p], mem[p].got, todo[p].look, members)

\* Group g, by the plans t, its members m and its lists l.
Stored(t, m, l, g) ==
  /\ \A p, q \in Procs : Edits(t[p], g) /\ Edits(t[q], g) => p = q
  /\ (\A p \in Procs : ~Edits(t[p], g)) => m = l
  /\ \A p \in Procs : g \in t[p].clear => Planned(t[p], g) = l
  /\ \A p \in Procs : g \notin t[p].clear /\ Edits(t[p], g) => m \cup Planned(t[p], g) = l

ListInv ==
  /\ ListTypes
  /\ \A p \in Procs : InOrder(p)
  /\ \A g \in AllGroups \ raced : Stored(todo, members[g], lists[g], g)

LEMMA FirstIsOne == ASSUME NEW S, S # {} PROVE First(S) \in S
BY DEF First

LEMMA Pairs ==
  ASSUME NEW S, NEW T, NEW x \in S \X T
  PROVE  x[1] \in S /\ x[2] \in T /\ x = <<x[1], x[2]>>
OBVIOUS

LEMMA EditedMeans ==
  ASSUME ListTypes, NEW p \in Procs, NEW g
  PROVE  g \in EditedBy(p) <=> Edits(todo[p], g)
<1>1. todo[p].add \subseteq AllGroups \X Users
  BY DEF ListTypes, Plans
<1>2. ASSUME NEW x \in todo[p].add PROVE x[2] \in Users /\ x = <<x[1], x[2]>>
  BY <1>1, Pairs
<1>3. (\E x \in todo[p].add : g = x[1]) <=> Planned(todo[p], g) # {}
  BY <1>2 DEF Planned
<1> QED
  BY <1>3 DEF EditedBy, Edits

\* Plans that say the same of g.
LEMMA Untouched ==
  ASSUME NEW t, NEW s, NEW m, NEW l, NEW g, Stored(t, m, l, g),
         \A q \in Procs : /\ g \in s[q].clear <=> g \in t[q].clear
                          /\ Planned(s[q], g) = Planned(t[q], g)
  PROVE  Stored(s, m, l, g)
<1>1. \A q \in Procs : Edits(s[q], g) <=> Edits(t[q], g)
  BY DEF Edits
<1> QED
  BY <1>1 DEF Stored

LEMMA NothingPlanned == \A g : ~Edits(NoPlan, g)
BY DEF Edits, Planned, NoPlan

\* Requests whose own part of the invariant is about nothing that changed.
LEMMA OtherInOrder ==
  ASSUME NEW q \in Procs, InOrder(q), req' = req, todo'[q] = todo[q], pc'[q] = pc[q], mem'[q] = mem[q],
         \A g \in Manual : g \in fresh'[q] => g \in fresh[q] /\ members'[g] = members[g]
  PROVE  InOrder(q)'
BY DEF InOrder, Found

\* A step of a request that stores no list.
LEMMA Quiet ==
  ASSUME ListInv, NEW p \in Procs,
         UNCHANGED <<members, lists, req, todo>>, raced \subseteq raced', DOMAIN fresh' = Procs,
         \A q \in Procs \ {p} : pc'[q] = pc[q] /\ mem'[q] = mem[q] /\ fresh'[q] \subseteq fresh[q],
         todo[p] = NoPlan, req[p].kind = "user" => pc'[p] \notin {"begin", "store"}
  PROVE  ListInv'
<1>1. ListTypes'
  BY DEF ListInv, ListTypes, Plausible
<1>2. ASSUME NEW q \in Procs PROVE InOrder(q)'
  <2>1. CASE q = p
    BY <2>1, NothingPlanned DEF InOrder, NoPlan
  <2>2. CASE q # p
    BY <2>2, OtherInOrder DEF ListInv
  <2> QED
    BY <2>1, <2>2
<1> QED
  BY <1>1, <1>2 DEF ListInv

LEMMA LookedUp ==
  ASSUME IInv, ListInv, NEW p \in Procs, HasMember(p)
  PROVE  ListInv'
<1> DEFINE x == First(todo[p].look)
           plan == [todo[p] EXCEPT !.look = @ \ {x}]
           got == mem[p].got \cup {y \in {x} : x[2] \in members[x[1]]}
<1>1. /\ todo[p] \in Plans /\ x \in todo[p].look /\ x \in Manual \X Users
      /\ req[p].kind = "user" /\ pc[p] = "store"
  BY FirstIsOne DEF HasMember, ListInv, ListTypes, Plans, InOrder
<1>2. x[1] \in Manual /\ x[2] \in Users /\ x = <<x[1], x[2]>>
  BY <1>1, Pairs
<1>3. UNCHANGED <<members, lists, req, raced, pc>> /\ todo' = [todo EXCEPT ![p] = plan]
  BY DEF HasMember, rows
<1>4. /\ plan \in Plans /\ plan.clear = todo[p].clear /\ plan.add = todo[p].add
      /\ plan.look = todo[p].look \ {x}
  BY <1>1 DEF Plans
<1>5. /\ mem'[p].got \in {got, mem[p].got} /\ \A q \in Procs \ {p} : mem'[q] = mem[q]
      /\ DOMAIN fresh' = Procs /\ \A q \in Procs \ {p} : fresh'[q] = fresh[q]
      /\ \/ mem'[p].got = got /\ fresh'[p] = fresh[p]
         \/ mem'[p].got = mem[p].got /\ fresh'[p] = fresh[p] \ {x[1]}
  BY DEF HasMember, IInv, Shape, ListInv, ListTypes
<1> HIDE DEF x, plan, got
<1>6. todo' \in [Procs -> Plans] /\ todo'[p] = plan /\ \A q \in Procs \ {p} : todo'[q] = todo[q]
  BY <1>3, <1>4 DEF ListInv, ListTypes
<1>7. ListTypes'
  BY <1>3, <1>5, <1>6 DEF ListInv, ListTypes, Plausible
<1>8. ASSUME NEW g PROVE ~Edits(plan, g)
  BY <1>1, <1>4, FirstIsOne DEF ListInv, InOrder, Edits, Planned
<1>9. Found(fresh'[p], mem'[p].got, plan.look, members)
  <2> SUFFICES ASSUME NEW g \in Manual \cap fresh'[p], NEW v \in Users
               PROVE  /\ <<g, v>> \in mem'[p].got => v \in members[g]
                      /\ v \in members[g] => <<g, v>> \in mem'[p].got \/ <<g, v>> \in plan.look
    BY DEF Found
  <2>1. /\ <<g, v>> \in mem[p].got => v \in members[g]
        /\ v \in members[g] => <<g, v>> \in mem[p].got \/ <<g, v>> \in todo[p].look
    BY <1>1, <1>5 DEF ListInv, InOrder, Found
  <2>2. <<g, v>> = x <=> g = x[1] /\ v = x[2]
    BY <1>2
  <2>3. <<g, v>> \in got <=> <<g, v>> \in mem[p].got \/ (<<g, v>> = x /\ v \in members[g])
    BY <2>2 DEF got
  <2>4. <<g, v>> \in plan.look <=> <<g, v>> \in todo[p].look /\ <<g, v>> # x
    BY <1>4
  <2>5. CASE mem'[p].got = got
    BY <2>1, <2>3, <2>4, <2>5
  <2>6. CASE mem'[p].got = mem[p].got /\ g # x[1]
    BY <2>1, <2>2, <2>4, <2>6
  <2> QED
    BY <1>5, <2>5, <2>6
<1>10. ASSUME NEW q \in Procs PROVE InOrder(q)'
  <2>1. CASE q = p
    BY <1>1, <1>3, <1>5, <1>6, <1>8, <1>9, <2>1 DEF InOrder, Found
  <2>2. CASE q # p
    BY <1>3, <1>5, <1>6, <2>2, OtherInOrder DEF ListInv
  <2> QED
    BY <2>1, <2>2
<1>11. ASSUME NEW g \in AllGroups \ raced' PROVE Stored(todo', members'[g], lists'[g], g)
  <2>1. Stored(todo, members[g], lists[g], g)
    BY <1>3 DEF ListInv
  <2>2. \A q \in Procs : /\ g \in todo'[q].clear <=> g \in todo[q].clear
                         /\ Planned(todo'[q], g) = Planned(todo[q], g)
    BY <1>4, <1>6 DEF Planned
  <2> QED
    BY <1>3, <2>1, <2>2, Untouched
<1> QED
  BY <1>7, <1>10, <1>11 DEF ListInv

\* A statement of p, which edits, changes group h: p's plan for it is told, the
\* others have none.
LEMMA Writing ==
  ASSUME ListInv, NEW p \in Procs, NEW h \in AllGroups, Edits(todo[p], h), NEW plan \in Plans, NEW rows1 \in SUBSET Users,
         UNCHANGED <<lists, req, raced, pc, mem>>,
         todo' = [todo EXCEPT ![p] = plan], members' = [members EXCEPT ![h] = rows1], Written(p, h),
         plan.look = {}, \A g : Edits(plan, g) => Edits(todo[p], g),
         \A g \in AllGroups \ {h} : /\ g \in plan.clear <=> g \in todo[p].clear
                                    /\ Planned(plan, g) = Planned(todo[p], g),
         h \notin plan.clear,
         h \notin raced => rows1 \cup Planned(plan, h) = lists[h]
  PROVE  ListInv'
<1>1. todo' \in [Procs -> Plans] /\ todo'[p] = plan /\ \A q \in Procs \ {p} : todo'[q] = todo[q]
  BY DEF ListInv, ListTypes
<1>2. members' \in [AllGroups -> SUBSET Users] /\ members'[h] = rows1
      /\ \A g \in AllGroups \ {h} : members'[g] = members[g]
  BY DEF ListInv, ListTypes
<1>3. DOMAIN fresh' = Procs /\ \A q \in Procs \ {p} : fresh'[q] = fresh[q] \ {h}
  BY DEF Written
<1>4. ListTypes'
  BY <1>1, <1>2, <1>3 DEF ListInv, ListTypes, Plausible
<1>5. ASSUME NEW q \in Procs PROVE InOrder(q)'
  <2>1. CASE q = p
    <3>1. InOrder(p) /\ pc[p] = "done"
      BY DEF ListInv, InOrder
    <3> QED
      BY <1>1, <2>1, <3>1 DEF InOrder
  <2>2. CASE q # p
    BY <1>1, <1>2, <1>3, <2>2, OtherInOrder DEF ListInv, ListTypes, Plausible, AllGroups
  <2> QED
    BY <2>1, <2>2
<1>6. ASSUME NEW g \in AllGroups \ raced' PROVE Stored(todo', members'[g], lists'[g], g)
  <2>1. Stored(todo, members[g], lists[g], g)
    BY DEF ListInv
  <2>2. CASE g # h
    <3>1. \A q \in Procs : /\ g \in todo'[q].clear <=> g \in todo[q].clear
                           /\ Planned(todo'[q], g) = Planned(todo[q], g)
      BY <1>1, <2>2
    <3> QED
      BY <1>2, <2>1, <2>2, <3>1, Untouched
  <2>3. CASE g = h
    <3>1. \A q \in Procs \ {p} : ~Edits(todo'[q], h)
      BY <1>1, <2>1, <2>3 DEF Stored
    <3>2. rows1 \cup Planned(plan, h) = lists[h]
      BY <2>3
    <3>3. ~Edits(plan, h) => rows1 = lists[h]
      BY <3>2 DEF Edits
    <3>4. \A q \in Procs : h \notin todo'[q].clear
      BY <1>1, <3>1 DEF Edits
    <3> QED
      BY <1>1, <1>2, <2>3, <3>1, <3>2, <3>3, <3>4 DEF Stored
  <2> QED
    BY <2>2, <2>3
<1> QED
  BY <1>4, <1>5, <1>6 DEF ListInv

LEMMA Cleared ==
  ASSUME ListInv, NEW p \in Procs, DeleteMembers(p)
  PROVE  ListInv'
<1> DEFINE h == First(todo[p].clear)
           plan == [todo[p] EXCEPT !.clear = @ \ {h}]
<1>1. todo[p] \in Plans /\ h \in todo[p].clear /\ h \in AllGroups /\ Edits(todo[p], h)
  BY FirstIsOne DEF DeleteMembers, ListInv, ListTypes, Plans, Edits
<1>2. /\ UNCHANGED <<lists, req, raced, pc, mem>> /\ Written(p, h)
      /\ todo' = [todo EXCEPT ![p] = plan] /\ members' = [members EXCEPT ![h] = {}]
  BY DEF DeleteMembers
<1>3. /\ plan \in Plans /\ plan.clear = todo[p].clear \ {h} /\ plan.add = todo[p].add
      /\ plan.look = todo[p].look
  BY <1>1 DEF Plans
<1>4. plan.look = {}
  BY <1>1, <1>3 DEF ListInv, InOrder
<1> HIDE DEF h, plan
<1>5. \A g : Planned(plan, g) = Planned(todo[p], g)
  BY <1>3 DEF Planned
<1>6. \A g : Edits(plan, g) => Edits(todo[p], g)
  BY <1>3, <1>5 DEF Edits
<1>7. h \notin raced => {} \cup Planned(plan, h) = lists[h]
  BY <1>1, <1>5 DEF ListInv, Stored
<1> QED
  BY <1>1, <1>2, <1>3, <1>4, <1>5, <1>6, <1>7, Writing

LEMMA Added ==
  ASSUME ListInv, NEW p \in Procs, AddMember(p)
  PROVE  ListInv'
<1> DEFINE x == First(Due(p))
           h == x[1]
           plan == [todo[p] EXCEPT !.add = @ \ {x}]
           new == members[h] \cup {x[2]}
<1>1. todo[p] \in Plans /\ x \in todo[p].add /\ h \notin todo[p].clear /\ x \in AllGroups \X Users
  BY FirstIsOne DEF AddMember, Due, ListInv, ListTypes, Plans
<1>2. h \in AllGroups /\ x[2] \in Users /\ x = <<h, x[2]>>
  BY <1>1, Pairs
<1>3. x[2] \in Planned(todo[p], h) /\ Edits(todo[p], h)
  BY <1>1, <1>2 DEF Planned, Edits
<1>4. /\ UNCHANGED <<lists, req, raced, pc, mem>> /\ Written(p, h)
      /\ todo' = [todo EXCEPT ![p] = plan] /\ members' = [members EXCEPT ![h] = new]
  BY DEF AddMember
<1>5. /\ plan \in Plans /\ plan.clear = todo[p].clear /\ plan.add = todo[p].add \ {x}
      /\ plan.look = todo[p].look
  BY <1>1 DEF Plans
<1>6. plan.look = {}
  BY <1>3, <1>5 DEF ListInv, InOrder
<1>7. new \in SUBSET Users
  BY <1>2 DEF ListInv, ListTypes
<1> HIDE DEF x, plan
<1>8. \A g, v : <<g, v>> = x <=> g = h /\ v = x[2]
  BY <1>2
<1>9. \A g : IF g = h THEN Planned(plan, g) = Planned(todo[p], g) \ {x[2]} ELSE Planned(plan, g) = Planned(todo[p], g)
  BY <1>5, <1>8 DEF Planned
<1>10. \A g : Edits(plan, g) => Edits(todo[p], g)
  BY <1>5, <1>9 DEF Edits
<1> HIDE DEF h
<1>11. h \notin raced => new \cup Planned(plan, h) = lists[h]
  <2> SUFFICES ASSUME h \notin raced PROVE new \cup Planned(plan, h) = lists[h]
    OBVIOUS
  <2>1. members[h] \cup Planned(todo[p], h) = lists[h]
    BY <1>1, <1>2, <1>3 DEF ListInv, Stored
  <2> QED
    BY <1>3, <1>9, <2>1
<1> HIDE DEF new
<1> QED
  BY <1>1, <1>2, <1>3, <1>4, <1>5, <1>6, <1>7, <1>9, <1>10, <1>11, Writing

LEMMA Failed ==
  ASSUME IInv, ListInv, NEW p \in Procs, Fault(p)
  PROVE  ListInv'
<1>1. /\ UNCHANGED <<members, lists, req, mem, fresh>> /\ raced' = raced \cup EditedBy(p)
      /\ todo' = [todo EXCEPT ![p] = NoPlan] /\ Goto(p, "failed")
  BY DEF Fault, rows
<1>2. NoPlan \in Plans
  BY DEF NoPlan, Plans
<1>3. todo' \in [Procs -> Plans] /\ todo'[p] = NoPlan /\ \A q \in Procs \ {p} : todo'[q] = todo[q]
  BY <1>1, <1>2 DEF ListInv, ListTypes
<1>4. ListTypes'
  BY <1>1, <1>3 DEF ListInv, ListTypes, Plausible
<1>5. \A q \in Procs \ {p} : pc'[q] = pc[q]
  BY <1>1 DEF Goto
<1>6. ASSUME NEW q \in Procs PROVE InOrder(q)'
  <2>1. CASE q = p
    <3>1. pc'[p] = "failed"
      BY <1>1 DEF Goto, IInv, Shape
    <3> QED
      BY <1>3, <2>1, <3>1, NothingPlanned DEF InOrder, NoPlan
  <2>2. CASE q # p
    BY <1>1, <1>3, <1>5, <2>2, OtherInOrder DEF ListInv
  <2> QED
    BY <2>1, <2>2
<1>7. ASSUME NEW g \in AllGroups \ raced' PROVE Stored(todo', members'[g], lists'[g], g)
  <2>1. Stored(todo, members[g], lists[g], g) /\ ~Edits(todo[p], g)
    BY <1>1, EditedMeans DEF ListInv
  <2>2. \A q \in Procs : /\ g \in todo'[q].clear <=> g \in todo[q].clear
                         /\ Planned(todo'[q], g) = Planned(todo[q], g)
    BY <1>3, <2>1, NothingPlanned DEF Edits
  <2> QED
    BY <1>1, <2>1, <2>2, Untouched
<1> QED
  BY <1>4, <1>6, <1>7 DEF ListInv

\* p begins to store the lists wanted.
LEMMA Begun ==
  ASSUME IInv, ListInv, NEW p \in Procs, todo[p] = NoPlan,
         NEW wanted, NEW meant, NEW stale, Edit(p, wanted, meant, stale),
         req[p].kind \in {"group", "user", "sync"},
         DOMAIN wanted \subseteq (IF req[p].kind = "sync" THEN Synced ELSE Manual),
         \A g \in DOMAIN wanted : /\ wanted[g] \subseteq Users /\ meant[g] \subseteq Users
                                  /\ g \in raced \cup stale \cup EditedByOthers(p) \/ wanted[g] = meant[g]
  PROVE  ListInv'
<1> DEFINE plan == [look |-> {}, clear |-> DOMAIN wanted, add |-> UNION {{g} \X wanted[g] : g \in DOMAIN wanted}]
<1>1. /\ UNCHANGED <<members, req, mem, fresh>> /\ todo' = [todo EXCEPT ![p] = plan]
      /\ lists' = [g \in AllGroups |-> IF g \in DOMAIN wanted THEN meant[g] ELSE lists[g]]
      /\ raced' = raced \cup stale \cup (DOMAIN wanted \cap EditedByOthers(p))
  BY DEF Edit, rows
<1>2. pc'[p] = "done" /\ \A q \in Procs \ {p} : pc'[q] = pc[q]
  BY DEF Edit, Goto, IInv, Shape
<1>3. DOMAIN wanted \subseteq AllGroups
  BY DEF AllGroups
<1>4. \A g, v : <<g, v>> \in plan.add <=> g \in DOMAIN wanted /\ v \in wanted[g]
  OBVIOUS
<1>5. plan \in Plans
  <2>1. plan.add \subseteq AllGroups \X Users
    BY <1>3
  <2> QED
    BY <1>3, <2>1 DEF Plans
<1>6. plan.look = {} /\ plan.clear = DOMAIN wanted
  OBVIOUS
<1> HIDE DEF plan
<1>7. todo' \in [Procs -> Plans] /\ todo'[p] = plan /\ \A q \in Procs \ {p} : todo'[q] = todo[q]
  BY <1>1, <1>5 DEF ListInv, ListTypes
<1>8. lists' \in [AllGroups -> SUBSET Users]
  BY <1>1 DEF ListInv, ListTypes
<1>9. ListTypes'
  BY <1>1, <1>7, <1>8 DEF ListInv, ListTypes, Plausible
<1>10. \A g : g \in DOMAIN wanted => Planned(plan, g) = wanted[g]
  BY <1>4 DEF Planned
<1>11. \A g : g \notin DOMAIN wanted => Planned(plan, g) = {}
  BY <1>4 DEF Planned
<1>12. \A g : Edits(plan, g) <=> g \in DOMAIN wanted
  BY <1>6, <1>11 DEF Edits
<1>13. ASSUME NEW q \in Procs PROVE InOrder(q)'
  <2>1. CASE q = p
    BY <1>1, <1>2, <1>6, <1>7, <1>12, <2>1 DEF InOrder
  <2>2. CASE q # p
    BY <1>1, <1>2, <1>7, <2>2, OtherInOrder DEF ListInv
  <2> QED
    BY <2>1, <2>2
<1>14. ASSUME NEW g \in AllGroups \ raced' PROVE Stored(todo', members'[g], lists'[g], g)
  <2>1. Stored(todo, members[g], lists[g], g)
    BY <1>1 DEF ListInv
  <2>2. CASE g \notin DOMAIN wanted
    <3>1. Planned(todo[p], g) = {} /\ g \notin todo[p].clear
      BY NothingPlanned DEF Edits
    <3>2. \A q \in Procs : /\ g \in todo'[q].clear <=> g \in todo[q].clear
                           /\ Planned(todo'[q], g) = Planned(todo[q], g)
      BY <1>6, <1>7, <1>11, <2>2, <3>1
    <3> QED
      BY <1>1, <2>1, <2>2, <3>2, Untouched
  <2>3. CASE g \in DOMAIN wanted
    <3>1. g \notin EditedByOthers(p) /\ wanted[g] = meant[g]
      BY <1>1, <2>3
    <3>2. \A q \in Procs \ {p} : ~Edits(todo'[q], g)
      BY <1>7, <3>1, EditedMeans DEF EditedByOthers, ListInv
    <3>3. \A q \in Procs \ {p} : g \notin todo'[q].clear
      BY <3>2 DEF Edits
    <3>4. lists'[g] = wanted[g]
      BY <1>1, <2>3, <3>1
    <3> QED
      BY <1>6, <1>7, <1>10, <1>12, <2>3, <3>2, <3>3, <3>4 DEF Stored
  <2> QED
    BY <2>2, <2>3
<1> QED
  BY <1>9, <1>13, <1>14 DEF ListInv

\* The checks, the saves of the settings and what is refused.
LEMMA NoListStored ==
  ASSUME IInv, ListInv, NEW p \in Procs,
         \/ HasCapability(p) \/ CanAccessProject(p) \/ SavePermissionGraph(p) \/ SaveProjectAccessRules(p)
         \/ At(p, req[p].kind, "begin") /\ Answer(p, "refused")
  PROVE  ListInv'
<1>1. /\ UNCHANGED <<members, lists, req, todo>> /\ raced \subseteq raced'
      /\ \/ req[p].kind \in {"capability", "project", "graph", "rules"}
         \/ Goto(p, "refused")
  BY DEF HasCapability, CanAccessProject, IsAdmin, IsCheck, At, SavePermissionGraph, SaveProjectAccessRules, Answer, rows
<1>2. \/ UNCHANGED fresh
      \/ \E x \in {"graph", "rules"} : fresh' = [fresh EXCEPT ![p] = {x}] \/ fresh' = [q \in Procs |-> fresh[q] \ {x}]
  BY DEF HasCapability, CanAccessProject, IsAdmin, SavePermissionGraph, SaveProjectAccessRules, Answer
<1>3. DOMAIN fresh' = Procs /\ \A q \in Procs \ {p} : fresh'[q] \subseteq fresh[q]
  BY <1>2 DEF ListInv, ListTypes
<1>4. todo[p] = NoPlan
  <2>1. CASE IsCheck(p)
    BY <2>1 DEF IInv, Sound
  <2>2. CASE ~IsCheck(p)
    BY <2>2 DEF HasCapability, CanAccessProject, IsAdmin, IsCheck, At, SavePermissionGraph, SaveProjectAccessRules
  <2> QED
    BY <2>1, <2>2
<1>5. \E label : Goto(p, label)
  BY DEF HasCapability, CanAccessProject, IsAdmin, SavePermissionGraph, SaveProjectAccessRules, Answer
<1>6. \A q \in Procs \ {p} : pc'[q] = pc[q]
  BY <1>5 DEF Goto, IInv, Shape
<1>7. mem' = mem \/ \E x : \/ mem' = [mem EXCEPT ![p].graph = x]
                           \/ mem' = [mem EXCEPT ![p].left = x]
                           \/ mem' = [mem EXCEPT ![p].rules = x]
  BY DEF HasCapability, CanAccessProject, IsAdmin, SavePermissionGraph, SaveProjectAccessRules, Answer
<1>8. \A q \in Procs \ {p} : mem'[q] = mem[q]
  BY <1>7 DEF IInv, Shape
<1>9. req[p].kind = "user" => pc'[p] \notin {"begin", "store"}
  BY <1>1 DEF Goto, IInv, Shape
<1> QED
  BY <1>1, <1>3, <1>4, <1>6, <1>8, <1>9, Quiet

\* Everybody's group is stored by no request.
LEMMA Invited ==
  ASSUME IInv, ListInv, NEW p \in Procs, InviteUser(p)
  PROVE  ListInv'
<1> DEFINE h == "allUsers"
           u == req[p].user
<1>1. /\ UNCHANGED <<req, todo, mem, fresh>> /\ todo[p] = NoPlan
      /\ lists' = [lists EXCEPT ![h] = @ \cup {u}]
      /\ \/ members' = [members EXCEPT ![h] = @ \cup {u}] /\ raced' = raced
         \/ members' = members /\ raced' = raced \cup {h}
  BY DEF InviteUser, At
<1>2. pc'[p] = "done" /\ \A q \in Procs \ {p} : pc'[q] = pc[q]
  BY DEF InviteUser, Goto, IInv, Shape
<1>3. h \in AllGroups /\ h \notin Manual \cup Synced
  BY DEF ListInv, ListTypes, Plausible, AllGroups, System
<1>4. u \in Users
  BY DEF InviteUser, At, ListInv, ListTypes, Plausible
<1>5. /\ members' \in [AllGroups -> SUBSET Users] /\ lists' \in [AllGroups -> SUBSET Users]
      /\ h \in raced' \/ members'[h] = members[h] \cup {u}
      /\ lists'[h] = lists[h] \cup {u} /\ raced \subseteq raced'
      /\ \A g \in AllGroups \ {h} : members'[g] = members[g] /\ lists'[g] = lists[g]
  BY <1>1, <1>3, <1>4 DEF ListInv, ListTypes
<1>6. ListTypes'
  BY <1>1, <1>5 DEF ListInv, ListTypes, Plausible
<1>7. ASSUME NEW q \in Procs PROVE InOrder(q)'
  <2>1. CASE q = p
    BY <1>1, <1>2, <2>1, NothingPlanned DEF InOrder, NoPlan
  <2>2. CASE q # p
    BY <1>1, <1>2, <1>3, <1>5, <2>2, OtherInOrder DEF ListInv, AllGroups
  <2> QED
    BY <2>1, <2>2
<1>8. \A q \in Procs : ~Edits(todo[q], h)
  BY <1>3 DEF ListInv, InOrder
<1>9. ASSUME NEW g \in AllGroups \ raced' PROVE Stored(todo', members'[g], lists'[g], g)
  <2>1. Stored(todo, members[g], lists[g], g)
    BY <1>5 DEF ListInv
  <2>2. CASE g # h
    BY <1>1, <1>5, <2>1, <2>2
  <2>3. CASE g = h
    <3>1. members[h] = lists[h]
      BY <1>8, <2>1, <2>3 DEF Stored
    <3>2. \A q \in Procs : h \notin todo[q].clear
      BY <1>8 DEF Edits
    <3> QED
      BY <1>1, <1>5, <1>8, <2>3, <3>1, <3>2 DEF Stored
  <2> QED
    BY <2>2, <2>3
<1> QED
  BY <1>6, <1>7, <1>9 DEF ListInv

\* ReplaceUserManualGroups stores what ListGroups has read.
LEMMA UserStored ==
  ASSUME IInv, ListInv, NEW p \in Procs, ReplaceUserManualGroups(p)
  PROVE  ListInv'
<1>1. req[p].kind = "user" /\ todo[p] = NoPlan /\ req[p].user \in Users
  BY DEF ReplaceUserManualGroups, At, ListInv, ListTypes, Plausible
<1>2. CASE pc[p] = "begin" /\ Answer(p, "refused")
  BY <1>1, <1>2, NoListStored DEF At
<1>3. CASE /\ pc[p] = "begin" /\ req[p].groups \subseteq Manual
           /\ todo' = [todo EXCEPT ![p].look = Manual \X Users]
           /\ fresh' = [fresh EXCEPT ![p] = Manual \ EditedByOthers(p)]
           /\ Goto(p, "store")
           /\ UNCHANGED <<rows, req, mem, faults, lists, asked, raced>>
  <2> DEFINE plan == [todo[p] EXCEPT !.look = Manual \X Users]
  <2>1. todo[p] \in Plans /\ todo[p].clear = {} /\ todo[p].add = {}
    <3>1. NoPlan.clear = {} /\ NoPlan.add = {}
      BY DEF NoPlan
    <3> QED
      BY <1>1, <3>1 DEF ListInv, ListTypes
  <2>2. plan \in Plans /\ plan.look = Manual \X Users /\ plan.clear = {} /\ plan.add = {}
    BY <2>1 DEF Plans
  <2>3. todo' = [todo EXCEPT ![p] = plan]
    BY <1>3
  <2> HIDE DEF plan
  <2>4. todo' \in [Procs -> Plans] /\ todo'[p] = plan /\ \A q \in Procs \ {p} : todo'[q] = todo[q]
    BY <2>2, <2>3 DEF ListInv, ListTypes
  <2>5. DOMAIN fresh' = Procs /\ \A q \in Procs \ {p} : fresh'[q] = fresh[q]
    BY <1>3 DEF ListInv, ListTypes
  <2>6. pc'[p] = "store" /\ \A q \in Procs \ {p} : pc'[q] = pc[q]
    BY <1>3 DEF Goto, IInv, Shape
  <2>7. members' = members /\ lists' = lists /\ req' = req /\ mem' = mem /\ raced' = raced
    BY <1>3 DEF rows
  <2>8. ListTypes'
    BY <2>4, <2>5, <2>7 DEF ListInv, ListTypes, Plausible
  <2>9. \A g : ~Edits(plan, g)
    BY <2>2 DEF Edits, Planned
  <2>10. mem[p].got = {}
    BY <1>1, <1>3 DEF ListInv, InOrder
  <2>11. ASSUME NEW q \in Procs PROVE InOrder(q)'
    <3>1. CASE q = p
      BY <1>1, <2>2, <2>4, <2>6, <2>7, <2>9, <2>10, <3>1 DEF InOrder, Found
    <3>2. CASE q # p
      BY <2>4, <2>5, <2>6, <2>7, <3>2, OtherInOrder DEF ListInv
    <3> QED
      BY <3>1, <3>2
  <2>12. ASSUME NEW g \in AllGroups \ raced' PROVE Stored(todo', members'[g], lists'[g], g)
    <3>1. Stored(todo, members[g], lists[g], g)
      BY <2>7 DEF ListInv
    <3>2. \A q \in Procs : /\ g \in todo'[q].clear <=> g \in todo[q].clear
                           /\ Planned(todo'[q], g) = Planned(todo[q], g)
      BY <1>1, <2>4, <2>9, NothingPlanned DEF Edits
    <3> QED
      BY <2>7, <3>1, <3>2, Untouched
  <2> QED
    BY <2>8, <2>11, <2>12 DEF ListInv
<1> DEFINE With(us, g) == (us \ {req[p].user}) \cup (IF g \in req[p].groups THEN {req[p].user} ELSE {})
           wanted == [g \in Manual |-> With({v \in Users : <<g, v>> \in mem[p].got}, g)]
           meant == [g \in Manual |-> With(lists[g], g)]
<1>4. CASE pc[p] = "store" /\ Edit(p, wanted, meant, Manual \ fresh[p])
  <2>1. DOMAIN wanted = Manual /\ \A g \in Manual : wanted[g] \subseteq Users /\ meant[g] \subseteq Users
    BY <1>1 DEF ListInv, ListTypes, AllGroups
  <2>2. ASSUME NEW g \in Manual, g \notin raced \cup (Manual \ fresh[p]) \cup EditedByOthers(p)
        PROVE  wanted[g] = meant[g]
    <3>1. todo[p].look = {} /\ g \in fresh[p] /\ g \in AllGroups /\ members[g] \subseteq Users
      BY <1>1, <2>2 DEF NoPlan, AllGroups, ListInv, ListTypes
    <3>2. {v \in Users : <<g, v>> \in mem[p].got} = members[g]
      <4>1. Found(fresh[p], mem[p].got, todo[p].look, members)
        BY <1>1, <1>4 DEF ListInv, InOrder
      <4>2. \A v \in Users : <<g, v>> \in mem[p].got <=> v \in members[g]
        BY <3>1, <4>1 DEF Found
      <4> QED
        BY <3>1, <4>2
    <3>3. \A q \in Procs : ~Edits(todo[q], g)
      BY <1>1, <2>2, EditedMeans, NothingPlanned DEF EditedByOthers, ListInv
    <3>4. members[g] = lists[g]
      BY <2>2, <3>1, <3>3 DEF ListInv, Stored
    <3> QED
      BY <3>2, <3>4
  <2> HIDE DEF wanted, meant
  <2> QED
    BY <1>1, <1>4, <2>1, <2>2, Begun
<1> QED
  BY <1>2, <1>3, <1>4 DEF ReplaceUserManualGroups, At

LEMMA OthersStored ==
  ASSUME IInv, ListInv, NEW p \in Procs, ReplaceGroupMembers(p) \/ SyncDirectory(p)
  PROVE  ListInv'
<1>1. CASE ReplaceGroupMembers(p) /\ Answer(p, "refused")
  BY <1>1, NoListStored DEF ReplaceGroupMembers, At
<1>2. CASE ReplaceGroupMembers(p) /\ ~Answer(p, "refused")
  <2> DEFINE wanted == [g \in {req[p].group} |-> req[p].users]
  <2>1. req[p].kind = "group" /\ todo[p] = NoPlan /\ req[p].group \in Manual /\ Edit(p, wanted, wanted, {})
    BY <1>2 DEF ReplaceGroupMembers, At, Editable
  <2>2. req[p].users \subseteq Users
    BY <2>1 DEF ListInv, ListTypes, Plausible
  <2>3. DOMAIN wanted \subseteq Manual /\ \A g \in DOMAIN wanted : wanted[g] \subseteq Users
    BY <2>1, <2>2
  <2> HIDE DEF wanted
  <2> QED
    BY <2>1, <2>3, Begun
<1>3. CASE SyncDirectory(p)
  <2> DEFINE units == req[p].units
  <2>1. req[p].kind = "sync" /\ todo[p] = NoPlan
    BY <1>3 DEF SyncDirectory, At
  <2>2. DOMAIN units \subseteq Synced /\ \A g \in DOMAIN units : units[g] \subseteq Users
    BY <2>1 DEF ListInv, ListTypes, Plausible
  <2>3. CASE Edit(p, units, units, {})
    BY <2>1, <2>2, <2>3, Begun
  <2>4. ASSUME NEW found \in [DOMAIN units -> SUBSET Users],
               Edit(p, found, units, {g \in DOMAIN units : found[g] # units[g]})
        PROVE  ListInv'
    <3> DEFINE stale == {g \in DOMAIN units : found[g] # units[g]}
    <3>1. DOMAIN found = DOMAIN units /\ \A g \in DOMAIN units : found[g] \subseteq Users
      OBVIOUS
    <3>2. \A g \in DOMAIN found : g \in stale \/ found[g] = units[g]
      BY <3>1
    <3>3. Edit(p, found, units, stale)
      BY <2>4
    <3> HIDE DEF stale, units
    <3> QED
      BY <2>1, <2>2, <3>1, <3>2, <3>3, Begun
  <2> QED
    BY <1>3, <2>3, <2>4 DEF SyncDirectory
<1> QED
  BY <1>1, <1>2, <1>3

LEMMA ListsInductive == Plausible /\ Spec => []ListInv
<1>1. Plausible /\ Init => ListInv
  <2> SUFFICES ASSUME Plausible, Init PROVE ListInv
    OBVIOUS
  <2>1. members \in [AllGroups -> SUBSET Users] /\ lists = members
    BY DEF Init, Plausible
  <2>2. NoPlan \in Plans /\ NoPlan.look = {} /\ NoPlan.clear = {}
    BY DEF NoPlan, Plans
  <2>3. \A p \in Procs : todo[p] = NoPlan /\ pc[p] = "begin"
    BY DEF Init
  <2>4. ListTypes
    BY <2>1, <2>2 DEF Init, ListTypes
  <2>5. ASSUME NEW p \in Procs PROVE InOrder(p)
    <3>1. mem[p].got = {}
      BY DEF Init
    <3> QED
      BY <2>2, <2>3, <3>1, NothingPlanned DEF InOrder
  <2>6. ASSUME NEW g \in AllGroups PROVE Stored(todo, members[g], lists[g], g)
    BY <2>1, <2>2, <2>3, NothingPlanned DEF Stored
  <2> QED
    BY <2>4, <2>5, <2>6 DEF ListInv
<1>2. IInv /\ ListInv /\ [Next]_vars => ListInv'
  <2> SUFFICES ASSUME IInv, ListInv, [Next]_vars PROVE ListInv'
    OBVIOUS
  <2>1. CASE UNCHANGED vars
    <3>1. UNCHANGED <<members, lists, req, todo, pc, mem, fresh, raced>>
      BY <2>1 DEF vars
    <3>2. ListTypes'
      BY <3>1 DEF ListInv, ListTypes, Plausible
    <3>3. \A p \in Procs : InOrder(p)'
      BY <3>1, OtherInOrder DEF ListInv
    <3> QED
      BY <3>1, <3>2, <3>3 DEF ListInv
  <2>2. ASSUME NEW p \in Procs, Step(p) PROVE ListInv'
    BY <2>2, NoListStored, LookedUp, Cleared, Added, Failed, OthersStored, UserStored, Invited DEF Step
  <2> QED
    BY <2>1, <2>2 DEF Next
<1> QED
  BY <1>1, <1>2, Inductive, PTL DEF Spec

(* A group that no request is storing holds the list that was asked for    *)
(* last, and the graph and the rules are what the saves asked for, for any *)
(* number of groups, users and requests, except where two of them          *)
(* overlapped, one failed half-way (ReplaceMembers is one DELETE and one   *)
(* INSERT per member, without a transaction, appdb/w4b.go:33) or an error  *)
(* of its statements was dropped: a sync leaves out whom it could not look *)
(* up (org.go:60), an invitation answers ok without the row in everybody's *)
(* group (identity/service.go:244).                                        *)
THEOREM GroupsAreAsSaved == Plausible /\ Spec => []GroupsAsSavedOrOverlap
<1>1. ListInv => ListStoredOrOverlap
  BY EditedMeans DEF ListInv, ListStoredOrOverlap, Stored
<1> QED
  BY <1>1, ListsInductive, SettingsAreKept, PTL DEF GroupsAsSavedOrOverlap

(* Only the directory's sync changes a department, only an invitation      *)
(* everybody's group, for any interleaving of the statements of any number *)
(* of requests (identity/service.go:349).                                  *)
THEOREM OwnersChangeMembers == Plausible /\ Spec => OwnedMembershipsStay
<1>1. IInv /\ ListInv /\ [Next]_vars => [OwnerChanges]_vars
  <2> SUFFICES ASSUME IInv, ListInv, NEW p \in Procs, Step(p),
                      NEW g \in AllGroups \ Manual, members'[g] # members[g]
               PROVE  \E q \in Procs : pc'[q] = "done" /\ req[q].kind = (IF g = "allUsers" THEN "invite" ELSE "sync")
    BY DEF Next, OwnerChanges
  <2>1. ASSUME NEW h \in AllGroups, NEW rows1, members' = [members EXCEPT ![h] = rows1], Edits(todo[p], h), pc' = pc
        PROVE  pc'[p] = "done" /\ req[p].kind = (IF g = "allUsers" THEN "invite" ELSE "sync")
    <3>1. g = h
      BY <2>1 DEF ListInv, ListTypes
    <3>2. g # "allUsers" /\ req[p].kind = "sync" /\ pc[p] = "done"
      BY <2>1, <3>1 DEF ListInv, InOrder, ListTypes, Plausible, System
    <3> QED
      BY <2>1, <3>2
  <2>2. CASE DeleteMembers(p)
    <3>1. First(todo[p].clear) \in todo[p].clear /\ todo[p].clear \subseteq AllGroups
      BY <2>2, FirstIsOne DEF DeleteMembers, ListInv, ListTypes, Plans
    <3> QED
      BY <2>1, <2>2, <3>1 DEF DeleteMembers, Edits
  <2>3. CASE AddMember(p)
    <3>1. First(Due(p)) \in todo[p].add /\ todo[p].add \subseteq AllGroups \X Users
      BY <2>3, FirstIsOne DEF AddMember, Due, ListInv, ListTypes, Plans
    <3> DEFINE x == First(Due(p))
    <3>2. x[1] \in AllGroups /\ x[2] \in Users /\ x = <<x[1], x[2]>>
      BY <3>1, Pairs
    <3>3. Edits(todo[p], x[1])
      BY <3>1, <3>2 DEF Edits, Planned
    <3> QED
      BY <2>1, <2>3, <3>2, <3>3 DEF AddMember
  <2>4. CASE InviteUser(p)
    <3>1. g = "allUsers"
      BY <2>4 DEF InviteUser, ListInv, ListTypes
    <3>2. pc'[p] = "done" /\ req[p].kind = "invite"
      BY <2>4 DEF InviteUser, At, Goto, IInv, Shape
    <3> QED
      BY <3>1, <3>2
  <2>5. CASE ~DeleteMembers(p) /\ ~AddMember(p) /\ ~InviteUser(p)
    <3>1. members' = members
      BY <2>5 DEF Step, HasCapability, CanAccessProject, IsAdmin, Answer, HasMember, Fault, ReplaceGroupMembers,
             ReplaceUserManualGroups, SyncDirectory, Edit, SavePermissionGraph, SaveProjectAccessRules, rows
    <3> QED
      BY <3>1
  <2> QED
    BY <2>2, <2>3, <2>4, <2>5
<1> QED
  BY <1>1, Inductive, ListsInductive, PTL DEF Spec, OwnedMembershipsStay
=============================================================================
