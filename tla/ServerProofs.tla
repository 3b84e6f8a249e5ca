---------------------------- MODULE ServerProofs ----------------------------
(***************************************************************************)
(* What the tree of groups, the analyses in it and the alerts keep, for    *)
(* any number of groups, members and requests, however they overlap        *)
(* (Collections); what was met when a request was let through (Accounts);  *)
(* how the rows and the connections of a data source agree (Catalog); that *)
(* an external account is one member's and some way to sign in is left     *)
(* (SignIn); that a copy is of one moment (Transfer); that one first-run   *)
(* form alone sets the instance up (Setup); that an answer is within the   *)
(* limits (Query); and the theorems about all modules, for the part that   *)
(* each has in the server.                                                 *)
(***************************************************************************)
EXTENDS Server, Sequences, TLAPS

Shape ==
  /\ DOMAIN req = Procs /\ DOMAIN pc = Procs /\ DOMAIN mem = Procs
  /\ \A p \in Procs : req[p].user # NoUser /\ {"col", "from", "kind", "owner", "once"} \subseteq DOMAIN mem[p]
  /\ \A c \in DOMAIN cols : Columns(cols[c]) /\ Kinds(cols[c])

\* p has not stored a group yet.
Unborn(p) == pc[p] \in {"begin", "own", "own group", "inherit", "insert"}

\* A group that was found: it is no row that is still to come.
Known(c) == \A q \in Procs : Unborn(q) => c # q

\* What p has found out stays true until it writes.
Sound(p) ==
  /\ Unborn(p) => p \notin DOMAIN cols
  /\ At(p, {"group"}, "insert") =>
       /\ Kinds(mem[p])
       /\ mem[p].kind = "personal" /\ req[p].parent # NoCol => PersonalOf(cols, req[p].parent, mem[p].owner)
  /\ At(p, {"regroup"}, "store") /\ req[p].col \in DOMAIN cols =>
       (cols[req[p].col].kind = "personal" => cols[req[p].col].parent = req[p].parent)
  /\ At(p, {"regroup"}, "store") => Known(req[p].col)
  /\ req[p].kind = "delete" /\ pc[p] \in {"questions", "children", "delete"} =>
       /\ Known(req[p].col)
       /\ req[p].col \in DOMAIN cols => cols[req[p].col].kind # "personal"

IInv == Shape /\ Tree(cols) /\ \A p \in Procs : Sound(p)

----------------------------------------------------------------------------
\* A step of p that changes no personal group and adds at most one, as p.
Quiet(p) ==
  /\ req' = req
  /\ DOMAIN pc' = Procs /\ \A q \in Procs \ {p} : pc'[q] = pc[q]
  /\ DOMAIN mem' = Procs /\ \A q \in Procs \ {p} : mem'[q] = mem[q]
  /\ {"col", "from", "kind", "owner", "once"} \subseteq DOMAIN mem'[p]
  /\ Unborn(p)' => Unborn(p)

\* Every personal group is as it was, and no group changes its kind.
Kept ==
  /\ \A c \in DOMAIN cols : cols[c].kind = "personal" =>
       c \in DOMAIN cols' /\ cols'[c].parent = cols[c].parent /\ cols'[c].owner = cols[c].owner
  /\ \A c \in DOMAIN cols \cap DOMAIN cols' : cols'[c].kind = cols[c].kind

\* What the others have found out stays true as well.
LEMMA OthersKeep ==
  ASSUME IInv, NEW p \in Procs, Quiet(p), Kept,
         \A c \in DOMAIN cols' \ DOMAIN cols : c = p /\ Unborn(p) /\ ~Unborn(p)',
         NEW q \in Procs, q # p
  PROVE  Sound(q)'
<1>1. Sound(q) /\ req'[q] = req[q] /\ pc'[q] = pc[q] /\ mem'[q] = mem[q]
  BY DEF IInv, Quiet
<1>2. ASSUME NEW c, Known(c) PROVE Known(c)' /\ (c \in DOMAIN cols' => c \in DOMAIN cols)
  BY <1>2 DEF Known, Quiet, Unborn
<1>3. Unborn(q)' => q \notin DOMAIN cols'
  BY <1>1 DEF Sound, Unborn
<1>4. ASSUME NEW c, NEW owner, PersonalOf(cols, c, owner) PROVE PersonalOf(cols', c, owner)
  BY <1>4 DEF PersonalOf, Kept
<1>5. At(q, {"group"}, "insert")' =>
        /\ Kinds(mem'[q])
        /\ mem'[q].kind = "personal" /\ req'[q].parent # NoCol => PersonalOf(cols', req'[q].parent, mem'[q].owner)
  BY <1>1, <1>4 DEF Sound, At
<1>6. At(q, {"regroup"}, "store")' /\ req'[q].col \in DOMAIN cols' =>
        (cols'[req'[q].col].kind = "personal" => cols'[req'[q].col].parent = req'[q].parent)
  BY <1>1, <1>2 DEF Sound, At, Kept
<1>7. At(q, {"regroup"}, "store")' => Known(req[q].col)'
  BY <1>1, <1>2 DEF Sound, At
<1>8. req'[q].kind = "delete" /\ pc'[q] \in {"questions", "children", "delete"} =>
        /\ Known(req[q].col)'
        /\ req'[q].col \in DOMAIN cols' => cols'[req'[q].col].kind # "personal"
  BY <1>1, <1>2 DEF Sound, Kept
<1> QED
  BY <1>1, <1>3, <1>5, <1>6, <1>7, <1>8 DEF Sound, Known, Kinds, Unborn, At, Quiet

\* A step that leaves the groups, and is not the look before a write.
LEMMA ElsewhereKeeps ==
  ASSUME IInv, NEW p \in Procs, Quiet(p), cols' = cols, Sound(p)'
  PROVE  IInv'
<1>1. Kept
  BY DEF Kept
<1>2. \A q \in Procs \ {p} : Sound(q)'
  BY <1>1, OthersKeep
<1>3. Shape'
  BY DEF IInv, Shape, Quiet
<1>4. Tree(cols)'
  BY DEF IInv
<1> QED
  BY <1>2, <1>3, <1>4 DEF IInv

LEMMA PlainStep ==
  ASSUME IInv, NEW p \in Procs, NEW label, Goto(p, label), req' = req, cols' = cols,
         DOMAIN mem' = Procs, \A q \in Procs \ {p} : mem'[q] = mem[q],
         {"col", "from", "kind", "owner", "once"} \subseteq DOMAIN mem'[p],
         label \in {"begin", "own", "own group", "inherit", "insert"} => Unborn(p),
         req[p].kind \notin {"group", "regroup", "delete"}
  PROVE  IInv'
<1>1. DOMAIN pc' = Procs /\ pc'[p] = label /\ \A q \in Procs \ {p} : pc'[q] = pc[q]
  BY DEF Goto, IInv, Shape
<1>2. Quiet(p)
  BY <1>1 DEF Quiet, Unborn
<1>3. Unborn(p)' => p \notin DOMAIN cols'
  BY <1>1 DEF IInv, Sound, Unborn
<1>4. Sound(p)'
  BY <1>3 DEF Sound, At
<1> QED
  BY <1>2, <1>4, ElsewhereKeeps

LEMMA PlainAnswer ==
  ASSUME IInv, NEW p \in Procs, NEW label, Answer(p, label),
         label \notin {"begin", "own", "own group", "inherit", "insert"},
         req[p].kind \notin {"group", "regroup", "delete"}
  PROVE  IInv'
BY PlainStep DEF Answer, rows, IInv, Shape

----------------------------------------------------------------------------
\* A new group, which is the first write of p.
LEMMA NewGroup ==
  ASSUME IInv, NEW p \in Procs, Unborn(p), req' = req,
         {"col", "from", "kind", "owner", "once"} \subseteq DOMAIN mem'[p],
         DOMAIN mem' = Procs, \A q \in Procs \ {p} : mem'[q] = mem[q],
         NEW label, Goto(p, label), label \in {"enter", "rules", "done"},
         req[p].kind \in {"group", "create", "move"},
         NEW row, Columns(row), Kinds(row), cols' = With(cols, p, row),
         row.kind = "personal" /\ row.parent # NoCol => PersonalOf(cols, row.parent, row.owner)
  PROVE  IInv'
<1>1. p \notin DOMAIN cols
  BY DEF IInv, Sound
<1>2. /\ DOMAIN cols' = DOMAIN cols \cup {p} /\ cols'[p] = row
      /\ \A c \in DOMAIN cols : cols'[c] = cols[c]
  BY <1>1 DEF With
<1>3. DOMAIN pc' = Procs /\ pc'[p] = label /\ \A q \in Procs \ {p} : pc'[q] = pc[q]
  BY DEF Goto, IInv, Shape
<1>4. Quiet(p) /\ ~Unborn(p)'
  BY <1>3 DEF Quiet, Unborn, IInv, Shape
<1>5. Kept
  BY <1>2 DEF Kept
<1>6. \A q \in Procs \ {p} : Sound(q)'
  BY <1>2, <1>4, <1>5, OthersKeep
<1>7. Sound(p)'
  BY <1>3, <1>4 DEF Sound, At
<1>8. Shape'
  BY <1>2, <1>4 DEF IInv, Shape, Quiet
<1>9. Tree(cols')
  <2>1. ASSUME NEW c, NEW owner, PersonalOf(cols, c, owner) PROVE PersonalOf(cols', c, owner)
    BY <1>2, <2>1 DEF PersonalOf
  <2> QED
    BY <1>2, <2>1 DEF Tree, IInv
<1> QED
  BY <1>6, <1>7, <1>8, <1>9 DEF IInv

LEMMA EnsureKeeps ==
  ASSUME IInv, NEW p \in Procs, EnsurePersonalCollection(p)
  PROVE  IInv'
<1>1. CASE At(p, {"create", "move"}, "own") /\ cols' = cols
  <2>1. mem' = mem \/ \E c : mem' = [mem EXCEPT ![p].col = c]
    BY <1>1 DEF EnsurePersonalCollection, At
  <2>2. DOMAIN mem' = Procs /\ \A q \in Procs \ {p} : mem'[q] = mem[q]
    BY <2>1 DEF IInv, Shape
  <2>3. {"col", "from", "kind", "owner", "once"} \subseteq DOMAIN mem'[p]
    BY <2>1 DEF IInv, Shape
  <2>4. \/ Goto(p, "enter") \/ Goto(p, "own group")
    BY <1>1 DEF EnsurePersonalCollection, At
  <2>5. req' = req /\ Unborn(p) /\ req[p].kind \notin {"group", "regroup", "delete"}
    BY <1>1 DEF EnsurePersonalCollection, At, Unborn
  <2> QED
    BY <1>1, <2>2, <2>3, <2>4, <2>5, PlainStep
<1>2. CASE At(p, {"create", "move"}, "own group")
  <2> DEFINE row == [parent |-> NoCol, kind |-> "personal", owner |-> req[p].user]
  <2>1. /\ cols' = With(cols, p, row) /\ mem' = [mem EXCEPT ![p].col = p] /\ Goto(p, "enter") /\ req' = req
        /\ req[p].kind \in {"group", "create", "move"}
    BY <1>2 DEF EnsurePersonalCollection, At
  <2>2. Columns(row) /\ Kinds(row)
    BY DEF Columns, Kinds, IInv, Shape
  <2>3. /\ {"col", "from", "kind", "owner", "once"} \subseteq DOMAIN mem'[p]
        /\ DOMAIN mem' = Procs /\ \A q \in Procs \ {p} : mem'[q] = mem[q]
    BY <2>1 DEF IInv, Shape
  <2>4. Unborn(p)
    BY <1>2 DEF At, Unborn
  <2>5. row.parent = NoCol
    OBVIOUS
  <2> HIDE DEF row
  <2> QED
    BY <2>1, <2>2, <2>3, <2>4, <2>5, NewGroup
<1> QED
  BY <1>1, <1>2 DEF EnsurePersonalCollection, rows

LEMMA ItemKeeps ==
  ASSUME IInv, NEW p \in Procs,
         \/ Enter(p) \/ CreateItem(p) \/ MoveItem(p) \/ SetArchived(p)
         \/ PutCollectionShares(p) \/ RunAlert(p) \/ DeleteAlert(p)
  PROVE  IInv'
<1> DEFINE Fields == {"col", "from", "kind", "owner", "once"}
<1>1. ASSUME Enter(p) PROVE IInv'
  <2>1. Goto(p, "store") \/ Goto(p, "refused")
    BY <1>1 DEF Enter
  <2> QED
    BY <1>1, <2>1, PlainStep DEF Enter, rows, At, IInv, Shape
<1>2. ASSUME CreateItem(p) PROVE IInv'
  <2>1. CASE At(p, {"create"}, "begin")
    <3>1. mem' = [mem EXCEPT ![p].col = req[p].col] /\ req' = req /\ cols' = cols
      BY <1>2, <2>1 DEF CreateItem, At, rows
    <3>2. Goto(p, "own") \/ Goto(p, "enter")
      BY <1>2, <2>1 DEF CreateItem, At
    <3>3. /\ DOMAIN mem' = Procs /\ \A q \in Procs \ {p} : mem'[q] = mem[q]
          /\ Fields \subseteq DOMAIN mem'[p]
      BY <3>1 DEF IInv, Shape
    <3> QED
      BY <2>1, <3>1, <3>2, <3>3, PlainStep DEF At, Unborn
  <2>2. CASE At(p, {"create"}, "store")
    BY <1>2, <2>2, PlainStep DEF CreateItem, At, IInv, Shape
  <2> QED
    BY <1>2, <2>1, <2>2 DEF CreateItem
<1>3. ASSUME MoveItem(p) PROVE IInv'
  <2>1. CASE At(p, {"move"}, "begin")
    <3>1. /\ \E a, b : mem' = [mem EXCEPT ![p].from = a, ![p].col = b]
          /\ req' = req /\ cols' = cols
      BY <1>3, <2>1 DEF MoveItem, At, rows
    <3>2. Goto(p, "refused") \/ Goto(p, "own") \/ Goto(p, "enter")
      BY <1>3, <2>1 DEF MoveItem, At
    <3>3. /\ DOMAIN mem' = Procs /\ \A q \in Procs \ {p} : mem'[q] = mem[q]
          /\ Fields \subseteq DOMAIN mem'[p]
      BY <3>1 DEF IInv, Shape
    <3> QED
      BY <2>1, <3>1, <3>2, <3>3, PlainStep DEF At, Unborn
  <2>2. CASE At(p, {"move"}, "store")
    BY <1>3, <2>2, PlainStep DEF MoveItem, At, IInv, Shape
  <2> QED
    BY <1>3, <2>1, <2>2 DEF MoveItem
<1>4. ASSUME SetArchived(p) PROVE IInv'
  <2>1. CASE At(p, {"archive", "restore"}, "begin")
    <3>1. Answer(p, "store") \/ Answer(p, "refused")
      BY <1>4, <2>1 DEF SetArchived, At
    <3> QED
      BY <2>1, <3>1, PlainAnswer DEF At
  <2>2. CASE At(p, {"archive", "restore"}, "store")
    BY <1>4, <2>2, PlainStep DEF SetArchived, At, IInv, Shape
  <2> QED
    BY <1>4, <2>1, <2>2 DEF SetArchived
<1>5. ASSUME PutCollectionShares(p) PROVE IInv'
  <2>1. CASE At(p, {"share"}, "begin")
    <3>1. Answer(p, "store") \/ Answer(p, "refused")
      BY <1>5, <2>1 DEF PutCollectionShares, At
    <3> QED
      BY <2>1, <3>1, PlainAnswer DEF At
  <2>2. CASE At(p, {"share"}, "store")
    BY <1>5, <2>2, PlainStep DEF PutCollectionShares, At, IInv, Shape
  <2> QED
    BY <1>5, <2>1, <2>2 DEF PutCollectionShares
<1>6. ASSUME RunAlert(p) PROVE IInv'
  <2>1. req[p].kind = "run"
    BY <1>6 DEF RunAlert, At
  <2>2. CASE At(p, {"run"}, "begin")
    <3>1. Answer(p, "load") \/ Answer(p, "refused")
      BY <1>6, <2>2 DEF RunAlert, At
    <3> QED
      BY <2>1, <3>1, PlainAnswer
  <2>3. CASE At(p, {"run"}, "load")
    <3>1. \E b : mem' = [mem EXCEPT ![p].once = b] /\ req' = req /\ cols' = cols
      BY <1>6, <2>3 DEF RunAlert, At, rows
    <3>2. Goto(p, "query") \/ Goto(p, "refused")
      BY <1>6, <2>3 DEF RunAlert, At
    <3>3. /\ DOMAIN mem' = Procs /\ \A q \in Procs \ {p} : mem'[q] = mem[q]
          /\ Fields \subseteq DOMAIN mem'[p]
      BY <3>1 DEF IInv, Shape
    <3> QED
      BY <2>1, <3>1, <3>2, <3>3, PlainStep
  <2>4. CASE At(p, {"run"}, "query")
    <3>1. Answer(p, "notify") \/ Answer(p, "refused")
      BY <1>6, <2>4 DEF RunAlert, At
    <3> QED
      BY <2>1, <3>1, PlainAnswer
  <2>5. CASE At(p, {"run"}, "notify") \/ At(p, {"run"}, "disarm")
    <3>1. Goto(p, "disarm") \/ Goto(p, "done")
      BY <1>6, <2>5 DEF RunAlert, At
    <3>2. cols' = cols /\ req' = req /\ mem' = mem
      BY <1>6, <2>5 DEF RunAlert, At
    <3> QED
      BY <2>1, <3>1, <3>2, PlainStep DEF IInv, Shape
  <2> QED
    BY <1>6, <2>2, <2>3, <2>4, <2>5 DEF RunAlert
<1>7. ASSUME DeleteAlert(p) PROVE IInv'
  <2>1. CASE At(p, {"drop"}, "begin")
    <3>1. Answer(p, "delete") \/ Answer(p, "refused")
      BY <1>7, <2>1 DEF DeleteAlert, At
    <3> QED
      BY <2>1, <3>1, PlainAnswer DEF At
  <2>2. CASE At(p, {"drop"}, "delete")
    BY <1>7, <2>2, PlainStep DEF DeleteAlert, At, IInv, Shape
  <2> QED
    BY <1>7, <2>1, <2>2 DEF DeleteAlert
<1> QED
  BY <1>1, <1>2, <1>3, <1>4, <1>5, <1>6, <1>7

----------------------------------------------------------------------------
LEMMA ChildKeeps ==
  ASSUME IInv, NEW p \in Procs, CreateCollection(p)
  PROVE  IInv'
<1> DEFINE parent == req[p].parent
<1>1. req[p].kind = "group" /\ req' = req /\ req[p].user # NoUser
  BY DEF CreateCollection, Answer, At, IInv, Shape
<1>2. CASE At(p, {"group"}, "begin") \/ At(p, {"group"}, "inherit")
  <2>1. cols' = cols /\ \E label : Goto(p, label) /\ label \in {"refused", "inherit", "insert"}
    BY <1>2 DEF CreateCollection, Answer, At, rows
  <2>2. mem' = mem \/ \E a, b : mem' = [mem EXCEPT ![p].kind = a, ![p].owner = b]
    BY <1>2 DEF CreateCollection, Answer, At
  <2>3. /\ DOMAIN mem' = Procs /\ \A q \in Procs \ {p} : mem'[q] = mem[q]
        /\ {"col", "from", "kind", "owner", "once"} \subseteq DOMAIN mem'[p]
    BY <2>2 DEF IInv, Shape
  <2>4. Unborn(p) /\ p \notin DOMAIN cols
    BY <1>2 DEF At, Unborn, IInv, Sound
  <2>5. Quiet(p)
    BY <1>1, <2>1, <2>3, <2>4 DEF Quiet, Goto, IInv, Shape
  <2>6. pc'[p] = "insert" => Kinds(mem'[p]) /\ (mem'[p].kind = "personal" /\ parent # NoCol => PersonalOf(cols, parent, mem'[p].owner))
    <3>1. CASE At(p, {"group"}, "begin")
      <4>1. mem' = [mem EXCEPT ![p].kind = IF req[p].personal THEN "personal" ELSE "team",
                               ![p].owner = IF req[p].personal THEN req[p].user ELSE NoUser]
        BY <3>1 DEF CreateCollection, At, Answer
      <4>2. /\ mem'[p].kind = IF req[p].personal THEN "personal" ELSE "team"
            /\ mem'[p].owner = IF req[p].personal THEN req[p].user ELSE NoUser
        BY <4>1 DEF IInv, Shape
      <4>3. Kinds(mem'[p])
        BY <1>1, <4>2 DEF Kinds
      <4>4. parent # NoCol => pc'[p] # "insert"
        BY <3>1 DEF CreateCollection, At, Answer, Goto, IInv, Shape
      <4> QED
        BY <4>3, <4>4
    <3>2. CASE At(p, {"group"}, "inherit")
      <4>1. CASE parent \notin DOMAIN cols
        BY <3>2, <4>1 DEF CreateCollection, At, Answer, Goto, IInv, Shape
      <4>2. CASE parent \in DOMAIN cols
        <5>1. mem' = [mem EXCEPT ![p].kind = cols[parent].kind, ![p].owner = cols[parent].owner]
          BY <3>2, <4>2 DEF CreateCollection, At, Answer
        <5>2. mem'[p].kind = cols[parent].kind /\ mem'[p].owner = cols[parent].owner
          BY <5>1 DEF IInv, Shape
        <5> QED
          BY <4>2, <5>2 DEF Kinds, PersonalOf, IInv, Shape
      <4> QED
        BY <4>1, <4>2
    <3> QED
      BY <1>2, <3>1, <3>2
  <2>7. Sound(p)'
    BY <1>1, <2>1, <2>4, <2>6 DEF Sound, At, Unborn, PersonalOf, Kinds
  <2> QED
    BY <2>1, <2>5, <2>7, ElsewhereKeeps
<1>3. CASE At(p, {"group"}, "insert")
  <2> DEFINE row == [parent |-> parent, kind |-> mem[p].kind, owner |-> mem[p].owner]
  <2>1. cols' = With(cols, p, row) /\ mem' = mem /\ (Goto(p, "rules") \/ Goto(p, "done"))
    BY <1>3 DEF CreateCollection, At
  <2>2. Columns(row) /\ Kinds(row) /\ (row.kind = "personal" /\ row.parent # NoCol => PersonalOf(cols, row.parent, row.owner))
    BY <1>3 DEF Columns, Kinds, IInv, Sound
  <2>3. /\ Unborn(p)
        /\ DOMAIN mem' = Procs /\ \A q \in Procs \ {p} : mem'[q] = mem[q]
    BY <1>3, <2>1 DEF At, Unborn, IInv, Shape
  <2>4. {"col", "from", "kind", "owner", "once"} \subseteq DOMAIN mem'[p]
    BY <2>1 DEF IInv, Shape
  <2> HIDE DEF row
  <2> QED
    BY <1>1, <2>1, <2>2, <2>3, <2>4, NewGroup
<1>4. CASE At(p, {"group"}, "rules")
  <2>1. cols' = cols /\ mem' = mem /\ Goto(p, "done")
    BY <1>4 DEF CreateCollection, At
  <2>2. Quiet(p) /\ ~Unborn(p)' /\ pc'[p] = "done"
    BY <1>1, <2>1 DEF Quiet, Goto, Unborn, IInv, Shape
  <2>3. Sound(p)'
    BY <2>2 DEF Sound, At
  <2> QED
    BY <2>1, <2>2, <2>3, ElsewhereKeeps
<1> QED
  BY <1>2, <1>3, <1>4 DEF CreateCollection

\* A step of p after which it has stored what it was to store, or looks on.
LEMMA LookKeeps ==
  ASSUME IInv, NEW p \in Procs, NEW label, Goto(p, label), req' = req, mem' = mem, cols' = cols,
         label \notin {"begin", "own", "own group", "inherit", "insert"},
         label = "store" /\ req[p].kind = "regroup" =>
           /\ Known(req[p].col)
           /\ req[p].col \in DOMAIN cols /\ cols[req[p].col].kind = "personal" => cols[req[p].col].parent = req[p].parent,
         req[p].kind = "delete" /\ label \in {"questions", "children", "delete"} =>
           /\ Known(req[p].col)
           /\ req[p].col \in DOMAIN cols => cols[req[p].col].kind # "personal"
  PROVE  IInv'
<1>2. DOMAIN pc' = Procs /\ pc'[p] = label /\ \A q \in Procs \ {p} : pc'[q] = pc[q]
  BY DEF Goto, IInv, Shape
<1>3. Quiet(p) /\ ~Unborn(p)'
  BY <1>2 DEF Quiet, Unborn, IInv, Shape
<1>4. \A q \in Procs : Unborn(q)' => Unborn(q)
  BY <1>2, <1>3 DEF Unborn
<1>5. Known(req[p].col) => \A q \in Procs : Unborn(q)' => req'[p].col # q
  BY <1>4 DEF Known
<1>6. Sound(p)'
  BY <1>2, <1>3, <1>5 DEF Sound, At, Known
<1> QED
  BY <1>3, <1>6, ElsewhereKeeps

LEMMA RegroupKeeps ==
  ASSUME IInv, NEW p \in Procs, UpdateCollection(p)
  PROVE  IInv'
<1> DEFINE c == req[p].col
           parent == req[p].parent
<1>1. req[p].kind = "regroup" /\ req' = req /\ mem' = mem
  BY DEF UpdateCollection, Answer, At
<1>2. CASE At(p, {"regroup"}, "begin")
  <2>1. cols' = cols /\ (Goto(p, "parent") \/ Goto(p, "refused"))
    BY <1>2 DEF UpdateCollection, Answer, At, rows
  <2> QED
    BY <1>1, <2>1, LookKeeps
<1>3. CASE At(p, {"regroup"}, "parent")
  <2>1. cols' = cols /\ (Goto(p, "reload") \/ Goto(p, "refused"))
    BY <1>3 DEF UpdateCollection, At, rows
  <2> QED
    BY <1>1, <2>1, LookKeeps
<1>4. CASE At(p, {"regroup"}, "reload")
  <2>1. CASE c \in DOMAIN cols /\ Movable(c, parent)
    <3>1. Goto(p, "store") /\ cols' = cols
      BY <1>4, <2>1 DEF UpdateCollection, Answer, At, rows
    <3>2. Known(c)
      BY <2>1 DEF Known, IInv, Sound
    <3>3. cols[c].kind = "personal" => cols[c].parent = parent
      BY <2>1 DEF Movable, IInv, Shape, Kinds
    <3> QED
      BY <1>1, <3>1, <3>2, <3>3, LookKeeps
  <2>2. CASE ~(c \in DOMAIN cols /\ Movable(c, parent))
    <3>1. Goto(p, "refused") /\ cols' = cols
      BY <1>4, <2>2 DEF UpdateCollection, Answer, At, rows
    <3> QED
      BY <1>1, <3>1, LookKeeps
  <2> QED
    BY <2>1, <2>2
<1>5. CASE At(p, {"regroup"}, "store")
  <2>1. cols' = (IF c \in DOMAIN cols THEN [cols EXCEPT ![c].parent = parent] ELSE cols) /\ Goto(p, "done")
    BY <1>5 DEF UpdateCollection, At
  <2>2. /\ DOMAIN cols' = DOMAIN cols /\ \A d \in DOMAIN cols \ {c} : cols'[d] = cols[d]
        /\ c \in DOMAIN cols => cols'[c] = [cols[c] EXCEPT !.parent = parent]
    BY <2>1
  <2>3. c \in DOMAIN cols => Columns(cols'[c]) /\ cols'[c].kind = cols[c].kind /\ cols'[c].owner = cols[c].owner
    BY <2>2 DEF IInv, Shape, Columns
  <2>4. c \in DOMAIN cols /\ cols[c].kind = "personal" => cols'[c].parent = cols[c].parent
    <3>1. c \in DOMAIN cols /\ cols[c].kind = "personal" => cols[c].parent = parent
      BY <1>5 DEF IInv, Sound
    <3>2. c \in DOMAIN cols => "parent" \in DOMAIN cols[c]
      BY DEF IInv, Shape, Columns
    <3> QED
      BY <2>2, <3>1, <3>2
  <2>5. DOMAIN pc' = Procs /\ pc'[p] = "done" /\ \A q \in Procs \ {p} : pc'[q] = pc[q]
    BY <2>1 DEF Goto, IInv, Shape
  <2>6. Quiet(p) /\ ~Unborn(p)'
    BY <1>1, <2>5 DEF Quiet, Unborn, IInv, Shape
  <2>7. Kept
    BY <2>2, <2>3, <2>4 DEF Kept
  <2>8. \A q \in Procs \ {p} : Sound(q)'
    BY <2>2, <2>6, <2>7, OthersKeep
  <2>9. Sound(p)'
    BY <2>5, <2>6 DEF Sound, At
  <2>10. Shape'
    BY <2>2, <2>3, <2>6 DEF IInv, Shape, Quiet, Kinds
  <2>11. Tree(cols')
    BY <2>2, <2>3, <2>4 DEF Tree, PersonalOf, IInv
  <2> QED
    BY <2>8, <2>9, <2>10, <2>11 DEF IInv
<1> QED
  BY <1>2, <1>3, <1>4, <1>5 DEF UpdateCollection

LEMMA DeleteKeeps ==
  ASSUME IInv, NEW p \in Procs, DeleteCollection(p)
  PROVE  IInv'
<1> DEFINE c == req[p].col
<1>1. req[p].kind = "delete" /\ req' = req /\ mem' = mem
  BY DEF DeleteCollection, Answer, At
<1>2. CASE At(p, {"delete"}, "begin")
  <2>1. cols' = cols /\ (Goto(p, "kind") \/ Goto(p, "refused"))
    BY <1>2 DEF DeleteCollection, Answer, At, rows
  <2> QED
    BY <1>1, <2>1, LookKeeps
<1>3. CASE At(p, {"delete"}, "kind")
  <2>1. CASE c \in DOMAIN cols /\ cols[c].owner = NoUser
    <3>1. Goto(p, "questions") /\ cols' = cols
      BY <1>3, <2>1 DEF DeleteCollection, Answer, At, rows
    <3>2. Known(c)
      BY <2>1 DEF Known, IInv, Sound
    <3>3. cols[c].kind # "personal"
      BY <2>1 DEF IInv, Shape, Kinds
    <3> QED
      BY <1>1, <3>1, <3>2, <3>3, LookKeeps
  <2>2. CASE ~(c \in DOMAIN cols /\ cols[c].owner = NoUser)
    <3>1. Goto(p, "refused") /\ cols' = cols
      BY <1>3, <2>2 DEF DeleteCollection, Answer, At, rows
    <3> QED
      BY <1>1, <3>1, LookKeeps
  <2> QED
    BY <2>1, <2>2
<1>4. CASE At(p, {"delete"}, "questions") \/ At(p, {"delete"}, "children")
  <2>1. cols' = cols /\ \E label : Goto(p, label) /\ label \in {"children", "delete", "refused"}
    BY <1>4 DEF DeleteCollection, At, rows
  <2>2. Known(c) /\ (c \in DOMAIN cols => cols[c].kind # "personal")
    BY <1>1, <1>4 DEF IInv, Sound, At
  <2> QED
    BY <1>1, <2>1, <2>2, LookKeeps
<1>5. CASE At(p, {"delete"}, "delete")
  <2>1. cols' = [d \in DOMAIN cols \ {c} |-> cols[d]] /\ Goto(p, "done")
    BY <1>5 DEF DeleteCollection, At
  <2>2. c \in DOMAIN cols => cols[c].kind # "personal"
    BY <1>1, <1>5 DEF IInv, Sound, At
  <2>3. Kept /\ DOMAIN cols' \subseteq DOMAIN cols
    BY <2>1, <2>2 DEF Kept
  <2>4. DOMAIN pc' = Procs /\ pc'[p] = "done" /\ \A q \in Procs \ {p} : pc'[q] = pc[q]
    BY <2>1 DEF Goto, IInv, Shape
  <2>5. Quiet(p) /\ ~Unborn(p)'
    BY <1>1, <2>4 DEF Quiet, Unborn, IInv, Shape
  <2>6. \A q \in Procs \ {p} : Sound(q)'
    BY <2>3, <2>5, OthersKeep
  <2>7. Sound(p)'
    BY <2>4, <2>5 DEF Sound, At
  <2>8. Shape'
    BY <2>1, <2>5 DEF IInv, Shape, Quiet
  <2>9. Tree(cols')
    BY <2>1, <2>2 DEF Tree, PersonalOf, IInv
  <2> QED
    BY <2>6, <2>7, <2>8, <2>9 DEF IInv
<1> QED
  BY <1>2, <1>3, <1>4, <1>5 DEF DeleteCollection

----------------------------------------------------------------------------
(* What requests store, of what they found.                                *)

\* An analysis or dashboard is on its way.
Carrying(p) == req[p].kind = "create" \/ req[p].kind = "move"

IsQuestion(p) == req[p].kind = "create" \/ items[req[p].item].type = "question"

\* p enters a group that it found or created, or leaves the item where it was.
Heading(p) ==
  /\ Carrying(p) /\ pc[p] = "own group" => "no own group" \in knew[p]
  /\ Carrying(p) /\ pc[p] = "enter" /\ mem[p].col = mem[p].from /\ IsQuestion(p) =>
       "target" \in knew[p] \/ mem[p].col \in raced \/ PersonalOf(cols, mem[p].col, req[p].user)
  /\ Carrying(p) /\ pc[p] = "store" /\ IsQuestion(p) => "target" \in knew[p] \/ mem[p].col \in raced
  /\ req[p].kind = "move" /\ pc[p] \notin {"begin", "refused"} => "leave" \in knew[p]
  /\ req[p].kind = "move" /\ pc[p] = "store" => mem[p].col = mem[p].from \/ "enter" \in knew[p]
  /\ req[p].kind = "create" => mem[p].from = NoCol /\ (pc[p] \in {"enter", "store"} => mem[p].col # NoCol)

\* p has looked at what its write to a group depends on.
Looked(p) ==
  /\ req[p].kind = "group" /\ pc[p] = "insert" => req[p].parent = NoCol \/ "target" \in knew[p]
  /\ req[p].kind = "regroup" /\ pc[p] \in {"reload", "store"} => req[p].parent = NoCol \/ "target" \in knew[p]
  /\ req[p].kind = "delete" /\ pc[p] \in {"children", "delete"} => "no questions" \in knew[p]
  /\ req[p].kind = "delete" /\ pc[p] = "delete" => "no children" \in knew[p]

\* p runs an alert that is armed, as far as it could see.
Running(p) ==
  req[p].kind = "run" /\ pc[p] \in {"query", "notify"} /\ req[p].alert \in DOMAIN alerts =>
      /\ mem[p].once <=> alerts[req[p].alert].once
      /\ alerts[req[p].alert].once => "armed" \in knew[p] \/ req[p].alert \in raced

Rows ==
  /\ NoCol \notin DOMAIN cols \cup Procs
  /\ \A i \in DOMAIN items : {"type", "col", "archived"} \subseteq DOMAIN items[i]
  /\ \A a \in DOMAIN alerts : {"once", "enabled"} \subseteq DOMAIN alerts[a]
  /\ DOMAIN alerts \subseteq Alerts /\ notes \in [Alerts -> Nat]
  /\ DOMAIN knew = Procs
  /\ \A p \in Procs :
       /\ p \in DOMAIN items => pc[p] = "done"
       /\ req[p].kind \in {"move", "archive", "restore"} => req[p].item \in DOMAIN items

\* An alert that has been told of is disabled, or about to be.
ToldOnce ==
  \A a \in DOMAIN alerts : alerts[a].once /\ notes[a] > 0 =>
    a \in raced \/ ~alerts[a].enabled \/ \E q \in Procs : At(q, {"run"}, "disarm") /\ req[q].alert = a

Promises ==
  /\ Rows /\ \A p \in Procs : Heading(p) /\ Looked(p) /\ Running(p)
  /\ FiledOrOverlap /\ ToldOnce /\ OnceOrOverlap

----------------------------------------------------------------------------
\* What a step of p leaves to the others.
Frame(p) ==
  /\ req' = req
  /\ DOMAIN pc' = Procs /\ \A q \in Procs \ {p} : pc'[q] = pc[q]
  /\ \A q \in Procs \ {p} : mem'[q] = mem[q]
  /\ DOMAIN knew' = Procs /\ knew[p] \subseteq knew'[p] /\ \A q \in Procs \ {p} : knew'[q] = knew[q]
  /\ raced \subseteq raced'
  /\ \A i \in DOMAIN items : i \in DOMAIN items' /\ items'[i].type = items[i].type
  /\ \A a \in DOMAIN alerts' : a \in DOMAIN alerts /\ alerts'[a].once = alerts[a].once

\* Nothing is known less well.
LEMMA KnewOnly ==
  ASSUME Rows, NEW p \in Procs, knew' = knew \/ \E facts : Learn(p, facts)
  PROVE  DOMAIN knew' = Procs /\ knew[p] \subseteq knew'[p] /\ \A q \in Procs \ {p} : knew'[q] = knew[q]
BY DEF Rows, Learn

LEMMA GroupsAreKept ==
  ASSUME IInv, NEW p \in Procs, Step(p)
  PROVE  Kept
<1>1. CASE cols' = cols
  BY <1>1 DEF Kept
<1>2. ASSUME NEW row, cols' = With(cols, p, row), Unborn(p) PROVE Kept
  BY <1>2 DEF Kept, With, IInv, Sound
<1>3. CASE At(p, {"regroup"}, "store") /\ UpdateCollection(p)
  BY <1>3 DEF UpdateCollection, Kept, IInv, Shape, Sound, Columns, At
<1>4. CASE At(p, {"delete"}, "delete") /\ DeleteCollection(p)
  BY <1>4 DEF DeleteCollection, Kept, IInv, Sound, At
<1>5. ASSUME EnsurePersonalCollection(p) PROVE Kept
  BY <1>1, <1>2, <1>5 DEF EnsurePersonalCollection, At, Unborn, rows
<1>6. ASSUME CreateCollection(p) PROVE Kept
  BY <1>1, <1>2, <1>6 DEF CreateCollection, Answer, At, Unborn, rows
<1>7. ASSUME UpdateCollection(p) PROVE Kept
  BY <1>1, <1>3, <1>7 DEF UpdateCollection, Answer, rows
<1>8. ASSUME DeleteCollection(p) PROVE Kept
  BY <1>1, <1>4, <1>8 DEF DeleteCollection, Answer, rows
<1>9. ASSUME Enter(p) \/ CreateItem(p) \/ MoveItem(p) \/ SetArchived(p) \/ PutCollectionShares(p) \/ RunAlert(p) \/ DeleteAlert(p)
      PROVE  Kept
  BY <1>1, <1>9 DEF Enter, CreateItem, MoveItem, SetArchived, PutCollectionShares, RunAlert, DeleteAlert, Answer, rows
<1> QED
  BY <1>5, <1>6, <1>7, <1>8, <1>9 DEF Step

\* What the others have found is as well founded as before.
LEMMA OthersStay ==
  ASSUME IInv, Rows, NEW p \in Procs, Frame(p), Kept, NEW q \in Procs, q # p, Heading(q), Looked(q), Running(q)
  PROVE  Heading(q)' /\ Looked(q)' /\ Running(q)'
<1>1. req'[q] = req[q] /\ pc'[q] = pc[q] /\ mem'[q] = mem[q] /\ knew'[q] = knew[q] /\ raced \subseteq raced'
  BY DEF Frame
<1>2. IsQuestion(q)' /\ Carrying(q)' => IsQuestion(q)
  BY <1>1 DEF IsQuestion, Carrying, Rows, Frame
<1>3. ASSUME NEW c, NEW owner, PersonalOf(cols, c, owner) PROVE PersonalOf(cols', c, owner)
  BY <1>3 DEF PersonalOf, Kept
<1>4. Heading(q)'
  BY <1>1, <1>2, <1>3 DEF Heading, Carrying
<1>5. Looked(q)'
  BY <1>1 DEF Looked
<1>6. Running(q)'
  BY <1>1 DEF Running, Frame
<1> QED
  BY <1>4, <1>5, <1>6

LEMMA FiledStays ==
  ASSUME FiledOrOverlap, items' = items, cols' = cols, raced \subseteq raced'
  PROVE  FiledOrOverlap'
BY DEF FiledOrOverlap

LEMMA ToldStays ==
  ASSUME ToldOnce, OnceOrOverlap, NEW p \in Procs, Frame(p), ~At(p, {"run"}, "disarm"), notes' = notes,
         \A a \in DOMAIN alerts' : alerts'[a].enabled = alerts[a].enabled
  PROVE  ToldOnce' /\ OnceOrOverlap'
<1>1. \A q \in Procs : At(q, {"run"}, "disarm") => At(q, {"run"}, "disarm")'
  BY DEF At, Frame
<1> QED
  BY <1>1 DEF ToldOnce, OnceOrOverlap, Frame

\* The promises after a step of p, from what p itself does.
LEMMA Together ==
  ASSUME IInv, Promises, NEW p \in Procs, Step(p), Frame(p), Rows', Heading(p)', Looked(p)', Running(p)',
         FiledOrOverlap', ToldOnce', OnceOrOverlap'
  PROVE  Promises'
<1>1. \A q \in Procs \ {p} : Heading(q)' /\ Looked(q)' /\ Running(q)'
  BY GroupsAreKept, OthersStay DEF Promises
<1> QED
  BY <1>1 DEF Promises

----------------------------------------------------------------------------
LEMMA EnsureFiles ==
  ASSUME IInv, Promises, NEW p \in Procs, EnsurePersonalCollection(p)
  PROVE  Promises'
<1>1. /\ Rows /\ Heading(p) /\ FiledOrOverlap /\ ToldOnce /\ OnceOrOverlap /\ Step(p)
      /\ req[p].user # NoUser /\ Carrying(p) /\ p \notin DOMAIN items /\ req[p].kind \in {"create", "move"}
  BY DEF Promises, Rows, Step, EnsurePersonalCollection, At, Carrying, IInv, Shape
<1>2. /\ req' = req /\ items' = items /\ alerts' = alerts /\ notes' = notes /\ raced \subseteq raced'
      /\ knew' = knew \/ \E facts : Learn(p, facts)
      /\ \E label \in {"enter", "own group"} : Goto(p, label)
  BY DEF EnsurePersonalCollection, Overtaken, rows
<1>3. mem' = mem \/ \E c : mem' = [mem EXCEPT ![p].col = c]
  BY DEF EnsurePersonalCollection
<1>4. Frame(p)
  BY <1>1, <1>2, <1>3, KnewOnly DEF Frame, Goto, IInv, Shape
<1>5. mem'[p].from = mem[p].from
  BY <1>3 DEF IInv, Shape
<1>6. CASE At(p, {"create", "move"}, "own")
  <2>1. cols' = cols /\ raced' = raced /\ Learn(p, IF Own(req[p].user) = {} THEN {"no own group"} ELSE {})
    BY <1>6 DEF EnsurePersonalCollection, At, rows
  <2>2. \/ pc'[p] = "own group" /\ FoundOwn(req[p].user) = {} /\ mem'[p].col = mem[p].col
        \/ pc'[p] = "enter" /\ mem'[p].col \in FoundOwn(req[p].user)
    BY <1>6 DEF EnsurePersonalCollection, At, Goto, IInv, Shape
  <2>3. pc'[p] = "own group" => "no own group" \in knew'[p]
    BY <2>1, <2>2 DEF FoundOwn, Learn, Rows, Promises
  <2>4. pc'[p] = "enter" => PersonalOf(cols', mem'[p].col, req[p].user) /\ mem'[p].col # NoCol
    BY <1>1, <2>1, <2>2 DEF FoundOwn, Own, PersonalOf, IInv, Shape, Kinds, Rows
  <2>5. Heading(p)'
    BY <1>1, <1>2, <1>4, <1>5, <1>6, <2>2, <2>3, <2>4 DEF Heading, Frame, At
  <2>6. Rows'
    BY <1>1, <1>2, <1>4, <2>1 DEF Rows, Frame
  <2>7. Looked(p)' /\ Running(p)'
    BY <1>1, <1>2 DEF Looked, Running
  <2>8. FiledOrOverlap' /\ ToldOnce' /\ OnceOrOverlap'
    BY <1>1, <1>2, <1>4, <1>6, <2>1, FiledStays, ToldStays DEF At
  <2> QED
    BY <1>1, <1>4, <2>5, <2>6, <2>7, <2>8, Together
<1>7. CASE At(p, {"create", "move"}, "own group")
  <2>1. /\ cols' = With(cols, p, [parent |-> NoCol, kind |-> "personal", owner |-> req[p].user])
        /\ mem'[p].col = p /\ pc'[p] = "enter"
    BY <1>7 DEF EnsurePersonalCollection, At, Goto, IInv, Shape
  <2>2. /\ p \notin DOMAIN cols /\ DOMAIN cols' = DOMAIN cols \cup {p} /\ \A c \in DOMAIN cols : cols'[c] = cols[c]
        /\ cols'[p] = [parent |-> NoCol, kind |-> "personal", owner |-> req[p].user]
    BY <1>7, <2>1 DEF With, IInv, Sound, Unborn, At
  <2>3. PersonalOf(cols', mem'[p].col, req[p].user) /\ mem'[p].col # NoCol
    BY <1>1, <2>1, <2>2 DEF PersonalOf, Rows
  <2>4. Heading(p)'
    BY <1>1, <1>2, <1>4, <1>5, <1>7, <2>1, <2>3 DEF Heading, Frame, At
  <2>5. Rows'
    BY <1>1, <1>2, <1>4, <2>2 DEF Rows, Frame
  <2>6. Looked(p)' /\ Running(p)'
    BY <1>1, <1>2 DEF Looked, Running
  <2>7. ToldOnce' /\ OnceOrOverlap'
    BY <1>1, <1>2, <1>4, <1>7, ToldStays DEF At
  <2>8. \A c \in DOMAIN cols' : cols'[c].parent \in DOMAIN cols' \cup raced' \cup {NoCol}
    <3>1. cols'[p].parent = NoCol
      BY <2>2
    <3>2. ASSUME NEW c \in DOMAIN cols PROVE cols'[c].parent \in DOMAIN cols' \cup raced' \cup {NoCol}
      BY <1>1, <1>2, <2>2 DEF FiledOrOverlap
    <3> QED
      BY <2>2, <3>1, <3>2
  <2>9. FiledOrOverlap'
    BY <1>1, <1>2, <2>2, <2>8 DEF FiledOrOverlap
  <2> QED
    BY <1>1, <1>4, <2>4, <2>5, <2>6, <2>7, <2>9, Together
<1> QED
  BY <1>6, <1>7 DEF EnsurePersonalCollection

LEMMA EnterFiles ==
  ASSUME IInv, Promises, NEW p \in Procs, Enter(p)
  PROVE  Promises'
<1>1. /\ Rows /\ Heading(p) /\ FiledOrOverlap /\ ToldOnce /\ OnceOrOverlap /\ Step(p)
      /\ Carrying(p) /\ p \notin DOMAIN items /\ req[p].kind \in {"create", "move"} /\ pc[p] = "enter"
  BY DEF Promises, Rows, Step, Enter, At, Carrying
<1>2. /\ req' = req /\ cols' = cols /\ items' = items /\ alerts' = alerts /\ notes' = notes /\ raced' = raced /\ mem' = mem
      /\ Goto(p, "store") \/ Goto(p, "refused")
  BY DEF Enter, rows
<1>3. \E facts : Learn(p, facts)
  BY DEF Enter
<1>4. Frame(p)
  BY <1>1, <1>2, <1>3, KnewOnly DEF Frame, Goto, IInv, Shape
<1>5. /\ mem[p].col \in DOMAIN cols => "target" \in knew'[p]
      /\ Editor(req[p].user, mem[p].col) => "enter" \in knew'[p]
  BY <1>1 DEF Enter, Learn, Rows
<1>6. pc'[p] = "store" => mem[p].col = mem[p].from \/ CanAccessCollection(req[p].user, mem[p].col, "edit")
  BY DEF Enter, Goto, IInv, Shape
<1>7. CanAccessCollection(req[p].user, mem[p].col, "edit") => mem[p].col \in DOMAIN cols /\ Editor(req[p].user, mem[p].col)
  BY DEF CanAccessCollection, Editor
<1>8. IsQuestion(p)' => IsQuestion(p)
  BY <1>2 DEF IsQuestion
<1>9. Heading(p)'
  <2>1. pc'[p] \in {"store", "refused"} /\ knew[p] \subseteq knew'[p]
    BY <1>1, <1>2, <1>4 DEF Goto, Frame, IInv, Shape
  <2>2. pc'[p] = "store" /\ IsQuestion(p) => "target" \in knew'[p] \/ mem[p].col \in raced
    BY <1>1, <1>5, <1>6, <1>7, <2>1 DEF Heading, PersonalOf
  <2>3. pc'[p] = "store" => mem[p].col = mem[p].from \/ "enter" \in knew'[p]
    BY <1>5, <1>6, <1>7
  <2> QED
    BY <1>1, <1>2, <1>8, <2>1, <2>2, <2>3 DEF Heading, Carrying
<1>10. Rows'
  BY <1>1, <1>2, <1>4 DEF Rows, Frame
<1>11. Looked(p)' /\ Running(p)'
  BY <1>1, <1>2 DEF Looked, Running
<1>12. FiledOrOverlap' /\ ToldOnce' /\ OnceOrOverlap'
  BY <1>1, <1>2, <1>4, FiledStays, ToldStays DEF At
<1> QED
  BY <1>1, <1>4, <1>9, <1>10, <1>11, <1>12, Together

LEMMA CreateFiles ==
  ASSUME IInv, Promises, NEW p \in Procs, CreateItem(p)
  PROVE  Promises'
<1>1. /\ Rows /\ Heading(p) /\ FiledOrOverlap /\ ToldOnce /\ OnceOrOverlap /\ Step(p)
      /\ Carrying(p) /\ p \notin DOMAIN items /\ req[p].kind = "create"
  BY DEF Promises, Rows, Step, CreateItem, At, Carrying
<1>2. /\ req' = req /\ cols' = cols /\ alerts' = alerts /\ notes' = notes /\ raced \subseteq raced' /\ knew' = knew
      /\ \E label : Goto(p, label)
  BY DEF CreateItem, Overtaken, rows
<1>3. CASE At(p, {"create"}, "begin")
  <2>1. /\ items' = items /\ raced' = raced /\ mem' = [mem EXCEPT ![p].col = req[p].col]
        /\ Goto(p, IF req[p].col = NoCol THEN "own" ELSE "enter")
    BY <1>3 DEF CreateItem, At, rows
  <2>2. Frame(p)
    BY <1>1, <1>2, <2>1, KnewOnly DEF Frame, Goto, IInv, Shape
  <2>3. /\ mem'[p].col = req[p].col /\ mem'[p].from = mem[p].from
        /\ pc'[p] = IF req[p].col = NoCol THEN "own" ELSE "enter"
    BY <2>1 DEF Goto, IInv, Shape
  <2>4. Heading(p)'
    BY <1>1, <1>2, <2>3 DEF Heading, Carrying
  <2>5. Rows'
    BY <1>1, <1>2, <2>1, <2>2 DEF Rows, Frame
  <2>6. Looked(p)' /\ Running(p)'
    BY <1>1, <1>2 DEF Looked, Running
  <2>7. FiledOrOverlap' /\ ToldOnce' /\ OnceOrOverlap'
    BY <1>1, <1>2, <1>3, <2>1, <2>2, FiledStays, ToldStays DEF At
  <2> QED
    BY <1>1, <2>2, <2>4, <2>5, <2>6, <2>7, Together
<1>4. CASE At(p, {"create"}, "store")
  <2> DEFINE c == mem[p].col
             row == [type |-> req[p].type, col |-> c, archived |-> FALSE]
  <2>1. items' = With(items, p, row) /\ mem' = mem /\ Goto(p, "done") /\ Overtaken(p, c, "target", c \in DOMAIN cols)
    BY <1>4 DEF CreateItem, At
  <2>2. /\ DOMAIN items' = DOMAIN items \cup {p} /\ \A i \in DOMAIN items : items'[i] = items[i]
        /\ items'[p] = row
    BY <1>1, <2>1 DEF With
  <2>3. c \in DOMAIN cols \cup raced'
    BY <1>1, <1>4, <2>1 DEF Heading, At, IsQuestion, Overtaken
  <2>4. Frame(p)
    BY <1>1, <1>2, <2>1, <2>2, KnewOnly DEF Frame, Goto, IInv, Shape
  <2>5. pc'[p] = "done"
    BY <2>1 DEF Goto, IInv, Shape
  <2>6. Heading(p)'
    BY <1>1, <1>2, <2>1, <2>5 DEF Heading, Carrying
  <2>7. Rows'
    BY <1>1, <1>2, <2>2, <2>4, <2>5 DEF Rows, Frame
  <2>8. Looked(p)' /\ Running(p)'
    BY <1>1, <1>2 DEF Looked, Running
  <2>9. ToldOnce' /\ OnceOrOverlap'
    BY <1>1, <1>2, <1>4, <2>4, ToldStays DEF At
  <2>10. FiledOrOverlap'
    BY <1>1, <1>2, <2>2, <2>3 DEF FiledOrOverlap
  <2> QED
    BY <1>1, <2>4, <2>6, <2>7, <2>8, <2>9, <2>10, Together
<1> QED
  BY <1>3, <1>4 DEF CreateItem

LEMMA MoveFiles ==
  ASSUME IInv, Promises, NEW p \in Procs, MoveItem(p)
  PROVE  Promises'
<1> DEFINE i == req[p].item
           c == mem[p].col
<1>1. /\ Rows /\ Heading(p) /\ FiledOrOverlap /\ ToldOnce /\ OnceOrOverlap /\ Step(p)
      /\ Carrying(p) /\ p \notin DOMAIN items /\ req[p].kind = "move" /\ i \in DOMAIN items
  BY DEF Promises, Rows, Step, MoveItem, At, Carrying
<1>2. /\ req' = req /\ cols' = cols /\ alerts' = alerts /\ notes' = notes /\ raced \subseteq raced'
      /\ knew' = knew \/ \E facts : Learn(p, facts)
      /\ \E label : Goto(p, label)
  BY DEF MoveItem, rows
<1>3. CASE At(p, {"move"}, "begin")
  <2>1. /\ items' = items /\ raced' = raced /\ mem' = [mem EXCEPT ![p].from = items[i].col, ![p].col = Wanted(p, i)]
    BY <1>3 DEF MoveItem, At, rows
  <2>2. Frame(p)
    BY <1>1, <1>2, <2>1, KnewOnly DEF Frame, Goto, IInv, Shape
  <2>3. /\ mem'[p].col = Wanted(p, i) /\ mem'[p].from = items[i].col
        /\ \/ pc'[p] = "refused"
           \/ CanAccessItem(req[p].user, items[i].col, "edit") /\ pc'[p] = "own"
           \/ CanAccessItem(req[p].user, items[i].col, "edit") /\ pc'[p] = "enter"
    BY <1>3, <2>1 DEF MoveItem, At, Goto, IInv, Shape
  <2>4. /\ Editor(req[p].user, items[i].col) => "leave" \in knew'[p]
        /\ Wanted(p, i) \in DOMAIN cols => "target" \in knew'[p]
    BY <1>1, <1>3 DEF MoveItem, At, Learn, Rows
  <2>5. CanAccessItem(req[p].user, items[i].col, "edit") => Editor(req[p].user, items[i].col)
    BY DEF CanAccessItem, CanAccessCollection, Editor
  <2>6. IsQuestion(p)' => items[i].col \in DOMAIN cols \cup raced
    BY <1>1, <1>2, <2>1 DEF IsQuestion, FiledOrOverlap
  <2>7. Heading(p)'
    BY <1>1, <1>2, <2>1, <2>3, <2>4, <2>5, <2>6 DEF Heading, Carrying
  <2>8. Rows'
    BY <1>1, <1>2, <2>1, <2>2 DEF Rows, Frame
  <2>9. Looked(p)' /\ Running(p)'
    BY <1>1, <1>2 DEF Looked, Running
  <2>10. FiledOrOverlap' /\ ToldOnce' /\ OnceOrOverlap'
    BY <1>1, <1>2, <1>3, <2>1, <2>2, FiledStays, ToldStays DEF At
  <2> QED
    BY <1>1, <2>2, <2>7, <2>8, <2>9, <2>10, Together
<1>4. CASE At(p, {"move"}, "store")
  <2>1. /\ items' = [items EXCEPT ![i].col = c] /\ mem' = mem /\ Goto(p, "done") /\ knew' = knew
        /\ "target" \in knew[p] /\ c \notin DOMAIN cols => c \in raced'
    BY <1>4 DEF MoveItem, At
  <2>2. /\ DOMAIN items' = DOMAIN items /\ \A j \in DOMAIN items \ {i} : items'[j] = items[j]
        /\ items'[i].type = items[i].type /\ items'[i].col = c
        /\ {"type", "col", "archived"} \subseteq DOMAIN items'[i]
    BY <1>1, <2>1 DEF Rows
  <2>3. items[i].type = "question" => c \in DOMAIN cols \cup raced'
    BY <1>1, <1>2, <1>4, <2>1 DEF Heading, At, IsQuestion
  <2>4. Frame(p)
    BY <1>1, <1>2, <2>1, <2>2, KnewOnly DEF Frame, Goto, IInv, Shape
  <2>5. pc'[p] = "done"
    BY <2>1 DEF Goto, IInv, Shape
  <2>6. Heading(p)'
    BY <1>1, <1>2, <1>4, <2>1, <2>5 DEF Heading, Carrying, At
  <2>7. Rows'
    BY <1>1, <1>2, <2>2, <2>4 DEF Rows, Frame
  <2>8. Looked(p)' /\ Running(p)'
    BY <1>1, <1>2 DEF Looked, Running
  <2>9. ToldOnce' /\ OnceOrOverlap'
    BY <1>1, <1>2, <1>4, <2>4, ToldStays DEF At
  <2>10. FiledOrOverlap'
    BY <1>1, <1>2, <2>2, <2>3 DEF FiledOrOverlap
  <2> QED
    BY <1>1, <2>4, <2>6, <2>7, <2>8, <2>9, <2>10, Together
<1> QED
  BY <1>3, <1>4 DEF MoveItem

\* The trash, the list of shares and the end of an alert.
LEMMA OtherFiles ==
  ASSUME IInv, Promises, NEW p \in Procs, SetArchived(p) \/ PutCollectionShares(p) \/ DeleteAlert(p)
  PROVE  Promises'
<1>1. /\ Rows /\ FiledOrOverlap /\ ToldOnce /\ OnceOrOverlap /\ Step(p)
      /\ req[p].kind \in {"archive", "restore", "share", "drop"} /\ p \notin DOMAIN items
  BY DEF Promises, Rows, Step, SetArchived, PutCollectionShares, DeleteAlert, At
<1>2. /\ req' = req /\ cols' = cols /\ notes' = notes /\ raced' = raced /\ knew' = knew /\ mem' = mem
      /\ \E label : Goto(p, label)
  BY DEF SetArchived, PutCollectionShares, DeleteAlert, Answer, rows
<1>3. \/ items' = items
      \/ req[p].item \in DOMAIN items /\ \E b : items' = [items EXCEPT ![req[p].item].archived = b]
  BY <1>1 DEF SetArchived, PutCollectionShares, DeleteAlert, Answer, rows, Rows, At
<1>4. /\ DOMAIN items' = DOMAIN items
      /\ \A i \in DOMAIN items : /\ items'[i].type = items[i].type /\ items'[i].col = items[i].col
                                 /\ {"type", "col", "archived"} \subseteq DOMAIN items'[i]
  <2>1. CASE items' = items
    BY <1>1, <2>1 DEF Rows
  <2>2. ASSUME NEW b, req[p].item \in DOMAIN items, items' = [items EXCEPT ![req[p].item].archived = b]
        PROVE  /\ DOMAIN items' = DOMAIN items
               /\ \A i \in DOMAIN items : /\ items'[i].type = items[i].type /\ items'[i].col = items[i].col
                                          /\ {"type", "col", "archived"} \subseteq DOMAIN items'[i]
    BY <1>1, <2>2 DEF Rows
  <2> QED
    BY <1>3, <2>1, <2>2
<1>5. alerts' = alerts \/ \E a : alerts' = [b \in DOMAIN alerts \ {a} |-> alerts[b]]
  BY DEF SetArchived, PutCollectionShares, DeleteAlert, Answer, rows
<1>6. \A a \in DOMAIN alerts' : a \in DOMAIN alerts /\ alerts'[a] = alerts[a]
  BY <1>5
<1>7. Frame(p)
  BY <1>1, <1>2, <1>4, <1>6, KnewOnly DEF Frame, Goto, IInv, Shape
<1>8. Heading(p)' /\ Looked(p)' /\ Running(p)'
  BY <1>1, <1>2 DEF Heading, Looked, Running, Carrying
<1>9. Rows'
  BY <1>1, <1>2, <1>4, <1>6, <1>7 DEF Rows, Frame
<1>10. FiledOrOverlap'
  BY <1>1, <1>2, <1>4 DEF FiledOrOverlap
<1>11. ToldOnce' /\ OnceOrOverlap'
  BY <1>1, <1>2, <1>6, <1>7, ToldStays DEF At
<1> QED
  BY <1>1, <1>7, <1>8, <1>9, <1>10, <1>11, Together

LEMMA RunFiles ==
  ASSUME IInv, Promises, NEW p \in Procs, RunAlert(p)
  PROVE  Promises'
<1> DEFINE a == req[p].alert
<1>1. /\ Rows /\ Running(p) /\ FiledOrOverlap /\ ToldOnce /\ OnceOrOverlap /\ Step(p)
      /\ req[p].kind = "run" /\ p \notin DOMAIN items
  BY DEF Promises, Rows, Step, RunAlert, At
<1>2. /\ req' = req /\ cols' = cols /\ items' = items /\ raced \subseteq raced'
      /\ knew' = knew \/ \E facts : Learn(p, facts)
      /\ \E label : Goto(p, label)
      /\ mem' = mem \/ \E b : mem' = [mem EXCEPT ![p].once = b]
  BY DEF RunAlert, Answer, rows, Overtaken
<1>3. Heading(p)' /\ Looked(p)' /\ FiledOrOverlap'
  BY <1>1, <1>2, FiledStays DEF Heading, Looked, Carrying
<1>4. \A q \in Procs \ {p} : At(q, {"run"}, "disarm")' <=> At(q, {"run"}, "disarm")
  BY <1>2 DEF Goto, At, IInv, Shape
<1>5. CASE ~At(p, {"run"}, "notify") /\ ~At(p, {"run"}, "disarm")
  <2>1. alerts' = alerts /\ notes' = notes /\ raced' = raced
    BY <1>5 DEF RunAlert, Answer, rows
  <2>2. Frame(p)
    BY <1>1, <1>2, <2>1, KnewOnly DEF Frame, Goto, IInv, Shape
  <2>3. Rows'
    BY <1>1, <1>2, <2>1, <2>2 DEF Rows, Frame
  <2>4. Running(p)'
    <3>1. CASE At(p, {"run"}, "begin")
      BY <1>2, <3>1 DEF RunAlert, At, Answer, Goto, Running, IInv, Shape
    <3>2. CASE At(p, {"run"}, "query")
      BY <1>1, <1>2, <2>1, <3>2 DEF RunAlert, At, Answer, Goto, Running, IInv, Shape
    <3>3. CASE At(p, {"run"}, "load")
      <4>1. /\ mem' = [mem EXCEPT ![p].once = a \in DOMAIN alerts /\ alerts[a].once]
            /\ Learn(p, IF a \in DOMAIN alerts /\ alerts[a].enabled /\ Pending(a) THEN {"armed"} ELSE {})
            /\ Goto(p, IF Armed(a) THEN "query" ELSE "refused")
        BY <3>3 DEF RunAlert, At
      <4>2. mem'[p].once = (a \in DOMAIN alerts /\ alerts[a].once)
        BY <4>1 DEF IInv, Shape
      <4>3. pc'[p] \in {"query", "notify"} => Armed(a)
        BY <4>1 DEF Goto, IInv, Shape
      <4>4. Armed(a) /\ Pending(a) => "armed" \in knew'[p]
        BY <1>1, <4>1 DEF Learn, Armed, Rows
      <4>5. Armed(a) /\ ~Pending(a) /\ alerts[a].once => a \in raced
        <5>1. Armed(a) /\ ~Pending(a) => notes[a] > 0
          BY <1>1 DEF Armed, Pending, Rows
        <5> QED
          BY <1>1, <5>1 DEF ToldOnce, Armed, Pending
      <4> QED
        BY <1>2, <2>1, <4>2, <4>3, <4>4, <4>5 DEF Running
    <3> QED
      BY <1>5, <3>1, <3>2, <3>3 DEF RunAlert
  <2>5. ToldOnce' /\ OnceOrOverlap'
    BY <1>1, <1>2, <1>5, <2>1, <2>2, ToldStays
  <2> QED
    BY <1>1, <1>3, <2>2, <2>3, <2>4, <2>5, Together
<1>6. CASE At(p, {"run"}, "notify")
  <2>1. /\ notes' = [notes EXCEPT ![a] = @ + 1] /\ alerts' = alerts /\ mem' = mem /\ knew' = knew
        /\ Overtaken(p, a, "armed", notes[a] = 0)
        /\ Goto(p, IF mem[p].once THEN "disarm" ELSE "done")
    BY <1>6 DEF RunAlert, At
  <2>2. Frame(p)
    BY <1>1, <1>2, <2>1, KnewOnly DEF Frame, Goto, IInv, Shape
  <2>3. Rows'
    <3>1. notes' \in [Alerts -> Nat]
      <4>1. notes \in [Alerts -> Nat] /\ notes' = [notes EXCEPT ![a] = notes[a] + 1]
        BY <1>1, <2>1 DEF Rows
      <4>2. \A b \in Alerts : notes'[b] \in Nat
        BY <4>1
      <4>3. notes' = [b \in Alerts |-> notes'[b]]
        BY <4>1
      <4> QED
        BY <4>2, <4>3
    <3> QED
      BY <1>1, <1>2, <2>1, <2>2, <3>1 DEF Rows, Frame
  <2>4. pc'[p] = (IF mem[p].once THEN "disarm" ELSE "done")
    BY <2>1 DEF Goto, IInv, Shape
  <2>5. Running(p)'
    BY <2>4 DEF Running
  <2>6. a \in DOMAIN alerts /\ alerts[a].once => At(p, {"run"}, "disarm")'
    BY <1>1, <1>2, <1>6, <2>4 DEF Running, At
  <2>7. /\ \A b \in Alerts \ {a} : notes'[b] = notes[b]
        /\ a \in Alerts => notes'[a] = notes[a] + 1
    BY <1>1, <2>1 DEF Rows
  <2>8. ToldOnce'
    <3> SUFFICES ASSUME NEW b \in DOMAIN alerts, alerts[b].once, notes'[b] > 0
                 PROVE  b \in raced' \/ ~alerts[b].enabled \/ \E q \in Procs : At(q, {"run"}, "disarm")' /\ req[q].alert = b
      BY <1>2, <2>1 DEF ToldOnce
    <3>1. CASE b = a
      BY <2>6, <3>1
    <3>2. CASE b # a
      <4>1. notes[b] > 0
        BY <1>1, <2>7, <3>2 DEF Rows
      <4>2. ~At(p, {"run"}, "disarm")
        BY <1>6 DEF At
      <4> QED
        BY <1>1, <1>2, <1>4, <4>1, <4>2 DEF ToldOnce
    <3> QED
      BY <3>1, <3>2
  <2>9. OnceOrOverlap'
    <3> SUFFICES ASSUME NEW b \in DOMAIN alerts, alerts[b].once, notes'[b] > 1
                 PROVE  b \in raced'
      BY <2>1 DEF OnceOrOverlap
    <3>1. CASE b = a
      <4>1. notes[a] # 0
        BY <1>1, <2>7, <3>1 DEF Rows
      <4>2. "armed" \in knew[p] \/ a \in raced
        BY <1>1, <1>6, <3>1 DEF Running, At
      <4> QED
        BY <1>2, <2>1, <3>1, <4>1, <4>2 DEF Overtaken
    <3>2. CASE b # a
      BY <1>1, <1>2, <2>7, <3>2 DEF OnceOrOverlap, Rows
    <3> QED
      BY <3>1, <3>2
  <2> QED
    BY <1>1, <1>3, <2>2, <2>3, <2>5, <2>8, <2>9, Together
<1>7. CASE At(p, {"run"}, "disarm")
  <2>1. /\ notes' = notes /\ mem' = mem /\ knew' = knew /\ Goto(p, "done")
        /\ \/ alerts' = [b \in DOMAIN alerts |-> IF b = a THEN [alerts[b] EXCEPT !.enabled = FALSE] ELSE alerts[b]]
           \/ alerts' = alerts /\ a \in raced'
    BY <1>7 DEF RunAlert, At
  <2>2. /\ DOMAIN alerts' = DOMAIN alerts
        /\ \A b \in DOMAIN alerts : /\ {"once", "enabled"} \subseteq DOMAIN alerts'[b]
                                    /\ alerts'[b].once = alerts[b].once
                                    /\ b # a => alerts'[b].enabled = alerts[b].enabled
        /\ a \in DOMAIN alerts => ~alerts'[a].enabled \/ a \in raced'
    BY <1>1, <2>1 DEF Rows
  <2>3. Frame(p)
    BY <1>1, <1>2, <2>1, <2>2, KnewOnly DEF Frame, Goto, IInv, Shape
  <2>4. Rows'
    BY <1>1, <1>2, <2>1, <2>2, <2>3 DEF Rows, Frame
  <2>5. pc'[p] = "done"
    BY <2>1 DEF Goto, IInv, Shape
  <2>6. Running(p)'
    BY <2>5 DEF Running
  <2>7. ToldOnce'
    <3> SUFFICES ASSUME NEW b \in DOMAIN alerts, alerts[b].once, notes[b] > 0
                 PROVE  b \in raced' \/ ~alerts'[b].enabled \/ \E q \in Procs : At(q, {"run"}, "disarm")' /\ req[q].alert = b
      BY <1>2, <2>1, <2>2 DEF ToldOnce
    <3>1. CASE b = a
      BY <2>2, <3>1
    <3>2. CASE b # a
      BY <1>1, <1>2, <1>4, <2>2, <3>2 DEF ToldOnce
    <3> QED
      BY <3>1, <3>2
  <2>8. OnceOrOverlap'
    BY <1>1, <1>2, <2>1, <2>2 DEF OnceOrOverlap
  <2> QED
    BY <1>1, <1>3, <2>3, <2>4, <2>6, <2>7, <2>8, Together
<1> QED
  BY <1>5, <1>6, <1>7

LEMMA ChildFiles ==
  ASSUME IInv, Promises, NEW p \in Procs, CreateCollection(p)
  PROVE  Promises'
<1> DEFINE parent == req[p].parent
<1>1. /\ Rows /\ Looked(p) /\ FiledOrOverlap /\ ToldOnce /\ OnceOrOverlap /\ Step(p)
      /\ req[p].kind = "group" /\ p \notin DOMAIN items
  BY DEF Promises, Rows, Step, CreateCollection, At
<1>2. /\ req' = req /\ items' = items /\ alerts' = alerts /\ notes' = notes /\ raced \subseteq raced'
      /\ knew' = knew \/ \E facts : Learn(p, facts)
      /\ \E label : Goto(p, label)
  BY DEF CreateCollection, Answer, Overtaken, rows
<1>3. \A q \in Procs \ {p} : mem'[q] = mem[q]
  BY DEF CreateCollection, Answer, IInv, Shape
<1>4. Frame(p)
  BY <1>1, <1>2, <1>3, KnewOnly DEF Frame, Goto, IInv, Shape
<1>5. Heading(p)' /\ Running(p)' /\ ToldOnce' /\ OnceOrOverlap'
  BY <1>1, <1>2, <1>4, ToldStays DEF Heading, Running, Carrying, At
<1>6. CASE At(p, {"group"}, "insert")
  <2>1. /\ cols' = With(cols, p, [parent |-> parent, kind |-> mem[p].kind, owner |-> mem[p].owner])
        /\ Overtaken(p, parent, "target", parent \in DOMAIN cols)
        /\ Goto(p, "rules") \/ Goto(p, "done")
    BY <1>6 DEF CreateCollection, At
  <2>2. p \notin DOMAIN cols
    BY <1>6 DEF IInv, Sound, Unborn, At
  <2>3. /\ DOMAIN cols' = DOMAIN cols \cup {p} /\ \A c \in DOMAIN cols : cols'[c] = cols[c]
        /\ cols'[p].parent = parent
    BY <2>1, <2>2 DEF With
  <2>4. parent \in DOMAIN cols \cup raced' \cup {NoCol}
    BY <1>1, <1>6, <2>1 DEF Looked, At, Overtaken
  <2>5. FiledOrOverlap'
    <3>1. \A c \in DOMAIN cols : cols'[c].parent \in DOMAIN cols' \cup raced' \cup {NoCol}
      BY <1>1, <1>2, <2>3 DEF FiledOrOverlap
    <3> QED
      BY <1>1, <1>2, <2>3, <2>4, <3>1 DEF FiledOrOverlap
  <2>6. Rows'
    BY <1>1, <1>2, <1>4, <2>3 DEF Rows, Frame
  <2>7. Looked(p)'
    BY <1>1, <1>2, <2>1 DEF Looked, Goto, IInv, Shape
  <2> QED
    BY <1>1, <1>4, <1>5, <2>5, <2>6, <2>7, Together
<1>7. CASE ~At(p, {"group"}, "insert")
  <2>1. cols' = cols
    BY <1>7 DEF CreateCollection, Answer, rows
  <2>2. FiledOrOverlap' /\ Rows'
    BY <1>1, <1>2, <1>4, <2>1, FiledStays DEF Rows, Frame
  <2>3. pc'[p] = "insert" => parent = NoCol \/ "target" \in knew'[p]
    <3>1. CASE At(p, {"group"}, "begin")
      BY <3>1 DEF CreateCollection, At, Answer, Goto, IInv, Shape
    <3>2. CASE At(p, {"group"}, "inherit")
      BY <1>1, <3>2 DEF CreateCollection, At, Answer, Goto, Learn, Rows, IInv, Shape
    <3>3. CASE At(p, {"group"}, "rules")
      BY <3>3 DEF CreateCollection, At, Answer, Goto, IInv, Shape
    <3> QED
      BY <1>7, <3>1, <3>2, <3>3 DEF CreateCollection
  <2>4. Looked(p)'
    BY <1>1, <1>2, <2>3 DEF Looked
  <2> QED
    BY <1>1, <1>4, <1>5, <2>2, <2>4, Together
<1> QED
  BY <1>6, <1>7

LEMMA RegroupFiles ==
  ASSUME IInv, Promises, NEW p \in Procs, UpdateCollection(p)
  PROVE  Promises'
<1> DEFINE c == req[p].col
           parent == req[p].parent
<1>1. /\ Rows /\ Looked(p) /\ FiledOrOverlap /\ ToldOnce /\ OnceOrOverlap /\ Step(p)
      /\ req[p].kind = "regroup" /\ p \notin DOMAIN items
  BY DEF Promises, Rows, Step, UpdateCollection, At
<1>2. /\ req' = req /\ items' = items /\ alerts' = alerts /\ notes' = notes /\ raced \subseteq raced' /\ mem' = mem
      /\ knew' = knew \/ \E facts : Learn(p, facts)
      /\ \E label : Goto(p, label)
  BY DEF UpdateCollection, Answer, Overtaken, rows
<1>3. Frame(p)
  BY <1>1, <1>2, KnewOnly DEF Frame, Goto, IInv, Shape
<1>4. Heading(p)' /\ Running(p)' /\ ToldOnce' /\ OnceOrOverlap'
  BY <1>1, <1>2, <1>3, ToldStays DEF Heading, Running, Carrying, At
<1>5. CASE At(p, {"regroup"}, "store")
  <2>1. /\ cols' = IF c \in DOMAIN cols THEN [cols EXCEPT ![c].parent = parent] ELSE cols
        /\ Overtaken(p, parent, "target", parent \in DOMAIN cols)
        /\ Goto(p, "done")
    BY <1>5 DEF UpdateCollection, At
  <2>2. /\ DOMAIN cols' = DOMAIN cols /\ \A d \in DOMAIN cols \ {c} : cols'[d] = cols[d]
        /\ c \in DOMAIN cols => cols'[c].parent = parent
    BY <2>1 DEF IInv, Shape, Columns
  <2>3. parent \in DOMAIN cols \cup raced' \cup {NoCol}
    BY <1>1, <1>5, <2>1 DEF Looked, At, Overtaken
  <2>4. FiledOrOverlap'
    <3>1. ASSUME NEW d \in DOMAIN cols PROVE cols'[d].parent \in DOMAIN cols' \cup raced' \cup {NoCol}
      BY <1>1, <1>2, <2>2, <2>3 DEF FiledOrOverlap
    <3> QED
      BY <1>1, <1>2, <2>2, <3>1 DEF FiledOrOverlap
  <2>5. Rows'
    BY <1>1, <1>2, <1>3, <2>2 DEF Rows, Frame
  <2>6. Looked(p)'
    BY <1>1, <1>2, <2>1 DEF Looked, Goto, IInv, Shape
  <2> QED
    BY <1>1, <1>3, <1>4, <2>4, <2>5, <2>6, Together
<1>6. CASE ~At(p, {"regroup"}, "store")
  <2>1. cols' = cols
    BY <1>6 DEF UpdateCollection, Answer, rows
  <2>2. FiledOrOverlap' /\ Rows'
    BY <1>1, <1>2, <1>3, <2>1, FiledStays DEF Rows, Frame
  <2>3. pc'[p] \in {"reload", "store"} => parent = NoCol \/ "target" \in knew'[p]
    <3>1. CASE At(p, {"regroup"}, "begin")
      BY <3>1 DEF UpdateCollection, At, Answer, Goto, IInv, Shape
    <3>2. CASE At(p, {"regroup"}, "parent")
      BY <1>1, <3>2 DEF UpdateCollection, At, Goto, Learn, CanAccessCollection, Rows, IInv, Shape
    <3>3. CASE At(p, {"regroup"}, "reload")
      BY <1>1, <3>3 DEF UpdateCollection, At, Answer, Looked
    <3> QED
      BY <1>6, <3>1, <3>2, <3>3 DEF UpdateCollection
  <2>4. Looked(p)'
    BY <1>1, <1>2, <2>3 DEF Looked
  <2> QED
    BY <1>1, <1>3, <1>4, <2>2, <2>4, Together
<1> QED
  BY <1>5, <1>6

LEMMA DeleteFiles ==
  ASSUME IInv, Promises, NEW p \in Procs, DeleteCollection(p)
  PROVE  Promises'
<1> DEFINE c == req[p].col
<1>1. /\ Rows /\ Looked(p) /\ FiledOrOverlap /\ ToldOnce /\ OnceOrOverlap /\ Step(p)
      /\ req[p].kind = "delete" /\ p \notin DOMAIN items
  BY DEF Promises, Rows, Step, DeleteCollection, At
<1>2. /\ req' = req /\ items' = items /\ alerts' = alerts /\ notes' = notes /\ raced \subseteq raced' /\ mem' = mem
      /\ knew' = knew \/ \E facts : Learn(p, facts)
      /\ \E label : Goto(p, label)
  BY DEF DeleteCollection, Answer, rows
<1>3. Frame(p)
  BY <1>1, <1>2, KnewOnly DEF Frame, Goto, IInv, Shape
<1>4. Heading(p)' /\ Running(p)' /\ ToldOnce' /\ OnceOrOverlap'
  BY <1>1, <1>2, <1>3, ToldStays DEF Heading, Running, Carrying, At
<1>5. CASE At(p, {"delete"}, "delete")
  <2>1. /\ cols' = [d \in DOMAIN cols \ {c} |-> cols[d]] /\ Goto(p, "done")
        /\ QuestionsIn(c) # {} \/ ChildrenOf(c) # {} => c \in raced'
    BY <1>1, <1>5 DEF DeleteCollection, At, Looked
  <2>2. FiledOrOverlap'
    <3>1. ASSUME NEW i \in DOMAIN items, items[i].type = "question" PROVE items[i].col \in DOMAIN cols' \cup raced'
      BY <1>1, <1>2, <2>1, <3>1 DEF FiledOrOverlap, QuestionsIn
    <3>2. ASSUME NEW d \in DOMAIN cols' PROVE cols'[d].parent \in DOMAIN cols' \cup raced' \cup {NoCol}
      BY <1>1, <1>2, <2>1, <3>2 DEF FiledOrOverlap, ChildrenOf
    <3> QED
      BY <1>2, <3>1, <3>2 DEF FiledOrOverlap
  <2>3. Rows'
    BY <1>1, <1>2, <1>3, <2>1 DEF Rows, Frame
  <2>4. Looked(p)'
    BY <1>1, <1>2, <2>1 DEF Looked, Goto, IInv, Shape
  <2> QED
    BY <1>1, <1>3, <1>4, <2>2, <2>3, <2>4, Together
<1>6. CASE ~At(p, {"delete"}, "delete")
  <2>1. cols' = cols
    BY <1>6 DEF DeleteCollection, Answer, rows
  <2>2. FiledOrOverlap' /\ Rows'
    BY <1>1, <1>2, <1>3, <2>1, FiledStays DEF Rows, Frame
  <2>3. /\ pc'[p] \in {"children", "delete"} => "no questions" \in knew'[p]
        /\ pc'[p] = "delete" => "no children" \in knew'[p]
    <3>1. CASE At(p, {"delete"}, "begin") \/ At(p, {"delete"}, "kind")
      BY <3>1 DEF DeleteCollection, At, Answer, Goto, IInv, Shape
    <3>2. CASE At(p, {"delete"}, "questions")
      <4>1. /\ Goto(p, IF InTheWay(c) = {} THEN "children" ELSE "refused")
            /\ Learn(p, IF QuestionsIn(c) = {} THEN {"no questions"} ELSE {})
        BY <3>2 DEF DeleteCollection, At
      <4>2. pc'[p] # "delete" /\ (pc'[p] = "children" => InTheWay(c) = {})
        BY <4>1 DEF Goto, IInv, Shape
      <4>3. InTheWay(c) = {} => QuestionsIn(c) = {}
        BY DEF InTheWay
      <4>4. QuestionsIn(c) = {} => "no questions" \in knew'[p]
        BY <1>1, <4>1 DEF Learn, Rows
      <4> QED
        BY <4>2, <4>3, <4>4
    <3>3. CASE At(p, {"delete"}, "children")
      <4>1. /\ "no questions" \in knew[p]
            /\ Goto(p, IF ChildrenOf(c) = {} THEN "delete" ELSE "refused")
            /\ Learn(p, IF ChildrenOf(c) = {} THEN {"no children"} ELSE {})
        BY <1>1, <3>3 DEF DeleteCollection, At, Looked
      <4>2. pc'[p] = "delete" => ChildrenOf(c) = {}
        BY <4>1 DEF Goto, IInv, Shape
      <4>3. knew[p] \subseteq knew'[p] /\ (ChildrenOf(c) = {} => "no children" \in knew'[p])
        BY <1>1, <4>1 DEF Learn, Rows
      <4> QED
        BY <4>1, <4>2, <4>3
    <3> QED
      BY <1>6, <3>1, <3>2, <3>3 DEF DeleteCollection
  <2>4. Looked(p)'
    BY <1>1, <1>2, <2>3 DEF Looked
  <2> QED
    BY <1>1, <1>3, <1>4, <2>2, <2>4, Together
<1> QED
  BY <1>5, <1>6

LEMMA StepFiles ==
  ASSUME IInv, Promises, NEW p \in Procs, Step(p)
  PROVE  Promises'
BY EnsureFiles, EnterFiles, CreateFiles, MoveFiles, OtherFiles, RunFiles, ChildFiles, RegroupFiles, DeleteFiles DEF Step

\* A new group has its process as its identifier.
LEMMA NewOwnGroup ==
  ASSUME IInv, Promises, NEW p \in Procs, Step(p)
  PROVE  OwnGroupOnce
<1> SUFFICES ASSUME NEW q \in DOMAIN cols' \ DOMAIN cols, req[q].kind \in {"create", "move"}
             PROVE  Own(req[q].user) = {} \/ req[q].user \in raced'
  BY DEF OwnGroupOnce
<1>1. ASSUME EnsurePersonalCollection(p) PROVE Own(req[q].user) = {} \/ req[q].user \in raced'
  <2>1. CASE At(p, {"create", "move"}, "own")
    BY <1>1, <2>1 DEF EnsurePersonalCollection, At, rows
  <2>2. CASE At(p, {"create", "move"}, "own group")
    <3>1. q = p /\ Overtaken(p, req[p].user, "no own group", Own(req[p].user) = {})
      BY <1>1, <2>2 DEF EnsurePersonalCollection, At, With
    <3>2. "no own group" \in knew[p]
      BY <2>2 DEF Promises, Heading, Carrying, At
    <3> QED
      BY <3>1, <3>2 DEF Overtaken
  <2> QED
    BY <1>1, <2>1, <2>2 DEF EnsurePersonalCollection
<1>2. ASSUME CreateCollection(p) PROVE FALSE
  BY <1>2 DEF CreateCollection, Answer, At, With, rows
<1>3. ASSUME UpdateCollection(p) \/ DeleteCollection(p) PROVE FALSE
  BY <1>3 DEF UpdateCollection, DeleteCollection, Answer, rows
<1>4. ASSUME Enter(p) \/ CreateItem(p) \/ MoveItem(p) \/ SetArchived(p) \/ PutCollectionShares(p) \/ RunAlert(p) \/ DeleteAlert(p)
      PROVE  FALSE
  BY <1>4 DEF Enter, CreateItem, MoveItem, SetArchived, PutCollectionShares, RunAlert, DeleteAlert, Answer, rows
<1> QED
  BY <1>1, <1>2, <1>3, <1>4 DEF Step

LEMMA MovesAllowed ==
  ASSUME IInv, Promises, NEW p \in Procs, Step(p)
  PROVE  MovedByEditor
<1> SUFFICES ASSUME NEW i \in DOMAIN items, items'[i].col # items[i].col
             PROVE  i \in raced' \/ \E q \in Procs : pc'[q] # pc[q] /\ req[q].kind = "move" /\ {"leave", "enter"} \subseteq knew[q]
  BY DEF MovedByEditor
<1>1. Rows /\ Heading(p)
  BY DEF Promises
<1>2. CASE MoveItem(p)
  <2>1. At(p, {"move"}, "store") /\ items' = [items EXCEPT ![req[p].item].col = mem[p].col] /\ Goto(p, "done")
        /\ raced' = raced \cup (IF "target" \in knew[p] /\ mem[p].col \notin DOMAIN cols THEN {mem[p].col} ELSE {})
                          \cup (IF "leave" \in knew[p] /\ items[req[p].item].col # mem[p].from THEN {req[p].item} ELSE {})
    BY <1>2 DEF MoveItem, At, rows
  <2>2. i = req[p].item /\ items'[i].col = mem[p].col
    BY <1>1, <2>1 DEF Rows
  <2>3. pc'[p] # pc[p]
    BY <2>1 DEF At, Goto, IInv, Shape
  <2>4. "leave" \in knew[p] /\ (mem[p].col = mem[p].from \/ "enter" \in knew[p]) /\ req[p].kind = "move"
    BY <1>1, <2>1 DEF Heading, At
  <2> QED
    BY <2>1, <2>2, <2>3, <2>4
<1>3. CASE CreateItem(p)
  <2>1. p \notin DOMAIN items
    BY <1>1, <1>3 DEF CreateItem, At, Rows
  <2> QED
    BY <1>3, <2>1 DEF CreateItem, With, rows
<1>4. CASE SetArchived(p)
  <2>1. items' = items \/ \E b : items' = [items EXCEPT ![req[p].item].archived = b]
    BY <1>4 DEF SetArchived, Answer, rows
  <2>2. {"type", "col", "archived"} \subseteq DOMAIN items[i]
    BY <1>1 DEF Rows
  <2>3. ASSUME NEW b, items' = [items EXCEPT ![req[p].item].archived = b] PROVE items'[i].col = items[i].col
    BY <2>2, <2>3
  <2> QED
    BY <2>1, <2>3
<1>5. ASSUME EnsurePersonalCollection(p) \/ Enter(p) \/ CreateCollection(p) \/ UpdateCollection(p) \/ DeleteCollection(p)
             \/ PutCollectionShares(p) \/ RunAlert(p) \/ DeleteAlert(p)
      PROVE  items' = items
  BY <1>5 DEF EnsurePersonalCollection, Enter, CreateCollection, UpdateCollection, DeleteCollection,
              PutCollectionShares, RunAlert, DeleteAlert, Answer, rows
<1> QED
  BY <1>2, <1>3, <1>4, <1>5 DEF Step

----------------------------------------------------------------------------
LEMMA Inductive == Plausible /\ Spec => [](IInv /\ Promises)
<1>1. Plausible /\ Init => IInv /\ Promises
  <2> SUFFICES ASSUME Plausible, Init PROVE IInv /\ Promises
    OBVIOUS
  <2>1. PICK s \in Starts : cols = s.cols /\ items = s.items /\ alerts = s.alerts
    BY DEF Init
  <2>2. (\A c \in DOMAIN cols : Columns(cols[c]) /\ Kinds(cols[c])) /\ Tree(cols) /\ DOMAIN cols \cap Procs = {}
    BY <2>1 DEF Plausible
  <2>3. Shape
    BY <2>2 DEF Shape, Init, Plausible
  <2>4. ASSUME NEW p \in Procs PROVE Sound(p)
    BY <2>2 DEF Init, Sound, At
  <2>5. /\ NoCol \notin DOMAIN cols \cup Procs
        /\ \A i \in DOMAIN items : {"type", "col", "archived"} \subseteq DOMAIN items[i]
        /\ \A a \in DOMAIN alerts : {"once", "enabled"} \subseteq DOMAIN alerts[a]
        /\ DOMAIN alerts \subseteq Alerts /\ DOMAIN items \cap Procs = {}
    BY <2>1 DEF Plausible
  <2>6. \A p \in Procs : req[p].kind \in {"move", "archive", "restore"} => req[p].item \in DOMAIN items
    BY <2>1 DEF Plausible, Init
  <2>7. Rows
    BY <2>5, <2>6 DEF Rows, Init
  <2>8. ASSUME NEW p \in Procs PROVE Heading(p) /\ Looked(p) /\ Running(p)
    BY DEF Init, Heading, Looked, Running
  <2>9. FiledOrOverlap
    BY <2>1 DEF FiledOrOverlap, Plausible
  <2>10. ToldOnce /\ OnceOrOverlap
    BY <2>5 DEF Init, ToldOnce, OnceOrOverlap
  <2> QED
    BY <2>2, <2>3, <2>4, <2>7, <2>8, <2>9, <2>10 DEF IInv, Promises
<1>2. IInv /\ Promises /\ [Next]_vars => (IInv /\ Promises)'
  <2> SUFFICES ASSUME IInv, Promises, [Next]_vars PROVE IInv' /\ Promises'
    OBVIOUS
  <2>1. ASSUME NEW p \in Procs, Step(p) PROVE IInv' /\ Promises'
    BY <2>1, EnsureKeeps, ItemKeeps, ChildKeeps, RegroupKeeps, DeleteKeeps, StepFiles DEF Step
  <2>2. CASE UNCHANGED vars
    <3>1. /\ cols' = cols /\ req' = req /\ pc' = pc /\ mem' = mem
          /\ items' = items /\ alerts' = alerts /\ notes' = notes /\ knew' = knew /\ raced' = raced
      BY <2>2 DEF vars, rows
    <3>2. Shape'
      BY <3>1 DEF IInv, Shape
    <3>3. ASSUME NEW p \in Procs PROVE Sound(p)'
      BY <3>1 DEF IInv, Sound, At, Unborn, Known, PersonalOf, Kinds
    <3>4. ASSUME NEW p \in Procs PROVE Heading(p)' /\ Looked(p)' /\ Running(p)'
      BY <3>1 DEF Promises, Heading, Looked, Running, Carrying, IsQuestion, PersonalOf
    <3>5. Rows' /\ FiledOrOverlap' /\ ToldOnce' /\ OnceOrOverlap'
      BY <3>1 DEF Promises, Rows, FiledOrOverlap, ToldOnce, OnceOrOverlap, At
    <3> QED
      BY <3>1, <3>2, <3>3, <3>4, <3>5 DEF IInv, Promises
  <2> QED
    BY <2>1, <2>2 DEF Next
<1> QED
  BY <1>1, <1>2, PTL DEF Spec

(* A group inside a personal group belongs to the same member, and the     *)
(* group it is in exists, whatever requests overlap: a personal group is   *)
(* neither moved nor deleted, and one created in it has been told whose it *)
(* is (service.go:130-196).                                                *)
THEOREM PersonalGroupsStay == Plausible /\ Spec => []PersonalTree
<1>1. IInv => PersonalTree
  BY DEF IInv, Tree, PersonalOf, PersonalTree
<1> QED
  BY <1>1, Inductive, PTL

(* Every analysis is in a group that exists, and so is every group, unless *)
(* a deletion and an arrival overlapped: whoever enters has seen the group,*)
(* whoever deletes has seen it empty (service.go:118-196).                 *)
THEOREM NothingIsLeftBehind == Plausible /\ Spec => []FiledOrOverlap
<1>1. Promises => FiledOrOverlap
  BY DEF Promises
<1> QED
  BY <1>1, Inductive, PTL

(* A fire-once alert fires once, unless runs overlapped or disabling it    *)
(* failed: once told of, it is disabled or about to be (alert.go:20-55).   *)
THEOREM OnceIsOnce == Plausible /\ Spec => []OnceOrOverlap
<1>1. Promises => OnceOrOverlap
  BY DEF Promises
<1> QED
  BY <1>1, Inductive, PTL

(* A request that needs the member's own group makes one only where there  *)
(* is none, unless two do so together (service.go:27-43).                  *)
THEOREM OneOwnGroup == Plausible /\ Spec => OneOwnGroupOrOverlap
<1>1. IInv /\ Promises /\ [Next]_vars => [OwnGroupOnce]_vars
  BY NewOwnGroup DEF Next
<1> QED
  BY <1>1, Inductive, PTL DEF Spec, OneOwnGroupOrOverlap

(* Who moves an analysis or dashboard may edit the group it leaves and the *)
(* one it enters, unless it has moved meanwhile: a share of a personal     *)
(* group is not enough (content_access.go:33).                             *)
THEOREM EditorsMove == Plausible /\ Spec => MovedByEditorOrOverlap
<1>1. IInv /\ Promises /\ [Next]_vars => [MovedByEditor]_vars
  BY MovesAllowed DEF Next
<1> QED
  BY <1>1, Inductive, PTL DEF Spec, MovedByEditorOrOverlap

----------------------------------------------------------------------------
(* Accounts: what a request has passed it has met.  The labels of what     *)
(* follows the checks:                                                     *)
Past == {"act", "again", "insert", "drop", "prove", "look", "store", "ok"}

\* A key is let through for reading, and for writing where that was on.
LetThrough(p) == req[p].kind = "read" \/ (req[p].kind = "write" /\ "write" \in met[p])

\* The credential, step by step; the developer settings and the member for a key.
Checked(p) ==
  /\ (pc[p] = "session" => ~AC!ByKey(p)) /\ (pc[p] \in {"settings", "key", "allowed"} => AC!ByKey(p))
  /\ pc[p] \in {"owner", "allowed"} \cup Past => "holds" \in met[p]
  /\ AC!ByKey(p) =>
       /\ pc[p] \in {"key", "owner", "allowed"} \cup Past => "enabled" \in met[p]
       /\ pc[p] \in {"allowed"} \cup Past => "active" \in met[p]
       /\ pc[p] \in Past \/ (pc[p] \in {"settings", "key", "owner"} /\ mem[p].left # 2) => LetThrough(p)

\* What is asked of a change, step by step.
Asked(p) ==
  /\ pc[p] \in {"again", "insert"} => req[p].kind = "createKey"
  /\ pc[p] = "drop" => req[p].kind = "dropKey"
  /\ pc[p] \in {"prove", "look", "store"} => {mem[p].user.email, mem[p].user.password} \subseteq met[p]
  /\ req[p].kind = "password" /\ pc[p] \in {"store", "ok"} => req[p].current \in met[p]
  /\ req[p].kind = "profile" /\ pc[p] \in {"look", "store", "ok"} =>
       req[p].email \in met[p] \/ req[p].current \in met[p]
  /\ req[p].kind = "createKey" /\ pc[p] \in {"again", "insert", "ok"} =>
       "enabled" \in met[p] /\ (req[p].admin \/ "personal" \in met[p])
  /\ pc[p] = "insert" => mem[p].dev.ttl \in Nat /\ (mem[p].dev.ttl = 0 => "endless" \in met[p])
  /\ req[p].kind = "createKey" /\ pc[p] = "ok" =>
       (keys[p] # Gone /\ keys[p].expires = 0 => "endless" \in met[p])

\* A record of what a request has read.
Remembers(m) == m = [left |-> m.left, dev |-> m.dev, user |-> m.user]

AccountsShape ==
  /\ DOMAIN pc = Procs /\ DOMAIN mem = Procs /\ Procs \subseteq DOMAIN keys
  /\ req \in [Procs -> AccountAsks]
  /\ \A p \in Procs : Remembers(mem[p])
  /\ now \in Nat /\ dev.ttl \in Nat

LEMMA FactsTold ==
  ASSUME NEW p \in Procs
  PROVE  /\ AC!ByKey(p) /\ AC!KeyHolds(req[p].by) => "holds" \in AC!Facts(p)
         /\ ~AC!ByKey(p) /\ AC!SessionHolds(req[p].by) => "holds" \in AC!Facts(p)
         /\ users[AC!User(p)].active => "active" \in AC!Facts(p)
         /\ dev.enabled => "enabled" \in AC!Facts(p)
         /\ dev.personal => "personal" \in AC!Facts(p)
         /\ dev.write => "write" \in AC!Facts(p)
         /\ dev.ttl = 0 => "endless" \in AC!Facts(p)
         /\ users[AC!User(p)].email \in AC!Facts(p) /\ users[AC!User(p)].password \in AC!Facts(p)
BY DEF AC!Facts

(* A step of one request leaves the others where they are, and their keys. *)
Spared(q) == pc'[q] = pc[q] /\ mem'[q] = mem[q] /\ keys'[q] \in {keys[q], Gone}

AccountsKept(p) ==
  /\ req' = req /\ DOMAIN keys' = DOMAIN keys /\ AccountsShape'
  /\ \A q \in Procs \ {p} : Spared(q)

ActOf(p) ==
  \/ AC!Begin(p) \/ AC!UserForSession(p) \/ AC!UserForAPIKey(p) \/ AC!Owner(p) \/ AC!DeveloperRequestAllowed(p)
  \/ AC!Read(p) \/ AC!Logout(p) \/ AC!Administer(p) \/ AC!CreateAPIKey(p) \/ AC!DeleteAPIKey(p)
  \/ AC!ReadAccount(p) \/ AC!ChangePassword(p) \/ AC!UpdateProfile(p)

LEMMA AccountsAreKept ==
  ASSUME AccountsShape, NEW p \in Procs, ActOf(p)
  PROVE  AccountsKept(p)
<1> USE DEF AccountsKept, Spared, AccountsShape, Remembers, AC!rows, AC!Goto, AC!Step, AC!Done
<1>1. CASE AC!Begin(p)
  BY <1>1 DEF AC!Begin
<1>2. CASE AC!UserForSession(p)
  BY <1>2 DEF AC!UserForSession
<1>3. CASE AC!UserForAPIKey(p) \/ AC!DeveloperRequestAllowed(p)
  BY <1>3 DEF AC!UserForAPIKey, AC!DeveloperRequestAllowed
<1>4. CASE AC!Owner(p)
  BY <1>4 DEF AC!Owner
<1>5. CASE AC!Read(p) \/ AC!Logout(p)
  BY <1>5 DEF AC!Read, AC!Logout
<1>6. CASE AC!Administer(p)
  BY <1>6, PlausibleCases DEF AC!Administer, AC!Plausible
<1>7. CASE AC!CreateAPIKey(p)
  BY <1>7 DEF AC!CreateAPIKey
<1>8. CASE AC!DeleteAPIKey(p)
  BY <1>8 DEF AC!DeleteAPIKey
<1>9. CASE AC!ReadAccount(p)
  BY <1>9 DEF AC!ReadAccount
<1>10. CASE AC!ChangePassword(p) \/ AC!UpdateProfile(p)
  BY <1>10 DEF AC!ChangePassword, AC!UpdateProfile
<1> QED
  BY <1>1, <1>2, <1>3, <1>4, <1>5, <1>6, <1>7, <1>8, <1>9, <1>10 DEF ActOf

Accounted(p) == Asked(p) /\ (req[p].kind # "logout" => Checked(p))

\* Whoever is spared forgets nothing either.
LEMMA SparedAccounts ==
  ASSUME AC!Next, req' = req, DOMAIN keys' = DOMAIN keys, NEW p \in Procs, Spared(p), Accounted(p)
  PROVE  Accounted(p)'
<1>1. met[p] \subseteq met'[p]
  BY DEF AC!Next, Spared
<1>2. AC!ByKey(p)' <=> AC!ByKey(p)
  BY DEF AC!ByKey
<1>3. Asked(p)'
  BY <1>1 DEF Asked, Accounted, Spared
<1>4. ASSUME req[p].kind # "logout"  PROVE Checked(p)'
  BY <1>1, <1>2, <1>4 DEF Checked, LetThrough, Accounted, Spared, Past
<1> QED
  BY <1>3, <1>4 DEF Accounted

\* What the one that steps learns.
LEMMA Learns ==
  ASSUME AC!Next, AccountsShape, NEW p \in Procs, ActOf(p), pc[p] # "begin"
  PROVE  met'[p] = met[p] \cup AC!Facts(p)
<1>1. AC!Under(p)
  BY DEF ActOf, AC!Under, AC!Begin, AC!UserForSession, AC!UserForAPIKey, AC!Owner, AC!DeveloperRequestAllowed,
         AC!Read, AC!Logout, AC!Administer, AC!CreateAPIKey, AC!DeleteAPIKey, AC!ReadAccount, AC!ChangePassword,
         AC!UpdateProfile, AC!At
<1> QED
  BY <1>1 DEF AC!Next

LEMMA ActorAccounts ==
  ASSUME AC!Next, AccountsShape, NEW p \in Procs, ActOf(p), AccountsKept(p), Accounted(p)
  PROVE  Accounted(p)'
<1> USE DEF AC!Goto, AC!Step, AC!Done, AC!rows, Past
<1>1. req' = req /\ (AC!ByKey(p)' <=> AC!ByKey(p)) /\ AccountsShape'
  BY DEF AccountsKept, AC!ByKey
<1>2. CASE AC!Begin(p)
  BY <1>1, <1>2 DEF AC!Begin, AC!Look, AC!Checks, Accounted, Asked, Checked, LetThrough, AccountsShape, Remembers
<1>3. ASSUME pc[p] # "begin"  PROVE met'[p] = met[p] \cup AC!Facts(p)
  BY <1>3, Learns
<1>4. CASE AC!UserForSession(p)
  BY <1>1, <1>3, <1>4, FactsTold DEF AC!UserForSession, Accounted, Asked, Checked, LetThrough, AccountsShape
<1>5. CASE AC!UserForAPIKey(p)
  <2>1. CASE pc[p] = "settings" /\ AC!Step(p, IF dev.enabled THEN "key" ELSE "error")
    BY <1>1, <1>3, <2>1, FactsTold DEF Accounted, Asked, Checked, LetThrough, AccountsShape
  <2>2. CASE pc[p] = "key" /\ AC!Step(p, IF AC!KeyHolds(req[p].by) THEN "owner" ELSE "error")
    BY <1>1, <1>3, <2>2, FactsTold DEF Accounted, Asked, Checked, LetThrough, AccountsShape
  <2> QED
    BY <1>5, <2>1, <2>2 DEF AC!UserForAPIKey
<1>6. CASE AC!Owner(p)
  BY <1>1, <1>3, <1>6, FactsTold DEF AC!Owner, AC!Opens, Accounted, Asked, Checked, LetThrough, AccountsShape, Remembers
<1>7. CASE AC!DeveloperRequestAllowed(p)
  BY <1>1, <1>3, <1>7, FactsTold
     DEF AC!DeveloperRequestAllowed, AC!Allowed, Accounted, Asked, Checked, LetThrough, AccountsShape
<1>8. CASE AC!Read(p) \/ AC!Logout(p) \/ AC!Administer(p)
  BY <1>1, <1>3, <1>8 DEF AC!Read, AC!Logout, AC!Administer, AC!At, Accounted, Asked, Checked, LetThrough, AccountsShape
<1>9. CASE AC!CreateAPIKey(p)
  BY <1>1, <1>3, <1>9, FactsTold
     DEF AC!CreateAPIKey, AC!ExpiresAt, AC!At, Accounted, Asked, Checked, LetThrough, AccountsShape, Remembers
<1>10. CASE AC!DeleteAPIKey(p)
  BY <1>1, <1>3, <1>10, FactsTold DEF AC!DeleteAPIKey, AC!At, Accounted, Asked, Checked, LetThrough, AccountsShape
<1>11. CASE AC!ReadAccount(p)
  BY <1>1, <1>3, <1>11, FactsTold
     DEF AC!ReadAccount, AC!At, Accounted, Asked, Checked, LetThrough, AccountsShape, Remembers
<1>12. CASE AC!ChangePassword(p)
  BY <1>1, <1>3, <1>12, FactsTold
     DEF AC!ChangePassword, AC!Proves, AC!At, Accounted, Asked, Checked, LetThrough, AccountsShape
<1>13. CASE AC!UpdateProfile(p)
  BY <1>1, <1>3, <1>13, FactsTold
     DEF AC!UpdateProfile, AC!MayTakeAddress, AC!Proves, AC!At, Accounted, Asked, Checked, LetThrough, AccountsShape
<1> QED
  BY <1>2, <1>4, <1>5, <1>6, <1>7, <1>8, <1>9, <1>10, <1>11, <1>12, <1>13 DEF ActOf

AccountsInv == AccountsShape /\ \A p \in Procs : Accounted(p)

LEMMA AccountsInductive == AC!Spec => []AccountsInv
<1>1. AC!Init => AccountsInv
  <2> SUFFICES ASSUME AC!Init  PROVE AccountsInv
    OBVIOUS
  <2>1. AccountsShape
    BY PlausibleCases DEF AC!Init, AC!Plausible, AccountsShape, Remembers
  <2>2. \A p \in Procs : Accounted(p)
    BY DEF AC!Init, Accounted, Asked, Checked, Past
  <2> QED
    BY <2>1, <2>2 DEF AccountsInv
<1>2. AccountsInv /\ [AC!Next]_(AC!vars) => AccountsInv'
  <2> SUFFICES ASSUME AccountsInv, [AC!Next]_(AC!vars)  PROVE AccountsInv'
    OBVIOUS
  <2>1. CASE UNCHANGED AC!vars
    BY <2>1 DEF AC!vars, AccountsInv, AccountsShape, Remembers, Accounted, Asked, Checked, LetThrough, AC!ByKey
  <2>2. ASSUME AC!Next, NEW p \in Procs, ActOf(p)  PROVE AccountsInv'
    <3>1. AccountsKept(p)
      BY <2>2, AccountsAreKept DEF AccountsInv
    <3>2. Accounted(p)'
      BY <2>2, <3>1, ActorAccounts DEF AccountsInv
    <3>3. \A q \in Procs \ {p} : Accounted(q)'
      BY <2>2, <3>1, SparedAccounts DEF AccountsInv, AccountsKept
    <3> QED
      BY <3>1, <3>2, <3>3 DEF AccountsInv, AccountsKept
  <2>3. CASE AC!Next /\ AC!Tick
    <3>1. req' = req /\ DOMAIN keys' = DOMAIN keys /\ AccountsShape' /\ \A p \in Procs : Spared(p)
      BY <2>3 DEF AC!Tick, AC!rows, AccountsInv, AccountsShape, Remembers, Spared
    <3>2. \A p \in Procs : Accounted(p)'
      BY <2>3, <3>1, SparedAccounts DEF AccountsInv
    <3> QED
      BY <3>1, <3>2 DEF AccountsInv
  <2> QED
    BY <2>1, <2>2, <2>3 DEF AC!Next, AC!Act, ActOf
<1> QED
  BY <1>1, <1>2, PTL DEF AC!Spec

LEMMA AccountsPromise ==
  AccountsInv => AC!AdmittedOnSomeMoment /\ AC!ChangedAsAllowedOnSomeMoment
BY DEF AccountsInv, Accounted, Asked, Checked, LetThrough, Past, AC!AdmittedOnSomeMoment, AC!ChangedAsAllowedOnSomeMoment

----------------------------------------------------------------------------
(* The catalog.  Who works on a source works alone unless marked, the      *)
(* rows are then where its last statement left them, and what is not dirty *)
(* is whole when nobody works on it or a start is about to complete it.    *)
Working(p) == pc[p] \notin CA!Ended
WorksOn(p, d) == Working(p) /\ CA!Source(p) = d
Alone(p) == Working(p) /\ ~raced[p]
Stores(p) == req[p].kind \in {"add", "update"}
Removes(p) == req[p].kind = "remove"

\* The settings a request was made with, until they are saved.
Brings(p) ==
  Stores(p) /\ pc[p] \in {"find", "merge", "connect", "save", "secret"} => mem[p].host = req[p].settings.host

\* Rivals are marked, and so are their sources; nobody works at a node that
\* starts, nor alone on a source it may import.
Marked(p) ==
  /\ \A q \in Procs : p # q /\ Working(p) /\ Working(q) /\ CA!Source(p) = CA!Source(q) => raced[p]
  /\ Working(p) /\ raced[p] => CA!Source(p) \in dirty
  /\ pc[p] = "begin" => ~raced[p]
  /\ Working(p) => boot[CA!Node(p)] = "up"
  /\ \A n \in Nodes : Working(p) /\ boot[n] # "up" /\ CA!Source(p) \in Legacy[n] => raced[p]

\* Where a request that is alone has got to with its source d at its node n.
StoresOn(p, d, n) ==
  /\ pc[p] \notin {"reopen", "reconnect"}
  /\ pc[p] \in {"save", "secret"} => mem[p] # Gone /\ pools[n][d] = mem[p]
  /\ pc[p] = "secret" => listed[d] = mem[p].host
  /\ pc[p] \in {"ensure", "tables", "snapshot"} =>
       /\ secrets[d] # Gone /\ listed[d] # Gone /\ listed[d] = secrets[d].host
       /\ pools[n][d] = secrets[d] /\ changer[d] = n
  /\ pc[p] = "snapshot" => mem[p] = secrets[d]

RemovesOn(p, d, n) ==
  /\ pc[p] \in {"unsecret", "unsnap", "unlist"} => pools[n][d] = Gone
  /\ pc[p] \in {"unsnap", "unlist"} => secrets[d] = Gone /\ changer[d] = n
  /\ pc[p] = "unlist" => snapshots[d] = Gone

OnItsWay(p) ==
  Alone(p) =>
    /\ Stores(p) => StoresOn(p, CA!Source(p), CA!Node(p))
    /\ Removes(p) => RemovesOn(p, CA!Source(p), CA!Node(p))
    /\ pc[p] = "reconnect" => mem[p] = secrets[CA!Source(p)]

\* Its source is still as it found it.
Intact(p) ==
  /\ Stores(p) => pc[p] \in {"find", "merge", "connect", "save"}
  /\ Removes(p) => pc[p] \in {"close", "unsecret"}

AddsClean(p, d) ==
  /\ pc[p] \in {"secret", "undo"} => secrets[d] = Gone
  /\ pc[p] \in {"secret", "undo", "ensure", "tables", "snapshot"} => snapshots[d] = Gone

FoundClean(p) ==
  Working(p) /\ CA!Source(p) \notin dirty =>
    /\ Intact(p) => CA!Whole(CA!Source(p))
    /\ req[p].kind = "add" => AddsClean(p, CA!Source(p))
    /\ req[p].kind = "sync" /\ pc[p] = "snapshot" =>
         mem[p] # Gone /\ (mem[p] = secrets[CA!Source(p)] \/ changer[CA!Source(p)] \notin {Gone, CA!Node(p)})

\* What is to be added is not listed before, and not updated.
Unlisted(p) ==
  req[p].kind = "add" /\ pc[p] \in {"begin", "connect", "save"} =>
    /\ listed[p] = Gone
    /\ \A q \in Procs : req[q].kind = "update" /\ WorksOn(q, p) => pc[q] = "find"

\* Imported, with its settings still to come.
HalfImported(d) ==
  /\ listed[d] = CA!Filed.host /\ secrets[d] = Gone /\ snapshots[d] = Gone
  /\ \E n \in Nodes : d \in Legacy[n] /\ (boot[n] \in {"list", "catalog", "notes"} \/ (boot[n] = "secrets" /\ d \in todo[n]))

LeftWhole(d) == (\A p \in Procs : ~WorksOn(p, d)) => CA!Whole(d) \/ HalfImported(d)

\* A connection shows the settings saved, unless they are on their way or
\* were saved at another node.
Underway(n, d) ==
  \E p \in Procs : WorksOn(p, d) /\ CA!Node(p) = n /\ Stores(p) /\ pc[p] \in {"save", "secret", "undo"}

Connected(n, d) ==
  pools[n][d] # Gone => pools[n][d] = secrets[d] \/ changer[d] \notin {Gone, n} \/ Underway(n, d)

\* So will the connections that a start restores.
WillConnect(n, d) ==
  boot[n] = "restore" /\ d \in todo[n] /\ seen[n][d] # Gone => seen[n][d] = secrets[d] \/ changer[d] \notin {Gone, n}

\* What a start imports is as the files have it, or not there.
AsFiled(d) ==
  /\ listed[d] \in {Gone, CA!Filed.host} /\ snapshots[d] \in {Gone, CA!Filed.host}
  /\ secrets[d] \in {Gone, CA!Filed}

WillImport(n, d) == (boot[n] = "catalog" /\ d \in todo[n]) \/ at[n] = d => AsFiled(d)

CleanSource(d) ==
  d \notin dirty =>
    /\ LeftWhole(d)
    /\ \A n \in Nodes : Connected(n, d) /\ WillConnect(n, d) /\ WillImport(n, d)

Booting(n) ==
  /\ boot[n] \in {"up", "list"} => todo[n] = {}
  /\ boot[n] \in {"catalog", "notes", "secrets"} => todo[n] \subseteq Legacy[n]
  /\ at[n] # Gone =>
       /\ boot[n] = "secrets" /\ at[n] \in todo[n]
       /\ secrets[at[n]] = Gone \/ at[n] \in filled[n]

CatalogShape ==
  /\ req \in [Procs -> CatalogAsks]
  /\ DOMAIN pc = Procs /\ DOMAIN mem = Procs /\ DOMAIN raced = Procs
  /\ DOMAIN listed = CA!Ids /\ DOMAIN secrets = CA!Ids /\ DOMAIN snapshots = CA!Ids /\ DOMAIN changer = CA!Ids
  /\ DOMAIN pools = Nodes /\ \A n \in Nodes : DOMAIN pools[n] = CA!Ids
  /\ DOMAIN boot = Nodes /\ DOMAIN todo = Nodes /\ DOMAIN at = Nodes /\ DOMAIN seen = Nodes /\ DOMAIN filled = Nodes

CatalogInv ==
  /\ CatalogShape
  /\ \A p \in Procs : Brings(p) /\ Marked(p) /\ OnItsWay(p) /\ FoundClean(p) /\ Unlisted(p)
  /\ \A d \in CA!Ids : CleanSource(d)
  /\ \A n \in Nodes : Booting(n)

----------------------------------------------------------------------------
LEMMA AskedOf ==
  ASSUME CatalogShape, NEW p \in Procs
  PROVE  /\ CA!Source(p) \in CA!Ids /\ CA!Node(p) \in Nodes /\ p \in CA!Ids /\ CA!Node(p) # Gone
         /\ req[p].kind = "add" => CA!Source(p) = p
         /\ Stores(p) => req[p].settings.host # Gone
         /\ CA!Source(p) = (IF req[p].kind \in {"add", "test"} /\ req[p].id = Gone THEN p ELSE req[p].id)
         /\ CA!Node(p) = req[p].node
         /\ req[p].kind \in {"add", "update", "remove", "test", "sync", "query", "annotate"}
BY PlausibleCases DEF CA!Plausible, CatalogShape, CA!Source, CA!Node, CA!Ids, Stores

(* A step of a request, which only concerns its source and its node.       *)
CatalogAside(p) ==
  LET d == CA!Source(p)  n == CA!Node(p)
  IN /\ CatalogShape'
     /\ req' = req /\ boot' = boot /\ todo' = todo /\ at' = at /\ seen' = seen
     /\ \A q \in Procs \ {p} : pc'[q] = pc[q] /\ mem'[q] = mem[q] /\ raced'[q] = raced[q]
     /\ \A e \in CA!Ids \ {d} :
          /\ listed'[e] = listed[e] /\ secrets'[e] = secrets[e] /\ snapshots'[e] = snapshots[e]
          /\ changer'[e] = changer[e] /\ (e \in dirty' <=> e \in dirty)
     /\ \A m \in Nodes, e \in CA!Ids : m # n \/ e # d => pools'[m][e] = pools[m][e]
     /\ \A m \in Nodes : filled[m] \subseteq filled'[m]

(* It marks what it must, and it alone may make the source clean, with its *)
(* own change.                                                             *)
CatalogMarks(p) ==
  LET d == CA!Source(p)
  IN /\ raced[p] => raced'[p]
     /\ raced'[p] => raced[p] \/ d \in dirty'
     /\ d \in dirty /\ d \notin dirty' => ~raced[p]
     /\ d \notin dirty' => \/ d \notin dirty /\ secrets'[d] = secrets[d] /\ changer'[d] = changer[d]
                           \/ changer'[d] = CA!Node(p)
     /\ secrets'[d] \in {secrets[d], Gone} \/ \A m \in Nodes : d \in filled'[m]
     /\ pc'[p] # "begin"

\* Requests on the same source are not alone.
LEMMA Rivals ==
  ASSUME CatalogInv, NEW p \in Procs, NEW q \in Procs, p # q,
         Working(p), Working(q), CA!Source(p) = CA!Source(q)
  PROVE  raced[p] /\ raced[q] /\ CA!Source(p) \in dirty
BY DEF CatalogInv, Marked

LEMMA NoStartMeets ==
  ASSUME CatalogInv, NEW p \in Procs, Working(p), ~raced[p], NEW n \in Nodes
  PROVE  /\ boot[n] \in {"list", "catalog", "notes", "secrets"} => CA!Source(p) \notin todo[n] /\ at[n] # CA!Source(p)
         /\ boot[n] # "up" => CA!Source(p) \notin Legacy[n]
<1>1. CA!Source(p) \in CA!Ids
  BY AskedOf DEF CatalogInv
<1> QED
  BY <1>1, PlausibleCases DEF CatalogInv, Marked, Booting, CA!Plausible

LEMMA OthersInCatalog ==
  ASSUME CatalogInv, NEW p \in Procs, Working(p), CatalogAside(p), CatalogMarks(p), NEW q \in Procs, q # p
  PROVE  Brings(q)' /\ OnItsWay(q)' /\ FoundClean(q)'
<1> DEFINE d == CA!Source(q)
<1>1. d \in CA!Ids /\ CA!Source(p) \in CA!Ids /\ CA!Node(q) \in Nodes
  BY AskedOf DEF CatalogInv
<1>2. pc'[q] = pc[q] /\ mem'[q] = mem[q] /\ req' = req /\ raced'[q] = raced[q] /\ boot' = boot
  BY DEF CatalogAside
<1>3. CASE ~Working(q)
  BY <1>2, <1>3 DEF Brings, OnItsWay, FoundClean, Alone, Working, CatalogInv, Stores
<1>4. CASE Working(q) /\ d = CA!Source(p)
  BY <1>2, <1>4, Rivals DEF Brings, OnItsWay, FoundClean, Alone, Working, CatalogInv, Stores, CatalogMarks, CA!Source, CA!Node
<1>5. CASE Working(q) /\ d # CA!Source(p)
  <2>1. /\ listed'[d] = listed[d] /\ secrets'[d] = secrets[d] /\ snapshots'[d] = snapshots[d]
        /\ changer'[d] = changer[d] /\ (d \in dirty' <=> d \in dirty)
        /\ pools'[CA!Node(q)][d] = pools[CA!Node(q)][d]
    BY <1>1, <1>5 DEF CatalogAside
  <2>2. CA!Source(q)' = CA!Source(q) /\ CA!Node(q)' = CA!Node(q)
    BY <1>2 DEF CA!Source, CA!Node
  <2>3. Brings(q)'
    BY <1>2 DEF Brings, CatalogInv, Stores
  <2>4. OnItsWay(q)'
    BY <1>2, <2>1, <2>2 DEF OnItsWay, CatalogInv, Alone, Working, Stores, Removes, StoresOn, RemovesOn
  <2>5. FoundClean(q)'
    BY <1>2, <2>1, <2>2 DEF FoundClean, CatalogInv, Working, Stores, Removes, Intact, AddsClean, CA!Whole
  <2> QED
    BY <2>3, <2>4, <2>5
<1> QED
  BY <1>3, <1>4, <1>5

LEMMA MarksStay ==
  ASSUME CatalogInv, NEW p \in Procs, Working(p), CatalogAside(p), CatalogMarks(p), NEW q \in Procs
  PROVE  Marked(q)'
<1>1. \A r \in Procs : /\ (Working(r)' => Working(r)) /\ CA!Source(r)' = CA!Source(r) /\ CA!Node(r)' = CA!Node(r)
                       /\ raced[r] => raced'[r]
  BY DEF CatalogAside, CatalogMarks, Working, CA!Source, CA!Node
<1>2. boot' = boot
  BY DEF CatalogAside
<1>3. CASE q = p
  BY <1>1, <1>2, <1>3 DEF Marked, CatalogInv, CatalogMarks
<1>4. CASE q # p
  <2>1. raced'[q] = raced[q] /\ pc'[q] = pc[q]
    BY <1>4 DEF CatalogAside
  <2>2. Working(q) /\ raced[q] => CA!Source(q) \in dirty'
    <3>1. CASE CA!Source(q) = CA!Source(p)
      BY <1>4, <3>1, Rivals DEF CatalogMarks, CatalogInv, Marked
    <3>2. CASE CA!Source(q) # CA!Source(p)
      BY <3>2, AskedOf DEF CatalogAside, CatalogInv, Marked
    <3> QED
      BY <3>1, <3>2
  <2> QED
    BY <1>1, <1>2, <2>1, <2>2 DEF Marked, CatalogInv
<1> QED
  BY <1>3, <1>4

LEMMA BootsStay ==
  ASSUME CatalogInv, NEW p \in Procs, Working(p), CatalogAside(p), CatalogMarks(p), NEW n \in Nodes
  PROVE  Booting(n)'
<1>1. boot' = boot /\ todo' = todo /\ at' = at /\ filled[n] \subseteq filled'[n]
  BY DEF CatalogAside
<1>2. ASSUME at[n] # Gone  PROVE secrets'[at[n]] = Gone \/ at[n] \in filled'[n]
  <2>1. at[n] \in CA!Ids
    BY <1>2, PlausibleCases DEF CatalogInv, Booting, CA!Plausible, CA!Ids
  <2>2. secrets[at[n]] = Gone \/ at[n] \in filled[n]
    BY <1>2 DEF CatalogInv, Booting
  <2>3. CASE at[n] = CA!Source(p)
    BY <1>1, <2>2, <2>3 DEF CatalogMarks
  <2>4. CASE at[n] # CA!Source(p)
    BY <1>1, <2>1, <2>2, <2>4 DEF CatalogAside
  <2> QED
    BY <2>3, <2>4
<1> QED
  BY <1>1, <1>2 DEF Booting, CatalogInv

LEMMA OthersClean ==
  ASSUME CatalogInv, NEW p \in Procs, Working(p), CatalogAside(p), CatalogMarks(p),
         NEW e \in CA!Ids, e # CA!Source(p)
  PROVE  CleanSource(e)'
<1>1. /\ boot' = boot /\ todo' = todo /\ at' = at /\ seen' = seen /\ req' = req
      /\ listed'[e] = listed[e] /\ secrets'[e] = secrets[e] /\ snapshots'[e] = snapshots[e]
      /\ changer'[e] = changer[e] /\ (e \in dirty' <=> e \in dirty)
      /\ \A n \in Nodes : pools'[n][e] = pools[n][e]
  BY DEF CatalogAside
<1>2. \A q \in Procs : (WorksOn(q, e)' <=> WorksOn(q, e)) /\ (WorksOn(q, e) => pc'[q] = pc[q])
  <2>1. \A q \in Procs : CA!Source(q)' = CA!Source(q)
    BY <1>1 DEF CA!Source
  <2> QED
    BY <2>1 DEF CatalogAside, WorksOn, Working
<1>3. SUFFICES ASSUME e \notin dirty  PROVE CleanSource(e)'
  BY <1>1 DEF CleanSource
<1>4. LeftWhole(e)'
  BY <1>1, <1>2, <1>3 DEF LeftWhole, CatalogInv, CleanSource, CA!Whole, HalfImported
<1>5. ASSUME NEW n \in Nodes  PROVE Connected(n, e)' /\ WillConnect(n, e)' /\ WillImport(n, e)'
  <2>1. Connected(n, e) /\ WillConnect(n, e) /\ WillImport(n, e)
    BY <1>3 DEF CatalogInv, CleanSource
  <2>2. Underway(n, e) => Underway(n, e)'
    BY <1>1, <1>2 DEF Underway, CA!Node, Stores
  <2> QED
    BY <1>1, <2>1, <2>2 DEF Connected, WillConnect, WillImport, AsFiled
<1> QED
  BY <1>4, <1>5 DEF CleanSource

\* Of its own source the step must answer for these alone.
LEMMA OwnClean ==
  ASSUME CatalogInv, NEW p \in Procs, Working(p), CatalogAside(p), CatalogMarks(p),
         NEW d, d = CA!Source(p), NEW n, n = CA!Node(p),
         d \notin dirty' => (pc'[p] \in CA!Ended => CA!Whole(d)') /\ Connected(n, d)'
  PROVE  CleanSource(d)'
<1>1. /\ boot' = boot /\ todo' = todo /\ at' = at /\ seen' = seen /\ req' = req
  BY DEF CatalogAside
<1>2. CA!Source(p)' = d /\ CA!Node(p)' = n /\ d \in CA!Ids /\ n \in Nodes /\ n # Gone
  BY <1>1, AskedOf DEF CA!Source, CA!Node, CatalogInv
<1>3. SUFFICES ASSUME d \notin dirty'  PROVE CleanSource(d)'
  BY DEF CleanSource
<1>4. ~raced[p]
  BY <1>3 DEF CatalogMarks, CatalogInv, Marked
<1>5. \A q \in Procs : q # p => ~WorksOn(q, d)
  BY <1>4, Rivals DEF WorksOn
<1>6. LeftWhole(d)'
  BY <1>1, <1>2, <1>3 DEF LeftWhole, WorksOn, Working
<1>7. ASSUME NEW m \in Nodes  PROVE Connected(m, d)' /\ WillConnect(m, d)' /\ WillImport(m, d)'
  <2>1. boot[n] = "up"
    BY DEF CatalogInv, Marked
  <2>2. /\ boot[m] = "catalog" => d \notin todo[m]
        /\ at[m] # d
    BY <1>2, <1>4, NoStartMeets, PlausibleCases DEF CatalogInv, Booting, CA!Plausible
  <2>3. \/ d \notin dirty /\ secrets'[d] = secrets[d] /\ changer'[d] = changer[d]
        \/ changer'[d] = n
    BY <1>3 DEF CatalogMarks
  <2>4. WillImport(m, d)'
    BY <1>1, <2>2 DEF WillImport
  <2>5. WillConnect(m, d)'
    <3>1. d \notin dirty => WillConnect(m, d)
      BY <1>2 DEF CatalogInv, CleanSource
    <3> QED
      BY <1>1, <1>2, <2>1, <2>3, <3>1 DEF WillConnect
  <2>6. CASE m = n
    BY <1>3, <2>4, <2>5, <2>6
  <2>7. CASE m # n
    <3>1. pools'[m][d] = pools[m][d]
      BY <1>2, <2>7 DEF CatalogAside
    <3>2. ~Underway(m, d)
      BY <1>5, <2>7 DEF Underway
    <3>3. d \notin dirty => (pools[m][d] # Gone => pools[m][d] = secrets[d] \/ changer[d] \notin {Gone, m})
      BY <1>2, <3>2 DEF CatalogInv, CleanSource, Connected
    <3>4. Connected(m, d)'
      BY <1>2, <2>3, <2>7, <3>1, <3>3 DEF Connected
    <3> QED
      BY <2>4, <2>5, <3>4
  <2> QED
    BY <2>6, <2>7
<1> QED
  BY <1>6, <1>7 DEF CleanSource

(* What a step of a request owes the invariant.                            *)
CatalogOwn(p, d, n) ==
  /\ CatalogAside(p) /\ CatalogMarks(p)
  /\ Brings(p)' /\ OnItsWay(p)' /\ FoundClean(p)' /\ \A q \in Procs : Unlisted(q)'
  /\ d \notin dirty' => (pc'[p] \in CA!Ended => CA!Whole(d)') /\ Connected(n, d)'

LEMMA CatalogOwnIsEnough ==
  ASSUME CatalogInv, NEW p \in Procs, Working(p),
         NEW d, d = CA!Source(p), NEW n, n = CA!Node(p), CatalogOwn(p, d, n)
  PROVE  CatalogInv'
<1>1. CatalogAside(p) /\ CatalogMarks(p)
  BY DEF CatalogOwn
<1>2. CatalogShape'
  BY <1>1 DEF CatalogAside
<1>3. \A q \in Procs : Marked(q)'
  BY <1>1, MarksStay
<1>4. \A q \in Procs : Brings(q)' /\ OnItsWay(q)' /\ FoundClean(q)'
  <2>1. \A q \in Procs : q # p => Brings(q)' /\ OnItsWay(q)' /\ FoundClean(q)'
    BY <1>1, OthersInCatalog
  <2>2. Brings(p)' /\ OnItsWay(p)' /\ FoundClean(p)'
    BY DEF CatalogOwn
  <2> QED
    BY <2>1, <2>2
<1>5. CleanSource(d)'
  BY <1>1, OwnClean DEF CatalogOwn
<1>6. \A e \in CA!Ids : CleanSource(e)'
  BY <1>1, <1>5, OthersClean
<1>7. \A m \in Nodes : Booting(m)'
  BY <1>1, BootsStay
<1>8. \A q \in Procs : Unlisted(q)'
  BY DEF CatalogOwn
<1> QED
  BY <1>2, <1>3, <1>4, <1>6, <1>7, <1>8 DEF CatalogInv

----------------------------------------------------------------------------
(* One request, its source d and its node n.                               *)
LEMMA Standing ==
  ASSUME CatalogInv, NEW p \in Procs, NEW d, d = CA!Source(p), NEW n, n = CA!Node(p), Working(p)
  PROVE  /\ d \in CA!Ids /\ n \in Nodes /\ n # Gone /\ p \in CA!Ids /\ boot[n] = "up"
         /\ req[p].kind = "add" => d = p
         /\ req[p].kind # "test" => d = (IF req[p].kind = "add" THEN p ELSE req[p].id)
         /\ Stores(p) => req[p].settings.host # Gone
         /\ (raced[p] => d \in dirty) /\ Brings(p) /\ Unlisted(p)
         /\ ~raced[p] => /\ Stores(p) => StoresOn(p, d, n)
                         /\ Removes(p) => RemovesOn(p, d, n)
                         /\ pc[p] = "reconnect" => mem[p] = secrets[d]
         /\ d \notin dirty =>
              /\ Intact(p) => CA!Whole(d)
              /\ req[p].kind = "add" => AddsClean(p, d)
              /\ req[p].kind = "sync" /\ pc[p] = "snapshot" =>
                   mem[p] # Gone /\ (mem[p] = secrets[d] \/ changer[d] \notin {Gone, n})
              /\ pools[n][d] # Gone =>
                   \/ pools[n][d] = secrets[d] \/ changer[d] \notin {Gone, n}
                   \/ Stores(p) /\ pc[p] \in {"save", "secret", "undo"}
<1>1. /\ d \in CA!Ids /\ n \in Nodes /\ n # Gone /\ p \in CA!Ids /\ boot[n] = "up"
      /\ req[p].kind = "add" => d = p
      /\ req[p].kind # "test" => d = (IF req[p].kind = "add" THEN p ELSE req[p].id)
      /\ Stores(p) => req[p].settings.host # Gone
  BY AskedOf, PlausibleCases DEF CatalogInv, Marked, CA!Plausible, CatalogShape
<1>2. (raced[p] => d \in dirty) /\ Brings(p) /\ Unlisted(p)
  BY DEF CatalogInv, Marked
<1>3. ~raced[p] => /\ Stores(p) => StoresOn(p, d, n)
                   /\ Removes(p) => RemovesOn(p, d, n)
                   /\ pc[p] = "reconnect" => mem[p] = secrets[d]
  BY DEF CatalogInv, OnItsWay, Alone
<1>4. d \notin dirty => /\ Intact(p) => CA!Whole(d)
                        /\ req[p].kind = "add" => AddsClean(p, d)
                        /\ req[p].kind = "sync" /\ pc[p] = "snapshot" =>
                             mem[p] # Gone /\ (mem[p] = secrets[d] \/ changer[d] \notin {Gone, n})
  BY DEF CatalogInv, FoundClean
<1>5. d \notin dirty /\ Underway(n, d) => Stores(p) /\ pc[p] \in {"save", "secret", "undo"}
  BY <1>2, Rivals DEF Underway, WorksOn
<1>6. d \notin dirty /\ pools[n][d] # Gone =>
        \/ pools[n][d] = secrets[d] \/ changer[d] \notin {Gone, n}
        \/ Stores(p) /\ pc[p] \in {"save", "secret", "undo"}
  BY <1>1, <1>5 DEF CatalogInv, CleanSource, Connected
<1> QED
  BY <1>1, <1>2, <1>3, <1>4, <1>6

CatalogSelf(p, d, n) ==
  /\ Brings(p)'
  /\ pc'[p] \notin CA!Ended /\ ~raced'[p] =>
       /\ Stores(p) => StoresOn(p, d, n)'
       /\ Removes(p) => RemovesOn(p, d, n)'
       /\ pc'[p] = "reconnect" => mem'[p] = secrets'[d]
  /\ d \notin dirty' =>
       /\ pc'[p] \in CA!Ended => CA!Whole(d)'
       /\ pc'[p] \notin CA!Ended =>
            /\ Intact(p)' => CA!Whole(d)'
            /\ req[p].kind = "add" => AddsClean(p, d)'
            /\ req[p].kind = "sync" /\ pc'[p] = "snapshot" =>
                 mem'[p] # Gone /\ (mem'[p] = secrets'[d] \/ changer'[d] \notin {Gone, n})
       /\ pools'[n][d] # Gone =>
            \/ pools'[n][d] = secrets'[d] \/ changer'[d] \notin {Gone, n}
            \/ Stores(p) /\ pc'[p] \in {"save", "secret", "undo"}
  /\ listed'[d] \in {listed[d], Gone} \/ (Stores(p) /\ pc[p] = "save" /\ pc'[p] = "secret")
  /\ req[p].kind = "add" /\ pc'[p] \in {"connect", "save"} => pc[p] \in {"connect", "save"}
  /\ req[p].kind = "update" /\ pc[p] = "find" => listed[d] # Gone \/ pc'[p] \in CA!Ended \cup {"find"}

LEMMA StaysUnlisted ==
  ASSUME CatalogInv, NEW p \in Procs, NEW d, d = CA!Source(p), NEW n, n = CA!Node(p), Working(p),
         CatalogAside(p), CatalogMarks(p), CatalogSelf(p, d, n), NEW q \in Procs
  PROVE  Unlisted(q)'
<1>1. req' = req /\ (\A r \in Procs : CA!Source(r)' = CA!Source(r)) /\ pc'[p] # "begin" /\ pc[p] \notin CA!Ended
  BY DEF CatalogAside, CatalogMarks, CA!Source, Working
<1>2. SUFFICES ASSUME req[q].kind = "add", pc'[q] \in {"begin", "connect", "save"}
               PROVE  /\ listed'[q] = Gone
                      /\ \A r \in Procs : req[r].kind = "update" /\ WorksOn(r, q)' => pc'[r] = "find"
  BY <1>1 DEF Unlisted
<1>3. pc[q] \in {"begin", "connect", "save"}
  <2>1. CASE q = p
    BY <1>1, <1>2, <2>1 DEF CatalogSelf
  <2>2. CASE q # p
    BY <1>2, <2>2 DEF CatalogAside
  <2> QED
    BY <2>1, <2>2
<1>4. listed[q] = Gone /\ \A r \in Procs : req[r].kind = "update" /\ WorksOn(r, q) => pc[r] = "find"
  BY <1>2, <1>3 DEF CatalogInv, Unlisted
<1>5. listed'[q] = Gone
  <2>1. CASE d # q
    BY <1>4, <2>1, AskedOf DEF CatalogAside, CatalogInv
  <2>2. CASE d = q
    <3>1. ~(Stores(p) /\ pc[p] = "save" /\ pc'[p] = "secret")
      <4>1. CASE req[p].kind = "add"
        BY <1>2, <2>2, <4>1, AskedOf DEF CatalogInv
      <4>2. CASE req[p].kind = "update"
        BY <1>4, <2>2, <4>2 DEF WorksOn
      <4> QED
        BY <4>1, <4>2 DEF Stores
    <3> QED
      BY <1>4, <2>2, <3>1 DEF CatalogSelf
  <2> QED
    BY <2>1, <2>2
<1>6. ASSUME NEW r \in Procs, req[r].kind = "update", WorksOn(r, q)'  PROVE pc'[r] = "find"
  <2>1. CASE r # p
    BY <1>1, <1>4, <1>6, <2>1 DEF CatalogAside, WorksOn, Working
  <2>2. CASE r = p
    <3>1. d = q /\ pc'[p] \notin CA!Ended
      BY <1>1, <1>6, <2>2 DEF WorksOn, Working
    <3>2. pc[p] = "find"
      BY <1>4, <1>6, <2>2, <3>1 DEF WorksOn
    <3> QED
      BY <1>4, <1>6, <2>2, <3>1, <3>2 DEF CatalogSelf
  <2> QED
    BY <2>1, <2>2
<1> QED
  BY <1>5, <1>6

LEMMA SelfIsEnough ==
  ASSUME CatalogInv, NEW p \in Procs, NEW d, d = CA!Source(p), NEW n, n = CA!Node(p), Working(p),
         CatalogAside(p), CatalogMarks(p), CatalogSelf(p, d, n)
  PROVE  CatalogInv'
<1>1. req' = req /\ CA!Source(p)' = d /\ CA!Node(p)' = n
  BY DEF CatalogAside, CA!Source, CA!Node
<1>2. OnItsWay(p)'
  BY <1>1 DEF CatalogSelf, OnItsWay, Alone, Working, Stores, Removes
<1>3. FoundClean(p)'
  BY <1>1 DEF CatalogSelf, FoundClean, Working
<1>4. d \notin dirty' => Connected(n, d)'
  <2>1. Stores(p) /\ pc'[p] \in {"save", "secret", "undo"} => Underway(n, d)'
    BY <1>1 DEF Underway, WorksOn, Working, Stores, CA!Ended
  <2> QED
    BY <2>1 DEF CatalogSelf, Connected
<1>5. \A q \in Procs : Unlisted(q)'
  BY StaysUnlisted
<1>6. CatalogOwn(p, d, n)
  BY <1>2, <1>3, <1>4, <1>5 DEF CatalogOwn, CatalogSelf
<1> QED
  BY <1>6, CatalogOwnIsEnough

----------------------------------------------------------------------------
(* The steps of a request, one by one.                                     *)

LEMMA FindKept ==
  ASSUME CatalogInv, NEW p \in Procs, NEW d, d = CA!Source(p), NEW n, n = CA!Node(p), CA!Find(p)
  PROVE  CatalogInv'
<1> USE DEF CA!At, CA!Goto, CA!Answer, CA!Stays, CA!Fault, CA!Soiled, CA!tables, CA!startup
<1>1. Working(p)
  BY DEF CA!Find, Working, CA!Ended
<1>2. CatalogAside(p)
  BY <1>1, Standing DEF CA!Find, CatalogAside, CatalogInv, CatalogShape
<1>3. CatalogMarks(p)
  BY <1>1, Standing DEF CA!Find, CatalogMarks, CatalogInv, CatalogShape, CA!Ended, Stores, Removes, StoresOn, RemovesOn
<1>4. CatalogSelf(p, d, n)
  BY <1>1, Standing DEF CA!Find, CatalogSelf, CatalogInv, CatalogShape, CA!Ended, Stores, Removes, Intact, StoresOn, RemovesOn, AddsClean, Brings, CA!Whole
<1> QED
  BY <1>1, <1>2, <1>3, <1>4, SelfIsEnough

LEMMA MergeKept ==
  ASSUME CatalogInv, NEW p \in Procs, NEW d, d = CA!Source(p), NEW n, n = CA!Node(p), CA!Merge(p)
  PROVE  CatalogInv'
<1> USE DEF CA!At, CA!Goto, CA!Answer, CA!Stays, CA!Fault, CA!Soiled, CA!tables, CA!startup, CA!Merged, CA!Settings
<1>1. Working(p)
  BY DEF CA!Merge, Working, CA!Ended
<1>2. CatalogAside(p)
  BY <1>1, Standing DEF CA!Merge, CatalogAside, CatalogInv, CatalogShape
<1>3. CatalogMarks(p)
  BY <1>1, Standing DEF CA!Merge, CatalogMarks, CatalogInv, CatalogShape, CA!Ended, Stores, Removes, StoresOn, RemovesOn
<1>4. CatalogSelf(p, d, n)
  BY <1>1, Standing DEF CA!Merge, CatalogSelf, CatalogInv, CatalogShape, CA!Ended, Stores, Removes, Intact, StoresOn, RemovesOn, AddsClean, Brings, CA!Whole
<1> QED
  BY <1>1, <1>2, <1>3, <1>4, SelfIsEnough

LEMMA ConnectKept ==
  ASSUME CatalogInv, NEW p \in Procs, NEW d, d = CA!Source(p), NEW n, n = CA!Node(p), CA!Connect(p)
  PROVE  CatalogInv'
<1> USE DEF CA!At, CA!Goto, CA!Answer, CA!Stays, CA!Fault, CA!Soiled, CA!tables, CA!startup, CA!Opened, CA!Accepts
<1>1. Working(p)
  BY DEF CA!Connect, Working, CA!Ended
<1>2. CatalogAside(p)
  BY <1>1, Standing DEF CA!Connect, CatalogAside, CatalogInv, CatalogShape
<1>3. CatalogMarks(p)
  BY <1>1, Standing DEF CA!Connect, CatalogMarks, CatalogInv, CatalogShape, CA!Ended, Stores, Removes, StoresOn, RemovesOn
<1>4. CatalogSelf(p, d, n)
  BY <1>1, Standing DEF CA!Connect, CatalogSelf, CatalogInv, CatalogShape, CA!Ended, Stores, Removes, Intact, StoresOn, RemovesOn, AddsClean, Brings, CA!Whole
<1> QED
  BY <1>1, <1>2, <1>3, <1>4, SelfIsEnough

LEMMA RefusedKept ==
  ASSUME CatalogInv, NEW p \in Procs, NEW d, d = CA!Source(p), NEW n, n = CA!Node(p), CA!Refused(p)
  PROVE  CatalogInv'
<1> USE DEF CA!At, CA!Goto, CA!Answer, CA!Stays, CA!Fault, CA!Soiled, CA!tables, CA!startup, CA!Accepts
<1>1. Working(p)
  BY DEF CA!Refused, Working, CA!Ended
<1>2. CatalogAside(p)
  BY <1>1, Standing DEF CA!Refused, CatalogAside, CatalogInv, CatalogShape
<1>3. CatalogMarks(p)
  BY <1>1, Standing DEF CA!Refused, CatalogMarks, CatalogInv, CatalogShape, CA!Ended, Stores, Removes, StoresOn, RemovesOn
<1>4. CatalogSelf(p, d, n)
  BY <1>1, Standing DEF CA!Refused, CatalogSelf, CatalogInv, CatalogShape, CA!Ended, Stores, Removes, Intact, StoresOn, RemovesOn, AddsClean, Brings, CA!Whole
<1> QED
  BY <1>1, <1>2, <1>3, <1>4, SelfIsEnough

LEMMA TestKept ==
  ASSUME CatalogInv, NEW p \in Procs, NEW d, d = CA!Source(p), NEW n, n = CA!Node(p), CA!Test(p)
  PROVE  CatalogInv'
<1> USE DEF CA!At, CA!Goto, CA!Answer, CA!Stays, CA!Fault, CA!Soiled, CA!tables, CA!startup
<1>1. Working(p)
  BY DEF CA!Test, Working, CA!Ended
<1>2. CatalogAside(p)
  BY <1>1, Standing DEF CA!Test, CatalogAside, CatalogInv, CatalogShape
<1>3. CatalogMarks(p)
  BY <1>1, Standing DEF CA!Test, CatalogMarks, CatalogInv, CatalogShape, CA!Ended, Stores, Removes, StoresOn, RemovesOn
<1>4. CatalogSelf(p, d, n)
  BY <1>1, Standing DEF CA!Test, CatalogSelf, CatalogInv, CatalogShape, CA!Ended, Stores, Removes, Intact, StoresOn, RemovesOn, AddsClean, Brings, CA!Whole
<1> QED
  BY <1>1, <1>2, <1>3, <1>4, SelfIsEnough

LEMMA SaveKept ==
  ASSUME CatalogInv, NEW p \in Procs, NEW d, d = CA!Source(p), NEW n, n = CA!Node(p), CA!Save(p)
  PROVE  CatalogInv'
<1> USE DEF CA!At, CA!Goto, CA!Answer, CA!Stays, CA!Fault, CA!Soiled, CA!tables, CA!startup
<1>1. Working(p)
  BY DEF CA!Save, Working, CA!Ended
<1>2. CatalogAside(p)
  BY <1>1, Standing DEF CA!Save, CatalogAside, CatalogInv, CatalogShape
<1>3. CatalogMarks(p)
  BY <1>1, Standing DEF CA!Save, CatalogMarks, CatalogInv, CatalogShape, CA!Ended, Stores, Removes, StoresOn, RemovesOn
<1>4. req[p].kind = "add" /\ d \notin dirty => secrets[d] = Gone /\ snapshots[d] = Gone
  <2> SUFFICES ASSUME req[p].kind = "add", d \notin dirty  PROVE secrets[d] = Gone /\ snapshots[d] = Gone
    OBVIOUS
  <2>1. d = p /\ CA!Whole(d) /\ listed[d] = Gone
    BY <1>1, Standing DEF CA!Save, Intact, Stores, Removes, Unlisted
  <2>2. \A m \in Nodes : d \notin Legacy[m]
    BY <2>1, PlausibleCases DEF CA!Plausible
  <2> QED
    BY <2>1, <2>2 DEF CA!Whole
<1>5. CatalogSelf(p, d, n)
  BY <1>1, <1>4, Standing DEF CA!Save, CatalogSelf, CatalogInv, CatalogShape, CA!Ended, Stores, Removes, Intact, StoresOn, RemovesOn, AddsClean, Brings, CA!Whole
<1> QED
  BY <1>1, <1>2, <1>3, <1>5, SelfIsEnough

LEMMA SaveFailsKept ==
  ASSUME CatalogInv, NEW p \in Procs, NEW d, d = CA!Source(p), NEW n, n = CA!Node(p), CA!SaveFails(p)
  PROVE  CatalogInv'
<1> USE DEF CA!At, CA!Goto, CA!Answer, CA!Stays, CA!Fault, CA!Soiled, CA!tables, CA!startup
<1>1. Working(p)
  BY DEF CA!SaveFails, Working, CA!Ended
<1>2. CatalogAside(p)
  BY <1>1, Standing DEF CA!SaveFails, CatalogAside, CatalogInv, CatalogShape
<1>3. CatalogMarks(p)
  BY <1>1, Standing DEF CA!SaveFails, CatalogMarks, CatalogInv, CatalogShape, CA!Ended, Stores, Removes, StoresOn, RemovesOn
<1>4. CatalogSelf(p, d, n)
  BY <1>1, Standing DEF CA!SaveFails, CatalogSelf, CatalogInv, CatalogShape, CA!Ended, Stores, Removes, Intact, StoresOn, RemovesOn, AddsClean, Brings, CA!Whole
<1> QED
  BY <1>1, <1>2, <1>3, <1>4, SelfIsEnough

LEMMA SaveSecretKept ==
  ASSUME CatalogInv, NEW p \in Procs, NEW d, d = CA!Source(p), NEW n, n = CA!Node(p), CA!SaveSecret(p)
  PROVE  CatalogInv'
<1> USE DEF CA!At, CA!Goto, CA!Answer, CA!Stays, CA!Fault, CA!Soiled, CA!tables, CA!startup
<1>1. Working(p)
  BY DEF CA!SaveSecret, Working, CA!Ended
<1>2. CatalogAside(p)
  BY <1>1, Standing DEF CA!SaveSecret, CatalogAside, CatalogInv, CatalogShape
<1>3. CatalogMarks(p)
  BY <1>1, Standing DEF CA!SaveSecret, CatalogMarks, CatalogInv, CatalogShape, CA!Ended, Stores, Removes, StoresOn, RemovesOn
<1>4. CatalogSelf(p, d, n)
  BY <1>1, Standing DEF CA!SaveSecret, CatalogSelf, CatalogInv, CatalogShape, CA!Ended, Stores, Removes, Intact, StoresOn, RemovesOn, AddsClean, Brings, CA!Whole
<1> QED
  BY <1>1, <1>2, <1>3, <1>4, SelfIsEnough

LEMMA SecretFailsKept ==
  ASSUME CatalogInv, NEW p \in Procs, NEW d, d = CA!Source(p), NEW n, n = CA!Node(p), CA!SecretFails(p)
  PROVE  CatalogInv'
<1> USE DEF CA!At, CA!Goto, CA!Answer, CA!Stays, CA!Fault, CA!Soiled, CA!tables, CA!startup
<1>1. Working(p)
  BY DEF CA!SecretFails, Working, CA!Ended
<1>2. CatalogAside(p)
  BY <1>1, Standing DEF CA!SecretFails, CatalogAside, CatalogInv, CatalogShape
<1>3. CatalogMarks(p)
  BY <1>1, Standing DEF CA!SecretFails, CatalogMarks, CatalogInv, CatalogShape, CA!Ended, Stores, Removes, StoresOn, RemovesOn
<1>4. CatalogSelf(p, d, n)
  BY <1>1, Standing DEF CA!SecretFails, CatalogSelf, CatalogInv, CatalogShape, CA!Ended, Stores, Removes, Intact, StoresOn, RemovesOn, AddsClean, Brings, CA!Whole
<1> QED
  BY <1>1, <1>2, <1>3, <1>4, SelfIsEnough

LEMMA UndoKept ==
  ASSUME CatalogInv, NEW p \in Procs, NEW d, d = CA!Source(p), NEW n, n = CA!Node(p), CA!Undo(p)
  PROVE  CatalogInv'
<1> USE DEF CA!At, CA!Goto, CA!Answer, CA!Stays, CA!Fault, CA!Soiled, CA!tables, CA!startup, CA!TakenBack
<1>1. Working(p)
  BY DEF CA!Undo, Working, CA!Ended
<1>2. CatalogAside(p)
  BY <1>1, Standing DEF CA!Undo, CatalogAside, CatalogInv, CatalogShape
<1>3. CatalogMarks(p)
  BY <1>1, Standing DEF CA!Undo, CatalogMarks, CatalogInv, CatalogShape, CA!Ended, Stores, Removes, StoresOn, RemovesOn
<1>4. CatalogSelf(p, d, n)
  BY <1>1, Standing DEF CA!Undo, CatalogSelf, CatalogInv, CatalogShape, CA!Ended, Stores, Removes, Intact, StoresOn, RemovesOn, AddsClean, Brings, CA!Whole
<1> QED
  BY <1>1, <1>2, <1>3, <1>4, SelfIsEnough

LEMMA UndoFailsKept ==
  ASSUME CatalogInv, NEW p \in Procs, NEW d, d = CA!Source(p), NEW n, n = CA!Node(p), CA!UndoFails(p)
  PROVE  CatalogInv'
<1> USE DEF CA!At, CA!Goto, CA!Answer, CA!Stays, CA!Fault, CA!Soiled, CA!tables, CA!startup
<1>1. Working(p)
  BY DEF CA!UndoFails, Working, CA!Ended
<1>2. CatalogAside(p)
  BY <1>1, Standing DEF CA!UndoFails, CatalogAside, CatalogInv, CatalogShape
<1>3. CatalogMarks(p)
  BY <1>1, Standing DEF CA!UndoFails, CatalogMarks, CatalogInv, CatalogShape, CA!Ended, Stores, Removes, StoresOn, RemovesOn
<1>4. CatalogSelf(p, d, n)
  BY <1>1, Standing DEF CA!UndoFails, CatalogSelf, CatalogInv, CatalogShape, CA!Ended, Stores, Removes, Intact, StoresOn, RemovesOn, AddsClean, Brings, CA!Whole
<1> QED
  BY <1>1, <1>2, <1>3, <1>4, SelfIsEnough

LEMMA EnsureKept ==
  ASSUME CatalogInv, NEW p \in Procs, NEW d, d = CA!Source(p), NEW n, n = CA!Node(p), CA!Ensure(p)
  PROVE  CatalogInv'
<1> USE DEF CA!At, CA!Goto, CA!Answer, CA!Stays, CA!Fault, CA!Soiled, CA!tables, CA!startup, CA!Syncing
<1>1. Working(p)
  BY DEF CA!Ensure, Working, CA!Ended
<1>2. CatalogAside(p)
  BY <1>1, Standing DEF CA!Ensure, CatalogAside, CatalogInv, CatalogShape
<1>3. CatalogMarks(p)
  BY <1>1, Standing DEF CA!Ensure, CatalogMarks, CatalogInv, CatalogShape, CA!Ended, Stores, Removes, StoresOn, RemovesOn
<1>4. CatalogSelf(p, d, n)
  BY <1>1, Standing DEF CA!Ensure, CatalogSelf, CatalogInv, CatalogShape, CA!Ended, Stores, Removes, Intact, StoresOn, RemovesOn, AddsClean, Brings, CA!Whole
<1> QED
  BY <1>1, <1>2, <1>3, <1>4, SelfIsEnough

LEMMA ReopenKept ==
  ASSUME CatalogInv, NEW p \in Procs, NEW d, d = CA!Source(p), NEW n, n = CA!Node(p), CA!Reopen(p)
  PROVE  CatalogInv'
<1> USE DEF CA!At, CA!Goto, CA!Answer, CA!Stays, CA!Fault, CA!Soiled, CA!tables, CA!startup, CA!Syncing, CA!SyncFailed
<1>1. Working(p)
  BY DEF CA!Reopen, Working, CA!Ended
<1>2. CatalogAside(p)
  BY <1>1, Standing DEF CA!Reopen, CatalogAside, CatalogInv, CatalogShape
<1>3. CatalogMarks(p)
  BY <1>1, Standing DEF CA!Reopen, CatalogMarks, CatalogInv, CatalogShape, CA!Ended, Stores, Removes, StoresOn, RemovesOn
<1>4. CatalogSelf(p, d, n)
  BY <1>1, Standing DEF CA!Reopen, CatalogSelf, CatalogInv, CatalogShape, CA!Ended, Stores, Removes, Intact, StoresOn, RemovesOn, AddsClean, Brings, CA!Whole
<1> QED
  BY <1>1, <1>2, <1>3, <1>4, SelfIsEnough

LEMMA ReconnectKept ==
  ASSUME CatalogInv, NEW p \in Procs, NEW d, d = CA!Source(p), NEW n, n = CA!Node(p), CA!Reconnect(p)
  PROVE  CatalogInv'
<1> USE DEF CA!At, CA!Goto, CA!Answer, CA!Stays, CA!Fault, CA!Soiled, CA!tables, CA!startup, CA!Opened, CA!Accepts, CA!Syncing
<1>1. Working(p)
  BY DEF CA!Reconnect, Working, CA!Ended
<1>2. CatalogAside(p)
  BY <1>1, Standing DEF CA!Reconnect, CatalogAside, CatalogInv, CatalogShape
<1>3. CatalogMarks(p)
  BY <1>1, Standing DEF CA!Reconnect, CatalogMarks, CatalogInv, CatalogShape, CA!Ended, Stores, Removes, StoresOn, RemovesOn
<1>4. CatalogSelf(p, d, n)
  BY <1>1, Standing DEF CA!Reconnect, CatalogSelf, CatalogInv, CatalogShape, CA!Ended, Stores, Removes, Intact, StoresOn, RemovesOn, AddsClean, Brings, CA!Whole
<1> QED
  BY <1>1, <1>2, <1>3, <1>4, SelfIsEnough

LEMMA ReadTablesKept ==
  ASSUME CatalogInv, NEW p \in Procs, NEW d, d = CA!Source(p), NEW n, n = CA!Node(p), CA!ReadTables(p)
  PROVE  CatalogInv'
<1> USE DEF CA!At, CA!Goto, CA!Answer, CA!Stays, CA!Fault, CA!Soiled, CA!tables, CA!startup, CA!Syncing, CA!SyncFailed
<1>1. Working(p)
  BY DEF CA!ReadTables, Working, CA!Ended
<1>2. CatalogAside(p)
  BY <1>1, Standing DEF CA!ReadTables, CatalogAside, CatalogInv, CatalogShape
<1>3. CatalogMarks(p)
  BY <1>1, Standing DEF CA!ReadTables, CatalogMarks, CatalogInv, CatalogShape, CA!Ended, Stores, Removes, StoresOn, RemovesOn
<1>4. CatalogSelf(p, d, n)
  BY <1>1, Standing DEF CA!ReadTables, CatalogSelf, CatalogInv, CatalogShape, CA!Ended, Stores, Removes, Intact, StoresOn, RemovesOn, AddsClean, Brings, CA!Whole
<1> QED
  BY <1>1, <1>2, <1>3, <1>4, SelfIsEnough

LEMMA SaveSnapshotKept ==
  ASSUME CatalogInv, NEW p \in Procs, NEW d, d = CA!Source(p), NEW n, n = CA!Node(p), CA!SaveSnapshot(p)
  PROVE  CatalogInv'
<1> USE DEF CA!At, CA!Goto, CA!Answer, CA!Stays, CA!Fault, CA!Soiled, CA!tables, CA!startup, CA!Syncing, CA!Clean, CA!Changes
<1>1. Working(p)
  BY DEF CA!SaveSnapshot, Working, CA!Ended
<1>2. CatalogAside(p)
  BY <1>1, Standing DEF CA!SaveSnapshot, CatalogAside, CatalogInv, CatalogShape
<1>3. CatalogMarks(p)
  BY <1>1, Standing DEF CA!SaveSnapshot, CatalogMarks, CatalogInv, CatalogShape, CA!Ended, Stores, Removes, StoresOn, RemovesOn
<1>4. CASE Stores(p)
  <2>1. CatalogSelf(p, d, n)
    BY <1>1, <1>4, Standing DEF CA!SaveSnapshot, CatalogSelf, CatalogInv, CatalogShape, CA!Ended, Stores, Removes,
         StoresOn, AddsClean, Brings, CA!Whole, Intact
  <2> QED
    BY <1>1, <1>2, <1>3, <2>1, SelfIsEnough
<1>5. CASE req[p].kind = "sync"
  <2>1. d \notin dirty' => mem[p] # Gone /\ mem[p] = secrets[d] /\ CA!Whole(d) /\ d \notin dirty
    BY <1>1, <1>5, Standing DEF CA!SaveSnapshot, CatalogInv, CatalogShape, Stores, Removes, Intact
  <2>2. d \notin dirty' => CA!Whole(d)'
    BY <1>1, <1>5, <2>1, Standing DEF CA!SaveSnapshot, CatalogInv, CatalogShape, CA!Whole
  <2>3. CatalogSelf(p, d, n)
    BY <1>1, <1>5, <2>1, <2>2, Standing DEF CA!SaveSnapshot, CatalogSelf, CatalogInv, CatalogShape, CA!Ended, Stores, Removes, Brings
  <2> QED
    BY <1>1, <1>2, <1>3, <2>3, SelfIsEnough
<1> QED
  BY <1>4, <1>5 DEF CA!SaveSnapshot, Stores

LEMMA SyncFailsKept ==
  ASSUME CatalogInv, NEW p \in Procs, NEW d, d = CA!Source(p), NEW n, n = CA!Node(p), CA!SyncFails(p)
  PROVE  CatalogInv'
<1> USE DEF CA!At, CA!Goto, CA!Answer, CA!Stays, CA!Fault, CA!Soiled, CA!tables, CA!startup, CA!Syncing, CA!SyncFailed
<1>1. Working(p)
  BY DEF CA!SyncFails, Working, CA!Ended
<1>2. CatalogAside(p)
  BY <1>1, Standing DEF CA!SyncFails, CatalogAside, CatalogInv, CatalogShape
<1>3. CatalogMarks(p)
  BY <1>1, Standing DEF CA!SyncFails, CatalogMarks, CatalogInv, CatalogShape, CA!Ended, Stores, Removes, StoresOn, RemovesOn
<1>4. CatalogSelf(p, d, n)
  BY <1>1, Standing DEF CA!SyncFails, CatalogSelf, CatalogInv, CatalogShape, CA!Ended, Stores, Removes, Intact, StoresOn, RemovesOn, AddsClean, Brings, CA!Whole
<1> QED
  BY <1>1, <1>2, <1>3, <1>4, SelfIsEnough

LEMMA CloseKept ==
  ASSUME CatalogInv, NEW p \in Procs, NEW d, d = CA!Source(p), NEW n, n = CA!Node(p), CA!Close(p)
  PROVE  CatalogInv'
<1> USE DEF CA!At, CA!Goto, CA!Answer, CA!Stays, CA!Fault, CA!Soiled, CA!tables, CA!startup
<1>1. Working(p)
  BY DEF CA!Close, Working, CA!Ended
<1>2. CatalogAside(p)
  BY <1>1, Standing DEF CA!Close, CatalogAside, CatalogInv, CatalogShape
<1>3. CatalogMarks(p)
  BY <1>1, Standing DEF CA!Close, CatalogMarks, CatalogInv, CatalogShape, CA!Ended, Stores, Removes, StoresOn, RemovesOn
<1>4. CatalogSelf(p, d, n)
  BY <1>1, Standing DEF CA!Close, CatalogSelf, CatalogInv, CatalogShape, CA!Ended, Stores, Removes, Intact, StoresOn, RemovesOn, AddsClean, Brings, CA!Whole
<1> QED
  BY <1>1, <1>2, <1>3, <1>4, SelfIsEnough

LEMMA DeleteSecretKept ==
  ASSUME CatalogInv, NEW p \in Procs, NEW d, d = CA!Source(p), NEW n, n = CA!Node(p), CA!DeleteSecret(p)
  PROVE  CatalogInv'
<1> USE DEF CA!At, CA!Goto, CA!Answer, CA!Stays, CA!Fault, CA!Soiled, CA!tables, CA!startup
<1>1. Working(p)
  BY DEF CA!DeleteSecret, Working, CA!Ended
<1>2. CatalogAside(p)
  BY <1>1, Standing DEF CA!DeleteSecret, CatalogAside, CatalogInv, CatalogShape
<1>3. CatalogMarks(p)
  BY <1>1, Standing DEF CA!DeleteSecret, CatalogMarks, CatalogInv, CatalogShape, CA!Ended, Stores, Removes, StoresOn, RemovesOn
<1>4. CatalogSelf(p, d, n)
  BY <1>1, Standing DEF CA!DeleteSecret, CatalogSelf, CatalogInv, CatalogShape, CA!Ended, Stores, Removes, Intact, StoresOn, RemovesOn, AddsClean, Brings, CA!Whole
<1> QED
  BY <1>1, <1>2, <1>3, <1>4, SelfIsEnough

LEMMA DeleteSnapshotKept ==
  ASSUME CatalogInv, NEW p \in Procs, NEW d, d = CA!Source(p), NEW n, n = CA!Node(p), CA!DeleteSnapshot(p)
  PROVE  CatalogInv'
<1> USE DEF CA!At, CA!Goto, CA!Answer, CA!Stays, CA!Fault, CA!Soiled, CA!tables, CA!startup
<1>1. Working(p)
  BY DEF CA!DeleteSnapshot, Working, CA!Ended
<1>2. CatalogAside(p)
  BY <1>1, Standing DEF CA!DeleteSnapshot, CatalogAside, CatalogInv, CatalogShape
<1>3. CatalogMarks(p)
  BY <1>1, Standing DEF CA!DeleteSnapshot, CatalogMarks, CatalogInv, CatalogShape, CA!Ended, Stores, Removes, StoresOn, RemovesOn
<1>4. CatalogSelf(p, d, n)
  BY <1>1, Standing DEF CA!DeleteSnapshot, CatalogSelf, CatalogInv, CatalogShape, CA!Ended, Stores, Removes, Intact, StoresOn, RemovesOn, AddsClean, Brings, CA!Whole
<1> QED
  BY <1>1, <1>2, <1>3, <1>4, SelfIsEnough

LEMMA DeleteKept ==
  ASSUME CatalogInv, NEW p \in Procs, NEW d, d = CA!Source(p), NEW n, n = CA!Node(p), CA!Delete(p)
  PROVE  CatalogInv'
<1> USE DEF CA!At, CA!Goto, CA!Answer, CA!Stays, CA!Fault, CA!Soiled, CA!tables, CA!startup, CA!Clean, CA!Changes
<1>1. Working(p)
  BY DEF CA!Delete, Working, CA!Ended
<1>2. CatalogAside(p)
  BY <1>1, Standing DEF CA!Delete, CatalogAside, CatalogInv, CatalogShape
<1>3. CatalogMarks(p)
  BY <1>1, Standing DEF CA!Delete, CatalogMarks, CatalogInv, CatalogShape, CA!Ended, Stores, Removes, StoresOn, RemovesOn
<1>4. CatalogSelf(p, d, n)
  BY <1>1, Standing DEF CA!Delete, CatalogSelf, CatalogInv, CatalogShape, CA!Ended, Stores, Removes, Intact, StoresOn, RemovesOn, AddsClean, Brings, CA!Whole
<1> QED
  BY <1>1, <1>2, <1>3, <1>4, SelfIsEnough

LEMMA SnapshotStaysKept ==
  ASSUME CatalogInv, NEW p \in Procs, NEW d, d = CA!Source(p), NEW n, n = CA!Node(p), CA!SnapshotStays(p)
  PROVE  CatalogInv'
<1> USE DEF CA!At, CA!Goto, CA!Answer, CA!Stays, CA!Fault, CA!Soiled, CA!tables, CA!startup
<1>1. Working(p)
  BY DEF CA!SnapshotStays, Working, CA!Ended
<1>2. CatalogAside(p)
  BY <1>1, Standing DEF CA!SnapshotStays, CatalogAside, CatalogInv, CatalogShape
<1>3. CatalogMarks(p)
  BY <1>1, Standing DEF CA!SnapshotStays, CatalogMarks, CatalogInv, CatalogShape, CA!Ended, Stores, Removes, StoresOn, RemovesOn
<1>4. CatalogSelf(p, d, n)
  BY <1>1, Standing DEF CA!SnapshotStays, CatalogSelf, CatalogInv, CatalogShape, CA!Ended, Stores, Removes, Intact, StoresOn, RemovesOn, AddsClean, Brings, CA!Whole
<1> QED
  BY <1>1, <1>2, <1>3, <1>4, SelfIsEnough

LEMMA RemoveFailsKept ==
  ASSUME CatalogInv, NEW p \in Procs, NEW d, d = CA!Source(p), NEW n, n = CA!Node(p), CA!RemoveFails(p)
  PROVE  CatalogInv'
<1> USE DEF CA!At, CA!Goto, CA!Answer, CA!Stays, CA!Fault, CA!Soiled, CA!tables, CA!startup
<1>1. Working(p)
  BY DEF CA!RemoveFails, Working, CA!Ended
<1>2. CatalogAside(p)
  BY <1>1, Standing DEF CA!RemoveFails, CatalogAside, CatalogInv, CatalogShape
<1>3. CatalogMarks(p)
  BY <1>1, Standing DEF CA!RemoveFails, CatalogMarks, CatalogInv, CatalogShape, CA!Ended, Stores, Removes, StoresOn, RemovesOn
<1>4. CatalogSelf(p, d, n)
  BY <1>1, Standing DEF CA!RemoveFails, CatalogSelf, CatalogInv, CatalogShape, CA!Ended, Stores, Removes, Intact, StoresOn, RemovesOn, AddsClean, Brings, CA!Whole
<1> QED
  BY <1>1, <1>2, <1>3, <1>4, SelfIsEnough

LEMMA AnnotateKept ==
  ASSUME CatalogInv, NEW p \in Procs, NEW d, d = CA!Source(p), NEW n, n = CA!Node(p), CA!Annotate(p)
  PROVE  CatalogInv'
<1> USE DEF CA!At, CA!Goto, CA!Answer, CA!Stays, CA!Fault, CA!Soiled, CA!tables, CA!startup
<1>1. Working(p)
  BY DEF CA!Annotate, Working, CA!Ended
<1>2. CatalogAside(p)
  BY <1>1, Standing DEF CA!Annotate, CatalogAside, CatalogInv, CatalogShape
<1>3. CatalogMarks(p)
  BY <1>1, Standing DEF CA!Annotate, CatalogMarks, CatalogInv, CatalogShape, CA!Ended, Stores, Removes, StoresOn, RemovesOn
<1>4. CatalogSelf(p, d, n)
  BY <1>1, Standing DEF CA!Annotate, CatalogSelf, CatalogInv, CatalogShape, CA!Ended, Stores, Removes, Intact, StoresOn, RemovesOn, AddsClean, Brings, CA!Whole
<1> QED
  BY <1>1, <1>2, <1>3, <1>4, SelfIsEnough

(* A request begins: whoever works on the source already is marked with it. *)
LEMMA BeginMarks ==
  ASSUME CatalogInv, NEW p \in Procs, NEW d, d = CA!Source(p), CA!Begin(p)
  PROVE  /\ d \in CA!Ids /\ pc[p] = "begin" /\ ~raced[p] /\ boot[CA!Node(p)] = "up" /\ CatalogShape'
         /\ UNCHANGED <<listed, secrets, snapshots, pools, boot, todo, at, seen, req, changer, filled>>
         /\ \A q \in Procs \ {p} : pc'[q] = pc[q] /\ mem'[q] = mem[q]
         /\ pc'[p] = CA!First(req[p].kind) /\ (Stores(p) => mem'[p] = req[p].settings)
         /\ dirty \subseteq dirty' /\ dirty' \subseteq dirty \cup {d}
         /\ \A q \in Procs : raced[q] => raced'[q]
         /\ \A q \in Procs : raced'[q] => raced[q] \/ (d \in dirty' /\ (q = p \/ WorksOn(q, d)))
         /\ \A q \in Procs : WorksOn(q, d) => raced'[q] /\ raced'[p] /\ d \in dirty'
         /\ \A m \in Nodes : boot[m] # "up" /\ d \in Legacy[m] => raced'[p] /\ d \in dirty'
<1>1. d \in CA!Ids
  BY AskedOf DEF CatalogInv
<1>2. /\ \A q \in Procs : q \in CA!AtWork(d) <=> WorksOn(q, d)
      /\ \A m \in Nodes : boot[m] # "up" /\ d \in Legacy[m] => m \in CA!Starting(d)
      /\ CA!AtWork(d) \subseteq Procs
  BY DEF CA!AtWork, CA!Starting, WorksOn, Working
<1>3. pc[p] = "begin" /\ ~raced[p] /\ boot[CA!Node(p)] = "up"
  BY DEF CA!Begin, CatalogInv, Marked
<1>4. CatalogShape'
  BY DEF CA!Begin, CA!Goto, CA!tables, CA!startup, CatalogInv, CatalogShape
<1>5. /\ UNCHANGED <<listed, secrets, snapshots, pools, boot, todo, at, seen, req, changer, filled>>
      /\ \A q \in Procs \ {p} : pc'[q] = pc[q] /\ mem'[q] = mem[q]
      /\ pc'[p] = CA!First(req[p].kind) /\ (Stores(p) => mem'[p] = req[p].settings)
  BY DEF CA!Begin, CA!Goto, CA!tables, CA!startup, CatalogInv, CatalogShape, Stores
<1>6. /\ \A q \in Procs : raced'[q] <=> raced[q] \/ (CA!AtWork(d) \cup CA!Starting(d) # {} /\ q \in CA!AtWork(d) \cup {p})
      /\ dirty' = IF CA!AtWork(d) \cup CA!Starting(d) # {} THEN dirty \cup {d} ELSE dirty
  BY DEF CA!Begin
<1> QED
  BY <1>1, <1>2, <1>3, <1>4, <1>5, <1>6

LEMMA BeginKept ==
  ASSUME CatalogInv, NEW p \in Procs, NEW d, d = CA!Source(p), CA!Begin(p)
  PROVE  CatalogInv'
<1>1. /\ d \in CA!Ids /\ pc[p] = "begin" /\ ~raced[p] /\ boot[CA!Node(p)] = "up" /\ CatalogShape'
      /\ UNCHANGED <<listed, secrets, snapshots, pools, boot, todo, at, seen, req, changer, filled>>
      /\ \A q \in Procs \ {p} : pc'[q] = pc[q] /\ mem'[q] = mem[q]
      /\ pc'[p] = CA!First(req[p].kind) /\ (Stores(p) => mem'[p] = req[p].settings)
      /\ dirty \subseteq dirty' /\ dirty' \subseteq dirty \cup {d}
      /\ \A q \in Procs : raced[q] => raced'[q]
      /\ \A q \in Procs : raced'[q] => raced[q] \/ (d \in dirty' /\ (q = p \/ WorksOn(q, d)))
      /\ \A q \in Procs : WorksOn(q, d) => raced'[q] /\ raced'[p] /\ d \in dirty'
      /\ \A m \in Nodes : boot[m] # "up" /\ d \in Legacy[m] => raced'[p] /\ d \in dirty'
  BY BeginMarks
<1>2. /\ \A q \in Procs : CA!Source(q)' = CA!Source(q) /\ CA!Node(q)' = CA!Node(q)
      /\ \A q \in Procs \ {p} : Working(q)' <=> Working(q)
      /\ ~Working(p)
  BY <1>1 DEF CA!Source, CA!Node, Working, CA!Ended
<1>3. /\ pc'[p] \in {"connect", "find", "merge", "close", "ensure", "note"}
      /\ req[p].kind = "update" => pc'[p] = "find"
      /\ req[p].kind = "add" => pc'[p] = "connect"
      /\ Removes(p) => pc'[p] = "close"
  BY <1>1, AskedOf DEF CA!First, CatalogInv, Removes
<1>4. ASSUME NEW q \in Procs, q # p
      PROVE  Brings(q)' /\ Marked(q)' /\ OnItsWay(q)' /\ FoundClean(q)' /\ Unlisted(q)'
  <2>1. Brings(q)'
    BY <1>1, <1>4 DEF Brings, CatalogInv, Stores
  <2>2. Marked(q)'
    <3>1. Marked(q)
      BY DEF CatalogInv
    <3>2. pc[q] = "begin" => ~WorksOn(q, d)
      BY DEF WorksOn, Working, CA!Ended
    <3>3. \A r \in Procs : q # r /\ Working(q)' /\ Working(r)' /\ CA!Source(q) = CA!Source(r) => raced'[q]
      BY <1>1, <1>2, <1>4, <3>1 DEF Marked, WorksOn
    <3>4. Working(q) /\ raced'[q] => CA!Source(q) \in dirty'
      BY <1>1, <1>4, <3>1 DEF Marked, WorksOn
    <3> QED
      BY <1>1, <1>2, <1>4, <3>1, <3>2, <3>3, <3>4 DEF Marked
  <2>3. OnItsWay(q)'
    BY <1>1, <1>2, <1>4 DEF OnItsWay, CatalogInv, Alone, Stores, Removes, StoresOn, RemovesOn
  <2>4. FoundClean(q)'
    BY <1>1, <1>2, <1>4 DEF FoundClean, CatalogInv, Stores, Removes, Intact, AddsClean, CA!Whole
  <2>5. Unlisted(q)'
    BY <1>1, <1>2, <1>3, <1>4 DEF Unlisted, CatalogInv, WorksOn
  <2> QED
    BY <2>1, <2>2, <2>3, <2>4, <2>5
<1>5. Brings(p)' /\ OnItsWay(p)'
  BY <1>1, <1>3 DEF Brings, OnItsWay, Stores, Removes, StoresOn, RemovesOn
<1>6. Marked(p)'
  BY <1>1, <1>2, <1>3 DEF Marked, WorksOn
<1>7. FoundClean(p)'
  <2>1. d \notin dirty' => CA!Whole(d)
    <3> SUFFICES ASSUME d \notin dirty'  PROVE CA!Whole(d)
      OBVIOUS
    <3>1. LeftWhole(d) /\ (\A q \in Procs : ~WorksOn(q, d)) /\ \A m \in Nodes : d \in Legacy[m] => boot[m] = "up"
      BY <1>1 DEF CatalogInv, CleanSource
    <3> QED
      BY <3>1 DEF LeftWhole, HalfImported
  <2>2. d \notin dirty' => CA!Whole(d)'
    BY <1>1, <2>1 DEF CA!Whole
  <2> QED
    BY <1>1, <1>2, <1>3, <2>2 DEF FoundClean, AddsClean
<1>8. Unlisted(p)'
  <2>1. \A q \in Procs \ {p} : WorksOn(q, p)' => WorksOn(q, p)
    BY <1>2 DEF WorksOn
  <2> QED
    BY <1>1, <1>3, <2>1 DEF Unlisted, CatalogInv
<1>9. ASSUME NEW e \in CA!Ids  PROVE CleanSource(e)'
  <2> SUFFICES ASSUME e \notin dirty'  PROVE CleanSource(e)'
    BY DEF CleanSource
  <2>1. CleanSource(e) /\ e \notin dirty
    BY <1>1 DEF CatalogInv
  <2>2. \A q \in Procs : WorksOn(q, e) => WorksOn(q, e)' /\ pc'[q] = pc[q]
    BY <1>1, <1>2 DEF WorksOn
  <2>3. LeftWhole(e)'
    BY <1>1, <2>1, <2>2 DEF CleanSource, LeftWhole, CA!Whole, HalfImported
  <2>4. ASSUME NEW m \in Nodes  PROVE Connected(m, e)' /\ WillConnect(m, e)' /\ WillImport(m, e)'
    <3>1. Underway(m, e) => Underway(m, e)'
      BY <1>1, <1>2, <2>2 DEF Underway, Stores
    <3> QED
      BY <1>1, <2>1, <3>1 DEF CleanSource, Connected, WillConnect, WillImport, AsFiled
  <2> QED
    BY <2>3, <2>4 DEF CleanSource
<1>10. \A m \in Nodes : Booting(m)'
  BY <1>1 DEF Booting, CatalogInv
<1> QED
  BY <1>1, <1>4, <1>5, <1>6, <1>7, <1>8, <1>9, <1>10 DEF CatalogInv

----------------------------------------------------------------------------
(* A step of a node that starts.  No request works there, and on what it   *)
(* imports none that is not marked.                                        *)
BootAside(n) ==
  /\ CatalogShape' /\ boot[n] # "up"
  /\ UNCHANGED <<req, pc, mem, raced, changer, snapshots>> /\ dirty \subseteq dirty'
  /\ \A m \in Nodes \ {n} :
       /\ boot'[m] = boot[m] /\ todo'[m] = todo[m] /\ at'[m] = at[m] /\ seen'[m] = seen[m]
       /\ pools'[m] = pools[m] /\ filled[m] \subseteq filled'[m]
  /\ \A e \in CA!Ids :
       /\ e \notin Legacy[n] => listed'[e] = listed[e] /\ secrets'[e] = secrets[e]
       /\ secrets'[e] = secrets[e] \/ \A m \in Nodes : e \in filled'[m]
       /\ e \notin dirty' => /\ listed'[e] \in {listed[e], CA!Filed.host}
                             /\ secrets'[e] = secrets[e] \/ (secrets[e] = Gone /\ secrets'[e] = CA!Filed)

LEMMA StartsAlone ==
  ASSUME CatalogInv, NEW n \in Nodes, boot[n] # "up", NEW e \in CA!Ids, e \in Legacy[n], e \notin dirty
  PROVE  CA!Whole(e) \/ HalfImported(e)
<1>1. \A p \in Procs : ~WorksOn(p, e)
  BY DEF CatalogInv, Marked, WorksOn
<1> QED
  BY <1>1 DEF CatalogInv, CleanSource, LeftWhole

LEMMA RequestsAtBoot ==
  ASSUME CatalogInv, NEW n \in Nodes, BootAside(n), NEW p \in Procs
  PROVE  Brings(p)' /\ Marked(p)' /\ OnItsWay(p)' /\ FoundClean(p)' /\ Unlisted(p)'
<1> DEFINE d == CA!Source(p)  k == CA!Node(p)
<1>1. UNCHANGED <<req, pc, mem, raced, changer, snapshots>> /\ dirty \subseteq dirty'
  BY DEF BootAside
<1>2. d \in CA!Ids /\ k \in Nodes /\ p \in CA!Ids /\ \A q \in Procs : CA!Source(q)' = CA!Source(q) /\ CA!Node(q)' = CA!Node(q)
  BY <1>1, AskedOf DEF CatalogInv, CA!Source, CA!Node
<1>3. Working(p) => k # n
  BY DEF BootAside, CatalogInv, Marked
<1>4. Working(p) /\ ~raced[p] => listed'[d] = listed[d] /\ secrets'[d] = secrets[d]
  BY <1>2 DEF BootAside, CatalogInv, Marked
<1>5. Marked(p)'
  <2>1. Marked(p)
    BY DEF CatalogInv
  <2>2. \A m \in Nodes : boot'[m] = "up" \/ boot[m] # "up" \/ m = n
    BY DEF BootAside
  <2>3. Working(p) => boot'[k] = "up"
    BY <1>2, <1>3, <2>1 DEF BootAside, Marked
  <2>4. boot[n] # "up"
    BY DEF BootAside
  <2> QED
    BY <1>1, <1>2, <2>1, <2>2, <2>3, <2>4 DEF Marked, Working
<1>6. Brings(p)'
  BY <1>1 DEF Brings, CatalogInv, Stores
<1>7. OnItsWay(p)'
  <2> SUFFICES ASSUME Working(p), ~raced[p]  PROVE OnItsWay(p)'
    BY <1>1 DEF OnItsWay, Alone, Working
  <2>1. pools'[k][d] = pools[k][d] /\ listed'[d] = listed[d] /\ secrets'[d] = secrets[d]
    BY <1>2, <1>3, <1>4 DEF BootAside
  <2> QED
    BY <1>1, <1>2, <2>1 DEF OnItsWay, CatalogInv, Alone, Working, Stores, Removes, StoresOn, RemovesOn
<1>8. FoundClean(p)'
  <2> SUFFICES ASSUME Working(p), d \notin dirty'  PROVE FoundClean(p)'
    BY <1>1, <1>2 DEF FoundClean, Working
  <2>1. listed'[d] = listed[d] /\ secrets'[d] = secrets[d] /\ d \notin dirty
    BY <1>1, <1>4 DEF CatalogInv, Marked
  <2> QED
    BY <1>1, <1>2, <2>1 DEF FoundClean, CatalogInv, Stores, Removes, Intact, AddsClean, CA!Whole
<1>9. Unlisted(p)'
  <2>1. listed'[p] = listed[p]
    BY <1>2, PlausibleCases DEF BootAside, CA!Plausible
  <2> QED
    BY <1>1, <1>2, <2>1 DEF Unlisted, CatalogInv, WorksOn, Working
<1> QED
  BY <1>5, <1>6, <1>7, <1>8, <1>9

\* What a step of a starting node owes the invariant.
BootOwn(n) ==
  /\ BootAside(n) /\ Booting(n)'
  /\ \A e \in CA!Ids : e \notin dirty' =>
       LeftWhole(e)' /\ Connected(n, e)' /\ WillConnect(n, e)' /\ WillImport(n, e)'

LEMMA BootOwnIsEnough ==
  ASSUME CatalogInv, NEW n \in Nodes, BootOwn(n)
  PROVE  CatalogInv'
<1>1. BootAside(n)
  BY DEF BootOwn
<1>2. \A p \in Procs : Brings(p)' /\ Marked(p)' /\ OnItsWay(p)' /\ FoundClean(p)' /\ Unlisted(p)'
  BY <1>1, RequestsAtBoot
<1>3. ASSUME NEW m \in Nodes, m # n  PROVE Booting(m)'
  <2>1. boot'[m] = boot[m] /\ todo'[m] = todo[m] /\ at'[m] = at[m] /\ filled[m] \subseteq filled'[m]
    BY <1>1, <1>3 DEF BootAside
  <2>2. ASSUME at[m] # Gone  PROVE secrets'[at[m]] = Gone \/ at[m] \in filled'[m]
    <3>1. at[m] \in CA!Ids /\ (secrets[at[m]] = Gone \/ at[m] \in filled[m])
      BY <2>2, PlausibleCases DEF CatalogInv, Booting, CA!Plausible, CA!Ids
    <3> QED
      BY <1>1, <2>1, <3>1 DEF BootAside
  <2> QED
    BY <2>1, <2>2 DEF Booting, CatalogInv
<1>4. ASSUME NEW e \in CA!Ids  PROVE CleanSource(e)'
  <2> SUFFICES ASSUME e \notin dirty'  PROVE CleanSource(e)'
    BY DEF CleanSource
  <2>1. CleanSource(e) /\ e \notin dirty
    BY <1>1 DEF CatalogInv, BootAside
  <2>2. ASSUME NEW m \in Nodes, m # n  PROVE Connected(m, e)' /\ WillConnect(m, e)' /\ WillImport(m, e)'
    <3>1. /\ boot'[m] = boot[m] /\ todo'[m] = todo[m] /\ at'[m] = at[m] /\ seen'[m] = seen[m]
          /\ pools'[m] = pools[m] /\ UNCHANGED <<req, pc, changer, snapshots>>
          /\ listed'[e] \in {listed[e], CA!Filed.host}
          /\ secrets'[e] = secrets[e] \/ (secrets[e] = Gone /\ secrets'[e] = CA!Filed)
      BY <1>1, <2>2 DEF BootAside
    <3>2. Underway(m, e) => Underway(m, e)'
      BY <3>1 DEF Underway, CA!Node, CA!Source, Stores, WorksOn, Working
    <3>3. Connected(m, e)'
      BY <2>1, <3>1, <3>2 DEF CleanSource, Connected
    <3>4. WillConnect(m, e)'
      BY <2>1, <3>1 DEF CleanSource, WillConnect
    <3>5. WillImport(m, e)'
      BY <2>1, <3>1 DEF CleanSource, WillImport, AsFiled, CA!Filed, CA!Settings
    <3> QED
      BY <3>3, <3>4, <3>5
  <2> QED
    BY <2>2 DEF CleanSource, BootOwn
<1> QED
  BY <1>1, <1>2, <1>3, <1>4 DEF CatalogInv, BootOwn, BootAside

\* A node that starts, and a source that is not dirty.
Waits(n, e) == boot[n] \in {"list", "catalog", "notes"} \/ (boot[n] = "secrets" /\ e \in todo[n])

LEMMA BootStanding ==
  ASSUME CatalogInv, NEW n \in Nodes, boot[n] # "up", NEW e \in CA!Ids, e \notin dirty
  PROVE  /\ e \in Legacy[n] => CA!Whole(e) \/ HalfImported(e)
         /\ ~Underway(n, e)
         /\ pools[n][e] # Gone => pools[n][e] = secrets[e] \/ changer[e] \notin {Gone, n}
         /\ WillConnect(n, e) /\ WillImport(n, e)
<1>1. ~Underway(n, e)
  BY DEF CatalogInv, Marked, Underway, WorksOn
<1> QED
  BY <1>1, StartsAlone DEF CatalogInv, CleanSource, Connected

LEMMA LeftWholeStays ==
  ASSUME CatalogInv, NEW n \in Nodes, BootAside(n), NEW e \in CA!Ids, e \notin dirty',
         listed'[e] = listed[e], secrets'[e] = secrets[e],
         e \in Legacy[n] /\ secrets[e] = Gone /\ Waits(n, e) => Waits(n, e)'
  PROVE  LeftWhole(e)'
<1>1. /\ UNCHANGED <<req, pc, snapshots>> /\ LeftWhole(e)
      /\ \A m \in Nodes \ {n} : boot'[m] = boot[m] /\ todo'[m] = todo[m]
  BY DEF BootAside, CatalogInv, CleanSource
<1>2. \A q \in Procs : WorksOn(q, e) <=> WorksOn(q, e)'
  BY <1>1 DEF WorksOn, Working, CA!Source
<1>3. CA!Whole(e) => CA!Whole(e)'
  BY <1>1 DEF CA!Whole
<1>4. HalfImported(e) => HalfImported(e)'
  <2>1. HalfImported(e) => \E m \in Nodes : e \in Legacy[m] /\ Waits(m, e)
    BY DEF HalfImported, Waits
  <2>2. \A m \in Nodes : HalfImported(e) /\ e \in Legacy[m] /\ Waits(m, e) => Waits(m, e)'
    BY <1>1 DEF Waits, HalfImported
  <2> QED
    BY <1>1, <2>1, <2>2 DEF HalfImported, Waits
<1> QED
  BY <1>1, <1>2, <1>3, <1>4 DEF LeftWhole

LEMMA PlainBoot ==
  ASSUME CatalogInv, NEW n \in Nodes, BootAside(n), Booting(n)', UNCHANGED <<listed, secrets, pools>>,
         \A e \in CA!Ids : e \notin dirty' =>
           (e \in Legacy[n] /\ secrets[e] = Gone /\ Waits(n, e) => Waits(n, e)') /\ WillConnect(n, e)' /\ WillImport(n, e)'
  PROVE  CatalogInv'
<1>1. ASSUME NEW e \in CA!Ids, e \notin dirty'  PROVE LeftWhole(e)' /\ Connected(n, e)'
  <2>1. LeftWhole(e)'
    BY <1>1, LeftWholeStays
  <2>2. e \notin dirty /\ boot[n] # "up" /\ changer' = changer
    BY <1>1 DEF BootAside
  <2> QED
    BY <2>1, <2>2, BootStanding DEF Connected
<1> QED
  BY <1>1, BootOwnIsEnough DEF BootOwn

LEMMA LookAtListKept ==
  ASSUME CatalogInv, NEW n \in Nodes, CA!LookAtList(n)
  PROVE  CatalogInv'
<1> USE DEF CA!BootKeeps, CA!BootTo, CA!Left, CA!tables, CA!Empty
<1>1. BootAside(n)
  BY DEF CA!LookAtList, BootAside, CatalogInv, CatalogShape
<1>2. Booting(n)'
  BY DEF CA!LookAtList, Booting, CatalogInv, CatalogShape
<1>3. UNCHANGED <<listed, secrets, pools>>
  BY DEF CA!LookAtList
<1>4. ASSUME NEW e \in CA!Ids, e \notin dirty'
      PROVE  (e \in Legacy[n] /\ secrets[e] = Gone /\ Waits(n, e) => Waits(n, e)') /\ WillConnect(n, e)' /\ WillImport(n, e)'
  <2>1. CatalogShape /\ Booting(n) /\ e \notin dirty /\ boot[n] # "up" /\ UNCHANGED <<listed, secrets, snapshots, changer>>
    BY <1>1, <1>3, <1>4 DEF CatalogInv, BootAside
  <2>2. WillConnect(n, e) /\ WillImport(n, e) /\ (AsFiled(e) => AsFiled(e)')
    BY <2>1, BootStanding DEF AsFiled
  <2>3. WillConnect(n, e)'
    BY <2>1, <2>2 DEF CA!LookAtList, WillConnect, CatalogShape
  <2>4. WillImport(n, e)'
    <3>1. e \in Legacy[n] /\ listed[e] = Gone => AsFiled(e)
      BY <2>1, BootStanding DEF CA!Whole, HalfImported, AsFiled
    <3> QED
      BY <2>1, <2>2, <3>1 DEF CA!LookAtList, WillImport, CatalogShape, Booting
  <2>5. e \in Legacy[n] /\ secrets[e] = Gone /\ Waits(n, e) => Waits(n, e)'
    BY <1>4, <2>1 DEF CA!LookAtList, Waits, CatalogShape, Booting
  <2> QED
    BY <2>3, <2>4, <2>5
<1> QED
  BY <1>1, <1>2, <1>3, <1>4, PlainBoot

LEMMA ImportNoteKept ==
  ASSUME CatalogInv, NEW n \in Nodes, CA!ImportNote(n)
  PROVE  CatalogInv'
<1> USE DEF CA!BootKeeps, CA!BootTo, CA!Left, CA!tables
<1>1. BootAside(n)
  BY DEF CA!ImportNote, BootAside, CatalogInv, CatalogShape
<1>2. Booting(n)'
  BY DEF CA!ImportNote, Booting, CatalogInv, CatalogShape
<1>3. UNCHANGED <<listed, secrets, pools>>
  BY DEF CA!ImportNote
<1>4. ASSUME NEW e \in CA!Ids, e \notin dirty'
      PROVE  (e \in Legacy[n] /\ secrets[e] = Gone /\ Waits(n, e) => Waits(n, e)') /\ WillConnect(n, e)' /\ WillImport(n, e)'
  <2>1. CatalogShape /\ Booting(n) /\ e \notin dirty /\ boot[n] # "up" /\ UNCHANGED <<listed, secrets, snapshots, changer>>
    BY <1>1, <1>3, <1>4 DEF CatalogInv, BootAside
  <2>2. WillConnect(n, e) /\ WillImport(n, e) /\ (AsFiled(e) => AsFiled(e)')
    BY <2>1, BootStanding DEF AsFiled
  <2>3. WillConnect(n, e)'
    BY <2>1, <2>2 DEF CA!ImportNote, WillConnect, CatalogShape
  <2>4. WillImport(n, e)'
    BY <2>1, <2>2 DEF CA!ImportNote, WillImport, CatalogShape, Booting
  <2>5. e \in Legacy[n] /\ secrets[e] = Gone /\ Waits(n, e) => Waits(n, e)'
    BY <1>4, <2>1 DEF CA!ImportNote, Waits, CatalogShape, Booting
  <2> QED
    BY <2>3, <2>4, <2>5
<1> QED
  BY <1>1, <1>2, <1>3, <1>4, PlainBoot

LEMMA LookForSecretKept ==
  ASSUME CatalogInv, NEW n \in Nodes, CA!LookForSecret(n)
  PROVE  CatalogInv'
<1> USE DEF CA!BootKeeps, CA!BootTo, CA!Left, CA!tables, CA!Missing
<1>1. BootAside(n)
  BY DEF CA!LookForSecret, BootAside, CatalogInv, CatalogShape
<1>2. Booting(n)'
  BY DEF CA!LookForSecret, Booting, CatalogInv, CatalogShape
<1>3. UNCHANGED <<listed, secrets, pools>>
  BY DEF CA!LookForSecret
<1>4. ASSUME NEW e \in CA!Ids, e \notin dirty'
      PROVE  (e \in Legacy[n] /\ secrets[e] = Gone /\ Waits(n, e) => Waits(n, e)') /\ WillConnect(n, e)' /\ WillImport(n, e)'
  <2>1. CatalogShape /\ Booting(n) /\ e \notin dirty /\ boot[n] # "up" /\ UNCHANGED <<listed, secrets, snapshots, changer>>
    BY <1>1, <1>3, <1>4 DEF CatalogInv, BootAside
  <2>2. WillConnect(n, e) /\ WillImport(n, e) /\ (AsFiled(e) => AsFiled(e)')
    BY <2>1, BootStanding DEF AsFiled
  <2>3. WillConnect(n, e)'
    BY <2>1, <2>2 DEF CA!LookForSecret, WillConnect, CatalogShape
  <2>4. WillImport(n, e)'
    <3>1. e \in Legacy[n] /\ secrets[e] = Gone => AsFiled(e)
      BY <2>1, PlausibleCases, BootStanding DEF CA!Whole, HalfImported, AsFiled, CA!Plausible
    <3> QED
      BY <2>1, <2>2, <3>1 DEF CA!LookForSecret, WillImport, CatalogShape, Booting
  <2>5. e \in Legacy[n] /\ secrets[e] = Gone /\ Waits(n, e) => Waits(n, e)'
    BY <1>4, <2>1 DEF CA!LookForSecret, Waits, CatalogShape, Booting
  <2> QED
    BY <2>3, <2>4, <2>5
<1> QED
  BY <1>1, <1>2, <1>3, <1>4, PlainBoot

LEMMA ReadSecretsKept ==
  ASSUME CatalogInv, NEW n \in Nodes, CA!ReadSecrets(n)
  PROVE  CatalogInv'
<1> USE DEF CA!BootKeeps, CA!BootTo, CA!Left, CA!tables
<1>1. BootAside(n)
  BY DEF CA!ReadSecrets, BootAside, CatalogInv, CatalogShape
<1>2. Booting(n)'
  BY DEF CA!ReadSecrets, Booting, CatalogInv, CatalogShape
<1>3. UNCHANGED <<listed, secrets, pools>>
  BY DEF CA!ReadSecrets
<1>4. ASSUME NEW e \in CA!Ids, e \notin dirty'
      PROVE  (e \in Legacy[n] /\ secrets[e] = Gone /\ Waits(n, e) => Waits(n, e)') /\ WillConnect(n, e)' /\ WillImport(n, e)'
  <2>1. CatalogShape /\ Booting(n) /\ e \notin dirty /\ boot[n] # "up" /\ UNCHANGED <<listed, secrets, snapshots, changer>>
    BY <1>1, <1>3, <1>4 DEF CatalogInv, BootAside
  <2>2. WillConnect(n, e) /\ WillImport(n, e) /\ (AsFiled(e) => AsFiled(e)')
    BY <2>1, BootStanding DEF AsFiled
  <2>3. WillConnect(n, e)'
    BY <2>1, <2>2 DEF CA!ReadSecrets, WillConnect, CatalogShape
  <2>4. WillImport(n, e)'
    BY <2>1, <2>2 DEF CA!ReadSecrets, WillImport, CatalogShape, Booting
  <2>5. e \in Legacy[n] /\ secrets[e] = Gone /\ Waits(n, e) => Waits(n, e)'
    BY <1>4, <2>1 DEF CA!ReadSecrets, Waits, CatalogShape, Booting
  <2> QED
    BY <2>3, <2>4, <2>5
<1> QED
  BY <1>1, <1>2, <1>3, <1>4, PlainBoot

LEMMA NextStageKept ==
  ASSUME CatalogInv, NEW n \in Nodes, CA!NextStage(n)
  PROVE  CatalogInv'
<1> USE DEF CA!BootKeeps, CA!BootTo, CA!Left, CA!tables
<1>1. BootAside(n)
  BY DEF CA!NextStage, BootAside, CatalogInv, CatalogShape
<1>2. Booting(n)'
  BY DEF CA!NextStage, Booting, CatalogInv, CatalogShape
<1>3. UNCHANGED <<listed, secrets, pools>>
  BY DEF CA!NextStage
<1>4. ASSUME NEW e \in CA!Ids, e \notin dirty'
      PROVE  (e \in Legacy[n] /\ secrets[e] = Gone /\ Waits(n, e) => Waits(n, e)') /\ WillConnect(n, e)' /\ WillImport(n, e)'
  <2>1. CatalogShape /\ Booting(n) /\ e \notin dirty /\ boot[n] # "up" /\ UNCHANGED <<listed, secrets, snapshots, changer>>
    BY <1>1, <1>3, <1>4 DEF CatalogInv, BootAside
  <2>2. WillConnect(n, e) /\ WillImport(n, e) /\ (AsFiled(e) => AsFiled(e)')
    BY <2>1, BootStanding DEF AsFiled
  <2>3. WillConnect(n, e)'
    BY <2>1, <2>2 DEF CA!NextStage, WillConnect, CatalogShape
  <2>4. WillImport(n, e)'
    BY <2>1, <2>2 DEF CA!NextStage, WillImport, CatalogShape, Booting
  <2>5. e \in Legacy[n] /\ secrets[e] = Gone /\ Waits(n, e) => Waits(n, e)'
    BY <1>4, <2>1 DEF CA!NextStage, Waits, CatalogShape, Booting
  <2> QED
    BY <2>3, <2>4, <2>5
<1> QED
  BY <1>1, <1>2, <1>3, <1>4, PlainBoot

LEMMA BootFailsKept ==
  ASSUME CatalogInv, NEW n \in Nodes, CA!BootFails(n)
  PROVE  CatalogInv'
<1> USE DEF CA!BootKeeps, CA!BootTo, CA!Left, CA!tables
<1>1. BootAside(n)
  BY DEF CA!BootFails, BootAside, CatalogInv, CatalogShape
<1>2. Booting(n)'
  BY DEF CA!BootFails, Booting, CatalogInv, CatalogShape
<1>3. UNCHANGED <<listed, secrets, pools>>
  BY DEF CA!BootFails
<1>4. ASSUME NEW e \in CA!Ids, e \notin dirty'
      PROVE  (e \in Legacy[n] /\ secrets[e] = Gone /\ Waits(n, e) => Waits(n, e)') /\ WillConnect(n, e)' /\ WillImport(n, e)'
  <2>1. CatalogShape /\ Booting(n) /\ e \notin dirty /\ boot[n] # "up" /\ UNCHANGED <<listed, secrets, snapshots, changer>>
    BY <1>1, <1>3, <1>4 DEF CatalogInv, BootAside
  <2>2. WillConnect(n, e) /\ WillImport(n, e) /\ (AsFiled(e) => AsFiled(e)')
    BY <2>1, BootStanding DEF AsFiled
  <2>3. WillConnect(n, e)'
    BY <2>1, <2>2 DEF CA!BootFails, WillConnect, CatalogShape
  <2>4. WillImport(n, e)'
    <3>1. at'[n] = at[n] \/ at'[n] = Gone
      BY <2>1 DEF CA!BootFails, CatalogShape
    <3>2. boot'[n] # "catalog"
      BY <2>1 DEF CA!BootFails, CatalogShape
    <3>3. e # Gone
      BY PlausibleCases DEF CA!Plausible
    <3> QED
      BY <2>2, <3>1, <3>2, <3>3 DEF WillImport
  <2>5. e \in Legacy[n] /\ secrets[e] = Gone /\ Waits(n, e) => Waits(n, e)'
    BY <1>4, <2>1 DEF CA!BootFails, Waits, CatalogShape, Booting
  <2> QED
    BY <2>3, <2>4, <2>5
<1> QED
  BY <1>1, <1>2, <1>3, <1>4, PlainBoot

\* What a start imports into the list is whole, or its settings still come.
LEMMA ImportRowKept ==
  ASSUME CatalogInv, NEW n \in Nodes, CA!ImportRow(n)
  PROVE  CatalogInv'
<1> USE DEF CA!BootKeeps, CA!Left
<1>1. PICK d \in todo[n] : /\ listed' = [listed EXCEPT ![d] = CA!Filed.host]
                           /\ todo' = [todo EXCEPT ![n] = @ \ {d}]
  BY DEF CA!ImportRow
<1>2. /\ boot[n] = "catalog" /\ d \in Legacy[n] /\ d \in CA!Ids /\ CatalogShape
      /\ UNCHANGED <<secrets, snapshots, pools, at, seen, boot, req, pc, mem, raced, dirty, changer, filled>>
  BY <1>1, PlausibleCases DEF CA!ImportRow, CatalogInv, Booting, CA!Plausible, CA!Ids
<1>3. BootAside(n)
  BY <1>1, <1>2 DEF BootAside, CatalogShape
<1>4. Booting(n)'
  BY <1>1, <1>2 DEF Booting, CatalogInv, CatalogShape
<1>5. ASSUME NEW e \in CA!Ids, e \notin dirty'
      PROVE  LeftWhole(e)' /\ Connected(n, e)' /\ WillConnect(n, e)' /\ WillImport(n, e)'
  <2>1. e \notin dirty /\ WillImport(n, e) /\ (e \in Legacy[n] => CA!Whole(e) \/ HalfImported(e))
    BY <1>2, <1>5, BootStanding
  <2>2. LeftWhole(e)'
    <3>1. CASE e # d
      BY <1>1, <1>2, <1>3, <1>5, <3>1, LeftWholeStays DEF Waits, CatalogShape
    <3>2. CASE e = d
      <4>1. AsFiled(d)
        BY <1>2, <2>1, <3>2 DEF WillImport
      <4>2. /\ listed'[d] = CA!Filed.host /\ listed'[d] # Gone /\ CA!Filed # Gone
            /\ secrets'[d] = secrets[d] /\ snapshots'[d] = snapshots[d]
        BY <1>1, <1>2, PlausibleCases DEF CatalogShape, CA!Plausible
      <4>3. CASE secrets[d] = CA!Filed
        <5>1. CA!Whole(d)'
          BY <4>1, <4>2, <4>3 DEF CA!Whole, AsFiled
        <5> QED
          BY <3>2, <5>1 DEF LeftWhole
      <4>4. CASE secrets[d] = Gone
        <5>1. snapshots[d] = Gone
          BY <1>2, <2>1, <3>2, <4>2, <4>4 DEF CA!Whole, HalfImported
        <5>2. HalfImported(d)'
          BY <1>2, <4>2, <4>4, <5>1 DEF HalfImported
        <5> QED
          BY <3>2, <5>2 DEF LeftWhole
      <4> QED
        BY <4>1, <4>3, <4>4 DEF AsFiled
    <3> QED
      BY <3>1, <3>2
  <2>3. Connected(n, e)'
    BY <1>2, <2>1, BootStanding DEF Connected
  <2>4. WillConnect(n, e)'
    BY <1>2 DEF WillConnect
  <2>5. WillImport(n, e)'
    BY <1>1, <1>2, <2>1 DEF WillImport, AsFiled, CatalogShape
  <2> QED
    BY <2>2, <2>3, <2>4, <2>5
<1> QED
  BY <1>3, <1>4, <1>5, BootOwnIsEnough DEF BootOwn

\* And whole once its settings are stored.
LEMMA StoreSecretKept ==
  ASSUME CatalogInv, NEW n \in Nodes, NEW d, d = at[n], CA!StoreSecret(n)
  PROVE  CatalogInv'
<1> USE DEF CA!BootKeeps, CA!Left
<1>1. /\ boot[n] = "secrets" /\ d # Gone /\ d \in todo[n] /\ d \in Legacy[n] /\ d \in CA!Ids /\ CatalogShape
      /\ secrets' = [secrets EXCEPT ![d] = CA!Filed]
      /\ filled' = [m \in Nodes |-> filled[m] \cup {d}]
      /\ at' = [at EXCEPT ![n] = Gone] /\ todo' = [todo EXCEPT ![n] = @ \ {d}]
      /\ UNCHANGED <<listed, snapshots, pools, seen, boot, req, pc, mem, raced, dirty, changer>>
  BY PlausibleCases DEF CA!StoreSecret, CatalogInv, Booting, CA!Plausible, CA!Ids
<1>2. d \notin dirty => AsFiled(d)
  BY <1>1, BootStanding DEF WillImport
<1>3. BootAside(n)
  BY <1>1, <1>2 DEF BootAside, CatalogShape, AsFiled
<1>4. Booting(n)'
  BY <1>1 DEF Booting, CatalogInv, CatalogShape
<1>5. ASSUME NEW e \in CA!Ids, e \notin dirty'
      PROVE  LeftWhole(e)' /\ Connected(n, e)' /\ WillConnect(n, e)' /\ WillImport(n, e)'
  <2>1. e \notin dirty
    BY <1>1, <1>5
  <2>2. LeftWhole(e)'
    <3>1. CASE e # d
      BY <1>1, <1>3, <1>5, <3>1, LeftWholeStays DEF Waits, CatalogShape
    <3>2. CASE e = d
      <4>1. /\ secrets'[d] = CA!Filed /\ CA!Filed # Gone /\ CA!Filed.host # Gone
            /\ listed'[d] = listed[d] /\ snapshots'[d] = snapshots[d]
        BY <1>1, PlausibleCases DEF CatalogShape, CA!Plausible
      <4>2. CA!Whole(d)'
        BY <1>1, <1>2, <2>1, <3>2, <4>1 DEF CA!Whole, AsFiled
      <4> QED
        BY <3>2, <4>2 DEF LeftWhole
    <3> QED
      BY <3>1, <3>2
  <2>3. Connected(n, e)'
    BY <1>1, <1>2, <2>1, BootStanding DEF Connected, AsFiled, CatalogShape
  <2>4. WillConnect(n, e)'
    BY <1>1 DEF WillConnect
  <2>5. WillImport(n, e)'
    BY <1>1, <1>5, PlausibleCases DEF WillImport, CatalogShape, CA!Plausible
  <2> QED
    BY <2>2, <2>3, <2>4, <2>5
<1> QED
  BY <1>3, <1>4, <1>5, BootOwnIsEnough DEF BootOwn

\* A connection restored shows the settings read, which are those saved.
LEMMA RestoreKept ==
  ASSUME CatalogInv, NEW n \in Nodes, CA!Restore(n)
  PROVE  CatalogInv'
<1> USE DEF CA!BootKeeps, CA!Left, CA!tables
<1>1. PICK d \in todo[n] :
        /\ pools' = IF CA!Accepts(seen[n][d]) THEN CA!Opened(n, d, seen[n][d]) ELSE pools
        /\ todo' = [todo EXCEPT ![n] = @ \ {d}]
  BY DEF CA!Restore
<1>2. /\ boot[n] = "restore" /\ CatalogShape
      /\ UNCHANGED <<listed, secrets, snapshots, at, seen, boot, req, pc, mem, raced, dirty, changer, filled>>
  BY DEF CA!Restore, CatalogInv
<1>3. BootAside(n)
  BY <1>1, <1>2 DEF BootAside, CatalogShape, CA!Opened
<1>4. Booting(n)'
  BY <1>1, <1>2 DEF Booting, CatalogInv, CatalogShape
<1>5. ASSUME NEW e \in CA!Ids, e \notin dirty'
      PROVE  LeftWhole(e)' /\ Connected(n, e)' /\ WillConnect(n, e)' /\ WillImport(n, e)'
  <2>1. e \notin dirty /\ WillConnect(n, e) /\ WillImport(n, e)
    BY <1>2, <1>5, BootStanding
  <2>2. LeftWhole(e)'
    BY <1>2, <1>3, <1>5, LeftWholeStays DEF Waits
  <2>3. Connected(n, e)'
    <3>1. CASE pools'[n][e] = pools[n][e]
      BY <1>2, <2>1, <3>1, BootStanding DEF Connected
    <3>2. CASE pools'[n][e] # pools[n][e]
      <4>1. e = d /\ CA!Accepts(seen[n][d]) /\ pools'[n][e] = seen[n][d]
        BY <1>1, <1>2, <3>2 DEF CatalogShape, CA!Opened
      <4> QED
        BY <1>2, <2>1, <4>1 DEF Connected, WillConnect, CA!Accepts
    <3> QED
      BY <3>1, <3>2
  <2>4. WillConnect(n, e)'
    BY <1>1, <1>2, <2>1 DEF WillConnect, CatalogShape
  <2>5. WillImport(n, e)'
    BY <1>1, <1>2, <2>1 DEF WillImport, AsFiled, CatalogShape
  <2> QED
    BY <2>2, <2>3, <2>4, <2>5
<1> QED
  BY <1>3, <1>4, <1>5, BootOwnIsEnough DEF BootOwn

(* A node dies.  Its requests end, and leave their sources whole or dirty; *)
(* whoever works elsewhere on what it may import is marked.                *)
Hit(p, n) == CA!Node(p) = n /\ Working(p)

LEMMA CrashMarks ==
  ASSUME CatalogInv, NEW n \in Nodes, CA!Crash(n)
  PROVE  /\ CatalogShape' /\ UNCHANGED <<listed, secrets, snapshots, todo, at, seen, req, changer, filled>>
         /\ boot[n] = "up" /\ boot'[n] = "list" /\ todo[n] = {} /\ at[n] = Gone
         /\ \A m \in Nodes \ {n} : boot'[m] = boot[m] /\ pools'[m] = pools[m]
         /\ \A e \in CA!Ids : pools'[n][e] = Gone
         /\ \A p \in Procs : Hit(p, n) => pc'[p] = "error"
         /\ \A p \in Procs : ~Hit(p, n) => pc'[p] = pc[p] /\ mem'[p] = mem[p]
         /\ \A p \in Procs : raced'[p] <=> raced[p] \/ (Working(p) /\ ~Hit(p, n) /\ CA!Source(p) \in Legacy[n])
         /\ dirty \subseteq dirty'
         /\ \A p \in Procs : Working(p) /\ ~Hit(p, n) /\ CA!Source(p) \in Legacy[n] => CA!Source(p) \in dirty'
         /\ \A p \in Procs : Hit(p, n) /\ CA!Source(p) \notin dirty' => req[p].kind \in {"test", "query", "annotate"}
<1> DEFINE hit == {p \in Procs : CA!Node(p) = n /\ pc[p] \notin CA!Ended}
           others == {p \in Procs \ hit : pc[p] \notin CA!Ended /\ CA!Source(p) \in Legacy[n]}
<1>1. /\ \A p \in Procs : p \in hit <=> Hit(p, n)
      /\ \A p \in Procs : p \in others <=> Working(p) /\ ~Hit(p, n) /\ CA!Source(p) \in Legacy[n]
  BY DEF Hit, Working
<1>2. /\ pc' = [p \in Procs |-> IF p \in hit THEN "error" ELSE pc[p]]
      /\ mem' = [p \in Procs |-> IF p \in hit THEN Gone ELSE mem[p]]
      /\ raced' = [p \in Procs |-> raced[p] \/ p \in others]
      /\ dirty' = dirty \cup {CA!Source(p) : p \in others \cup {q \in hit : CA!Changes(q) \/ req[q].kind = "sync"}}
      /\ boot[n] = "up" /\ boot' = [boot EXCEPT ![n] = "list"] /\ pools' = [pools EXCEPT ![n] = CA!NoPools]
      /\ UNCHANGED <<listed, secrets, snapshots, todo, at, seen, req, changer, filled>>
  BY DEF CA!Crash, CA!tables
<1> HIDE DEF hit, others
<1>3. CatalogShape'
  BY <1>2 DEF CatalogInv, CatalogShape, CA!NoPools
<1>4. todo[n] = {} /\ at[n] = Gone
  BY <1>2 DEF CatalogInv, Booting
<1>5. /\ boot'[n] = "list" /\ \A m \in Nodes \ {n} : boot'[m] = boot[m] /\ pools'[m] = pools[m]
      /\ \A e \in CA!Ids : pools'[n][e] = Gone
  BY <1>2 DEF CatalogInv, CatalogShape, CA!NoPools
<1>6. /\ \A p \in Procs : Hit(p, n) => pc'[p] = "error"
      /\ \A p \in Procs : ~Hit(p, n) => pc'[p] = pc[p] /\ mem'[p] = mem[p]
      /\ \A p \in Procs : raced'[p] <=> raced[p] \/ (Working(p) /\ ~Hit(p, n) /\ CA!Source(p) \in Legacy[n])
  BY <1>1, <1>2
<1>7. /\ dirty \subseteq dirty'
      /\ \A p \in Procs : Working(p) /\ ~Hit(p, n) /\ CA!Source(p) \in Legacy[n] => CA!Source(p) \in dirty'
  BY <1>1, <1>2
<1>8. \A p \in Procs : Hit(p, n) /\ CA!Source(p) \notin dirty' => req[p].kind \in {"test", "query", "annotate"}
  <2>1. \A p \in Procs : req[p].kind \in {"add", "update", "remove", "test", "sync", "query", "annotate"}
    BY AskedOf DEF CatalogInv
  <2>2. \A p \in Procs : p \in hit /\ (CA!Changes(p) \/ req[p].kind = "sync") => CA!Source(p) \in dirty'
    BY <1>2
  <2> QED
    BY <1>1, <2>1, <2>2 DEF CA!Changes
<1> QED
  BY <1>2, <1>3, <1>4, <1>5, <1>6, <1>7, <1>8

LEMMA CrashKept ==
  ASSUME CatalogInv, NEW n \in Nodes, CA!Crash(n)
  PROVE  CatalogInv'
<1>1. /\ CatalogShape' /\ UNCHANGED <<listed, secrets, snapshots, todo, at, seen, req, changer, filled>>
      /\ boot[n] = "up" /\ boot'[n] = "list" /\ todo[n] = {} /\ at[n] = Gone
      /\ \A m \in Nodes \ {n} : boot'[m] = boot[m] /\ pools'[m] = pools[m]
      /\ \A e \in CA!Ids : pools'[n][e] = Gone
  BY CrashMarks
<1>2. /\ \A p \in Procs : Hit(p, n) => pc'[p] = "error"
      /\ \A p \in Procs : ~Hit(p, n) => pc'[p] = pc[p] /\ mem'[p] = mem[p]
      /\ \A p \in Procs : raced'[p] <=> raced[p] \/ (Working(p) /\ ~Hit(p, n) /\ CA!Source(p) \in Legacy[n])
      /\ dirty \subseteq dirty'
      /\ \A p \in Procs : Working(p) /\ ~Hit(p, n) /\ CA!Source(p) \in Legacy[n] => CA!Source(p) \in dirty'
      /\ \A p \in Procs : Hit(p, n) /\ CA!Source(p) \notin dirty' => req[p].kind \in {"test", "query", "annotate"}
  BY CrashMarks
<1>3. /\ \A q \in Procs : CA!Source(q)' = CA!Source(q) /\ CA!Node(q)' = CA!Node(q)
      /\ \A q \in Procs : Working(q)' <=> Working(q) /\ ~Hit(q, n)
  BY <1>1, <1>2 DEF CA!Source, CA!Node, Working, CA!Ended
<1>4. ASSUME NEW q \in Procs  PROVE Brings(q)' /\ Marked(q)' /\ OnItsWay(q)' /\ FoundClean(q)' /\ Unlisted(q)'
  <2> DEFINE d == CA!Source(q)  k == CA!Node(q)
  <2>1. Brings(q)'
    BY <1>1, <1>2 DEF Brings, CatalogInv, Stores
  <2>2. Marked(q)'
    <3>1. Marked(q) /\ k \in Nodes
      BY AskedOf DEF CatalogInv
    <3>2. Working(q)' => Working(q) /\ pc'[q] = pc[q] /\ k # n /\ boot'[k] = boot[k]
      BY <1>1, <1>2, <1>3, <3>1 DEF Hit
    <3>3. \A r \in Procs : q # r /\ Working(q)' /\ Working(r)' /\ CA!Source(q)' = CA!Source(r)' => raced'[q]
      BY <1>2, <1>3, <3>1 DEF Marked
    <3>4. Working(q)' /\ raced'[q] => CA!Source(q) \in dirty'
      BY <1>2, <1>3, <3>1 DEF Marked
    <3>5. pc'[q] = "begin" => ~raced'[q]
      <4>1. pc'[q] = "begin" => pc[q] = "begin" /\ ~Working(q)
        BY <1>2 DEF Working, CA!Ended
      <4> QED
        BY <1>2, <3>1, <4>1 DEF Marked
    <3>6. \A m \in Nodes : Working(q)' /\ boot'[m] # "up" /\ CA!Source(q) \in Legacy[m] => raced'[q]
      BY <1>1, <1>2, <1>3, <3>1 DEF Marked
    <3> QED
      BY <1>3, <3>1, <3>2, <3>3, <3>4, <3>5, <3>6 DEF Marked
  <2>3. d \in CA!Ids /\ k \in Nodes /\ (Working(q)' => k # n /\ pools'[k] = pools[k] /\ pc'[q] = pc[q] /\ mem'[q] = mem[q])
    BY <1>1, <1>2, <1>3, AskedOf DEF CatalogInv, Hit
  <2>4. OnItsWay(q)'
    <3>1. SUFFICES ASSUME Working(q)', ~raced'[q]  PROVE OnItsWay(q)'
      BY DEF OnItsWay, Alone
    <3>2. OnItsWay(q) /\ Alone(q)
      BY <1>2, <1>3, <3>1 DEF CatalogInv, Alone
    <3> QED
      BY <1>1, <1>3, <2>3, <3>1, <3>2 DEF OnItsWay, Alone, Stores, Removes, StoresOn, RemovesOn
  <2>5. FoundClean(q)'
    <3>1. SUFFICES ASSUME Working(q)', d \notin dirty'  PROVE FoundClean(q)'
      BY <1>3 DEF FoundClean
    <3>2. FoundClean(q) /\ Working(q) /\ d \notin dirty
      BY <1>2, <1>3, <3>1 DEF CatalogInv
    <3> QED
      BY <1>1, <1>3, <2>3, <3>1, <3>2 DEF FoundClean, Stores, Removes, Intact, AddsClean, CA!Whole
  <2>6. Unlisted(q)'
    <3>1. pc'[q] \in {"begin", "connect", "save"} => pc'[q] = pc[q]
      BY <1>2
    <3>2. \A r \in Procs : WorksOn(r, q)' => WorksOn(r, q) /\ pc'[r] = pc[r]
      BY <1>2, <1>3 DEF WorksOn
    <3> QED
      BY <1>1, <3>1, <3>2 DEF Unlisted, CatalogInv
  <2> QED
    BY <2>1, <2>2, <2>4, <2>5, <2>6
<1>5. ASSUME NEW e \in CA!Ids, e \notin dirty'  PROVE CleanSource(e)'
  <2>1. CleanSource(e) /\ e \notin dirty
    BY <1>2, <1>5 DEF CatalogInv
  <2>2. ASSUME \A p \in Procs : ~WorksOn(p, e)'  PROVE (CA!Whole(e) \/ HalfImported(e))'
    <3>1. CASE \A p \in Procs : ~WorksOn(p, e)
      <4>1. CA!Whole(e) \/ HalfImported(e)
        BY <1>5, <2>1, <3>1 DEF CleanSource, LeftWhole
      <4> QED
        BY <1>1, <4>1 DEF CA!Whole, HalfImported
    <3>2. ASSUME NEW p \in Procs, WorksOn(p, e)  PROVE CA!Whole(e)'
      <4>1. Hit(p, n) /\ Working(p) /\ CA!Source(p) = e
        BY <1>3, <2>2, <3>2 DEF WorksOn
      <4>2. req[p].kind \in {"test", "query", "annotate"}
        BY <1>2, <1>5, <4>1
      <4>3. CA!Whole(e)
        BY <2>1, <4>1, <4>2 DEF CatalogInv, FoundClean, Intact, Stores, Removes
      <4> QED
        BY <1>1, <4>3 DEF CA!Whole
    <3> QED
      BY <3>1, <3>2
  <2>3. LeftWhole(e)'
    BY <2>2 DEF LeftWhole
  <2>4. ASSUME NEW m \in Nodes  PROVE Connected(m, e)' /\ WillConnect(m, e)' /\ WillImport(m, e)'
    <3>1. CASE m = n
      BY <1>1, <3>1, PlausibleCases DEF Connected, WillConnect, WillImport, CA!Plausible
    <3>2. CASE m # n
      <4>1. Underway(m, e) => Underway(m, e)'
        BY <1>1, <1>2, <1>3, <3>2 DEF Underway, Stores, WorksOn, Hit
      <4> QED
        BY <1>1, <1>5, <2>1, <3>2, <4>1 DEF CleanSource, Connected, WillConnect, WillImport, AsFiled
    <3> QED
      BY <3>1, <3>2
  <2> QED
    BY <2>3, <2>4 DEF CleanSource
<1>6. \A e \in CA!Ids : CleanSource(e)'
  BY <1>5 DEF CleanSource
<1>7. \A m \in Nodes : Booting(m)'
  BY <1>1 DEF Booting, CatalogInv
<1> QED
  BY <1>1, <1>4, <1>6, <1>7 DEF CatalogInv

LEMMA CatalogStartsWell == CA!Init => CatalogInv
<1> SUFFICES ASSUME CA!Init  PROVE CatalogInv
  OBVIOUS
<1>1. PICK s \in CatalogStarts :
        /\ listed = [d \in CA!Ids |-> IF d \in s THEN CA!Filed.host ELSE Gone]
        /\ secrets = [d \in CA!Ids |-> IF d \in s THEN CA!Filed ELSE Gone]
  BY DEF CA!Init
<1>2. /\ snapshots = [d \in CA!Ids |-> Gone]
      /\ pools = [n \in Nodes |-> IF n \in Serving THEN secrets ELSE CA!NoPools]
      /\ boot = [n \in Nodes |-> IF n \in Serving THEN "up" ELSE "list"] /\ todo = [n \in Nodes |-> {}]
      /\ at = [n \in Nodes |-> Gone] /\ seen = [n \in Nodes |-> CA!NoPools]
      /\ req \in [Procs -> CatalogAsks] /\ pc = [p \in Procs |-> "begin"] /\ mem = [p \in Procs |-> Gone]
      /\ raced = [p \in Procs |-> FALSE] /\ dirty = {}
      /\ changer = [d \in CA!Ids |-> Gone] /\ filled = [n \in Nodes |-> {}]
  BY DEF CA!Init
<1>3. CatalogShape
  BY <1>1, <1>2 DEF CatalogShape, CA!NoPools
<1>4. \A p \in Procs : pc[p] = "begin" /\ ~Working(p)
  BY <1>2 DEF Working, CA!Ended
<1>5. ASSUME NEW p \in Procs  PROVE Brings(p) /\ Marked(p) /\ OnItsWay(p) /\ FoundClean(p) /\ Unlisted(p)
  <2>1. p \in CA!Ids /\ listed[p] = Gone
    BY <1>1, PlausibleCases DEF CA!Plausible, CA!Ids
  <2> QED
    BY <1>2, <1>4, <2>1 DEF Brings, Marked, OnItsWay, FoundClean, Unlisted, Alone, WorksOn
<1>6. ASSUME NEW d \in CA!Ids  PROVE CleanSource(d)
  <2>1. CA!Whole(d)
    BY <1>1, <1>2, PlausibleCases DEF CA!Whole, CA!Plausible
  <2>2. \A n \in Nodes : Connected(n, d) /\ WillConnect(n, d) /\ WillImport(n, d)
    BY <1>1, <1>2, PlausibleCases DEF Connected, WillConnect, WillImport, CA!NoPools, CA!Plausible
  <2> QED
    BY <2>1, <2>2 DEF CleanSource, LeftWhole
<1>7. \A n \in Nodes : Booting(n)
  BY <1>2 DEF Booting
<1> QED
  BY <1>3, <1>5, <1>6, <1>7 DEF CatalogInv

LEMMA CatalogUntouched ==
  ASSUME CatalogInv, UNCHANGED CA!vars
  PROVE  CatalogInv'
<1>1. UNCHANGED <<listed, secrets, snapshots, pools, boot, todo, at, seen, req, pc, mem, raced, dirty, changer, filled>>
  BY DEF CA!vars, CA!tables, CA!startup, CA!history
<1>2. CatalogShape'
  BY <1>1 DEF CatalogInv, CatalogShape
<1>3. /\ \A p \in Procs : CA!Source(p)' = CA!Source(p) /\ CA!Node(p)' = CA!Node(p) /\ Stores(p)' = Stores(p) /\ Removes(p)' = Removes(p)
      /\ \A p \in Procs : Working(p)' = Working(p) /\ Alone(p)' = Alone(p) /\ Intact(p)' = Intact(p)
      /\ \A p \in Procs : \A d : WorksOn(p, d)' = WorksOn(p, d)
  BY <1>1 DEF CA!Source, CA!Node, Stores, Removes, Working, Alone, Intact, WorksOn
<1>4. ASSUME NEW p \in Procs  PROVE Brings(p)' /\ Marked(p)' /\ OnItsWay(p)' /\ FoundClean(p)' /\ Unlisted(p)'
  <2>1. Brings(p)' /\ Marked(p)'
    BY <1>1, <1>3 DEF Brings, Marked, CatalogInv
  <2>2. OnItsWay(p)'
    BY <1>1, <1>3 DEF OnItsWay, CatalogInv, StoresOn, RemovesOn
  <2>3. FoundClean(p)'
    BY <1>1, <1>3 DEF FoundClean, CatalogInv, AddsClean, CA!Whole
  <2>4. Unlisted(p)'
    BY <1>1, <1>3 DEF Unlisted, CatalogInv
  <2> QED
    BY <2>1, <2>2, <2>3, <2>4
<1>5. ASSUME NEW d \in CA!Ids  PROVE CleanSource(d)'
  <2>1. LeftWhole(d)' = LeftWhole(d)
    BY <1>1, <1>3 DEF LeftWhole, CA!Whole, HalfImported
  <2>2. ASSUME NEW n \in Nodes  PROVE (Connected(n, d) => Connected(n, d)') /\ WillConnect(n, d)' = WillConnect(n, d) /\ WillImport(n, d)' = WillImport(n, d)
    <3>1. Underway(n, d) => Underway(n, d)'
      BY <1>1, <1>3 DEF Underway
    <3> QED
      BY <1>1, <3>1 DEF Connected, WillConnect, WillImport, AsFiled
  <2> QED
    BY <1>1, <2>1, <2>2 DEF CatalogInv, CleanSource
<1>6. \A n \in Nodes : Booting(n)'
  BY <1>1 DEF Booting, CatalogInv
<1> QED
  BY <1>2, <1>4, <1>5, <1>6 DEF CatalogInv

LEMMA CatalogRequests ==
  ASSUME CatalogInv, NEW p \in Procs, CA!Step(p)
  PROVE  CatalogInv'
<1> DEFINE d == CA!Source(p)  n == CA!Node(p)
<1>1. CASE CA!Begin(p) \/ CA!Find(p) \/ CA!Merge(p) \/ CA!Connect(p) \/ CA!Refused(p) \/ CA!Test(p)
  BY <1>1, BeginKept, FindKept, MergeKept, ConnectKept, RefusedKept, TestKept
<1>2. CASE CA!Save(p) \/ CA!SaveFails(p) \/ CA!SaveSecret(p) \/ CA!SecretFails(p) \/ CA!Undo(p) \/ CA!UndoFails(p)
  BY <1>2, SaveKept, SaveFailsKept, SaveSecretKept, SecretFailsKept, UndoKept, UndoFailsKept
<1>3. CASE CA!Ensure(p) \/ CA!Reopen(p) \/ CA!Reconnect(p) \/ CA!ReadTables(p) \/ CA!SaveSnapshot(p) \/ CA!SyncFails(p)
  BY <1>3, EnsureKept, ReopenKept, ReconnectKept, ReadTablesKept, SaveSnapshotKept, SyncFailsKept
<1>4. CASE CA!Close(p) \/ CA!DeleteSecret(p) \/ CA!DeleteSnapshot(p) \/ CA!Delete(p) \/ CA!SnapshotStays(p) \/ CA!RemoveFails(p) \/ CA!Annotate(p)
  BY <1>4, CloseKept, DeleteSecretKept, DeleteSnapshotKept, DeleteKept, SnapshotStaysKept, RemoveFailsKept, AnnotateKept
<1> QED
  BY <1>1, <1>2, <1>3, <1>4 DEF CA!Step

LEMMA CatalogInductive == CA!Spec => []CatalogInv
<1>1. CatalogInv /\ [CA!Next]_(CA!vars) => CatalogInv'
  <2> SUFFICES ASSUME CatalogInv, [CA!Next]_(CA!vars)  PROVE CatalogInv'
    OBVIOUS
  <2>1. CASE UNCHANGED CA!vars
    BY <2>1, CatalogUntouched
  <2>2. ASSUME NEW p \in Procs, CA!Step(p)  PROVE CatalogInv'
    BY <2>2, CatalogRequests
  <2>3. ASSUME NEW n \in Nodes, CA!Boot(n)  PROVE CatalogInv'
    BY <2>3, LookAtListKept, ImportRowKept, ImportNoteKept, LookForSecretKept, StoreSecretKept,
       ReadSecretsKept, RestoreKept, NextStageKept, BootFailsKept, CrashKept DEF CA!Boot
  <2> QED
    BY <2>1, <2>2, <2>3 DEF CA!Next
<1> QED
  BY <1>1, CatalogStartsWell, PTL DEF CA!Spec

\* Once nobody works on a source, nothing of it is still to come.
LEMMA CatalogPromise == CatalogInv => CA!WholeOrDirty /\ CA!ConnectedAsSavedOrElsewhere
<1> SUFFICES ASSUME CatalogInv, NEW d \in CA!Ids, CA!Calm(d), d \notin dirty
             PROVE  /\ CA!Whole(d)
                    /\ \A n \in Nodes : pools[n][d] # Gone => pools[n][d] = secrets[d] \/ changer[d] \notin {Gone, n}
  BY DEF CA!WholeOrDirty, CA!ConnectedAsSavedOrElsewhere
<1>1. \A p \in Procs : ~WorksOn(p, d)
  BY DEF CA!Calm, CA!AtWork, WorksOn, Working
<1>2. ~HalfImported(d)
  BY DEF CA!Calm, CA!Starting, HalfImported
<1>3. \A n \in Nodes : ~Underway(n, d)
  BY <1>1 DEF Underway
<1> QED
  BY <1>1, <1>2, <1>3 DEF CatalogInv, CleanSource, LeftWhole, Connected

LEMMA ImportPromise == CatalogInv => CA!ImportFillsGaps
BY DEF CatalogInv, Booting, CA!ImportFillsGaps

----------------------------------------------------------------------------
(* An external account signs in one member, a way to sign in is left and   *)
(* no binding is lost without an overlap, for any number of members,       *)
(* providers and requests.                                                 *)

\* Every entry has the three fields of ExternalIdentityLink and no others.
Entries(links) == \A l \in links : l = SI!Link(l.provider, l.subject, l.user)

\* What is said of the stored list, and of every list a request has read.
List(links) == Entries(links) /\ SI!LinkedOnceIn(links)

SignInShape ==
  /\ "links" \in DOMAIN db
  /\ DOMAIN mem = Procs
  /\ \A p \in Procs : "links" \in DOMAIN mem[p]

SignInInv ==
  /\ SignInShape
  /\ List(db.links)
  /\ \A p \in Procs : List(mem[p].links)

----------------------------------------------------------------------------
\* The check of BindExternalIdentity is enough for the list it was made on.
LEMMA NewEntry ==
  ASSUME NEW links, List(links), NEW provider, NEW subject, NEW user,
         ~SI!TakenByOther(links, SI!Link(provider, subject, user))
  PROVE  List(SI!WithNew(links, SI!Link(provider, subject, user)))
<1> DEFINE l == SI!Link(provider, subject, user)
<1>1. Entries(SI!WithNew(links, l))
  BY DEF List, Entries, SI!WithNew, SI!Link
<1>2. ASSUME NEW m \in links, m.provider = l.provider, m.subject = l.subject
      PROVE  m = l
  BY <1>2 DEF List, Entries, SI!TakenByOther, SI!Link
<1>3. SI!LinkedOnceIn(SI!WithNew(links, l))
  BY <1>2 DEF List, SI!LinkedOnceIn, SI!WithNew
<1> QED
  BY <1>1, <1>3 DEF List

\* A part of a list is a list.
LEMMA FewerEntries ==
  ASSUME NEW links, List(links), NEW out
  PROVE  List(links \ out)
BY DEF List, Entries, SI!LinkedOnceIn

\* A read takes the stored list, or leaves the list that was read.
LEMMA ListReadKeeps ==
  ASSUME SignInInv, NEW p \in Procs, NEW cell, SI!Read(p, cell)
  PROVE  SignInInv'
<1>1. SignInShape'
  BY DEF SignInInv, SignInShape, SI!Read
<1>2. \A q \in Procs : mem'[q].links = mem[q].links \/ mem'[q].links = db.links
  BY DEF SignInInv, SignInShape, SI!Read
<1>3. db' = db
  BY DEF SI!Read
<1> QED
  BY <1>1, <1>2, <1>3 DEF SignInInv

\* A write of another setting leaves the list; one of the list stores a list.
LEMMA ListWriteKeeps ==
  ASSUME SignInInv, NEW p \in Procs, NEW cell, NEW value, NEW needed, SI!Write(p, cell, value, needed),
         cell = "links" => List(value)
  PROVE  SignInInv'
<1>1. SignInShape' /\ mem' = mem
  BY DEF SignInInv, SignInShape, SI!Write
<1>2. db'.links = IF cell = "links" THEN value ELSE db.links
  BY DEF SignInInv, SignInShape, SI!Write
<1> QED
  BY <1>1, <1>2 DEF SignInInv

\* Steps that leave the settings and what was read of them.
LEMMA SignInOthersKeep ==
  ASSUME SignInInv, UNCHANGED <<db, mem>>
  PROVE  SignInInv'
BY DEF SignInInv, SignInShape

LEMMA ListBindKeeps ==
  ASSUME SignInInv, NEW p \in Procs, NEW kind, NEW provider, NEW subject, NEW user,
         SI!Bind(p, kind, SI!Link(provider, subject, user))
  PROVE  SignInInv'
<1> DEFINE l == SI!Link(provider, subject, user)
<1>1. CASE SI!Read(p, "links")
  BY <1>1, ListReadKeeps
<1>2. CASE ~SI!TakenByOther(mem[p].links, l) /\ SI!Write(p, "links", SI!WithNew(mem[p].links, l), {"links"})
  <2>1. List(mem[p].links)
    BY DEF SignInInv
  <2>2. List(SI!WithNew(mem[p].links, l))
    BY <1>2, <2>1, NewEntry
  <2> QED
    BY <1>2, <2>2, ListWriteKeeps
<1>3. CASE UNCHANGED <<db, mem>>
  BY <1>3, SignInOthersKeep
<1> QED
  BY <1>1, <1>2, <1>3 DEF SI!Bind, SI!Answer

LEMMA ListUnbindKeeps ==
  ASSUME SignInInv, NEW p \in Procs, SI!UnbindExternalIdentity(p)
  PROVE  SignInInv'
<1> DEFINE mine == {l \in mem[p].links : l.user = req[p].user /\ l.provider = req[p].provider}
<1>1. CASE SI!Read(p, "links")
  BY <1>1, ListReadKeeps
<1>2. CASE SI!Write(p, "links", mem[p].links \ mine, {"links", "checked"})
  <2>1. List(mem[p].links \ mine)
    BY FewerEntries DEF SignInInv
  <2> QED
    BY <1>2, <2>1, ListWriteKeeps
<1>3. CASE UNCHANGED <<db, mem>>
  BY <1>3, SignInOthersKeep
<1> QED
  BY <1>1, <1>2, <1>3 DEF SI!UnbindExternalIdentity, SI!Answer

LEMMA ListSettingsKeep ==
  ASSUME SignInInv, NEW p \in Procs, SI!SaveAuthSettings(p) \/ SI!SaveIdentityProviders(p)
  PROVE  SignInInv'
<1>1. ASSUME NEW cell, SI!Read(p, cell) PROVE SignInInv'
  BY <1>1, ListReadKeeps
<1>2. ASSUME NEW value, NEW needed, SI!Write(p, "auth", value, needed) PROVE SignInInv'
  BY <1>2, ListWriteKeeps
<1>3. ASSUME NEW value, NEW needed, SI!Write(p, "providers", value, needed) PROVE SignInInv'
  BY <1>3, ListWriteKeeps
<1>4. CASE UNCHANGED <<db, mem>>
  BY <1>4, SignInOthersKeep
<1>5. CASE SI!SaveAuthSettings(p)
  BY <1>1, <1>2, <1>4, <1>5 DEF SI!SaveAuthSettings, SI!Answer
<1>6. CASE SI!SaveIdentityProviders(p)
  BY <1>1, <1>3, <1>4, <1>6 DEF SI!SaveIdentityProviders, SI!ProvidersUnread, SI!Answer
<1> QED
  BY <1>5, <1>6

LEMMA ListMemberKeeps ==
  ASSUME SignInInv, NEW p \in Procs, SI!UnbindUserExternalIdentity(p) \/ SI!Login(p)
  PROVE  SignInInv'
<1>1. ASSUME NEW cell, SI!Read(p, cell) PROVE SignInInv'
  BY <1>1, ListReadKeeps
<1>2. CASE UNCHANGED <<db, mem>>
  BY <1>2, SignInOthersKeep
<1>3. CASE SI!UnbindUserExternalIdentity(p)
  BY <1>1, <1>2, <1>3 DEF SI!UnbindUserExternalIdentity, SI!Checked, SI!Answer
<1>4. CASE SI!Login(p)
  BY <1>1, <1>2, <1>4 DEF SI!Login, SI!CreateSession, SI!Answer
<1> QED
  BY <1>3, <1>4

----------------------------------------------------------------------------
LEMMA ListsAreLists == SI!Spec => []SignInInv
<1>1. SI!Init => SignInInv
  <2> SUFFICES ASSUME SI!Init PROVE SignInInv
    OBVIOUS
  <2>0. SI!WellFormed(db)
    BY DEF SI!Init
  <2>1. "links" \in DOMAIN db /\ List(db.links)
    BY <2>0 DEF List, Entries, SI!WellFormed, SI!Cells
  <2>2. DOMAIN mem = Procs /\ \A p \in Procs : "links" \in DOMAIN mem[p] /\ mem[p].links = {}
    BY DEF SI!Init
  <2>3. List({})
    BY DEF List, Entries, SI!LinkedOnceIn
  <2> QED
    BY <2>1, <2>2, <2>3 DEF SignInInv, SignInShape
<1>2. SignInInv /\ [SI!Next]_(SI!vars) => SignInInv'
  <2> SUFFICES ASSUME SignInInv, [SI!Next]_(SI!vars) PROVE SignInInv'
    OBVIOUS
  <2>1. CASE UNCHANGED SI!vars
    BY <2>1, SignInOthersKeep DEF SI!vars
  <2>2. ASSUME NEW p \in Procs, SI!Step(p) PROVE SignInInv'
    <3>1. CASE SI!SaveAuthSettings(p) \/ SI!SaveIdentityProviders(p)
      BY <3>1, ListSettingsKeep
    <3>2. CASE SI!BindUserExternalIdentity(p)
      BY <3>2, ListBindKeeps, SignInOthersKeep DEF SI!BindUserExternalIdentity, SI!Answer
    <3>3. CASE SI!UnbindUserExternalIdentity(p) \/ SI!Login(p)
      BY <3>3, ListMemberKeeps
    <3>4. CASE SI!UnbindExternalIdentity(p)
      BY <3>4, ListUnbindKeeps
    <3>5. CASE SI!Bind(p, "oauth", SI!Link(req[p].provider, req[p].subject, req[p].user))
      BY <3>5, ListBindKeeps
    <3>6. CASE SI!Logout(p) \/ SI!OauthLogin(p) \/ SI!OauthProviderGone(p) \/ SI!OauthCallback(p)
      BY <3>6, SignInOthersKeep DEF SI!Logout, SI!OauthLogin, SI!OauthProviderGone, SI!OauthCallback, SI!Answer
    <3>7. CASE SI!LoginExternalIdentity(p) \/ SI!CreateSession(p, "oauth")
      BY <3>7, SignInOthersKeep DEF SI!LoginExternalIdentity, SI!CreateSession, SI!Answer
    <3> QED
      BY <2>2, <3>1, <3>2, <3>3, <3>4, <3>5, <3>6, <3>7 DEF SI!Step
  <2> QED
    BY <2>1, <2>2 DEF SI!Next
<1> QED
  BY <1>1, <1>2, PTL DEF SI!Spec

----------------------------------------------------------------------------
(* What a request has read and nobody has written since.                   *)

Records ==
  /\ SI!Cells \subseteq DOMAIN db
  /\ DOMAIN mem = Procs /\ DOMAIN fresh = Procs /\ DOMAIN pc = Procs /\ DOMAIN req = Procs
  /\ \A p \in Procs : "secrets" \notin fresh[p]
  /\ \A p \in Procs : SI!Cells \subseteq DOMAIN mem[p] /\ "kind" \in DOMAIN req[p] /\ SI!HasSecrets(req[p])

Seen == \A p \in Procs : \A cell \in SI!Cells \cap fresh[p] : mem[p][cell] = db[cell]

\* A member who gives up an account keeps another way in.
SignInChecked(p) ==
  req[p].kind = "unbind" /\ pc[p] \in {"unbind", "store"} /\ "checked" \in fresh[p] =>
    db.auth \/ ~SI!OnlySignIn(db.providers, db.links, req[p].user, req[p].provider)

Ways ==
  /\ Records /\ Seen /\ \A p \in Procs : SignInChecked(p)
  /\ SI!SignInLeftOrOverlap /\ SI!BindingsKeptOrOverlap

\* p is the one to act, and has looked before it is to unbind.
Moves(p) ==
  /\ DOMAIN pc' = Procs /\ \A q \in Procs \ {p} : pc'[q] = pc[q]
  /\ DOMAIN req' = Procs /\ \A q \in Procs \ {p} : req'[q] = req[q]
  /\ "kind" \in DOMAIN req'[p] /\ req'[p].kind = req[p].kind
  /\ req[p].kind = "saveProviders" => req' = req
  /\ req[p].kind = "unbind" => req' = req /\ (pc'[p] \in {"unbind", "store"} => pc[p] \in {"unbind", "store"})

LEMMA MovesOn ==
  ASSUME Ways, NEW p \in Procs, NEW label, SI!Goto(p, label), req' = req,
         req[p].kind = "unbind" /\ label \in {"unbind", "store"} => pc[p] \in {"unbind", "store"}
  PROVE  Moves(p)
BY DEF Moves, SI!Goto, Ways, Records

LEMMA QuietStays ==
  ASSUME Ways, NEW p \in Procs, Moves(p), UNCHANGED <<db, mem, fresh, raced, bound>>
  PROVE  Ways'
<1>1. Records' /\ Seen'
  BY DEF Ways, Records, Seen, Moves, SI!HasSecrets
<1>2. \A q \in Procs : SignInChecked(q)'
  BY DEF Ways, SignInChecked, Moves
<1>3. SI!SignInLeftOrOverlap' /\ SI!BindingsKeptOrOverlap'
  BY DEF Ways, SI!SignInLeftOrOverlap, SI!BindingsKeptOrOverlap
<1> QED
  BY <1>1, <1>2, <1>3 DEF Ways

LEMMA ReadStays ==
  ASSUME Ways, NEW p \in Procs, NEW cell \in SI!Cells, SI!Read(p, cell), Moves(p)
  PROVE  Ways'
<1>1. /\ db' = db /\ raced' = raced /\ bound' = bound /\ req' = req
      /\ mem' = [mem EXCEPT ![p][cell] = db[cell]] /\ fresh' = [fresh EXCEPT ![p] = @ \cup {cell}]
  BY DEF SI!Read
<1>2. /\ DOMAIN mem' = Procs /\ DOMAIN fresh' = Procs
      /\ \A q \in Procs \ {p} : mem'[q] = mem[q] /\ fresh'[q] = fresh[q]
      /\ DOMAIN mem'[p] = DOMAIN mem[p] /\ mem'[p][cell] = db[cell]
      /\ \A c \in SI!Cells \ {cell} : mem'[p][c] = mem[p][c]
      /\ fresh'[p] = fresh[p] \cup {cell}
  BY <1>1 DEF Ways, Records
<1>3. Records' /\ Seen'
  BY <1>1, <1>2 DEF Ways, Records, Seen, Moves, SI!HasSecrets, SI!Cells
<1>4. cell # "checked"
  BY DEF SI!Cells
<1>5. \A q \in Procs : SignInChecked(q)'
  BY <1>1, <1>2, <1>4 DEF Ways, SignInChecked, Moves
<1>6. SI!SignInLeftOrOverlap' /\ SI!BindingsKeptOrOverlap'
  BY <1>1 DEF Ways, SI!SignInLeftOrOverlap, SI!BindingsKeptOrOverlap
<1> QED
  BY <1>3, <1>5, <1>6 DEF Ways

\* What a write leaves: the other settings, and nothing checked.
LEMMA WriteFacts ==
  ASSUME Ways, NEW p \in Procs, NEW cell \in SI!Cells, NEW value, NEW needed, SI!Write(p, cell, value, needed)
  PROVE  /\ db'[cell] = value /\ \A c \in SI!Cells \ {cell} : db'[c] = db[c]
         /\ \A c \in SI!Cells : c \in needed /\ c \notin raced' => mem[p][c] = db[c]
         /\ raced \subseteq raced' /\ raced' = raced \cup (needed \ fresh[p])
BY DEF SI!Write, Ways, Records, Seen

LEMMA WriteStays ==
  ASSUME Ways, NEW p \in Procs, NEW cell \in SI!Cells, NEW value, NEW needed, SI!Write(p, cell, value, needed), Moves(p),
         SI!SignInLeftOrOverlap', SI!BindingsKeptOrOverlap'
  PROVE  Ways'
<1>1. /\ mem' = mem /\ fresh' = [q \in Procs |-> fresh[q] \ {cell, "checked"}]
      /\ DOMAIN db' = DOMAIN db /\ \A c \in SI!Cells \ {cell} : db'[c] = db[c]
  BY WriteFacts DEF SI!Write
<1>2. Records' /\ Seen'
  BY <1>1 DEF Ways, Records, Seen, Moves, SI!HasSecrets
<1>3. \A q \in Procs : SignInChecked(q)'
  BY <1>1 DEF SignInChecked
<1> QED
  BY <1>2, <1>3 DEF Ways

----------------------------------------------------------------------------
LEMMA AuthStays ==
  ASSUME Ways, NEW p \in Procs, SI!SaveAuthSettings(p)
  PROVE  Ways'
<1>1. req[p].kind = "saveAuth" /\ req' = req /\ bound' = bound /\ \E label : SI!Goto(p, label)
  BY DEF SI!SaveAuthSettings, SI!At, SI!Read, SI!Write, SI!Answer
<1>2. Moves(p)
  BY <1>1, MovesOn
<1>3. CASE SI!Read(p, "providers")
  BY <1>2, <1>3, ReadStays DEF SI!Cells
<1>4. CASE UNCHANGED <<db, mem, fresh, raced, bound>>
  BY <1>2, <1>4, QuietStays
<1>5. CASE SI!Write(p, "auth", TRUE, {})
  <2>1. db'["auth"] = TRUE /\ db'.links = db.links /\ raced' = raced \cup ({} \ fresh[p])
    BY <1>5, WriteFacts DEF SI!Cells
  <2>2. SI!SignInLeftOrOverlap'
    BY <2>1 DEF SI!SignInLeftOrOverlap
  <2>3. SI!BindingsKeptOrOverlap'
    BY <1>1, <2>1 DEF SI!BindingsKeptOrOverlap, Ways
  <2> QED
    BY <1>2, <1>5, <2>2, <2>3, WriteStays DEF SI!Cells
<1>6. CASE ~SI!NoLoginLeft(mem[p].providers) /\ SI!Write(p, "auth", FALSE, {"providers"})
  <2>1. /\ db'.providers = db.providers /\ db'.links = db.links /\ raced \subseteq raced'
        /\ "providers" \notin raced' => mem[p].providers = db.providers
    BY <1>6, WriteFacts DEF SI!Cells
  <2>2. SI!SignInLeftOrOverlap'
    BY <1>6, <2>1 DEF SI!SignInLeftOrOverlap, SI!NoLoginLeft
  <2>3. SI!BindingsKeptOrOverlap'
    BY <1>1, <2>1 DEF SI!BindingsKeptOrOverlap, Ways
  <2> QED
    BY <1>2, <1>6, <2>2, <2>3, WriteStays DEF SI!Cells
<1> QED
  BY <1>3, <1>4, <1>5, <1>6 DEF SI!SaveAuthSettings, SI!Answer

LEMMA ProvidersStay ==
  ASSUME Ways, NEW p \in Procs, SI!SaveIdentityProviders(p)
  PROVE  Ways'
<1> DEFINE stored == SI!WithSecrets(req[p].items, mem[p].providers)
<1>1. req[p].kind = "saveProviders" /\ req' = req /\ bound' = bound /\ \E label : SI!Goto(p, label)
  BY DEF SI!SaveIdentityProviders, SI!ProvidersUnread, SI!At, SI!Read, SI!Write, SI!Answer
<1>2. Moves(p)
  BY <1>1, MovesOn
<1>3. ASSUME NEW cell \in SI!Cells, SI!Read(p, cell) PROVE Ways'
  BY <1>2, <1>3, ReadStays
<1>4. CASE UNCHANGED <<db, mem, fresh, raced, bound>>
  BY <1>2, <1>4, QuietStays
<1>5. CASE (mem[p].auth \/ ~SI!NoLoginLeft(stored)) /\ SI!Write(p, "providers", stored, SI!Resting(p))
  <2>1. /\ db'.providers = stored /\ db'.auth = db.auth /\ db'.links = db.links /\ raced \subseteq raced'
        /\ "auth" \notin raced' => mem[p].auth = db.auth
    BY <1>5, WriteFacts DEF SI!Cells, SI!Resting
  <2>2. SI!SignInLeftOrOverlap'
    BY <1>5, <2>1 DEF SI!SignInLeftOrOverlap, SI!NoLoginLeft
  <2>3. SI!BindingsKeptOrOverlap'
    BY <1>1, <2>1 DEF SI!BindingsKeptOrOverlap, Ways
  <2> QED
    BY <1>2, <1>5, <2>2, <2>3, WriteStays DEF SI!Cells
<1> QED
  BY <1>3, <1>4, <1>5 DEF SI!SaveIdentityProviders, SI!ProvidersUnread, SI!Answer, SI!Cells

LEMMA BindStays ==
  ASSUME Ways, NEW p \in Procs, NEW kind \in {"bind", "oauth"}, NEW l, SI!Bind(p, kind, l)
  PROVE  Ways'
<1>1. req[p].kind # "unbind" /\ req' = req /\ \E label : SI!Goto(p, label)
  BY DEF SI!Bind, SI!At, SI!Read, SI!Write, SI!Answer
<1>2. Moves(p)
  BY <1>1, MovesOn
<1>3. CASE SI!Read(p, "links")
  BY <1>2, <1>3, ReadStays DEF SI!Cells
<1>4. CASE UNCHANGED <<db, mem, fresh, raced, bound>>
  BY <1>2, <1>4, QuietStays
<1>5. CASE SI!Write(p, "links", SI!WithNew(mem[p].links, l), {"links"}) /\ bound' = bound \cup {l}
  <2>1. /\ db'.providers = db.providers /\ db'.auth = db.auth /\ raced \subseteq raced'
        /\ db'.links = mem[p].links \cup {l}
        /\ "links" \notin raced' => mem[p].links = db.links
    BY <1>5, WriteFacts DEF SI!Cells, SI!WithNew
  <2>2. SI!SignInLeftOrOverlap'
    BY <2>1 DEF SI!SignInLeftOrOverlap, Ways
  <2>3. SI!BindingsKeptOrOverlap'
    BY <1>5, <2>1 DEF SI!BindingsKeptOrOverlap, Ways
  <2> QED
    BY <1>2, <1>5, <2>2, <2>3, WriteStays DEF SI!Cells
<1> QED
  BY <1>3, <1>4, <1>5 DEF SI!Bind, SI!Answer

LEMMA CheckStays ==
  ASSUME Ways, NEW p \in Procs, SI!UnbindUserExternalIdentity(p)
  PROVE  Ways'
<1>1. req[p].kind = "unbind" /\ req' = req /\ \E label : SI!Goto(p, label)
  BY DEF SI!UnbindUserExternalIdentity, SI!Checked, SI!At, SI!Read, SI!Answer
<1>2. ASSUME NEW label, SI!Goto(p, label), label \notin {"unbind", "store"}
      PROVE  Moves(p)
  BY <1>1, <1>2, MovesOn
<1>3. ASSUME NEW cell \in SI!Cells, NEW label, SI!Read(p, cell), SI!Goto(p, label), label \notin {"unbind", "store"}
      PROVE  Ways'
  BY <1>2, <1>3, ReadStays
<1>4. CASE UNCHANGED <<db, mem, fresh, raced, bound>> /\ SI!Goto(p, "refused")
  BY <1>2, <1>4, QuietStays
<1>5. ASSUME NEW known, SI!Checked(p, known),
             known = {"checked"} \/ known = {},
             "checked" \in known => db.auth \/ ~SI!OnlySignIn(db.providers, db.links, req[p].user, req[p].provider)
      PROVE  Ways'
  <2>1. /\ DOMAIN fresh' = Procs /\ fresh'[p] = known /\ \A q \in Procs \ {p} : fresh'[q] = fresh[q]
        /\ DOMAIN pc' = Procs /\ \A q \in Procs \ {p} : pc'[q] = pc[q]
    BY <1>5 DEF SI!Checked, SI!Goto, Ways, Records
  <2>2. known \cap SI!Cells = {}
    BY <1>5 DEF SI!Cells
  <2>3. Records' /\ Seen'
    BY <1>1, <1>5, <2>1, <2>2 DEF SI!Checked, Ways, Records, Seen
  <2>4. \A q \in Procs : SignInChecked(q)'
    BY <1>1, <1>5, <2>1 DEF SI!Checked, Ways, SignInChecked
  <2> QED
    BY <1>5, <2>3, <2>4 DEF SI!Checked, Ways, SI!SignInLeftOrOverlap, SI!BindingsKeptOrOverlap
<1>6. CASE SI!At(p, "unbind", "only") /\ ~SI!OnlySignIn(mem[p].providers, mem[p].links, req[p].user, req[p].provider)
  <2> DEFINE known == IF SI!Cells \subseteq fresh[p] THEN {"checked"} ELSE {}
  <2>1. SI!Checked(p, known)
    BY <1>6 DEF SI!UnbindUserExternalIdentity, SI!At, SI!Answer, SI!Checked
  <2>2. "checked" \in known => mem[p].providers = db.providers /\ mem[p].links = db.links
    BY DEF SI!Cells, Ways, Seen
  <2>3. "checked" \in known => db.auth \/ ~SI!OnlySignIn(db.providers, db.links, req[p].user, req[p].provider)
    BY <1>6, <2>2
  <2> QED
    BY <1>5, <2>1, <2>3
<1>7. CASE SI!Checked(p, {}) \/ (db.auth /\ SI!Checked(p, {"checked"}))
  <2> "checked" \notin {}
    OBVIOUS
  <2> QED
    BY <1>5, <1>7
<1> QED
  BY <1>3, <1>4, <1>6, <1>7 DEF SI!UnbindUserExternalIdentity, SI!Answer, SI!Cells

LEMMA UnbindStays ==
  ASSUME Ways, NEW p \in Procs, SI!UnbindExternalIdentity(p)
  PROVE  Ways'
<1> DEFINE mine == {l \in mem[p].links : l.user = req[p].user /\ l.provider = req[p].provider}
<1>1. req[p].kind = "unbind" /\ req' = req /\ pc[p] \in {"unbind", "store"} /\ \E label : SI!Goto(p, label)
  BY DEF SI!UnbindExternalIdentity, SI!At, SI!Read, SI!Write, SI!Answer
<1>2. Moves(p)
  BY <1>1, MovesOn
<1>3. CASE SI!Read(p, "links")
  BY <1>2, <1>3, ReadStays DEF SI!Cells
<1>4. CASE UNCHANGED <<db, mem, fresh, raced, bound>>
  BY <1>2, <1>4, QuietStays
<1>5. CASE SI!Write(p, "links", mem[p].links \ mine, {"links", "checked"}) /\ bound' = bound \ mine
  <2>1. /\ db'.providers = db.providers /\ db'.auth = db.auth /\ raced \subseteq raced'
        /\ db'.links = mem[p].links \ mine
        /\ "links" \notin raced' => mem[p].links = db.links
    BY <1>5, WriteFacts DEF SI!Cells
  <2>2. SI!SignInLeftOrOverlap'
    BY <2>1 DEF SI!SignInLeftOrOverlap, Ways
  <2>3. SI!BindingsKeptOrOverlap'
    BY <1>5, <2>1 DEF SI!BindingsKeptOrOverlap, Ways
  <2> QED
    BY <1>2, <1>5, <2>2, <2>3, WriteStays DEF SI!Cells
<1> QED
  BY <1>3, <1>4, <1>5 DEF SI!UnbindExternalIdentity, SI!Answer

LEMMA SessionsStay ==
  ASSUME Ways, NEW p \in Procs,
         \/ SI!Login(p) \/ SI!Logout(p) \/ SI!OauthLogin(p) \/ SI!OauthProviderGone(p) \/ SI!OauthCallback(p)
         \/ SI!LoginExternalIdentity(p) \/ SI!CreateSession(p, "oauth")
  PROVE  Ways'
<1>1. req[p].kind \in {"login", "logout", "oauth"} /\ \E label : SI!Goto(p, label)
  BY DEF SI!Login, SI!Logout, SI!OauthLogin, SI!OauthProviderGone, SI!OauthCallback, SI!LoginExternalIdentity, SI!CreateSession, SI!At, SI!Answer
<1>2. req' = req \/ \E u : req' = [req EXCEPT ![p].user = u]
  BY DEF SI!Login, SI!Logout, SI!OauthLogin, SI!OauthProviderGone, SI!OauthCallback, SI!LoginExternalIdentity, SI!CreateSession, SI!At, SI!Answer, SI!Read
<1>3. Moves(p)
  <2>1. /\ DOMAIN req' = Procs /\ (\A q \in Procs \ {p} : req'[q] = req[q])
        /\ "kind" \in DOMAIN req'[p] /\ req'[p].kind = req[p].kind
    BY <1>2 DEF Ways, Records
  <2> QED
    BY <1>1, <2>1 DEF Moves, SI!Goto, Ways, Records
<1>4. CASE SI!Read(p, "auth")
  BY <1>3, <1>4, ReadStays DEF SI!Cells
<1>5. CASE UNCHANGED <<db, mem, fresh, raced, bound>>
  BY <1>3, <1>5, QuietStays
<1> QED
  BY <1>4, <1>5 DEF SI!Login, SI!Logout, SI!OauthLogin, SI!OauthProviderGone, SI!OauthCallback, SI!LoginExternalIdentity, SI!CreateSession, SI!Answer

LEMMA StepStays ==
  ASSUME Ways, NEW p \in Procs, SI!Step(p)
  PROVE  Ways'
<1>1. CASE SI!BindUserExternalIdentity(p)
  <2>1. CASE SI!At(p, "bind", "begin") /\ SI!Answer(p, "links")
    <3>1. Moves(p)
      BY <2>1, MovesOn DEF SI!At, SI!Answer
    <3> QED
      BY <2>1, <3>1, QuietStays DEF SI!Answer
  <2> QED
    BY <1>1, <2>1, BindStays DEF SI!BindUserExternalIdentity
<1>2. CASE SI!Bind(p, "oauth", SI!Link(req[p].provider, req[p].subject, req[p].user))
  BY <1>2, BindStays
<1> QED
  BY <1>1, <1>2, AuthStays, ProvidersStay, CheckStays, UnbindStays, SessionsStay DEF SI!Step

LEMMA WaysStay == SI!Plausible /\ SI!Spec => []Ways
<1>1. SI!Plausible /\ SI!Init => Ways
  <2> SUFFICES ASSUME SI!Plausible, SI!Init PROVE Ways
    OBVIOUS
  <2>1. SI!WellFormed(db) /\ bound = db.links /\ raced = {}
    BY DEF SI!Init
  <2>2. Records
    BY <2>1 DEF SI!Init, Records, SI!WellFormed, SI!Cells, SI!Plausible
  <2>3. Seen /\ \A p \in Procs : SignInChecked(p)
    BY DEF SI!Init, Seen, SignInChecked
  <2> QED
    BY <2>1, <2>2, <2>3 DEF Ways, SI!SignInLeftOrOverlap, SI!BindingsKeptOrOverlap, SI!WellFormed
<1>2. Ways /\ [SI!Next]_(SI!vars) => Ways'
  <2> SUFFICES ASSUME Ways, [SI!Next]_(SI!vars) PROVE Ways'
    OBVIOUS
  <2>1. CASE UNCHANGED SI!vars
    BY <2>1 DEF SI!vars, Ways, Records, Seen, SignInChecked, SI!SignInLeftOrOverlap, SI!BindingsKeptOrOverlap
  <2> QED
    BY <2>1, StepStays DEF SI!Next
<1> QED
  BY <1>1, <1>2, PTL DEF SI!Spec

----------------------------------------------------------------------------
\* A binding more takes no sign-in away.
LEMMA MoreLinksMoreWays ==
  ASSUME NEW ps, NEW links, NEW more, links \subseteq more, NEW u
  PROVE  SI!UsableLinks(ps, links, u) \subseteq SI!UsableLinks(ps, more, u)
BY DEF SI!UsableLinks

\* A provider stays usable for v while its links are left.
LEMMA WayStays ==
  ASSUME NEW ps, NEW links, NEW less, NEW v, NEW i \in SI!UsableLinks(ps, links, v),
         \A l \in links : l.user = v /\ l.provider = i => l \in less
  PROVE  i \in SI!UsableLinks(ps, less, v)
BY DEF SI!UsableLinks

LEMMA StepLeavesAWay ==
  ASSUME Ways, NEW p \in Procs, SI!Step(p)
  PROVE  SI!LastSignInKept
<1> SUFFICES ASSUME NEW v \in Members, ~db.auth, db'.providers = db.providers,
                    SI!UsableLinks(db.providers, db.links, v) # {},
                    raced' \cap {"links", "checked"} = {}
             PROVE  SI!UsableLinks(db.providers, db'.links, v) # {}
  BY DEF SI!LastSignInKept
<1>1. CASE db'.links = db.links
  BY <1>1
<1>2. ASSUME NEW kind, NEW l, SI!Bind(p, kind, l) PROVE SI!UsableLinks(db.providers, db'.links, v) # {}
  <2>1. CASE SI!Write(p, "links", SI!WithNew(mem[p].links, l), {"links"})
    <3>1. db'.links = mem[p].links \cup {l} /\ mem[p].links = db.links
      BY <2>1, WriteFacts DEF SI!Cells, SI!WithNew
    <3> QED
      BY <3>1, MoreLinksMoreWays
  <2> QED
    BY <1>1, <1>2, <2>1 DEF SI!Bind, SI!Answer, SI!Read
<1>3. CASE SI!UnbindExternalIdentity(p)
  <2> DEFINE mine == {l \in mem[p].links : l.user = req[p].user /\ l.provider = req[p].provider}
  <2>1. CASE SI!At(p, "unbind", "store") /\ SI!Write(p, "links", mem[p].links \ mine, {"links", "checked"})
    <3>1. db'.links = mem[p].links \ mine /\ mem[p].links = db.links
      BY <2>1, WriteFacts DEF SI!Cells
    <3>2. "checked" \in fresh[p]
      BY <2>1, WriteFacts DEF SI!Cells
    <3>3. ~SI!OnlySignIn(db.providers, db.links, req[p].user, req[p].provider)
      BY <2>1, <3>2 DEF Ways, SignInChecked, SI!At
    <3>4. SI!UsableLinks(db.providers, db.links, req[p].user) # {req[p].provider}
      BY <3>3 DEF SI!OnlySignIn
    <3>5. PICK i \in SI!UsableLinks(db.providers, db.links, v) : v = req[p].user => i # req[p].provider
      BY <3>4
    <3>6. \A l \in db.links : l.user = v /\ l.provider = i => l \in db'.links
      BY <3>1, <3>5
    <3>7. i \in SI!UsableLinks(db.providers, db'.links, v)
      BY <3>6, WayStays
    <3> QED
      BY <3>7
  <2> QED
    BY <1>1, <1>3, <2>1 DEF SI!UnbindExternalIdentity, SI!Answer, SI!Read
<1>4. CASE SI!SaveAuthSettings(p)
  <2>1. ASSUME NEW value, NEW needed, SI!Write(p, "auth", value, needed) PROVE db'.links = db.links
    BY <2>1, WriteFacts DEF SI!Cells
  <2> QED
    BY <1>1, <1>4, <2>1 DEF SI!SaveAuthSettings, SI!Answer, SI!Read
<1>5. CASE SI!SaveIdentityProviders(p)
  <2>1. ASSUME NEW value, NEW needed, SI!Write(p, "providers", value, needed) PROVE db'.links = db.links
    BY <2>1, WriteFacts DEF SI!Cells
  <2> QED
    BY <1>1, <1>5, <2>1 DEF SI!SaveIdentityProviders, SI!ProvidersUnread, SI!Answer, SI!Read
<1>6. ASSUME \/ SI!UnbindUserExternalIdentity(p) \/ SI!Login(p) \/ SI!Logout(p) \/ SI!OauthLogin(p) \/ SI!OauthProviderGone(p)
             \/ SI!OauthCallback(p) \/ SI!LoginExternalIdentity(p) \/ SI!CreateSession(p, "oauth")
      PROVE  db' = db
  BY <1>6 DEF SI!UnbindUserExternalIdentity, SI!Login, SI!Logout, SI!OauthLogin, SI!OauthProviderGone, SI!OauthCallback,
              SI!LoginExternalIdentity, SI!CreateSession, SI!Answer, SI!Read, SI!Checked
<1>7. CASE SI!BindUserExternalIdentity(p)
  BY <1>1, <1>2, <1>7 DEF SI!BindUserExternalIdentity, SI!Answer
<1> QED
  BY <1>1, <1>2, <1>3, <1>4, <1>5, <1>6, <1>7 DEF SI!Step

\* The blank secret of a provider that was stored is filled in.
LEMMA FilledIn ==
  ASSUME NEW ps, NEW existing, NEW i \in DOMAIN ps, i \in DOMAIN existing, existing[i].secret,
         "secret" \in DOMAIN ps[i]
  PROVE  SI!WithSecrets(ps, existing)[i].secret
<1> DEFINE entry == ps[i]
<1>1. [entry EXCEPT !.secret = @ \/ (i \in DOMAIN existing /\ existing[i].secret)].secret
  OBVIOUS
<1> QED
  BY <1>1 DEF SI!WithSecrets

LEMMA StepKeepsSecrets ==
  ASSUME Ways, NEW p \in Procs, SI!Step(p)
  PROVE  SI!SecretsKept
<1> DEFINE stored == SI!WithSecrets(req[p].items, mem[p].providers)
<1>1. CASE db'.providers = db.providers
  BY <1>1 DEF SI!SecretsKept
<1>2. CASE SI!At(p, "saveProviders", "store") /\ SI!Write(p, "providers", stored, SI!Resting(p))
  <2>1. db'.providers = stored /\ raced' = raced \cup (SI!Resting(p) \ fresh[p])
    BY <1>2, WriteFacts DEF SI!Cells
  <2>2. CASE "providers" \in fresh[p]
    <3>1. mem[p].providers = db.providers
      BY <2>2 DEF Ways, Seen, SI!Cells
    <3>2. \A i \in DOMAIN req[p].items : "secret" \in DOMAIN req[p].items[i]
      BY <1>2 DEF Ways, Records, SI!HasSecrets, SI!At
    <3>3. DOMAIN stored = DOMAIN req[p].items
      BY DEF SI!WithSecrets
    <3> QED
      BY <2>1, <3>1, <3>2, <3>3, FilledIn DEF SI!SecretsKept
  <2>3. CASE "providers" \notin fresh[p] /\ "secrets" \notin fresh[p]
    BY <2>1, <2>3 DEF SI!Resting, SI!SecretsKept
  <2>4. "secrets" \notin fresh[p]
    BY DEF Ways, Records
  <2> QED
    BY <2>2, <2>3, <2>4
<1>3. ASSUME NEW cell \in SI!Cells, NEW value, NEW needed, cell # "providers", SI!Write(p, cell, value, needed)
      PROVE  db'.providers = db.providers
  BY <1>3, WriteFacts DEF SI!Cells
<1>4. CASE SI!SaveIdentityProviders(p)
  BY <1>1, <1>2, <1>4 DEF SI!SaveIdentityProviders, SI!ProvidersUnread, SI!Answer, SI!Read
<1>5. CASE SI!SaveAuthSettings(p) \/ SI!UnbindExternalIdentity(p)
  BY <1>1, <1>3, <1>5 DEF SI!SaveAuthSettings, SI!UnbindExternalIdentity, SI!Answer, SI!Read, SI!Cells
<1>6. ASSUME NEW kind, NEW l, SI!Bind(p, kind, l) PROVE db'.providers = db.providers
  BY <1>3, <1>6 DEF SI!Bind, SI!Answer, SI!Read, SI!Cells
<1>7. ASSUME \/ SI!UnbindUserExternalIdentity(p) \/ SI!Login(p) \/ SI!Logout(p) \/ SI!OauthLogin(p) \/ SI!OauthProviderGone(p)
             \/ SI!OauthCallback(p) \/ SI!LoginExternalIdentity(p) \/ SI!CreateSession(p, "oauth")
      PROVE  db' = db
  BY <1>7 DEF SI!UnbindUserExternalIdentity, SI!Login, SI!Logout, SI!OauthLogin, SI!OauthProviderGone, SI!OauthCallback,
              SI!LoginExternalIdentity, SI!CreateSession, SI!Answer, SI!Read, SI!Checked
<1>8. CASE SI!BindUserExternalIdentity(p)
  BY <1>1, <1>6, <1>8 DEF SI!BindUserExternalIdentity, SI!Answer
<1> QED
  BY <1>1, <1>4, <1>5, <1>6, <1>7, <1>8 DEF SI!Step

----------------------------------------------------------------------------
(* In every interleaving of binds, unbinds, logins and saves, an external  *)
(* account has one entry at most in the stored list, and in every list     *)
(* that some request is about to store (service.go:680-710).               *)
THEOREM OneMemberPerAccount == SI!Spec => []SI!LinkedOnce
<1>1. SignInInv => SI!LinkedOnce
  BY DEF SignInInv, List, SI!LinkedOnce
<1> QED
  BY <1>1, ListsAreLists, PTL

(* Password login is on or a provider is usable, and the stored bindings   *)
(* are the acknowledged ones, unless a save rested on a setting that a     *)
(* rival had changed: what is still fresh is what is stored.  A save whose *)
(* read of the providers failed (subscribe.go:217) is among the steps: it  *)
(* is judged by the list it stores.                                        *)
THEOREM SomeWayIsLeft == SI!Plausible /\ SI!Spec => []SI!SignInKeptOrOverlap
<1>1. Ways => SI!SignInKeptOrOverlap
  BY DEF Ways, SI!SignInKeptOrOverlap
<1> QED
  BY <1>1, WaysStay, PTL

(* With password login off nobody gives up the last account that lets them *)
(* in, unless the settings changed between the check and the store, or the *)
(* check was left out because its first read failed: the check holds until *)
(* somebody writes (profile.go:130-153).  And a provider saved again keeps *)
(* its secret unless the stored one was not read, or changed since         *)
(* (subscribe.go:217-224).                                                 *)
THEOREM NobodyLocksThemselvesOut == SI!Plausible /\ SI!Spec => SI!LastSignInKeptOrOverlap
<1>1. Ways /\ [SI!Next]_(SI!vars) => [SI!LastSignInKept /\ SI!SecretsKept]_(SI!vars)
  BY StepLeavesAWay, StepKeepsSecrets DEF SI!Next
<1> QED
  BY <1>1, WaysStay, PTL DEF SI!Spec, SI!LastSignInKeptOrOverlap

----------------------------------------------------------------------------
(* What a transfer or an archive holds is of one moment, and a transfer is *)
(* done once, for any number of tables, targets, requests, writes, failed  *)
(* statements and crashes.                                                 *)

\* Rows written up to now.
CopyRows == [Tables -> SUBSET (0 .. writes)]

\* copied is the source as it was after write n, looked at in the tables ts.
Upto(copied, ts, src, w) == \E n \in 0 .. w : \A t \in ts : copied[t] \cap src[t] = {r \in src[t] : r <= n}

Moment(copied, ts) == copied \in CopyRows /\ Upto(copied, ts, source, writes)

\* A transfer has copied what is no longer to do, all of it out of one snapshot.
Copying(p) ==
  /\ todo[p] \subseteq TR!Copied
  /\ \/ todo[p] = TR!Copied /\ work[p] = TR!NoRows
     \/ /\ Moment(view[p], Tables)
        /\ work[p] = [t \in Tables |-> IF t \in TR!Copied \ todo[p] THEN view[p][t] ELSE {}]

\* So has an archive, but for the tables whose read broke off.
Archiving(p) ==
  /\ todo[p] \subseteq Tables /\ DOMAIN work[p] = Tables
  /\ \A t \in Tables \ todo[p] :
       /\ view[p] # TR!Unread
       /\ work[p][t] \subseteq view[p][t]
       /\ t \notin cut[p] => work[p][t] = view[p][t]

CopySound(p) ==
  /\ view[p] = TR!Unread \/ Moment(view[p], Tables)
  /\ pc[p] \in {"begin", "open", "inspect"} => view[p] = TR!Unread /\ work[p] = TR!NoRows
  /\ pc[p] \in {"open", "inspect", "close", "mark"} => req[p].kind = "transfer"
  /\ TR!At(p, "transfer", "copy") => Copying(p)
  /\ req[p].kind = "export" /\ pc[p] \in {"copy", "ok"} => Archiving(p)
  /\ TR!At(p, "export", "ok") => todo[p] = {}
  /\ req[p].kind = "transfer" /\ pc[p] \in {"close", "mark", "ok"} => identity[TR!Target(p)] = "source"

\* A target shows a whole transfer or no row.
Shown(k) ==
  IF identity[k] = "source"
  THEN Moment(target[k], TR!Copied) /\ \A t \in Skipped : target[k][t] \cap source[t] = {}
  ELSE target[k] = TR!NoRows

CopyShape ==
  /\ writes \in 0 .. MaxWrites /\ source \in CopyRows
  /\ req \in [Procs -> TransferAsks]
  /\ DOMAIN pc = Procs /\ DOMAIN todo = Procs /\ DOMAIN view = Procs /\ DOMAIN work = Procs /\ DOMAIN cut = Procs
  /\ DOMAIN target = Targets /\ DOMAIN identity = Targets
  /\ live # "source" => live \in Targets /\ identity[live] = "source"

CopyInv == CopyShape /\ (\A p \in Procs : CopySound(p)) /\ \A k \in Targets : Shown(k)

----------------------------------------------------------------------------
(* Moments.                                                                *)

LEMMA SourceIsMoment ==
  ASSUME TR!Plausible, CopyShape
  PROVE  Moment(source, Tables)
<1>1. writes \in Nat
  BY DEF TR!Plausible, CopyShape
<1>2. \A t \in Tables : source[t] \cap source[t] = {r \in source[t] : r <= writes}
  BY <1>1 DEF CopyShape, CopyRows
<1> QED
  BY <1>1, <1>2 DEF Moment, Upto, CopyShape

\* Reading fewer tables, and keeping only those, is of the same moment.
LEMMA PartOfMoment ==
  ASSUME NEW v, NEW ts \in SUBSET Tables, Moment(v, Tables), NEW w,
         w = [t \in Tables |-> IF t \in ts THEN v[t] ELSE {}]
  PROVE  Moment(w, ts)
BY DEF Moment, Upto, CopyRows

LEMMA NothingIsMoment ==
  ASSUME TR!Plausible, CopyShape
  PROVE  Moment(TR!NoRows, {})
BY DEF Moment, Upto, CopyRows, TR!NoRows, TR!Plausible, CopyShape

\* A row written to the source later is in no copy, and of no earlier moment.
LEMMA SourceGrows ==
  ASSUME NEW w \in Nat, NEW src \in [Tables -> SUBSET (0 .. w)], NEW copied \in [Tables -> SUBSET (0 .. w)],
         NEW ts \in SUBSET Tables, NEW t0 \in Tables, Upto(copied, ts, src, w)
  PROVE  /\ copied \in [Tables -> SUBSET (0 .. w + 1)]
         /\ Upto(copied, ts, [src EXCEPT ![t0] = @ \cup {w + 1}], w + 1)
<1> DEFINE new == [src EXCEPT ![t0] = @ \cup {w + 1}]
<1>1. PICK n \in 0 .. w : \A t \in ts : copied[t] \cap src[t] = {r \in src[t] : r <= n}
  BY DEF Upto
<1>2. ASSUME NEW t \in ts PROVE copied[t] \cap new[t] = {r \in new[t] : r <= n}
  <2>1. w + 1 \notin copied[t] /\ ~(w + 1 <= n)
    OBVIOUS
  <2>2. new[t] = src[t] \/ new[t] = src[t] \cup {w + 1}
    OBVIOUS
  <2> QED
    BY <1>1, <2>1, <2>2
<1>3. n \in 0 .. w + 1 /\ \A s \in SUBSET (0 .. w) : s \subseteq 0 .. w + 1
  OBVIOUS
<1> QED
  BY <1>2, <1>3 DEF Upto

\* A row written to a target is not one of the source.
LEMMA CopyGrows ==
  ASSUME NEW w \in Nat, NEW src \in [Tables -> SUBSET (0 .. w)], NEW copied \in [Tables -> SUBSET (0 .. w)],
         NEW ts \in SUBSET Tables, Upto(copied, ts, src, w),
         NEW more \in [Tables -> SUBSET (0 .. w + 1)], \A t \in Tables : more[t] \ {w + 1} = copied[t]
  PROVE  Upto(more, ts, src, w + 1)
<1>1. PICK n \in 0 .. w : \A t \in ts : copied[t] \cap src[t] = {r \in src[t] : r <= n}
  BY DEF Upto
<1>2. ASSUME NEW t \in ts PROVE more[t] \cap src[t] = {r \in src[t] : r <= n}
  <2>1. w + 1 \notin src[t]
    OBVIOUS
  <2> QED
    BY <1>1, <2>1
<1>3. n \in 0 .. w + 1
  OBVIOUS
<1> QED
  BY <1>2, <1>3 DEF Upto

----------------------------------------------------------------------------
(* Steps.                                                                  *)

\* A step that writes no row and changes nothing of the other requests.
LEMMA OneMoves ==
  ASSUME TR!Plausible, CopyInv, NEW p \in Procs,
         UNCHANGED <<source, writes, req>>,
         DOMAIN pc' = Procs, DOMAIN todo' = Procs, DOMAIN view' = Procs, DOMAIN work' = Procs, DOMAIN cut' = Procs,
         \A q \in Procs \ {p} : pc'[q] = pc[q] /\ todo'[q] = todo[q] /\ view'[q] = view[q] /\ work'[q] = work[q] /\ cut'[q] = cut[q],
         DOMAIN target' = Targets, DOMAIN identity' = Targets,
         \A k \in Targets : identity[k] = "source" => identity'[k] = "source",
         live' = live, CopySound(p)', \A k \in Targets : Shown(k)'
  PROVE  CopyInv'
<1>1. CopyShape'
  BY DEF CopyInv, CopyShape, CopyRows
<1>2. ASSUME NEW q \in Procs \ {p} PROVE CopySound(q)'
  <2>1. CopySound(q) /\ TR!Target(q) \in Targets
    BY DEF CopyInv, CopyShape, TR!Plausible, TR!Target
  <2> QED
    BY <2>1 DEF CopySound, Copying, Archiving, Moment, CopyRows, TR!At, TR!Target
<1> QED
  BY <1>1, <1>2 DEF CopyInv

\* What keeps the rows and the identities keeps what the targets show.
LEMMA NothingShown ==
  ASSUME CopyInv, UNCHANGED <<source, writes, target, identity>>
  PROVE  \A k \in Targets : Shown(k)'
BY DEF CopyInv, Shown, Moment, CopyRows

LEMMA RefuseKeeps ==
  ASSUME TR!Plausible, CopyInv, NEW p \in Procs, TR!Refuse(p)
  PROVE  CopyInv'
<1>1. \A k \in Targets : Shown(k)'
  BY NothingShown DEF TR!Refuse
<1>2. CopySound(p)'
  BY DEF TR!Refuse, TR!Goto, TR!Forgotten, CopySound, Copying, Archiving, TR!At, CopyInv, CopyShape
<1> QED
  BY <1>1, <1>2, OneMoves DEF TR!Refuse, TR!Goto, TR!Forgotten, CopyInv, CopyShape

\* Steps that move p's label, or p's list of tables, and nothing else of p.
LEMMA MoveKeeps ==
  ASSUME TR!Plausible, CopyInv, NEW p \in Procs, NEW label, TR!Goto(p, label),
         UNCHANGED <<source, writes, req, target, live, view, work, cut>>,
         DOMAIN todo' = Procs, \A q \in Procs \ {p} : todo'[q] = todo[q],
         DOMAIN identity' = Targets, \A k \in Targets : Shown(k)',
         \A k \in Targets : identity[k] = "source" => identity'[k] = "source",
         CopySound(p)'
  PROVE  CopyInv'
BY OneMoves DEF TR!Goto, CopyInv, CopyShape

LEMMA BeginKeeps ==
  ASSUME TR!Plausible, CopyInv, NEW p \in Procs, TR!Begin(p) \/ TR!Export(p)
  PROVE  CopyInv'
<1>1. \A k \in Targets : Shown(k)'
  BY NothingShown DEF TR!Begin, TR!Export, TR!db
<1>2. CASE TR!Begin(p)
  <2>1. PICK label \in {"open", "error"} : TR!Goto(p, label)
    BY <1>2 DEF TR!Begin
  <2>2. CopySound(p)'
    BY <1>2, <2>1 DEF TR!Begin, TR!At, TR!Goto, CopySound, Moment, CopyRows, TR!db, CopyInv, CopyShape
  <2> QED
    BY <1>1, <1>2, <2>1, <2>2, MoveKeeps DEF TR!Begin, TR!db, CopyInv, CopyShape
<1>3. CASE TR!Export(p)
  <2>1. view[p] = TR!Unread /\ work[p] = TR!NoRows
    BY <1>3 DEF TR!Export, TR!At, CopyInv, CopySound
  <2>2. todo'[p] = Tables /\ pc'[p] = "copy" /\ req'[p].kind = "export"
    BY <1>3 DEF TR!Export, TR!At, TR!Goto, CopyInv, CopyShape
  <2>3. Archiving(p)'
    BY <1>3, <2>1, <2>2 DEF TR!Export, Archiving, TR!NoRows
  <2>4. CopySound(p)'
    BY <1>3, <2>1, <2>2, <2>3 DEF TR!Export, CopySound, TR!At
  <2> QED
    BY <1>1, <1>3, <2>4, MoveKeeps DEF TR!Export, TR!db, CopyInv, CopyShape
<1> QED
  BY <1>2, <1>3

LEMMA OpenKeeps ==
  ASSUME TR!Plausible, CopyInv, NEW p \in Procs, TR!Open(p)
  PROVE  CopyInv'
<1>1. /\ DOMAIN identity' = Targets
      /\ \A k \in Targets : identity'[k] = identity[k] \/ (identity[k] = "none" /\ identity'[k] = "own")
  BY DEF TR!Open, CopyInv, CopyShape
<1>2. \A k \in Targets : Shown(k)'
  BY <1>1 DEF TR!Open, CopyInv, Shown, Moment, CopyRows
<1>3. pc[p] = "open" /\ pc'[p] = "inspect"
  BY DEF TR!Open, TR!Goto, CopyInv, CopyShape
<1>4. CopySound(p)'
  BY <1>3 DEF TR!Open, CopySound, Moment, CopyRows, TR!At, CopyInv
<1> QED
  BY <1>1, <1>2, <1>4, MoveKeeps DEF TR!Open, CopyInv, CopyShape

LEMMA InspectKeeps ==
  ASSUME TR!Plausible, CopyInv, NEW p \in Procs, TR!Inspect(p)
  PROVE  CopyInv'
<1>1. CASE TR!Refuse(p)
  BY <1>1, RefuseKeeps
<1>2. ASSUME NEW t \in todo[p], todo' = [todo EXCEPT ![p] = @ \ {t}],
             UNCHANGED <<TR!db, writes, faults, req, pc, view, work, raced, cut>>
      PROVE  CopyInv'
  <2>1. \A k \in Targets : Shown(k)'
    BY <1>2, NothingShown DEF TR!db
  <2>2. CopySound(p)'
    BY <1>2 DEF TR!Inspect, CopySound, Archiving, Moment, CopyRows, TR!At, TR!db, CopyInv
  <2> QED
    BY <1>2, <2>1, <2>2, OneMoves DEF TR!db, CopyInv, CopyShape
<1> QED
  BY <1>1, <1>2 DEF TR!Inspect

LEMMA StartKeeps ==
  ASSUME TR!Plausible, CopyInv, NEW p \in Procs, TR!Start(p)
  PROVE  CopyInv'
<1>1. \A k \in Targets : Shown(k)'
  BY NothingShown DEF TR!Start
<1>2. view[p] = TR!Unread /\ work[p] = TR!NoRows /\ req[p].kind = "transfer"
  BY DEF TR!Start, CopyInv, CopySound
<1>3. todo'[p] = TR!Copied /\ pc'[p] = "copy"
  BY DEF TR!Start, TR!Goto, CopyInv, CopyShape
<1>4. Copying(p)'
  BY <1>2, <1>3 DEF TR!Start, Copying
<1>5. CopySound(p)'
  BY <1>2, <1>3, <1>4 DEF TR!Start, CopySound, TR!At
<1> QED
  BY <1>1, <1>5, MoveKeeps DEF TR!Start, CopyInv, CopyShape

\* A table more, of the snapshot that p reads; an archive may lack its end.
TableCopied(p, t, more) ==
  /\ view' = [view EXCEPT ![p] = TR!Seen(p)] /\ work' = [work EXCEPT ![p][t] = more]
  /\ todo' = [todo EXCEPT ![p] = @ \ {t}] /\ UNCHANGED <<TR!db, writes, req, pc>>
  /\ \/ more = TR!Seen(p)[t] /\ cut' = cut
     \/ /\ req[p].kind = "export" /\ more \subseteq TR!Seen(p)[t]
        /\ cut' = [cut EXCEPT ![p] = @ \cup {t}]

LEMMA TableKeeps ==
  ASSUME TR!Plausible, CopyInv, NEW p \in Procs, pc[p] = "copy", NEW t \in todo[p], NEW more, TableCopied(p, t, more)
  PROVE  CopyInv'
<1>1. \A k \in Targets : Shown(k)'
  BY NothingShown DEF TableCopied, TR!db
<1>2. Moment(TR!Seen(p), Tables)
  BY SourceIsMoment DEF TR!Seen, CopyInv, CopySound
<1>3. /\ view'[p] = TR!Seen(p) /\ todo'[p] = todo[p] \ {t} /\ work'[p] = [work[p] EXCEPT ![t] = more]
      /\ DOMAIN cut' = Procs /\ \A q \in Procs \ {p} : cut'[q] = cut[q]
      /\ cut[p] \subseteq cut'[p] /\ (t \in cut'[p] \/ more = TR!Seen(p)[t])
      /\ UNCHANGED <<source, writes, req, pc, target, identity, live>>
      /\ DOMAIN view' = Procs /\ DOMAIN todo' = Procs /\ DOMAIN work' = Procs
      /\ \A q \in Procs \ {p} : view'[q] = view[q] /\ todo'[q] = todo[q] /\ work'[q] = work[q]
  BY DEF TableCopied, TR!db, CopyInv, CopyShape
<1>4. Moment(view[p], Tables)'
  BY <1>2, <1>3 DEF Moment, CopyRows
<1>5. CASE req[p].kind = "transfer"
  <2>1. Copying(p) /\ TR!Copied \subseteq Tables /\ more = TR!Seen(p)[t]
    BY <1>5 DEF TableCopied, TR!At, TR!Copied, CopyInv, CopySound
  <2>2. work[p] = [u \in Tables |-> IF u \in TR!Copied \ todo[p] THEN TR!Seen(p)[u] ELSE {}]
    <3>1. CASE view[p] = TR!Unread /\ Moment(view[p], Tables)
      <4>1. \A u \in Tables : FALSE
        BY <3>1 DEF Moment, CopyRows, TR!Unread, CopyInv, CopyShape, TR!Plausible
      <4> QED
        BY <2>1, <4>1 DEF Copying
    <3>2. CASE view[p] # TR!Unread
      BY <2>1, <3>2 DEF Copying, TR!Seen, TR!NoRows
    <3>3. CASE ~Moment(view[p], Tables)
      BY <2>1, <3>3 DEF Copying, TR!NoRows
    <3> QED
      BY <3>1, <3>2, <3>3
  <2>3. work'[p] = [u \in Tables |-> IF u \in TR!Copied \ todo'[p] THEN view'[p][u] ELSE {}]
    BY <1>3, <2>1, <2>2 DEF Copying
  <2>4. Copying(p)'
    BY <1>3, <1>4, <2>1, <2>3 DEF Copying
  <2> QED
    BY <1>1, <1>3, <1>4, <1>5, <2>4, OneMoves DEF CopySound, TR!At, CopyInv, CopyShape
<1>6. CASE req[p].kind = "export"
  <2>1. Archiving(p)
    BY <1>6 DEF CopyInv, CopySound
  <2>2. source # TR!Unread
    <3>1. t \in Tables /\ source[t] \subseteq 0 .. writes
      BY <2>1 DEF Archiving, CopyInv, CopyShape, CopyRows
    <3>2. -1 \in TR!Unread[t] /\ -1 \notin 0 .. writes
      BY <3>1 DEF TR!Unread
    <3> QED
      BY <3>1, <3>2
  <2>3. TR!Seen(p) # TR!Unread
    BY <2>2 DEF TR!Seen
  <2>4. \A u \in Tables \ todo[p] : TR!Seen(p) = view[p]
    BY <2>1 DEF Archiving, TR!Seen
  <2>5. DOMAIN work'[p] = Tables /\ work'[p][t] = more /\ \A u \in Tables \ {t} : work'[p][u] = work[p][u]
    BY <1>3, <2>1 DEF Archiving
  <2>6. Archiving(p)'
    <3>1. \A u \in Tables \ todo[p] : /\ view'[p] = view[p] /\ work'[p][u] = work[p][u]
                                      /\ u \notin cut'[p] => work[p][u] = view[p][u]
                                      /\ work[p][u] \subseteq view[p][u]
      BY <1>3, <2>1, <2>4, <2>5 DEF Archiving
    <3>2. more \subseteq view'[p][t] /\ (t \notin cut'[p] => more = view'[p][t])
      BY <1>3 DEF TableCopied
    <3> QED
      BY <1>3, <2>1, <2>3, <2>5, <3>1, <3>2 DEF Archiving, TR!Unread
  <2> QED
    BY <1>1, <1>3, <1>4, <1>6, <2>6, OneMoves DEF CopySound, TR!At, CopyInv, CopyShape
<1> QED
  BY <1>5, <1>6 DEF CopyInv, CopyShape, TR!Plausible

LEMMA CopyKeeps ==
  ASSUME TR!Plausible, CopyInv, NEW p \in Procs, TR!CopyTable(p) \/ TR!BreakOff(p)
  PROVE  CopyInv'
<1>1. CASE TR!Refuse(p)
  BY <1>1, RefuseKeeps
<1>2. CASE TR!CopyTable(p)
  BY <1>1, <1>2, TableKeeps DEF TR!CopyTable, TableCopied
<1>3. CASE TR!BreakOff(p)
  BY <1>3, TableKeeps DEF TR!BreakOff, TR!At, TableCopied
<1> QED
  BY <1>2, <1>3

\* What the commit makes visible is all of one moment.
LEMMA VisibleKeeps ==
  ASSUME TR!Plausible, CopyInv, NEW p \in Procs, TR!At(p, "transfer", "copy"), todo[p] = {},
         TR!Visible(p), TR!Forgotten(p), NEW label \in {"close", "error"}, TR!Goto(p, label),
         UNCHANGED <<source, live, writes, req, cut>>
  PROVE  CopyInv'
<1>1. Copying(p) /\ TR!Copied \subseteq Tables /\ TR!Target(p) \in Targets
  BY DEF TR!At, CopyInv, CopySound, CopyShape, TR!Copied, TR!Plausible, TR!Target
<1>2. Moment(work[p], TR!Copied) /\ \A t \in Skipped : work[p][t] = {}
  <2>1. CASE todo[p] = TR!Copied /\ work[p] = TR!NoRows
    BY <1>1, <2>1, NothingIsMoment DEF TR!NoRows, TR!Plausible, CopyInv
  <2>2. CASE /\ Moment(view[p], Tables)
             /\ work[p] = [t \in Tables |-> IF t \in TR!Copied \ todo[p] THEN view[p][t] ELSE {}]
    <3>1. work[p] = [t \in Tables |-> IF t \in TR!Copied THEN view[p][t] ELSE {}]
      BY <1>1, <2>2
    <3> QED
      BY <1>1, <2>2, <3>1, PartOfMoment DEF TR!Plausible, TR!Copied
  <2> QED
    BY <1>1, <2>1, <2>2 DEF Copying
<1>3. /\ DOMAIN target' = Targets /\ DOMAIN identity' = Targets
      /\ target'[TR!Target(p)] = work[p] /\ identity'[TR!Target(p)] = "source"
      /\ \A k \in Targets \ {TR!Target(p)} : target'[k] = target[k] /\ identity'[k] = identity[k]
  BY <1>1 DEF TR!Visible, CopyInv, CopyShape
<1>4. \A k \in Targets : Shown(k)'
  BY <1>1, <1>2, <1>3 DEF CopyInv, Shown, Moment, CopyRows, TR!Copied
<1>5. CopySound(p)'
  BY <1>3 DEF TR!Forgotten, TR!Goto, CopySound, TR!At, TR!Target, CopyInv, CopyShape
<1> QED
  BY <1>3, <1>4, <1>5, OneMoves DEF TR!Forgotten, TR!Goto, CopyInv, CopyShape

LEMMA EndKeeps ==
  ASSUME TR!Plausible, CopyInv, NEW p \in Procs, TR!CloseSource(p) \/ TR!Mark(p) \/ TR!Exported(p)
  PROVE  CopyInv'
<1>1. \A k \in Targets : Shown(k)'
  BY NothingShown DEF TR!CloseSource, TR!Mark, TR!Exported, TR!db
<1>2. CASE TR!CloseSource(p) \/ TR!Mark(p)
  <2>1. CopySound(p)'
    BY <1>2 DEF TR!CloseSource, TR!Mark, TR!Goto, CopySound, Moment, CopyRows, TR!At, TR!Target, TR!db, CopyInv, CopyShape
  <2> QED
    BY <1>1, <1>2, <2>1, MoveKeeps DEF TR!CloseSource, TR!Mark, TR!db, CopyInv, CopyShape
<1>3. CASE TR!Exported(p)
  <2>1. CopySound(p)'
    BY <1>3 DEF TR!Exported, TR!Goto, CopySound, Archiving, Moment, CopyRows, TR!At, TR!db, CopyInv, CopyShape
  <2> QED
    BY <1>1, <1>3, <2>1, MoveKeeps DEF TR!Exported, TR!db, CopyInv, CopyShape
<1> QED
  BY <1>2, <1>3

LEMMA FailKeeps ==
  ASSUME TR!Plausible, CopyInv, NEW p \in Procs, TR!Fails(p)
  PROVE  CopyInv'
<1>1. CASE TR!Refuse(p)
  BY <1>1, RefuseKeeps
<1>2. CASE /\ TR!At(p, "transfer", "copy") /\ todo[p] = {}
           /\ TR!Visible(p) /\ TR!Released(p) /\ TR!Goto(p, "error") /\ TR!Forgotten(p)
           /\ UNCHANGED <<source, marked, live, writes, req, raced, cut>>
  BY <1>2, VisibleKeeps
<1> QED
  BY <1>1, <1>2 DEF TR!Fails

\* A row more, in the source or in the target that is in use.
LEMMA CopyWriteKeeps ==
  ASSUME TR!Plausible, CopyInv, NEW t0 \in Tables, TR!Write(t0)
  PROVE  CopyInv'
<1>1. writes \in Nat /\ writes' = writes + 1 /\ writes' \in 0 .. MaxWrites
  BY DEF TR!Write, TR!Plausible, CopyInv, CopyShape
<1>2. UNCHANGED <<req, pc, todo, view, work, cut, identity, live>>
  BY DEF TR!Write, TR!mine
<1>3. CASE live = "source"
  <2>1. source' = [source EXCEPT ![t0] = @ \cup {writes + 1}] /\ target' = target
    BY <1>1, <1>3 DEF TR!Write
  <2>2. ASSUME NEW copied, NEW ts \in SUBSET Tables, Moment(copied, ts)
        PROVE  copied \in CopyRows' /\ Upto(copied, ts, source', writes')
    BY <1>1, <2>1, <2>2, SourceGrows DEF Moment, CopyRows, CopyInv, CopyShape
  <2>3. source' \in CopyRows'
    BY <1>1, <2>1 DEF CopyRows, CopyInv, CopyShape
  <2>4. TR!Copied \in SUBSET Tables
    BY DEF TR!Copied
  <2>5. ASSUME NEW p \in Procs PROVE CopySound(p)'
    <3>1. Moment(view[p], Tables) => Moment(view[p], Tables)'
      BY <1>2, <2>2 DEF Moment
    <3>2. CopySound(p)
      BY DEF CopyInv
    <3> QED
      BY <1>2, <3>1, <3>2 DEF CopySound, Copying, Archiving, TR!At, TR!Target
  <2>6. ASSUME NEW k \in Targets PROVE Shown(k)'
    <3>1. CASE identity[k] = "source"
      <4>1. Moment(target[k], TR!Copied) /\ \A t \in Skipped : target[k][t] \cap source[t] = {}
        BY <3>1 DEF CopyInv, Shown
      <4>2. Moment(target[k], TR!Copied)'
        BY <2>1, <2>2, <2>4, <4>1 DEF Moment
      <4>3. \A t \in Tables : writes + 1 \notin target[k][t]
        BY <1>1, <4>1 DEF Moment, CopyRows
      <4>4. \A t \in Skipped : target[k][t] \cap source'[t] = {}
        BY <2>1, <4>1, <4>3 DEF TR!Plausible, CopyInv, CopyShape, CopyRows
      <4> QED
        BY <1>2, <2>1, <3>1, <4>2, <4>4 DEF Shown
    <3>2. CASE identity[k] # "source"
      BY <1>2, <2>1, <3>2 DEF CopyInv, Shown
    <3> QED
      BY <3>1, <3>2
  <2> QED
    BY <1>1, <1>2, <2>1, <2>3, <2>5, <2>6 DEF CopyInv, CopyShape
<1>4. CASE live # "source"
  <2>1. /\ source' = source /\ live \in Targets /\ identity[live] = "source"
        /\ target' = [target EXCEPT ![live][t0] = @ \cup {writes + 1}]
    BY <1>1, <1>4 DEF TR!Write, CopyInv, CopyShape
  <2>2. source \in [Tables -> SUBSET (0 .. writes)]
    BY DEF CopyInv, CopyShape, CopyRows
  <2>3. ASSUME NEW copied, NEW more, NEW ts \in SUBSET Tables, Moment(copied, ts),
               \/ more = copied
               \/ more = [copied EXCEPT ![t0] = @ \cup {writes + 1}]
        PROVE  more \in CopyRows' /\ Upto(more, ts, source', writes')
    <3>1. copied \in [Tables -> SUBSET (0 .. writes)] /\ Upto(copied, ts, source, writes)
      BY <2>3 DEF Moment, CopyRows
    <3>2. more \in [Tables -> SUBSET (0 .. writes + 1)] /\ \A t \in Tables : more[t] \ {writes + 1} = copied[t]
      BY <1>1, <2>3, <3>1
    <3> QED
      BY <1>1, <2>1, <2>2, <3>1, <3>2, CopyGrows DEF CopyRows
  <2>4. source' \in CopyRows'
    BY <1>1, <2>1, <2>2 DEF CopyRows
  <2>5. ASSUME NEW p \in Procs PROVE CopySound(p)'
    <3>1. Moment(view[p], Tables) => Moment(view[p], Tables)'
      BY <1>2, <2>3 DEF Moment
    <3>2. CopySound(p)
      BY DEF CopyInv
    <3> QED
      BY <1>2, <3>1, <3>2 DEF CopySound, Copying, Archiving, TR!At, TR!Target
  <2>6. ASSUME NEW k \in Targets PROVE Shown(k)'
    <3>1. CASE identity[k] = "source"
      <4>1. Moment(target[k], TR!Copied) /\ \A t \in Skipped : target[k][t] \cap source[t] = {}
        BY <3>1 DEF CopyInv, Shown
      <4>2. target'[k] = target[k] \/ target'[k] = [target[k] EXCEPT ![t0] = @ \cup {writes + 1}]
        BY <2>1 DEF CopyInv, CopyShape
      <4>3. TR!Copied \in SUBSET Tables
        BY DEF TR!Copied
      <4>4. Moment(target[k], TR!Copied)'
        BY <2>3, <4>1, <4>2, <4>3 DEF Moment
      <4>5. \A t \in Tables : writes + 1 \notin source[t]
        BY <1>1, <2>2
      <4>6. \A t \in Skipped : target'[k][t] = target[k][t] \/ target'[k][t] = target[k][t] \cup {writes + 1}
        BY <4>1, <4>2 DEF Moment, CopyRows, TR!Plausible
      <4>7. \A t \in Skipped : target'[k][t] \cap source'[t] = {}
        BY <2>1, <4>1, <4>5, <4>6 DEF TR!Plausible
      <4> QED
        BY <1>2, <3>1, <4>4, <4>7 DEF Shown
    <3>2. CASE identity[k] # "source"
      BY <1>2, <2>1, <3>2 DEF CopyInv, Shown, CopyShape
    <3> QED
      BY <3>1, <3>2
  <2> QED
    BY <1>1, <1>2, <2>1, <2>4, <2>5, <2>6 DEF CopyInv, CopyShape
<1> QED
  BY <1>3, <1>4

\* The process dies: what was under way is gone, what was reported stays.
LEMMA KilledKeeps ==
  ASSUME TR!Plausible, CopyInv, NEW database, TR!Killed(database),
         database # "source" => database \in Targets /\ identity[database] = "source"
  PROVE  CopyInv'
<1>1. \A k \in Targets : Shown(k)'
  BY NothingShown DEF TR!Killed
<1>2. CopyShape'
  BY DEF TR!Killed, CopyInv, CopyShape, CopyRows
<1>3. ASSUME NEW p \in Procs PROVE CopySound(p)'
  <2>1. CopySound(p)
    BY DEF CopyInv
  <2>2. pc'[p] \in TR!Ended \cup {"error"} /\ (pc'[p] = pc[p] \/ pc'[p] = "error")
    BY DEF TR!Killed, TR!Ended
  <2>3. pc[p] = "ok" => view'[p] = view[p] /\ work'[p] = work[p]
    BY DEF TR!Killed
  <2>4. pc[p] # "ok" => view'[p] = TR!Unread /\ work'[p] = TR!NoRows
    BY DEF TR!Killed
  <2>5. UNCHANGED <<source, writes, req, identity>>
    BY DEF TR!Killed
  <2>6. todo'[p] = {} /\ cut' = cut
    BY DEF TR!Killed
  <2> QED
    BY <2>1, <2>2, <2>3, <2>4, <2>5, <2>6 DEF CopySound, Archiving, Moment, CopyRows, TR!At, TR!Target, TR!Ended
<1> QED
  BY <1>1, <1>2, <1>3 DEF CopyInv

----------------------------------------------------------------------------
(* What a target shows of a transfer, and what an archive holds, is of one *)
(* moment of the source, whatever is written, fails or crashes meanwhile.  *)
(* An archive whose read broke off without an error (transfer.go:221-239)  *)
(* lacks rows of that moment in the tables concerned, and has no others.   *)
THEOREM CopiesAreOfOneMoment == TR!Plausible /\ TR!Spec => []TR!CopiesOneMoment
<1>1. TR!Plausible /\ TR!Init => CopyInv
  <2> SUFFICES ASSUME TR!Plausible, TR!Init PROVE CopyInv
    OBVIOUS
  <2>1. CopyShape
    BY DEF TR!Init, CopyShape, CopyRows, TR!Plausible
  <2>2. ASSUME NEW p \in Procs PROVE CopySound(p)
    BY DEF TR!Init, CopySound, TR!At
  <2>3. ASSUME NEW k \in Targets PROVE Shown(k)
    BY DEF TR!Init, Shown
  <2> QED
    BY <2>1, <2>2, <2>3 DEF CopyInv
<1>2. TR!Plausible /\ CopyInv /\ [TR!Next]_(TR!vars) => CopyInv'
  <2> SUFFICES ASSUME TR!Plausible, CopyInv, [TR!Next]_(TR!vars) PROVE CopyInv'
    OBVIOUS
  <2>1. CASE UNCHANGED TR!vars
    <3>1. UNCHANGED <<source, writes, req, pc, todo, view, work, cut, target, identity, live>>
      BY <2>1 DEF TR!vars, TR!db, TR!mine
    <3>2. CopyShape'
      BY <3>1 DEF CopyInv, CopyShape, CopyRows
    <3>3. ASSUME NEW p \in Procs PROVE CopySound(p)'
      BY <3>1 DEF CopyInv, CopySound, Copying, Archiving, Moment, CopyRows, TR!At, TR!Target
    <3> QED
      BY <3>1, <3>2, <3>3, NothingShown DEF CopyInv
  <2>2. ASSUME NEW p \in Procs, TR!Commit(p) PROVE CopyInv'
    BY <2>2, VisibleKeeps DEF TR!Commit
  <2>3. ASSUME NEW p \in Procs,
               \/ TR!Begin(p) \/ TR!Open(p) \/ TR!Inspect(p) \/ TR!Start(p) \/ TR!CopyTable(p) \/ TR!CloseSource(p) \/ TR!Mark(p)
               \/ TR!Fails(p) \/ TR!Export(p) \/ TR!BreakOff(p) \/ TR!Exported(p)
        PROVE  CopyInv'
    BY <2>3, BeginKeeps, OpenKeeps, InspectKeeps, StartKeeps, CopyKeeps, EndKeeps, FailKeeps
  <2>4. ASSUME NEW t \in Tables, TR!Write(t) PROVE CopyInv'
    BY <2>4, CopyWriteKeeps
  <2>5. CASE TR!Crash
    BY <2>5, KilledKeeps DEF TR!Crash
  <2>6. ASSUME NEW k \in Targets, TR!Switch(k) PROVE CopyInv'
    BY <2>6, KilledKeeps DEF TR!Switch, TR!At, CopyInv, CopySound
  <2> QED
    BY <2>1, <2>2, <2>3, <2>4, <2>5, <2>6 DEF TR!Next
<1>3. TR!Plausible /\ CopyInv => TR!CopiesOneMoment
  <2> SUFFICES ASSUME TR!Plausible, CopyInv PROVE TR!CopiesOneMoment
    OBVIOUS
  <2>1. ASSUME NEW copied, NEW ts, Moment(copied, ts) PROVE TR!OfOneMoment(copied, ts)
    <3>1. 0 .. writes \subseteq 0 .. MaxWrites
      BY DEF TR!Plausible, CopyInv, CopyShape
    <3> QED
      BY <2>1, <3>1 DEF Moment, Upto, TR!OfOneMoment, TR!UpTo
  <2>2. \A k \in Targets : Shown(k)
    BY DEF CopyInv
  <2>3. ASSUME NEW p \in Procs, TR!At(p, "export", "ok") PROVE TR!ArchiveOfOneMoment(p)
    <3>1. Archiving(p) /\ todo[p] = {} /\ (view[p] = TR!Unread \/ Moment(view[p], Tables))
      BY <2>3 DEF TR!At, CopyInv, CopySound
    <3>2. CASE view[p] = TR!Unread
      <4>1. Tables = {} /\ 0 \in 0 .. MaxWrites
        BY <3>1, <3>2 DEF Archiving, TR!Plausible
      <4> QED
        BY <4>1 DEF TR!ArchiveOfOneMoment
    <3>3. CASE Moment(view[p], Tables)
      <4>1. PICK n \in 0 .. MaxWrites : \A t \in Tables : view[p][t] \cap source[t] = TR!UpTo(t, n)
        BY <2>1, <3>3 DEF TR!OfOneMoment
      <4> QED
        BY <3>1, <4>1 DEF Archiving, TR!ArchiveOfOneMoment
    <3> QED
      BY <3>1, <3>2, <3>3
  <2> QED
    BY <2>1, <2>2, <2>3 DEF TR!CopiesOneMoment, Shown
<1>4. TR!Plausible => TR!Plausible'
  BY DEF TR!Plausible
<1> QED
  BY <1>1, <1>2, <1>3, <1>4, PTL DEF TR!Spec

----------------------------------------------------------------------------
\* A transfer under way or reported, and not refused.
Alive(p) == req[p].kind = "transfer" /\ pc[p] \notin {"begin", "error"}

\* Two such transfers overlapped when the later one began, and a reported one
\* has marked the source, so that no later one begins.
Once ==
  /\ DOMAIN pc = Procs
  /\ \A p, q \in Procs : p # q /\ Alive(p) /\ Alive(q) => p \in raced \/ q \in raced
  /\ \A p \in Procs : TR!At(p, "transfer", "ok") => marked

\* A step that begins no transfer and ends none without the mark.
LEMMA GoOnKeeps ==
  ASSUME Once, raced' = raced, req' = req, DOMAIN pc' = Procs, marked => marked',
         \A p \in Procs : pc[p] \in {"begin", "error"} /\ req[p].kind = "transfer" => pc'[p] \in {"begin", "error"},
         \A p \in Procs : pc'[p] = "ok" /\ req[p].kind = "transfer" => pc[p] = "ok" \/ marked'
  PROVE  Once'
BY DEF Once, Alive, TR!At

(* Two transfers that both report success were under way at one time:     *)
(* without an overlap the transfer is done once, whatever crashes.         *)
THEOREM TransferredOnce == TR!Spec => []TR!OneTargetOrOverlap
<1>1. TR!Init => Once
  BY DEF TR!Init, Once, Alive, TR!At
<1>2. Once /\ [TR!Next]_(TR!vars) => Once'
  <2> SUFFICES ASSUME Once, [TR!Next]_(TR!vars) PROVE Once'
    OBVIOUS
  <2>1. CASE UNCHANGED TR!vars
    BY <2>1, GoOnKeeps DEF TR!vars, TR!db, TR!mine, Once
  <2>2. ASSUME NEW p \in Procs, TR!Begin(p) PROVE Once'
    <3>1. PICK label \in {"open", "error"} :
            pc' = [pc EXCEPT ![p] = label] /\ (label = "open" => ~marked)
      BY <2>2 DEF TR!Begin, TR!Goto, TR!Available
    <3>2. CASE label = "error"
      BY <2>2, <3>1, <3>2 DEF TR!Begin, TR!db, Once, Alive, TR!At
    <3>3. CASE label = "open"
      <4>1. ASSUME NEW q \in Procs \ {p}, Alive(q) PROVE p \in raced'
        <5>1. pc[q] \notin TR!Ended
          BY <3>1, <3>3, <4>1 DEF Once, Alive, TR!At, TR!Ended
        <5> QED
          BY <2>2, <4>1, <5>1 DEF TR!Begin, Alive
      <4>2. UNCHANGED <<req, marked>> /\ raced \subseteq raced'
        BY <2>2 DEF TR!Begin, TR!db
      <4> QED
        BY <3>1, <3>3, <4>1, <4>2 DEF Once, Alive, TR!At
    <3> QED
      BY <3>1, <3>2, <3>3
  <2>3. ASSUME NEW p \in Procs, TR!Refuse(p) PROVE Once'
    BY <2>3, GoOnKeeps DEF TR!Refuse, TR!Goto, Once
  <2>4. ASSUME NEW p \in Procs, TR!Open(p) \/ TR!Start(p) \/ TR!CloseSource(p) \/ TR!Mark(p) PROVE Once'
    BY <2>4, GoOnKeeps DEF TR!Open, TR!Start, TR!CloseSource, TR!Mark, TR!Goto, TR!db, Once
  <2>5. ASSUME NEW p \in Procs, TR!Inspect(p) \/ TR!CopyTable(p) \/ TR!BreakOff(p) PROVE Once'
    BY <2>3, <2>5, GoOnKeeps DEF TR!Inspect, TR!CopyTable, TR!BreakOff, TR!db, Once
  <2>6. ASSUME NEW p \in Procs, TR!Commit(p) PROVE Once'
    BY <2>6, GoOnKeeps DEF TR!Commit, TR!Goto, TR!At, Once
  <2>7. ASSUME NEW p \in Procs, TR!Fails(p) PROVE Once'
    <3>1. CASE TR!Refuse(p)
      BY <2>3, <3>1
    <3>2. CASE TR!Goto(p, "error") /\ UNCHANGED <<marked, req, raced>>
      BY <3>2, GoOnKeeps DEF TR!Goto, Once
    <3> QED
      BY <2>7, <3>1, <3>2 DEF TR!Fails
  <2>8. ASSUME NEW p \in Procs, TR!Export(p) \/ TR!Exported(p) PROVE Once'
    BY <2>8, GoOnKeeps DEF TR!Export, TR!Exported, TR!At, TR!Goto, TR!db, Once
  <2>9. ASSUME NEW t \in Tables, TR!Write(t) PROVE Once'
    BY <2>9, GoOnKeeps DEF TR!Write, TR!mine, Once
  <2>10. ASSUME NEW database, TR!Killed(database) PROVE Once'
    BY <2>10, GoOnKeeps DEF TR!Killed, TR!Ended, Once
  <2> QED
    BY <2>1, <2>2, <2>4, <2>5, <2>6, <2>7, <2>8, <2>9, <2>10 DEF TR!Next, TR!Crash, TR!Switch
<1>3. Once => TR!OneTargetOrOverlap
  BY DEF Once, TR!OneTargetOrOverlap, Alive, TR!At
<1> QED
  BY <1>1, <1>2, <1>3, PTL DEF TR!Spec

----------------------------------------------------------------------------
(* For any number of dashboards and requests, however they overlap: only a *)
(* published dashboard is marked as embeddable, a dashboard is what the    *)
(* requests asked for, and a visitor is told what was true at some moment. *)

Published(d) == d.embed => d.uuid # {}

BoardColumns(d) == {"uuid", "embed", "archived", "tabs", "cards"} \subseteq DOMAIN d

BoardShape ==
  /\ DOMAIN req = Procs /\ DOMAIN pc = Procs /\ DOMAIN mem = Procs
  /\ \A p \in Procs : {"kind", "board"} \subseteq DOMAIN req[p] /\ BoardColumns(mem[p])
  /\ \A b \in DOMAIN boards : BoardColumns(boards[b])
  /\ \A p \in Procs : req[p].kind \in PU!Found => req[p].board \in DOMAIN boards

\* What a request is about to store is published if it is embeddable; a
\* revocation is not embeddable from the moment it has decided to be one.
Held ==
  \A p \in Procs :
    /\ req[p].kind # "visit" => Published(mem[p])
    /\ req[p].kind = "disable" /\ pc[p] \in {"update", "store"} => ~mem[p].embed

BoardIInv == BoardShape /\ Held /\ PU!EmbedNeedsLink

----------------------------------------------------------------------------
LEMMA NormalizedKeeps ==
  ASSUME NEW d, BoardColumns(d)
  PROVE  /\ BoardColumns(PU!Normalized(d))
         /\ PU!Normalized(d).uuid = d.uuid /\ PU!Normalized(d).embed = d.embed
BY DEF PU!Normalized, BoardColumns

\* What a request stores is as published as what it held.
LEMMA StoreKeeps ==
  ASSUME BoardIInv, NEW p \in Procs, NEW b, NEW d, NEW left, NEW overlapped,
         BoardColumns(d), Published(d), PU!Store(p, b, d, left, overlapped)
  PROVE  BoardIInv'
<1>1. /\ BoardColumns(PU!Normalized(d)) /\ Published(PU!Normalized(d))
  BY NormalizedKeeps DEF Published
<1>2. /\ DOMAIN boards' = DOMAIN boards \cup {b}
      /\ \A x \in DOMAIN boards' :
           boards'[x] = IF x # b THEN boards[x]
                        ELSE IF x \in DOMAIN boards THEN [PU!Normalized(d) EXCEPT !.archived = boards[x].archived]
                        ELSE PU!Normalized(d)
  BY DEF PU!Store
<1>3. \A a : LET n == [PU!Normalized(d) EXCEPT !.archived = a] IN BoardColumns(n) /\ Published(n)
  BY <1>1 DEF BoardColumns, Published
<1>4. ASSUME NEW x \in DOMAIN boards'
      PROVE  BoardColumns(boards'[x]) /\ Published(boards'[x])
  <2>1. CASE x # b
    BY <1>2, <2>1 DEF BoardIInv, BoardShape, PU!EmbedNeedsLink, Published
  <2>2. CASE x = b /\ x \in DOMAIN boards
    BY <1>2, <1>3, <2>2
  <2>3. CASE x = b /\ x \notin DOMAIN boards
    BY <1>1, <1>2, <2>3
  <2> QED
    BY <2>1, <2>2, <2>3
<1>5. /\ DOMAIN mem' = Procs /\ mem'[p] = PU!Normalized(d)
      /\ \A q \in Procs \ {p} : mem'[q] = mem[q]
  BY DEF PU!Store, PU!Snapshot, BoardIInv, BoardShape
<1>6. /\ DOMAIN req' = Procs
      /\ \A q \in Procs : req'[q].kind = req[q].kind /\ {"kind", "board"} \subseteq DOMAIN req'[q]
      /\ req'[p].board = b /\ \A q \in Procs \ {p} : req'[q].board = req[q].board
  BY DEF PU!Store, BoardIInv, BoardShape
<1>7. DOMAIN pc' = Procs /\ pc'[p] = "revision" /\ \A q \in Procs \ {p} : pc'[q] = pc[q]
  BY DEF PU!Store, PU!Goto, BoardIInv, BoardShape
<1>8. BoardShape'
  BY <1>1, <1>2, <1>4, <1>5, <1>6, <1>7 DEF BoardIInv, BoardShape
<1>9. Held'
  BY <1>1, <1>5, <1>6, <1>7 DEF BoardIInv, Held
<1> QED
  BY <1>4, <1>8, <1>9 DEF BoardIInv, PU!EmbedNeedsLink, Published

\* A step of p that stores nothing, and leaves p something that may be stored.
LEMMA HoldKeeps ==
  ASSUME BoardIInv, NEW p \in Procs, NEW label, NEW m,
         UNCHANGED <<boards, req>>, PU!Goto(p, label), mem' = [mem EXCEPT ![p] = m],
         BoardColumns(m), req[p].kind # "visit" => Published(m),
         req[p].kind = "disable" /\ label \in {"update", "store"} => ~m.embed
  PROVE  BoardIInv'
<1>1. DOMAIN pc' = Procs /\ pc'[p] = label /\ \A q \in Procs \ {p} : pc'[q] = pc[q]
  BY DEF PU!Goto, BoardIInv, BoardShape
<1>2. DOMAIN mem' = Procs /\ mem'[p] = m /\ \A q \in Procs \ {p} : mem'[q] = mem[q]
  BY DEF BoardIInv, BoardShape
<1>3. BoardShape'
  BY <1>1, <1>2 DEF BoardIInv, BoardShape
<1>4. Held'
  BY <1>1, <1>2 DEF BoardIInv, Held
<1> QED
  BY <1>3, <1>4 DEF BoardIInv, PU!EmbedNeedsLink

\* A step of p that changes no dashboard and does not decide to revoke.
LEMMA BoardMoveKeeps ==
  ASSUME BoardIInv, NEW p \in Procs, NEW label, PU!Goto(p, label), UNCHANGED <<boards, req, mem>>,
         label \notin {"update", "store"}
  PROVE  BoardIInv'
<1>1. DOMAIN pc' = Procs /\ pc'[p] = label /\ \A q \in Procs \ {p} : pc'[q] = pc[q]
  BY DEF PU!Goto, BoardIInv, BoardShape
<1> QED
  BY <1>1 DEF BoardIInv, BoardShape, Held, PU!EmbedNeedsLink

LEMMA LoadKeeps ==
  ASSUME BoardIInv, NEW p \in Procs, NEW fields, NEW label, PU!Load(p, fields, label),
         req[p].kind \in PU!Found, "embed" \in fields <=> "uuid" \in fields,
         label \notin {"update", "store"}
  PROVE  BoardIInv'
<1> DEFINE m == [f \in DOMAIN mem[p] |-> IF f \in fields THEN PU!Board(p)[f] ELSE mem[p][f]]
<1>1. mem' = [mem EXCEPT ![p] = m] /\ UNCHANGED <<boards, req>> /\ PU!Goto(p, label)
  BY DEF PU!Load, PU!rows
<1>2. BoardColumns(m)
  BY DEF BoardIInv, BoardShape, BoardColumns
<1>3. Published(PU!Board(p)) /\ Published(mem[p])
  BY DEF BoardIInv, BoardShape, Held, PU!EmbedNeedsLink, Published, PU!Board, PU!Found
<1>4. Published(m)
  BY <1>3 DEF Published, BoardIInv, BoardShape, BoardColumns
<1> QED
  BY <1>1, <1>2, <1>4, HoldKeeps

LEMMA DocumentsKeep ==
  ASSUME BoardIInv, NEW p \in Procs,
         PU!CreateDashboard(p) \/ PU!EditDashboard(p) \/ PU!DuplicateDashboard(p) \/ PU!SetArchived(p)
  PROVE  BoardIInv'
<1>1. ASSUME NEW text, NEW tabs, NEW cards
      PROVE  BoardColumns(PU!Private(text, tabs, cards)) /\ Published(PU!Private(text, tabs, cards))
  BY DEF PU!Private, BoardColumns, Published
<1>2. CASE PU!CreateDashboard(p)
  BY <1>1, <1>2, StoreKeeps DEF PU!CreateDashboard
<1>3. CASE PU!EditDashboard(p)
  <2> DEFINE m == [PU!Board(p) EXCEPT !.text = req[p].text, !.tabs = req[p].tabs, !.cards = req[p].cards]
  <2>1. BoardColumns(PU!Board(p)) /\ Published(PU!Board(p))
    BY <1>3 DEF PU!EditDashboard, PU!At, PU!Board, PU!Found, BoardIInv, BoardShape, PU!EmbedNeedsLink, Published
  <2>2. BoardColumns(m) /\ Published(m)
    BY <2>1 DEF BoardColumns, Published
  <2>3. /\ UNCHANGED <<boards, req>> /\ PU!Goto(p, "update") /\ mem' = [mem EXCEPT ![p] = m]
        /\ req[p].kind = "edit"
    BY <1>3 DEF PU!EditDashboard, PU!At, PU!rows
  <2> QED
    BY <2>2, <2>3, HoldKeeps
<1>4. CASE PU!DuplicateDashboard(p)
  <2>1. CASE PU!Answer(p, "row")
    BY <2>1, BoardMoveKeeps DEF PU!Answer, PU!rows
  <2>2. CASE \E b \in PU!Unused : PU!Store(p, b, PU!Private(mem[p].text, mem[p].tabs, mem[p].cards), {},
                                     fresh[p] = {} \/ PU!Id(p) \in raced)
    BY <1>1, <2>2, StoreKeeps
  <2> QED
    BY <1>4, <2>1, <2>2 DEF PU!DuplicateDashboard
<1>5. CASE PU!SetArchived(p)
  <2>1. /\ DOMAIN boards' = DOMAIN boards /\ UNCHANGED <<req, mem>> /\ PU!Goto(p, "done")
        /\ \A b \in DOMAIN boards :
             boards'[b] = boards[b] \/ boards'[b] = [boards[b] EXCEPT !.archived = req[p].kind = "archive"]
    BY <1>5 DEF PU!SetArchived, PU!Id
  <2>2. \A b \in DOMAIN boards : BoardColumns(boards'[b]) /\ Published(boards'[b])
    BY <2>1 DEF BoardIInv, BoardShape, PU!EmbedNeedsLink, Published, BoardColumns
  <2>3. DOMAIN pc' = Procs /\ pc'[p] = "done" /\ \A q \in Procs \ {p} : pc'[q] = pc[q]
    BY <2>1 DEF PU!Goto, BoardIInv, BoardShape
  <2>4. BoardShape'
    BY <2>1, <2>2, <2>3 DEF BoardIInv, BoardShape
  <2>5. Held'
    BY <2>1, <2>3 DEF BoardIInv, Held
  <2> QED
    BY <2>1, <2>2, <2>4, <2>5 DEF BoardIInv, PU!EmbedNeedsLink, Published
<1> QED
  BY <1>2, <1>3, <1>4, <1>5

\* A kept link is the row's only when the request held none, and was then not
\* embeddable; a revocation holds no mark.
LEMMA UpdateKeeps ==
  ASSUME BoardIInv, NEW p \in Procs, PU!UpdateDashboard(p)
  PROVE  BoardIInv'
<1> DEFINE link == PU!LinkLeft(mem[p].uuid, req[p].kind = "disable", PU!Board(p).uuid)
           m == [mem[p] EXCEPT !.uuid = link]
<1>1. req[p].kind \in {"edit", "enable", "disable", "embed"}
  BY DEF PU!UpdateDashboard, PU!At
<1>2. BoardColumns(mem[p]) /\ Published(mem[p])
  BY <1>1 DEF BoardIInv, BoardShape, Held
<1>3. CASE PU!Answer(p, "refused")
  BY <1>3, BoardMoveKeeps DEF PU!Answer, PU!rows
<1>4. CASE pc[p] = "update" /\ PU!Goto(p, "store") /\ mem' = [mem EXCEPT ![p].uuid = link]
           /\ UNCHANGED <<PU!rows, req, fresh, raced, word>>
  <2>1. mem' = [mem EXCEPT ![p] = m]
    BY <1>4
  <2>2. BoardColumns(m) /\ m.uuid = link /\ m.embed = mem[p].embed
    BY <1>2 DEF BoardColumns
  <2>3. CASE req[p].kind = "disable"
    <3>1. ~mem[p].embed
      BY <1>4, <2>3 DEF BoardIInv, Held
    <3> QED
      BY <1>4, <2>1, <2>2, <2>3, <3>1, HoldKeeps DEF Published, PU!rows
  <2>4. CASE req[p].kind # "disable"
    <3>1. mem[p].uuid # {} => link = mem[p].uuid
      BY <2>4 DEF PU!LinkLeft
    <3>2. Published(m)
      BY <1>2, <2>2, <3>1 DEF Published
    <3> QED
      BY <1>4, <2>1, <2>2, <2>4, <3>2, HoldKeeps DEF PU!rows
  <2> QED
    BY <2>3, <2>4
<1>5. ASSUME NEW left, NEW overlapped, PU!Store(p, PU!Id(p), mem[p], left, overlapped)
      PROVE  BoardIInv'
  BY <1>2, <1>5, StoreKeeps
<1>6. \/ PU!Answer(p, "refused")
      \/ pc[p] = "update" /\ PU!Goto(p, "store") /\ mem' = [mem EXCEPT ![p].uuid = link]
         /\ UNCHANGED <<PU!rows, req, fresh, raced, word>>
      \/ PU!Store(p, PU!Id(p), mem[p], CASE req[p].kind = "enable" -> mem[p].uuid
                                    [] req[p].kind = "disable" -> {}
                                    [] OTHER -> word[PU!Id(p)],
              fresh[p] = {})
  BY DEF PU!UpdateDashboard, PU!At
<1> QED
  BY <1>3, <1>4, <1>5, <1>6

LEMMA ReadKeeps ==
  ASSUME BoardIInv, NEW p \in Procs, PU!ByID(p)
  PROVE  BoardIInv'
<1>1. req[p].kind \in PU!Found
  BY DEF PU!ByID, PU!At, PU!Found
<1>2. CASE PU!Load(p, {"uuid", "embed", "archived", "text"}, "tabs")
  BY <1>1, <1>2, LoadKeeps
<1>3. CASE PU!Load(p, {"tabs"}, "cards")
  BY <1>1, <1>3, LoadKeeps
<1>4. CASE PU!Load(p, {"cards"}, "loaded")
  BY <1>1, <1>4, LoadKeeps
<1> QED
  BY <1>2, <1>3, <1>4 DEF PU!ByID

LEMMA SwitchesKeep ==
  ASSUME BoardIInv, NEW p \in Procs,
         PU!EnablePublicLink(p) \/ PU!DisablePublicLink(p) \/ PU!SetEmbedding(p) \/ PU!SaveAdminSettings(p) \/ PU!RecordRevision(p)
  PROVE  BoardIInv'
<1>1. ASSUME NEW label, label \notin {"update", "store"}, PU!Answer(p, label)
      PROVE  BoardIInv'
  BY <1>1, BoardMoveKeeps DEF PU!Answer, PU!rows
<1>2. CASE PU!EnablePublicLink(p)
  <2> DEFINE m == [mem[p] EXCEPT !.uuid = IF @ = {} THEN {p} ELSE @]
  <2>1. ASSUME PU!At(p, {"enable"}, "loaded"), mem' = [mem EXCEPT ![p].uuid = IF @ = {} THEN {p} ELSE @],
               PU!Goto(p, "update"), UNCHANGED <<PU!rows, req, fresh, raced, word>>
        PROVE  BoardIInv'
    <3>1. mem' = [mem EXCEPT ![p] = m] /\ req[p].kind = "enable"
      BY <2>1 DEF PU!At
    <3>2. BoardColumns(m) /\ Published(m)
      BY DEF BoardIInv, BoardShape, BoardColumns, Published
    <3> QED
      BY <2>1, <3>1, <3>2, HoldKeeps DEF PU!rows
  <2> QED
    BY <1>1, <1>2, <2>1 DEF PU!EnablePublicLink
<1>3. CASE PU!DisablePublicLink(p)
  <2>1. ASSUME PU!At(p, {"disable"}, "loaded"), mem' = [mem EXCEPT ![p] = PU!Revoked(@)],
               PU!Goto(p, "update"), UNCHANGED <<PU!rows, req, fresh, raced, word>>
        PROVE  BoardIInv'
    <3>1. mem' = [mem EXCEPT ![p] = PU!Revoked(mem[p])]
      BY <2>1
    <3>2. BoardColumns(PU!Revoked(mem[p])) /\ ~PU!Revoked(mem[p]).embed
      BY DEF BoardIInv, BoardShape, BoardColumns, PU!Revoked
    <3> QED
      BY <2>1, <3>1, <3>2, HoldKeeps DEF PU!rows, Published
  <2> QED
    BY <1>1, <1>3, <2>1 DEF PU!DisablePublicLink
<1>4. CASE PU!SetEmbedding(p)
  <2> DEFINE m == [mem[p] EXCEPT !.embed = req[p].on]
  <2>1. ASSUME PU!At(p, {"embed"}, "loaded"), req[p].on => mem[p].uuid # {}, mem' = [mem EXCEPT ![p].embed = req[p].on],
               PU!Goto(p, "update"), UNCHANGED <<PU!rows, req, fresh, raced, word>>
        PROVE  BoardIInv'
    <3>1. mem' = [mem EXCEPT ![p] = m] /\ req[p].kind = "embed"
      BY <2>1 DEF PU!At
    <3>2. BoardColumns(m) /\ m.uuid = mem[p].uuid /\ m.embed = req[p].on
      BY DEF BoardIInv, BoardShape, BoardColumns
    <3>3. Published(m)
      BY <2>1, <3>2 DEF Published
    <3> QED
      BY <2>1, <3>1, <3>2, <3>3, HoldKeeps DEF PU!rows
  <2> QED
    BY <1>1, <1>4, <2>1 DEF PU!SetEmbedding
<1>5. CASE PU!SaveAdminSettings(p) \/ PU!RecordRevision(p)
  BY <1>5, BoardMoveKeeps DEF PU!SaveAdminSettings, PU!RecordRevision
<1> QED
  BY <1>2, <1>3, <1>4, <1>5

\* A visit stores nothing: what it reads may be embeddable without a link.
LEMMA VisitKeeps ==
  ASSUME BoardIInv, NEW p \in Procs, PU!Visit(p)
  PROVE  BoardIInv'
<1>1. req[p].kind = "visit" /\ boards' = boards
  BY DEF PU!Visit, PU!At, PU!Answer, PU!Load, PU!rows
<1>2. /\ DOMAIN req' = Procs
      /\ \A q \in Procs : req'[q].kind = req[q].kind /\ {"kind", "board"} \subseteq DOMAIN req'[q]
      /\ \A q \in Procs \ {p} : req'[q].board = req[q].board
  BY DEF PU!Visit, PU!Answer, PU!Load, BoardIInv, BoardShape
<1>3. /\ DOMAIN mem' = Procs /\ BoardColumns(mem'[p])
      /\ \A q \in Procs \ {p} : mem'[q] = mem[q]
  BY DEF PU!Visit, PU!Answer, PU!Load, BoardIInv, BoardShape, BoardColumns
<1>4. /\ DOMAIN pc' = Procs
      /\ \A q \in Procs \ {p} : pc'[q] = pc[q]
  BY DEF PU!Visit, PU!Answer, PU!Load, PU!Goto, BoardIInv, BoardShape
<1>5. BoardShape'
  BY <1>1, <1>2, <1>3, <1>4 DEF BoardIInv, BoardShape, PU!Found
<1>6. Held'
  BY <1>1, <1>2, <1>3, <1>4 DEF BoardIInv, Held
<1> QED
  BY <1>1, <1>5, <1>6 DEF BoardIInv, PU!EmbedNeedsLink

----------------------------------------------------------------------------
LEMMA BoardInductive == PU!Plausible /\ PU!Spec => []BoardIInv
<1>1. PU!Plausible /\ PU!Init => BoardIInv
  <2> SUFFICES ASSUME PU!Plausible, PU!Init PROVE BoardIInv
    OBVIOUS
  <2>1. PICK s \in PublishingStarts : boards = s.boards
    BY DEF PU!Init
  <2>2. /\ DOMAIN mem = Procs /\ DOMAIN pc = Procs /\ DOMAIN req = Procs
        /\ \A p \in Procs : mem[p] = PU!Private(0, {}, {}) /\ req[p] \in PublishingAsks
    BY DEF PU!Init
  <2>3. BoardColumns(PU!Private(0, {}, {}))
    BY DEF BoardColumns, PU!Private
  <2>6. \A p \in Procs : {"kind", "board"} \subseteq DOMAIN req[p]
    BY <2>2 DEF PU!Plausible
  <2>7. \A p \in Procs : req[p].kind \in PU!Found => req[p].board \in DOMAIN boards
    BY <2>1, <2>2 DEF PU!Plausible
  <2>8. \A b \in DOMAIN boards : BoardColumns(boards[b])
    BY <2>1 DEF PU!Plausible, BoardColumns
  <2>9. BoardShape
    BY <2>2, <2>3, <2>6, <2>7, <2>8 DEF BoardShape
  <2>4. Held
    <3>1. Published(PU!Private(0, {}, {})) /\ ~PU!Private(0, {}, {}).embed
      BY DEF PU!Private, Published
    <3> QED
      BY <2>2, <3>1 DEF Held
  <2>5. PU!EmbedNeedsLink
    <3>1. \A b \in DOMAIN s.boards : s.boards[b].embed => s.boards[b].uuid # {}
      BY DEF PU!Plausible
    <3> QED
      BY <2>1, <3>1 DEF PU!EmbedNeedsLink
  <2> QED
    BY <2>9, <2>4, <2>5 DEF BoardIInv
<1>2. BoardIInv /\ [PU!Next]_(PU!vars) => BoardIInv'
  <2> SUFFICES ASSUME BoardIInv, [PU!Next]_(PU!vars) PROVE BoardIInv'
    OBVIOUS
  <2>1. CASE UNCHANGED PU!vars
    BY <2>1 DEF PU!vars, PU!rows, BoardIInv, BoardShape, Held, PU!EmbedNeedsLink
  <2>2. ASSUME NEW p \in Procs, PU!Step(p) PROVE BoardIInv'
    BY <2>2, DocumentsKeep, UpdateKeeps, ReadKeeps, SwitchesKeep, VisitKeeps DEF PU!Step
  <2> QED
    BY <2>1, <2>2 DEF PU!Next
<1> QED
  BY <1>1, <1>2, PTL DEF PU!Spec

(* An embeddable dashboard has a link, in every interleaving of edits,     *)
(* copies, publications, revocations and switches of embedding.            *)
THEOREM EmbeddedIsPublished == PU!Plausible /\ PU!Spec => []PU!EmbedNeedsLink
<1>1. BoardIInv => PU!EmbedNeedsLink
  BY DEF BoardIInv
<1> QED
  BY <1>1, BoardInductive, PTL

----------------------------------------------------------------------------
(* What a request stores is what the requests before it left.              *)

\* Every card is on a tab of its own or names none.
Sent(d) == d.cards \subseteq d.tabs \cup {NoTab}

Same(d, e) == [d EXCEPT !.archived = FALSE] = [e EXCEPT !.archived = FALSE]

Readers == {"enable", "disable", "embed", "copy"}

\* What p has read is what is stored, while nobody stored the dashboard since.
ReadTrue(p) ==
  fresh[p] # {} /\ req[p].kind \in Readers =>
    /\ pc[p] \in {"cards", "loaded", "update", "store"} => mem[p].tabs = PU!Board(p).tabs
    /\ pc[p] \in {"loaded", "update", "store"} => mem[p].cards = PU!Board(p).cards

LinkTrue(p) ==
  /\ fresh[p] # {} /\ req[p].kind \in {"edit", "embed"} /\ pc[p] \in {"tabs", "cards", "loaded", "update", "store"}
       => mem[p].uuid = PU!Board(p).uuid
  /\ fresh[p] # {} /\ req[p].kind = "enable" /\ pc[p] \in {"tabs", "cards", "loaded", "update", "store"}
       => mem[p].uuid = PU!Board(p).uuid \/ (PU!Board(p).uuid = {} /\ pc[p] \in {"update", "store"})
  /\ req[p].kind = "disable" /\ pc[p] = "store" => mem[p].uuid = {}

\* What p has stored is the dashboard until somebody else stores it, and p
\* holds the snapshot of it.
Recording(p) ==
  pc[p] = "revision" =>
    PU!Id(p) \in DOMAIN boards /\ (PU!Id(p) \notin raced => Same(mem[p], boards[PU!Id(p)]))

BoardKnown(p) ==
  /\ req[p].kind \in {"create", "visit", "archive", "restore", "settings"} => pc[p] \notin {"update", "store"}
  /\ IF req[p].kind = "visit" THEN pc[p] # "revision" ELSE pc[p] \notin {"granted", "denied"}
  /\ req[p].kind = "edit" /\ pc[p] \in {"update", "store"} => Sent(mem[p])
  /\ req[p].kind \in {"create", "edit"} => req[p].cards \subseteq req[p].tabs \cup {NoTab}
  /\ ReadTrue(p) /\ LinkTrue(p) /\ Recording(p)

BoardAsked ==
  /\ DOMAIN word = DOMAIN boards /\ DOMAIN fresh = Procs
  /\ PU!BoardAsAskedOrOverlap
  /\ \A p \in Procs : BoardKnown(p)

LEMMA NormalizedFiled ==
  ASSUME NEW d, BoardColumns(d), Sent(d)
  PROVE  PU!Normalized(d).cards \subseteq PU!Normalized(d).tabs
<1> DEFINE tabs == IF d.tabs = {} THEN {CHOOSE t \in Tabs : TRUE} ELSE d.tabs
<1>1. /\ PU!Normalized(d).tabs = tabs
      /\ PU!Normalized(d).cards = (d.cards \ {NoTab}) \cup (IF NoTab \in d.cards THEN {CHOOSE t \in tabs : TRUE} ELSE {})
  BY DEF PU!Normalized, BoardColumns
<1>2. (CHOOSE t \in tabs : TRUE) \in tabs
  OBVIOUS
<1>3. d.cards \ {NoTab} \subseteq tabs
  BY DEF Sent
<1> QED
  BY <1>1, <1>2, <1>3

\* A step that stores nothing and records nothing disturbs only its own process.
LEMMA QuietAsked ==
  ASSUME BoardIInv, BoardAsked, NEW p \in Procs, UNCHANGED <<boards, revisions, raced, word>>,
         pc[p] # "revision", DOMAIN fresh' = Procs,
         \A q \in Procs \ {p} : req'[q] = req[q] /\ pc'[q] = pc[q] /\ mem'[q] = mem[q] /\ fresh'[q] = fresh[q],
         BoardKnown(p)'
  PROVE  BoardAsked'
<1>1. \A q \in Procs \ {p} : BoardKnown(q)'
  BY DEF BoardAsked, BoardKnown, ReadTrue, LinkTrue, Recording, PU!Id, PU!Board
<1>2. PU!RevisionTellsOrOverlap'
  BY DEF BoardAsked, PU!BoardAsAskedOrOverlap, PU!RevisionTellsOrOverlap, PU!Id
<1>3. PU!LinkAsAskedOrOverlap' /\ PU!CardsOnTabsOrOverlap'
  BY DEF BoardAsked, PU!BoardAsAskedOrOverlap, PU!LinkAsAskedOrOverlap, PU!CardsOnTabsOrOverlap
<1> QED
  BY <1>1, <1>2, <1>3 DEF BoardAsked, PU!BoardAsAskedOrOverlap

\* Storing a dashboard whose cards are on its tabs and whose link is the last
\* word, if nothing overlapped.
LEMMA StoreAsked ==
  ASSUME BoardIInv, BoardAsked, NEW p \in Procs, NEW b, NEW d, NEW left, NEW overlapped \in BOOLEAN,
         BoardColumns(d), PU!Store(p, b, d, left, overlapped), req[p].kind # "visit", pc[p] # "revision",
         req[p].kind \in {"create", "edit"} => req[p].cards \subseteq req[p].tabs \cup {NoTab},
         b \in raced \/ overlapped \/ (Sent(d) /\ d.uuid = left)
  PROVE  BoardAsked'
<1> DEFINE late == \E q \in Procs \ {p} : req[q].kind # "visit" /\ PU!Id(q) = b /\ pc[q] = "revision"
           n == PU!Normalized(d)
<1>1. /\ DOMAIN boards' = DOMAIN boards \cup {b}
      /\ \A x \in DOMAIN boards \ {b} : boards'[x] = boards[x]
      /\ boards'[b] = IF b \in DOMAIN boards THEN [n EXCEPT !.archived = boards[b].archived] ELSE n
  BY DEF PU!Store
<1>2. raced' = raced \cup (IF overlapped \/ late THEN {b} ELSE {})
  BY DEF PU!Store
<1>3. /\ DOMAIN word' = DOMAIN boards' /\ word'[b] = left
      /\ \A x \in DOMAIN boards \ {b} : word'[x] = word[x]
  BY <1>1 DEF PU!Store
<1>4. /\ DOMAIN fresh' = Procs
      /\ \A q \in Procs : fresh'[q] = IF PU!Id(q) = b THEN {} ELSE fresh[q]
  BY DEF PU!Store
<1>5. /\ mem'[p] = n /\ pc'[p] = "revision" /\ req'[p].board = b /\ req'[p].kind = req[p].kind
      /\ req[p].kind \in {"create", "edit"} => req'[p].cards \subseteq req'[p].tabs \cup {NoTab}
      /\ \A q \in Procs \ {p} : mem'[q] = mem[q] /\ pc'[q] = pc[q] /\ req'[q] = req[q]
  BY DEF PU!Store, PU!Snapshot, PU!Goto, BoardIInv, BoardShape
<1>6. BoardColumns(n) /\ n.uuid = d.uuid
  BY NormalizedKeeps
<1>7. b \notin raced' => n.cards \subseteq n.tabs /\ n.uuid = left
  BY <1>2, <1>6, NormalizedFiled
<1>8. \A a : LET m == [n EXCEPT !.archived = a] IN m.uuid = n.uuid /\ m.cards = n.cards /\ m.tabs = n.tabs
  BY <1>6 DEF BoardColumns
<1>9. \A a : Same(n, [n EXCEPT !.archived = a])
  BY <1>6 DEF BoardColumns, Same
<1>10. PU!LinkAsAskedOrOverlap'
  <2>1. ASSUME NEW x \in DOMAIN boards', x # b PROVE boards'[x].uuid = word'[x] \/ x \in raced'
    BY <1>1, <1>2, <1>3, <2>1 DEF BoardAsked, PU!BoardAsAskedOrOverlap, PU!LinkAsAskedOrOverlap
  <2>2. boards'[b].uuid = word'[b] \/ b \in raced'
    BY <1>1, <1>3, <1>7, <1>8
  <2> QED
    BY <2>1, <2>2 DEF PU!LinkAsAskedOrOverlap
<1>11. PU!CardsOnTabsOrOverlap'
  <2>1. ASSUME NEW x \in DOMAIN boards', x # b PROVE boards'[x].cards \subseteq boards'[x].tabs \/ x \in raced'
    BY <1>1, <1>2, <2>1 DEF BoardAsked, PU!BoardAsAskedOrOverlap, PU!CardsOnTabsOrOverlap
  <2>2. boards'[b].cards \subseteq boards'[b].tabs \/ b \in raced'
    BY <1>1, <1>7, <1>8
  <2> QED
    BY <2>1, <2>2 DEF PU!CardsOnTabsOrOverlap
<1>12. PU!RevisionTellsOrOverlap'
  <2>1. revisions' = revisions
    BY DEF PU!Store
  <2>2. ASSUME NEW x \in DOMAIN boards', x # b
        PROVE  \/ x \in raced' \/ \E q \in Procs : pc'[q] = "revision" /\ PU!Id(q)' = x
               \/ [revisions'[x] EXCEPT !.archived = FALSE] = [boards'[x] EXCEPT !.archived = FALSE]
    <3>1. x \in DOMAIN boards /\ boards'[x] = boards[x]
      BY <1>1, <2>2
    <3> QED
      BY <1>2, <1>5, <2>1, <3>1 DEF BoardAsked, PU!BoardAsAskedOrOverlap, PU!RevisionTellsOrOverlap, PU!Id
  <2>3. PU!Id(p)' = b
    BY <1>5 DEF PU!Id
  <2> QED
    BY <1>5, <2>2, <2>3 DEF PU!RevisionTellsOrOverlap
<1>13. BoardKnown(p)'
  <2>1. Recording(p)'
    BY <1>1, <1>5, <1>9 DEF Recording, PU!Id, Same
  <2> QED
    BY <1>5, <2>1 DEF BoardKnown, ReadTrue, LinkTrue
<1>14. ASSUME NEW q \in Procs \ {p} PROVE BoardKnown(q)'
  <2>1. BoardKnown(q)
    BY DEF BoardAsked
  <2>2. CASE PU!Id(q) = b
    <3>1. fresh'[q] = {}
      BY <1>4, <2>2
    <3>2. pc[q] = "revision" => b \in raced'
      BY <1>2, <2>1, <2>2 DEF BoardKnown
    <3> QED
      BY <1>1, <1>5, <2>1, <2>2, <3>1, <3>2 DEF BoardKnown, ReadTrue, LinkTrue, Recording, PU!Id
  <2>3. CASE PU!Id(q) # b
    <3>1. fresh'[q] = fresh[q]
      BY <1>4, <2>3
    <3>2. req[q].kind \in PU!Found \/ pc[q] = "revision" => PU!Id(q) \in DOMAIN boards /\ boards'[PU!Id(q)] = boards[PU!Id(q)]
      BY <1>1, <2>1, <2>3 DEF BoardKnown, Recording, BoardIInv, BoardShape, PU!Id
    <3>3. PU!Id(q) \in raced' => PU!Id(q) \in raced
      BY <1>2, <2>3
    <3>4. raced \subseteq raced'
      BY <1>2
    <3>5. ReadTrue(q)' /\ LinkTrue(q)'
      BY <1>5, <2>1, <3>1, <3>2 DEF BoardKnown, ReadTrue, LinkTrue, PU!Id, PU!Board, PU!Found, Readers
    <3>6. Recording(q)'
      BY <1>5, <2>1, <3>2, <3>4, <1>1 DEF BoardKnown, Recording, PU!Id
    <3> QED
      BY <1>5, <2>1, <3>5, <3>6 DEF BoardKnown
  <2> QED
    BY <2>2, <2>3
<1> QED
  BY <1>3, <1>4, <1>10, <1>11, <1>12, <1>13, <1>14 DEF BoardAsked, PU!BoardAsAskedOrOverlap

LEMMA AnswerAsked ==
  ASSUME BoardIInv, BoardAsked, NEW p \in Procs, NEW label, PU!Answer(p, label), pc[p] # "revision",
         label \in {"row", "refused"}
  PROVE  BoardAsked'
<1>1. pc'[p] = label /\ \A q \in Procs \ {p} : pc'[q] = pc[q]
  BY DEF PU!Answer, PU!Goto, BoardIInv, BoardShape
<1>2. BoardKnown(p)'
  BY <1>1 DEF PU!Answer, BoardAsked, BoardKnown, ReadTrue, LinkTrue, Recording
<1> QED
  BY <1>1, <1>2, QuietAsked DEF PU!Answer, PU!rows, BoardAsked

LEMMA DocumentsAsked ==
  ASSUME BoardIInv, BoardAsked, NEW p \in Procs,
         PU!CreateDashboard(p) \/ PU!EditDashboard(p) \/ PU!DuplicateDashboard(p)
  PROVE  BoardAsked'
<1>1. ASSUME NEW text, NEW tabs, NEW cards
      PROVE  LET d == PU!Private(text, tabs, cards) IN
             BoardColumns(d) /\ d.uuid = {} /\ (cards \subseteq tabs \cup {NoTab} => Sent(d))
  BY DEF PU!Private, BoardColumns, Sent
<1>2. BoardKnown(p)
  BY DEF BoardAsked
<1>3. CASE PU!CreateDashboard(p)
  <2>1. req[p].kind = "create" /\ pc[p] = "begin"
    BY <1>3 DEF PU!CreateDashboard, PU!At
  <2>2. PICK b \in PU!Unused : PU!Store(p, b, PU!Private(req[p].text, req[p].tabs, req[p].cards), {}, FALSE)
    BY <1>3 DEF PU!CreateDashboard
  <2>3. req[p].cards \subseteq req[p].tabs \cup {NoTab}
    BY <1>2, <2>1 DEF BoardKnown
  <2> QED
    BY <1>1, <2>1, <2>2, <2>3, StoreAsked
<1>4. CASE PU!EditDashboard(p)
  <2> DEFINE m == [PU!Board(p) EXCEPT !.text = req[p].text, !.tabs = req[p].tabs, !.cards = req[p].cards]
  <2>1. req[p].kind = "edit" /\ pc[p] = "begin"
    BY <1>4 DEF PU!EditDashboard, PU!At
  <2>2. BoardColumns(PU!Board(p))
    BY <2>1 DEF BoardIInv, BoardShape, PU!Board, PU!Found
  <2>3. m.uuid = PU!Board(p).uuid /\ m.tabs = req[p].tabs /\ m.cards = req[p].cards
    BY <2>2 DEF BoardColumns
  <2>4. /\ mem'[p] = m /\ pc'[p] = "update" /\ DOMAIN fresh' = Procs
        /\ \A q \in Procs \ {p} : req'[q] = req[q] /\ pc'[q] = pc[q] /\ mem'[q] = mem[q] /\ fresh'[q] = fresh[q]
        /\ UNCHANGED <<PU!rows, req, raced, word>>
    BY <1>4 DEF PU!EditDashboard, PU!Goto, BoardIInv, BoardShape, BoardAsked
  <2>5. BoardKnown(p)'
    BY <1>2, <2>1, <2>3, <2>4 DEF BoardKnown, ReadTrue, LinkTrue, Recording, Sent, PU!rows, PU!Board, Readers
  <2>6. UNCHANGED <<boards, revisions, raced, word>> /\ PU!Goto(p, "update") /\ pc[p] # "revision"
    BY <2>1, <2>4, <1>4 DEF PU!rows, PU!EditDashboard
  <2> QED
    BY <2>4, <2>5, <2>6, QuietAsked
<1>5. CASE PU!DuplicateDashboard(p)
  <2>1. CASE PU!At(p, {"copy"}, "begin") /\ PU!Answer(p, "row")
    BY <2>1, AnswerAsked DEF PU!At
  <2>2. CASE /\ PU!At(p, {"copy"}, "loaded")
             /\ \E b \in PU!Unused : PU!Store(p, b, PU!Private(mem[p].text, mem[p].tabs, mem[p].cards), {},
                                        fresh[p] = {} \/ PU!Id(p) \in raced)
    <3>1. PICK b \in PU!Unused : PU!Store(p, b, PU!Private(mem[p].text, mem[p].tabs, mem[p].cards), {},
                                    fresh[p] = {} \/ PU!Id(p) \in raced)
      BY <2>2
    <3>2. req[p].kind = "copy" /\ pc[p] = "loaded" /\ PU!Id(p) \in DOMAIN boards
      BY <2>2 DEF PU!At, BoardIInv, BoardShape, PU!Found, PU!Id
    <3>3. fresh[p] # {} => mem[p].tabs = PU!Board(p).tabs /\ mem[p].cards = PU!Board(p).cards
      BY <1>2, <3>2 DEF BoardKnown, ReadTrue, Readers
    <3>4. PU!Id(p) \notin raced => PU!Board(p).cards \subseteq PU!Board(p).tabs
      BY <3>2 DEF BoardAsked, PU!BoardAsAskedOrOverlap, PU!CardsOnTabsOrOverlap, PU!Board, PU!Id
    <3>5. fresh[p] = {} \/ PU!Id(p) \in raced \/ mem[p].cards \subseteq mem[p].tabs \cup {NoTab}
      BY <3>3, <3>4
    <3> QED
      BY <1>1, <3>1, <3>2, <3>5, StoreAsked
  <2> QED
    BY <1>5, <2>1, <2>2 DEF PU!DuplicateDashboard
<1> QED
  BY <1>3, <1>4, <1>5

LEMMA ArchiveAsked ==
  ASSUME BoardIInv, BoardAsked, NEW p \in Procs, PU!SetArchived(p)
  PROVE  BoardAsked'
<1>1. /\ DOMAIN boards' = DOMAIN boards /\ PU!Goto(p, "done") /\ pc[p] = "begin"
      /\ UNCHANGED <<revisions, req, mem, fresh, raced, word>>
      /\ \A b \in DOMAIN boards : boards'[b] = boards[b] \/ \E a : boards'[b] = [boards[b] EXCEPT !.archived = a]
  BY DEF PU!SetArchived, PU!Id, PU!At
<1>2. ASSUME NEW b \in DOMAIN boards
      PROVE  /\ boards'[b].uuid = boards[b].uuid /\ boards'[b].tabs = boards[b].tabs
             /\ boards'[b].cards = boards[b].cards
             /\ [boards'[b] EXCEPT !.archived = FALSE] = [boards[b] EXCEPT !.archived = FALSE]
  BY <1>1 DEF BoardIInv, BoardShape, BoardColumns
<1>3. DOMAIN pc' = Procs /\ pc'[p] = "done" /\ \A q \in Procs \ {p} : pc'[q] = pc[q]
  BY <1>1 DEF PU!Goto, BoardIInv, BoardShape
<1>4. PU!LinkAsAskedOrOverlap' /\ PU!CardsOnTabsOrOverlap'
  BY <1>1, <1>2 DEF BoardAsked, PU!BoardAsAskedOrOverlap, PU!LinkAsAskedOrOverlap, PU!CardsOnTabsOrOverlap
<1>5. PU!RevisionTellsOrOverlap'
  <2>1. ASSUME NEW b \in DOMAIN boards
        PROVE  \/ b \in raced' \/ \E q \in Procs : pc'[q] = "revision" /\ PU!Id(q)' = b
               \/ [revisions'[b] EXCEPT !.archived = FALSE] = [boards'[b] EXCEPT !.archived = FALSE]
    <3>1. ASSUME NEW q \in Procs, pc[q] = "revision", PU!Id(q) = b
          PROVE  pc'[q] = "revision" /\ PU!Id(q)' = b
      BY <1>1, <1>3, <3>1 DEF PU!Id
    <3>2. \/ b \in raced \/ \E q \in Procs : pc[q] = "revision" /\ PU!Id(q) = b
          \/ [revisions[b] EXCEPT !.archived = FALSE] = [boards[b] EXCEPT !.archived = FALSE]
      BY DEF BoardAsked, PU!BoardAsAskedOrOverlap, PU!RevisionTellsOrOverlap
    <3> QED
      BY <1>1, <1>2, <3>1, <3>2
  <2> QED
    BY <1>1, <2>1 DEF PU!RevisionTellsOrOverlap
<1>6. ASSUME NEW q \in Procs PROVE BoardKnown(q)'
  <2>1. BoardKnown(q) /\ (req[q].kind \in PU!Found \/ pc[q] = "revision" => PU!Id(q) \in DOMAIN boards)
    BY DEF BoardAsked, BoardKnown, Recording, BoardIInv, BoardShape, PU!Id
  <2>2. CASE q = p
    BY <1>1, <1>3, <2>1, <2>2 DEF BoardKnown, ReadTrue, LinkTrue, Recording
  <2>3. CASE q # p
    <3>1. ReadTrue(q)' /\ LinkTrue(q)'
      BY <1>1, <1>2, <1>3, <2>1, <2>3 DEF BoardKnown, ReadTrue, LinkTrue, PU!Board, PU!Id, PU!Found, Readers
    <3>2. Recording(q)'
      BY <1>1, <1>2, <1>3, <2>1, <2>3 DEF BoardKnown, Recording, Same, PU!Id
    <3> QED
      BY <1>1, <1>3, <2>1, <2>3, <3>1, <3>2 DEF BoardKnown
  <2> QED
    BY <2>2, <2>3
<1> QED
  BY <1>1, <1>4, <1>5, <1>6 DEF BoardAsked, PU!BoardAsAskedOrOverlap

LEMMA UpdateAsked ==
  ASSUME BoardIInv, BoardAsked, NEW p \in Procs, PU!UpdateDashboard(p)
  PROVE  BoardAsked'
<1> DEFINE link == PU!LinkLeft(mem[p].uuid, req[p].kind = "disable", PU!Board(p).uuid)
           left == CASE req[p].kind = "enable" -> mem[p].uuid
                     [] req[p].kind = "disable" -> {}
                     [] OTHER -> word[PU!Id(p)]
<1>1. req[p].kind \in {"edit", "enable", "disable", "embed"} /\ pc[p] \in {"update", "store"}
  BY DEF PU!UpdateDashboard, PU!At
<1>2. BoardKnown(p) /\ BoardColumns(mem[p]) /\ PU!Id(p) \in DOMAIN boards
  BY <1>1 DEF BoardAsked, BoardIInv, BoardShape, PU!Found, PU!Id
<1>3. CASE PU!Answer(p, "refused")
  BY <1>1, <1>3, AnswerAsked
<1>4. CASE pc[p] = "update" /\ PU!Goto(p, "store") /\ mem' = [mem EXCEPT ![p].uuid = link]
           /\ UNCHANGED <<PU!rows, req, fresh, raced, word>>
  <2>1. /\ mem'[p] = [mem[p] EXCEPT !.uuid = link] /\ pc'[p] = "store"
        /\ \A q \in Procs \ {p} : mem'[q] = mem[q] /\ pc'[q] = pc[q]
    BY <1>4 DEF PU!Goto, BoardIInv, BoardShape
  <2>2. mem'[p].uuid = link /\ mem'[p].tabs = mem[p].tabs /\ mem'[p].cards = mem[p].cards
    BY <1>2, <2>1 DEF BoardColumns
  <2>3. /\ req[p].kind = "disable" => link = {}
        /\ req[p].kind # "disable" /\ mem[p].uuid = PU!Board(p).uuid => link = PU!Board(p).uuid
    BY DEF PU!LinkLeft
  <2>4. BoardKnown(p)'
    BY <1>1, <1>2, <1>4, <2>1, <2>2, <2>3 DEF BoardKnown, ReadTrue, LinkTrue, Recording, Sent, PU!rows, PU!Board
  <2> QED
    BY <1>4, <2>1, <2>4, QuietAsked DEF PU!rows, BoardAsked
<1>5. CASE pc[p] = "store" /\ PU!Store(p, PU!Id(p), mem[p], left, fresh[p] = {})
  <2>1. ASSUME fresh[p] # {}, PU!Id(p) \notin raced
        PROVE  Sent(mem[p]) /\ mem[p].uuid = left
    <3>1. PU!Board(p).cards \subseteq PU!Board(p).tabs /\ PU!Board(p).uuid = word[PU!Id(p)]
      BY <1>2, <2>1 DEF BoardAsked, PU!BoardAsAskedOrOverlap, PU!CardsOnTabsOrOverlap, PU!LinkAsAskedOrOverlap, PU!Board, PU!Id
    <3>2. Sent(mem[p])
      BY <1>1, <1>2, <1>5, <2>1, <3>1 DEF BoardKnown, ReadTrue, Readers, Sent
    <3>3. mem[p].uuid = left
      BY <1>1, <1>2, <1>5, <2>1, <3>1 DEF BoardKnown, LinkTrue
    <3> QED
      BY <3>2, <3>3
  <2>2. PU!Id(p) \in raced \/ fresh[p] = {} \/ (Sent(mem[p]) /\ mem[p].uuid = left)
    BY <2>1
  <2>3. /\ req[p].kind # "visit" /\ pc[p] # "revision"
        /\ req[p].kind \in {"create", "edit"} => req[p].cards \subseteq req[p].tabs \cup {NoTab}
    BY <1>1, <1>2 DEF BoardKnown
  <2> HIDE DEF left
  <2> QED
    BY <1>2, <1>5, <2>2, <2>3, StoreAsked
<1>6. \/ PU!Answer(p, "refused")
      \/ pc[p] = "update" /\ PU!Goto(p, "store") /\ mem' = [mem EXCEPT ![p].uuid = link]
         /\ UNCHANGED <<PU!rows, req, fresh, raced, word>>
      \/ pc[p] = "store" /\ PU!Store(p, PU!Id(p), mem[p], left, fresh[p] = {})
  BY DEF PU!UpdateDashboard, PU!At
<1> QED
  BY <1>3, <1>4, <1>5, <1>6

LEMMA ReadAsked ==
  ASSUME BoardIInv, BoardAsked, NEW p \in Procs, PU!ByID(p)
  PROVE  BoardAsked'
<1>1. req[p].kind \in Readers /\ pc[p] \in {"row", "tabs", "cards"}
  BY DEF PU!ByID, PU!At, Readers
<1>2. BoardKnown(p) /\ BoardColumns(mem[p]) /\ BoardColumns(PU!Board(p))
  BY <1>1 DEF BoardAsked, BoardIInv, BoardShape, Readers, PU!Found, PU!Board
<1>3. ASSUME NEW fields, NEW label, PU!Load(p, fields, label), DOMAIN fresh' = Procs,
             \A q \in Procs \ {p} : fresh'[q] = fresh[q]
      PROVE  /\ UNCHANGED <<boards, revisions, req, raced, word>> /\ pc'[p] = label
             /\ \A q \in Procs \ {p} : mem'[q] = mem[q] /\ pc'[q] = pc[q]
             /\ \A f \in {"uuid", "tabs", "cards"} : mem'[p][f] = IF f \in fields THEN PU!Board(p)[f] ELSE mem[p][f]
             /\ BoardKnown(p)' => BoardAsked'
  <2>1. /\ UNCHANGED <<boards, revisions, req, raced, word>> /\ pc'[p] = label
        /\ \A q \in Procs \ {p} : mem'[q] = mem[q] /\ pc'[q] = pc[q]
    BY <1>3 DEF PU!Load, PU!Goto, PU!rows, BoardIInv, BoardShape
  <2>2. mem'[p] = [f \in DOMAIN mem[p] |-> IF f \in fields THEN PU!Board(p)[f] ELSE mem[p][f]]
    BY <1>3 DEF PU!Load, BoardIInv, BoardShape
  <2>3. \A f \in {"uuid", "tabs", "cards"} : mem'[p][f] = IF f \in fields THEN PU!Board(p)[f] ELSE mem[p][f]
    BY <1>2, <2>2 DEF BoardColumns
  <2>4. BoardKnown(p)' => BoardAsked'
    BY <1>1, <1>3, <2>1, QuietAsked DEF PU!Load
  <2> QED
    BY <2>1, <2>3, <2>4
<1>4. CASE pc[p] = "row" /\ PU!Load(p, {"uuid", "embed", "archived", "text"}, "tabs")
           /\ fresh' = [fresh EXCEPT ![p] = {"board"}]
  <2>1. DOMAIN fresh' = Procs /\ \A q \in Procs \ {p} : fresh'[q] = fresh[q]
    BY <1>4 DEF BoardAsked
  <2>2. mem'[p].uuid = PU!Board(p).uuid /\ pc'[p] = "tabs" /\ UNCHANGED <<boards, req>>
    BY <1>3, <1>4, <2>1
  <2>3. BoardKnown(p)'
    BY <1>1, <1>2, <2>2 DEF BoardKnown, ReadTrue, LinkTrue, Recording, Readers, PU!Board
  <2> QED
    BY <1>3, <1>4, <2>1, <2>3
<1>5. CASE pc[p] = "tabs" /\ PU!Load(p, {"tabs"}, "cards") /\ UNCHANGED fresh
  <2>1. DOMAIN fresh' = Procs /\ \A q \in Procs \ {p} : fresh'[q] = fresh[q]
    BY <1>5 DEF BoardAsked
  <2>2. /\ mem'[p].uuid = mem[p].uuid /\ mem'[p].tabs = PU!Board(p).tabs
        /\ pc'[p] = "cards" /\ UNCHANGED <<boards, req, fresh>>
    BY <1>3, <1>5, <2>1
  <2>3. BoardKnown(p)'
    BY <1>1, <1>2, <1>5, <2>2 DEF BoardKnown, ReadTrue, LinkTrue, Recording, Readers, PU!Board
  <2> QED
    BY <1>3, <1>5, <2>1, <2>3
<1>6. CASE pc[p] = "cards" /\ PU!Load(p, {"cards"}, "loaded") /\ UNCHANGED fresh
  <2>1. DOMAIN fresh' = Procs /\ \A q \in Procs \ {p} : fresh'[q] = fresh[q]
    BY <1>6 DEF BoardAsked
  <2>2. /\ mem'[p].uuid = mem[p].uuid /\ mem'[p].tabs = mem[p].tabs /\ mem'[p].cards = PU!Board(p).cards
        /\ pc'[p] = "loaded" /\ UNCHANGED <<boards, req, fresh>>
    BY <1>3, <1>6, <2>1
  <2>3. BoardKnown(p)'
    BY <1>1, <1>2, <1>6, <2>2 DEF BoardKnown, ReadTrue, LinkTrue, Recording, Readers, PU!Board
  <2> QED
    BY <1>3, <1>6, <2>1, <2>3
<1> QED
  BY <1>4, <1>5, <1>6 DEF PU!ByID, PU!At

LEMMA SwitchesAsked ==
  ASSUME BoardIInv, BoardAsked, NEW p \in Procs,
         PU!EnablePublicLink(p) \/ PU!DisablePublicLink(p) \/ PU!SetEmbedding(p) \/ PU!SaveAdminSettings(p)
  PROVE  BoardAsked'
<1>1. BoardKnown(p) /\ BoardColumns(mem[p])
  BY DEF BoardAsked, BoardIInv, BoardShape
<1>2. ASSUME NEW label, label \in {"row", "refused"}, PU!Answer(p, label), pc[p] = "begin" \/ pc[p] = "loaded"
      PROVE  BoardAsked'
  BY <1>2, AnswerAsked
<1>3. ASSUME NEW m, mem' = [mem EXCEPT ![p] = m], req[p].kind \in {"enable", "disable", "embed"}, pc[p] = "loaded",
             m.tabs = mem[p].tabs, m.cards = mem[p].cards, req[p].kind = "embed" => m.uuid = mem[p].uuid,
             req[p].kind = "enable" /\ mem[p].uuid # {} => m.uuid = mem[p].uuid,
             PU!Goto(p, "update"), UNCHANGED <<PU!rows, req, fresh, raced, word>>
      PROVE  BoardAsked'
  <2>1. /\ mem'[p] = m /\ pc'[p] = "update"
        /\ \A q \in Procs \ {p} : mem'[q] = mem[q] /\ pc'[q] = pc[q]
    BY <1>3 DEF PU!Goto, BoardIInv, BoardShape
  <2>2. BoardKnown(p)'
    BY <1>1, <1>3, <2>1 DEF BoardKnown, ReadTrue, LinkTrue, Recording, Readers, PU!rows, PU!Board
  <2> QED
    BY <1>3, <2>1, <2>2, QuietAsked DEF PU!rows, BoardAsked
<1>4. CASE PU!EnablePublicLink(p)
  <2> DEFINE m == [mem[p] EXCEPT !.uuid = IF @ = {} THEN {p} ELSE @]
  <2>1. ASSUME PU!At(p, {"enable"}, "loaded"), mem' = [mem EXCEPT ![p].uuid = IF @ = {} THEN {p} ELSE @],
               PU!Goto(p, "update"), UNCHANGED <<PU!rows, req, fresh, raced, word>>
        PROVE  BoardAsked'
    <3>1. /\ mem' = [mem EXCEPT ![p] = m] /\ m.tabs = mem[p].tabs /\ m.cards = mem[p].cards
          /\ mem[p].uuid # {} => m.uuid = mem[p].uuid
      BY <1>1, <2>1 DEF BoardColumns
    <3> QED
      BY <1>3, <2>1, <3>1 DEF PU!At
  <2> QED
    BY <1>2, <1>4, <2>1 DEF PU!EnablePublicLink, PU!At
<1>5. CASE PU!DisablePublicLink(p)
  <2>1. ASSUME PU!At(p, {"disable"}, "loaded"), mem' = [mem EXCEPT ![p] = PU!Revoked(@)],
               PU!Goto(p, "update"), UNCHANGED <<PU!rows, req, fresh, raced, word>>
        PROVE  BoardAsked'
    <3>1. mem' = [mem EXCEPT ![p] = PU!Revoked(mem[p])]
      BY <2>1
    <3>2. PU!Revoked(mem[p]).tabs = mem[p].tabs /\ PU!Revoked(mem[p]).cards = mem[p].cards
      BY <1>1 DEF BoardColumns, PU!Revoked
    <3> QED
      BY <1>3, <2>1, <3>1, <3>2 DEF PU!At
  <2> QED
    BY <1>2, <1>5, <2>1 DEF PU!DisablePublicLink, PU!At
<1>6. CASE PU!SetEmbedding(p)
  <2> DEFINE m == [mem[p] EXCEPT !.embed = req[p].on]
  <2>1. ASSUME PU!At(p, {"embed"}, "loaded"), mem' = [mem EXCEPT ![p].embed = req[p].on],
               PU!Goto(p, "update"), UNCHANGED <<PU!rows, req, fresh, raced, word>>
        PROVE  BoardAsked'
    <3>1. /\ mem' = [mem EXCEPT ![p] = m]
          /\ m.tabs = mem[p].tabs /\ m.cards = mem[p].cards /\ m.uuid = mem[p].uuid
      BY <1>1, <2>1 DEF BoardColumns
    <3> QED
      BY <1>3, <2>1, <3>1 DEF PU!At
  <2> QED
    BY <1>2, <1>6, <2>1 DEF PU!SetEmbedding, PU!At
<1>7. CASE PU!SaveAdminSettings(p)
  <2>1. /\ UNCHANGED <<boards, revisions, req, mem, fresh, raced, word>> /\ PU!Goto(p, "done") /\ pc[p] = "begin"
    BY <1>7 DEF PU!SaveAdminSettings, PU!At
  <2>2. pc'[p] = "done" /\ \A q \in Procs \ {p} : pc'[q] = pc[q]
    BY <2>1 DEF PU!Goto, BoardIInv, BoardShape
  <2>3. BoardKnown(p)'
    BY <1>1, <2>1, <2>2 DEF BoardKnown, ReadTrue, LinkTrue, Recording
  <2> QED
    BY <2>1, <2>2, <2>3, QuietAsked DEF BoardAsked
<1> QED
  BY <1>4, <1>5, <1>6, <1>7

\* The snapshot recorded is the dashboard, for it is what was stored last.
LEMMA RecordAsked ==
  ASSUME BoardIInv, BoardAsked, NEW p \in Procs, PU!RecordRevision(p)
  PROVE  BoardAsked'
<1>1. /\ pc[p] = "revision" /\ PU!Goto(p, "done") /\ UNCHANGED <<boards, switches, req, mem, fresh, word>>
      /\ \/ revisions' = [b \in DOMAIN boards |-> IF b = PU!Id(p) THEN mem[p] ELSE
                            IF b \in DOMAIN revisions THEN revisions[b] ELSE boards[b]] /\ raced' = raced
         \/ revisions' = revisions /\ raced' = raced \cup {PU!Id(p)}
  BY DEF PU!RecordRevision
<1>2. pc'[p] = "done" /\ \A q \in Procs \ {p} : pc'[q] = pc[q]
  BY <1>1 DEF PU!Goto, BoardIInv, BoardShape
<1>3. raced \subseteq raced'
  BY <1>1
<1>4. PU!LinkAsAskedOrOverlap' /\ PU!CardsOnTabsOrOverlap'
  BY <1>1, <1>3 DEF BoardAsked, PU!BoardAsAskedOrOverlap, PU!LinkAsAskedOrOverlap, PU!CardsOnTabsOrOverlap
<1>5. PU!RevisionTellsOrOverlap'
  <2>1. ASSUME NEW b \in DOMAIN boards, b \notin raced', \A q \in Procs : ~(pc'[q] = "revision" /\ PU!Id(q)' = b)
        PROVE  Same(revisions'[b], boards[b])
    <3>1. CASE b = PU!Id(p)
      <4>1. revisions'[b] = mem[p]
        BY <1>1, <2>1, <3>1
      <4> QED
        BY <1>1, <1>3, <2>1, <3>1, <4>1 DEF BoardAsked, BoardKnown, Recording
    <3>2. CASE b # PU!Id(p)
      <4>1. Same(revisions[b], boards[b])
        BY <1>1, <1>2, <1>3, <2>1, <3>2 DEF BoardAsked, PU!BoardAsAskedOrOverlap, PU!RevisionTellsOrOverlap, PU!Id, Same
      <4>2. revisions'[b] = revisions[b] \/ revisions'[b] = boards[b]
        BY <1>1, <3>2
      <4> QED
        BY <4>1, <4>2 DEF Same
    <3> QED
      BY <3>1, <3>2
  <2> QED
    BY <1>1, <2>1 DEF PU!RevisionTellsOrOverlap, Same
<1>6. ASSUME NEW q \in Procs PROVE BoardKnown(q)'
  <2>1. BoardKnown(q)
    BY DEF BoardAsked
  <2> QED
    BY <1>1, <1>2, <1>3, <2>1 DEF BoardKnown, ReadTrue, LinkTrue, Recording, PU!Board, PU!Id
<1> QED
  BY <1>1, <1>4, <1>5, <1>6 DEF BoardAsked, PU!BoardAsAskedOrOverlap

LEMMA VisitAsked ==
  ASSUME BoardIInv, BoardAsked, NEW p \in Procs, PU!Visit(p)
  PROVE  BoardAsked'
<1>1. req[p].kind = "visit" /\ pc[p] # "revision" /\ BoardKnown(p)
  BY DEF PU!Visit, PU!At, BoardAsked
<1>2. UNCHANGED <<boards, revisions, fresh, raced, word>>
  BY DEF PU!Visit, PU!Answer, PU!Load, PU!rows
<1>3. /\ req'[p].kind = "visit"
      /\ \A q \in Procs \ {p} : req'[q] = req[q]
  BY <1>1 DEF PU!Visit, PU!Answer, PU!Load, BoardIInv, BoardShape
<1>4. \A q \in Procs \ {p} : mem'[q] = mem[q]
  BY DEF PU!Visit, PU!Answer, PU!Load, BoardIInv, BoardShape
<1>5. /\ pc'[p] \in {"find", "load", "show", "granted", "denied"}
      /\ \A q \in Procs \ {p} : pc'[q] = pc[q]
  BY DEF PU!Visit, PU!Answer, PU!Load, PU!Goto, BoardIInv, BoardShape
<1>6. BoardKnown(p)'
  BY <1>3, <1>5 DEF BoardKnown, ReadTrue, LinkTrue, Recording, Readers
<1>7. \A q \in Procs \ {p} : BoardKnown(q)'
  BY <1>2, <1>3, <1>4, <1>5 DEF BoardAsked, BoardKnown, ReadTrue, LinkTrue, Recording, PU!Id, PU!Board
<1>8. PU!RevisionTellsOrOverlap'
  BY <1>1, <1>2, <1>3, <1>5 DEF BoardAsked, PU!BoardAsAskedOrOverlap, PU!RevisionTellsOrOverlap, PU!Id
<1>9. PU!LinkAsAskedOrOverlap' /\ PU!CardsOnTabsOrOverlap'
  BY <1>2 DEF BoardAsked, PU!BoardAsAskedOrOverlap, PU!LinkAsAskedOrOverlap, PU!CardsOnTabsOrOverlap
<1> QED
  BY <1>2, <1>6, <1>7, <1>8, <1>9 DEF BoardAsked, PU!BoardAsAskedOrOverlap

LEMMA Revised == PU!Plausible /\ PU!Spec => []BoardAsked
<1>1. PU!Plausible /\ PU!Init => BoardAsked
  <2> SUFFICES ASSUME PU!Plausible, PU!Init PROVE BoardAsked
    OBVIOUS
  <2>1. PICK s \in PublishingStarts : boards = s.boards
    BY DEF PU!Init
  <2>2. /\ revisions = boards /\ DOMAIN word = DOMAIN boards /\ DOMAIN fresh = Procs
        /\ \A b \in DOMAIN boards : word[b] = boards[b].uuid
        /\ \A p \in Procs : pc[p] = "begin" /\ req[p] \in PublishingAsks
    BY DEF PU!Init
  <2>3. \A b \in DOMAIN boards : boards[b].cards \subseteq boards[b].tabs
    BY <2>1 DEF PU!Plausible
  <2>4. PU!BoardAsAskedOrOverlap
    BY <2>2, <2>3 DEF PU!BoardAsAskedOrOverlap, PU!LinkAsAskedOrOverlap, PU!CardsOnTabsOrOverlap, PU!RevisionTellsOrOverlap
  <2>5. \A p \in Procs : BoardKnown(p)
    BY <2>2 DEF PU!Plausible, BoardKnown, ReadTrue, LinkTrue, Recording
  <2> QED
    BY <2>2, <2>4, <2>5 DEF BoardAsked
<1>2. BoardIInv /\ BoardAsked /\ [PU!Next]_(PU!vars) => BoardAsked'
  <2> SUFFICES ASSUME BoardIInv, BoardAsked, [PU!Next]_(PU!vars) PROVE BoardAsked'
    OBVIOUS
  <2>1. CASE UNCHANGED PU!vars
    BY <2>1 DEF PU!vars, PU!rows, BoardAsked, PU!BoardAsAskedOrOverlap, PU!LinkAsAskedOrOverlap, PU!CardsOnTabsOrOverlap,
                PU!RevisionTellsOrOverlap, BoardKnown, ReadTrue, LinkTrue, Recording, PU!Board, PU!Id
  <2>2. ASSUME NEW p \in Procs, PU!Step(p) PROVE BoardAsked'
    BY <2>2, DocumentsAsked, UpdateAsked, ArchiveAsked, ReadAsked, SwitchesAsked, RecordAsked, VisitAsked DEF PU!Step
  <2> QED
    BY <2>1, <2>2 DEF PU!Next
<1> QED
  BY <1>1, <1>2, BoardInductive, PTL DEF PU!Spec

(* A dashboard, its link and its last revision are what the requests asked *)
(* for, for any number of them, except where two stores of it overlapped.  *)
THEOREM BoardsAreAsAsked == PU!Plausible /\ PU!Spec => []PU!BoardAsAskedOrOverlap
<1>1. BoardAsked => PU!BoardAsAskedOrOverlap
  BY DEF BoardAsked
<1> QED
  BY <1>1, Revised, PTL

----------------------------------------------------------------------------
(* What a visitor is told.                                                 *)

Writers == {"edit", "enable", "disable", "embed"}

\* The dashboard that may be found under a token.
Belongs(t, b) ==
  IF t \in Procs THEN req[t].kind = "enable" /\ PU!Id(t) = b
  ELSE \E s \in PublishingStarts : b \in DOMAIN s.boards /\ t \in s.boards[b].uuid

Owned ==
  /\ \A b \in DOMAIN boards : \A t \in boards[b].uuid : Belongs(t, b)
  /\ \A p \in Procs : req[p].kind \in Writers => \A t \in mem[p].uuid : Belongs(t, PU!Id(p))

SwitchesOn(r) == switches.sharing /\ (r.frame => switches.embedding)
Fits(r, b) == r.frame => boards[b].embed
BoardShown(r) == \E b \in DOMAIN boards : PU!Live(b, r.token) /\ Fits(r, b)

Excused(p) == TRUE \in truth[p] \/ PU!Id(p) \in raced

\* What p has found out holds now, or held before the one write p has seen.
Visiting(p) ==
  /\ pc[p] \in {"begin", "find", "load", "show", "granted", "denied"}
  /\ changes[p] \in {0, 1, 2} /\ (pc[p] = "begin" => changes[p] = 0)
  /\ pc[p] = "find" /\ changes[p] < 2 =>
       SwitchesOn(req[p]) \/ (changes[p] = 1 /\ (BoardShown(req[p]) => TRUE \in truth[p]))
  /\ pc[p] = "load" => PU!Id(p) \in DOMAIN boards /\ Belongs(req[p].token, PU!Id(p))
  /\ pc[p] = "load" /\ changes[p] < 2 =>
       \/ SwitchesOn(req[p]) /\ PU!Live(PU!Id(p), req[p].token)
       \/ changes[p] = 1 /\ (Fits(req[p], PU!Id(p)) => Excused(p))
  /\ pc[p] = "show" => /\ PU!MayShow(p) /\ changes[p] < 2 => Excused(p)
                       /\ ~PU!MayShow(p) => FALSE \in truth[p]
  /\ pc[p] = "granted" /\ changes[p] < 2 => Excused(p)
  /\ pc[p] = "denied" => FALSE \in truth[p]

\* No two dashboards of the first rows share a token.
Distinct ==
  \A s, z \in PublishingStarts : \A b \in DOMAIN s.boards : \A c \in DOMAIN z.boards \ {b} :
    s.boards[b].uuid \cap z.boards[c].uuid = {}

Told ==
  /\ Distinct /\ DOMAIN truth = Procs /\ DOMAIN changes = Procs
  /\ Owned
  /\ \A p \in Procs : req[p].kind = "visit" => Visiting(p)

\* What a store of d over b leaves of the dashboards and of what requests hold.
Stored(p, b, d, overlapped) ==
  /\ DOMAIN boards' = DOMAIN boards \cup {b} /\ switches' = switches /\ raced \subseteq raced'
  /\ \A x \in DOMAIN boards \ {b} : boards'[x] = boards[x]
  /\ boards'[b].uuid = d.uuid
  /\ b \in DOMAIN boards => boards'[b].archived = boards[b].archived
  /\ overlapped => b \in raced'
  /\ mem'[p].uuid = d.uuid
  /\ req'[p].board = b /\ req'[p].kind = req[p].kind
  /\ \A q \in Procs \ {p} : mem'[q] = mem[q] /\ req'[q] = req[q] /\ pc'[q] = pc[q]

LEMMA StoreMoves ==
  ASSUME BoardIInv, NEW p \in Procs, NEW b, NEW d, NEW left, NEW overlapped \in BOOLEAN,
         BoardColumns(d), PU!Store(p, b, d, left, overlapped)
  PROVE  Stored(p, b, d, overlapped)
<1> DEFINE n == PU!Normalized(d)
<1>1. BoardColumns(n) /\ n.uuid = d.uuid
  BY NormalizedKeeps
<1>2. /\ DOMAIN boards' = DOMAIN boards \cup {b}
      /\ \A x \in DOMAIN boards \ {b} : boards'[x] = boards[x]
      /\ boards'[b] = IF b \in DOMAIN boards THEN [n EXCEPT !.archived = boards[b].archived] ELSE n
  BY DEF PU!Store
<1>3. \A a : [n EXCEPT !.archived = a].uuid = n.uuid /\ [n EXCEPT !.archived = a].archived = a
  BY <1>1 DEF BoardColumns
<1>4. /\ switches' = switches /\ raced \subseteq raced' /\ (overlapped => b \in raced')
  BY DEF PU!Store
<1>5. /\ mem'[p] = n /\ req'[p].board = b /\ req'[p].kind = req[p].kind
      /\ \A q \in Procs \ {p} : mem'[q] = mem[q] /\ req'[q] = req[q] /\ pc'[q] = pc[q]
  BY DEF PU!Store, PU!Snapshot, PU!Goto, BoardIInv, BoardShape
<1> QED
  BY <1>1, <1>2, <1>3, <1>4, <1>5 DEF Stored

\* Where the links of dashboards and of requests come from.
Moved(p) ==
  /\ \A q \in Procs : req'[q].kind = req[q].kind /\ (req[q].kind \in Writers => req'[q].board = req[q].board)
  /\ \A q \in Procs \ {p} : mem'[q] = mem[q] /\ req'[q] = req[q] /\ pc'[q] = pc[q]
  /\ DOMAIN boards \subseteq DOMAIN boards' /\ raced \subseteq raced'
  /\ boards' = boards \/ switches' = switches
  /\ \A b \in DOMAIN boards' :
       \/ boards'[b].uuid = {}
       \/ b \in DOMAIN boards /\ boards'[b].uuid = boards[b].uuid
       \/ req[p].kind \in Writers /\ b = PU!Id(p) /\ boards'[b].uuid = mem[p].uuid
  /\ req[p].kind \in Writers =>
       \/ mem'[p].uuid \in {mem[p].uuid, PU!Board(p).uuid, {}}
       \/ req[p].kind = "enable" /\ mem'[p].uuid = {p}
  /\ \A b \in DOMAIN boards :
       \/ boards'[b].uuid = boards[b].uuid /\ boards'[b].embed = boards[b].embed
       \/ /\ boards'[b].archived = boards[b].archived
          /\ b \in raced' \/ boards[b].uuid = {} \/ boards'[b].uuid = {} \/ boards'[b].uuid = boards[b].uuid

\* A step that leaves the dashboards alone.
LEMMA HereMoves ==
  ASSUME BoardIInv, NEW p \in Procs, boards' = boards, raced \subseteq raced',
         \A q \in Procs \ {p} : mem'[q] = mem[q] /\ req'[q] = req[q] /\ pc'[q] = pc[q],
         req'[p].kind = req[p].kind, req[p].kind \in Writers => req'[p].board = req[p].board,
         req[p].kind \in Writers =>
           \/ mem'[p].uuid \in {mem[p].uuid, PU!Board(p).uuid, {}}
           \/ req[p].kind = "enable" /\ mem'[p].uuid = {p}
  PROVE  Moved(p)
BY DEF Moved

LEMMA AnswerMoves ==
  ASSUME BoardIInv, NEW p \in Procs, NEW label, PU!Answer(p, label)
  PROVE  Moved(p)
BY HereMoves DEF PU!Answer, PU!Goto, PU!rows, BoardIInv, BoardShape

LEMMA StepMoves ==
  ASSUME BoardIInv, BoardAsked, NEW p \in Procs, PU!Step(p)
  PROVE  Moved(p)
<1>1. ASSUME NEW label, PU!Answer(p, label) PROVE Moved(p)
  BY <1>1, AnswerMoves
<1>2. ASSUME NEW fields, NEW label, PU!Load(p, fields, label)
      PROVE  Moved(p)
  <2>1. boards' = boards /\ raced' = raced /\ req' = req
    BY <1>2 DEF PU!Load, PU!rows
  <2>2. \A q \in Procs \ {p} : mem'[q] = mem[q] /\ pc'[q] = pc[q]
    BY <1>2 DEF PU!Load, PU!Goto, BoardIInv, BoardShape
  <2>3. mem'[p].uuid \in {mem[p].uuid, PU!Board(p).uuid}
    BY <1>2 DEF PU!Load, BoardIInv, BoardShape, BoardColumns
  <2> QED
    BY <2>1, <2>2, <2>3, HereMoves
<1>3. ASSUME NEW text, NEW tabs, NEW cards
      PROVE  BoardColumns(PU!Private(text, tabs, cards)) /\ PU!Private(text, tabs, cards).uuid = {}
  BY DEF PU!Private, BoardColumns
<1>4. ASSUME NEW b \in PU!Unused, NEW d, NEW overlapped \in BOOLEAN, BoardColumns(d), d.uuid = {},
             PU!Store(p, b, d, {}, overlapped), req[p].kind \notin Writers
      PROVE  Moved(p)
  <2>1. b \notin DOMAIN boards
    BY DEF PU!Unused
  <2>2. Stored(p, b, d, overlapped)
    BY <1>4, StoreMoves
  <2> QED
    BY <1>4, <2>1, <2>2 DEF Moved, Stored
<1>5. CASE PU!CreateDashboard(p)
  BY <1>3, <1>4, <1>5 DEF PU!CreateDashboard, PU!At, Writers
<1>6. CASE PU!DuplicateDashboard(p)
  <2>1. ASSUME NEW b \in PU!Unused,
               PU!Store(p, b, PU!Private(mem[p].text, mem[p].tabs, mem[p].cards), {}, fresh[p] = {} \/ PU!Id(p) \in raced),
               req[p].kind = "copy"
        PROVE  Moved(p)
    BY <1>3, <1>4, <2>1 DEF Writers
  <2> QED
    BY <1>1, <1>6, <2>1 DEF PU!DuplicateDashboard, PU!At
<1>7. CASE PU!EditDashboard(p)
  <2>1. /\ UNCHANGED <<boards, req, raced>> /\ PU!Goto(p, "update")
        /\ mem' = [mem EXCEPT ![p] = [PU!Board(p) EXCEPT !.text = req[p].text, !.tabs = req[p].tabs, !.cards = req[p].cards]]
    BY <1>7 DEF PU!EditDashboard, PU!rows
  <2>2. BoardColumns(PU!Board(p))
    BY <1>7 DEF PU!EditDashboard, PU!At, BoardIInv, BoardShape, PU!Board, PU!Found
  <2>3. mem'[p].uuid = PU!Board(p).uuid /\ \A q \in Procs \ {p} : mem'[q] = mem[q] /\ pc'[q] = pc[q]
    BY <2>1, <2>2 DEF PU!Goto, BoardIInv, BoardShape, BoardColumns
  <2> QED
    BY <2>1, <2>3, HereMoves
<1>8. CASE PU!UpdateDashboard(p)
  <2> DEFINE link == PU!LinkLeft(mem[p].uuid, req[p].kind = "disable", PU!Board(p).uuid)
  <2>1. BoardKnown(p) /\ BoardColumns(mem[p]) /\ req[p].kind \in Writers /\ PU!Id(p) \in DOMAIN boards
    BY <1>8 DEF PU!UpdateDashboard, PU!At, Writers, BoardAsked, BoardIInv, BoardShape, PU!Found, PU!Id
  <2>2. ASSUME pc[p] = "update", PU!Goto(p, "store"), mem' = [mem EXCEPT ![p].uuid = link],
               UNCHANGED <<PU!rows, req, fresh, raced, word>>
        PROVE  Moved(p)
    <3>1. mem'[p].uuid = link /\ \A q \in Procs \ {p} : mem'[q] = mem[q] /\ pc'[q] = pc[q]
      BY <2>1, <2>2 DEF PU!Goto, BoardIInv, BoardShape, BoardColumns
    <3>2. link \in {mem[p].uuid, PU!Board(p).uuid, {}}
      BY DEF PU!LinkLeft
    <3> QED
      BY <2>2, <3>1, <3>2, HereMoves DEF PU!rows
  <2>3. ASSUME pc[p] = "store", NEW left, PU!Store(p, PU!Id(p), mem[p], left, fresh[p] = {})
        PROVE  Moved(p)
    <3> DEFINE b == PU!Id(p)
               o == fresh[p] = {}
    <3>0. PU!Store(p, b, mem[p], left, o) /\ BoardColumns(mem[p]) /\ o \in BOOLEAN /\ b \in DOMAIN boards /\ req[p].board = b
      BY <2>1, <2>3 DEF PU!Id
    <3> HIDE DEF b, o
    <3>4. Stored(p, b, mem[p], o)
      BY <3>0, StoreMoves
    <3>1. /\ DOMAIN boards' = DOMAIN boards /\ switches' = switches /\ raced \subseteq raced'
          /\ \A x \in DOMAIN boards \ {PU!Id(p)} : boards'[x] = boards[x]
          /\ boards'[PU!Id(p)].uuid = mem[p].uuid
          /\ boards'[PU!Id(p)].archived = boards[PU!Id(p)].archived
          /\ fresh[p] = {} => PU!Id(p) \in raced'
          /\ mem'[p].uuid = mem[p].uuid
          /\ req'[p].board = req[p].board /\ req'[p].kind = req[p].kind
          /\ \A q \in Procs \ {p} : mem'[q] = mem[q] /\ req'[q] = req[q] /\ pc'[q] = pc[q]
      BY <3>0, <3>4 DEF b, o, Stored
    <3>2. fresh[p] # {} => mem[p].uuid = boards[PU!Id(p)].uuid \/ boards[PU!Id(p)].uuid = {} \/ mem[p].uuid = {}
      BY <2>1, <2>3 DEF BoardKnown, LinkTrue, Writers, PU!Board, PU!Id
    <3> QED
      BY <2>1, <3>1, <3>2 DEF Moved
  <2> QED
    <3>1. \/ PU!Answer(p, "refused")
          \/ pc[p] = "update" /\ PU!Goto(p, "store") /\ mem' = [mem EXCEPT ![p].uuid = link]
             /\ UNCHANGED <<PU!rows, req, fresh, raced, word>>
          \/ pc[p] = "store" /\ \E left : PU!Store(p, PU!Id(p), mem[p], left, fresh[p] = {})
      BY <1>8 DEF PU!UpdateDashboard, PU!At
    <3> QED
      BY <1>1, <2>2, <2>3, <3>1
<1>9. CASE PU!SetArchived(p)
  <2>1. /\ DOMAIN boards' = DOMAIN boards /\ PU!Goto(p, "done") /\ UNCHANGED <<switches, req, mem, raced>>
        /\ \A b \in DOMAIN boards : boards'[b] = boards[b] \/ \E a : boards'[b] = [boards[b] EXCEPT !.archived = a]
    BY <1>9 DEF PU!SetArchived, PU!Id
  <2>2. \A b \in DOMAIN boards : boards'[b].uuid = boards[b].uuid /\ boards'[b].embed = boards[b].embed
    BY <2>1 DEF BoardIInv, BoardShape, BoardColumns
  <2>3. \A q \in Procs \ {p} : pc'[q] = pc[q]
    BY <2>1 DEF PU!Goto, BoardIInv, BoardShape
  <2> QED
    BY <2>1, <2>2, <2>3 DEF Moved
<1>10. CASE PU!RecordRevision(p) \/ PU!SaveAdminSettings(p)
  <2>1. boards' = boards /\ req' = req /\ mem' = mem /\ raced \subseteq raced'
    BY <1>10 DEF PU!RecordRevision, PU!SaveAdminSettings
  <2>2. \A q \in Procs \ {p} : pc'[q] = pc[q]
    BY <1>10 DEF PU!RecordRevision, PU!SaveAdminSettings, PU!Goto, BoardIInv, BoardShape
  <2> QED
    BY <2>1, <2>2, HereMoves
<1>11. CASE PU!EnablePublicLink(p) \/ PU!DisablePublicLink(p) \/ PU!SetEmbedding(p)
  <2>1. ASSUME NEW m, mem' = [mem EXCEPT ![p] = m], PU!Goto(p, "update"), UNCHANGED <<PU!rows, req, fresh, raced, word>>,
               m.uuid = mem[p].uuid \/ (req[p].kind = "enable" /\ m.uuid = {p})
        PROVE  Moved(p)
    BY <2>1, HereMoves DEF PU!Goto, BoardIInv, BoardShape, PU!rows
  <2>2. BoardColumns(mem[p])
    BY DEF BoardIInv, BoardShape
  <2>3. CASE PU!EnablePublicLink(p)
    <3> DEFINE m == [mem[p] EXCEPT !.uuid = IF @ = {} THEN {p} ELSE @]
    <3>1. ASSUME PU!At(p, {"enable"}, "loaded"), mem' = [mem EXCEPT ![p].uuid = IF @ = {} THEN {p} ELSE @],
                 PU!Goto(p, "update"), UNCHANGED <<PU!rows, req, fresh, raced, word>>
          PROVE  Moved(p)
      <4>1. mem' = [mem EXCEPT ![p] = m] /\ m.uuid \in {mem[p].uuid, {p}}
        BY <2>2, <3>1 DEF BoardColumns
      <4> QED
        BY <2>1, <3>1, <4>1 DEF PU!At
    <3> QED
      BY <1>1, <2>3, <3>1 DEF PU!EnablePublicLink
  <2>4. CASE PU!DisablePublicLink(p)
    <3>1. ASSUME mem' = [mem EXCEPT ![p] = PU!Revoked(@)], PU!Goto(p, "update"), UNCHANGED <<PU!rows, req, fresh, raced, word>>
          PROVE  Moved(p)
      <4>1. mem' = [mem EXCEPT ![p] = PU!Revoked(mem[p])] /\ PU!Revoked(mem[p]).uuid = mem[p].uuid
        BY <2>2, <3>1 DEF BoardColumns, PU!Revoked
      <4> QED
        BY <2>1, <3>1, <4>1
    <3> QED
      BY <1>1, <2>4, <3>1 DEF PU!DisablePublicLink
  <2>5. CASE PU!SetEmbedding(p)
    <3> DEFINE m == [mem[p] EXCEPT !.embed = req[p].on]
    <3>1. ASSUME mem' = [mem EXCEPT ![p].embed = req[p].on], PU!Goto(p, "update"), UNCHANGED <<PU!rows, req, fresh, raced, word>>
          PROVE  Moved(p)
      <4>1. mem' = [mem EXCEPT ![p] = m] /\ m.uuid = mem[p].uuid
        BY <2>2, <3>1 DEF BoardColumns
      <4> QED
        BY <2>1, <3>1, <4>1
    <3> QED
      BY <1>1, <2>5, <3>1 DEF PU!SetEmbedding
  <2> QED
    BY <1>11, <2>3, <2>4, <2>5
<1>12. CASE PU!Visit(p)
  <2>1. boards' = boards /\ raced' = raced /\ req[p].kind = "visit"
    BY <1>12 DEF PU!Visit, PU!At, PU!Answer, PU!Load, PU!rows
  <2>2. req'[p].kind = req[p].kind /\ \A q \in Procs \ {p} : req'[q] = req[q]
    BY <1>12 DEF PU!Visit, PU!Answer, PU!Load, BoardIInv, BoardShape
  <2>3. \A q \in Procs \ {p} : mem'[q] = mem[q] /\ pc'[q] = pc[q]
    BY <1>12 DEF PU!Visit, PU!Answer, PU!Load, PU!Goto, BoardIInv, BoardShape
  <2> QED
    BY <2>1, <2>2, <2>3, HereMoves DEF Writers
<1>13. CASE PU!ByID(p)
  BY <1>2, <1>13 DEF PU!ByID
<1> QED
  BY <1>5, <1>6, <1>7, <1>8, <1>9, <1>10, <1>11, <1>12, <1>13 DEF PU!Step

LEMMA BelongsToOne ==
  ASSUME Distinct, NEW t, NEW b, NEW c, Belongs(t, b), Belongs(t, c)
  PROVE  b = c
BY DEF Distinct, Belongs

LEMMA OwnedStays ==
  ASSUME BoardIInv, Owned, NEW p \in Procs, Moved(p)
  PROVE  Owned'
<1>1. ASSUME NEW t, NEW b, Belongs(t, b) PROVE Belongs(t, b)'
  BY <1>1 DEF Belongs, Moved, PU!Id, Writers
<1>2. ASSUME NEW b \in DOMAIN boards', NEW t \in boards'[b].uuid PROVE Belongs(t, b)
  BY DEF Owned, Moved
<1>3. ASSUME NEW q \in Procs, req'[q].kind \in Writers, NEW t \in mem'[q].uuid PROVE Belongs(t, PU!Id(q)')
  <2>1. req[q].kind \in Writers /\ PU!Id(q)' = PU!Id(q)
    BY <1>3 DEF Moved, PU!Id
  <2>2. CASE q # p
    BY <1>3, <2>1, <2>2 DEF Moved, Owned
  <2>3. CASE q = p
    <3>1. PU!Id(p) \in DOMAIN boards
      BY <2>1, <2>3 DEF BoardIInv, BoardShape, PU!Found, Writers, PU!Id
    <3>2. t \in mem[p].uuid \/ t \in PU!Board(p).uuid \/ (req[p].kind = "enable" /\ t = p)
      BY <1>3, <2>1, <2>3 DEF Moved
    <3> QED
      BY <2>1, <2>3, <3>1, <3>2 DEF Owned, PU!Board, PU!Id, Belongs
  <2> QED
    BY <2>2, <2>3
<1> QED
  BY <1>1, <1>2, <1>3 DEF Owned

\* The history of one visit.
Noted(q) ==
  /\ truth[q] \subseteq truth'[q]
  /\ pc[q] \notin {"granted", "denied"} /\ pc'[q] # "begin" =>
       /\ PU!Entitled(req[q]) => TRUE \in truth'[q]
       /\ ~PU!Entitled(req[q]) => FALSE \in truth'[q]
  /\ pc[q] \in {"begin", "granted", "denied"} \/ (boards' = boards /\ switches' = switches)
       => changes'[q] = changes[q]
  /\ pc[q] \notin {"begin", "granted", "denied"} /\ (boards' # boards \/ switches' # switches)
       => changes'[q] = IF changes[q] < 2 THEN changes[q] + 1 ELSE changes[q]

LEMMA Noticed ==
  ASSUME PU!Watch, NEW q \in Procs, req[q].kind = "visit"
  PROVE  Noted(q)
<1>1. truth'[q] = IF pc[q] \notin {"granted", "denied"} /\ pc'[q] # "begin"
                    THEN truth[q] \cup {PU!Entitled(req[q]), PU!Entitled(req[q])'} ELSE truth[q]
  BY DEF PU!Watch
<1>2. PU!Entitled(req[q]) \in BOOLEAN
  BY DEF PU!Entitled
<1>3. changes'[q] =
       IF /\ pc[q] \notin {"granted", "denied"} /\ pc[q] # "begin"
          /\ <<boards, switches>>' # <<boards, switches>> /\ changes[q] < 2
         THEN changes[q] + 1 ELSE changes[q]
  BY DEF PU!Watch
<1>4. PU!Entitled(req[q]) => PU!Entitled(req[q]) = TRUE
  BY <1>2
<1>5. ~PU!Entitled(req[q]) => PU!Entitled(req[q]) = FALSE
  BY <1>2
<1> QED
  BY <1>1, <1>3, <1>4, <1>5 DEF Noted

LEMMA EntitledParts ==
  ASSUME NEW r
  PROVE  PU!Entitled(r) <=> SwitchesOn(r) /\ BoardShown(r)
BY DEF PU!Entitled, SwitchesOn, BoardShown, Fits

\* While q waits, another request writes: what q has found out holds still, or
\* q should have been shown the dashboard before that write.
LEMMA WaitTold ==
  ASSUME BoardIInv, PU!EmbedNeedsLink', Told, NEW p \in Procs, Moved(p), PU!Watch,
         NEW q \in Procs \ {p}, req[q].kind = "visit"
  PROVE  Visiting(q)'
<1> DEFINE b == PU!Id(q)
           r == req[q]
<1>0. Noted(q)
  BY Noticed
<1>1. Visiting(q)
  BY DEF Told
<1>2. req'[q] = r /\ mem'[q] = mem[q] /\ pc'[q] = pc[q] /\ PU!Id(q)' = b
  BY DEF Moved, PU!Id
<1>3. changes[q] \in {0, 1, 2} /\ changes'[q] \in {0, 1, 2} /\ (changes'[q] < 2 => changes[q] < 2)
  BY <1>0, <1>1 DEF Visiting, Noted
<1>4. truth[q] \subseteq truth'[q] /\ raced \subseteq raced' /\ (Excused(q) => Excused(q)')
  BY <1>0, <1>2 DEF Moved, Excused, Noted
<1>5. \A t, c : Belongs(t, c) => Belongs(t, c)'
  BY DEF Belongs, Moved, PU!Id, Writers
<1>6. pc[q] = "load" => PU!Id(q)' \in DOMAIN boards' /\ Belongs(req[q].token, PU!Id(q))'
  BY <1>1, <1>2, <1>5 DEF Visiting, Moved
<1>7. pc[q] = "begin" => changes'[q] = 0
  BY <1>0, <1>1 DEF Visiting, Noted
<1>8. pc[q] = "granted" /\ changes'[q] < 2 => Excused(q)'
  BY <1>1, <1>3, <1>4 DEF Visiting
<1>9. pc[q] = "denied" => FALSE \in truth'[q]
  BY <1>1, <1>4 DEF Visiting
<1>10. pc[q] = "show" => /\ PU!MayShow(q)' /\ changes'[q] < 2 => Excused(q)'
                         /\ ~PU!MayShow(q)' => FALSE \in truth'[q]
  BY <1>1, <1>2, <1>3, <1>4 DEF Visiting, PU!MayShow
<1>11. ASSUME pc[q] = "find", changes'[q] < 2
       PROVE  SwitchesOn(req[q])' \/ (changes'[q] = 1 /\ (BoardShown(req[q])' => TRUE \in truth'[q]))
  <2>1. CASE boards' = boards /\ switches' = switches
    BY <1>0, <1>1, <1>2, <1>4, <1>11, <2>1 DEF Visiting, Noted, SwitchesOn, BoardShown, Fits, PU!Live
  <2>2. CASE boards' # boards \/ switches' # switches
    <3>1. changes[q] = 0 /\ changes'[q] = 1
      BY <1>0, <1>3, <1>11, <2>2 DEF Noted
    <3>2. SwitchesOn(r)
      BY <1>1, <1>11, <3>1 DEF Visiting
    <3>3. CASE switches' = switches
      BY <1>2, <3>2, <3>3 DEF SwitchesOn
    <3>4. CASE boards' = boards
      <4>1. BoardShown(req[q])' => PU!Entitled(r)
        BY <1>2, <3>2, <3>4, EntitledParts DEF BoardShown, Fits, PU!Live
      <4> QED
        BY <1>0, <1>2, <1>11, <3>1, <4>1 DEF Noted
    <3> QED
      BY <3>3, <3>4 DEF Moved
  <2> QED
    BY <2>1, <2>2
<1>12. ASSUME pc[q] = "load", changes'[q] < 2
       PROVE  \/ SwitchesOn(req[q])' /\ PU!Live(PU!Id(q), req[q].token)'
              \/ changes'[q] = 1 /\ (Fits(req[q], PU!Id(q))' => Excused(q)')
  <2>1. CASE boards' = boards /\ switches' = switches
    BY <1>0, <1>1, <1>2, <1>4, <1>12, <2>1 DEF Visiting, Noted, SwitchesOn, Fits, PU!Live, PU!Id
  <2>2. CASE boards' # boards \/ switches' # switches
    <3>1. changes[q] = 0 /\ changes'[q] = 1
      BY <1>0, <1>3, <1>12, <2>2 DEF Noted
    <3>2. SwitchesOn(r) /\ PU!Live(b, r.token) /\ b \in DOMAIN boards
      BY <1>1, <1>12, <3>1 DEF Visiting
    <3>3. ASSUME Fits(r, b) PROVE Excused(q)'
      <4>1. PU!Entitled(r)
        BY <3>2, <3>3, EntitledParts DEF BoardShown
      <4>2. TRUE \in truth'[q]
        BY <1>0, <1>2, <1>12, <4>1 DEF Noted
      <4> QED
        BY <4>2 DEF Excused
    <3>4. CASE boards' = boards
      BY <1>2, <3>1, <3>3, <3>4 DEF Fits
    <3>5. CASE boards'[b].uuid = boards[b].uuid /\ boards'[b].embed = boards[b].embed
      BY <1>2, <3>1, <3>3, <3>5 DEF Fits
    <3>6. CASE /\ switches' = switches /\ boards'[b].archived = boards[b].archived
               /\ b \in raced' \/ boards[b].uuid = {} \/ boards'[b].uuid = {} \/ boards'[b].uuid = boards[b].uuid
      <4>1. CASE b \in raced'
        BY <1>2, <3>1, <4>1 DEF Excused
      <4>2. CASE boards'[b].uuid = boards[b].uuid
        BY <1>2, <3>2, <3>6, <4>2 DEF SwitchesOn, PU!Live
      <4>3. CASE boards'[b].uuid = {}
        <5>1. ~boards'[b].embed
          BY <1>2, <1>6, <1>12, <4>3 DEF PU!EmbedNeedsLink
        <5> QED
          BY <1>2, <3>1, <3>3, <5>1 DEF Fits
      <4> QED
        BY <3>2, <3>6, <4>1, <4>2, <4>3 DEF PU!Live
    <3> QED
      BY <3>2, <3>4, <3>5, <3>6 DEF Moved
  <2> QED
    BY <2>1, <2>2
<1> QED
  BY <1>1, <1>2, <1>3, <1>6, <1>7, <1>8, <1>9, <1>10, <1>11, <1>12 DEF Visiting

\* The steps of the visit itself: what it finds out holds at that moment.
LEMMA OwnTold ==
  ASSUME BoardIInv, Told, NEW p \in Procs, PU!Visit(p), PU!Watch
  PROVE  Visiting(p)'
<1> DEFINE r == req[p]
<1>1. Visiting(p) /\ r.kind = "visit" /\ Noted(p)
  BY Noticed DEF Told, PU!Visit, PU!At
<1>2. boards' = boards /\ switches' = switches /\ raced' = raced
  BY DEF PU!Visit, PU!Answer, PU!Load, PU!rows
<1>3. changes'[p] = changes[p] /\ truth[p] \subseteq truth'[p]
  BY <1>1, <1>2 DEF Noted
<1>4. /\ pc[p] \in {"begin", "find", "load", "show"}
      /\ pc'[p] \in {"find", "load", "show", "granted", "denied"}
  BY DEF PU!Visit, PU!At, PU!Answer, PU!Load, PU!Goto, BoardIInv, BoardShape
<1>5. /\ PU!Entitled(r) => TRUE \in truth'[p]
      /\ ~PU!Entitled(r) => FALSE \in truth'[p]
  BY <1>1, <1>4 DEF Noted
<1>6. CASE pc[p] = "begin" /\ PU!Answer(p, IF SwitchesOn(r) THEN "find" ELSE "denied")
  <2>1. pc'[p] = IF SwitchesOn(r) THEN "find" ELSE "denied"
    BY <1>6 DEF PU!Answer, PU!Goto, BoardIInv, BoardShape
  <2>2. req' = req
    BY <1>6 DEF PU!Answer
  <2>3. changes'[p] = 0
    BY <1>1, <1>3, <1>6 DEF Visiting
  <2>4. CASE SwitchesOn(r)
    <3>1. SwitchesOn(req[p])' /\ pc'[p] = "find"
      BY <1>2, <2>1, <2>2, <2>4 DEF SwitchesOn
    <3> QED
      BY <2>3, <3>1 DEF Visiting
  <2>5. CASE ~SwitchesOn(r)
    <3>1. FALSE \in truth'[p] /\ pc'[p] = "denied"
      BY <1>5, <2>1, <2>5, EntitledParts
    <3> QED
      BY <2>3, <3>1 DEF Visiting
  <2> QED
    BY <2>4, <2>5
<1>7. CASE pc[p] = "find" /\ \E b \in DOMAIN boards : /\ PU!Live(b, r.token) /\ req' = [req EXCEPT ![p].board = b]
                                                       /\ PU!Goto(p, "load")
  <2>1. PICK b \in DOMAIN boards : PU!Live(b, r.token) /\ req' = [req EXCEPT ![p].board = b] /\ PU!Goto(p, "load")
    BY <1>7
  <2>2. pc'[p] = "load"
    BY <2>1 DEF PU!Goto, BoardIInv, BoardShape
  <2>3. PU!Id(p)' = b /\ req'[p].token = r.token /\ req'[p].frame = r.frame
    BY <2>1 DEF PU!Id, BoardIInv, BoardShape
  <2>4. Belongs(r.token, b)
    BY <2>1 DEF Told, Owned, PU!Live
  <2>5. Belongs(req[p].token, PU!Id(p))'
    <3>1. \A t \in Procs : req'[t].kind = req[t].kind /\ (req[t].kind = "enable" => PU!Id(t)' = PU!Id(t))
      BY <1>1, <2>1 DEF BoardIInv, BoardShape, PU!Id
    <3> QED
      BY <2>3, <2>4, <3>1 DEF Belongs
  <2>6. ASSUME changes'[p] < 2
        PROVE  \/ SwitchesOn(req[p])' /\ PU!Live(PU!Id(p), req[p].token)'
               \/ changes'[p] = 1 /\ (Fits(req[p], PU!Id(p))' => Excused(p)')
    <3>1. CASE SwitchesOn(r)
      BY <1>2, <2>1, <2>3, <3>1 DEF SwitchesOn, PU!Live
    <3>2. CASE changes[p] = 1 /\ (BoardShown(r) => TRUE \in truth[p])
      <4>1. Fits(req[p], PU!Id(p))' => BoardShown(r)
        BY <1>2, <2>1, <2>3 DEF Fits, BoardShown
      <4> QED
        BY <1>3, <3>2, <4>1 DEF Excused
    <3> QED
      BY <1>1, <1>3, <1>7, <2>6, <3>1, <3>2 DEF Visiting
  <2>7. changes'[p] \in {0, 1, 2}
    BY <1>1, <1>3 DEF Visiting
  <2> QED
    BY <1>2, <2>1, <2>2, <2>3, <2>5, <2>6, <2>7 DEF Visiting
<1>8. CASE pc[p] = "find" /\ (\A b \in DOMAIN boards : ~PU!Live(b, r.token)) /\ PU!Goto(p, "denied")
  <2>1. ~PU!Entitled(r)
    BY <1>8, EntitledParts DEF BoardShown
  <2>2. pc'[p] = "denied" /\ changes'[p] \in {0, 1, 2}
    BY <1>1, <1>3, <1>8 DEF Visiting, PU!Goto, BoardIInv, BoardShape
  <2> QED
    BY <1>5, <2>1, <2>2 DEF Visiting
<1>9. CASE pc[p] = "load" /\ PU!Load(p, {"embed"}, "show")
  <2>1. /\ pc'[p] = "show" /\ req' = req /\ mem'[p].embed = boards[PU!Id(p)].embed
        /\ PU!Id(p) \in DOMAIN boards /\ Belongs(r.token, PU!Id(p))
    BY <1>1, <1>9 DEF Visiting, PU!Load, PU!Goto, BoardIInv, BoardShape, BoardColumns, PU!Board, PU!Id
  <2>2. PU!MayShow(p)' <=> Fits(r, PU!Id(p))
    BY <2>1 DEF PU!MayShow, Fits
  <2>3. ASSUME PU!MayShow(p)', changes'[p] < 2 PROVE Excused(p)'
    <3>1. CASE SwitchesOn(r) /\ PU!Live(PU!Id(p), r.token)
      <4>1. PU!Entitled(r)
        BY <2>1, <2>2, <2>3, <3>1, EntitledParts DEF BoardShown
      <4> QED
        BY <1>5, <4>1 DEF Excused
    <3>2. CASE Fits(r, PU!Id(p)) => Excused(p)
      <4>1. PU!Id(p)' = PU!Id(p)
        BY <2>1 DEF PU!Id
      <4> QED
        BY <1>2, <1>3, <2>2, <2>3, <3>2, <4>1 DEF Excused
    <3> QED
      BY <1>1, <1>3, <1>9, <2>3, <3>1, <3>2 DEF Visiting
  <2>4. ASSUME ~PU!MayShow(p)' PROVE FALSE \in truth'[p]
    <3>1. ASSUME BoardShown(r) PROVE FALSE
      <4>1. PICK b \in DOMAIN boards : PU!Live(b, r.token) /\ Fits(r, b)
        BY <3>1 DEF BoardShown
      <4>2. Belongs(r.token, b) /\ Distinct
        BY <4>1 DEF Told, Owned, PU!Live
      <4>3. b = PU!Id(p)
        BY <2>1, <4>2, BelongsToOne
      <4> QED
        BY <2>2, <2>4, <4>1, <4>3
    <3> QED
      BY <1>5, <3>1, EntitledParts
  <2>5. changes'[p] \in {0, 1, 2}
    BY <1>1, <1>3 DEF Visiting
  <2> QED
    BY <2>1, <2>3, <2>4, <2>5 DEF Visiting
<1>10. CASE pc[p] = "show" /\ PU!Answer(p, IF PU!MayShow(p) THEN "granted" ELSE "denied")
  <2>1. pc'[p] = IF PU!MayShow(p) THEN "granted" ELSE "denied"
    BY <1>10 DEF PU!Answer, PU!Goto, BoardIInv, BoardShape
  <2>2. PU!Id(p)' = PU!Id(p) /\ changes'[p] \in {0, 1, 2}
    BY <1>1, <1>3, <1>10 DEF PU!Answer, PU!Id, Visiting
  <2>3. PU!MayShow(p) /\ changes'[p] < 2 => Excused(p)'
    BY <1>1, <1>2, <1>3, <1>10, <2>2 DEF Visiting, Excused
  <2>4. ~PU!MayShow(p) => FALSE \in truth'[p]
    BY <1>1, <1>3, <1>10 DEF Visiting
  <2> QED
    BY <2>1, <2>2, <2>3, <2>4 DEF Visiting
<1> QED
  BY <1>6, <1>7, <1>8, <1>9, <1>10 DEF PU!Visit, PU!At, SwitchesOn

(* A visitor is told what was true at some moment of the visit, for any    *)
(* number of requests, unless several writes or one over a rival's fell    *)
(* into it.                                                                *)
THEOREM VisitorsAreToldAMoment == PU!Plausible /\ PU!Spec => []PU!VisitOnSomeMoment
<1>1. PU!Plausible /\ PU!Init => Told
  <2> SUFFICES ASSUME PU!Plausible, PU!Init PROVE Told
    OBVIOUS
  <2>1. PICK s \in PublishingStarts : boards = s.boards
    BY DEF PU!Init
  <2>2. /\ DOMAIN truth = Procs /\ DOMAIN changes = Procs
        /\ \A p \in Procs : pc[p] = "begin" /\ changes[p] = 0 /\ mem[p] = PU!Private(0, {}, {})
    BY DEF PU!Init
  <2>3. Distinct
    BY DEF PU!Plausible, Distinct
  <2>4. ASSUME NEW b \in DOMAIN boards, NEW t \in boards[b].uuid PROVE Belongs(t, b)
    <3>1. s.boards[b].uuid \cap Procs = {}
      BY <2>1 DEF PU!Plausible
    <3> QED
      BY <2>1, <2>4, <3>1 DEF Belongs
  <2>5. PU!Private(0, {}, {}).uuid = {}
    BY DEF PU!Private
  <2>6. Owned
    BY <2>2, <2>4, <2>5 DEF Owned
  <2>7. \A p \in Procs : Visiting(p)
    BY <2>2 DEF Visiting
  <2> QED
    BY <2>2, <2>3, <2>6, <2>7 DEF Told
<1>2. BoardIInv /\ BoardIInv' /\ BoardAsked /\ Told /\ [PU!Next]_(PU!vars) => Told'
  <2> SUFFICES ASSUME BoardIInv, BoardIInv', BoardAsked, Told, [PU!Next]_(PU!vars) PROVE Told'
    OBVIOUS
  <2>1. CASE UNCHANGED PU!vars
    <3>1. /\ boards' = boards /\ switches' = switches /\ req' = req /\ pc' = pc /\ mem' = mem
          /\ raced' = raced /\ truth' = truth /\ changes' = changes
      BY <2>1 DEF PU!vars, PU!rows
    <3>2. Distinct' <=> Distinct
      BY DEF Distinct
    <3>3. ASSUME NEW t, NEW b PROVE Belongs(t, b)' <=> Belongs(t, b)
      BY <3>1 DEF Belongs, PU!Id
    <3>4. Owned' <=> Owned
      BY <3>1, <3>3 DEF Owned, PU!Id
    <3>5. ASSUME NEW p \in Procs PROVE Visiting(p)' <=> Visiting(p)
      <4>1. SwitchesOn(req[p])' <=> SwitchesOn(req[p])
        BY <3>1 DEF SwitchesOn
      <4>2. BoardShown(req[p])' <=> BoardShown(req[p])
        BY <3>1 DEF BoardShown, PU!Live, Fits
      <4>3. PU!Live(PU!Id(p), req[p].token)' <=> PU!Live(PU!Id(p), req[p].token)
        BY <3>1 DEF PU!Live, PU!Id
      <4>4. Fits(req[p], PU!Id(p))' <=> Fits(req[p], PU!Id(p))
        BY <3>1 DEF Fits, PU!Id
      <4>5. (Excused(p)' <=> Excused(p)) /\ (PU!MayShow(p)' <=> PU!MayShow(p))
        BY <3>1 DEF Excused, PU!MayShow, PU!Id
      <4>6. PU!Id(p)' = PU!Id(p) /\ (Belongs(req[p].token, PU!Id(p))' <=> Belongs(req[p].token, PU!Id(p)))
        BY <3>1 DEF Belongs, PU!Id
      <4> QED
        BY <3>1, <4>1, <4>2, <4>3, <4>4, <4>5, <4>6 DEF Visiting
    <3> QED
      BY <3>1, <3>2, <3>4, <3>5 DEF Told
  <2>2. ASSUME NEW p \in Procs, PU!Step(p), PU!Watch PROVE Told'
    <3>1. Moved(p) /\ PU!EmbedNeedsLink'
      BY <2>2, StepMoves DEF BoardIInv
    <3>2. Owned'
      BY <3>1, OwnedStays DEF Told
    <3>3. DOMAIN truth' = Procs /\ DOMAIN changes' = Procs /\ Distinct'
      BY <2>2 DEF PU!Watch, Told, Distinct
    <3>4. ASSUME NEW q \in Procs, req'[q].kind = "visit" PROVE Visiting(q)'
      <4>1. req[q].kind = "visit"
        BY <3>1, <3>4 DEF Moved
      <4>2. CASE q # p
        BY <2>2, <3>1, <4>1, <4>2, WaitTold
      <4>3. CASE q = p
        <5>1. PU!Visit(p) \/ PU!RecordRevision(p)
          BY <2>2, <4>1, <4>3 DEF PU!Step, PU!CreateDashboard, PU!EditDashboard, PU!UpdateDashboard, PU!DuplicateDashboard, PU!SetArchived,
               PU!ByID, PU!EnablePublicLink, PU!DisablePublicLink, PU!SetEmbedding, PU!SaveAdminSettings, PU!At
        <5>2. pc[p] # "revision"
          BY <4>1, <4>3 DEF Told, Visiting
        <5> QED
          BY <2>2, <4>3, <5>1, <5>2, OwnTold DEF PU!RecordRevision
      <4> QED
        BY <4>2, <4>3
    <3> QED
      BY <3>2, <3>3, <3>4 DEF Told
  <2> QED
    BY <2>1, <2>2 DEF PU!Next
<1>3. BoardAsked /\ Told => PU!VisitOnSomeMoment
  <2> SUFFICES ASSUME BoardAsked, Told, NEW p \in Procs, pc[p] \in {"granted", "denied"}, changes[p] < 2
               PROVE  (pc[p] = "granted") \in truth[p] \/ PU!Id(p) \in raced
    BY DEF PU!VisitOnSomeMoment
  <2>1. req[p].kind = "visit"
    BY DEF BoardAsked, BoardKnown
  <2> QED
    BY <2>1 DEF Told, Visiting, Excused
<1> QED
  BY <1>1, <1>2, <1>3, BoardInductive, Revised, PTL DEF PU!Spec

----------------------------------------------------------------------------
(* The limits of an answer hold for any tables, queries, limits and        *)
(* questions, and for whatever the compiler and the database make of a     *)
(* tree of filters: an invariant of the scanner, row by row.               *)

Keyed == req.kind = "dataset" /\ req.key

\* A request with a key is capped before anything is expanded, and nothing
\* that comes after it changes its limit.
Capped ==
  /\ Keyed => "limit" \in DOMAIN ir
  /\ Keyed /\ stage = "accept" => ir.limit \in Nat
  /\ Keyed /\ stage # "accept" => ir.limit \in 1 .. KeyRows
  /\ Keyed /\ stage \in {"scan", "done"} => DOMAIN given \subseteq 1 .. KeyRows

Cut == \E i \in DOMAIN answer.rows : answer.rows[i].size > CellBytes

\* What has been scanned are rows that were given, within the limits; it is
\* marked for a cell that was cut, and at the end for a row left out.
Scanning ==
  /\ answer.rows \in Seq({given[i] : i \in DOMAIN given})
  /\ {"rows", "bytes", "marked"} \subseteq DOMAIN answer
  /\ answer.marked \in BOOLEAN
  /\ answer.bytes <= ResultBytes
  /\ Len(answer.rows) <= ScanRows
  /\ Len(answer.rows) # 0 => Len(answer.rows) \in DOMAIN given
  /\ stage = "scan" => (answer.marked <=> Cut)
  /\ stage = "done" => (answer.marked <=> QU!More \/ Cut)

AnswerInv ==
  /\ Capped
  /\ stage \notin {"scan", "done"} => answer = QU!NoAnswer
  /\ stage \in {"scan", "done"} => Scanning

LEMMA LimitOfKey ==
  ASSUME NEW query, query.limit \in 1 .. KeyRows
  PROVE  \A n \in 1 .. QU!Limit(query) : n \in 1 .. KeyRows
<1>1. KeyRows \in Nat /\ MaxLimit \in Nat /\ DefaultLimit \in Nat
  BY PlausibleCases DEF QU!Plausible
<1> QED
  BY <1>1 DEF QU!Limit

\* Every step before the statement runs.
Preparing ==
  \/ QU!ExpandModel \/ QU!ExpandQuestion \/ QU!ExpandMetric \/ QU!ExpandSegments \/ QU!ExpandJoins
  \/ QU!Compile

LEMMA PreparingKeepsLimit ==
  ASSUME "limit" \in DOMAIN ir, Preparing
  PROVE  "limit" \in DOMAIN ir' /\ ir'.limit = ir.limit
<1>1. CASE QU!ExpandModel
  <2>1. CASE ir.source.kind = "model"
    <3> DEFINE base == Models[ir.source.id]
    <3> DEFINE on == QU!On(base)
    <3>1. DOMAIN on = DOMAIN ir /\ on.limit = ir.limit
      BY DEF QU!On
    <3>2. ir' = [on EXCEPT !.fields = IF @ = {} THEN base.fields ELSE @]
      BY <1>1, <2>1 DEF QU!ExpandModel
    <3> HIDE DEF on
    <3> QED
      BY <3>1, <3>2
  <2>2. CASE ir.source.kind # "model"
    BY <1>1, <2>2 DEF QU!ExpandModel
  <2> QED
    BY <2>1, <2>2
<1>2. CASE QU!ExpandQuestion
  BY <1>2 DEF QU!ExpandQuestion, QU!On
<1>3. CASE QU!ExpandMetric
  BY <1>3 DEF QU!ExpandMetric
<1>4. CASE QU!ExpandSegments
  BY <1>4 DEF QU!ExpandSegments
<1>5. CASE QU!ExpandJoins
  BY <1>5 DEF QU!ExpandJoins
<1>6. CASE QU!Compile
  BY <1>6 DEF QU!Compile, QU!Fail
<1> QED
  BY <1>1, <1>2, <1>3, <1>4, <1>5, <1>6 DEF Preparing

LEMMA PreparingGivesNothing ==
  ASSUME Preparing
  PROVE  /\ stage \notin {"accept", "scan", "done"} /\ stage' \notin {"accept", "scan", "done"}
         /\ req' = req /\ answer' = answer
BY DEF Preparing, QU!ExpandModel, QU!ExpandQuestion, QU!ExpandMetric, QU!ExpandSegments, QU!ExpandJoins,
       QU!Compile, QU!Fail, QU!Goto

LEMMA AnswerStarts == QU!Init => AnswerInv
<1> SUFFICES ASSUME QU!Init PROVE AnswerInv
  OBVIOUS
<1>1. "limit" \in DOMAIN ir /\ ir.limit \in Nat
  BY PlausibleCases DEF QU!Plausible, QU!Init
<1> QED
  BY <1>1 DEF QU!Init, AnswerInv, Capped

\* A row more: the scan goes on with it, or ends without it.
LEMMA ScanKeeps ==
  ASSUME Scanning, QU!ScanRow
  PROVE  Scanning'
<1> DEFINE G == {given[i] : i \in DOMAIN given}
<1> DEFINE n == Len(answer.rows)
<1> DEFINE row == given[n + 1]
<1>1. n \in Nat /\ n + 1 \in DOMAIN given /\ given' = given /\ row \in G /\ DOMAIN answer.rows = 1 .. n
  BY DEF Scanning, QU!ScanRow, QU!More
<1>2. ScanRows \in Nat
  BY PlausibleCases DEF QU!Plausible
<1>3. CASE n >= ScanRows \/ ~QU!Fits(row)
  <2>1. stage' = "done" /\ answer' = [answer EXCEPT !.marked = TRUE]
    BY <1>3 DEF QU!ScanRow, QU!Row, QU!Goto
  <2>2. answer'.rows = answer.rows /\ answer'.bytes = answer.bytes /\ answer'.marked = TRUE /\ DOMAIN answer' = DOMAIN answer
    BY <2>1 DEF Scanning
  <2> QED
    BY <1>1, <2>1, <2>2 DEF Scanning, QU!More
<1>4. CASE ~(n >= ScanRows \/ ~QU!Fits(row))
  <2>1. /\ stage' = stage /\ stage = "scan"
        /\ answer'.rows = Append(answer.rows, row)
        /\ answer'.bytes = answer.bytes + QU!Cell(row)
        /\ answer'.marked = (answer.marked \/ row.size > CellBytes)
        /\ DOMAIN answer' = {"rows", "bytes", "marked"}
    BY <1>4 DEF QU!ScanRow, QU!Row
  <2>2. answer'.bytes <= ResultBytes
    BY <1>4, <2>1 DEF QU!Fits
  <2>3. answer'.rows \in Seq(G) /\ Len(answer'.rows) = n + 1
    BY <1>1, <2>1 DEF Scanning
  <2>4. n + 1 <= ScanRows
    BY <1>1, <1>2, <1>4
  <2>5. answer'.marked <=> Cut'
    <3>1. DOMAIN answer'.rows = 1 .. n + 1
      BY <1>1, <2>3
    <3>2. \A i \in 1 .. n : answer'.rows[i] = answer.rows[i]
      BY <1>1, <2>1 DEF Scanning
    <3>3. answer'.rows[n + 1] = row
      BY <1>1, <2>1 DEF Scanning
    <3>4. (\E i \in 1 .. n + 1 : answer'.rows[i].size > CellBytes)
          <=> (\E i \in 1 .. n : answer.rows[i].size > CellBytes) \/ row.size > CellBytes
      <4>1. \A i \in 1 .. n + 1 : i \in 1 .. n \/ i = n + 1
        BY <1>1
      <4>2. n + 1 \in 1 .. n + 1 /\ \A i \in 1 .. n : i \in 1 .. n + 1
        BY <1>1
      <4> HIDE DEF n, row
      <4> QED
        BY <3>2, <3>3, <4>1, <4>2
    <3> HIDE DEF n, row
    <3>5. answer.marked <=> \E i \in 1 .. n : answer.rows[i].size > CellBytes
      BY <1>1, <2>1 DEF Scanning, Cut
    <3>6. answer'.marked <=> \E i \in 1 .. n + 1 : answer'.rows[i].size > CellBytes
      BY <2>1, <3>4, <3>5
    <3> QED
      BY <3>1, <3>6 DEF Cut
  <2>6. answer'.marked \in BOOLEAN
    BY <2>1
  <2> QED
    BY <1>1, <2>1, <2>2, <2>3, <2>4, <2>5, <2>6 DEF Scanning
<1> QED
  BY <1>3, <1>4

LEMMA AnswerStep == AnswerInv /\ [QU!Next]_(QU!vars) => AnswerInv'
<1> SUFFICES ASSUME AnswerInv, [QU!Next]_(QU!vars) PROVE AnswerInv'
  OBVIOUS
<1>0. KeyRows \in Nat /\ KeyRows >= 1 /\ ScanRows \in Nat /\ ResultBytes \in Nat
  BY PlausibleCases DEF QU!Plausible
<1>1. CASE QU!Accept
  <2>1. /\ stage = "accept" /\ stage' = "model" /\ req' = req /\ answer' = answer
        /\ Keyed => ir' = [ir EXCEPT !.limit = QU!CapForKey(@)]
    BY <1>1 DEF QU!Accept, QU!Goto, Keyed
  <2>2. ASSUME Keyed PROVE "limit" \in DOMAIN ir' /\ ir'.limit \in 1 .. KeyRows
    BY <1>0, <2>1, <2>2 DEF AnswerInv, Capped, QU!CapForKey
  <2> QED
    BY <2>1, <2>2 DEF AnswerInv, Capped, Keyed
<1>2. CASE QU!AcceptCard
  <2>1. ~Keyed /\ req' = req /\ answer' = answer /\ stage = "accept" /\ stage' \in {"model", "error", "compile"}
    BY <1>2 DEF QU!AcceptCard, QU!Goto, Keyed
  <2> QED
    BY <2>1 DEF AnswerInv, Capped, Keyed
<1>3. CASE Preparing
  <2>1. /\ stage \notin {"accept", "scan", "done"} /\ stage' \notin {"accept", "scan", "done"}
        /\ req' = req /\ answer' = answer
    BY <1>3, PreparingGivesNothing
  <2>2. Keyed => "limit" \in DOMAIN ir' /\ ir'.limit = ir.limit
    BY <1>3, PreparingKeepsLimit DEF AnswerInv, Capped
  <2> QED
    BY <2>1, <2>2 DEF AnswerInv, Capped, Keyed
<1>4. CASE QU!Execute
  <2>1. CASE stage' = "error" /\ UNCHANGED <<req, ir, answer>>
    BY <2>1, <1>4 DEF QU!Execute, AnswerInv, Capped, Keyed
  <2>2. CASE ~(stage' = "error" /\ UNCHANGED <<req, ir, answer>>)
    <3> DEFINE found == QU!Statement(ir, where, args)
    <3>1. /\ stage = "execute" /\ stage' = "scan" /\ UNCHANGED <<req, ir, answer>>
          /\ ~(ir.limit < 0) => given' = QU!Upto(QU!Limit(ir), found)
      BY <1>4, <2>2 DEF QU!Execute, QU!Fail, QU!Goto
    <3>2. answer = QU!NoAnswer
      BY <3>1 DEF AnswerInv
    <3>3. Scanning'
      <4>1. answer'.rows = <<>> /\ answer'.bytes = 0 /\ answer'.marked = FALSE /\ DOMAIN answer' = {"rows", "bytes", "marked"}
        BY <3>1, <3>2 DEF QU!NoAnswer
      <4>2. ~Cut'
        BY <4>1 DEF Cut
      <4>3. answer'.rows \in Seq({given'[i] : i \in DOMAIN given'}) /\ Len(answer'.rows) = 0
        BY <4>1
      <4>4. {"rows", "bytes", "marked"} \subseteq DOMAIN answer' /\ answer'.marked \in BOOLEAN
        BY <4>1
      <4>5. answer'.bytes <= ResultBytes /\ Len(answer'.rows) <= ScanRows
        BY <1>0, <4>1, <4>3
      <4>6. (stage' = "scan" => (answer'.marked <=> Cut')) /\ stage' # "done"
        BY <3>1, <4>1, <4>2
      <4> QED
        BY <4>3, <4>4, <4>5, <4>6 DEF Scanning
    <3>4. ASSUME Keyed PROVE DOMAIN given' \subseteq 1 .. KeyRows
      <4>1. ir.limit \in 1 .. KeyRows
        BY <3>1, <3>4 DEF AnswerInv, Capped
      <4>2. given' = QU!Upto(QU!Limit(ir), found)
        BY <1>0, <3>1, <4>1
      <4>3. DOMAIN given' = DOMAIN found \cap (1 .. QU!Limit(ir))
        BY <4>2 DEF QU!Upto
      <4> HIDE DEF found
      <4> QED
        BY <4>1, <4>3, LimitOfKey
    <3> QED
      BY <3>1, <3>3, <3>4 DEF AnswerInv, Capped, Keyed
  <2> QED
    BY <2>1, <2>2
<1>5. CASE QU!ScanRow
  <2>1. stage = "scan" /\ stage' \in {"scan", "done"} /\ UNCHANGED <<req, ir, given>>
    BY <1>5 DEF QU!ScanRow, QU!Goto
  <2>2. Scanning'
    BY <1>5, <2>1, ScanKeeps DEF AnswerInv
  <2> QED
    BY <2>1, <2>2 DEF AnswerInv, Capped, Keyed
<1>6. CASE QU!ScanEnd
  <2>1. stage = "scan" /\ stage' = "done" /\ UNCHANGED <<req, ir, given, answer>> /\ ~QU!More
    BY <1>6 DEF QU!ScanEnd, QU!Goto
  <2> QED
    BY <2>1 DEF AnswerInv, Capped, Keyed, Scanning, Cut, QU!More
<1>7. CASE QU!Break
  BY <1>7 DEF QU!Break, AnswerInv, Capped, Keyed
<1>8. CASE UNCHANGED QU!vars \/ \E i \in DOMAIN Questions : QU!UpdateQuestion(i)
  <2>1. UNCHANGED <<req, ir, stage, given, answer>>
    BY <1>8 DEF QU!vars, QU!UpdateQuestion
  <2> QED
    BY <2>1 DEF AnswerInv, Capped, Keyed, Scanning, Cut, QU!More
<1> QED
  BY <1>1, <1>2, <1>3, <1>4, <1>5, <1>6, <1>7, <1>8 DEF QU!Next, Preparing

LEMMA AnswerInductive == QU!Spec => []AnswerInv
BY AnswerStarts, AnswerStep, PTL DEF QU!Spec

\* With a key, the number of the last row is one of those given.
LEMMA AnswerPromise == AnswerInv => QU!AnswerWithinLimits
<1> SUFFICES ASSUME AnswerInv, stage = "done" PROVE QU!AnswerWithinLimits
  BY DEF QU!AnswerWithinLimits
<1>1. Scanning
  BY DEF AnswerInv
<1>2. Keyed => Len(answer.rows) <= KeyRows
  <2>1. KeyRows \in Nat
    BY PlausibleCases DEF QU!Plausible
  <2>2. Keyed => DOMAIN given \subseteq 1 .. KeyRows
    BY DEF AnswerInv, Capped
  <2>3. Len(answer.rows) = 0 \/ Len(answer.rows) \in DOMAIN given
    BY <1>1 DEF Scanning
  <2> QED
    BY <2>1, <2>2, <2>3
<1> QED
  BY <1>1, <1>2 DEF Scanning, Cut, Keyed, QU!AnswerWithinLimits

----------------------------------------------------------------------------
(* The first-run setup is right for any number of forms and addresses: the *)
(* primary keys of the two fixed groups do the work of the transaction     *)
(* that CompleteSetup does not open.                                       *)

LEMMA SetupInit == SU!SetupAssumption /\ SU!Init => SU!IInv
<1> SUFFICES ASSUME SU!SetupAssumption, SU!Init PROVE SU!IInv
  OBVIOUS
<1> USE DEF SU!Init
<1>1. SU!TypeOK
  <2>1. pc \in [Procs -> SU!Labels] /\ members \in [SU!Groups -> SUBSET Procs]
    BY DEF SU!Labels
  <2>2. faults \in 0 .. MaxFaults
    BY DEF SU!SetupAssumption
  <2> QED
    BY <2>1, <2>2 DEF SU!TypeOK
<1>2. \A r \in Procs : ~SU!Winner(r) /\ pc[r] = "check"
  BY DEF SU!Winner, SU!Winning, SU!Writing, SU!Finishing
<1>3. SU!OneWinner /\ SU!CompletedIsWhole /\ SU!StuckOnlyAfterFault
  BY <1>2 DEF SU!OneWinner, SU!CompletedIsWhole, SU!StuckOnlyAfterFault
<1>4. \A r \in Procs : SU!StoredBy(r)
  BY <1>2 DEF SU!StoredBy, SU!Winner, SU!Winning, SU!Writing, SU!Finishing
<1>5. SU!AdminsFromWinner
  BY DEF SU!AdminsFromWinner, SU!Groups
<1> QED
  BY <1>1, <1>3, <1>4, <1>5 DEF SU!IInv

\* Types are kept by every step.
LEMMA SetupTypes == SU!SetupAssumption /\ SU!TypeOK /\ [SU!Next]_(SU!vars) => SU!TypeOK'
<1> SUFFICES ASSUME SU!SetupAssumption, SU!TypeOK, [SU!Next]_(SU!vars) PROVE SU!TypeOK'
  OBVIOUS
<1> USE DEF SU!TypeOK, SU!Labels, SU!Writing, SU!Finishing, SU!Ended, SU!Groups, SU!rows
<1>1. ASSUME NEW r \in Procs, SU!Check(r) PROVE SU!TypeOK'
  BY <1>1 DEF SU!Check, SU!Goto
<1>2. ASSUME NEW r \in Procs, SU!CreateUser(r) PROVE SU!TypeOK'
  BY <1>2 DEF SU!CreateUser, SU!Goto
<1>3. ASSUME NEW r \in Procs, SU!CreateGroup(r, "allUsers", "admins") PROVE SU!TypeOK'
  BY <1>3 DEF SU!CreateGroup, SU!Goto
<1>4. ASSUME NEW r \in Procs, SU!CreateGroup(r, "admins", "joinAll") PROVE SU!TypeOK'
  BY <1>4 DEF SU!CreateGroup, SU!Goto
<1>5. ASSUME NEW r \in Procs, SU!AddMember(r, "joinAll", "allUsers", "joinAdmins") PROVE SU!TypeOK'
  BY <1>5 DEF SU!AddMember, SU!Goto
<1>6. ASSUME NEW r \in Procs, SU!AddMember(r, "joinAdmins", "admins", "site") PROVE SU!TypeOK'
  BY <1>6 DEF SU!AddMember, SU!Goto
<1>7. ASSUME NEW r \in Procs, SU!SetSiteName(r) PROVE SU!TypeOK'
  BY <1>7 DEF SU!SetSiteName, SU!Goto
<1>8. ASSUME NEW r \in Procs, SU!SetCompleted(r) PROVE SU!TypeOK'
  BY <1>8 DEF SU!SetCompleted, SU!CompletedSet, SU!Goto
<1>9. ASSUME NEW r \in Procs, SU!ListCollections(r) \/ SU!CreateCollection(r) PROVE SU!TypeOK'
  BY <1>9 DEF SU!ListCollections, SU!CreateCollection, SU!Goto
<1>10. ASSUME NEW r \in Procs, SU!Login(r) PROVE SU!TypeOK'
  <2>1. pc' \in [Procs -> SU!Labels] /\ sessions' \subseteq Procs
    BY <1>10 DEF SU!Login, SU!Goto
  <2>2. faults' \in 0 .. MaxFaults
    BY <1>10 DEF SU!Login, SU!SetupAssumption
  <2> QED
    BY <2>1, <2>2, <1>10 DEF SU!Login
<1>11. ASSUME NEW r \in Procs, SU!Fault(r) PROVE SU!TypeOK'
  <2>1. faults' \in 0 .. MaxFaults
    BY <1>11 DEF SU!Fault, SU!SetupAssumption
  <2> QED
    BY <2>1, <1>11 DEF SU!Fault, SU!Goto
<1>12. ASSUME NEW r \in Procs, SU!Resend(r) PROVE SU!TypeOK'
  BY <1>12 DEF SU!Resend, SU!Goto
<1>13. CASE UNCHANGED SU!vars
  BY <1>13 DEF SU!vars
<1> QED
  BY <1>1, <1>2, <1>3, <1>4, <1>5, <1>6, <1>7, <1>8, <1>9, <1>10, <1>11, <1>12, <1>13
  DEF SU!Next, SU!Step

\* SU!IInv without the types.
FormRest ==
  /\ SU!OneWinner
  /\ \A q \in Procs : SU!StoredBy(q)
  /\ SU!AdminsFromWinner
  /\ SU!CompletedIsWhole
  /\ SU!StuckOnlyAfterFault

\* A request that neither was nor becomes the winner disturbs nothing when it
\* only adds a user and when the faults only grow.
LEMMA LoserStep ==
  ASSUME SU!TypeOK, FormRest, NEW r \in Procs,
         \A q \in Procs : q # r => pc'[q] = pc[q],
         pc'[r] \notin SU!Winning, pc'[r] = "allUsers" => r \in users',
         SU!Winner(r) => faults' > 0,
         users \subseteq users', faults' \in Nat, faults' >= faults,
         UNCHANGED <<groups, members, siteName, completed, collections>>
  PROVE  FormRest'
<1>1. \A q \in Procs : SU!Winner(q)' => SU!Winner(q) /\ q # r /\ pc'[q] = pc[q]
  BY DEF SU!Winner
<1>2. SU!OneWinner'
  BY <1>1 DEF SU!OneWinner, FormRest
<1>3. ASSUME NEW q \in Procs PROVE SU!StoredBy(q)'
  <2>1. CASE SU!Winner(q)'
    BY <2>1, <1>1 DEF SU!StoredBy, FormRest, SU!Winner
  <2>2. CASE ~SU!Winner(q)'
    <3>1. pc'[q] = "allUsers" => q \in users'
      BY DEF SU!StoredBy, FormRest
    <3> QED
      BY <2>2, <3>1 DEF SU!StoredBy, SU!Winner, SU!Winning, SU!Writing, SU!Finishing
  <2> QED
    BY <2>1, <2>2
<1>4. SU!AdminsFromWinner'
  <2>1. \A q \in Procs : pc'[q] \in {"admins", "joinAll", "joinAdmins"} =>
          pc'[q] = pc[q]
    BY <1>1 DEF SU!Winner, SU!Winning, SU!Writing, SU!Finishing
  <2> QED
    BY <2>1 DEF SU!AdminsFromWinner, FormRest
<1>5. SU!CompletedIsWhole'
  BY DEF SU!CompletedIsWhole, FormRest
<1>6. SU!StuckOnlyAfterFault'
  <2> SUFFICES ASSUME groups # {}, ~completed, ~(faults' > 0)
               PROVE  \E q \in Procs : SU!Winner(q)'
    BY DEF SU!StuckOnlyAfterFault
  <2>1. ~(faults > 0)
    BY DEF SU!TypeOK
  <2>2. PICK q \in Procs : SU!Winner(q)
    BY <2>1 DEF SU!StuckOnlyAfterFault, FormRest
  <2>3. q # r
    BY <2>2
  <2> QED
    BY <2>2, <2>3 DEF SU!Winner
<1> QED
  BY <1>2, <1>3, <1>4, <1>5, <1>6 DEF FormRest

\* The winner alone changes the rows that IInv speaks of, and each of its
\* statements stores what the next label promises.
LEMMA FormStep ==
  ASSUME SU!SetupAssumption, SU!TypeOK, FormRest, SU!TypeOK', NEW r \in Procs, SU!Step(r)
  PROVE  FormRest'
<1>0. faults \in Nat
  BY DEF SU!SetupAssumption, SU!TypeOK
<1>1. CASE SU!Check(r)
  <2>1. ~SU!Winner(r) /\ pc'[r] \notin SU!Winning
    BY <1>1 DEF SU!Check, SU!Goto, SU!Winner, SU!Winning, SU!Writing, SU!Finishing, SU!TypeOK
  <2> QED
    BY <1>0, <1>1, <2>1, LoserStep DEF SU!Check, SU!Goto, SU!rows, SU!TypeOK
<1>2. CASE SU!CreateUser(r)
  <2>1. ~SU!Winner(r) /\ pc'[r] \notin SU!Winning
    BY <1>2 DEF SU!CreateUser, SU!Goto, SU!Winner, SU!Winning, SU!Writing, SU!Finishing, SU!TypeOK
  <2> QED
    BY <1>0, <1>2, <2>1, LoserStep DEF SU!CreateUser, SU!Goto, SU!TypeOK
<1>3. CASE SU!CreateGroup(r, "allUsers", "admins")
  <2>1. CASE "allUsers" \in groups
    <3>1. ~SU!Winner(r) /\ pc'[r] \notin SU!Winning
      BY <1>3, <2>1 DEF SU!CreateGroup, SU!GroupTaken, SU!Goto, SU!Winner, SU!Winning, SU!Writing, SU!Finishing, SU!TypeOK
    <3> QED
      BY <1>0, <1>3, <2>1, <3>1, LoserStep DEF SU!CreateGroup, SU!GroupTaken, SU!Goto, SU!TypeOK
  <2>2. CASE "allUsers" \notin groups
    <3>1. \A q \in Procs : ~SU!Winner(q)
      BY <2>2 DEF FormRest, SU!StoredBy
    <3>2. pc' = [pc EXCEPT ![r] = "admins"] /\ groups' = groups \cup {"allUsers"}
      BY <1>3, <2>2 DEF SU!CreateGroup, SU!GroupTaken, SU!Goto
    <3>3. \A q \in Procs : q # r => ~SU!Winner(q)'
      BY <3>1, <3>2 DEF SU!Winner, SU!TypeOK
    <3>4. pc'[r] = "admins" /\ SU!Winner(r)'
      BY <3>2 DEF SU!Winner, SU!TypeOK, SU!Winning, SU!Writing, SU!Finishing
    <3>5. r \in users
      BY <1>3 DEF SU!CreateGroup, FormRest, SU!StoredBy
    <3>6. SU!OneWinner'
      BY <3>3 DEF SU!OneWinner
    <3>7. ASSUME NEW q \in Procs PROVE SU!StoredBy(q)'
      <4>1. CASE q = r
        BY <4>1, <3>2, <3>4, <3>5, <1>3 DEF SU!CreateGroup, SU!StoredBy, SU!Finishing, SU!Winning
      <4>2. CASE q # r
        <5>1. pc'[q] = pc[q] /\ (pc'[q] = "allUsers" => q \in users') /\ ~SU!Winner(q)'
          BY <4>2, <3>2, <3>3, <1>3 DEF SU!CreateGroup, SU!StoredBy, FormRest, SU!TypeOK
        <5> QED
          BY <5>1 DEF SU!StoredBy, SU!Winner, SU!Winning, SU!Writing, SU!Finishing
      <4> QED
        BY <4>1, <4>2
    <3>8. SU!AdminsFromWinner' /\ SU!CompletedIsWhole' /\ SU!StuckOnlyAfterFault'
      <4>1. members["admins"] = {}
        BY <2>2 DEF FormRest, SU!AdminsFromWinner
      <4>2. "admins" \notin groups'
        BY <2>2, <3>2 DEF FormRest, SU!AdminsFromWinner
      <4> QED
        BY <4>1, <4>2, <3>2, <3>4, <1>3
        DEF SU!CreateGroup, FormRest, SU!AdminsFromWinner, SU!CompletedIsWhole, SU!StuckOnlyAfterFault
    <3> QED
      BY <3>6, <3>7, <3>8 DEF FormRest
  <2> QED
    BY <2>1, <2>2
<1>4. CASE SU!CreateGroup(r, "admins", "joinAll")
  <2> USE DEF FormRest, SU!TypeOK, SU!Goto, SU!Groups, SU!rows, SU!OneWinner, SU!StoredBy, SU!AdminsFromWinner,
          SU!CompletedIsWhole, SU!StuckOnlyAfterFault, SU!Winner, SU!Winning, SU!Writing, SU!Finishing
  <2> QED
    BY <1>4 DEF SU!CreateGroup, SU!GroupTaken
<1>5. CASE SU!AddMember(r, "joinAll", "allUsers", "joinAdmins")
  <2> USE DEF FormRest, SU!TypeOK, SU!Goto, SU!Groups, SU!rows, SU!OneWinner, SU!StoredBy, SU!AdminsFromWinner,
          SU!CompletedIsWhole, SU!StuckOnlyAfterFault, SU!Winner, SU!Winning, SU!Writing, SU!Finishing
  <2> QED
    BY <1>5 DEF SU!AddMember
<1>6. CASE SU!AddMember(r, "joinAdmins", "admins", "site")
  <2> USE DEF FormRest, SU!TypeOK, SU!Goto, SU!Groups, SU!rows, SU!OneWinner, SU!StoredBy, SU!AdminsFromWinner,
          SU!CompletedIsWhole, SU!StuckOnlyAfterFault, SU!Winner, SU!Winning, SU!Writing, SU!Finishing
  <2> QED
    BY <1>6 DEF SU!AddMember
<1>7. CASE SU!SetSiteName(r) \/ SU!SetCompleted(r)
  <2> USE DEF FormRest, SU!TypeOK, SU!Goto, SU!Groups, SU!rows, SU!OneWinner, SU!StoredBy, SU!AdminsFromWinner,
          SU!CompletedIsWhole, SU!StuckOnlyAfterFault, SU!Winner, SU!Winning, SU!Writing, SU!Finishing
  <2>1. CASE SU!SetSiteName(r)
    BY <2>1 DEF SU!SetSiteName
  <2>2. CASE SU!SetCompleted(r)
    BY <2>2 DEF SU!SetCompleted, SU!CompletedSet
  <2> QED
    BY <1>7, <2>1, <2>2
<1>8. CASE SU!ListCollections(r) \/ SU!CreateCollection(r) \/ SU!Login(r)
  <2> USE DEF FormRest, SU!TypeOK, SU!Goto, SU!Groups, SU!rows, SU!OneWinner, SU!StoredBy, SU!AdminsFromWinner,
          SU!CompletedIsWhole, SU!StuckOnlyAfterFault, SU!Winner, SU!Winning, SU!Writing, SU!Finishing
  <2>1. CASE SU!ListCollections(r)
    BY <2>1 DEF SU!ListCollections
  <2>2. CASE SU!CreateCollection(r)
    BY <2>2 DEF SU!CreateCollection
  <2>3. CASE SU!Login(r)
    BY <1>0, <2>3 DEF SU!Login
  <2> QED
    BY <1>8, <2>1, <2>2, <2>3
<1> QED
  BY <1>1, <1>2, <1>3, <1>4, <1>5, <1>6, <1>7, <1>8 DEF SU!Step

\* A statement that fails and a form sent again touch no row.
LEMMA FaultStep ==
  ASSUME SU!SetupAssumption, SU!TypeOK, FormRest, NEW r \in Procs, SU!Fault(r) \/ SU!Resend(r)
  PROVE  FormRest'
<1>0. faults \in Nat
  BY DEF SU!SetupAssumption, SU!TypeOK
<1>1. CASE SU!Fault(r)
  BY <1>0, <1>1, LoserStep
  DEF SU!Fault, SU!Goto, SU!rows, SU!TypeOK, SU!Winning, SU!Writing, SU!Finishing
<1>2. CASE SU!Resend(r)
  <2>1. ~SU!Winner(r) /\ pc'[r] \notin SU!Winning /\ pc'[r] # "allUsers"
    BY <1>2 DEF SU!Resend, SU!Goto, SU!Winner, SU!Winning, SU!Writing, SU!Finishing, SU!TypeOK
  <2> QED
    BY <1>0, <1>2, <2>1, LoserStep DEF SU!Resend, SU!Goto, SU!rows, SU!TypeOK
<1> QED
  BY <1>1, <1>2

\* IInv is inductive.
LEMMA SetupInductive == SU!SetupAssumption /\ SU!IInv /\ [SU!Next]_(SU!vars) => SU!IInv'
<1> SUFFICES ASSUME SU!SetupAssumption, SU!IInv, [SU!Next]_(SU!vars) PROVE SU!IInv'
  OBVIOUS
<1>1. SU!TypeOK /\ FormRest
  BY DEF SU!IInv, FormRest
<1>2. SU!TypeOK'
  BY <1>1, SetupTypes
<1>3. FormRest'
  <2>1. ASSUME NEW r \in Procs, SU!Step(r) PROVE FormRest'
    BY <1>1, <1>2, <2>1, FormStep
  <2>2. ASSUME NEW r \in Procs, SU!Fault(r) \/ SU!Resend(r) PROVE FormRest'
    BY <1>1, <2>2, FaultStep
  <2>3. CASE UNCHANGED SU!vars
    BY <1>1, <2>3 DEF SU!vars, FormRest, SU!OneWinner, SU!StoredBy, SU!AdminsFromWinner,
       SU!CompletedIsWhole, SU!StuckOnlyAfterFault, SU!Winner
  <2> QED
    BY <2>1, <2>2, <2>3 DEF SU!Next
<1> QED
  BY <1>2, <1>3 DEF SU!IInv, FormRest

\* The whole invariant, for any number of forms, addresses and failures.
THEOREM SetupCorrect == SU!Spec => []SU!IInv
<1>1. SU!Init => SU!IInv
  BY SetupInit, PlausibleCases
<1>2. SU!IInv /\ [SU!Next]_(SU!vars) => SU!IInv'
  BY SetupInductive, PlausibleCases
<1> QED
  BY <1>1, <1>2, PTL DEF SU!Spec

----------------------------------------------------------------------------
(* The other parts of the server.  A behaviour is of one part and, as that, *)
(* one of its module: what is proved of the module holds of it.            *)

LEMMA PartStays == [AnyNext]_allVars => part' = part
BY DEF AnyNext, SignInStep, GroupsStep, PublishingStep, CollectionsStep, CatalogStep, TransferStep, AccountsStep, SetupStep, QueryStep, allVars

LEMMA SignInPart ==
  AnySpec => [](part # "signIn") \/ ([](part = "signIn") /\ SI!Spec)
<1> DEFINE Here == part = "signIn"
<1>1. AnyInit => ~Here \/ (Here /\ SI!Init)
  BY DEF AnyInit
<1>2. Here /\ [AnyNext]_allVars => Here' /\ [SI!Next]_(SI!vars)
  <2>1. CASE UNCHANGED allVars
    BY <2>1 DEF allVars, procVars, tellVars, signInVars, groupVars, boardVars, transferVars, SI!vars
  <2>2. CASE Here /\ AnyNext
    BY <2>2, PartStays DEF AnyNext, SignInStep, GroupsStep, PublishingStep, CollectionsStep, CatalogStep, TransferStep, AccountsStep, SetupStep, QueryStep
  <2> QED
    BY <2>1, <2>2
<1>3. ~Here /\ [AnyNext]_allVars => ~Here'
  BY PartStays
<1>4. (~Here <=> part # "signIn") /\ (Here <=> part = "signIn")
  OBVIOUS
<1> HIDE DEF Here
<1> QED
  BY <1>1, <1>2, <1>3, <1>4, PTL DEF AnySpec, SI!Spec

LEMMA GroupsPart ==
  AnySpec => [](part # "groups") \/ ([](part = "groups") /\ GR!Spec)
<1> DEFINE Here == part = "groups"
<1>1. AnyInit => ~Here \/ (Here /\ GR!Init)
  BY DEF AnyInit
<1>2. Here /\ [AnyNext]_allVars => Here' /\ [GR!Next]_(GR!vars)
  <2>1. CASE UNCHANGED allVars
    BY <2>1 DEF allVars, procVars, tellVars, signInVars, groupVars, boardVars, transferVars, GR!vars, GR!rows
  <2>2. CASE Here /\ AnyNext
    BY <2>2, PartStays DEF AnyNext, SignInStep, GroupsStep, PublishingStep, CollectionsStep, CatalogStep, TransferStep, AccountsStep, SetupStep, QueryStep
  <2> QED
    BY <2>1, <2>2
<1>3. ~Here /\ [AnyNext]_allVars => ~Here'
  BY PartStays
<1>4. (~Here <=> part # "groups") /\ (Here <=> part = "groups")
  OBVIOUS
<1> HIDE DEF Here
<1> QED
  BY <1>1, <1>2, <1>3, <1>4, PTL DEF AnySpec, GR!Spec

LEMMA PublishingPart ==
  AnySpec => [](part # "publishing") \/ ([](part = "publishing") /\ PU!Spec)
<1> DEFINE Here == part = "publishing"
<1>1. AnyInit => ~Here \/ (Here /\ PU!Init)
  BY DEF AnyInit
<1>2. Here /\ [AnyNext]_allVars => Here' /\ [PU!Next]_(PU!vars)
  <2>1. CASE UNCHANGED allVars
    BY <2>1 DEF allVars, procVars, tellVars, signInVars, groupVars, boardVars, transferVars, PU!vars, PU!rows
  <2>2. CASE Here /\ AnyNext
    BY <2>2, PartStays DEF AnyNext, SignInStep, GroupsStep, PublishingStep, CollectionsStep, CatalogStep, TransferStep, AccountsStep, SetupStep, QueryStep
  <2> QED
    BY <2>1, <2>2
<1>3. ~Here /\ [AnyNext]_allVars => ~Here'
  BY PartStays
<1>4. (~Here <=> part # "publishing") /\ (Here <=> part = "publishing")
  OBVIOUS
<1> HIDE DEF Here
<1> QED
  BY <1>1, <1>2, <1>3, <1>4, PTL DEF AnySpec, PU!Spec

LEMMA TransferPart ==
  AnySpec => [](part # "transfer") \/ ([](part = "transfer") /\ TR!Spec)
<1> DEFINE Here == part = "transfer"
<1>1. AnyInit => ~Here \/ (Here /\ TR!Init)
  BY DEF AnyInit
<1>2. Here /\ [AnyNext]_allVars => Here' /\ [TR!Next]_(TR!vars)
  <2>1. CASE UNCHANGED allVars
    BY <2>1 DEF allVars, procVars, tellVars, signInVars, groupVars, boardVars, transferVars, TR!vars, TR!db, TR!mine
  <2>2. CASE Here /\ AnyNext
    BY <2>2, PartStays DEF AnyNext, SignInStep, GroupsStep, PublishingStep, CollectionsStep, CatalogStep, TransferStep, AccountsStep, SetupStep, QueryStep
  <2> QED
    BY <2>1, <2>2
<1>3. ~Here /\ [AnyNext]_allVars => ~Here'
  BY PartStays
<1>4. (~Here <=> part # "transfer") /\ (Here <=> part = "transfer")
  OBVIOUS
<1> HIDE DEF Here
<1> QED
  BY <1>1, <1>2, <1>3, <1>4, PTL DEF AnySpec, TR!Spec

LEMMA AccountsPart ==
  AnySpec => [](part # "accounts") \/ ([](part = "accounts") /\ AC!Spec)
<1> DEFINE Here == part = "accounts"
<1>1. AnyInit => ~Here \/ (Here /\ AC!Init)
  BY DEF AnyInit
<1>2. Here /\ [AnyNext]_allVars => Here' /\ [AC!Next]_(AC!vars)
  <2>1. CASE UNCHANGED allVars
    BY <2>1 DEF allVars, procVars, accountVars, AC!vars
  <2>2. CASE Here /\ AnyNext
    BY <2>2, PartStays DEF AnyNext, SignInStep, GroupsStep, PublishingStep, CollectionsStep, CatalogStep, TransferStep, AccountsStep, SetupStep, QueryStep
  <2> QED
    BY <2>1, <2>2
<1>3. ~Here /\ [AnyNext]_allVars => ~Here'
  BY PartStays
<1>4. (~Here <=> part # "accounts") /\ (Here <=> part = "accounts")
  OBVIOUS
<1> HIDE DEF Here
<1> QED
  BY <1>1, <1>2, <1>3, <1>4, PTL DEF AnySpec, AC!Spec

LEMMA CatalogPart ==
  AnySpec => [](part # "catalog") \/ ([](part = "catalog") /\ CA!Spec)
<1> DEFINE Here == part = "catalog"
<1>1. AnyInit => ~Here \/ (Here /\ CA!Init)
  BY DEF AnyInit
<1>2. Here /\ [AnyNext]_allVars => Here' /\ [CA!Next]_(CA!vars)
  <2>1. CASE UNCHANGED allVars
    BY <2>1 DEF allVars, procVars, catalogVars, CA!vars, CA!tables, CA!startup, CA!history
  <2>2. CASE Here /\ AnyNext
    BY <2>2, PartStays DEF AnyNext, SignInStep, GroupsStep, PublishingStep, CollectionsStep, CatalogStep, TransferStep, AccountsStep, SetupStep, QueryStep
  <2> QED
    BY <2>1, <2>2
<1>3. ~Here /\ [AnyNext]_allVars => ~Here'
  BY PartStays
<1>4. (~Here <=> part # "catalog") /\ (Here <=> part = "catalog")
  OBVIOUS
<1> HIDE DEF Here
<1> QED
  BY <1>1, <1>2, <1>3, <1>4, PTL DEF AnySpec, CA!Spec

LEMMA SetupPart ==
  AnySpec => [](part # "setup") \/ ([](part = "setup") /\ SU!Spec)
<1> DEFINE Here == part = "setup"
<1>1. AnyInit => ~Here \/ (Here /\ SU!Init)
  BY DEF AnyInit
<1>2. Here /\ [AnyNext]_allVars => Here' /\ [SU!Next]_(SU!vars)
  <2>1. CASE UNCHANGED allVars
    BY <2>1 DEF allVars, procVars, groupVars, accountVars, setupVars, SU!vars
  <2>2. CASE Here /\ AnyNext
    BY <2>2, PartStays DEF AnyNext, SignInStep, GroupsStep, PublishingStep, CollectionsStep, CatalogStep, TransferStep, AccountsStep, SetupStep, QueryStep
  <2> QED
    BY <2>1, <2>2
<1>3. ~Here /\ [AnyNext]_allVars => ~Here'
  BY PartStays
<1>4. (~Here <=> part # "setup") /\ (Here <=> part = "setup")
  OBVIOUS
<1> HIDE DEF Here
<1> QED
  BY <1>1, <1>2, <1>3, <1>4, PTL DEF AnySpec, SU!Spec

LEMMA QueryPart ==
  AnySpec => [](part # "query") \/ ([](part = "query") /\ QU!Spec)
<1> DEFINE Here == part = "query"
<1>1. AnyInit => ~Here \/ (Here /\ QU!Init)
  BY DEF AnyInit
<1>2. Here /\ [AnyNext]_allVars => Here' /\ [QU!Next]_(QU!vars)
  <2>1. CASE UNCHANGED allVars
    BY <2>1 DEF allVars, procVars, queryVars, QU!vars
  <2>2. CASE Here /\ AnyNext
    BY <2>2, PartStays DEF AnyNext, SignInStep, GroupsStep, PublishingStep, CollectionsStep, CatalogStep, TransferStep, AccountsStep, SetupStep, QueryStep
  <2> QED
    BY <2>1, <2>2
<1>3. ~Here /\ [AnyNext]_allVars => ~Here'
  BY PartStays
<1>4. (~Here <=> part # "query") /\ (Here <=> part = "query")
  OBVIOUS
<1> HIDE DEF Here
<1> QED
  BY <1>1, <1>2, <1>3, <1>4, PTL DEF AnySpec, QU!Spec

(* An external account belongs to one member, whatever logins, bindings    *)
(* and unbindings overlap (identity/service.go:679).                       *)
THEOREM AccountsAreOneMembers == AnySpec => []LinkedOnce
<1>1. SI!Spec => []SI!LinkedOnce
  BY OneMemberPerAccount
<1>2. SI!LinkedOnce \/ part # "signIn" => LinkedOnce
  BY DEF LinkedOnce
<1> QED
  BY <1>1, <1>2, SignInPart, PTL

(* The stored bindings are the acknowledged ones, and password login is on *)
(* or a provider is usable, unless a save rested on what a rival had       *)
(* changed since (identity/service.go:679, httpapi/subscribe.go:158, 210). *)
THEOREM SignInIsKept == AnySpec => []SignInKeptOrOverlap
<1>1. SI!Spec => []SI!SignInKeptOrOverlap
  BY SomeWayIsLeft, PlausibleCases
<1>2. SI!SignInKeptOrOverlap \/ part # "signIn" => SignInKeptOrOverlap
  BY DEF SignInKeptOrOverlap
<1> QED
  BY <1>1, <1>2, SignInPart, PTL

(* Lists of members, the permission graph and the project rules are what   *)
(* the saves asked for, unless two overlapped, one failed half-way, what it *)
(* stores again could not be read or an error of one of its statements was *)
(* dropped (appdb/w4b.go:33, org.go:28 and 60, identity/service.go:244,    *)
(* httpapi/identity.go:318 and 369).                                       *)
THEOREM GroupsStayAsSaved == AnySpec => []GroupsAsSavedOrOverlap
<1>1. GR!Spec => []GR!GroupsAsSavedOrOverlap
  BY GR!GroupsAreAsSaved, PlausibleCases
<1>2. GR!GroupsAsSavedOrOverlap \/ part # "groups" => GroupsAsSavedOrOverlap
  BY DEF GroupsAsSavedOrOverlap
<1> QED
  BY <1>1, <1>2, GroupsPart, PTL

(* The answer of a permission check was the truth at some moment of it     *)
(* (identity/service.go:446).                                              *)
THEOREM ChecksAreOfAMoment == AnySpec => []DecidedOnSomeMoment
<1>1. GR!Spec => []GR!DecidedOnSomeMoment
  BY GR!ChecksAnswerForAMoment, PlausibleCases
<1>2. GR!DecidedOnSomeMoment \/ part # "groups" => DecidedOnSomeMoment
  BY DEF DecidedOnSomeMoment
<1> QED
  BY <1>1, <1>2, GroupsPart, PTL

(* No dashboard can be embedded that has no public link                    *)
(* (content/dashboard.go:85).                                              *)
THEOREM EmbeddedHasALink == AnySpec => []EmbedNeedsLink
<1>1. PU!Spec => []PU!EmbedNeedsLink
  BY EmbeddedIsPublished, PlausibleCases
<1>2. PU!EmbedNeedsLink \/ part # "publishing" => EmbedNeedsLink
  BY DEF EmbedNeedsLink
<1> QED
  BY <1>1, <1>2, PublishingPart, PTL

(* A dashboard is a document somebody stored, its link is what the last    *)
(* enable or disable said, unless two stores overlapped                    *)
(* (content/dashboard.go:75).                                              *)
THEOREM BoardsStayAsAsked == AnySpec => []BoardAsAskedOrOverlap
<1>1. PU!Spec => []PU!BoardAsAskedOrOverlap
  BY BoardsAreAsAsked, PlausibleCases
<1>2. PU!BoardAsAskedOrOverlap \/ part # "publishing" => BoardAsAskedOrOverlap
  BY DEF BoardAsAskedOrOverlap
<1> QED
  BY <1>1, <1>2, PublishingPart, PTL

(* A visitor is shown what was published at some moment of the visit       *)
(* (httpapi/dashboard.go:303).                                             *)
THEOREM VisitsAreOfAMoment == AnySpec => []VisitOnSomeMoment
<1>1. PU!Spec => []PU!VisitOnSomeMoment
  BY VisitorsAreToldAMoment, PlausibleCases
<1>2. PU!VisitOnSomeMoment \/ part # "publishing" => VisitOnSomeMoment
  BY DEF VisitOnSomeMoment
<1> QED
  BY <1>1, <1>2, PublishingPart, PTL

(* What a transfer commits is the source as it was at one moment, and so is *)
(* what an export writes, but for the end of a table whose read broke off  *)
(* without an error (appdb/transfer.go:46, 221-239).                       *)
THEOREM CopyIsOfOneMoment == AnySpec => []CopiesOneMoment
<1>1. TR!Spec => []TR!CopiesOneMoment
  BY CopiesAreOfOneMoment, PlausibleCases
<1>2. TR!CopiesOneMoment \/ part # "transfer" => CopiesOneMoment
  BY DEF CopiesOneMoment
<1> QED
  BY <1>1, <1>2, TransferPart, PTL

(* The source is transferred to one target, unless two transfers           *)
(* overlapped or one died before it was marked (appdb/transfer.go:46).     *)
THEOREM OneTargetIsUsed == AnySpec => []OneTargetOrOverlap
<1>1. TR!Spec => []TR!OneTargetOrOverlap
  BY TransferredOnce
<1>2. TR!OneTargetOrOverlap \/ part # "transfer" => OneTargetOrOverlap
  BY DEF OneTargetOrOverlap
<1> QED
  BY <1>1, <1>2, TransferPart, PTL

(* No step takes the last way to sign in from a member who has one, unless *)
(* another request changed the ways meanwhile or the setting that the check *)
(* starts from could not be read (httpapi/profile.go:133); a provider saved *)
(* again keeps its secret, unless the stored one could not be read or       *)
(* changed meanwhile (httpapi/subscribe.go:217).                            *)
THEOREM NobodyIsLockedOut == AnySpec => LastSignInKeptOrOverlap
<1> DEFINE WaysKept == SI!LastSignInKept /\ SI!SecretsKept
<1>1. SI!Spec => [][WaysKept]_(SI!vars)
  BY NobodyLocksThemselvesOut, PlausibleCases DEF SI!LastSignInKeptOrOverlap
<1>2. part = "signIn" /\ [AnyNext]_allVars /\ [WaysKept]_(SI!vars) => [part = "signIn" => WaysKept]_allVars
  <2> SUFFICES ASSUME part = "signIn", AnyNext, UNCHANGED SI!vars PROVE UNCHANGED allVars
    OBVIOUS
  <2>1. SignInStep
    BY DEF AnyNext, SignInStep, GroupsStep, PublishingStep, CollectionsStep, CatalogStep, TransferStep, AccountsStep, SetupStep, QueryStep
  <2> QED
    BY <2>1 DEF SignInStep, IdleData, allVars, procVars, tellVars, signInVars, groupVars, setupVars, queryVars, SI!vars
<1>3. part # "signIn" /\ [AnyNext]_allVars => [part = "signIn" => WaysKept]_allVars
  OBVIOUS
<1>4. LastSignInKeptOrOverlap <=> [][part = "signIn" => WaysKept]_allVars
  BY DEF LastSignInKeptOrOverlap
<1> HIDE DEF WaysKept
<1> QED
  BY <1>1, <1>2, <1>3, <1>4, SignInPart, PTL DEF AnySpec

(* Only the directory's sync changes a department and only an invitation   *)
(* everybody's group (identity/service.go:349).                            *)
THEOREM OwnersAloneChange == AnySpec => OwnedMembershipsStay
<1>1. GR!Spec => [][GR!OwnerChanges]_(GR!vars)
  BY GR!OwnersChangeMembers, PlausibleCases DEF GR!OwnedMembershipsStay
<1>2. part = "groups" /\ [AnyNext]_allVars /\ [GR!OwnerChanges]_(GR!vars) => [part = "groups" => GR!OwnerChanges]_allVars
  <2> SUFFICES ASSUME part = "groups", AnyNext, UNCHANGED GR!vars PROVE UNCHANGED allVars
    OBVIOUS
  <2>1. GroupsStep
    BY DEF AnyNext, SignInStep, GroupsStep, PublishingStep, CollectionsStep, CatalogStep, TransferStep, AccountsStep, SetupStep, QueryStep
  <2> QED
    BY <2>1 DEF GroupsStep, IdleData, allVars, procVars, tellVars, signInVars, groupVars, setupVars, queryVars, GR!vars, GR!rows
<1>3. part # "groups" /\ [AnyNext]_allVars => [part = "groups" => GR!OwnerChanges]_allVars
  OBVIOUS
<1> QED
  BY <1>1, <1>2, <1>3, GroupsPart, PTL DEF AnySpec, OwnedMembershipsStay

(* An instance that answers that setup is completed has one administrator,  *)
(* one person's groups and site name, however many forms were sent at once  *)
(* and whichever statements failed (identity/service.go:32).                *)
THEOREM SetupIsWhole == AnySpec => []CompletedIsWhole
<1>1. SU!IInv => SU!CompletedIsWhole
  BY DEF SU!IInv
<1>2. SU!CompletedIsWhole \/ part # "setup" => CompletedIsWhole
  BY DEF CompletedIsWhole
<1> QED
  BY <1>1, <1>2, SetupCorrect, SetupPart, PTL

(* An answer has no more rows and bytes than the limits allow, nor more    *)
(* rows than a key may ask for, and is marked exactly when the scanner left *)
(* a row out or cut a cell (query/service.go, adapters/query_limits.go:60). *)
THEOREM AnswersAreWithinLimits == AnySpec => []AnswerWithinLimits
<1>1. QU!AnswerWithinLimits \/ part # "query" => AnswerWithinLimits
  BY DEF AnswerWithinLimits
<1> QED
  BY <1>1, AnswerInductive, AnswerPromise, QueryPart, PTL

(* Who is let through had a session or a key that held at a moment of the  *)
(* request, and with a key what a key needs, although every layer looks    *)
(* the credential up anew (httpapi/access.go, identity/service.go).        *)
THEOREM LetThroughAtSomeMoment == AnySpec => []AdmittedOnSomeMoment
<1>1. AC!AdmittedOnSomeMoment \/ part # "accounts" => AdmittedOnSomeMoment
  BY DEF AdmittedOnSomeMoment
<1> QED
  BY <1>1, AccountsInductive, AccountsPromise, AccountsPart, PTL

(* A password, an address and a key change with what they need at a moment *)
(* of the request, a key without end only if the settings said so          *)
(* (identity/service.go:331, :392).                                        *)
THEOREM ChangesAreAllowed == AnySpec => []ChangedAsAllowedOnSomeMoment
<1>1. AC!ChangedAsAllowedOnSomeMoment \/ part # "accounts" => ChangedAsAllowedOnSomeMoment
  BY DEF ChangedAsAllowedOnSomeMoment
<1> QED
  BY <1>1, AccountsInductive, AccountsPromise, AccountsPart, PTL

(* A data source that nobody works on is listed with the settings it is    *)
(* reached by, or gone with all its rows, unless the last to change it     *)
(* failed half-way, died or was not alone (core/catalog.go:97, :144, :207).*)
THEOREM SourcesAreWhole == AnySpec => []WholeOrDirty
<1>1. CA!WholeOrDirty \/ part # "catalog" => WholeOrDirty
  BY DEF WholeOrDirty
<1> QED
  BY <1>1, CatalogInductive, CatalogPromise, CatalogPart, PTL

(* An open connection shows the settings saved, unless those were saved at *)
(* another node or the source is dirty (core/catalog.go:207,               *)
(* httpapi/server.go:356).                                                 *)
THEOREM ConnectionsShowWhatIsSaved == AnySpec => []ConnectedAsSavedOrElsewhere
<1>1. CA!ConnectedAsSavedOrElsewhere \/ part # "catalog" => ConnectedAsSavedOrElsewhere
  BY DEF ConnectedAsSavedOrElsewhere
<1> QED
  BY <1>1, CatalogInductive, CatalogPromise, CatalogPart, PTL

(* A start stores settings of a former version over those of somebody only *)
(* when they were saved after it looked for them (httpapi/server.go:106).  *)
THEOREM StartsFillGaps == AnySpec => ImportsOnlyMissingOrOverlap
<1>1. CatalogInv => CA!ImportFillsGaps
  BY ImportPromise
<1>2. part = "catalog" /\ CatalogInv => (part = "catalog" => CA!ImportFillsGaps)
  BY <1>1
<1>3. part # "catalog" => (part = "catalog" => CA!ImportFillsGaps)
  OBVIOUS
<1> QED
  BY <1>2, <1>3, CatalogInductive, CatalogPart, PTL DEF AnySpec, ImportsOnlyMissingOrOverlap
=============================================================================
