----------------------------- MODULE Publishing -----------------------------
(***************************************************************************)
(* Dashboards: creating, editing, copying, archiving, publishing under a   *)
(* link and embedding (internal/app/content/dashboard.go, the handlers in  *)
(* internal/platform/httpapi/dashboard.go, the tables in                   *)
(* internal/adapters/appdb/w2.go).                                         *)
(*                                                                         *)
(* A dashboard is read by one SELECT for its row and one each for its tabs *)
(* and cards, and stored whole by one transaction; the archive flag has a  *)
(* statement of its own.  A process is one request whose access has been   *)
(* checked; mem is the dashboard it works with.  A link is a set: empty, or *)
(* one token, which is the process that made it.                           *)
(***************************************************************************)
EXTENDS Integers

CONSTANTS
  Procs, Requests,
  Boards,    \* identifiers of dashboards
  Tabs,
  NoTab,     \* the tab of a card that names none
  Starts     \* the rows the model starts from

VARIABLES
  boards,    \* boards[b]: the rows of dashboard b
  switches,  \* admin_settings: sharing, embedding
  revisions, \* revisions[b]: the last snapshot recorded of b
  req, pc, mem,
  fresh,     \* history: fresh[p] # {} while nobody stored p's dashboard since p read it
  raced,     \* history: dashboards stored over a rival's, or with a revision left out
  word,      \* history: word[b], the link the last enable or disable left
  truth,     \* history: truth[p], what a visitor should have been told, at any moment
  changes    \* history: changes[p], the writes during a visit, 2 for several

rows == <<boards, switches, revisions>>
vars == <<rows, req, pc, mem, fresh, raced, word, truth, changes>>

\* A new dashboard is private: CreateDashboard and DuplicateDashboard.
Private(text, tabs, cards) ==
  [uuid |-> {}, embed |-> FALSE, archived |-> FALSE, text |-> text, tabs |-> tabs, cards |-> cards]

Init ==
  /\ \E s \in Starts : boards = s.boards /\ switches = s.switches
  /\ revisions = boards
  /\ req \in [Procs -> Requests]
  /\ pc = [p \in Procs |-> "begin"]
  /\ mem = [p \in Procs |-> Private(0, {}, {})]
  /\ fresh = [p \in Procs |-> {}] /\ raced = {}
  /\ word = [b \in DOMAIN boards |-> boards[b].uuid]
  /\ truth = [p \in Procs |-> {}] /\ changes = [p \in Procs |-> 0]

At(p, kinds, label) == req[p].kind \in kinds /\ pc[p] = label
Goto(p, label) == pc' = [pc EXCEPT ![p] = label]
Answer(p, label) == Goto(p, label) /\ UNCHANGED <<rows, req, mem, fresh, raced, word>>

Board(p) == boards[req[p].board]
Id(p) == req[p].board

\* Fields of the row of p's dashboard, read into mem by one SELECT.
Load(p, fields, label) ==
  /\ mem' = [mem EXCEPT ![p] = [f \in DOMAIN @ |-> IF f \in fields THEN Board(p)[f] ELSE @[f]]]
  /\ Goto(p, label)
  /\ UNCHANGED <<rows, req, raced, word>>

----------------------------------------------------------------------------
(* The document.                                                          *)

\* Variant: a card without a tab stays without one.
NormalizedTabsOnly(d) == [d EXCEPT !.tabs = IF @ = {} THEN {CHOOSE t \in Tabs : TRUE} ELSE @]

\* normalizeDashboard: there is a tab, and a card that names none is on it.
Normalized(d) ==
  LET tabs == IF d.tabs = {} THEN {CHOOSE t \in Tabs : TRUE} ELSE d.tabs IN
  [d EXCEPT !.tabs = tabs,
            !.cards = (@ \ {NoTab}) \cup (IF NoTab \in @ THEN {CHOOSE t \in tabs : TRUE} ELSE {})]

\* Variant: the snapshot is of the dashboard as it was sent.
SnapshotAsSent(d) == d

Snapshot(d) == Normalized(d)

\* saveDashboard, one transaction: every field of d but the archive flag.
\* overlapped: what d was made of may have changed since it was read.
Store(p, b, d, left, overlapped) ==
  LET late == \E q \in Procs \ {p} : req[q].kind # "visit" /\ Id(q) = b /\ pc[q] = "revision" IN
  /\ boards' = [x \in DOMAIN boards \cup {b} |->
                  IF x # b THEN boards[x]
                  ELSE IF x \in DOMAIN boards THEN [Normalized(d) EXCEPT !.archived = boards[x].archived]
                  ELSE Normalized(d)]
  /\ mem' = [mem EXCEPT ![p] = Snapshot(d)]
  /\ raced' = raced \cup (IF overlapped \/ late THEN {b} ELSE {})
  /\ fresh' = [q \in Procs |-> IF Id(q) = b THEN {} ELSE fresh[q]]
  /\ word' = [x \in DOMAIN boards' |-> IF x = b THEN left ELSE word[x]]
  /\ req' = [req EXCEPT ![p].board = b]
  /\ Goto(p, "revision")
  /\ UNCHANGED <<switches, revisions>>

\* recordRevision: a statement of its own, whose error is ignored; the process
\* may die before it.
RecordRevision(p) ==
  /\ pc[p] = "revision"
  /\ \/ revisions' = [b \in DOMAIN boards |-> IF b = Id(p) THEN mem[p] ELSE
                        IF b \in DOMAIN revisions THEN revisions[b] ELSE boards[b]] /\ raced' = raced
     \/ revisions' = revisions /\ raced' = raced \cup {Id(p)}
  /\ Goto(p, "done")
  /\ UNCHANGED <<boards, switches, req, mem, fresh, word>>

----------------------------------------------------------------------------
(* Creating, copying and editing.                                         *)

Unused == Boards \ DOMAIN boards

CreateDashboard(p) ==
  /\ At(p, {"create"}, "begin")
  /\ \E b \in Unused : Store(p, b, Private(req[p].text, req[p].tabs, req[p].cards), {}, FALSE)

\* ByID: the row, the tabs, the cards (and the filters).
ByID(p) ==
  LET kinds == {"enable", "disable", "embed", "copy"} IN
  \/ At(p, kinds, "row") /\ Load(p, {"uuid", "embed", "archived", "text"}, "tabs")
     /\ fresh' = [fresh EXCEPT ![p] = {"board"}]
  \/ At(p, kinds, "tabs") /\ Load(p, {"tabs"}, "cards") /\ UNCHANGED fresh
  \/ At(p, kinds, "cards") /\ Load(p, {"cards"}, "loaded") /\ UNCHANGED fresh

\* DuplicateDashboard: tabs, cards and filters get new identifiers; a card on a
\* tab that was not read keeps the old one.
DuplicateDashboard(p) ==
  \/ At(p, {"copy"}, "begin") /\ Answer(p, "row")
  \/ /\ At(p, {"copy"}, "loaded")
     /\ \E b \in Unused : Store(p, b, Private(mem[p].text, mem[p].tabs, mem[p].cards), {},
                                 fresh[p] = {} \/ Id(p) \in raced)

\* The handler updateDashboard: link and embedding are those that the access
\* check read, the document is the page's.
EditDashboard(p) ==
  /\ At(p, {"edit"}, "begin")
  /\ mem' = [mem EXCEPT ![p] = [Board(p) EXCEPT !.text = req[p].text, !.tabs = req[p].tabs, !.cards = req[p].cards]]
  /\ fresh' = [fresh EXCEPT ![p] = {"board"}]
  /\ Goto(p, "update")
  /\ UNCHANGED <<rows, req, raced, word>>

\* Variant: an absent link is kept, wanted or not.
LinkLeftKept(link, unwanted, existing) == IF link = {} \/ unwanted THEN existing ELSE link

\* PublicUUID of an update: empty for the link there is, "-" for none.
LinkLeft(link, unwanted, existing) ==
  CASE unwanted -> {}
    [] ~unwanted /\ link = {} -> existing
    [] OTHER -> link

\* UpdateDashboard: the row is read once more, for the archive flag and a link.
UpdateDashboard(p) ==
  LET link == LinkLeft(mem[p].uuid, req[p].kind = "disable", Board(p).uuid) IN
  \/ /\ At(p, {"edit", "enable", "disable", "embed"}, "update") /\ Board(p).archived
     /\ Answer(p, "refused")
  \/ /\ At(p, {"edit", "enable", "disable", "embed"}, "update") /\ ~Board(p).archived
     /\ mem' = [mem EXCEPT ![p].uuid = link]
     /\ Goto(p, "store")
     /\ UNCHANGED <<rows, req, fresh, raced, word>>
  \/ /\ At(p, {"edit", "enable", "disable", "embed"}, "store")
     /\ Store(p, Id(p), mem[p], CASE req[p].kind = "enable" -> mem[p].uuid
                                                 [] req[p].kind = "disable" -> {}
                                                 [] OTHER -> word[Id(p)],
                           fresh[p] = {})

\* ArchiveDashboard and RestoreDashboard.
SetArchived(p) ==
  /\ At(p, {"archive", "restore"}, "begin")
  /\ boards' = [boards EXCEPT ![Id(p)].archived = req[p].kind = "archive"]
  /\ Goto(p, "done")
  /\ UNCHANGED <<switches, revisions, req, mem, fresh, raced, word>>

----------------------------------------------------------------------------
(* Publishing.                                                            *)

SaveAdminSettings(p) ==
  /\ At(p, {"settings"}, "begin")
  /\ switches' = req[p].switches
  /\ Goto(p, "done")
  /\ UNCHANGED <<boards, revisions, req, mem, fresh, raced, word>>

\* enableDashboardPublicLink: a dashboard that has a link keeps it.
EnablePublicLink(p) ==
  \/ At(p, {"enable"}, "begin") /\ Answer(p, IF switches.sharing THEN "row" ELSE "refused")
  \/ /\ At(p, {"enable"}, "loaded")
     /\ mem' = [mem EXCEPT ![p].uuid = IF @ = {} THEN {p} ELSE @]
     /\ Goto(p, "update")
     /\ UNCHANGED <<rows, req, fresh, raced, word>>

\* Variant: embedding is left as it was.
RevokedLinkOnly(d) == d

Revoked(d) == [d EXCEPT !.embed = FALSE]

DisablePublicLink(p) ==
  \/ At(p, {"disable"}, "begin") /\ Answer(p, "row")
  \/ /\ At(p, {"disable"}, "loaded")
     /\ mem' = [mem EXCEPT ![p] = Revoked(@)]
     /\ Goto(p, "update")
     /\ UNCHANGED <<rows, req, fresh, raced, word>>

\* setDashboardEmbedding: only a published dashboard can be embedded.
SetEmbedding(p) ==
  \/ At(p, {"embed"}, "begin") /\ Answer(p, IF switches.embedding THEN "row" ELSE "refused")
  \/ At(p, {"embed"}, "loaded") /\ req[p].on /\ mem[p].uuid = {} /\ Answer(p, "refused")
  \/ /\ At(p, {"embed"}, "loaded") /\ (req[p].on => mem[p].uuid # {})
     /\ mem' = [mem EXCEPT ![p].embed = req[p].on]
     /\ Goto(p, "update")
     /\ UNCHANGED <<rows, req, fresh, raced, word>>

Live(b, token) == token \in boards[b].uuid /\ ~boards[b].archived

\* What a visitor with a token should be told.
Entitled(r) ==
  /\ switches.sharing /\ (r.frame => switches.embedding)
  /\ \E b \in DOMAIN boards : Live(b, r.token) /\ (r.frame => boards[b].embed)

\* Variant: a page is served in a frame wherever it is published.
Framed(p) == TRUE

MayShow(p) == req[p].frame => mem[p].embed

\* servePublicDashboard, getPublicDashboard and runPublicDashboardCard: the
\* switches, the dashboard of the token, its row.
Visit(p) ==
  \/ /\ At(p, {"visit"}, "begin")
     /\ Answer(p, IF switches.sharing /\ (req[p].frame => switches.embedding) THEN "find" ELSE "denied")
  \/ /\ At(p, {"visit"}, "find")
     /\ \/ \E b \in DOMAIN boards : Live(b, req[p].token) /\ req' = [req EXCEPT ![p].board = b] /\ Goto(p, "load")
        \/ (\A b \in DOMAIN boards : ~Live(b, req[p].token)) /\ req' = req /\ Goto(p, "denied")
     /\ UNCHANGED <<rows, mem, fresh, raced, word>>
  \/ At(p, {"visit"}, "load") /\ Load(p, {"embed"}, "show") /\ UNCHANGED fresh
  \/ At(p, {"visit"}, "show") /\ Answer(p, IF MayShow(p) THEN "granted" ELSE "denied")

Step(p) ==
  \/ CreateDashboard(p) \/ EditDashboard(p) \/ UpdateDashboard(p) \/ DuplicateDashboard(p) \/ SetArchived(p)
  \/ ByID(p) \/ RecordRevision(p)
  \/ EnablePublicLink(p) \/ DisablePublicLink(p) \/ SetEmbedding(p)
  \/ SaveAdminSettings(p) \/ Visit(p)

\* History: what the visits under way should say now, and the writes they see.
Watch ==
  LET visiting == {q \in Procs : req[q].kind = "visit" /\ pc[q] \notin {"granted", "denied"}} IN
  /\ truth' = [q \in Procs |-> IF q \in visiting /\ pc'[q] # "begin" THEN truth[q] \cup {Entitled(req[q]), Entitled(req[q])'} ELSE truth[q]]
  /\ changes' = [q \in Procs |->
       IF q \in visiting /\ pc[q] # "begin" /\ <<boards, switches>>' # <<boards, switches>> /\ changes[q] < 2
         THEN changes[q] + 1 ELSE changes[q]]

Next == \E p \in Procs : Step(p) /\ Watch

Spec == Init /\ [][Next]_vars

----------------------------------------------------------------------------
(* Only a published dashboard is marked as embeddable, whatever overlaps:   *)
(* a store that brings an old mark back brings its link back as well, one   *)
(* that finds a link brings no mark (dashboard.go:41-49, httpapi            *)
(* dashboard.go:82).                                                       *)
EmbedNeedsLink ==
  \A b \in DOMAIN boards : boards[b].embed => boards[b].uuid # {}

(* A dashboard is public under the token that the last enable or disable    *)
(* left: no edit, copy, archive or embedding publishes it or revokes its    *)
(* link, unless it was stored over a rival's store.                        *)
LinkAsAskedOrOverlap ==
  \A b \in DOMAIN boards : boards[b].uuid = word[b] \/ b \in raced

(* Every card is on a tab of its dashboard or copy, unless the dashboard    *)
(* was stored between two of the SELECTs that read it.                     *)
CardsOnTabsOrOverlap ==
  \A b \in DOMAIN boards : boards[b].cards \subseteq boards[b].tabs \/ b \in raced

(* The last revision is the dashboard, once it is recorded, unless two      *)
(* stores overlapped or the recording failed, which nobody is told.        *)
RevisionTellsOrOverlap ==
  \A b \in DOMAIN boards :
    \/ b \in raced \/ \E p \in Procs : pc[p] = "revision" /\ Id(p) = b
    \/ [revisions[b] EXCEPT !.archived = FALSE] = [boards[b] EXCEPT !.archived = FALSE]

(* A visitor is told what was true at some moment of the visit, which reads *)
(* the switches, the token and the row one after the other, unless several  *)
(* writes fell into it, or one that stored the dashboard over a rival's,    *)
(* which may join an old link to an old mark.                              *)
VisitOnSomeMoment ==
  \A p \in Procs : pc[p] \in {"granted", "denied"} /\ changes[p] < 2 =>
    (pc[p] = "granted") \in truth[p] \/ Id(p) \in raced

(* A dashboard, its link and its last revision are what the requests asked *)
(* for, in some order, except where two stores of it overlapped.           *)
BoardAsAskedOrOverlap == LinkAsAskedOrOverlap /\ CardsOnTabsOrOverlap /\ RevisionTellsOrOverlap

-----------------------------------------------------------------------------
\* Requests that work with a dashboard they find, which was there at the start.
Found == {"edit", "enable", "disable", "embed", "copy", "archive", "restore"}

\* The first rows and the requests a server can meet: rows have their columns
\* and were stored by this code, a page has its cards on its own tabs, no
\* request is about a dashboard never made, and no two dashboards have a token
\* (a UUID) in common.
Plausible ==
  /\ \A s \in Starts : \A b \in DOMAIN s.boards :
       /\ {"uuid", "embed", "archived", "tabs", "cards"} \subseteq DOMAIN s.boards[b]
       /\ s.boards[b].embed => s.boards[b].uuid # {}
       /\ s.boards[b].cards \subseteq s.boards[b].tabs
       /\ \A z \in Starts : \A c \in DOMAIN z.boards \ {b} : s.boards[b].uuid \cap z.boards[c].uuid = {}
       /\ s.boards[b].uuid \cap Procs = {}
  /\ \A r \in Requests :
       /\ {"kind", "board"} \subseteq DOMAIN r
       /\ r.kind \in Found => \A s \in Starts : r.board \in DOMAIN s.boards
       /\ r.kind \in {"create", "edit"} => r.cards \subseteq r.tabs \cup {NoTab}
=============================================================================
