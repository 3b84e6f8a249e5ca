------------------------------- MODULE Setup -------------------------------
(***************************************************************************)
(* The first-run setup: POST /api/setup (completeSetup in                  *)
(* internal/platform/httpapi/identity.go) and CompleteSetup in             *)
(* internal/app/identity/service.go.  Several requests may be in flight,   *)
(* on one instance or several, and each is a sequence of single statements *)
(* on the application database: there is no transaction, and the checks    *)
(* are the unique keys of the tables.                                      *)
(*                                                                         *)
(* A request's ID stands for the user it creates (the ID of a user is      *)
(* random), and pc[r] names its next statement.  A form without a name, an  *)
(* address or a good password is refused before any statement.             *)
(***************************************************************************)
EXTENDS Integers, FiniteSets

CONSTANTS
  Requests,
  Emails,
  EmailOf,     \* EmailOf[r]: the administrator's address in request r
  NoSite,      \* no row "site_name"
  MaxFaults    \* bound of the model: statements that fail, processes that die

ASSUME SetupAssumption ==
  /\ EmailOf \in [Requests -> Emails]
  /\ NoSite \notin Requests
  /\ MaxFaults \in Nat

Writing == {"user", "allUsers", "admins", "joinAll", "joinAdmins", "site", "completed"}
Finishing == {"list", "collection", "login"}
Ended == {"created", "failed", "refused"}

VARIABLES
  users,        \* the requests whose row of table users exists
  groups,       \* rows of table groups
  members,      \* members[g]: the rows of table group_members
  siteName,     \* setting "site_name": the request that stored it
  completed,    \* setting "setup_completed"
  collections,  \* the users that have a personal collection
  sessions,     \* the users that have a session
  pc,
  faults

rows == <<users, groups, members, siteName, completed, collections, sessions>>
vars == <<users, groups, members, siteName, completed, collections, sessions, pc, faults>>

Groups == {"allUsers", "admins"}

Init ==
  /\ users = {} /\ groups = {} /\ collections = {} /\ sessions = {}
  /\ members = [g \in Groups |-> {}]
  /\ siteName = NoSite
  /\ completed = FALSE
  /\ pc = [r \in Requests |-> "check"]
  /\ faults = 0

Goto(r, label) == pc' = [pc EXCEPT ![r] = label]

\* SetupCompleted, and what a set-up instance answers.
Check(r) ==
  /\ pc[r] = "check"
  /\ Goto(r, IF completed THEN "refused" ELSE "user")
  /\ UNCHANGED <<rows, faults>>

AddressTaken(r) == \E u \in users : EmailOf[u] = EmailOf[r]

CreateUser(r) ==
  /\ pc[r] = "user"
  /\ IF AddressTaken(r)
       THEN Goto(r, "failed") /\ UNCHANGED users
       ELSE Goto(r, "allUsers") /\ users' = users \cup {r}
  /\ UNCHANGED <<groups, members, siteName, completed, collections, sessions, faults>>

\* Variant: INSERT OR IGNORE, as AddMember does.
GroupTakenIgnored(g) == FALSE

GroupTaken(g) == g \in groups

\* Both groups have fixed IDs: a second INSERT fails.
CreateGroup(r, g, next) ==
  /\ pc[r] = g
  /\ IF GroupTaken(g)
       THEN Goto(r, "failed") /\ UNCHANGED groups
       ELSE Goto(r, next) /\ groups' = groups \cup {g}
  /\ UNCHANGED <<users, members, siteName, completed, collections, sessions, faults>>

AddMember(r, here, g, next) ==
  /\ pc[r] = here
  /\ members' = [members EXCEPT ![g] = @ \cup {r}]
  /\ Goto(r, next)
  /\ UNCHANGED <<users, groups, siteName, completed, collections, sessions, faults>>

SetSiteName(r) ==
  /\ pc[r] = "site"
  /\ siteName' = r
  /\ Goto(r, "completed")
  /\ UNCHANGED <<users, groups, members, completed, collections, sessions, faults>>

\* Variant: the flag of an upsert that was lost.
CompletedLost == completed

CompletedSet == TRUE

SetCompleted(r) ==
  /\ pc[r] = "completed"
  /\ completed' = CompletedSet
  /\ Goto(r, "list")
  /\ UNCHANGED <<users, groups, members, siteName, collections, sessions, faults>>

\* EnsurePersonalCollection.
ListCollections(r) ==
  /\ pc[r] = "list"
  /\ Goto(r, IF r \in collections THEN "login" ELSE "collection")
  /\ UNCHANGED <<rows, faults>>

CreateCollection(r) ==
  /\ pc[r] = "collection"
  /\ collections' = collections \cup {r}
  /\ Goto(r, "login")
  /\ UNCHANGED <<users, groups, members, siteName, completed, sessions, faults>>

\* The answer is 201 even if no session could be made.
Login(r) ==
  /\ pc[r] = "login"
  /\ Goto(r, "created")
  /\ \/ sessions' = sessions \cup {r} /\ UNCHANGED faults
     \/ faults < MaxFaults /\ faults' = faults + 1 /\ UNCHANGED sessions
  /\ UNCHANGED <<users, groups, members, siteName, completed, collections>>

\* The next statement fails, or the process dies before it.
Fault(r) ==
  /\ faults < MaxFaults
  /\ pc[r] \notin Ended
  /\ faults' = faults + 1
  /\ Goto(r, "failed")
  /\ UNCHANGED rows

Step(r) ==
  \/ Check(r) \/ CreateUser(r)
  \/ CreateGroup(r, "allUsers", "admins") \/ CreateGroup(r, "admins", "joinAll")
  \/ AddMember(r, "joinAll", "allUsers", "joinAdmins")
  \/ AddMember(r, "joinAdmins", "admins", "site")
  \/ SetSiteName(r) \/ SetCompleted(r)
  \/ ListCollections(r) \/ CreateCollection(r) \/ Login(r)

\* Whoever saw an error or a refusal sends the form again.
Resend(r) ==
  /\ pc[r] \in {"failed", "refused"}
  /\ Goto(r, "check")
  /\ UNCHANGED <<rows, faults>>

Next == \E r \in Requests : Step(r) \/ Fault(r) \/ Resend(r)

Spec == Init /\ [][Next]_vars

\* A handler that runs goes on to its end; nobody has to send a form again.
FairSpec == Spec /\ \A r \in Requests : WF_vars(Step(r))

-----------------------------------------------------------------------------
Labels == {"check"} \cup Writing \cup Finishing \cup Ended

TypeOK ==
  /\ users \subseteq Requests
  /\ groups \subseteq Groups
  /\ members \in [Groups -> SUBSET Requests]
  /\ siteName \in Requests \cup {NoSite}
  /\ completed \in BOOLEAN
  /\ collections \subseteq Requests
  /\ sessions \subseteq Requests
  /\ pc \in [Requests -> Labels]
  /\ faults \in 0 .. MaxFaults

\* The requests that have created the first group: they alone go on.
Winning == (Writing \ {"user", "allUsers"}) \cup Finishing \cup {"created"}

Winner(r) == pc[r] \in Winning

\* What a request has stored when it reaches a label.
StoredBy(r) ==
  /\ pc[r] = "allUsers" \/ Winner(r) => r \in users
  /\ Winner(r) => "allUsers" \in groups
  /\ pc[r] \in Winning \ {"admins"} => "admins" \in groups
  /\ pc[r] \in Winning \ {"admins", "joinAll"} => r \in members["allUsers"]
  /\ pc[r] \in {"site", "completed", "created"} \cup Finishing =>
       members["admins"] = {r}
  /\ pc[r] \in {"completed", "created"} \cup Finishing => siteName = r
  /\ pc[r] \in {"created"} \cup Finishing => completed
  /\ pc[r] \in {"login", "created"} => r \in collections

\* Nobody joins the administrators before the winner's own step.
AdminsFromWinner ==
  /\ members["admins"] # {} => "admins" \in groups
  /\ "admins" \in groups => "allUsers" \in groups
  /\ \A r \in Requests : pc[r] \in {"admins", "joinAll", "joinAdmins"} => members["admins"] = {}
  /\ \A r \in Requests : pc[r] = "admins" => "admins" \notin groups

\* When the instance answers that setup is completed, exactly one
\* administrator exists, with a row in users and in both groups, and the site
\* name is the one of that administrator's form: the parts of two forms are
\* never mixed (CompleteSetup).
CompletedIsWhole ==
  completed => \E r \in Requests :
    /\ members["admins"] = {r}
    /\ r \in users \cap members["allUsers"]
    /\ siteName = r

\* At most one of several forms sent together is answered with success, and
\* its sender is the administrator.
OneWinner == \A r, s \in Requests : Winner(r) /\ Winner(s) => r = s

\* Setup cannot hang: when a group exists and setup is neither completed nor
\* being completed by the request that created the group, some statement has
\* failed or a process has died.  (After that it does hang for ever: every
\* later form fails on the group's primary key.)
StuckOnlyAfterFault ==
  groups # {} /\ ~completed => faults > 0 \/ \E r \in Requests : Winner(r)

IInv ==
  /\ TypeOK
  /\ OneWinner
  /\ \A r \in Requests : StoredBy(r)
  /\ AdminsFromWinner
  /\ CompletedIsWhole
  /\ StuckOnlyAfterFault

\* Setup ends: of forms sent together, whichever loses, one completes it, if
\* nothing fails.
SetupCompletes == <>(completed \/ faults > 0)
=============================================================================
