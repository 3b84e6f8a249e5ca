------------------------------- MODULE Accounts -------------------------------
(***************************************************************************)
(* Who a request is from, and what a member changes of an account:         *)
(* accessControl and csrfProtection (internal/platform/httpapi/access.go,  *)
(* csrf.go), sessions, API keys and developer settings, profile, password  *)
(* and the state of a member (internal/app/identity/service.go).           *)
(*                                                                         *)
(* A credential is looked up anew by every layer that a request passes,    *)
(* each time in several statements.  Signing in is in SignIn, what a       *)
(* member may do in Groups; the token against forged requests is left out. *)
(***************************************************************************)
EXTENDS Integers

CONSTANTS
  Procs, Requests,
  Users, Owners,    \* Owners[k]: the member of each key or session there was
  Starts,
  Gone,
  MaxTime           \* bound of the clock

VARIABLES
  users,      \* users[u]: e-mail address, password, active
  sessions,   \* sessions[s]: when it expires, or Gone
  keys,       \* keys[k]: its member and when it expires (0: never), or Gone
  dev,        \* the developer settings
  now,
  req, pc,
  mem,        \* mem[p]: checks left, the settings and the account p has read
  met         \* history: met[p], what was so at some moment of p's request

vars == <<users, sessions, keys, dev, now, req, pc, mem, met>>
rows == <<users, sessions, keys, dev>>

Init ==
  /\ \E s \in Starts : users = s.users /\ sessions = s.sessions /\ dev = s.dev
                       /\ keys = [k \in DOMAIN s.keys \cup Procs |-> IF k \in DOMAIN s.keys THEN s.keys[k] ELSE Gone]
  /\ now = 0
  /\ req \in [Procs -> Requests]
  /\ pc = [p \in Procs |-> "begin"]
  /\ mem = [p \in Procs |-> [left |-> 0, dev |-> dev, user |-> Gone]]
  /\ met = [p \in Procs |-> {}]

At(p, kind, label) == req[p].kind = kind /\ pc[p] = label
Goto(p, label) == pc' = [pc EXCEPT ![p] = label]
Under(p) == pc[p] \notin {"begin", "ok", "error"}
ByKey(p) == req[p].by \in DOMAIN keys
User(p) == Owners[req[p].by]

Step(p, label) == Goto(p, label) /\ UNCHANGED <<rows, now, req, mem>>

----------------------------------------------------------------------------
(* The credential.                                                         *)

\* A session ends after its time, a key at its time.
SessionHolds(s) == sessions[s] # Gone /\ now <= sessions[s]
KeyHolds(k) == keys[k] # Gone /\ (keys[k].expires = 0 \/ now < keys[k].expires)

\* A write passes csrfProtection too, unless it has a key.
Changing(p) == req[p].kind # "read"
Checks(p) == IF Changing(p) /\ ~ByKey(p) THEN 3 ELSE 2

Look(p) == IF ByKey(p) THEN "settings" ELSE "session"

\* What an API key is let through to.
Allowed(p) == req[p].kind = "read" \/ (req[p].kind = "write" /\ dev.write)

\* DELETE /api/session is public and needs no check.
Begin(p) ==
  /\ pc[p] = "begin"
  /\ mem' = [mem EXCEPT ![p].left = Checks(p)]
  /\ Goto(p, IF req[p].kind = "logout" THEN "act" ELSE Look(p))
  /\ UNCHANGED <<rows, now, req>>

\* UserForSession deletes a session that has expired; whether the member is
\* active is not asked.
UserForSession(p) ==
  /\ pc[p] = "session"
  /\ IF SessionHolds(req[p].by) THEN Goto(p, "owner") /\ UNCHANGED sessions
     ELSE Goto(p, "error") /\ sessions' = [sessions EXCEPT ![req[p].by] = Gone]
  /\ UNCHANGED <<users, keys, dev, now, req, mem>>

\* UserForAPIKey: the settings, the key, the member.
UserForAPIKey(p) ==
  \/ pc[p] = "settings" /\ Step(p, IF dev.enabled THEN "key" ELSE "error")
  \/ pc[p] = "key" /\ Step(p, IF KeyHolds(req[p].by) THEN "owner" ELSE "error")

\* Variant: a key opens whoever it belongs to.
AnyOwner(p) == TRUE

Opens(p) == ByKey(p) => users[User(p)].active

\* The member is found: accessControl asks what a key may, the next layer
\* looks the credential up again, the last one acts.
Owner(p) ==
  /\ pc[p] = "owner"
  /\ IF ~Opens(p) THEN Goto(p, "error") /\ UNCHANGED mem
     ELSE /\ mem' = [mem EXCEPT ![p].left = @ - 1]
          /\ Goto(p, IF mem[p].left = 1 THEN "act" ELSE IF ByKey(p) THEN "allowed" ELSE "session")
  /\ UNCHANGED <<rows, now, req>>

DeveloperRequestAllowed(p) ==
  pc[p] = "allowed" /\ Step(p, IF Allowed(p) THEN "settings" ELSE "error")

----------------------------------------------------------------------------
(* What the handlers do.                                                   *)

Done(p) == Goto(p, "ok") /\ UNCHANGED <<now, req, mem>>

Read(p) == pc[p] = "act" /\ req[p].kind \in {"read", "write"} /\ Done(p) /\ UNCHANGED rows

Logout(p) ==
  /\ At(p, "logout", "act") /\ sessions' = [sessions EXCEPT ![req[p].by] = Gone]
  /\ Done(p) /\ UNCHANGED <<users, keys, dev>>

\* What an administrator sets, by its requests.
Administer(p) ==
  /\ pc[p] = "act" /\ Done(p) /\ UNCHANGED sessions
  /\ \/ /\ req[p].kind = "settings" /\ dev' = req[p].dev /\ UNCHANGED <<users, keys>>
     \/ /\ req[p].kind = "active" /\ users' = [users EXCEPT ![req[p].user].active = req[p].on]
        /\ UNCHANGED <<keys, dev>>
     \/ /\ req[p].kind = "reset" /\ users' = [users EXCEPT ![req[p].user].password = req[p].new]
        /\ UNCHANGED <<keys, dev>>
     \/ /\ req[p].kind = "dropAny" /\ keys' = [keys EXCEPT ![req[p].key] = Gone]
        /\ UNCHANGED <<users, dev>>

ExpiresAt(p) == IF mem[p].dev.ttl = 0 THEN 0 ELSE now + mem[p].dev.ttl

\* createAPIKey reads the settings, CreateAPIKey reads them again.
CreateAPIKey(p) ==
  \/ /\ At(p, "createKey", "act")
     /\ Step(p, IF dev.enabled /\ (dev.personal \/ req[p].admin) THEN "again" ELSE "error")
  \/ /\ pc[p] = "again"
     /\ Goto(p, IF dev.enabled THEN "insert" ELSE "error") /\ mem' = [mem EXCEPT ![p].dev = dev]
     /\ UNCHANGED <<rows, now, req>>
  \/ /\ pc[p] = "insert"
     /\ keys' = [keys EXCEPT ![p] = [user |-> User(p), expires |-> ExpiresAt(p)]]
     /\ Done(p) /\ UNCHANGED <<users, sessions, dev>>

\* deleteAPIKey: only one of the member's own list.
DeleteAPIKey(p) ==
  \/ /\ At(p, "dropKey", "act")
     /\ Step(p, IF keys[req[p].key] # Gone /\ keys[req[p].key].user = User(p) THEN "drop" ELSE "error")
  \/ /\ pc[p] = "drop" /\ keys' = [keys EXCEPT ![req[p].key] = Gone]
     /\ Done(p) /\ UNCHANGED <<users, sessions, dev>>

Proves(p) == mem[p].user.password = req[p].current

\* The account is read.
ReadAccount(p) ==
  /\ pc[p] = "act" /\ req[p].kind \in {"password", "profile"}
  /\ mem' = [mem EXCEPT ![p].user = users[User(p)]]
  /\ Goto(p, "prove")
  /\ UNCHANGED <<rows, now, req>>

ChangePassword(p) ==
  \/ At(p, "password", "prove") /\ Step(p, IF Proves(p) /\ req[p].new # req[p].current THEN "store" ELSE "error")
  \/ /\ At(p, "password", "store")
     /\ users' = [users EXCEPT ![User(p)].password = req[p].new]
     /\ Done(p) /\ UNCHANGED <<sessions, keys, dev>>

\* Variant: a new address needs no password.
AnyAddress(p) == TRUE

MayTakeAddress(p) == req[p].email = mem[p].user.email \/ Proves(p)

Taken(p) == \E u \in Users \ {User(p)} : users[u].email = req[p].email

\* UpdateProfile; the address is UNIQUE in the table.
UpdateProfile(p) ==
  \/ At(p, "profile", "prove") /\ Step(p, IF MayTakeAddress(p) THEN "look" ELSE "error")
  \/ At(p, "profile", "look") /\ Step(p, IF Taken(p) THEN "error" ELSE "store")
  \/ /\ At(p, "profile", "store")
     /\ IF Taken(p) THEN Step(p, "error")
        ELSE users' = [users EXCEPT ![User(p)].email = req[p].email] /\ Done(p) /\ UNCHANGED <<sessions, keys, dev>>

Tick == now < MaxTime /\ now' = now + 1 /\ UNCHANGED <<rows, req, pc, mem>>

----------------------------------------------------------------------------
\* What is so of a credential, the settings and the account, for met.
Facts(p) ==
  (IF ByKey(p) THEN IF KeyHolds(req[p].by) THEN {"holds"} ELSE {}
   ELSE IF SessionHolds(req[p].by) THEN {"holds"} ELSE {})
  \cup (IF users[User(p)].active THEN {"active"} ELSE {})
  \cup (IF dev.enabled THEN {"enabled"} ELSE {}) \cup (IF dev.personal THEN {"personal"} ELSE {})
  \cup (IF dev.write THEN {"write"} ELSE {}) \cup (IF dev.ttl = 0 THEN {"endless"} ELSE {})
  \cup {users[User(p)].email, users[User(p)].password}

Act ==
  \/ \E p \in Procs :
       \/ Begin(p) \/ UserForSession(p) \/ UserForAPIKey(p) \/ Owner(p) \/ DeveloperRequestAllowed(p)
       \/ Read(p) \/ Logout(p) \/ Administer(p) \/ CreateAPIKey(p) \/ DeleteAPIKey(p)
       \/ ReadAccount(p) \/ ChangePassword(p) \/ UpdateProfile(p)
  \/ Tick

\* A request sees the moments from its first statement to its last.
Next ==
  /\ Act
  /\ met' = [p \in Procs |-> IF Under(p) THEN met[p] \cup Facts(p)
                             ELSE IF pc[p] # pc'[p] THEN Facts(p) ELSE met[p]]

Spec == Init /\ [][Next]_vars

----------------------------------------------------------------------------
(* Properties.                                                             *)

\* A request that was let through had, at moments of its own, a session or a
\* key that had not expired; with a key also the developer mode switched on,
\* an active member, and for a write the permission to write.  What ended
\* before the request began lets nothing through.
AdmittedOnSomeMoment ==
  \A p \in Procs :
    pc[p] = "ok" /\ req[p].kind # "logout" =>
      /\ "holds" \in met[p]
      /\ ByKey(p) => /\ {"enabled", "active"} \subseteq met[p]
                     /\ req[p].kind \in {"read", "write"}
                     /\ req[p].kind = "write" => "write" \in met[p]

\* A new password or address was asked for with the password of some moment
\* of the request; a key was made while developer mode was on and members
\* could make keys, and lives without end only if the settings said so.
ChangedAsAllowedOnSomeMoment ==
  \A p \in Procs :
    pc[p] = "ok" =>
      /\ req[p].kind = "password" => req[p].current \in met[p]
      /\ req[p].kind = "profile" => {req[p].email, req[p].current} \cap met[p] # {}
      /\ req[p].kind = "createKey" =>
           /\ "enabled" \in met[p] /\ (req[p].admin \/ "personal" \in met[p])
           /\ keys[p] # Gone /\ keys[p].expires = 0 => "endless" \in met[p]

----------------------------------------------------------------------------
\* What the theorems assume of the constants: no setting has a negative time
\* to live (SaveDeveloperSettings refuses one).
Plausible ==
  /\ \A s \in Starts : s.dev.ttl \in Nat
  /\ \A r \in Requests : r.kind = "settings" => r.dev.ttl \in Nat
=============================================================================
