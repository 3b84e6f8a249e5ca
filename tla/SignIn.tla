------------------------------- MODULE SignIn -------------------------------
(***************************************************************************)
(* How members sign in: password login (setting "auth_settings"), third-   *)
(* party providers (setting "identity_providers") and the external         *)
(* accounts bound to members (setting "external_identity_links"); the      *)
(* handlers are in internal/platform/httpapi (identity.go, subscribe.go,   *)
(* share.go, profile.go, oauth.go), the service in                         *)
(* internal/app/identity/service.go.                                       *)
(*                                                                         *)
(* Every setting is one JSON text that a handler reads, checks or changes, *)
(* and stores whole, in separate statements without a transaction.  A      *)
(* process of the model is one request, pc its next statement, mem what it *)
(* has read.  fresh[p] is history: the settings nobody wrote since p read  *)
(* them, and "checked" while nobody wrote any since p checked that its     *)
(* member keeps a sign-in.  A provider is google or wechat: the other      *)
(* types never sign in.  Two reads may fail and the request goes on: the   *)
(* code drops their errors.  A statement that fails elsewhere answers an   *)
(* error and changes nothing.                                              *)
(***************************************************************************)
EXTENDS FiniteSets

CONSTANTS
  Procs,      \* the requests in flight
  Requests,   \* what a request may ask: records with a field kind
  Starts,     \* the contents of the database the model starts from
  Users,
  Providers,
  NoUser      \* no session, no bind cookie, an address nobody has

Cells == {"auth", "providers", "links"}

\* A link: ExternalIdentityLink of core/identity.go.
Link(provider, subject, user) == [provider |-> provider, subject |-> subject, user |-> user]

\* Enabled and configured: providers a browser can sign in with.
Usable(ps) == {i \in DOMAIN ps : ps[i].enabled /\ ps[i].secret}

\* usableProfileLinks: the usable providers user u is linked to.
UsableLinks(ps, links, u) == {i \in Usable(ps) : \E l \in links : l.user = u /\ l.provider = i}

\* No two entries for one account.
LinkedOnceIn(links) ==
  \A l, m \in links : l.provider = m.provider /\ l.subject = m.subject => l = m

\* The contents a database has when no request is under way.
WellFormed(s) ==
  /\ DOMAIN s = Cells \cup {"active"}
  /\ s.auth \in BOOLEAN /\ DOMAIN s.providers \subseteq Providers
  /\ s.active \subseteq Users
  /\ \A l \in s.links : l = Link(l.provider, l.subject, l.user) /\ l.user \in Users
  /\ s.auth \/ Usable(s.providers) # {}
  /\ LinkedOnceIn(s.links)

VARIABLES
  db,       \* auth (password login enabled), providers, links, active users
  browser,  \* the cookies of one browser; session: the user of its session row
  req, pc, mem,
  fresh,    \* history: fresh[p]
  raced,    \* history: what a write rested on although a rival had changed it,
            \* or its read had failed
  bound     \* history: the bindings that were acknowledged and not undone

vars == <<db, browser, req, pc, mem, fresh, raced, bound>>

Init ==
  /\ db \in {s \in Starts : WellFormed(s)}
  /\ browser \in [session : Users \cup {NoUser}, state : {NoUser}, bind : {NoUser}]
  /\ req \in [Procs -> Requests]
  /\ pc = [p \in Procs |-> "begin"]
  /\ mem = [p \in Procs |-> [auth |-> TRUE, providers |-> <<>>, links |-> {}]]
  /\ fresh = [p \in Procs |-> {}]
  /\ raced = {}
  /\ bound = db.links

----------------------------------------------------------------------------
(* One statement of a request.                                            *)

At(p, kind, label) == req[p].kind = kind /\ pc[p] = label

Goto(p, label) == pc' = [pc EXCEPT ![p] = label]

\* readSettingsJSON and AuthSettings: a setting, decoded.
Read(p, cell) ==
  /\ mem' = [mem EXCEPT ![p][cell] = db[cell]]
  /\ fresh' = [fresh EXCEPT ![p] = @ \cup {cell}]
  /\ UNCHANGED <<db, browser, req, raced, bound>>

\* writeSettingsJSON: the setting is replaced, whatever it holds by now.
\* needed: the settings whose contents the value rests on.
Write(p, cell, value, needed) ==
  /\ db' = [db EXCEPT ![cell] = value]
  /\ fresh' = [q \in Procs |-> fresh[q] \ {cell, "checked"}]
  /\ raced' = raced \cup (needed \ fresh[p])
  /\ UNCHANGED <<browser, req, mem>>

\* An answer, or a step that changes no row.
Answer(p, label) == Goto(p, label) /\ UNCHANGED <<db, browser, req, mem, fresh, raced, bound>>

----------------------------------------------------------------------------
(* The administrator's settings.                                          *)

\* Variant: the switch is stored without a look at the providers.
NoLoginLeftUnchecked(ps) == FALSE

NoLoginLeft(ps) == Usable(ps) = {}

\* SaveAuthSettings: password login may go if another login is left.
SaveAuthSettings(p) ==
  \/ /\ At(p, "saveAuth", "begin") /\ req[p].on
     /\ Write(p, "auth", TRUE, {}) /\ Goto(p, "done") /\ UNCHANGED bound
  \/ /\ At(p, "saveAuth", "begin") /\ ~req[p].on
     /\ Read(p, "providers") /\ Goto(p, "check")
  \/ /\ At(p, "saveAuth", "check") /\ NoLoginLeft(mem[p].providers)
     /\ Answer(p, "refused")
  \/ /\ At(p, "saveAuth", "check") /\ ~NoLoginLeft(mem[p].providers)
     /\ Write(p, "auth", FALSE, {"providers"}) /\ Goto(p, "done") /\ UNCHANGED bound

\* The handler saveIdentityProviders: a blank secret stands for the stored one.
WithSecrets(items, existing) ==
  [i \in DOMAIN items |->
     [items[i] EXCEPT !.secret = @ \/ (i \in DOMAIN existing /\ existing[i].secret)]]

\* The handler's read fails: its error is dropped, and no provider is known.
ProvidersUnread(p) == Answer(p, "auth")

\* The secrets of a provider not read, or changed since, are not those stored.
Resting(p) == {"auth"} \cup (IF "providers" \in fresh[p] THEN {} ELSE {"secrets"})

\* SaveIdentityProviders: the last usable login stays while password login is off.
SaveIdentityProviders(p) ==
  LET items == WithSecrets(req[p].items, mem[p].providers) IN
  \/ /\ At(p, "saveProviders", "begin")
     /\ Read(p, "providers") /\ Goto(p, "auth")
  \/ At(p, "saveProviders", "begin") /\ ProvidersUnread(p)
  \/ /\ At(p, "saveProviders", "auth")
     /\ Read(p, "auth") /\ Goto(p, "store")
  \/ /\ At(p, "saveProviders", "store")
     /\ ~mem[p].auth /\ NoLoginLeft(items)
     /\ Answer(p, "refused")
  \/ /\ At(p, "saveProviders", "store")
     /\ mem[p].auth \/ ~NoLoginLeft(items)
     /\ Write(p, "providers", items, Resting(p))
     /\ Goto(p, "done") /\ UNCHANGED bound

----------------------------------------------------------------------------
(* Binding and unbinding.                                                 *)

\* Variant: the owner of an entry is not compared.
TakenByOtherIgnored(links, l) == FALSE

TakenByOther(links, l) ==
  \E m \in links : m.provider = l.provider /\ m.subject = l.subject /\ m.user # l.user

\* Variant: the list is stored with the new entry alone.
OnlyNew(links, l) == {l}

WithNew(links, l) == links \cup {l}

\* BindExternalIdentity, from the list's read on.
Bind(p, kind, l) ==
  \/ /\ At(p, kind, "links")
     /\ Read(p, "links") /\ Goto(p, "bind")
  \/ /\ At(p, kind, "bind")
     /\ TakenByOther(mem[p].links, l) \/ l \in mem[p].links
     /\ Answer(p, IF l \in mem[p].links THEN "done" ELSE "refused")
  \/ /\ At(p, kind, "bind")
     /\ ~TakenByOther(mem[p].links, l) /\ l \notin mem[p].links
     /\ Write(p, "links", WithNew(mem[p].links, l), {"links"})
     /\ bound' = bound \cup {l}
     /\ Goto(p, "done")

\* bindUserExternalIdentity: the administrator binds an account to a member.
\* No user is ever deleted, so the member is found.
BindUserExternalIdentity(p) ==
  \/ At(p, "bind", "begin") /\ Answer(p, "links")
  \/ Bind(p, "bind", Link(req[p].provider, req[p].subject, req[p].user))

\* Variant: the usable links are not counted.
OnlySignInUnknown(ps, links, u, provider) == FALSE

OnlySignIn(ps, links, u, provider) == UsableLinks(ps, links, u) = {provider}

\* The check is over; known: "checked" if it still holds.
Checked(p, known) ==
  /\ fresh' = [fresh EXCEPT ![p] = known]
  /\ Goto(p, "unbind")
  /\ UNCHANGED <<db, browser, req, mem, raced, bound>>

\* unbindUserExternalIdentity: a member gives up a binding.  The check reads
\* the three settings one after the other.  The error of the first read is
\* dropped, and AuthSettings answers that password login is on: no check.
UnbindUserExternalIdentity(p) ==
  LET u == req[p].user IN
  \/ /\ At(p, "unbind", "begin") /\ ~db.auth
     /\ Read(p, "auth") /\ Goto(p, "mine")
  \/ At(p, "unbind", "begin") /\ db.auth /\ Checked(p, {"checked"})
  \/ At(p, "unbind", "begin") /\ Checked(p, {})
  \/ /\ At(p, "unbind", "mine")
     /\ Read(p, "links") /\ Goto(p, "providers")
  \/ /\ At(p, "unbind", "providers")
     /\ Read(p, "providers") /\ Goto(p, "only")
  \/ /\ At(p, "unbind", "only")
     /\ OnlySignIn(mem[p].providers, mem[p].links, u, req[p].provider)
     /\ Answer(p, "refused")
  \/ /\ At(p, "unbind", "only")
     /\ ~OnlySignIn(mem[p].providers, mem[p].links, u, req[p].provider)
     /\ Checked(p, IF Cells \subseteq fresh[p] THEN {"checked"} ELSE {})

\* UnbindExternalIdentity: the list is read again and stored without the entry.
UnbindExternalIdentity(p) ==
  LET mine == {l \in mem[p].links : l.user = req[p].user /\ l.provider = req[p].provider} IN
  \/ /\ At(p, "unbind", "unbind")
     /\ Read(p, "links") /\ Goto(p, "store")
  \/ /\ At(p, "unbind", "store") /\ mine = {}
     /\ Answer(p, "refused")
  \/ /\ At(p, "unbind", "store") /\ mine # {}
     /\ Write(p, "links", mem[p].links \ mine, {"links", "checked"})
     /\ bound' = bound \ mine
     /\ Goto(p, "done")

----------------------------------------------------------------------------
(* Signing in.                                                            *)

\* Users.ByID or ByEmail, then Sessions.Create: a row for an active user,
\* and the cookie that names it.
CreateSession(p, kind) ==
  LET u == req[p].user IN
  \/ /\ At(p, kind, "user")
     /\ Answer(p, IF u \in db.active THEN "session" ELSE "refused")
  \/ /\ At(p, kind, "session")
     /\ browser' = [browser EXCEPT !.session = u]
     /\ Goto(p, "done")
     /\ UNCHANGED <<db, req, mem, fresh, raced, bound>>

\* Login: a good address and password of req[p].user.
Login(p) ==
  \/ /\ At(p, "login", "begin")
     /\ Read(p, "auth") /\ Goto(p, IF db.auth THEN "user" ELSE "refused")
  \/ CreateSession(p, "login")

\* oauthLogin: the state cookie names the flow, the bind cookie also who
\* asked; a flow that only signs in clears the bind cookie.
OauthLogin(p) ==
  /\ At(p, "oauth", "begin")
  /\ req[p].provider \in Usable(db.providers)
  /\ \/ /\ req[p].intent = "bind" /\ browser.session # NoUser
        /\ browser' = [browser EXCEPT !.state = p, !.bind = <<p, browser.session>>]
        /\ Goto(p, "callback")
     \/ /\ req[p].intent = "bind" /\ browser.session = NoUser
        /\ browser' = [browser EXCEPT !.state = p]
        /\ Goto(p, "refused")
     \/ /\ req[p].intent = "login"
        /\ browser' = [browser EXCEPT !.state = p, !.bind = NoUser]
        /\ Goto(p, "callback")
  /\ UNCHANGED <<db, req, mem, fresh, raced, bound>>

\* A provider that is gone or switched off answers 404, at both ends.
OauthProviderGone(p) ==
  /\ pc[p] \in {"begin", "callback"} /\ req[p].kind = "oauth"
  /\ req[p].provider \notin Usable(db.providers)
  /\ Answer(p, "refused")

\* The bind cookie is of this flow, and who set it is still signed in.
Asked(p) == browser.bind # NoUser /\ browser.bind = <<p, browser.session>>

\* oauthCallback: the browser returns with the state of its flow and the
\* account req[p].subject.  The flow binds the account if it was begun to.
OauthCallback(p) ==
  /\ At(p, "oauth", "callback")
  /\ req[p].provider \in Usable(db.providers)
  /\ IF browser.state # p
       THEN Goto(p, "refused") /\ UNCHANGED <<browser, req>>
       ELSE /\ browser' = [browser EXCEPT !.state = NoUser, !.bind = NoUser]
            /\ IF Asked(p)
                 THEN /\ req' = [req EXCEPT ![p].user = browser.session]
                      /\ Goto(p, "links")
                 ELSE req' = req /\ Goto(p, "external")
  /\ UNCHANGED <<db, mem, fresh, raced, bound>>

\* LoginExternalIdentity: the account's member, or the one with its address.
LoginExternalIdentity(p) ==
  LET ours == {l \in db.links : l.provider = req[p].provider /\ l.subject = req[p].subject} IN
  /\ At(p, "oauth", "external")
  /\ \/ \E l \in ours : req' = [req EXCEPT ![p].user = l.user] /\ Goto(p, "user")
     \/ /\ ours = {} /\ req[p].email # NoUser
        /\ req' = [req EXCEPT ![p].user = req[p].email] /\ Goto(p, "user")
     \/ ours = {} /\ req[p].email = NoUser /\ req' = req /\ Goto(p, "refused")
  /\ UNCHANGED <<db, browser, mem, fresh, raced, bound>>

\* deleteSession: the row and the cookie go.
Logout(p) ==
  /\ At(p, "logout", "begin")
  /\ browser' = [browser EXCEPT !.session = NoUser]
  /\ Goto(p, "done")
  /\ UNCHANGED <<db, req, mem, fresh, raced, bound>>

Step(p) ==
  \/ SaveAuthSettings(p) \/ SaveIdentityProviders(p)
  \/ BindUserExternalIdentity(p) \/ UnbindUserExternalIdentity(p) \/ UnbindExternalIdentity(p)
  \/ Login(p) \/ Logout(p)
  \/ OauthLogin(p) \/ OauthProviderGone(p) \/ OauthCallback(p)
  \/ Bind(p, "oauth", Link(req[p].provider, req[p].subject, req[p].user))
  \/ LoginExternalIdentity(p) \/ CreateSession(p, "oauth")

Next == \E p \in Procs : Step(p)

Spec == Init /\ [][Next]_vars

----------------------------------------------------------------------------
TypeOK ==
  /\ db.auth \in BOOLEAN /\ DOMAIN db.providers \subseteq Providers
  /\ browser.session \in Users \cup {NoUser}
  /\ fresh \in [Procs -> SUBSET (Cells \cup {"checked"})]
  /\ bound \cup db.links \subseteq [provider : Providers, subject : {l.subject : l \in bound \cup db.links},
                                   user : Users]

(* An external account signs in one member at most, although the list has  *)
(* no key and the check of BindExternalIdentity (service.go:695) is not    *)
(* atomic with the store: the list is stored as it was checked.            *)
LinkedOnce == LinkedOnceIn(db.links)

(* There is always a way to sign in: with password login off, a usable     *)
(* provider is left, unless two of the administrator's saves overlapped,    *)
(* so that one rested on a setting the other had just changed.  A failed   *)
(* read of the providers (subscribe.go:217) is no excuse: the list is      *)
(* judged as it will be stored.                                            *)
SignInLeftOrOverlap ==
  db.auth \/ Usable(db.providers) # {} \/ raced \cap {"auth", "providers"} # {}

(* The bindings are those that were acknowledged and not undone: none is   *)
(* lost and none comes back, unless a list was stored over a rival's.      *)
BindingsKeptOrOverlap == db.links = bound \/ "links" \in raced

(* Both: what the settings promise the administrator.                      *)
SignInKeptOrOverlap == SignInLeftOrOverlap /\ BindingsKeptOrOverlap

(* A member's last usable sign-in is not unbound while password login is   *)
(* off, unless the check rested on settings that were changed before the   *)
(* list was stored, or was left out because the first read failed          *)
(* (profile.go:130-153).                                                   *)
LastSignInKept ==
  \A u \in Users :
    ~db.auth /\ db'.providers = db.providers /\ UsableLinks(db.providers, db.links, u) # {}
    => UsableLinks(db.providers, db'.links, u) # {} \/ raced' \cap {"links", "checked"} # {}

(* A provider that is saved again keeps its stored secret: the form sends  *)
(* it blank (subscribe.go:217-224).  The secret is lost only if the read   *)
(* of the providers failed, or a rival's save came after it.               *)
SecretsKept ==
  \A i \in DOMAIN db.providers \cap DOMAIN db'.providers :
    db.providers[i].secret => db'.providers[i].secret \/ "secrets" \in raced'

(* Both: no save and no unbinding silently takes a way to sign in.         *)
LastSignInKeptOrOverlap == [][LastSignInKept /\ SecretsKept]_vars

----------------------------------------------------------------------------
\* Every request is of some kind; a provider in a form has its secret's field.
HasSecrets(r) == r.kind = "saveProviders" => \A i \in DOMAIN r.items : "secret" \in DOMAIN r.items[i]

Plausible == \A r \in Requests : "kind" \in DOMAIN r /\ HasSecrets(r)
=============================================================================
