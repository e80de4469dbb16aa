------------------------------ MODULE LoginFlow ------------------------------
(***************************************************************************)
(* From the login page to a tenant: sessions on the root host, allauth's   *)
(* pages with the signal handlers hung on them, the MFA gate that every    *)
(* other request passes, the organization picker and the session on the    *)
(* tenant host it leads to.  A page request works on the copy of its       *)
(* session that it loaded, and saves it as a whole when it answers.        *)
(***************************************************************************)
EXTENDS Naturals, FiniteSets

CONSTANTS
    Users,
    Staff,      \* those with is_staff
    Enrolled,   \* those who have TOTP to begin with
    Providers,  \* codes of OAuth providers
    Orgs,
    Browsers,
    Requests,   \* page requests that may be in flight at the same time
    From,       \* From[q]: the browser that sends q
    Limit,      \* _MAX_MFA_SATISFIED_STALENESS, in ticks
    MaxTime,    \* BOUND on the clock
    MaxGen,     \* BOUND on the session keys a browser gets
    MaxChanges  \* BOUND on what staff and people change

ASSUME LoginAssumption ==
    /\ Staff \subseteq Users /\ Enrolled \subseteq Users
    /\ From \in [Requests -> Browsers]
    /\ Limit \in Nat /\ MaxTime \in Nat /\ MaxGen \in Nat /\ MaxChanges \in Nat

VARIABLES
    root,       \* root[b]: the session of b on the root host
    tenant,     \* tenant[b]: its sessions on tenant hosts
    req,        \* req[q]: a request in flight
    totp,       \* users with a TOTP authenticator
    password,   \* password[u]: which of u's passwords is the current one
    config,     \* config[p]: the OAuthProviderConfig row of p
    active,     \* ACTIVE memberships, as <<user, organization>>
    keyed,      \* whether some signing key is not retired
    now,
    changes,    \* how many changes there have been
    passed,     \* history: <<b, u, t>>, u satisfied MFA in b at t
    refused     \* audit events that the audit service raised for

policyVars == <<totp, password, config, active, keyed, changes>>
loginVars == <<root, tenant, req, policyVars, now, passed, refused>>

Times == 0 .. MaxTime

\* The flags behind the _emit_..._once helpers.
Notes == {"local", "trusted", "untrusted"}

(* pending is the person a login waits for the second factor of; provider, *)
(* mfa and told are mph_login_provider_code, mph_mfa_satisfied_at and the  *)
(* flags; gen stands for the session key, and hash for _auth_user_hash,    *)
(* which is made of the password that the user had at the login.           *)
Session == [user : SUBSET Users, pending : SUBSET Users, provider : SUBSET Providers,
            mfa : SUBSET Times, told : SUBSET Notes, gen : 0 .. MaxGen, hash : Nat]

NewSession(g) ==
    [user |-> {}, pending |-> {}, provider |-> {}, mfa |-> {}, told |-> {}, gen |-> g,
     hash |-> 0]

\* provider is mph_session_auth_provider, which the gate does not read.
TenantSession == [user : Users, org : Orgs, provider : SUBSET Providers, hash : Nat]

Kinds == {"select", "issue", "console", "landing"}

Steps == {"idle", "totp", "config", "view", "issue", "answer"}

Answers == {"none", "form", "picker", "noaccess", "missing", "console", "forbidden",
            "landing", "enroll", "unavailable", "error"}

\* Status 500 and above.
Failures == {"unavailable", "error"}

\* What only a person who passed the gate gets to see.
Guarded == {"form", "picker", "noaccess", "console", "landing"}

\* What a token says about the login behind it.
Claims == [user : Users, provider : SUBSET Providers, mfa : Times, at : Times]

(* copy is the session loaded, changed whether it was modified since; org  *)
(* is the organization asked for, vouched the provider of a tenant session.*)
(* barred is history: the gate's policy was against the person when the    *)
(* request began and did not change since.                                 *)
Calls == [pc : Steps, kind : Kinds, org : SUBSET Orgs, copy : Session, changed : BOOLEAN,
          page : Answers, claim : SUBSET Claims, barred : BOOLEAN,
          vouched : SUBSET Providers]

Idle == [pc |-> "idle", kind |-> "select", org |-> {}, copy |-> NewSession(0),
         changed |-> FALSE, page |-> "none", claim |-> {}, barred |-> FALSE, vouched |-> {}]

-----------------------------------------------------------------------------
(* The audit service knows its event types and raises for any other; the   *)
(* error passes through record_auth_event and breaks the page.             *)
KnownEvents ==
    {"USER_REGISTERED", "MFA_ENROLLED", "MFA_DISABLED", "MFA_RECOVERY_CODES_REGENERATED",
     "MEMBERSHIP_SELECTED", "HANDOFF_TOKEN_ISSUED", "TENANT_SESSION_ESTABLISHED",
     "ROOT_SESSION_LOGOUT", "TENANT_SESSION_LOGOUT", "LOGIN_SUCCEEDED", "LOGIN_FAILED",
     "LOCAL_PASSWORD_LOGIN_SUCCEEDED", "LOCAL_PASSWORD_LOGIN_FAILED",
     "LOCAL_MFA_CHALLENGE_REQUIRED", "OAUTH_LOGIN_SUCCEEDED", "OAUTH_LOGIN_FAILED",
     "OAUTH_ACCOUNT_UNLINKED", "OAUTH_PROVIDER_MFA_TRUSTED",
     "OAUTH_PROVIDER_MFA_NOT_TRUSTED", "HANDOFF_TOKEN_CONSUMED", "LOGOUT",
     "PASSWORD_CHANGED", "PASSWORD_RESET_COMPLETED"}

LoggedInEvents == {"LOCAL_PASSWORD_LOGIN_SUCCEEDED", "LOGIN_SUCCEEDED"}
LoginFailedEvents == {"LOCAL_PASSWORD_LOGIN_FAILED", "LOGIN_FAILED"}

\* Two receivers; the second looks at the host that the logout came in on.
LoggedOutEvents(scope) ==
    {"LOGOUT"} \cup (IF scope = "TENANT" THEN {} ELSE {"ROOT_SESSION_LOGOUT"})

\* A mutant: the event is named like the page.
EventPerType(type) == {IF type = "totp" THEN "MFA_ENROLLED" ELSE "MFA_RECOVERY_CODES_GENERATED"}

AuthenticatorAddedEvents(type) ==
    {IF type = "recovery_codes" THEN "MFA_RECOVERY_CODES_REGENERATED" ELSE "MFA_ENROLLED"}

Record(events) == refused' = refused \cup (events \ KnownEvents)

-----------------------------------------------------------------------------
(* The gate: a person with TOTP passes, and one whose provider is trusted. *)
Trusted(P) == \E p \in P : config[p] = "trusted"

Admitted(s) == s.user \subseteq totp \/ Trusted(s.provider)

\* get_user: a session whose hash is not the user's signs nobody in.
Stands(s) == \A u \in s.user : s.hash = password[u]

SignedIn(b) == root[b].user # {} /\ Stands(root[b])

\* A mutant: the enrollment page is not among the exempt paths.
NoPathExempt(path) == FALSE

Exempt(path) == path \in {"accounts", "static", "media", "healthz", "readyz", "oauth-help"}

\* allauth's pages are behind the middleware, too.
Reaches(b) == Exempt("accounts") \/ root[b].user = {} \/ Admitted(root[b])

Change == changes < MaxChanges /\ changes' = changes + 1             \* BOUND

\* What the gate reads changes under the requests in flight.
PolicyMoves == req' = [q \in Requests |-> [req[q] EXCEPT !.barred = FALSE]]

Write(b, s) == root' = [root EXCEPT ![b] = s]

SatisfiedBy(b, U) == passed' = passed \cup {<<b, u, now>> : u \in U}

Init ==
    /\ root = [b \in Browsers |-> NewSession(0)]
    /\ tenant = [b \in Browsers |-> {}]
    /\ req = [q \in Requests |-> Idle]
    /\ totp = Enrolled
    /\ password = [u \in Users |-> 0]
    /\ config \in [Providers -> {"absent", "untrusted", "trusted"}]
    /\ active = Users \X Orgs
    /\ keyed = TRUE
    /\ now = 0
    /\ changes = 0
    /\ passed = {}
    /\ refused = {}

-----------------------------------------------------------------------------
(* allauth's pages, each with the receivers of the signals it sends.       *)

\* django.contrib.auth.login: a new key, the data kept.
LoggedIn(s, u, g) ==
    [s EXCEPT !.user = {u}, !.pending = {}, !.gen = g, !.hash = password[u]]

\* The first factor is there; a person with TOTP is asked for the second.
FirstFactor(b, u, s, events) ==
    IF u \in totp
    THEN /\ Write(b, [s EXCEPT !.pending = {u}])
         /\ Record(events)
    ELSE /\ s.gen < MaxGen                                           \* BOUND
         /\ Write(b, LoggedIn(s, u, s.gen + 1))
         /\ Record(events \cup LoggedInEvents)

Password(b, u) ==
    /\ root[b].user = {}
    /\ FirstFactor(b, u, root[b], {})
    /\ UNCHANGED <<tenant, req, policyVars, now, passed>>

PasswordFails(b) ==
    /\ root[b].user = {}
    /\ Record(LoginFailedEvents)
    /\ UNCHANGED <<root, tenant, req, policyVars, now, passed>>

\* social_account_added or _updated writes the provider's code to the
\* session of a person who is not signed in yet.
Callback(b, u, p) ==
    /\ root[b].user = {}
    /\ config[p] # "absent"
    /\ FirstFactor(b, u, [root[b] EXCEPT !.provider = {p}], {"OAUTH_LOGIN_SUCCEEDED"})
    /\ UNCHANGED <<tenant, req, policyVars, now, passed>>

\* A refusal before the adapter is reached, and one after the code is written.
CallbackFails(b, p) ==
    /\ root[b].user = {}
    /\ config[p] # "absent"
    /\ \/ /\ UNCHANGED root
          /\ Record({"OAUTH_LOGIN_FAILED"})
       \/ /\ Write(b, [root[b] EXCEPT !.provider = {p}])
          /\ Record({"OAUTH_LOGIN_SUCCEEDED", "OAUTH_LOGIN_FAILED"})
    /\ UNCHANGED <<tenant, req, policyVars, now, passed>>

\* The second factor: authenticator_used, then the login.
Challenge(b) ==
    /\ root[b].gen < MaxGen                                          \* BOUND
    /\ \E u \in root[b].pending :
         /\ Write(b, LoggedIn([root[b] EXCEPT !.mfa = {now}], u, root[b].gen + 1))
         /\ SatisfiedBy(b, {u})
    /\ Record(LoggedInEvents)
    /\ UNCHANGED <<tenant, req, policyVars, now>>

\* Signed in, a person proves to be there again.
Reauthenticate(b) ==
    /\ SignedIn(b) /\ root[b].user \subseteq totp
    /\ Reaches(b)
    /\ Write(b, [root[b] EXCEPT !.mfa = {now}])
    /\ SatisfiedBy(b, root[b].user)
    /\ Record({})
    /\ UNCHANGED <<tenant, req, policyVars, now>>

\* TOTP is activated, with recovery codes: authenticator_added for each.
Enroll(b) ==
    /\ SignedIn(b) /\ ~(root[b].user \subseteq totp)
    /\ Reaches(b)
    /\ totp' = totp \cup root[b].user
    /\ PolicyMoves
    /\ Write(b, [root[b] EXCEPT !.mfa = {now}])
    /\ SatisfiedBy(b, root[b].user)
    /\ Record(AuthenticatorAddedEvents("totp") \cup AuthenticatorAddedEvents("recovery_codes"))
    /\ UNCHANGED <<tenant, password, config, active, keyed, changes, now>>

\* authenticator_removed leaves the session as it is.
Disable(b) ==
    /\ SignedIn(b) /\ root[b].user \subseteq totp
    /\ Reaches(b)
    /\ Change /\ PolicyMoves
    /\ totp' = totp \ root[b].user
    /\ Record({"MFA_DISABLED"})
    /\ UNCHANGED <<root, tenant, password, config, active, keyed, now, passed>>

\* A signed-in person links an account: the same signal, the same write.
Connect(b, p) ==
    /\ SignedIn(b)
    /\ config[p] # "absent"
    /\ Reaches(b)
    /\ Write(b, [root[b] EXCEPT !.provider = {p}])
    /\ Record({"OAUTH_LOGIN_SUCCEEDED"})
    /\ UNCHANGED <<tenant, req, policyVars, now, passed>>

\* flush(): the row goes, and the next one has another key.
Logout(b) ==
    /\ SignedIn(b)
    /\ root[b].gen < MaxGen                                          \* BOUND
    /\ Reaches(b)
    /\ Write(b, NewSession(root[b].gen + 1))
    /\ Record(LoggedOutEvents("ROOT"))
    /\ UNCHANGED <<tenant, req, policyVars, now, passed>>

(* With ACCOUNT_LOGOUT_ON_PASSWORD_CHANGE allauth does not renew the hash   *)
(* of the session, so this and every other session of the person is void,  *)
(* under a key that stays.  A reset by mail does the same from anywhere.   *)
NewPassword(u) ==
    /\ Change
    /\ password' = [password EXCEPT ![u] = @ + 1]
    /\ UNCHANGED <<root, tenant, req, totp, config, active, keyed, now, passed>>

PasswordChange(b) ==
    /\ SignedIn(b)
    /\ Reaches(b)
    /\ \E u \in root[b].user : NewPassword(u)
    /\ Record({"PASSWORD_CHANGED"})

PasswordReset(u) ==
    /\ NewPassword(u)
    /\ Record({"PASSWORD_RESET_COMPLETED"})

\* A void session goes when its browser next asks for a page: get_user flushes it.
Lapse(b) ==
    /\ \/ /\ root[b].user # {} /\ ~Stands(root[b])
          /\ root[b].gen < MaxGen                                    \* BOUND
          /\ Write(b, NewSession(root[b].gen + 1))
          /\ UNCHANGED tenant
       \/ /\ \E s \in tenant[b] : /\ s.hash # password[s.user]
                                   /\ tenant' = [tenant EXCEPT ![b] = @ \ {s}]
          /\ UNCHANGED root
    /\ Record({})
    /\ UNCHANGED <<req, policyVars, now, passed>>

TenantLogout(b, s) ==
    /\ s \in tenant[b] /\ s.hash = password[s.user]
    /\ s.user \in totp
    /\ tenant' = [tenant EXCEPT ![b] = @ \ {s}]
    /\ Record(LoggedOutEvents("TENANT") \cup {"TENANT_SESSION_LOGOUT"})
    /\ UNCHANGED <<root, req, policyVars, now, passed>>

Page(b) ==
    \/ \E u \in Users : Password(b, u)
    \/ PasswordFails(b)
    \/ \E u \in Users, p \in Providers : Callback(b, u, p)
    \/ \E p \in Providers : CallbackFails(b, p)
    \/ Challenge(b)
    \/ Reauthenticate(b)
    \/ Enroll(b)
    \/ Disable(b)
    \/ \E p \in Providers : Connect(b, p)
    \/ Logout(b)
    \/ PasswordChange(b)
    \/ Lapse(b)
    \/ \E s \in tenant[b] : TenantLogout(b, s)

-----------------------------------------------------------------------------
(* Every other page: the gate, the view, the answer.                       *)
Move(q, r) == req' = [req EXCEPT ![q] = r]

Reply(q, page) == Move(q, [req[q] EXCEPT !.pc = "answer", !.page = page])

\* A request for the picker or the console, or the choice of an organization.
Ask(q, kind, O) ==
    LET s == root[From[q]] IN
    /\ req[q].pc = "idle"
    /\ SignedIn(From[q])
    /\ Move(q, [Idle EXCEPT !.pc = "totp", !.kind = kind, !.org = O, !.copy = s,
                           !.barred = ~Admitted(s)])
    /\ Record({})
    /\ UNCHANGED <<root, tenant, policyVars, now, passed>>

\* A request to a tenant host, whose session has no mph_login_provider_code.
AskTenant(q, s) ==
    LET c == [NewSession(0) EXCEPT !.user = {s.user}, !.hash = s.hash] IN
    /\ req[q].pc = "idle"
    /\ s \in tenant[From[q]] /\ s.hash = password[s.user]
    /\ Move(q, [Idle EXCEPT !.pc = "totp", !.kind = "landing", !.org = {s.org}, !.copy = c,
                           !.barred = ~Admitted(c), !.vouched = s.provider])
    /\ Record({})
    /\ UNCHANGED <<root, tenant, policyVars, now, passed>>

\* The once-flag of a tenant session is left out: the event is there or not.
RecordOnce(r, note, event) ==
    IF r.kind = "landing"
    THEN \E E \in {{}, {event}} : Record(E)
    ELSE Record(IF note \in r.copy.told THEN {} ELSE {event})

Noted(r, note) ==
    [r EXCEPT !.copy.told = @ \cup {note}, !.changed = @ \/ note \notin r.copy.told]

\* A redirect to MFA_ENROLLMENT_URL.
Refuse(q, note, event) ==
    /\ Move(q, [Noted(req[q], note) EXCEPT !.pc = "answer", !.page = "enroll"])
    /\ RecordOnce(req[q], note, event)
    /\ UNCHANGED <<root, tenant, policyVars, now, passed>>

\* A mutant: who was let in once is let in again.
LetInBefore(s) == s.user \subseteq totp \/ "trusted" \in s.told

HasTotp(s) == s.user \subseteq totp

GateTotp(q) ==
    /\ req[q].pc = "totp"
    /\ \/ /\ HasTotp(req[q].copy)
          /\ Move(q, [req[q] EXCEPT !.pc = "view"])
          /\ Record({})
          /\ UNCHANGED <<root, tenant, policyVars, now, passed>>
       \/ /\ ~HasTotp(req[q].copy) /\ req[q].copy.provider = {}
          /\ Refuse(q, "local", "LOCAL_MFA_CHALLENGE_REQUIRED")
       \/ /\ ~HasTotp(req[q].copy) /\ req[q].copy.provider # {}
          /\ Move(q, [req[q] EXCEPT !.pc = "config"])
          /\ Record({})
          /\ UNCHANGED <<root, tenant, policyVars, now, passed>>

\* A trusted provider's word is recorded as MFA, once for a session.
Vouched(r) ==
    IF r.copy.mfa = {} THEN [r EXCEPT !.copy.mfa = {now}, !.changed = TRUE] ELSE r

GateConfig(q) ==
    LET r == req[q] IN
    /\ r.pc = "config"
    /\ \/ /\ ~Trusted(r.copy.provider)
          /\ Refuse(q, "untrusted", "OAUTH_PROVIDER_MFA_NOT_TRUSTED")
       \/ /\ Trusted(r.copy.provider)
          /\ Move(q, [Noted(Vouched(r), "trusted") EXCEPT !.pc = "view"])
          /\ IF r.copy.mfa = {} THEN SatisfiedBy(From[q], r.copy.user)
                                ELSE UNCHANGED passed
          /\ RecordOnce(r, "trusted", "OAUTH_PROVIDER_MFA_TRUSTED")
          /\ UNCHANGED <<root, tenant, policyVars, now>>

\* SelectOrgView by who asks and how many active memberships there are,
\* HandoffIssueView for one of them, the console, the tenant's landing page.
View(q) ==
    LET r == req[q]
        isStaff == r.copy.user \subseteq Staff
        mine == {o \in Orgs : \E u \in r.copy.user : <<u, o>> \in active}
    IN
    /\ r.pc = "view"
    /\ \/ /\ r.kind = "select" /\ mine = {} /\ ~isStaff
          /\ Reply(q, "noaccess")
       \/ /\ r.kind = "select" /\ ~isStaff
          /\ \E o \in mine : /\ mine = {o}
                            /\ Move(q, [r EXCEPT !.pc = "issue", !.org = mine])
       \/ /\ r.kind = "select" /\ (isStaff \/ Cardinality(mine) > 1)
          /\ Reply(q, "picker")
       \/ /\ r.kind = "issue" /\ r.org \subseteq mine
          /\ Move(q, [r EXCEPT !.pc = "issue"])
       \/ /\ r.kind = "issue" /\ ~(r.org \subseteq mine)
          /\ Reply(q, "missing")
       \/ /\ r.kind = "console"
          /\ Reply(q, IF isStaff THEN "console" ELSE "forbidden")
       \/ /\ r.kind = "landing"
          /\ Reply(q, "landing")
    /\ Record({})
    /\ UNCHANGED <<root, tenant, policyVars, now, passed>>

\* _read_mfa_satisfied_at, which falls back to the clock.
SatisfiedAt(s) == IF s.mfa = {} THEN now ELSE CHOOSE t \in s.mfa : TRUE

\* A mutant: a login that is too old counts as a new one.
NeverStale(t) == FALSE

Stale(t) == now > t + Limit

\* issue_handoff_token checks its parameters, then looks for a key; the
\* view expects only that there is no key.
Issue(q) ==
    LET r == req[q]
        t == SatisfiedAt(r.copy)
    IN
    /\ r.pc = "issue"
    /\ \E u \in r.copy.user, o \in r.org :
         \/ /\ Stale(t) \/ <<u, o>> \notin active
            /\ Reply(q, "error")
            /\ Record({})
         \/ /\ ~Stale(t) /\ <<u, o>> \in active /\ ~keyed
            /\ Reply(q, "unavailable")
            /\ Record({})
         \/ /\ ~Stale(t) /\ <<u, o>> \in active /\ keyed
            /\ Move(q, [r EXCEPT !.pc = "answer", !.page = "form",
                                !.claim = {[user |-> u, provider |-> r.copy.provider,
                                            mfa |-> t, at |-> now]}])
            /\ Record({"HANDOFF_TOKEN_ISSUED", "MEMBERSHIP_SELECTED"})
    /\ UNCHANGED <<root, tenant, policyVars, now, passed>>

\* A mutant: a session whose key is gone is written anew.
KeyForgotten(b, g) == TRUE

KeyStands(b, g) == root[b].gen = g

\* process_response: what was changed is saved as a whole, unless the page
\* failed.  Saving a session whose row is gone fails the page.
Saves(r) == r.kind # "landing" /\ r.changed /\ r.page \notin Failures

(* The browser posts the form to the tenant host, or does not.  Of the     *)
(* token's own life HandoffTokens speaks.                                  *)
Answer(q) ==
    LET r == req[q]
        b == From[q]
        sound == Saves(r) => KeyStands(b, r.copy.gen)
    IN
    /\ r.pc = "answer"
    /\ IF Saves(r) /\ sound THEN Write(b, r.copy) ELSE UNCHANGED root
    /\ \/ UNCHANGED tenant /\ Record({})
       \/ /\ r.page = "form" /\ sound
          /\ \E c \in r.claim, o \in r.org :
               tenant' = [tenant EXCEPT ![b] =
                   {s \in @ : s.org # o}
                     \cup {[user |-> c.user, org |-> o, provider |-> c.provider,
                             hash |-> password[c.user]]}]
          /\ Record({"HANDOFF_TOKEN_CONSUMED", "TENANT_SESSION_ESTABLISHED"}
                       \cup LoggedInEvents)
    /\ Move(q, Idle)
    /\ UNCHANGED <<policyVars, now, passed>>

Serve(q) == GateTotp(q) \/ GateConfig(q) \/ View(q) \/ Issue(q) \/ Answer(q)

-----------------------------------------------------------------------------
(* Staff, operators and time.                                              *)
SetTrust(p, v) ==
    /\ config[p] # v
    /\ Change /\ PolicyMoves
    /\ config' = [config EXCEPT ![p] = v]
    /\ Record({})
    /\ UNCHANGED <<root, tenant, totp, password, active, keyed, now, passed>>

KeysChange ==
    /\ Change
    /\ keyed' = ~keyed
    /\ Record({})
    /\ UNCHANGED <<root, tenant, req, totp, password, config, active, now, passed>>

MembershipChanges(u, o) ==
    /\ Change
    /\ active' = (active \ {<<u, o>>}) \cup ({<<u, o>>} \ active)
    /\ Record({})
    /\ UNCHANGED <<root, tenant, req, totp, password, config, keyed, now, passed>>

Tick ==
    /\ now < MaxTime                                                 \* BOUND
    /\ now' = now + 1
    /\ Record({})
    /\ UNCHANGED <<root, tenant, req, policyVars, passed>>

World ==
    \/ \E p \in Providers, v \in {"absent", "untrusted", "trusted"} : SetTrust(p, v)
    \/ KeysChange
    \/ \E u \in Users, o \in Orgs : MembershipChanges(u, o)
    \/ \E u \in Users : PasswordReset(u)
    \/ Tick

Asks(q) ==
    \/ Ask(q, "select", {})
    \/ Ask(q, "console", {})
    \/ \E o \in Orgs : Ask(q, "issue", {o})
    \/ \E s \in tenant[From[q]] : AskTenant(q, s)

Next ==
    \/ \E b \in Browsers : Page(b)
    \/ \E q \in Requests : Asks(q)
    \/ \E q \in Requests : Serve(q)
    \/ World

Spec == Init /\ [][Next]_loginVars

(* A request that is being served is answered; a person who is shown the   *)
(* enrollment page goes through with it, and asks for the picker again.    *)
Fairness ==
    /\ \A q \in Requests : WF_loginVars(Serve(q)) /\ SF_loginVars(Ask(q, "select", {}))
    /\ \A b \in Browsers : WF_loginVars(Enroll(b))

FairSpec == Spec /\ Fairness

-----------------------------------------------------------------------------
(* Everything has its type, and no page records an event that the audit    *)
(* service does not know: its error would break the page (_audit.py:104).  *)
LoginTypeOK ==
    /\ root \in [Browsers -> Session]
    /\ tenant \in [Browsers -> SUBSET TenantSession]
    /\ req \in [Requests -> Calls]
    /\ totp \subseteq Users
    /\ password \in [Users -> Nat]
    /\ config \in [Providers -> {"absent", "untrusted", "trusted"}]
    /\ active \subseteq Users \X Orgs
    /\ keyed \in BOOLEAN
    /\ now \in Times
    /\ changes \in 0 .. MaxChanges
    /\ passed \subseteq Browsers \X Users \X Times
    /\ refused = {}

(* A token is issued for an MFA that the person did satisfy in this very   *)
(* browser, at the time the token says and no longer ago than the limit;   *)
(* only with no such time in the session does it name its own               *)
(* (_issue.py:244, views_select_org.py:265).                               *)
TokensAreVouchedFor ==
    \A q \in Requests : \A c \in req[q].claim :
        /\ c.mfa <= c.at /\ c.at <= c.mfa + Limit
        /\ req[q].copy.user = {c.user}
        /\ IF req[q].copy.mfa = {}
           THEN c.mfa = c.at
           ELSE <<From[q], c.user, c.mfa>> \in passed

(* A person whom the gate's policy is against, from the request's start to *)
(* its end, gets nothing from behind the gate, whatever an earlier request *)
(* noted in the session (middleware.py:97).                                *)
PolicyTakesEffect ==
    \A q \in Requests : req[q].barred => req[q].page \notin Guarded

(* A key that a login or a logout took away does not come back, and under  *)
(* a key that stays nobody signs in: neither anybody else nor whom a       *)
(* change of password has signed out.  A request in flight saves its copy  *)
(* only over the session it loaded (sessions/middleware.py:105).           *)
LogoutIsFinal ==
    [][\A b \in Browsers :
        /\ root'[b].gen >= root[b].gen
        /\ root'[b].gen = root[b].gen =>
             root'[b].user = root[b].user /\ (SignedIn(b)' => SignedIn(b))]_loginVars

(* The gate can be satisfied: its enrollment page is outside of it, so a   *)
(* person who is signed in and tries ends up behind the gate, or is signed *)
(* out (middleware.py:94).                                                 *)
EnrolmentOpensTheDoor ==
    \A b \in Browsers :
        SignedIn(b) ~>
            \/ ~SignedIn(b)
            \/ \E q \in Requests :
                  From[q] = b /\ req[q].pc = "answer" /\ req[q].page # "enroll"

(* "Trusted provider - bypass local enrollment" (middleware.py:128).       *)
TrustedIsLetIn ==
    \A q \in Requests :
        req[q].page = "enroll" => ~Trusted(req[q].copy.provider \cup req[q].vouched)

=============================================================================
