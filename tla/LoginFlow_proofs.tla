-------------------------- MODULE LoginFlow_proofs --------------------------
(***************************************************************************)
(* Proofs about LoginFlow, for any people, browsers, overlapping requests, *)
(* providers, organizations and staleness limit, and with no bound on the  *)
(* clock, the session keys or the changes but that they are numbers.       *)
(***************************************************************************)
EXTENDS LoginFlow, TLAPS

(* Records of sessions and requests.                                       *)
LEMMA NewSessionTyped ==
    ASSUME NEW g \in 0 .. MaxGen
    PROVE  NewSession(g) \in Session
BY DEF NewSession, Session

LEMMA LoggedInTyped ==
    ASSUME NEW s \in Session, NEW u \in Users, NEW g \in 0 .. MaxGen,
           password \in [Users -> Nat]
    PROVE  LoggedIn(s, u, g) \in Session
BY DEF LoggedIn, Session

LEMMA SessionFieldsTyped ==
    ASSUME NEW s \in Session
    PROVE  /\ s.user \in SUBSET Users /\ s.pending \in SUBSET Users
           /\ s.provider \in SUBSET Providers /\ s.mfa \in SUBSET Times
           /\ s.told \in SUBSET Notes /\ s.gen \in 0 .. MaxGen /\ s.hash \in Nat
           /\ \A U \in SUBSET Users : [s EXCEPT !.user = U] \in Session
           /\ \A U \in SUBSET Users : [s EXCEPT !.pending = U] \in Session
           /\ \A P \in SUBSET Providers : [s EXCEPT !.provider = P] \in Session
           /\ \A T \in SUBSET Times : [s EXCEPT !.mfa = T] \in Session
           /\ \A g \in 0 .. MaxGen : [s EXCEPT !.gen = g] \in Session
BY DEF Session

LEMMA WriteTyped ==
    ASSUME root \in [Browsers -> Session], NEW b \in Browsers, NEW s \in Session, Write(b, s)
    PROVE  root' \in [Browsers -> Session]
BY DEF Write

LEMMA KnownIsSilent ==
    ASSUME NEW E \in SUBSET KnownEvents, refused = {}, Record(E)
    PROVE  refused' = {}
BY DEF Record

LEMMA EventsKnown ==
    /\ {} \subseteq KnownEvents
    /\ LoggedInEvents \subseteq KnownEvents
    /\ LoginFailedEvents \subseteq KnownEvents
    /\ \A sc : LoggedOutEvents(sc) \subseteq KnownEvents
    /\ \A ty : AuthenticatorAddedEvents(ty) \subseteq KnownEvents
BY DEF KnownEvents, LoggedInEvents, LoginFailedEvents, LoggedOutEvents, AuthenticatorAddedEvents

\* The parts of the type invariant that the actions disturb apart.
SessionsTyped == root \in [Browsers -> Session] /\ tenant \in [Browsers -> SUBSET TenantSession]

RequestsTyped == req \in [Requests -> Calls]

PolicyTyped ==
    /\ totp \subseteq Users
    /\ password \in [Users -> Nat]
    /\ config \in [Providers -> {"absent", "untrusted", "trusted"}]
    /\ active \subseteq Users \X Orgs
    /\ keyed \in BOOLEAN
    /\ changes \in 0 .. MaxChanges

HistoryTyped == now \in Times /\ passed \subseteq Browsers \X Users \X Times /\ refused = {}

LEMMA TypeParts ==
    /\ LoginTypeOK <=> SessionsTyped /\ RequestsTyped /\ PolicyTyped /\ HistoryTyped
    /\ LoginTypeOK' <=> SessionsTyped' /\ RequestsTyped' /\ PolicyTyped' /\ HistoryTyped'
BY DEF LoginTypeOK, SessionsTyped, RequestsTyped, PolicyTyped, HistoryTyped

LEMMA SatisfiedTyped ==
    ASSUME HistoryTyped, NEW b \in Browsers, NEW U \in SUBSET Users, SatisfiedBy(b, U)
    PROVE  passed' \subseteq Browsers \X Users \X Times
BY DEF HistoryTyped, SatisfiedBy

LEMMA PolicyMovesTyped ==
    ASSUME RequestsTyped, PolicyMoves
    PROVE  RequestsTyped'
<1>1. \A q \in Requests : [req[q] EXCEPT !.barred = FALSE] \in Calls
  BY DEF RequestsTyped, Calls
<1>. HIDE DEF Calls
<1>. QED
  BY <1>1 DEF RequestsTyped, PolicyMoves

LEMMA ChangeTyped ==
    ASSUME PolicyTyped, Change
    PROVE  changes' \in 0 .. MaxChanges
BY LoginAssumption DEF PolicyTyped, Change

LEMMA NewPasswordTyped ==
    ASSUME LoginTypeOK, NEW u \in Users, NEW E \in SUBSET KnownEvents,
           NewPassword(u), Record(E)
    PROVE  LoginTypeOK'
<1>. USE TypeParts
<1>1. SessionsTyped /\ RequestsTyped /\ PolicyTyped /\ HistoryTyped
  OBVIOUS
<1>2. changes' \in 0 .. MaxChanges /\ password' \in [Users -> Nat]
  BY <1>1, ChangeTyped DEF NewPassword, PolicyTyped
<1>3. refused' = {}
  BY <1>1, KnownIsSilent DEF HistoryTyped
<1>. QED
  BY <1>1, <1>2, <1>3 DEF NewPassword, SessionsTyped, RequestsTyped, PolicyTyped, HistoryTyped

-----------------------------------------------------------------------------
(* allauth's pages keep the types.                                         *)
LEMMA FirstFactorTyped ==
    ASSUME LoginTypeOK, NEW b \in Browsers, NEW u \in Users, NEW s \in Session,
           NEW E \in SUBSET KnownEvents, FirstFactor(b, u, s, E)
    PROVE  root' \in [Browsers -> Session] /\ refused' = {}
<1>1. root \in [Browsers -> Session] /\ refused = {} /\ password \in [Users -> Nat]
  BY DEF LoginTypeOK
<1>2. CASE u \in totp
  <2>1. [s EXCEPT !.pending = {u}] \in Session
    BY SessionFieldsTyped
  <2>. QED
    BY <1>1, <1>2, <2>1, WriteTyped, KnownIsSilent DEF FirstFactor
<1>3. CASE u \notin totp
  <2>1. s.gen + 1 \in 0 .. MaxGen
    BY <1>3, SessionFieldsTyped, LoginAssumption DEF FirstFactor
  <2>2. LoggedIn(s, u, s.gen + 1) \in Session
    BY <1>1, <2>1, LoggedInTyped
  <2>3. E \cup LoggedInEvents \in SUBSET KnownEvents
    BY EventsKnown
  <2>. QED
    BY <1>1, <1>3, <2>2, <2>3, WriteTyped, KnownIsSilent DEF FirstFactor
<1>. QED
  BY <1>2, <1>3

LEMMA PageTyped ==
    ASSUME LoginTypeOK, NEW b \in Browsers, Page(b)
    PROVE  LoginTypeOK'
<1>. USE TypeParts
<1>1. SessionsTyped /\ RequestsTyped /\ PolicyTyped /\ HistoryTyped
  OBVIOUS
<1>2. root[b] \in Session /\ root \in [Browsers -> Session] /\ refused = {} /\ {now} \in SUBSET Times
        /\ passed \subseteq Browsers \X Users \X Times /\ tenant \in [Browsers -> SUBSET TenantSession]
        /\ password \in [Users -> Nat]
  BY <1>1 DEF SessionsTyped, HistoryTyped, PolicyTyped
<1>3. /\ root[b].user \in SUBSET Users /\ root[b].pending \in SUBSET Users
      /\ root[b].gen \in 0 .. MaxGen
      /\ \A P \in SUBSET Providers : [root[b] EXCEPT !.provider = P] \in Session
      /\ [root[b] EXCEPT !.mfa = {now}] \in Session
  BY <1>2, SessionFieldsTyped
<1>4. root[b].gen < MaxGen => root[b].gen + 1 \in 0 .. MaxGen
  BY <1>3, LoginAssumption
<1>. HIDE DEF Session
<1>5. ASSUME NEW u \in Users, Password(b, u) PROVE LoginTypeOK'
  <2>1. root' \in [Browsers -> Session] /\ refused' = {}
    BY <1>2, <1>5, FirstFactorTyped, EventsKnown DEF Password
  <2>. QED
    BY <1>1, <1>5, <2>1 DEF Password, SessionsTyped, RequestsTyped, PolicyTyped, HistoryTyped, policyVars
<1>6. CASE PasswordFails(b)
  <2>1. refused' = {}
    BY <1>2, <1>6, EventsKnown, KnownIsSilent DEF PasswordFails
  <2>. QED
    BY <1>1, <1>6, <2>1 DEF PasswordFails, SessionsTyped, RequestsTyped, PolicyTyped, HistoryTyped, policyVars
<1>7. ASSUME NEW u \in Users, NEW p \in Providers, Callback(b, u, p) PROVE LoginTypeOK'
  <2>1. [root[b] EXCEPT !.provider = {p}] \in Session /\ {"OAUTH_LOGIN_SUCCEEDED"} \in SUBSET KnownEvents
    BY <1>3 DEF KnownEvents
  <2>2. root' \in [Browsers -> Session] /\ refused' = {}
    BY <1>7, <2>1, FirstFactorTyped DEF Callback
  <2>. QED
    BY <1>1, <1>7, <2>2 DEF Callback, SessionsTyped, RequestsTyped, PolicyTyped, HistoryTyped, policyVars
<1>8. ASSUME NEW p \in Providers, CallbackFails(b, p) PROVE LoginTypeOK'
  <2>1. [root[b] EXCEPT !.provider = {p}] \in Session /\ {"OAUTH_LOGIN_FAILED"} \in SUBSET KnownEvents
          /\ {"OAUTH_LOGIN_SUCCEEDED", "OAUTH_LOGIN_FAILED"} \in SUBSET KnownEvents
    BY <1>3 DEF KnownEvents
  <2>2. root' \in [Browsers -> Session] /\ refused' = {}
    BY <1>2, <1>8, <2>1, WriteTyped, KnownIsSilent DEF CallbackFails
  <2>. QED
    BY <1>1, <1>8, <2>2 DEF CallbackFails, SessionsTyped, RequestsTyped, PolicyTyped, HistoryTyped, policyVars
<1>9. CASE Challenge(b)
  <2>1. PICK u \in root[b].pending :
          /\ Write(b, LoggedIn([root[b] EXCEPT !.mfa = {now}], u, root[b].gen + 1))
          /\ SatisfiedBy(b, {u})
    BY <1>9 DEF Challenge
  <2>2. u \in Users /\ root[b].gen + 1 \in 0 .. MaxGen
    BY <1>3, <1>4, <1>9 DEF Challenge
  <2>3. LoggedIn([root[b] EXCEPT !.mfa = {now}], u, root[b].gen + 1) \in Session
    BY <1>2, <1>3, <2>2, LoggedInTyped
  <2>4. root' \in [Browsers -> Session]
    BY <1>2, <2>1, <2>3, WriteTyped
  <2>5. passed' \subseteq Browsers \X Users \X Times
    BY <1>1, <2>1, <2>2, SatisfiedTyped
  <2>6. refused' = {}
    BY <1>2, <1>9, EventsKnown, KnownIsSilent DEF Challenge
  <2>. QED
    BY <1>1, <1>9, <2>4, <2>5, <2>6 DEF Challenge, SessionsTyped, RequestsTyped, PolicyTyped, HistoryTyped, policyVars
<1>10. CASE Reauthenticate(b)
  <2>1. root' \in [Browsers -> Session]
    BY <1>2, <1>3, <1>10, WriteTyped DEF Reauthenticate
  <2>2. passed' \subseteq Browsers \X Users \X Times
    BY <1>1, <1>3, <1>10, SatisfiedTyped DEF Reauthenticate
  <2>3. refused' = {}
    BY <1>2, <1>10, EventsKnown, KnownIsSilent DEF Reauthenticate
  <2>. QED
    BY <1>1, <1>10, <2>1, <2>2, <2>3 DEF Reauthenticate, SessionsTyped, RequestsTyped, PolicyTyped, HistoryTyped, policyVars
<1>11. CASE Enroll(b)
  <2>1. root' \in [Browsers -> Session]
    BY <1>2, <1>3, <1>11, WriteTyped DEF Enroll
  <2>2. passed' \subseteq Browsers \X Users \X Times
    BY <1>1, <1>3, <1>11, SatisfiedTyped DEF Enroll
  <2>3. AuthenticatorAddedEvents("totp") \cup AuthenticatorAddedEvents("recovery_codes") \in SUBSET KnownEvents
    BY EventsKnown
  <2>4. refused' = {}
    BY <1>2, <1>11, <2>3, KnownIsSilent DEF Enroll
  <2>5. RequestsTyped'
    BY <1>1, <1>11, PolicyMovesTyped DEF Enroll
  <2>. QED
    BY <1>1, <1>3, <1>11, <2>1, <2>2, <2>4, <2>5 DEF Enroll, SessionsTyped, PolicyTyped, HistoryTyped
<1>12. CASE Disable(b)
  <2>1. refused' = {}
    <3>1. {"MFA_DISABLED"} \in SUBSET KnownEvents
      BY DEF KnownEvents
    <3>. QED
      BY <1>2, <1>12, <3>1, KnownIsSilent DEF Disable
  <2>2. RequestsTyped' /\ changes' \in 0 .. MaxChanges
    BY <1>1, <1>12, PolicyMovesTyped, ChangeTyped DEF Disable
  <2>. QED
    BY <1>1, <1>12, <2>1, <2>2 DEF Disable, SessionsTyped, PolicyTyped, HistoryTyped
<1>13. ASSUME NEW p \in Providers, Connect(b, p) PROVE LoginTypeOK'
  <2>1. [root[b] EXCEPT !.provider = {p}] \in Session /\ {"OAUTH_LOGIN_SUCCEEDED"} \in SUBSET KnownEvents
    BY <1>3 DEF KnownEvents
  <2>2. root' \in [Browsers -> Session] /\ refused' = {}
    BY <1>2, <1>13, <2>1, WriteTyped, KnownIsSilent DEF Connect
  <2>. QED
    BY <1>1, <1>13, <2>2 DEF Connect, SessionsTyped, RequestsTyped, PolicyTyped, HistoryTyped, policyVars
<1>14. CASE Logout(b)
  <2>1. NewSession(root[b].gen + 1) \in Session
    BY <1>4, <1>14, NewSessionTyped DEF Logout
  <2>2. root' \in [Browsers -> Session]
    BY <1>2, <1>14, <2>1, WriteTyped DEF Logout
  <2>3. refused' = {}
    BY <1>2, <1>14, EventsKnown, KnownIsSilent DEF Logout
  <2>. QED
    BY <1>1, <1>14, <2>2, <2>3 DEF Logout, SessionsTyped, RequestsTyped, PolicyTyped, HistoryTyped, policyVars
<1>15. CASE PasswordChange(b)
  <2>1. PICK u \in root[b].user : NewPassword(u)
    BY <1>15 DEF PasswordChange
  <2>2. {"PASSWORD_CHANGED"} \in SUBSET KnownEvents
    BY DEF KnownEvents
  <2>. QED
    BY <1>1, <1>3, <1>15, <2>1, <2>2, NewPasswordTyped DEF PasswordChange
<1>15a. CASE Lapse(b)
  <2>1. root' \in [Browsers -> Session] /\ tenant' \in [Browsers -> SUBSET TenantSession]
    <3>1. CASE root[b].gen < MaxGen /\ Write(b, NewSession(root[b].gen + 1)) /\ UNCHANGED tenant
      BY <1>2, <1>4, <3>1, NewSessionTyped, WriteTyped
    <3>2. CASE UNCHANGED root /\ \E s \in tenant[b] : tenant' = [tenant EXCEPT ![b] = @ \ {s}]
      <4>. HIDE DEF TenantSession
      <4>. QED
        BY <1>2, <3>2
    <3>. QED
      BY <1>15a, <3>1, <3>2 DEF Lapse
  <2>2. refused' = {}
    BY <1>2, <1>15a, EventsKnown, KnownIsSilent DEF Lapse
  <2>. QED
    BY <1>1, <1>15a, <2>1, <2>2 DEF Lapse, SessionsTyped, RequestsTyped, PolicyTyped, HistoryTyped, policyVars
<1>16. ASSUME NEW s \in tenant[b], TenantLogout(b, s) PROVE LoginTypeOK'
  <2>1. tenant' \in [Browsers -> SUBSET TenantSession]
    BY <1>2, <1>16 DEF TenantLogout
  <2>2. LoggedOutEvents("TENANT") \cup {"TENANT_SESSION_LOGOUT"} \in SUBSET KnownEvents
    BY EventsKnown DEF KnownEvents
  <2>3. refused' = {}
    BY <1>2, <1>16, <2>2, KnownIsSilent DEF TenantLogout
  <2>. QED
    BY <1>1, <1>16, <2>1, <2>3 DEF TenantLogout, SessionsTyped, RequestsTyped, PolicyTyped, HistoryTyped, policyVars
<1>. HIDE DEF LoginTypeOK
<1>. QED
  BY <1>5, <1>6, <1>7, <1>8, <1>9, <1>10, <1>11, <1>12, <1>13, <1>14, <1>15, <1>15a, <1>16 DEF Page

-----------------------------------------------------------------------------
(* What staff do, and time, keep the types.                                *)
LEMMA WorldTyped ==
    ASSUME LoginTypeOK, World
    PROVE  LoginTypeOK'
<1>. USE TypeParts
<1>1. SessionsTyped /\ RequestsTyped /\ PolicyTyped /\ HistoryTyped
  OBVIOUS
<1>2. refused = {}
  BY <1>1 DEF HistoryTyped
<1>3. Record({}) => refused' = {}
  BY <1>2, EventsKnown, KnownIsSilent
<1>4. ASSUME NEW p \in Providers, NEW v \in {"absent", "untrusted", "trusted"}, SetTrust(p, v)
      PROVE  LoginTypeOK'
  <2>1. RequestsTyped' /\ changes' \in 0 .. MaxChanges
    BY <1>1, <1>4, PolicyMovesTyped, ChangeTyped DEF SetTrust
  <2>. QED
    BY <1>1, <1>3, <1>4, <2>1 DEF SetTrust, SessionsTyped, PolicyTyped, HistoryTyped
<1>5. CASE KeysChange
  <2>1. changes' \in 0 .. MaxChanges /\ keyed' \in BOOLEAN
    BY <1>1, <1>5, ChangeTyped DEF KeysChange
  <2>. QED
    BY <1>1, <1>3, <1>5, <2>1 DEF KeysChange, SessionsTyped, RequestsTyped, PolicyTyped, HistoryTyped
<1>6. ASSUME NEW u \in Users, NEW o \in Orgs, MembershipChanges(u, o) PROVE LoginTypeOK'
  <2>1. changes' \in 0 .. MaxChanges /\ active' \subseteq Users \X Orgs
    BY <1>1, <1>6, ChangeTyped DEF MembershipChanges, PolicyTyped
  <2>. QED
    BY <1>1, <1>3, <1>6, <2>1 DEF MembershipChanges, SessionsTyped, RequestsTyped, PolicyTyped, HistoryTyped
<1>7. CASE Tick
  <2>1. now' \in Times
    BY <1>1, <1>7, LoginAssumption DEF Tick, HistoryTyped, Times
  <2>2. refused' = {} /\ passed' \subseteq Browsers \X Users \X Times
    BY <1>1, <1>3, <1>7 DEF Tick, HistoryTyped
  <2>. QED
    BY <1>1, <1>7, <2>1, <2>2 DEF Tick, SessionsTyped, RequestsTyped, PolicyTyped, HistoryTyped, policyVars
<1>8. ASSUME NEW u \in Users, PasswordReset(u) PROVE LoginTypeOK'
  <2>1. {"PASSWORD_RESET_COMPLETED"} \in SUBSET KnownEvents
    BY DEF KnownEvents
  <2>. QED
    BY <1>8, <2>1, NewPasswordTyped DEF PasswordReset
<1>. HIDE DEF LoginTypeOK
<1>. QED
  BY <1>4, <1>5, <1>6, <1>7, <1>8 DEF World

-----------------------------------------------------------------------------
(* A step of a request, from the outside: its record becomes r.            *)
LEMMA MoveTyped ==
    ASSUME RequestsTyped, NEW q \in Requests, NEW r \in Calls, Move(q, r)
    PROVE  RequestsTyped'
BY DEF RequestsTyped, Move

LEMMA CallFieldsTyped ==
    ASSUME NEW r \in Calls
    PROVE  /\ r.pc \in Steps /\ r.kind \in Kinds /\ r.org \in SUBSET Orgs
           /\ r.copy \in Session /\ r.changed \in BOOLEAN /\ r.page \in Answers
           /\ r.claim \in SUBSET Claims /\ r.barred \in BOOLEAN
           /\ \A pc \in Steps : [r EXCEPT !.pc = pc] \in Calls
           /\ \A pc \in Steps, pg \in Answers : [r EXCEPT !.pc = pc, !.page = pg] \in Calls
           /\ \A pc \in Steps, O \in SUBSET Orgs : [r EXCEPT !.pc = pc, !.org = O] \in Calls
           /\ \A c \in Session, ch \in BOOLEAN : [r EXCEPT !.copy = c, !.changed = ch] \in Calls
           /\ \A pc \in Steps, pg \in Answers, C \in SUBSET Claims :
                [r EXCEPT !.pc = pc, !.page = pg, !.claim = C] \in Calls
BY DEF Calls

LEMMA IdleTyped == Idle \in Calls
<1>1. NewSession(0) \in Session
  BY NewSessionTyped, LoginAssumption
<1>. HIDE DEF Session, NewSession
<1>. QED
  BY <1>1 DEF Idle, Calls, Steps, Kinds, Answers

(* What the gate notes in the copy: a flag, and a time.                    *)
LEMMA NotedIs ==
    ASSUME NEW r \in Calls, NEW n \in Notes
    PROVE  /\ Noted(r, n) \in Calls
           /\ Noted(r, n).copy = [r.copy EXCEPT !.told = r.copy.told \cup {n}]
           /\ \A pc \in Steps :
                [Noted(r, n) EXCEPT !.pc = pc].copy = Noted(r, n).copy
           /\ Noted(r, n).pc = r.pc /\ Noted(r, n).kind = r.kind /\ Noted(r, n).page = r.page
           /\ Noted(r, n).claim = r.claim /\ Noted(r, n).barred = r.barred
           /\ Noted(r, n).org = r.org
<1>1. r.copy \in Session
  BY CallFieldsTyped
<1>2. [r.copy EXCEPT !.told = r.copy.told \cup {n}] \in Session
  BY <1>1 DEF Session
<1>3. [r EXCEPT !.copy = [r.copy EXCEPT !.told = r.copy.told \cup {n}],
               !.changed = r.changed \/ n \notin r.copy.told] = Noted(r, n)
  BY DEF Noted, Calls
<1>4. (r.changed \/ n \notin r.copy.told) \in BOOLEAN
  OBVIOUS
<1>5. Noted(r, n) \in Calls
  BY <1>2, <1>3, <1>4, CallFieldsTyped
<1>. HIDE DEF Session
<1>. QED
  BY <1>3, <1>5 DEF Calls

LEMMA VouchedIs ==
    ASSUME NEW r \in Calls, now \in Times
    PROVE  /\ Vouched(r) \in Calls
           /\ Vouched(r).copy = IF r.copy.mfa = {} THEN [r.copy EXCEPT !.mfa = {now}] ELSE r.copy
           /\ Vouched(r).pc = r.pc /\ Vouched(r).kind = r.kind /\ Vouched(r).page = r.page
           /\ Vouched(r).claim = r.claim /\ Vouched(r).barred = r.barred
           /\ Vouched(r).org = r.org
<1>1. r.copy \in Session
  BY CallFieldsTyped
<1>2. [r.copy EXCEPT !.mfa = {now}] \in Session
  BY <1>1 DEF Session
<1>3. CASE r.copy.mfa = {}
  <2>1. Vouched(r) = [r EXCEPT !.copy = [r.copy EXCEPT !.mfa = {now}], !.changed = TRUE]
    BY <1>3 DEF Vouched, Calls
  <2>2. Vouched(r) \in Calls
    BY <1>2, <2>1, CallFieldsTyped
  <2>. HIDE DEF Session
  <2>. QED
    BY <1>3, <2>1, <2>2 DEF Calls
<1>4. CASE r.copy.mfa # {}
  BY <1>4 DEF Vouched
<1>. QED
  BY <1>3, <1>4

-----------------------------------------------------------------------------
(* What a person's request does to its own record.  The four parts are     *)
(* what the safety properties rest on.                                     *)

\* The copy's times are those at which its person satisfied MFA.
CopyGood(q) ==
    /\ req[q].pc # "idle" => req[q].copy.user # {}
    /\ \A u \in req[q].copy.user, v \in req[q].copy.user : u = v
    /\ req[q].copy.user = {} => req[q].copy.mfa = {}
    /\ \A t \in req[q].copy.mfa :
         t <= now /\ \A u \in req[q].copy.user : <<From[q], u, t>> \in passed

\* A copy is older than the session, or of the same person and password.
CopyLoaded(q) ==
    req[q].pc # "idle" /\ req[q].kind # "landing" =>
        /\ req[q].copy.gen <= root[From[q]].gen
        /\ req[q].copy.gen = root[From[q]].gen =>
             /\ req[q].copy.user = root[From[q]].user
             /\ req[q].copy.hash = root[From[q]].hash

\* A request that the policy is against has not passed the gate, and will not.
KeptOut(q) ==
    req[q].barred =>
        /\ req[q].page \notin Guarded
        /\ req[q].pc \notin {"view", "issue"}
        /\ ~(req[q].copy.user \subseteq totp)
        /\ \A p \in req[q].copy.provider : config[p] # "trusted"

\* A token's claims are what the copy says.
ClaimGood(q) ==
    /\ req[q].pc # "answer" => req[q].claim = {}
    /\ \A c \in req[q].claim :
         /\ c.mfa <= c.at /\ c.at <= c.mfa + Limit
         /\ req[q].copy.user = {c.user}
         /\ req[q].copy.mfa = {} => c.mfa = c.at
         /\ req[q].copy.mfa # {} => <<From[q], c.user, c.mfa>> \in passed

RequestGood(q) == CopyGood(q) /\ CopyLoaded(q) /\ KeptOut(q) /\ ClaimGood(q)

SessionGood(b) ==
    /\ \A u \in root[b].user, v \in root[b].user : u = v
    /\ root[b].user = {} => root[b].mfa = {}
    /\ \A u \in root[b].user : root[b].hash <= password[u]
    /\ \A t \in root[b].mfa :
         t <= now /\ \A u \in root[b].user : <<b, u, t>> \in passed

LoginInv ==
    /\ LoginTypeOK
    /\ \A b \in Browsers : SessionGood(b)
    /\ \A q \in Requests : RequestGood(q)

\* Keys only follow one another; the person and the password that a session
\* was made for change only with the key.
KeysFollow ==
    \A b \in Browsers :
        /\ root'[b].gen >= root[b].gen
        /\ root'[b].gen = root[b].gen =>
             root'[b].user = root[b].user /\ root'[b].hash = root[b].hash

\* Nothing that is on record is forgotten, time does not run back, and no
\* password of old returns.
HistoryGrows ==
    /\ passed \subseteq passed' /\ now <= now'
    /\ \A u \in Users : /\ password[u] \in Nat /\ password'[u] \in Nat
                         /\ password[u] <= password'[u]

(* A request is as good after a step that is not its own.                  *)
LEMMA RequestStands ==
    ASSUME LoginTypeOK, LoginTypeOK', NEW q \in Requests, RequestGood(q), KeysFollow, HistoryGrows,
           \/ req'[q] = req[q] /\ totp' = totp /\ config' = config
           \/ req'[q] = [req[q] EXCEPT !.barred = FALSE]
    PROVE  RequestGood(q)'
<1>1. /\ From[q] \in Browsers /\ req[q] \in Calls /\ req[q].copy \in Session
      /\ root[From[q]] \in Session /\ root'[From[q]] \in Session /\ now \in Nat /\ now' \in Nat
  <2>1. root \in [Browsers -> Session] /\ root' \in [Browsers -> Session] /\ req \in [Requests -> Calls]
          /\ now \in Nat /\ now' \in Nat
    BY DEF LoginTypeOK, Times
  <2>2. From[q] \in Browsers /\ req[q] \in Calls
    BY <2>1, LoginAssumption
  <2>. HIDE DEF Session, Calls
  <2>. QED
    BY <2>1, <2>2, CallFieldsTyped
<1>2. /\ req'[q].pc = req[q].pc /\ req'[q].kind = req[q].kind /\ req'[q].copy = req[q].copy
      /\ req'[q].page = req[q].page /\ req'[q].claim = req[q].claim
      /\ \/ req'[q].barred = req[q].barred /\ totp' = totp /\ config' = config
         \/ req'[q].barred = FALSE
  BY <1>1 DEF Calls
<1>3. /\ req[q].copy.gen \in Nat /\ root[From[q]].gen \in Nat /\ root'[From[q]].gen \in Nat
      /\ \A t \in req[q].copy.mfa : t \in Nat
  BY <1>1, SessionFieldsTyped DEF Times
<1>. HIDE DEF Calls, Session, LoginTypeOK
<1>4. CopyGood(q)'
  BY <1>1, <1>2, <1>3 DEF RequestGood, CopyGood, HistoryGrows
<1>5. CopyLoaded(q)'
  BY <1>1, <1>2, <1>3 DEF RequestGood, CopyLoaded, KeysFollow
<1>6. KeptOut(q)'
  BY <1>2 DEF RequestGood, KeptOut
<1>7. ClaimGood(q)'
  BY <1>2 DEF RequestGood, ClaimGood, HistoryGrows
<1>. QED
  BY <1>4, <1>5, <1>6, <1>7 DEF RequestGood

-----------------------------------------------------------------------------
(* A session stands when nothing but its flags, its provider or the pending*)
(* person changes, or when it is new, or taken over by one person.         *)
LEMMA SessionStands ==
    ASSUME HistoryGrows, NEW b \in Browsers, SessionGood(b), now \in Nat, now' \in Nat,
           root[b].mfa \subseteq Nat, root[b].user \subseteq Users, root[b].hash \in Nat,
           root'[b].user = root[b].user, root'[b].mfa = root[b].mfa, root'[b].hash = root[b].hash
    PROVE  SessionGood(b)'
BY DEF SessionGood, HistoryGrows

LEMMA SessionNew ==
    ASSUME NEW b \in Browsers, root'[b].user = {}, root'[b].mfa = {}
    PROVE  SessionGood(b)'
BY DEF SessionGood

LEMMA SessionSatisfied ==
    ASSUME NEW b \in Browsers, now' = now, now \in Nat, NEW u, root'[b].user = {u},
           root'[b].mfa = {now}, <<b, u, now>> \in passed', root'[b].hash <= password'[u]
    PROVE  SessionGood(b)'
BY DEF SessionGood

(* The fields of what the pages write.                                     *)
LEMMA LoggedInIs ==
    ASSUME NEW s \in Session, NEW u, NEW g
    PROVE  /\ LoggedIn(s, u, g).user = {u} /\ LoggedIn(s, u, g).gen = g
           /\ LoggedIn(s, u, g).mfa = s.mfa /\ LoggedIn(s, u, g).hash = password[u]
BY DEF LoggedIn, Session

LEMMA NewSessionIs ==
    ASSUME NEW g
    PROVE  NewSession(g).user = {} /\ NewSession(g).gen = g /\ NewSession(g).mfa = {}
             /\ NewSession(g).provider = {}
BY DEF NewSession

LEMMA WrittenIs ==
    ASSUME LoginTypeOK, NEW b \in Browsers, NEW s, Write(b, s)
    PROVE  root'[b] = s /\ \A c \in Browsers : c # b => root'[c] = root[c]
BY DEF Write, LoginTypeOK

(* With one session written, the others stand.                             *)
LEMMA OneWritten ==
    ASSUME LoginInv, HistoryGrows, now' \in Nat, NEW b \in Browsers, SessionGood(b)',
           root'[b].gen >= root[b].gen,
           root'[b].gen = root[b].gen =>
             root'[b].user = root[b].user /\ root'[b].hash = root[b].hash,
           \A c \in Browsers : c # b => root'[c] = root[c]
    PROVE  KeysFollow /\ \A c \in Browsers : SessionGood(c)'
<1>1. now \in Nat /\ \A c \in Browsers : /\ root[c] \in Session /\ root[c].gen \in Nat
                                         /\ root[c].mfa \subseteq Nat /\ root[c].hash \in Nat
                                         /\ root[c].user \subseteq Users
  BY SessionFieldsTyped DEF LoginInv, LoginTypeOK, Times
<1>2. ASSUME NEW c \in Browsers, c # b PROVE SessionGood(c)'
  BY <1>1, <1>2, SessionStands DEF LoginInv
<1>3. KeysFollow
  BY <1>1 DEF KeysFollow
<1>. QED
  BY <1>2, <1>3

LEMMA NoneWritten ==
    ASSUME LoginInv, HistoryGrows, now' \in Nat, UNCHANGED root
    PROVE  KeysFollow /\ \A c \in Browsers : SessionGood(c)'
<1>1. now \in Nat /\ \A c \in Browsers : /\ root[c] \in Session /\ root[c].gen \in Nat
                                         /\ root[c].mfa \subseteq Nat /\ root[c].hash \in Nat
                                         /\ root[c].user \subseteq Users
  BY SessionFieldsTyped DEF LoginInv, LoginTypeOK, Times
<1>2. ASSUME NEW c \in Browsers PROVE SessionGood(c)'
  BY <1>1, <1>2, SessionStands DEF LoginInv
<1>3. KeysFollow
  BY <1>1 DEF KeysFollow
<1>. QED
  BY <1>2, <1>3

LEMMA FirstFactorMoves ==
    ASSUME LoginInv, NEW b \in Browsers, NEW u \in Users, NEW s \in Session, NEW E,
           root[b].user = {}, s.user = root[b].user, s.mfa = root[b].mfa, s.gen = root[b].gen,
           s.hash = root[b].hash, FirstFactor(b, u, s, E), UNCHANGED <<passed, now, password>>
    PROVE  HistoryGrows /\ KeysFollow /\ \A c \in Browsers : SessionGood(c)'
<1>. USE DEF LoginInv
<1>1. now \in Nat /\ root[b] \in Session /\ root[b].gen \in Nat /\ root[b].mfa = {} /\ HistoryGrows
  BY SessionFieldsTyped DEF LoginTypeOK, Times, SessionGood, HistoryGrows
<1>. HIDE DEF LoginInv
<1>2. LoginTypeOK
  BY DEF LoginInv
<1>3. CASE u \in totp
  <2>. DEFINE n == [s EXCEPT !.pending = {u}]
  <2>1. n.user = s.user /\ n.mfa = s.mfa /\ n.gen = s.gen /\ n.hash = s.hash
    BY DEF Session
  <2>2. root'[b] = n /\ \A c \in Browsers : c # b => root'[c] = root[c]
    BY <1>2, <1>3, WrittenIs DEF FirstFactor
  <2>. HIDE DEF n
  <2>3. SessionGood(b)'
    BY <1>1, <2>1, <2>2, SessionNew
  <2>4. /\ root'[b].gen >= root[b].gen /\ root'[b].user = root[b].user
        /\ root'[b].hash = root[b].hash /\ now' \in Nat
    BY <1>1, <2>1, <2>2
  <2>. QED
    BY <1>1, <2>2, <2>3, <2>4, OneWritten
<1>4. CASE u \notin totp
  <2>. DEFINE n == LoggedIn(s, u, s.gen + 1)
  <2>1. n.user = {u} /\ n.mfa = {} /\ n.gen = root[b].gen + 1 /\ n.hash = password[u]
    BY <1>1, LoggedInIs
  <2>2. root'[b] = n /\ \A c \in Browsers : c # b => root'[c] = root[c]
    BY <1>2, <1>4, WrittenIs DEF FirstFactor
  <2>. HIDE DEF n
  <2>3. SessionGood(b)'
    BY <1>1, <2>1, <2>2 DEF SessionGood, HistoryGrows
  <2>. QED
    BY <1>1, <2>1, <2>2, <2>3, OneWritten
<1>. QED
  BY <1>3, <1>4

-----------------------------------------------------------------------------
\* Requests do not move, and lose their mark when the policy does.
OthersStand ==
    \A q \in Requests :
        \/ req'[q] = req[q] /\ totp' = totp /\ config' = config
        \/ req'[q] = [req[q] EXCEPT !.barred = FALSE]

SessionsMoveWell ==
    HistoryGrows /\ KeysFollow /\ \A c \in Browsers : SessionGood(c)'

LEMMA PolicyMovesStand ==
    PolicyMoves => OthersStand
BY DEF PolicyMoves, OthersStand

(* A new password makes sessions void, and changes none.                   *)
LEMMA NewPasswordMoves ==
    ASSUME LoginInv, NEW u \in Users, NewPassword(u)
    PROVE  SessionsMoveWell /\ OthersStand
<1>1. now \in Nat /\ password \in [Users -> Nat]
  BY DEF LoginInv, LoginTypeOK, Times
<1>2. HistoryGrows /\ now' \in Nat /\ UNCHANGED root
  BY <1>1 DEF NewPassword, HistoryGrows
<1>3. OthersStand
  BY DEF NewPassword, OthersStand
<1>. QED
  BY <1>2, <1>3, NoneWritten DEF SessionsMoveWell

(* Each of allauth's pages leaves good sessions, and touches no request.   *)
LEMMA PageMoves ==
    ASSUME LoginInv, NEW b \in Browsers, Page(b)
    PROVE  SessionsMoveWell /\ OthersStand
<1>1. /\ LoginTypeOK /\ root[b] \in Session /\ now \in Nat /\ root[b].gen \in Nat
      /\ passed \subseteq Browsers \X Users \X Times /\ SessionGood(b)
      /\ root[b].user \subseteq Users /\ root[b].hash \in Nat /\ password \in [Users -> Nat]
  BY SessionFieldsTyped DEF LoginInv, LoginTypeOK, Times
<1>2. UNCHANGED <<req, policyVars>> => OthersStand
  BY DEF OthersStand, policyVars
<1>3. now' = now /\ passed \subseteq passed' /\ UNCHANGED password => HistoryGrows /\ now' \in Nat
  BY <1>1 DEF HistoryGrows
<1>4. now' = now /\ passed \subseteq passed' /\ UNCHANGED <<root, password>> => SessionsMoveWell
  BY <1>3, NoneWritten DEF SessionsMoveWell
<1>. HIDE DEF Session
<1>5. ASSUME NEW u \in Users, Password(b, u) PROVE SessionsMoveWell /\ OthersStand
  BY <1>1, <1>2, <1>5, FirstFactorMoves DEF Password, SessionsMoveWell, policyVars
<1>6. CASE PasswordFails(b)
  BY <1>2, <1>4, <1>6 DEF PasswordFails, policyVars
<1>7. ASSUME NEW u \in Users, NEW p \in Providers, Callback(b, u, p) PROVE SessionsMoveWell /\ OthersStand
  <2>. DEFINE s == [root[b] EXCEPT !.provider = {p}]
  <2>1. s \in Session /\ s.user = root[b].user /\ s.mfa = root[b].mfa /\ s.gen = root[b].gen
          /\ s.hash = root[b].hash
    <3>1. s \in Session
      BY <1>1, SessionFieldsTyped
    <3>. QED
      BY <1>1, <3>1 DEF Session
  <2>2. FirstFactor(b, u, s, {"OAUTH_LOGIN_SUCCEEDED"}) /\ root[b].user = {}
          /\ UNCHANGED <<passed, now, password>> /\ UNCHANGED <<req, policyVars>>
    BY <1>7 DEF Callback, policyVars
  <2>. HIDE DEF s
  <2>. QED
    BY <1>2, <2>1, <2>2, FirstFactorMoves DEF SessionsMoveWell
<1>8. ASSUME NEW n, Write(b, n), n.user = root[b].user, n.mfa = root[b].mfa, n.gen = root[b].gen,
             n.hash = root[b].hash, UNCHANGED <<passed, now, password>>
      PROVE  SessionsMoveWell
  <2>1. root'[b] = n /\ \A c \in Browsers : c # b => root'[c] = root[c]
    BY <1>1, <1>8, WrittenIs
  <2>2. HistoryGrows /\ now' \in Nat
    BY <1>3, <1>8
  <2>3. root[b].mfa \subseteq Nat
    BY <1>1, SessionFieldsTyped DEF Times
  <2>4. SessionGood(b)'
    BY <1>1, <1>8, <2>1, <2>2, <2>3, SessionStands
  <2>5. root'[b].gen >= root[b].gen /\ root'[b].user = root[b].user /\ root'[b].hash = root[b].hash
    BY <1>1, <1>8, <2>1
  <2>. QED
    BY <2>1, <2>2, <2>4, <2>5, OneWritten DEF SessionsMoveWell
<1>9. ASSUME NEW p \in Providers PROVE /\ [root[b] EXCEPT !.provider = {p}].user = root[b].user
                                        /\ [root[b] EXCEPT !.provider = {p}].mfa = root[b].mfa
                                        /\ [root[b] EXCEPT !.provider = {p}].gen = root[b].gen
                                        /\ [root[b] EXCEPT !.provider = {p}].hash = root[b].hash
  BY <1>1 DEF Session
<1>10. ASSUME NEW p \in Providers, CallbackFails(b, p) PROVE SessionsMoveWell /\ OthersStand
  <2>1. CASE UNCHANGED root
    BY <1>2, <1>4, <1>10, <2>1 DEF CallbackFails, policyVars
  <2>2. CASE Write(b, [root[b] EXCEPT !.provider = {p}])
    BY <1>2, <1>8, <1>9, <1>10, <2>2 DEF CallbackFails, policyVars
  <2>. QED
    BY <1>10, <2>1, <2>2 DEF CallbackFails
<1>11. ASSUME NEW p \in Providers, Connect(b, p) PROVE SessionsMoveWell /\ OthersStand
  BY <1>2, <1>8, <1>9, <1>11 DEF Connect, policyVars
<1>12. CASE Challenge(b)
  <2>1. PICK u \in root[b].pending :
          /\ Write(b, LoggedIn([root[b] EXCEPT !.mfa = {now}], u, root[b].gen + 1))
          /\ SatisfiedBy(b, {u})
    BY <1>12 DEF Challenge
  <2>. DEFINE m == [root[b] EXCEPT !.mfa = {now}]
              n == LoggedIn(m, u, root[b].gen + 1)
  <2>2. m \in Session /\ m.mfa = {now}
    BY <1>1 DEF LoginTypeOK, Session
  <2>3. n.user = {u} /\ n.mfa = {now} /\ n.gen = root[b].gen + 1 /\ n.hash = password[u]
    <3>. HIDE DEF m
    <3>. QED
      BY <2>2, LoggedInIs
  <2>4. root'[b] = n /\ \A c \in Browsers : c # b => root'[c] = root[c]
    BY <1>1, <2>1, WrittenIs
  <2>. HIDE DEF n, m
  <2>5. /\ now' = now /\ passed \subseteq passed' /\ <<b, u, now>> \in passed'
        /\ UNCHANGED password
    BY <1>12, <2>1 DEF Challenge, SatisfiedBy, policyVars
  <2>6. SessionGood(b)'
    <3>1. u \in Users
      BY <1>1, SessionFieldsTyped
    <3>2. root'[b].hash <= password'[u]
      BY <1>1, <2>3, <2>4, <2>5, <3>1
    <3>. QED
      BY <1>1, <2>3, <2>4, <2>5, <3>2, SessionSatisfied
  <2>7. root'[b].gen # root[b].gen /\ root'[b].gen >= root[b].gen
    BY <1>1, <2>3, <2>4
  <2>8. SessionsMoveWell
    BY <1>3, <2>4, <2>5, <2>6, <2>7, OneWritten DEF SessionsMoveWell
  <2>. QED
    BY <1>2, <1>12, <2>8 DEF Challenge
<1>13. ASSUME Write(b, [root[b] EXCEPT !.mfa = {now}]), SatisfiedBy(b, root[b].user),
              root[b].user # {}, now' = now, UNCHANGED password
       PROVE  SessionsMoveWell
  <2>. DEFINE n == [root[b] EXCEPT !.mfa = {now}]
  <2>1. n.user = root[b].user /\ n.mfa = {now} /\ n.gen = root[b].gen /\ n.hash = root[b].hash
    BY <1>1 DEF Session
  <2>2. root'[b] = n /\ \A c \in Browsers : c # b => root'[c] = root[c]
    BY <1>1, <1>13, WrittenIs
  <2>. HIDE DEF n
  <2>3. PICK u \in root[b].user : root[b].user = {u} /\ root[b].hash <= password[u]
    BY <1>1, <1>13 DEF SessionGood
  <2>4. passed \subseteq passed' /\ <<b, u, now>> \in passed'
    BY <1>13, <2>3 DEF SatisfiedBy
  <2>5. SessionGood(b)'
    BY <1>1, <1>13, <2>1, <2>2, <2>3, <2>4, SessionSatisfied
  <2>6. root'[b].gen >= root[b].gen /\ root'[b].user = root[b].user /\ root'[b].hash = root[b].hash
    BY <1>1, <2>1, <2>2
  <2>. QED
    BY <1>3, <1>13, <2>2, <2>4, <2>5, <2>6, OneWritten DEF SessionsMoveWell
<1>14. CASE Reauthenticate(b)
  BY <1>2, <1>13, <1>14 DEF Reauthenticate, SignedIn, policyVars
<1>15. CASE Enroll(b)
  BY <1>13, <1>15, PolicyMovesStand DEF Enroll, SignedIn
<1>16. CASE Disable(b)
  BY <1>4, <1>16, PolicyMovesStand DEF Disable
<1>17. ASSUME Write(b, NewSession(root[b].gen + 1)), UNCHANGED <<passed, now, password>>
       PROVE  SessionsMoveWell
  <2>. DEFINE n == NewSession(root[b].gen + 1)
  <2>1. n.user = {} /\ n.mfa = {} /\ n.gen = root[b].gen + 1
    BY NewSessionIs
  <2>2. root'[b] = n /\ \A c \in Browsers : c # b => root'[c] = root[c]
    BY <1>1, <1>17, WrittenIs
  <2>. HIDE DEF n
  <2>3. SessionGood(b)'
    BY <2>1, <2>2, SessionNew
  <2>4. root'[b].gen # root[b].gen /\ root'[b].gen >= root[b].gen
    BY <1>1, <2>1, <2>2
  <2>. QED
    BY <1>3, <1>17, <2>2, <2>3, <2>4, OneWritten DEF SessionsMoveWell
<1>18. CASE Logout(b)
  BY <1>2, <1>17, <1>18 DEF Logout, policyVars
<1>18a. CASE PasswordChange(b)
  BY <1>1, <1>18a, NewPasswordMoves DEF PasswordChange
<1>18b. CASE Lapse(b)
  <2>1. CASE Write(b, NewSession(root[b].gen + 1))
    BY <1>2, <1>17, <1>18b, <2>1 DEF Lapse, policyVars
  <2>2. CASE UNCHANGED root
    BY <1>2, <1>4, <1>18b, <2>2 DEF Lapse, policyVars
  <2>. QED
    BY <1>18b, <2>1, <2>2 DEF Lapse
<1>19. ASSUME NEW s \in tenant[b], TenantLogout(b, s) PROVE SessionsMoveWell /\ OthersStand
  BY <1>2, <1>4, <1>19 DEF TenantLogout, policyVars
<1>. HIDE DEF SessionsMoveWell, OthersStand
<1>. QED
  BY <1>5, <1>6, <1>7, <1>10, <1>11, <1>12, <1>14, <1>15, <1>16, <1>18, <1>18a, <1>18b, <1>19 DEF Page

LEMMA WorldMoves ==
    ASSUME LoginInv, World
    PROVE  SessionsMoveWell /\ OthersStand
<1>1. now \in Nat /\ password \in [Users -> Nat]
  BY DEF LoginInv, LoginTypeOK, Times
<1>2. UNCHANGED <<root, passed, password>> /\ now' \in {now, now + 1} => SessionsMoveWell
  BY <1>1, NoneWritten DEF SessionsMoveWell, HistoryGrows
<1>3. ASSUME NEW p \in Providers, NEW v \in {"absent", "untrusted", "trusted"}, SetTrust(p, v)
      PROVE  SessionsMoveWell /\ OthersStand
  BY <1>2, <1>3, PolicyMovesStand DEF SetTrust
<1>4. CASE KeysChange
  BY <1>2, <1>4 DEF KeysChange, OthersStand
<1>5. ASSUME NEW u \in Users, NEW o \in Orgs, MembershipChanges(u, o)
      PROVE  SessionsMoveWell /\ OthersStand
  BY <1>2, <1>5 DEF MembershipChanges, OthersStand
<1>6. CASE Tick
  BY <1>2, <1>6 DEF Tick, OthersStand, policyVars
<1>7. ASSUME NEW u \in Users, PasswordReset(u) PROVE SessionsMoveWell /\ OthersStand
  BY <1>7, NewPasswordMoves DEF PasswordReset
<1>. HIDE DEF SessionsMoveWell, OthersStand
<1>. QED
  BY <1>3, <1>4, <1>5, <1>6, <1>7 DEF World

-----------------------------------------------------------------------------
(* A request that moves by itself, and saves nothing, leaves the rest be.  *)
LEMMA OwnMove ==
    ASSUME LoginInv, NEW q \in Requests, NEW r \in Calls, Move(q, r),
           UNCHANGED <<root, tenant, policyVars, now>>,
           passed \subseteq passed', passed' \subseteq Browsers \X Users \X Times, refused' = {},
           req'[q] = r => RequestGood(q)'
    PROVE  LoginInv' /\ KeysFollow /\ HistoryGrows
<1>1. LoginTypeOK /\ now \in Nat /\ now' = now /\ password \in [Users -> Nat]
  BY DEF LoginInv, LoginTypeOK, Times
<1>2. HistoryGrows /\ now' \in Nat
  BY <1>1 DEF HistoryGrows, policyVars
<1>3. KeysFollow /\ \A c \in Browsers : SessionGood(c)'
  BY <1>2, NoneWritten
<1>4. req'[q] = r /\ \A p \in Requests : p # q => req'[p] = req[p]
  BY <1>1 DEF Move, LoginTypeOK
<1>5. LoginTypeOK'
  <2>1. RequestsTyped'
    BY <1>1, TypeParts, MoveTyped
  <2>2. SessionsTyped' /\ PolicyTyped' /\ HistoryTyped'
    BY <1>1, TypeParts DEF SessionsTyped, PolicyTyped, HistoryTyped, policyVars
  <2>. QED
    BY <2>1, <2>2, TypeParts
<1>6. ASSUME NEW p \in Requests, p # q PROVE RequestGood(p)'
  <2>1. RequestGood(p) /\ req'[p] = req[p] /\ totp' = totp /\ config' = config
    BY <1>4, <1>6 DEF LoginInv, policyVars
  <2>. QED
    BY <1>1, <1>2, <1>3, <1>5, <2>1, RequestStands
<1>. QED
  BY <1>2, <1>3, <1>4, <1>5, <1>6 DEF LoginInv

LEMMA InvFacts ==
    ASSUME LoginInv, NEW q \in Requests
    PROVE  /\ LoginTypeOK /\ req[q] \in Calls /\ req[q].copy \in Session /\ From[q] \in Browsers
           /\ RequestGood(q) /\ SessionGood(From[q]) /\ root[From[q]] \in Session
           /\ now \in Times /\ now \in Nat /\ refused = {}
           /\ passed \subseteq Browsers \X Users \X Times /\ password \in [Users -> Nat]
<1>1. LoginTypeOK /\ req[q] \in Calls /\ From[q] \in Browsers
  BY LoginAssumption DEF LoginInv, LoginTypeOK
<1>2. req[q].copy \in Session
  BY <1>1, CallFieldsTyped
<1>3. RequestGood(q) /\ SessionGood(From[q])
  BY <1>1 DEF LoginInv
<1>. HIDE DEF Session, Calls
<1>4. root[From[q]] \in Session /\ now \in Times /\ refused = {}
        /\ passed \subseteq Browsers \X Users \X Times /\ password \in [Users -> Nat]
  BY <1>1 DEF LoginTypeOK
<1>5. now \in Nat
  BY <1>4 DEF Times
<1>. QED
  BY <1>1, <1>2, <1>3, <1>4, <1>5

LEMMA IdleIs ==
    /\ Idle.page = "none" /\ Idle.claim = {} /\ Idle.barred = FALSE /\ Idle.pc = "idle"
    /\ Idle.copy = NewSession(0)
BY DEF Idle

LEMMA AskMoves ==
    ASSUME LoginInv, NEW q \in Requests, NEW kind \in Kinds \ {"landing"}, NEW O \in SUBSET Orgs,
           Ask(q, kind, O)
    PROVE  LoginInv' /\ KeysFollow /\ HistoryGrows
<1>. DEFINE s == root[From[q]]
            r == [Idle EXCEPT !.pc = "totp", !.kind = kind, !.org = O, !.copy = s,
                              !.barred = ~Admitted(s)]
<1>1. Move(q, r) /\ UNCHANGED <<root, tenant, policyVars, now, passed>> /\ Record({})
  BY DEF Ask
<1>2. LoginTypeOK /\ s \in Session /\ now \in Nat /\ SessionGood(From[q]) /\ refused = {}
        /\ passed \subseteq Browsers \X Users \X Times /\ Idle \in Calls /\ From[q] \in Browsers
  BY InvFacts, IdleTyped
<1>3. r \in Calls
  BY <1>2 DEF Calls, Steps
<1>4. r.pc = "totp" /\ r.copy = s /\ r.barred = ~Admitted(s) /\ r.claim = {} /\ r.page = "none"
  BY <1>2, IdleIs DEF Calls
<1>5. refused' = {}
  BY <1>1, <1>2, EventsKnown, KnownIsSilent
<1>6. s.gen \in Nat
  BY <1>2, SessionFieldsTyped
<1>. HIDE DEF r, Calls, Session
<1>7. ASSUME req'[q] = r PROVE RequestGood(q)'
  <2>1. CopyGood(q)'
    BY <1>1, <1>2, <1>4, <1>7 DEF Ask, CopyGood, SessionGood, SignedIn
  <2>2. CopyLoaded(q)'
    BY <1>1, <1>4, <1>6, <1>7 DEF CopyLoaded
  <2>3. KeptOut(q)'
    BY <1>1, <1>4, <1>7 DEF KeptOut, Guarded, Admitted, Trusted, policyVars
  <2>4. ClaimGood(q)'
    BY <1>4, <1>7 DEF ClaimGood
  <2>. QED
    BY <2>1, <2>2, <2>3, <2>4 DEF RequestGood
<1>. QED
  BY <1>1, <1>2, <1>3, <1>5, <1>7, OwnMove

LEMMA AskTenantMoves ==
    ASSUME LoginInv, NEW q \in Requests, NEW s \in TenantSession, AskTenant(q, s)
    PROVE  LoginInv' /\ KeysFollow /\ HistoryGrows
<1>. DEFINE c == [NewSession(0) EXCEPT !.user = {s.user}, !.hash = s.hash]
            r == [Idle EXCEPT !.pc = "totp", !.kind = "landing", !.org = {s.org}, !.copy = c,
                              !.barred = ~Admitted(c), !.vouched = s.provider]
<1>1. Move(q, r) /\ UNCHANGED <<root, tenant, policyVars, now, passed>> /\ Record({})
  BY DEF AskTenant
<1>2. LoginTypeOK /\ now \in Nat /\ refused = {}
        /\ passed \subseteq Browsers \X Users \X Times /\ Idle \in Calls
        /\ NewSession(0) \in Session
  BY InvFacts, IdleTyped, NewSessionTyped, LoginAssumption
<1>3. s.user \in Users /\ s.org \in Orgs /\ s.provider \in SUBSET Providers /\ s.hash \in Nat
  BY DEF TenantSession
<1>4. c \in Session /\ c.user = {s.user} /\ c.mfa = {}
  <2>1. c \in Session
    BY <1>2, <1>3 DEF Session
  <2>. QED
    BY <1>2, <2>1, NewSessionIs DEF Session
<1>. HIDE DEF c
<1>5. r \in Calls
  BY <1>2, <1>3, <1>4 DEF Calls, Steps, Kinds
<1>6. r.pc = "totp" /\ r.copy = c /\ r.barred = ~Admitted(c) /\ r.claim = {} /\ r.page = "none"
        /\ r.kind = "landing"
  BY <1>2, IdleIs DEF Calls
<1>7. refused' = {}
  BY <1>1, <1>2, EventsKnown, KnownIsSilent
<1>. HIDE DEF r, Calls, Session
<1>8. ASSUME req'[q] = r PROVE RequestGood(q)'
  <2>1. CopyGood(q)'
    BY <1>1, <1>4, <1>6, <1>8 DEF CopyGood
  <2>2. CopyLoaded(q)'
    BY <1>6, <1>8 DEF CopyLoaded
  <2>3. KeptOut(q)'
    BY <1>1, <1>6, <1>8 DEF KeptOut, Guarded, Admitted, Trusted, policyVars
  <2>4. ClaimGood(q)'
    BY <1>6, <1>8 DEF ClaimGood
  <2>. QED
    BY <2>1, <2>2, <2>3, <2>4 DEF RequestGood
<1>. QED
  BY <1>1, <1>2, <1>5, <1>7, <1>8, OwnMove

-----------------------------------------------------------------------------
(* A step inside a request: its copy keeps its person, its key and, but for*)
(* the first word of a trusted provider, its time.                         *)
LEMMA InnerMove ==
    ASSUME LoginInv, NEW q \in Requests, NEW r \in Calls, Move(q, r),
           req[q].pc \in {"totp", "config", "view", "issue"},
           UNCHANGED <<root, tenant, policyVars, now, passed>>, refused' = {},
           r.copy.user = req[q].copy.user, r.copy.mfa = req[q].copy.mfa,
           r.copy.gen = req[q].copy.gen, r.copy.hash = req[q].copy.hash,
           r.copy.provider = req[q].copy.provider,
           r.kind = req[q].kind, r.claim = req[q].claim, r.barred = req[q].barred,
           req[q].barred => r.page \notin Guarded /\ r.pc \notin {"view", "issue"}
    PROVE  LoginInv' /\ KeysFollow /\ HistoryGrows
<1>1. /\ RequestGood(q) /\ passed \subseteq Browsers \X Users \X Times
  BY InvFacts
<1>2. ASSUME req'[q] = r PROVE RequestGood(q)'
  <2>1. CopyGood(q)'
    BY <1>1, <1>2 DEF RequestGood, CopyGood
  <2>2. CopyLoaded(q)'
    BY <1>1, <1>2 DEF RequestGood, CopyLoaded
  <2>3. KeptOut(q)'
    BY <1>1, <1>2 DEF RequestGood, KeptOut, policyVars
  <2>4. ClaimGood(q)'
    BY <1>1, <1>2 DEF RequestGood, ClaimGood
  <2>. QED
    BY <2>1, <2>2, <2>3, <2>4 DEF RequestGood
<1>. QED
  BY <1>1, <1>2, OwnMove

LEMMA RefuseMoves ==
    ASSUME LoginInv, NEW q \in Requests, NEW note \in Notes, NEW event \in KnownEvents,
           req[q].pc \in {"totp", "config"}, Refuse(q, note, event)
    PROVE  LoginInv' /\ KeysFollow /\ HistoryGrows
<1>. DEFINE n == Noted(req[q], note)
            r == [n EXCEPT !.pc = "answer", !.page = "enroll"]
<1>1. Move(q, r) /\ UNCHANGED <<root, tenant, policyVars, now, passed>> /\ RecordOnce(req[q], note, event)
  BY DEF Refuse
<1>2. req[q] \in Calls /\ req[q].copy \in Session /\ refused = {}
  BY InvFacts
<1>3. refused' = {}
  <2>1. Record({}) \/ Record({event})
    BY <1>1 DEF RecordOnce
  <2>. QED
    BY <1>2, <2>1, KnownIsSilent, EventsKnown
<1>4. n \in Calls /\ n.copy = [req[q].copy EXCEPT !.told = req[q].copy.told \cup {note}]
        /\ n.kind = req[q].kind /\ n.claim = req[q].claim /\ n.barred = req[q].barred
  BY <1>2, NotedIs
<1>5. n.copy.user = req[q].copy.user /\ n.copy.mfa = req[q].copy.mfa
        /\ n.copy.gen = req[q].copy.gen /\ n.copy.hash = req[q].copy.hash
        /\ n.copy.provider = req[q].copy.provider
  BY <1>2, <1>4 DEF Session
<1>. HIDE DEF n
<1>6. r \in Calls
  BY <1>4, CallFieldsTyped DEF Steps, Answers
<1>7. r.copy = n.copy /\ r.kind = n.kind /\ r.claim = n.claim /\ r.barred = n.barred
        /\ r.page = "enroll" /\ r.pc = "answer"
  BY <1>4 DEF Calls
<1>. HIDE DEF r
<1>. QED
  BY <1>1, <1>3, <1>4, <1>5, <1>6, <1>7, InnerMove DEF Guarded

LEMMA GateTotpMoves ==
    ASSUME LoginInv, NEW q \in Requests, GateTotp(q)
    PROVE  LoginInv' /\ KeysFollow /\ HistoryGrows
<1>1. req[q] \in Calls /\ RequestGood(q) /\ refused = {} /\ req[q].pc = "totp"
  BY InvFacts DEF GateTotp
<1>2. ASSUME NEW pc \in {"view", "config"}, Move(q, [req[q] EXCEPT !.pc = pc]), Record({}),
             UNCHANGED <<root, tenant, policyVars, now, passed>>,
             pc = "view" => HasTotp(req[q].copy)
      PROVE  LoginInv' /\ KeysFollow /\ HistoryGrows
  <2>. DEFINE r == [req[q] EXCEPT !.pc = pc]
  <2>1. r \in Calls
    BY <1>1, CallFieldsTyped DEF Steps
  <2>2. r.copy = req[q].copy /\ r.kind = req[q].kind /\ r.claim = req[q].claim
          /\ r.barred = req[q].barred /\ r.page = req[q].page /\ r.pc = pc
    BY <1>1 DEF Calls
  <2>3. refused' = {}
    BY <1>1, <1>2, KnownIsSilent, EventsKnown
  <2>4. req[q].barred => r.page \notin Guarded /\ r.pc \notin {"view", "issue"}
    BY <1>1, <1>2, <2>2 DEF RequestGood, KeptOut, HasTotp
  <2>5. Move(q, r)
    BY <1>2
  <2>. HIDE DEF r
  <2>. QED
    BY <1>1, <1>2, <2>1, <2>2, <2>3, <2>4, <2>5, InnerMove
<1>3. CASE HasTotp(req[q].copy) /\ Move(q, [req[q] EXCEPT !.pc = "view"]) /\ Record({})
             /\ UNCHANGED <<root, tenant, policyVars, now, passed>>
  BY <1>2, <1>3
<1>4. CASE Move(q, [req[q] EXCEPT !.pc = "config"]) /\ Record({})
             /\ UNCHANGED <<root, tenant, policyVars, now, passed>>
  BY <1>2, <1>4
<1>5. CASE Refuse(q, "local", "LOCAL_MFA_CHALLENGE_REQUIRED")
  BY <1>1, <1>5, RefuseMoves DEF Notes, KnownEvents
<1>. QED
  BY <1>3, <1>4, <1>5 DEF GateTotp

LEMMA GateConfigMoves ==
    ASSUME LoginInv, NEW q \in Requests, GateConfig(q)
    PROVE  LoginInv' /\ KeysFollow /\ HistoryGrows
<1>1. /\ LoginTypeOK /\ req[q] \in Calls /\ req[q].copy \in Session /\ RequestGood(q) /\ refused = {}
      /\ now \in Times /\ now \in Nat /\ From[q] \in Browsers /\ req[q].pc = "config"
      /\ passed \subseteq Browsers \X Users \X Times
  BY InvFacts DEF GateConfig
<1>2. CASE Refuse(q, "untrusted", "OAUTH_PROVIDER_MFA_NOT_TRUSTED")
  BY <1>1, <1>2, RefuseMoves DEF Notes, KnownEvents
<1>3. CASE ~Refuse(q, "untrusted", "OAUTH_PROVIDER_MFA_NOT_TRUSTED")
  <2>. DEFINE v == Vouched(req[q])
              n == Noted(v, "trusted")
              r == [n EXCEPT !.pc = "view"]
  <2>1. /\ Trusted(req[q].copy.provider) /\ Move(q, r)
        /\ IF req[q].copy.mfa = {} THEN SatisfiedBy(From[q], req[q].copy.user) ELSE UNCHANGED passed
        /\ RecordOnce(req[q], "trusted", "OAUTH_PROVIDER_MFA_TRUSTED")
        /\ UNCHANGED <<root, tenant, policyVars, now>>
    BY <1>3 DEF GateConfig
  <2>2. refused' = {}
    <3>1. Record({}) \/ Record({"OAUTH_PROVIDER_MFA_TRUSTED"})
      BY <2>1 DEF RecordOnce
    <3>2. {"OAUTH_PROVIDER_MFA_TRUSTED"} \subseteq KnownEvents
      BY DEF KnownEvents
    <3>. QED
      BY <1>1, <3>1, <3>2, KnownIsSilent, EventsKnown
  <2>3. /\ v \in Calls /\ v.copy \in Session
        /\ v.copy = IF req[q].copy.mfa = {} THEN [req[q].copy EXCEPT !.mfa = {now}] ELSE req[q].copy
        /\ v.kind = req[q].kind /\ v.claim = req[q].claim /\ v.page = req[q].page /\ v.barred = req[q].barred
    BY <1>1, VouchedIs, CallFieldsTyped
  <2>. HIDE DEF v
  <2>4. /\ n \in Calls /\ n.copy = [v.copy EXCEPT !.told = v.copy.told \cup {"trusted"}]
        /\ n.kind = v.kind /\ n.claim = v.claim /\ n.page = v.page /\ n.barred = v.barred
    BY <2>3, NotedIs DEF Notes
  <2>5. /\ n.copy.user = req[q].copy.user /\ n.copy.gen = req[q].copy.gen
        /\ n.copy.hash = req[q].copy.hash
        /\ n.copy.mfa = IF req[q].copy.mfa = {} THEN {now} ELSE req[q].copy.mfa
    <3>. HIDE DEF n
    <3>1. /\ v.copy.user = req[q].copy.user /\ v.copy.gen = req[q].copy.gen
          /\ v.copy.hash = req[q].copy.hash
          /\ v.copy.mfa = IF req[q].copy.mfa = {} THEN {now} ELSE req[q].copy.mfa
      BY <1>1, <2>3 DEF Session
    <3>2. /\ n.copy.user = v.copy.user /\ n.copy.gen = v.copy.gen /\ n.copy.mfa = v.copy.mfa
          /\ n.copy.hash = v.copy.hash
      BY <2>3, <2>4 DEF Session
    <3>. QED
      BY <3>1, <3>2
  <2>. HIDE DEF n
  <2>6. r \in Calls
    BY <2>4, CallFieldsTyped DEF Steps
  <2>7. r.copy = n.copy /\ r.kind = n.kind /\ r.claim = n.claim /\ r.page = n.page
          /\ r.barred = n.barred /\ r.pc = "view"
    BY <2>4 DEF Calls
  <2>. HIDE DEF r
  <2>8. ~req[q].barred /\ req[q].claim = {} /\ req[q].copy.user # {}
    BY <1>1, <2>1 DEF RequestGood, KeptOut, ClaimGood, CopyGood, Trusted
  <2>9. passed \subseteq passed' /\ passed' \subseteq Browsers \X Users \X Times
    <3>1. req[q].copy.user \in SUBSET Users
      BY <1>1, SessionFieldsTyped
    <3>2. CASE req[q].copy.mfa = {}
      BY <1>1, <2>1, <3>1, <3>2, TypeParts, SatisfiedTyped DEF SatisfiedBy
    <3>3. CASE req[q].copy.mfa # {}
      BY <1>1, <2>1, <3>3
    <3>. QED
      BY <3>2, <3>3
  <2>10. ASSUME req'[q] = r PROVE RequestGood(q)'
    <3>1. CopyGood(q)'
      <4>1. CASE req[q].copy.mfa = {}
        <5>1. \A u \in req[q].copy.user : <<From[q], u, now>> \in passed'
          BY <2>1, <4>1 DEF SatisfiedBy
        <5>. QED
          BY <1>1, <2>1, <2>5, <2>7, <2>8, <2>10, <4>1, <5>1 DEF RequestGood, CopyGood
      <4>2. CASE req[q].copy.mfa # {}
        BY <1>1, <2>1, <2>5, <2>7, <2>8, <2>10, <4>2 DEF RequestGood, CopyGood
      <4>. QED
        BY <4>1, <4>2
    <3>2. CopyLoaded(q)'
      BY <1>1, <2>1, <2>3, <2>4, <2>5, <2>7, <2>10 DEF RequestGood, CopyLoaded
    <3>3. KeptOut(q)'
      BY <2>3, <2>4, <2>7, <2>8, <2>10 DEF KeptOut
    <3>4. ClaimGood(q)'
      BY <2>3, <2>4, <2>7, <2>8, <2>10 DEF ClaimGood
    <3>. QED
      BY <3>1, <3>2, <3>3, <3>4 DEF RequestGood
  <2>. QED
    BY <2>1, <2>2, <2>6, <2>9, <2>10, OwnMove
<1>. QED
  BY <1>2, <1>3

LEMMA ReplyMoves ==
    ASSUME LoginInv, NEW q \in Requests, NEW page \in Answers, Reply(q, page), Record({}),
           req[q].pc \in {"view", "issue"}, UNCHANGED <<root, tenant, policyVars, now, passed>>
    PROVE  LoginInv' /\ KeysFollow /\ HistoryGrows
<1>. DEFINE r == [req[q] EXCEPT !.pc = "answer", !.page = page]
<1>1. req[q] \in Calls /\ RequestGood(q) /\ refused = {}
  BY InvFacts
<1>2. r \in Calls
  BY <1>1, CallFieldsTyped DEF Steps
<1>3. r.copy = req[q].copy /\ r.kind = req[q].kind /\ r.claim = req[q].claim /\ r.barred = req[q].barred
  BY <1>1 DEF Calls
<1>4. refused' = {} /\ ~req[q].barred
  BY <1>1, KnownIsSilent, EventsKnown DEF RequestGood, KeptOut
<1>5. Move(q, r)
  BY DEF Reply
<1>. HIDE DEF r
<1>. QED
  BY <1>2, <1>3, <1>4, <1>5, InnerMove

LEMMA ViewMoves ==
    ASSUME LoginInv, NEW q \in Requests, View(q)
    PROVE  LoginInv' /\ KeysFollow /\ HistoryGrows
<1>1. req[q] \in Calls /\ RequestGood(q) /\ refused = {} /\ req[q].pc = "view"
        /\ Record({}) /\ UNCHANGED <<root, tenant, policyVars, now, passed>>
  BY InvFacts DEF View
<1>2. ASSUME NEW O \in SUBSET Orgs, Move(q, [req[q] EXCEPT !.pc = "issue", !.org = O])
      PROVE  LoginInv' /\ KeysFollow /\ HistoryGrows
  <2>. DEFINE r == [req[q] EXCEPT !.pc = "issue", !.org = O]
  <2>1. r \in Calls
    BY <1>1, CallFieldsTyped DEF Steps
  <2>2. r.copy = req[q].copy /\ r.kind = req[q].kind /\ r.claim = req[q].claim /\ r.barred = req[q].barred
    BY <1>1 DEF Calls
  <2>3. refused' = {} /\ ~req[q].barred
    BY <1>1, KnownIsSilent, EventsKnown DEF RequestGood, KeptOut
  <2>4. Move(q, r)
    BY <1>2
  <2>. HIDE DEF r
  <2>. QED
    BY <1>1, <2>1, <2>2, <2>3, <2>4, InnerMove
<1>3. ASSUME Move(q, [req[q] EXCEPT !.pc = "issue"])
      PROVE  LoginInv' /\ KeysFollow /\ HistoryGrows
  <2>1. req[q].org \in SUBSET Orgs /\ [req[q] EXCEPT !.pc = "issue", !.org = req[q].org] = [req[q] EXCEPT !.pc = "issue"]
    BY <1>1 DEF Calls
  <2>. QED
    BY <1>2, <1>3, <2>1
<1>4. ASSUME NEW page \in Answers, Reply(q, page) PROVE LoginInv' /\ KeysFollow /\ HistoryGrows
  BY <1>1, <1>4, ReplyMoves
<1>5. \/ \E page \in Answers : Reply(q, page)
      \/ \E O \in SUBSET Orgs : Move(q, [req[q] EXCEPT !.pc = "issue", !.org = O])
      \/ Move(q, [req[q] EXCEPT !.pc = "issue"])
  BY DEF View, Answers
<1>. QED
  BY <1>2, <1>3, <1>4, <1>5

LEMMA IssueMoves ==
    ASSUME LoginInv, NEW q \in Requests, Issue(q)
    PROVE  LoginInv' /\ KeysFollow /\ HistoryGrows
<1>. DEFINE t == SatisfiedAt(req[q].copy)
<1>1. /\ LoginTypeOK /\ req[q] \in Calls /\ req[q].copy \in Session /\ RequestGood(q) /\ refused = {}
      /\ now \in Times /\ now \in Nat /\ req[q].pc = "issue"
      /\ passed \subseteq Browsers \X Users \X Times
      /\ UNCHANGED <<root, tenant, policyVars, now, passed>>
  BY InvFacts DEF Issue
<1>2. PICK u \in req[q].copy.user, o \in req[q].org :
         \/ Reply(q, "error") /\ Record({})
         \/ Reply(q, "unavailable") /\ Record({})
         \/ /\ ~Stale(t)
            /\ Move(q, [req[q] EXCEPT !.pc = "answer", !.page = "form",
                           !.claim = {[user |-> u, provider |-> req[q].copy.provider, mfa |-> t, at |-> now]}])
            /\ Record({"HANDOFF_TOKEN_ISSUED", "MEMBERSHIP_SELECTED"})
  BY DEF Issue
<1>3. CASE Reply(q, "error") /\ Record({})
  BY <1>1, <1>3, ReplyMoves DEF Answers
<1>4. CASE Reply(q, "unavailable") /\ Record({})
  BY <1>1, <1>4, ReplyMoves DEF Answers
<1>5. CASE /\ ~Stale(t)
           /\ Move(q, [req[q] EXCEPT !.pc = "answer", !.page = "form",
                          !.claim = {[user |-> u, provider |-> req[q].copy.provider, mfa |-> t, at |-> now]}])
           /\ Record({"HANDOFF_TOKEN_ISSUED", "MEMBERSHIP_SELECTED"})
  <2>. DEFINE c == [user |-> u, provider |-> req[q].copy.provider, mfa |-> t, at |-> now]
              r == [req[q] EXCEPT !.pc = "answer", !.page = "form", !.claim = {c}]
  <2>1. /\ t \in Times /\ t \in Nat /\ t <= now
        /\ req[q].copy.mfa = {} => t = now
        /\ req[q].copy.mfa # {} => t \in req[q].copy.mfa
    <3>1. req[q].copy.mfa \in SUBSET Times
      BY <1>1, SessionFieldsTyped
    <3>2. CASE req[q].copy.mfa = {}
      BY <1>1, <3>2 DEF SatisfiedAt
    <3>3. CASE req[q].copy.mfa # {}
      <4>1. t \in req[q].copy.mfa
        BY <3>3 DEF SatisfiedAt
      <4>2. t <= now
        BY <1>1, <4>1 DEF RequestGood, CopyGood
      <4>3. t \in Times /\ t \in Nat
        BY <3>1, <4>1 DEF Times
      <4>. QED
        BY <3>3, <4>1, <4>2, <4>3
    <3>. QED
      BY <3>2, <3>3
  <2>. HIDE DEF t
  <2>2. now <= t + Limit
    BY <1>1, <1>5, <2>1, LoginAssumption DEF Stale
  <2>3. u \in Users /\ req[q].copy.provider \in SUBSET Providers
    BY <1>1, SessionFieldsTyped
  <2>4. c \in Claims /\ c.user = u /\ c.mfa = t /\ c.at = now
    BY <1>1, <2>1, <2>3 DEF Claims
  <2>5. Move(q, r)
    BY <1>5
  <2>. HIDE DEF c
  <2>6. r \in Calls
    <3>1. {c} \in SUBSET Claims /\ "answer" \in Steps /\ "form" \in Answers
      BY <2>4 DEF Steps, Answers
    <3>. QED
      BY <1>1, <3>1, CallFieldsTyped
  <2>7. r.copy = req[q].copy /\ r.kind = req[q].kind /\ r.claim = {c} /\ r.barred = req[q].barred
          /\ r.pc = "answer"
    BY <1>1 DEF Calls
  <2>. HIDE DEF r
  <2>8. refused' = {}
    <3>1. {"HANDOFF_TOKEN_ISSUED", "MEMBERSHIP_SELECTED"} \subseteq KnownEvents
      BY DEF KnownEvents
    <3>. QED
      BY <1>1, <1>5, <3>1, KnownIsSilent
  <2>9. ~req[q].barred /\ req[q].copy.user = {u}
    BY <1>1 DEF RequestGood, KeptOut, CopyGood
  <2>10. req[q].copy.mfa # {} => <<From[q], u, t>> \in passed
    BY <1>1, <2>1 DEF RequestGood, CopyGood
  <2>11. ASSUME req'[q] = r PROVE RequestGood(q)'
    <3>1. CopyGood(q)'
      BY <1>1, <2>7, <2>11 DEF RequestGood, CopyGood
    <3>2. CopyLoaded(q)'
      BY <1>1, <2>7, <2>11 DEF RequestGood, CopyLoaded
    <3>3. KeptOut(q)'
      BY <2>7, <2>9, <2>11 DEF KeptOut
    <3>4. ClaimGood(q)'
      BY <1>1, <2>1, <2>2, <2>4, <2>7, <2>9, <2>10, <2>11 DEF ClaimGood
    <3>. QED
      BY <3>1, <3>2, <3>3, <3>4 DEF RequestGood
  <2>. QED
    BY <1>1, <2>5, <2>6, <2>8, <2>11, OwnMove
<1>. QED
  BY <1>2, <1>3, <1>4, <1>5

\* What the answer leaves on the root host and on tenant hosts.
LEMMA AnswerTyped ==
    ASSUME LoginInv, NEW q \in Requests, Answer(q)
    PROVE  LoginTypeOK'
<1>1. /\ LoginTypeOK /\ req[q] \in Calls /\ req[q].copy \in Session /\ From[q] \in Browsers
      /\ refused = {} /\ root \in [Browsers -> Session] /\ tenant \in [Browsers -> SUBSET TenantSession]
      /\ req[q].claim \in SUBSET Claims /\ req[q].org \in SUBSET Orgs
      /\ Move(q, Idle) /\ UNCHANGED <<policyVars, now, passed>> /\ password \in [Users -> Nat]
  BY InvFacts, CallFieldsTyped DEF LoginTypeOK, Answer
<1>2. root' \in [Browsers -> Session]
  <2>1. CASE Write(From[q], req[q].copy)
    BY <1>1, <2>1, WriteTyped
  <2>2. CASE UNCHANGED root
    BY <1>1, <2>2
  <2>. HIDE DEF Session
  <2>. QED
    BY <2>1, <2>2 DEF Answer
<1>3. tenant' \in [Browsers -> SUBSET TenantSession] /\ refused' = {}
  <2>1. CASE UNCHANGED tenant /\ Record({})
    BY <1>1, <2>1, KnownIsSilent, EventsKnown
  <2>2. CASE ~(UNCHANGED tenant /\ Record({}))
    <3>1. PICK c \in req[q].claim, o \in req[q].org :
            tenant' = [tenant EXCEPT ![From[q]] =
                         {s \in @ : s.org # o}
                           \cup {[user |-> c.user, org |-> o, provider |-> c.provider,
                                   hash |-> password[c.user]]}]
      BY <2>2 DEF Answer
    <3>2. [user |-> c.user, org |-> o, provider |-> c.provider, hash |-> password[c.user]]
            \in TenantSession
      BY <1>1 DEF Claims, TenantSession
    <3>3. tenant' \in [Browsers -> SUBSET TenantSession]
      <4>. HIDE DEF TenantSession
      <4>. QED
        BY <1>1, <3>1, <3>2
    <3>4. {"HANDOFF_TOKEN_CONSUMED", "TENANT_SESSION_ESTABLISHED"} \cup LoggedInEvents \subseteq KnownEvents
      BY DEF KnownEvents, LoggedInEvents
    <3>5. refused' = {}
      BY <1>1, <2>2, <3>4, KnownIsSilent DEF Answer
    <3>. QED
      BY <3>3, <3>5
  <2>. QED
    BY <2>1, <2>2
<1>4. RequestsTyped'
  BY <1>1, IdleTyped, TypeParts, MoveTyped
<1>5. PolicyTyped' /\ HistoryTyped'
  BY <1>1, <1>3, TypeParts DEF PolicyTyped, HistoryTyped, policyVars
<1>. QED
  BY <1>2, <1>3, <1>4, <1>5, TypeParts DEF SessionsTyped

LEMMA AnswerMoves ==
    ASSUME LoginInv, NEW q \in Requests, Answer(q)
    PROVE  LoginInv' /\ KeysFollow /\ HistoryGrows
<1>. DEFINE b == From[q]
<1>1. /\ LoginTypeOK /\ LoginTypeOK' /\ RequestGood(q) /\ SessionGood(b) /\ b \in Browsers
      /\ now \in Nat /\ now' = now /\ passed' = passed /\ totp' = totp /\ config' = config
      /\ password' = password /\ password \in [Users -> Nat]
      /\ req[q].copy \in Session /\ root[b] \in Session /\ req[q].pc = "answer"
  BY InvFacts, AnswerTyped DEF Answer, policyVars
<1>2. HistoryGrows /\ now' \in Nat /\ req[q].copy.gen \in Nat /\ root[b].gen \in Nat
  BY <1>1, SessionFieldsTyped DEF HistoryGrows
<1>3. KeysFollow /\ \A c \in Browsers : SessionGood(c)'
  <2>1. CASE UNCHANGED root
    BY <1>2, <2>1, NoneWritten
  <2>2. CASE Saves(req[q]) /\ KeyStands(b, req[q].copy.gen) /\ Write(b, req[q].copy)
    <3>1. root'[b] = req[q].copy /\ \A c \in Browsers : c # b => root'[c] = root[c]
      BY <1>1, <2>2, WrittenIs
    <3>2. req[q].copy.gen = root[b].gen /\ req[q].copy.user = root[b].user
            /\ req[q].copy.hash = root[b].hash
      BY <1>1, <2>2 DEF Saves, KeyStands, RequestGood, CopyLoaded
    <3>3. SessionGood(b)'
      BY <1>1, <3>1, <3>2 DEF RequestGood, CopyGood, SessionGood
    <3>4. root'[b].gen >= root[b].gen /\ root'[b].user = root[b].user /\ root'[b].hash = root[b].hash
      BY <1>2, <3>1, <3>2
    <3>. HIDE DEF b
    <3>. QED
      BY <1>1, <1>2, <3>1, <3>3, <3>4, OneWritten
  <2>. QED
    BY <2>1, <2>2 DEF Answer
<1>4. req'[q] = Idle /\ \A p \in Requests : p # q => req'[p] = req[p]
  BY <1>1 DEF Answer, Move, LoginTypeOK
<1>5. RequestGood(q)'
  <2>1. Idle.copy.user = {} /\ Idle.copy.mfa = {}
    BY IdleIs, NewSessionIs
  <2>. QED
    BY <1>4, <2>1, IdleIs DEF RequestGood, CopyGood, CopyLoaded, KeptOut, ClaimGood
<1>6. ASSUME NEW p \in Requests, p # q PROVE RequestGood(p)'
  <2>1. RequestGood(p) /\ req'[p] = req[p]
    BY <1>4, <1>6 DEF LoginInv
  <2>. QED
    BY <1>1, <1>2, <1>3, <2>1, RequestStands
<1>. QED
  BY <1>1, <1>2, <1>3, <1>5, <1>6 DEF LoginInv

-----------------------------------------------------------------------------
(* Putting the steps together.                                             *)
LEMMA InvInit == Init => LoginInv
<1>. SUFFICES ASSUME Init PROVE LoginInv
  OBVIOUS
<1>1. NewSession(0) \in Session /\ Idle \in Calls
  BY NewSessionTyped, IdleTyped, LoginAssumption
<1>2. LoginTypeOK
  <2>. HIDE DEF Session, Calls, Idle, NewSession
  <2>. QED
    BY <1>1, LoginAssumption DEF Init, LoginTypeOK, Times
<1>3. ASSUME NEW b \in Browsers PROVE SessionGood(b)
  BY NewSessionIs DEF Init, SessionGood
<1>4. ASSUME NEW q \in Requests PROVE RequestGood(q)
  <2>1. req[q] = Idle /\ Idle.copy.user = {} /\ Idle.copy.mfa = {}
    BY IdleIs, NewSessionIs DEF Init
  <2>. QED
    BY <2>1, IdleIs DEF RequestGood, CopyGood, CopyLoaded, KeptOut, ClaimGood
<1>. QED
  BY <1>2, <1>3, <1>4 DEF LoginInv

LEMMA OutsideStep ==
    ASSUME LoginInv, LoginTypeOK', SessionsMoveWell, OthersStand
    PROVE  LoginInv' /\ KeysFollow /\ HistoryGrows
<1>1. ASSUME NEW q \in Requests PROVE RequestGood(q)'
  <2>1. LoginTypeOK /\ RequestGood(q) /\ KeysFollow /\ HistoryGrows
    BY DEF LoginInv, SessionsMoveWell
  <2>. QED
    BY <2>1, RequestStands DEF OthersStand
<1>. QED
  BY <1>1 DEF LoginInv, SessionsMoveWell

LEMMA InvStep == LoginInv /\ [Next]_loginVars => LoginInv' /\ [KeysFollow /\ HistoryGrows]_loginVars
<1>. SUFFICES ASSUME LoginInv, [Next]_loginVars PROVE LoginInv' /\ [KeysFollow /\ HistoryGrows]_loginVars
  OBVIOUS
<1>. DEFINE Goal == LoginInv' /\ [KeysFollow /\ HistoryGrows]_loginVars
<1>. SUFFICES Goal
  OBVIOUS
<1>0. LoginInv' /\ KeysFollow /\ HistoryGrows => Goal
  OBVIOUS
<1>1. ASSUME NEW b \in Browsers, Page(b) PROVE Goal
  <2>1. LoginTypeOK
    BY DEF LoginInv
  <2>. QED
    BY <1>0, <1>1, <2>1, PageTyped, PageMoves, OutsideStep
<1>2. CASE World
  <2>1. LoginTypeOK
    BY DEF LoginInv
  <2>. QED
    BY <1>0, <1>2, <2>1, WorldTyped, WorldMoves, OutsideStep
<1>3. ASSUME NEW q \in Requests, Asks(q) PROVE Goal
  <2>1. {} \in SUBSET Orgs /\ \A o \in Orgs : {o} \in SUBSET Orgs
    OBVIOUS
  <2>2. "select" \in Kinds \ {"landing"} /\ "console" \in Kinds \ {"landing"} /\ "issue" \in Kinds \ {"landing"}
    BY DEF Kinds
  <2>3. \/ Ask(q, "select", {}) \/ Ask(q, "console", {})
        \/ \E o \in Orgs : Ask(q, "issue", {o})
        \/ \E s \in TenantSession : AskTenant(q, s)
    <3>1. tenant[From[q]] \in SUBSET TenantSession
      <4>1. tenant \in [Browsers -> SUBSET TenantSession] /\ From[q] \in Browsers
        BY LoginAssumption DEF LoginInv, LoginTypeOK
      <4>. HIDE DEF TenantSession
      <4>. QED
        BY <4>1
    <3>. QED
      BY <1>3, <3>1 DEF Asks
  <2>4. ASSUME NEW s \in TenantSession, AskTenant(q, s) PROVE Goal
    BY <1>0, <2>4, AskTenantMoves
  <2>5. ASSUME NEW kind \in Kinds \ {"landing"}, NEW O \in SUBSET Orgs, Ask(q, kind, O) PROVE Goal
    BY <1>0, <2>5, AskMoves
  <2>. HIDE DEF Goal
  <2>. QED
    BY <2>1, <2>2, <2>3, <2>4, <2>5
<1>4. ASSUME NEW q \in Requests, Serve(q) PROVE Goal
  BY <1>0, <1>4, GateTotpMoves, GateConfigMoves, ViewMoves, IssueMoves, AnswerMoves DEF Serve
<1>5. CASE UNCHANGED loginVars
  <2>1. LoginTypeOK'
    BY <1>5 DEF LoginInv, LoginTypeOK, loginVars, policyVars
  <2>2. SessionsMoveWell
    <3>1. HistoryGrows /\ now' \in Nat /\ UNCHANGED root
      BY <1>5 DEF LoginInv, LoginTypeOK, Times, HistoryGrows, loginVars, policyVars
    <3>. QED
      BY <3>1, NoneWritten DEF SessionsMoveWell
  <2>3. OthersStand
    BY <1>5 DEF OthersStand, loginVars, policyVars
  <2>. QED
    BY <1>0, <2>1, <2>2, <2>3, OutsideStep
<1>. HIDE DEF Goal
<1>6. CASE Next
  BY <1>1, <1>2, <1>3, <1>4, <1>6, Zenon DEF Next
<1>. QED
  BY <1>5, <1>6, Zenon

LEMMA LoginInvHolds == Spec => []LoginInv
<1>. QED
  BY InvInit, InvStep, PTL DEF Spec

(* The state stays well-formed, and no page meets an event type that the   *)
(* audit service would raise for.                                          *)
THEOREM LoginStaysTyped == Spec => []LoginTypeOK
<1>1. LoginInv => LoginTypeOK
  BY DEF LoginInv
<1>. QED
  BY <1>1, LoginInvHolds, PTL

(* Whatever requests overlap, a token names an MFA that its person did     *)
(* satisfy in the browser it is issued to, within the limit.               *)
THEOREM TokensVouchTruly == Spec => []TokensAreVouchedFor
<1>1. LoginInv => TokensAreVouchedFor
  BY DEF LoginInv, RequestGood, ClaimGood, TokensAreVouchedFor
<1>. QED
  BY <1>1, LoginInvHolds, PTL

(* A request that the policy is against from its start to its end gets     *)
(* nothing from behind the gate.                                           *)
THEOREM GateObeysPolicy == Spec => []PolicyTakesEffect
<1>1. LoginInv => PolicyTakesEffect
  BY DEF LoginInv, RequestGood, KeptOut, PolicyTakesEffect
<1>. QED
  BY <1>1, LoginInvHolds, PTL

(* A session that is not void now was not void before the step, under the  *)
(* same key.                                                               *)
LEMMA NoneIsRevived ==
    ASSUME LoginInv, KeysFollow, HistoryGrows, NEW b \in Browsers,
           root'[b].gen = root[b].gen, SignedIn(b)'
    PROVE  SignedIn(b)
<1>1. /\ root[b].user \subseteq Users /\ root[b].hash \in Nat /\ SessionGood(b)
      /\ root'[b].user = root[b].user /\ root'[b].hash = root[b].hash
  BY SessionFieldsTyped DEF LoginInv, LoginTypeOK, KeysFollow
<1>2. ASSUME NEW u \in root[b].user PROVE root[b].hash = password[u]
  <2>1. root[b].hash = password'[u] /\ root[b].hash <= password[u]
    BY <1>1 DEF SignedIn, Stands, SessionGood
  <2>. QED
    BY <1>1, <2>1 DEF HistoryGrows
<1>. QED
  BY <1>1, <1>2 DEF SignedIn, Stands

(* However many requests are in flight, none of them brings back a session *)
(* that a logout or a login has ended, or its person; nor does a password  *)
(* that was current become so again for a session it was changed under.    *)
THEOREM NoSessionComesBack == Spec => LogoutIsFinal
<1>. DEFINE Final == \A b \in Browsers :
        /\ root'[b].gen >= root[b].gen
        /\ root'[b].gen = root[b].gen =>
             root'[b].user = root[b].user /\ (SignedIn(b)' => SignedIn(b))
<1>1. ASSUME LoginInv, KeysFollow, HistoryGrows PROVE Final
  <2>1. \A b \in Browsers :
          /\ root'[b].gen >= root[b].gen
          /\ root'[b].gen = root[b].gen => root'[b].user = root[b].user
    BY <1>1 DEF KeysFollow
  <2>2. \A b \in Browsers : root'[b].gen = root[b].gen => (SignedIn(b)' => SignedIn(b))
    BY <1>1, NoneIsRevived
  <2>. QED
    BY <2>1, <2>2
<1>. HIDE DEF Final
<1>2. LoginInv /\ [Next]_loginVars => [Final]_loginVars
  BY <1>1, InvStep
<1>3. [][Final]_loginVars => LogoutIsFinal
  BY PTL DEF Final, LogoutIsFinal
<1>. QED
  BY <1>2, <1>3, LoginInvHolds, PTL DEF Spec

=============================================================================
