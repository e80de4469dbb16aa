--------------------------- MODULE Impersonation ---------------------------
(***************************************************************************)
(* Platform-admin impersonation: the rows that start_impersonation and     *)
(* end_impersonation keep, the console views that start and end one, and   *)
(* the admin's browser on the tenant hosts, where every request first      *)
(* passes the MFA and the liveness middleware.  Requests interleave at     *)
(* their database statements; one transaction is one action.  The handoff  *)
(* token a start mints is a one-shot ticket (OneShot).                     *)
(***************************************************************************)
CONSTANTS
    Admins,        \* active staff users
    Users,         \* the users they may impersonate: active and not staff
    Orgs,          \* organizations, each with its own host
    Memberships,   \* ACTIVE memberships, records [user, org]
    Rows,          \* ids of ImpersonationSession rows
    Requests,      \* web requests that may be in flight at the same time
    Enrolled,      \* the users with a TOTP authenticator
    Faults         \* whether a database or Redis command may fail

ASSUME PeopleAssumption ==
    /\ Admins \cap Users = {}
    /\ Memberships \subseteq [user : Users, org : Orgs]
    /\ Faults \in BOOLEAN

VARIABLES
    row,    \* row[r]: an ImpersonationSession; by # {} once it has ended
    token,  \* token[r]: the handoff token minted for row r
    sess,   \* sess[<<a, h>>]: admin a's browser session on tenant host h
    req     \* req[q]: a request in flight

impVars == <<row, token, sess, req>>

NoRow == [admin |-> {}, m |-> {}, by |-> {}]

Idle == [pc |-> "idle", admin |-> {}, m |-> {}, host |-> {},
         row |-> {}, due |-> {}, by |-> {}]

TenantViews == {"consume", "page", "enroll", "logout", "endbutton"}
Steps == {"idle", "insert", "mint", "rollback", "ending", "flush"} \cup TenantViews

\* Singletons, or {} for None.  A session's row is history, read by no step.
RowRecords == [admin : SUBSET Admins, m : SUBSET Memberships, by : SUBSET (Admins \cup Users)]
SessionRecords == [user : Users, row : Rows]
(* due is history: the active row by which a request passed the middleware *)
RequestRecords == [pc : Steps, admin : SUBSET Admins, m : SUBSET Memberships,
                   host : SUBSET Orgs, row : SUBSET Rows, due : SUBSET Rows,
                   by : SUBSET (Admins \cup Users)]

Exists == {r \in Rows : row[r].admin # {}}
Active == {r \in Exists : row[r].by = {}}

\* ImpersonationSessionManager.active_for_admin
ActiveFor(A) == {r \in Active : row[r].admin = A}

\* A mutant: the two arguments are swapped.
TargetSwapped(r) == {m.org : m \in row[r].m}

Target(r) == {m.user : m \in row[r].m}
Tenant(r) == {m.org : m \in row[r].m}

Finish(q) == req' = [req EXCEPT ![q] = Idle]

Init ==
    /\ row = [r \in Rows |-> NoRow]
    /\ token = [r \in Rows |-> "none"]
    /\ sess = [b \in Admins \X Orgs |-> {}]
    /\ req = [q \in Requests |-> Idle]

-----------------------------------------------------------------------------
(* start_impersonation, called by UserImpersonateView.post.  Its checks of *)
(* the reason, the people and the membership refuse without any effect.    *)
StartCheck(q, a, m) ==
    /\ req[q].pc = "idle"
    /\ Exists # Rows                            \* BOUND: the row ids run out
    /\ ActiveFor({a}) = {}
    /\ req' = [req EXCEPT ![q] = [Idle EXCEPT !.pc = "insert", !.admin = {a}, !.m = {m}]]
    /\ UNCHANGED <<row, token, sess>>

\* A mutant: there is no impers_one_active_per_admin index.
NoIndex(A) == FALSE

\* The unique index impers_one_active_per_admin rejects the INSERT.
Clash(A) == ActiveFor(A) # {}

StartInsert(q) ==
    /\ req[q].pc = "insert"
    /\ \/ /\ Clash(req[q].admin)
          /\ Finish(q)
          /\ UNCHANGED row
       \/ /\ ~Clash(req[q].admin)
          /\ \E r \in Rows \ Exists :
               /\ row' = [row EXCEPT ![r] =
                            [admin |-> req[q].admin, m |-> req[q].m, by |-> {}]]
               /\ req' = [req EXCEPT ![q].pc = "mint", ![q].row = {r}]
    /\ UNCHANGED <<token, sess>>

\* issue_handoff_token returns a token, and the browser gets it.
Mint(q) ==
    /\ req[q].pc = "mint"
    /\ token' = [r \in Rows |-> IF r \in req[q].row THEN "live" ELSE token[r]]
    /\ Finish(q)
    /\ UNCHANGED <<row, sess>>

\* A mutant: the two errors are not caught.
MintRefusedUncaught(q) ==
    /\ req[q].pc = "mint"
    /\ Finish(q)
    /\ UNCHANGED <<row, token, sess>>

\* It raises HandoffInvalidIssueParamError or NoActiveHandoffSigningKeyError.
MintRefused(q) ==
    /\ req[q].pc = "mint"
    /\ req' = [req EXCEPT ![q].pc = "rollback"]
    /\ UNCHANGED <<row, token, sess>>

-----------------------------------------------------------------------------
(* end_impersonation: the row is locked, an ended one is left alone.       *)

\* A mutant: without the check of ended_at.
EndRowAgain(R, who) ==
    row' = [r \in Rows |-> IF r \in R THEN [row[r] EXCEPT !.by = who] ELSE row[r]]

EndRow(R, who) ==
    row' = [r \in Rows |-> IF r \in R \cap Active THEN [row[r] EXCEPT !.by = who] ELSE row[r]]

\* UserImpersonateView ends the row when no token could be minted.
Rollback(q) ==
    /\ req[q].pc = "rollback"
    /\ EndRow(req[q].row, req[q].admin)
    /\ Finish(q)
    /\ UNCHANGED <<token, sess>>

\* EndImpersonationFromConsoleView.post, by any staff user.
ConsoleEnd(s, r) ==
    /\ r \in Exists
    /\ EndRow({r}, {s})
    /\ UNCHANGED <<token, sess, req>>

-----------------------------------------------------------------------------
(* A request on a tenant host.  RequireMfaEnrollmentMiddleware redirects   *)
(* the session of a user without TOTP, who has no provider code on a       *)
(* tenant host, to the enrollment page, and nothing else happens.  That    *)
(* page is exempt, and does not exist on a tenant host.                    *)
(* EnforceImpersonationLiveness, which comes next, logs the session out or *)
(* lets the request through to its view.                                   *)

\* A mutant: the target is not compared.
AliveForAnyone(s, a) == ActiveFor({a}) # {}

Alive(s, a) == \E r \in ActiveFor({a}) : s.user \in Target(r)

HasTotp(mine) == \A s \in mine : s.user \in Enrolled

Gate(q, a, h, view) ==
    LET mine == sess[<<a, h>>]
        mfa == view = "enroll" \/ HasTotp(mine)
        alive == \A s \in mine : Alive(s, a)
    IN  /\ req[q].pc = "idle"
        /\ mfa
        /\ view # "consume" => mine # {}
        /\ \/ /\ alive
              /\ req' = [req EXCEPT ![q] =
                           [Idle EXCEPT !.pc = view, !.admin = {a}, !.host = {h},
                                        !.due = IF mine = {} THEN {} ELSE ActiveFor({a})]]
              /\ UNCHANGED sess
           \/ /\ ~alive
              /\ sess' = [sess EXCEPT ![<<a, h>>] = {}]
              /\ UNCHANGED req
        /\ UNCHANGED <<row, token>>

\* A mutant: the host is not compared.
ForAnyHost(r, q) == row[r].admin = req[q].admin

\* The tokens that admin's browser holds for this host.
ForThisHost(r, q) == row[r].admin = req[q].admin /\ Tenant(r) = req[q].host

\* HandoffConsumeView.post: the token is gone, whether it lets in or not.
Consume(q) ==
    /\ req[q].pc = "consume"
    /\ \/ /\ \A r \in Rows : token[r] = "live" => ~ForThisHost(r, q)
          /\ UNCHANGED <<token, sess>>
       \/ \E r \in Rows :
            /\ token[r] = "live"
            /\ ForThisHost(r, q)
            /\ token' = [token EXCEPT ![r] = "gone"]
            /\ \/ sess' = [b \in Admins \X Orgs |->
                             IF b \in req[q].admin \X req[q].host
                             THEN {[user |-> u, row |-> r] : u \in Target(r)} ELSE sess[b]]
               \/ UNCHANGED sess
    /\ Finish(q)
    /\ UNCHANGED row

\* TenantLandingView.get, which changes nothing, or a 404.
Page(q) ==
    /\ req[q].pc \in {"page", "enroll"}
    /\ Finish(q)
    /\ UNCHANGED <<row, token, sess>>

\* A mutant: the view reads the impersonator key after the session is gone.
EndReadTooLate(q) ==
    /\ req[q].pc \in {"logout", "endbutton"}
    /\ req' = [req EXCEPT ![q].pc = "ending"]
    /\ UNCHANGED <<row, token, sess>>

(* TenantLogoutView and EndImpersonationFromTenantView read the admin's    *)
(* active row again, end it in the name of request.user or of the admin,   *)
(* and log the browser out.                                                *)
EndRead(q) ==
    /\ req[q].pc \in {"logout", "endbutton"}
    /\ req' = [req EXCEPT
                 ![q].pc = "ending",
                 ![q].row = ActiveFor(req[q].admin),
                 ![q].by = IF req[q].pc = "logout" THEN UNION {Target(r) : r \in req[q].due}
                                                  ELSE req[q].admin]
    /\ UNCHANGED <<row, token, sess>>

EndIt(q) ==
    /\ req[q].pc = "ending"
    /\ EndRow(req[q].row, req[q].by)
    /\ req' = [req EXCEPT ![q].pc = "flush"]
    /\ UNCHANGED <<token, sess>>

Flush(q) ==
    /\ req[q].pc = "flush"
    /\ sess' = [b \in Admins \X Orgs |->
                  IF b \in req[q].admin \X req[q].host THEN {} ELSE sess[b]]
    /\ Finish(q)
    /\ UNCHANGED <<row, token>>

-----------------------------------------------------------------------------
\* An exception no view catches, or the worker dies: what committed stays.
RequestFails(q) ==
    /\ Faults
    /\ req[q].pc # "idle"
    /\ Finish(q)
    /\ UNCHANGED <<row, token, sess>>

\* The token runs out, or its user's own root logout revokes it.
TokenDies(r) ==
    /\ token[r] = "live"
    /\ token' = [token EXCEPT ![r] = "gone"]
    /\ UNCHANGED <<row, sess, req>>

RequestStep(q) ==
    \/ StartInsert(q) \/ Mint(q) \/ MintRefused(q) \/ Rollback(q)
    \/ Consume(q) \/ Page(q) \/ EndRead(q) \/ EndIt(q) \/ Flush(q)

Next ==
    \/ \E q \in Requests :
         \/ \E a \in Admins, m \in Memberships : StartCheck(q, a, m)
         \/ \E a \in Admins, h \in Orgs, view \in TenantViews : Gate(q, a, h, view)
         \/ RequestStep(q)
         \/ RequestFails(q)
    \/ \E s \in Admins, r \in Rows : ConsoleEnd(s, r)
    \/ \E r \in Rows : TokenDies(r)

Spec == Init /\ [][Next]_impVars

\* The admin opens the tenant's page, following the redirect to enrollment.
Browse(a, h) ==
    \E q \in Requests :
        Gate(q, a, h, IF HasTotp(sess[<<a, h>>]) THEN "page" ELSE "enroll")

(* A request that has started runs to its end.  The second conjunct is not *)
(* about the code: it says that the admin's browser goes on asking for     *)
(* pages, which is what "on the next tenant request" presupposes; strong,  *)
(* for a page asked for while all workers are busy waits for its turn.     *)
Fairness ==
    /\ \A q \in Requests : WF_impVars(RequestStep(q))
    /\ \A a \in Admins, h \in Orgs : SF_impVars(Browse(a, h))

FairSpec == Spec /\ Fairness

-----------------------------------------------------------------------------
ImpTypeOK ==
    /\ row \in [Rows -> RowRecords]
    /\ token \in [Rows -> {"none", "live", "gone"}]
    /\ sess \in [Admins \X Orgs -> SUBSET SessionRecords]
    /\ req \in [Requests -> RequestRecords]

(* B.7: however starts race, an admin has at most one active row.          *)
OneActivePerAdmin ==
    \A r, s \in Active : row[r].admin = row[s].admin => r = s

(* Who ended an impersonation is recorded once: no racing end, from the    *)
(* console, a logout or a rollback, ever overwrites an ended row.          *)
EndedIsFinal == [][\A r \in Exists \ Active : row'[r] = row[r]]_impVars

(* Once a tenant logout is about to flush the browser's session, the       *)
(* impersonation that let it through has ended, by whoever.                *)
LogoutEnds == \A q \in Requests : req[q].pc = "flush" => req[q].due \cap Active = {}

(* The view reads the admin's active row anew.  Whatever it is about to    *)
(* end is what let the request through, and no later impersonation, if no  *)
(* row of that admin is inserted between the middleware and this read.     *)
LogoutEndsNoOther ==
    \A q \in Requests : req[q].pc = "ending" => req[q].row \subseteq req[q].due

StartsApart ==
    [][\A q \in Requests : req[q].pc \in {"logout", "endbutton"} =>
         \A r \in Exists' \ Exists : row'[r].admin # req[q].admin]_impVars

(* "End it so we don't leave a dangling row": an active row without a      *)
(* token belongs to a start that is still being served.                    *)
NoDanglingRow ==
    \A r \in Active : token[r] = "none" =>
        \E q \in Requests : req[q].pc \in {"mint", "rollback"} /\ r \in req[q].row

(* A tenant session exists only for the admin, the user and the            *)
(* organization that a row was written for.                                *)
SessionHasItsRow ==
    \A a \in Admins, h \in Orgs : \A s \in sess[<<a, h>>] :
        row[s.row].admin = {a} /\ Target(s.row) = {s.user} /\ Tenant(s.row) = {h}

(* A session left by an earlier impersonation may meet a later one: the    *)
(* middleware compares the admin and the person, never the organization.   *)
(* What that comparison still keeps: a request is let through on a host    *)
(* only while somebody who belongs to that host's organization is being    *)
(* impersonated.  The guide's "may not impersonate across organizations    *)
(* within a single session" (docs/guide.md:1881) is more than it keeps: of *)
(* a member of two organizations, an impersonation in one revives the      *)
(* session left in the other.                                              *)
GateKnowsThePerson ==
    [][\A q \in Requests : req[q].pc = "idle" =>
         \A r \in req'[q].due : \E m \in Memberships :
             Target(r)' = {m.user} /\ req'[q].host = {m.org}]_impVars

(* The session of an ended impersonation is flushed by some later request, *)
(* unless the same admin is impersonating the same user again.             *)
EndedSessionGoes ==
    \A a \in Admins, h \in Orgs, r \in Rows :
        [](r \in Exists \ Active /\ (\E s \in sess[<<a, h>>] : s.row = r)
             => <>(\A s \in sess[<<a, h>>] :
                    s.row # r \/ \E x \in ActiveFor({a}) : Target(x) = {s.user}))

\* A row as a visit, and the rows by which some browser is logged in.
VisitorOf == [r \in Rows |-> row[r].admin]
MemberOf == [r \in Rows |-> row[r].m]
EndedBy == [r \in Rows |-> row[r].by]
Inside == {r \in Rows : \E b \in Admins \X Orgs : \E s \in sess[b] : s.row = r}

Visit == INSTANCE Visits WITH
    VisitIds <- Rows, Visitors <- Admins, Members <- Memberships, People <- Admins \cup Users,
    who <- VisitorOf, where <- MemberOf, endedBy <- EndedBy, pass <- token, inside <- Inside

(* To those who rely on it, impersonation is a book of visits: one open    *)
(* visit per admin, ended once and by somebody, and entered at most once,  *)
(* by the token of its start, however the requests for it race.            *)
ImplementsVisits == Visit!VisitSpec

=============================================================================
