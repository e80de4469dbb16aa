------------------------------ MODULE Identity ------------------------------
(***************************************************************************)
(* External identities and registration: what pre_social_login and         *)
(* resolve_external_user do in an OAuth callback, and register_local_user. *)
(* Requests interleave at their statements (READ COMMITTED): each reads    *)
(* before it inserts, and only the unique indexes on User.email and on     *)
(* SocialAccount (provider, uid) decide who was first.  A row is seen once *)
(* its transaction commits; until then an equal INSERT waits for it.       *)
(***************************************************************************)
CONSTANTS
    Ids,            \* ids of User rows
    Emails,         \* email addresses, in lower case
    Providers,      \* provider codes of OAuthProviderConfig rows
    Uids,           \* what a provider calls its users
    Policies,       \* what an OAuthProviderConfig row may say
    Requests,       \* requests that may be in flight at the same time
    Unlinkers,      \* likewise for those that dissolve a link
    CallerAtomic    \* whether allauth's callback view holds a transaction

ASSUME CallerAssumption == CallerAtomic \in BOOLEAN

\* is_active, allowed_email_domains, require_verified_email, allow_self_registration
ASSUME PolicyAssumption ==
    Policies \subseteq [active : BOOLEAN, domains : SUBSET Emails,
                        strict : BOOLEAN, signup : BOOLEAN]

VARIABLES
    mail,       \* mail[u]: the email of the committed User row u, {}: no row
    external,   \* rows with external_login_only and an unusable password
    inactive,   \* rows with is_active=False
    links,      \* committed SocialAccount rows
    unlinking,  \* unlinking[x]: the row that x has checked and will delete
    req         \* req[q]: a request in flight, or how the last one ended

idVars == <<mail, external, inactive, links, unlinking, req>>

Subjects == [provider : Providers, uid : Uids]

Link(s, u) == [subject |-> s, user |-> u]

\* ExternalIdentityClaims; {} for a local registration's subject, and None.
Claims == [subject : SUBSET Subjects, mail : SUBSET Emails, verified : BOOLEAN]

\* What a provider presents: a subject, perhaps an address.
Presented ==
    {[subject |-> {s}, mail |-> E, verified |-> v] :
        s \in Subjects, E \in {{}} \cup {{e} : e \in Emails}, v \in BOOLEAN}

Steps == {"idle", "lookup", "touch", "email", "conflict", "link", "person",
          "personlink", "return", "create", "created"}

NoClaims == [subject |-> {}, mail |-> {}, verified |-> FALSE]

Idle == [pc |-> "idle", claims |-> NoClaims, signup |-> FALSE, user |-> {},
         made |-> {}, answer |-> "out", asleep |-> {}]

(* user is the row a request has found, made the one it has inserted;      *)
(* answer is "in" (logged in), "out" (a help page, an error message, or    *)
(* nothing yet) or "error" (an exception that nobody catches).  asleep is  *)
(* history: the rows that have been inactive ever since the request began. *)
RequestRecords ==
    [pc : Steps, claims : Claims, signup : BOOLEAN, user : SUBSET Ids,
     made : SUBSET Ids, answer : {"in", "out", "error"}, asleep : SUBSET Ids]

-----------------------------------------------------------------------------
(* What a statement sees. *)

People == {u \in Ids : mail[u] # {}}

\* SocialAccount.objects.filter(provider=..., uid=...), as the users linked
Owners(s) == {u \in Ids : Link(s, u) \in links}

\* UserModel.objects.filter(email=claims.email)
Named(q) == {u \in People : mail[u] = req[q].claims.mail}

\* A mutant: is_active is not looked at.
AnyoneEnters(u) == TRUE

MayEnter(u) == u \notin inactive

\* A mutant: can_attempt_email_linking forgets email_verified.
VouchedByAddress(q) == req[q].claims.mail # {}

\* can_attempt_email_linking
Vouched(q) == req[q].claims.mail # {} /\ req[q].claims.verified

\* _has_conflicting_external_identity
Conflicting(q) ==
    \E s \in req[q].claims.subject, l \in links :
        /\ l.user \in req[q].user
        /\ l.subject.provider = s.provider
        /\ l.subject.uid # s.uid

(* The unique indexes: equal rows of open transactions make an INSERT      *)
(* wait, committed ones make it fail with an IntegrityError.               *)
MailPending(q) ==
    \E p \in Requests \ {q} : req[p].made # {} /\ req[p].claims.mail = req[q].claims.mail

SubjectPending(q) ==
    \E p \in Requests \ {q} :
        req[p].pc = "return" /\ req[p].claims.subject = req[q].claims.subject

\* A mutant: email is not unique.
EmailNotUnique(q) == FALSE

MailTaken(q) == Named(q) # {}

SubjectTaken(q) == \E s \in req[q].claims.subject : Owners(s) # {}

Made == UNION {req[q].made : q \in Requests}

Goto(q, step) == req' = [req EXCEPT ![q].pc = step]

Answer(q, answer) == req' = [req EXCEPT ![q] = [Idle EXCEPT !.answer = answer]]

Refuse(q) == Answer(q, "out")
Crash(q) == Answer(q, "error")

-----------------------------------------------------------------------------
Init ==
    /\ mail = [u \in Ids |-> {}]
    /\ external = {}
    /\ inactive = {}
    /\ links = {}
    /\ unlinking = [x \in Unlinkers |-> {}]
    /\ req = [q \in Requests |-> Idle]

\* Steps 1 to 3 of resolve_external_user; a refusal there changes nothing.
Admits(policy, claims) ==
    /\ policy.active
    /\ policy.domains # {} => claims.mail # {} /\ claims.mail \subseteq policy.domains
    /\ policy.strict => claims.verified

(* A callback reaches pre_social_login, which emits an audit event with no *)
(* transaction of its own, reads the provider's row, and resolves.         *)
Callback(q, claims, policy) ==
    /\ req[q].pc = "idle"
    /\ \/ /\ ~CallerAtomic
          /\ Crash(q)
       \/ /\ CallerAtomic
          /\ Admits(policy, claims)
          /\ req' = [req EXCEPT ![q] =
                       [Idle EXCEPT !.pc = "lookup", !.claims = claims,
                                    !.signup = policy.signup, !.asleep = inactive]]
    /\ UNCHANGED <<mail, external, inactive, links, unlinking>>

\* Step 4: the subject's account, with its user in the same SELECT.
Lookup(q) ==
    /\ req[q].pc = "lookup"
    /\ \E s \in req[q].claims.subject :
         \/ /\ Owners(s) = {}
            /\ Goto(q, "email")
         \/ \E u \in Owners(s) :
              IF MayEnter(u)
              THEN req' = [req EXCEPT ![q].pc = "touch", ![q].user = {u}]
              ELSE Refuse(q)
    /\ UNCHANGED <<mail, external, inactive, links, unlinking>>

(* _update_socialaccount_extra_data: save(update_fields=...) raises a      *)
(* DatabaseError when the account was unlinked in the meantime.            *)
Touch(q) ==
    /\ req[q].pc = "touch"
    /\ IF \E s \in req[q].claims.subject, u \in req[q].user : Link(s, u) \in links
       THEN Answer(q, "in")
       ELSE Crash(q)
    /\ UNCHANGED <<mail, external, inactive, links, unlinking>>

\* Steps 6 and 7: nobody was found to link to.
SelfRegister(q) ==
    \/ /\ req[q].signup
       /\ IF req[q].claims.mail = {} THEN Crash(q) ELSE Goto(q, "person")
    \/ /\ ~req[q].signup
       /\ Refuse(q)

\* Step 5: the person with that address, if the provider vouches for it.
ByEmail(q) ==
    /\ req[q].pc = "email"
    /\ \/ /\ ~Vouched(q) \/ Named(q) = {}
          /\ SelfRegister(q)
       \/ /\ Vouched(q)
          /\ \E u \in Named(q) :
               IF MayEnter(u)
               THEN req' = [req EXCEPT ![q].pc = "conflict", ![q].user = {u}]
               ELSE Refuse(q)
    /\ UNCHANGED <<mail, external, inactive, links, unlinking>>

CheckConflict(q) ==
    /\ req[q].pc = "conflict"
    /\ IF Conflicting(q) THEN Refuse(q) ELSE Goto(q, "link")
    /\ UNCHANGED <<mail, external, inactive, links, unlinking>>

\* INSERT of a User, in _create_external_user_and_link or register_local_user
InsertPerson(q, before, after) ==
    /\ req[q].pc = before
    /\ ~MailPending(q)
    /\ \/ /\ MailTaken(q)
          /\ Refuse(q)
       \/ /\ ~MailTaken(q)
          /\ \E u \in Ids \ (People \cup Made) :        \* BOUND: the ids run out
               req' = [req EXCEPT ![q].pc = after, ![q].made = {u}]
    /\ UNCHANGED <<mail, external, inactive, links, unlinking>>

NewPerson(q) == InsertPerson(q, "person", "personlink")

\* A mutant: the failed INSERT is tried again and again.
InsertLinkRetries(q, before) ==
    /\ req[q].pc = before
    /\ ~SubjectPending(q)
    /\ ~SubjectTaken(q)
    /\ Goto(q, "return")
    /\ UNCHANGED <<mail, external, inactive, links, unlinking>>

\* A mutant: the person is saved in a transaction of its own.
InsertLinkApart(q, before) ==
    /\ req[q].pc = before
    /\ ~SubjectPending(q)
    /\ \/ /\ SubjectTaken(q)
          /\ mail' = [u \in Ids |-> IF u \in req[q].made THEN req[q].claims.mail ELSE mail[u]]
          /\ external' = external \cup req[q].made
          /\ Refuse(q)
       \/ /\ ~SubjectTaken(q)
          /\ Goto(q, "return")
          /\ UNCHANGED <<mail, external>>
    /\ UNCHANGED <<inactive, links, unlinking>>

(* INSERT of a SocialAccount: _link_socialaccount_to_user for a person     *)
(* that was found, _create_external_user_and_link for one just inserted,   *)
(* which an IntegrityError rolls back.                                     *)
InsertLink(q, before) ==
    /\ req[q].pc = before
    /\ ~SubjectPending(q)
    /\ IF SubjectTaken(q) THEN Refuse(q) ELSE Goto(q, "return")
    /\ UNCHANGED <<mail, external, inactive, links, unlinking>>

\* A mutant: the person is never saved.
MailWithout(q) == mail

MailWith(q) ==
    [u \in Ids |-> IF u \in req[q].made THEN req[q].claims.mail ELSE mail[u]]

\* The callback's transaction commits and allauth logs the person in.
Return(q) ==
    /\ req[q].pc = "return"
    /\ mail' = MailWith(q)
    /\ external' = external \cup req[q].made
    /\ links' = links \cup
         {Link(s, u) : s \in req[q].claims.subject, u \in req[q].user \cup req[q].made}
    /\ Answer(q, "in")
    /\ UNCHANGED <<inactive, unlinking>>

(* register_local_user: the address is validated, looked up, and inserted  *)
(* in a transaction whose IntegrityError becomes UserAlreadyExistsError.   *)
Register(q, e) ==
    /\ req[q].pc = "idle"
    /\ \A u \in People : e \notin mail[u]
    /\ req' = [req EXCEPT ![q] = [Idle EXCEPT !.pc = "create",
                                              !.claims = [NoClaims EXCEPT !.mail = {e}]]]
    /\ UNCHANGED <<mail, external, inactive, links, unlinking>>

RegisterInsert(q) == InsertPerson(q, "create", "created")

RegisterCommit(q) ==
    /\ req[q].pc = "created"
    /\ mail' = MailWith(q)
    /\ inactive' \in {inactive, inactive \cup req[q].made}   \* is_active is the caller's
    /\ Refuse(q)
    /\ UNCHANGED <<external, links, unlinking>>

\* The worker or the connection is lost: what it wrote is rolled back.
RequestFails(q) ==
    /\ req[q].pc # "idle"
    /\ Crash(q)
    /\ UNCHANGED <<mail, external, inactive, links, unlinking>>

-----------------------------------------------------------------------------
(* What happens around the services. *)

\* Staff switches a person off or on.
SwitchOff(u) ==
    /\ u \in People \ inactive
    /\ inactive' = inactive \cup {u}
    /\ UNCHANGED <<mail, external, links, unlinking, req>>

SwitchOn(u) ==
    /\ u \in inactive
    /\ inactive' = inactive \ {u}
    /\ req' = [q \in Requests |-> [req[q] EXCEPT !.asleep = @ \ {u}]]
    /\ UNCHANGED <<mail, external, links, unlinking>>

(* allauth's DisconnectForm refuses to take the last login method from a   *)
(* person with no password; the view deletes the account afterwards, and   *)
(* whoever else was about to delete that row finds nothing.                *)
UnlinkCheck(x, l) ==
    /\ unlinking[x] = {}
    /\ l \in links
    /\ l.user \in external => \E k \in links \ {l} : k.user = l.user
    /\ unlinking' = [unlinking EXCEPT ![x] = {l}]
    /\ UNCHANGED <<mail, external, inactive, links, req>>

UnlinkDelete(x) ==
    /\ unlinking[x] # {}
    /\ links' = links \ unlinking[x]
    /\ unlinking' = [y \in Unlinkers |-> unlinking[y] \ unlinking[x]]
    /\ UNCHANGED <<mail, external, inactive, req>>

UnlinkFails(x) ==
    /\ unlinking[x] # {}
    /\ unlinking' = [unlinking EXCEPT ![x] = {}]
    /\ UNCHANGED <<mail, external, inactive, links, req>>

Unlink(x) == (\E l \in links : UnlinkCheck(x, l)) \/ UnlinkDelete(x) \/ UnlinkFails(x)

-----------------------------------------------------------------------------
Work(q) ==
    \/ Lookup(q)
    \/ Touch(q)
    \/ ByEmail(q)
    \/ CheckConflict(q)
    \/ InsertLink(q, "link")
    \/ NewPerson(q)
    \/ InsertLink(q, "personlink")
    \/ Return(q)
    \/ RegisterInsert(q)
    \/ RegisterCommit(q)

Arrive(q) ==
    \/ \E claims \in Presented, policy \in Policies : Callback(q, claims, policy)
    \/ \E e \in Emails : Register(q, e)

Around ==
    \/ \E u \in Ids : SwitchOff(u) \/ SwitchOn(u)
    \/ \E x \in Unlinkers : Unlink(x)

Next ==
    \/ \E q \in Requests : Arrive(q) \/ Work(q) \/ RequestFails(q)
    \/ Around

Spec == Init /\ [][Next]_idVars

-----------------------------------------------------------------------------
(* The shape of the state; a link is to a row that exists. *)
IdTypeOK ==
    /\ mail \in [Ids -> SUBSET Emails]
    /\ external \subseteq People
    /\ inactive \subseteq People
    /\ links \subseteq [subject : Subjects, user : People]
    /\ unlinking \in [Unlinkers -> SUBSET [subject : Subjects, user : People]]
    /\ req \in [Requests -> RequestRecords]

\* The directory that these services keep.
D == INSTANCE Directory WITH
        Persons <- Ids, Addresses <- Emails,
        owner <- [s \in Subjects |-> Owners(s)]

(* However callbacks and registrations race, an address and a subject have *)
(* one person each, and a binding is dissolved only by unlinking.          *)
ImplementsDirectory == D!DirectorySpec

(* A person with no password can log in: the row never appears without its *)
(* link, even when another callback takes the subject between the two.     *)
ExternalHasLink == \A u \in external : \E l \in links : l.user = u

(* resolve_external_user steps 3 and 5 (B.4.7): a person who existed gets  *)
(* a new link only in a callback whose provider vouched for the address of *)
(* that very person.                                                       *)
LinkIsVouchedFor ==
    [][\A l \in links' \ links : l.user \in People =>
         \E q \in Requests : /\ l.subject \in req[q].claims.subject
                             /\ req[q].claims.verified
                             /\ mail[l.user] = req[q].claims.mail]_idVars

(* Nobody is logged in who was inactive all the time since the callback    *)
(* began, by whichever of the two ways the person was found.               *)
InactiveStaysOut ==
    [][\A q \in Requests :
         req[q].pc # "idle" /\ req'[q].answer = "in" =>
             (req[q].user \cup req[q].made) \cap req[q].asleep = {}]_idVars

(* An INSERT waits for equal rows of open transactions, two of them in a  *)
(* self-registration: some request in flight can always go on.             *)
SomeoneProceeds ==
    (\E q \in Requests : req[q].pc # "idle") =>
        \E q \in Requests : req[q].pc # "idle" /\ ENABLED Work(q)

(* m1-d6-retro.md: every audit event outside a service goes through        *)
(* record_auth_event.  One that does not crashes its request: here, every  *)
(* callback as it arrives.                                                 *)
CallbackIsAnswered ==
    [][\A q \in Requests : req[q].pc = "idle" => req'[q].answer # "error"]_idVars

(* B.4.7 rule 4, "no conflicting existing external identity exists": a     *)
(* person has one subject per provider.  Kept while requests do not        *)
(* overlap; two that check before either inserts both link.                *)
OneSubjectPerProvider ==
    \A k, l \in links :
        k.user = l.user /\ k.subject.provider = l.subject.provider => k = l

(* No two requests dissolve links of one person at the same time.  Two     *)
(* that do, each of another link, both find the other's still there, and   *)
(* a person with no password is left with none.                            *)
UnlinksApart ==
    \A x, y \in Unlinkers :
        (\E k \in unlinking[x], l \in unlinking[y] : k.user = l.user) => x = y

(* One request at a time: nobody starts while another is in flight.        *)
OneAtATime ==
    \A p, q \in Requests : req[p].pc # "idle" /\ req[q].pc # "idle" => p = q

=============================================================================
