---------------------------- MODULE Provisioning ----------------------------
(***************************************************************************)
(* create_organization, assign_owner_membership, and the seed_dev_tenant   *)
(* command that calls both between commits of its own.  Runs interleave at *)
(* their statements (READ COMMITTED); a transaction's rows are seen once   *)
(* it commits.  An INSERT waits for an equal key that an open transaction  *)
(* inserted or deleted; foreign keys are checked at COMMIT, which waits    *)
(* for a referenced row that an open transaction deleted.                  *)
(***************************************************************************)
EXTENDS RoleSeed, FiniteSets

CONSTANTS
    Orgs,       \* ids of Organization rows
    Slugs,
    Users,      \* ids of User rows, the System User aside
    Emails,     \* their addresses, in lower case
    Owner,      \* the code "owner"
    Runs,       \* calls and commands that may be in flight at the same time
    MaxKept     \* BOUND on the rows that others come to PROTECT

ASSUME OwnerAssumption == Owner \in Codes

VARIABLES
    slug,       \* slug[o]: the slug of the committed row o, {}: no row
    roles,      \* roles[o]: the codes of the Role rows of organization o
    grants,     \* grants[o]: their RoleCapability rows, as <<role, capability>>
    kept,       \* organizations with other rows that PROTECT them
    mail,       \* mail[u]: the email of the committed row u, {}: no row
    verified,   \* users with a verified primary EmailAddress
    cited,      \* users that rows other than memberships PROTECT
    members,    \* Membership rows, as <<user, organization>>
    main,       \* those with is_default_for_user
    owners,     \* those with a MembershipRole for the Owner role
    run         \* run[r]: a run in flight, or how the last one ended

orgVars == <<slug, roles, grants, kept>>
userVars == <<mail, verified, cited>>
memberVars == <<members, main, owners>>
provVars == <<seedVars, orgVars, userVars, memberVars, run>>

Steps == {"idle", "org", "templates", "links", "found", "find", "user", "save", "address",
          "member", "check", "default", "insert", "role", "seat", "late", "lateseat",
          "wipe", "wiperows", "wipejoins", "wiperoles", "wipeorg", "wipedone", "wipeuser",
          "wipemembers", "wipesave"}

Jobs == {"create", "assign", "command"}

Answers == {"done", "refused", "error", "killed"}

Idle == [pc |-> "idle", job |-> "create", slug |-> {}, mail |-> {}, org |-> {}, user |-> {},
         first |-> FALSE, shape |-> {}, copy |-> {}, severed |-> FALSE, gone |-> {},
         answer |-> "done", reset |-> FALSE, alone |-> TRUE, calm |-> TRUE]

(* org and user are the rows found or inserted, first the value for        *)
(* is_default_for_user, shape and copy the templates read, severed whether *)
(* a capability of the copy was deleted since, gone the memberships this   *)
(* run has deleted.  The last three are history: whether reset was asked   *)
(* for, whether no other run was in flight at any time, and whether no     *)
(* other run has deleted anything since.                                   *)
RunRecords ==
    [pc : Steps, job : Jobs, slug : SUBSET Slugs, mail : SUBSET Emails, org : SUBSET Orgs,
     user : SUBSET Users, first : BOOLEAN, shape : SUBSET Codes,
     copy : SUBSET (Codes \X Caps), severed : BOOLEAN, gone : SUBSET (Users \X Orgs),
     answer : Answers, reset : BOOLEAN, alone : BOOLEAN, calm : BOOLEAN]

-----------------------------------------------------------------------------
(* What a statement sees. *)

OrgRows == {o \in Orgs : slug[o] # {}}

People == {u \in Users : mail[u] # {}}

Membership(r) == run[r].user \X run[r].org

InFlight == {r \in Runs : run[r].pc # "idle"}

\* Ids are never used again: nothing in flight may still know this one.
FreshOrgs == {o \in Orgs \ OrgRows : \A r \in InFlight : o \notin run[r].org}
FreshUsers == {u \in Users \ People : \A r \in InFlight : u \notin run[r].user}

\* An open transaction has inserted an organization, or deleted its role
\* assignments, the roles too, or the row itself.
Inserting(r) == run[r].pc \in {"templates", "links", "found"}
Emptying(r) == run[r].pc \in {"wipejoins", "wiperoles", "wipeorg", "wipedone"}
RolesGone(r) == run[r].pc \in {"wipeorg", "wipedone"}
OrgGone(r) == run[r].pc = "wipedone"

RoleLocks(r) == UNION {run[p].org : p \in {q \in Runs \ {r} : RolesGone(q)}}
OrgLocks == UNION {run[p].org : p \in {q \in Runs : OrgGone(q)}}

SlugPending(r) ==
    \E p \in Runs \ {r} : (Inserting(p) \/ OrgGone(p)) /\ run[p].slug = run[r].slug

SlugTaken(r) == \E o \in Orgs : slug[o] = run[r].slug

\* Membership's unique index, and the partial one on is_default_for_user
MemberPending(r) ==
    \E p \in Runs \ {r} :
        \/ Membership(r) \subseteq run[p].gone
        \/ run[r].first /\ \E m \in run[p].gone \cap main : m[1] \in run[r].user
        \/ /\ run[p].pc \in {"role", "seat"}
           /\ \/ Membership(p) = Membership(r)
              \/ run[p].user = run[r].user /\ run[p].first /\ run[r].first

DefaultOf(r) == {m \in main : m[1] \in run[r].user}

\* A mutant: no partial unique index.
OnlyThePair(r) == Membership(r) \subseteq members

MemberTaken(r) ==
    \/ Membership(r) \subseteq members
    \/ run[r].first /\ DefaultOf(r) # {}

MailTaken(r) == \E u \in Users : mail[u] = run[r].mail

Goto(r, step) == run' = [run EXCEPT ![r].pc = step]

End(r, answer) == run' = [run EXCEPT ![r] = [Idle EXCEPT !.answer = answer]]

Crash(r) == End(r, "error")

\* A run begins: who is in flight is alone no longer.
Begin(r, record) ==
    run' = [q \in Runs |->
              IF q = r THEN [record EXCEPT !.alone = InFlight = {}]
              ELSE IF q \in InFlight THEN [run[q] EXCEPT !.alone = FALSE]
              ELSE run[q]]

\* Staff is at work, and perhaps some capabilities are lost: nobody in flight
\* is alone, nor has what it copied of them.
NotAlone(lost) ==
    run' = [q \in Runs |->
              IF q \in InFlight
              THEN [run[q] EXCEPT !.alone = FALSE,
                                  !.severed = @ \/ \E p \in run[q].copy : p[2] \in lost]
              ELSE run[q]]

\* A deletion commits: the others in flight are no longer calm.
Wiped(r, step) ==
    run' = [q \in Runs |->
              IF q = r
              THEN [run[r] EXCEPT !.pc = step, !.org = {}, !.user = {}, !.gone = {}]
              ELSE IF q \in InFlight THEN [run[q] EXCEPT !.calm = FALSE]
              ELSE run[q]]

-----------------------------------------------------------------------------
Init ==
    /\ RoleSeedInit
    /\ slug = [o \in Orgs |-> {}]
    /\ roles = [o \in Orgs |-> {}]
    /\ grants = [o \in Orgs |-> {}]
    /\ kept = {}
    /\ mail = [u \in Users |-> {}]
    /\ verified = {}
    /\ cited = {}
    /\ members = {}
    /\ main = {}
    /\ owners = {}
    /\ run = [r \in Runs |-> Idle]

(* create_organization, with a slug, a name and an address that are well   *)
(* formed, by an actor who exists; otherwise nothing is written.           *)
CallCreate(r, s) ==
    /\ run[r].pc = "idle"
    /\ Begin(r, [Idle EXCEPT !.pc = "org", !.job = "create", !.slug = {s}])
    /\ UNCHANGED <<seedVars, orgVars, userVars, memberVars>>

InsertOrg(r) ==
    /\ run[r].pc = "org"
    /\ ~SlugPending(r)
    /\ \/ /\ SlugTaken(r)
          /\ Crash(r)
       \/ /\ ~SlugTaken(r)
          /\ \E o \in FreshOrgs :                           \* BOUND: the ids run out
               run' = [run EXCEPT ![r].pc = "templates", ![r].org = {o}]
    /\ UNCHANGED <<seedVars, orgVars, userVars, memberVars>>

AllTemplates == templates = Codes

(* _clone_default_role_templates reads the templates, and their links in a *)
(* second SELECT; too few are a RuntimeError that rolls all back.          *)
ReadTemplates(r) ==
    /\ run[r].pc = "templates"
    /\ IF AllTemplates
       THEN run' = [run EXCEPT ![r].pc = "links", ![r].shape = templates]
       ELSE Crash(r)
    /\ UNCHANGED <<seedVars, orgVars, userVars, memberVars>>

ReadLinks(r) ==
    /\ run[r].pc = "links"
    /\ run' = [run EXCEPT ![r].pc = "found",
                          ![r].copy = {p \in holds : p[1] \in run[r].shape},
                          ![r].severed = FALSE]
    /\ UNCHANGED <<seedVars, orgVars, userVars, memberVars>>

\* What follows create_organization: in the command, _upsert_admin_user.
AfterCreate(r) == IF run[r].job = "command" THEN Goto(r, "user") ELSE End(r, "done")

\* RoleCapability refers to capabilities that must still be there at COMMIT.
CommitOrg(r) ==
    /\ run[r].pc = "found"
    /\ \/ /\ run[r].severed
          /\ Crash(r)
          /\ UNCHANGED <<slug, roles, grants>>
       \/ /\ ~run[r].severed
          /\ slug' = [o \in Orgs |-> IF o \in run[r].org THEN run[r].slug ELSE slug[o]]
          /\ roles' = [o \in Orgs |-> IF o \in run[r].org THEN run[r].shape ELSE roles[o]]
          /\ grants' = [o \in Orgs |-> IF o \in run[r].org THEN run[r].copy ELSE grants[o]]
          /\ AfterCreate(r)
    /\ UNCHANGED <<seedVars, kept, userVars, memberVars>>

-----------------------------------------------------------------------------
(* assign_owner_membership, in one transaction. *)
CallAssign(r, u, o) ==
    /\ run[r].pc = "idle"
    /\ Begin(r, [Idle EXCEPT !.pc = "check", !.job = "assign", !.org = {o}, !.user = {u}])
    /\ UNCHANGED <<seedVars, orgVars, userVars, memberVars>>

\* The organization, the person and the actor exist, the membership does not.
Check(r) ==
    /\ run[r].pc = "check"
    /\ IF run[r].org \subseteq OrgRows /\ run[r].user \subseteq People
          /\ ~(Membership(r) \subseteq members)
       THEN Goto(r, "default")
       ELSE Crash(r)
    /\ UNCHANGED <<seedVars, orgVars, userVars, memberVars>>

ReadDefault(r) ==
    /\ run[r].pc = "default"
    /\ run' = [run EXCEPT ![r].pc = "insert", ![r].first = (DefaultOf(r) = {})]
    /\ UNCHANGED <<seedVars, orgVars, userVars, memberVars>>

\* An IntegrityError here is caught nowhere.
InsertMember(r) ==
    /\ run[r].pc = "insert"
    /\ ~MemberPending(r)
    /\ IF MemberTaken(r) THEN Crash(r) ELSE Goto(r, "role")
    /\ UNCHANGED <<seedVars, orgVars, userVars, memberVars>>

HasOwnerRole(r) == \A o \in run[r].org : Owner \in roles[o]

\* The Owner role is looked up, and the MembershipRole inserted.
FindOwnerRole(r) ==
    /\ run[r].pc = "role"
    /\ IF HasOwnerRole(r) THEN Goto(r, "seat") ELSE Crash(r)
    /\ UNCHANGED <<seedVars, orgVars, userVars, memberVars>>

\* COMMIT waits for rows that it refers to and an open transaction deleted.
CommitMember(r) ==
    /\ run[r].pc = "seat"
    /\ run[r].org \cap RoleLocks(r) = {}
    /\ IF run[r].user \subseteq People /\ HasOwnerRole(r)
       THEN /\ members' = members \cup Membership(r)
            /\ main' = main \cup (IF run[r].first THEN Membership(r) ELSE {})
            /\ owners' = owners \cup Membership(r)
            /\ End(r, "done")
       ELSE /\ Crash(r)
            /\ UNCHANGED memberVars
    /\ UNCHANGED <<seedVars, orgVars, userVars>>
-----------------------------------------------------------------------------
(* seed_dev_tenant: the guard on the settings and the count of templates   *)
(* come first; with --reset the tenant is wiped before anything is found.  *)
CallCommand(r, s, e, reset) ==
    /\ run[r].pc = "idle"
    /\ IF AllTemplates
       THEN Begin(r, [Idle EXCEPT !.pc = IF reset THEN "wipe" ELSE "find", !.job = "command",
                                  !.slug = {s}, !.mail = {e}, !.reset = reset])
       ELSE Begin(r, [Idle EXCEPT !.answer = "refused"])
    /\ UNCHANGED <<seedVars, orgVars, userVars, memberVars>>

BySlug(r) == {o \in Orgs : slug[o] = run[r].slug}

\* Create the organization only if it is not there.
FindOrg(r) ==
    /\ run[r].pc = "find"
    /\ IF BySlug(r) = {}
       THEN Goto(r, "org")
       ELSE run' = [run EXCEPT ![r].pc = "user", ![r].org = BySlug(r)]
    /\ UNCHANGED <<seedVars, orgVars, userVars, memberVars>>

ByMail(r) == {u \in Users : mail[u] = run[r].mail}

\* A mutant: the person is created without looking first.
NewUser(r) ==
    /\ run[r].pc = "user"
    /\ Goto(r, "save")
    /\ UNCHANGED <<seedVars, orgVars, userVars, memberVars>>

\* _upsert_admin_user, whose INSERT commits at once.
FindUser(r) ==
    /\ run[r].pc = "user"
    /\ IF ByMail(r) = {}
       THEN Goto(r, "save")
       ELSE run' = [run EXCEPT ![r].pc = "address", ![r].user = ByMail(r)]
    /\ UNCHANGED <<seedVars, orgVars, userVars, memberVars>>

SaveUser(r) ==
    /\ run[r].pc = "save"
    /\ \/ /\ MailTaken(r)
          /\ Crash(r)
          /\ UNCHANGED mail
       \/ /\ ~MailTaken(r)
          /\ \E u \in FreshUsers :                          \* BOUND: the ids run out
               /\ mail' = [mail EXCEPT ![u] = run[r].mail]
               /\ run' = [run EXCEPT ![r].pc = "address", ![r].user = {u}]
    /\ UNCHANGED <<seedVars, orgVars, verified, cited, memberVars>>

\* ensure_verified_email_address; a person deleted meanwhile breaks its key.
Address(r) ==
    /\ run[r].pc = "address"
    /\ IF run[r].user \subseteq People
       THEN verified' = verified \cup run[r].user /\ Goto(r, "member")
       ELSE Crash(r) /\ UNCHANGED verified
    /\ UNCHANGED <<seedVars, orgVars, mail, cited, memberVars>>

\* A mutant: a membership that is there is taken to be the owner's.
MemberIsOwner(r) ==
    /\ run[r].pc = "member"
    /\ IF Membership(r) \subseteq members THEN End(r, "done") ELSE Goto(r, "check")
    /\ UNCHANGED <<seedVars, orgVars, userVars, memberVars>>

FindMember(r) ==
    /\ run[r].pc = "member"
    /\ IF Membership(r) \subseteq members THEN Goto(r, "late") ELSE Goto(r, "check")
    /\ UNCHANGED <<seedVars, orgVars, userVars, memberVars>>

\* The member may lack the Owner role, whose own lookup may fail.
FindLate(r) ==
    /\ run[r].pc = "late"
    /\ IF ~HasOwnerRole(r) THEN Crash(r)
       ELSE IF Membership(r) \subseteq owners THEN End(r, "done") ELSE Goto(r, "lateseat")
    /\ UNCHANGED <<seedVars, orgVars, userVars, memberVars>>

CommitLate(r) ==
    /\ run[r].pc = "lateseat"
    /\ run[r].org \cap RoleLocks(r) = {}
    /\ \A p \in Runs \ {r} : Membership(r) \cap run[p].gone = {}
    /\ IF Membership(r) \subseteq members \ owners /\ HasOwnerRole(r)
       THEN owners' = owners \cup Membership(r) /\ End(r, "done")
       ELSE Crash(r) /\ UNCHANGED owners
    /\ UNCHANGED <<seedVars, orgVars, userVars, members, main>>

-----------------------------------------------------------------------------
(* _reset_tenant: one transaction for the organization, then the person.   *)
WipeFind(r) ==
    /\ run[r].pc = "wipe"
    /\ IF BySlug(r) = {}
       THEN Goto(r, "wipeuser")
       ELSE run' = [run EXCEPT ![r].pc = "wiperows", ![r].org = BySlug(r)]
    /\ UNCHANGED <<seedVars, orgVars, userVars, memberVars>>

(* Three DELETEs: of the role assignments, of the memberships, with any    *)
(* assignment that came in meanwhile (CASCADE), and of the roles.  Each    *)
(* waits for rows that another reset has deleted, and is refused for rows  *)
(* that PROTECT: an impersonation its membership, an assignment its role.  *)
WipeAssignments(r) ==
    /\ run[r].pc = "wiperows"
    /\ \A p \in Runs \ {r} :
         Emptying(p) => ~\E m \in owners : m[2] \in run[r].org \cap run[p].org
    /\ Goto(r, "wipejoins")
    /\ UNCHANGED <<seedVars, orgVars, userVars, memberVars>>

WipeMemberships(r) ==
    /\ run[r].pc = "wipejoins"
    /\ \A p \in Runs \ {r} : \A m \in run[p].gone : m[2] \notin run[r].org
    /\ LET theirs == {m \in members : m[2] \in run[r].org}
       IN  \/ run' = [run EXCEPT ![r].pc = "wiperoles", ![r].gone = theirs]
           \/ theirs # {} /\ run[r].org \cap kept # {} /\ Crash(r)
    /\ UNCHANGED <<seedVars, orgVars, userVars, memberVars>>

Seated(r) == \E m \in owners \ run[r].gone : m[2] \in run[r].org

WipeRoles(r) ==
    /\ run[r].pc = "wiperoles"
    /\ run[r].org \cap RoleLocks(r) = {}
    /\ IF Seated(r) THEN Crash(r) ELSE Goto(r, "wipeorg")
    /\ UNCHANGED <<seedVars, orgVars, userVars, memberVars>>

\* A mutant: memberships do not protect their organization.
NotProtected(r) == TRUE

\* org.delete() is refused for rows that PROTECT it: other things of the
\* tenant, or a membership that came in meanwhile.
Unprotected(r) ==
    /\ run[r].org \cap kept = {}
    /\ \A m \in members : m[2] \in run[r].org => m \in run[r].gone

WipeOrg(r) ==
    /\ run[r].pc = "wipeorg"
    /\ IF Unprotected(r) THEN Goto(r, "wipedone") ELSE Crash(r)
    /\ UNCHANGED <<seedVars, orgVars, userVars, memberVars>>

WipeCommit(r) ==
    /\ run[r].pc = "wipedone"
    /\ slug' = [o \in Orgs |-> IF o \in run[r].org THEN {} ELSE slug[o]]
    /\ roles' = [o \in Orgs |-> IF o \in run[r].org THEN {} ELSE roles[o]]
    /\ grants' = [o \in Orgs |-> IF o \in run[r].org THEN {} ELSE grants[o]]
    /\ members' = members \ run[r].gone
    /\ main' = main \ run[r].gone
    /\ owners' = owners \ run[r].gone
    /\ Wiped(r, "wipeuser")
    /\ UNCHANGED <<seedVars, kept, userVars>>

\* The admin user goes too, unless a membership is left.
WipeUser(r) ==
    /\ run[r].pc = "wipeuser"
    /\ IF ByMail(r) = {}
       THEN run' = [run EXCEPT ![r].pc = "find"]
       ELSE run' = [run EXCEPT ![r].pc = "wipemembers", ![r].user = ByMail(r)]
    /\ UNCHANGED <<seedVars, orgVars, userVars, memberVars>>

Joined(r) == \E m \in members : m[1] \in run[r].user

WipeMembers(r) ==
    /\ run[r].pc = "wipemembers"
    /\ IF Joined(r)
       THEN run' = [run EXCEPT ![r].pc = "find", ![r].user = {}]
       ELSE Goto(r, "wipesave")
    /\ UNCHANGED <<seedVars, orgVars, userVars, memberVars>>

\* user.delete() is refused for rows that PROTECT the person: a membership
\* that came in meanwhile, or what the person invited, assigned or created.
DeleteUser(r) ==
    /\ run[r].pc = "wipesave"
    /\ IF Joined(r) \/ run[r].user \cap cited # {}
       THEN Crash(r) /\ UNCHANGED userVars
       ELSE /\ mail' = [u \in Users |-> IF u \in run[r].user THEN {} ELSE mail[u]]
            /\ verified' = verified \ run[r].user
            /\ Wiped(r, "find")
            /\ UNCHANGED cited
    /\ UNCHANGED <<seedVars, orgVars, memberVars>>

-----------------------------------------------------------------------------
(* The process or its connection is lost, or PostgreSQL ends a deadlock:   *)
(* the COMMIT of a membership that waits for a deleted role has locked its *)
(* organization, which the same reset deletes next.  The open transaction  *)
(* is undone.                                                              *)
RunFails(r) ==
    /\ run[r].pc # "idle"
    /\ End(r, "killed")
    /\ UNCHANGED <<seedVars, orgVars, userVars, memberVars>>

\* The capabilities that roles of tenants hold
InUse == {k \in Caps : \E o \in Orgs, c \in Codes : <<c, k>> \in grants[o]}

\* The seed migration, or staff at the templates.
SeedOrStaff ==
    /\ Seed \/ Staff(InUse)
    /\ NotAlone(catalog \ catalog')
    /\ UNCHANGED <<orgVars, userVars, memberVars>>

\* An impersonation, a location or another row comes to refer to a tenant.
Keep(o) ==
    /\ Cardinality(kept) + Cardinality(cited) < MaxKept              \* BOUND
    /\ o \in OrgRows \ (kept \cup OrgLocks)
    /\ kept' = kept \cup {o}
    /\ NotAlone({})
    /\ UNCHANGED <<seedVars, slug, roles, grants, userVars, memberVars>>

\* An invitation, a grant or another row comes to refer to a person.
Cite(u) ==
    /\ Cardinality(kept) + Cardinality(cited) < MaxKept              \* BOUND
    /\ u \in People \ cited
    /\ cited' = cited \cup {u}
    /\ NotAlone({})
    /\ UNCHANGED <<seedVars, orgVars, mail, verified, memberVars>>

\* Staff adds a membership with no role.
AddMember(u, o) ==
    /\ u \in People
    /\ o \in OrgRows \ OrgLocks
    /\ <<u, o>> \notin members
    /\ \A r \in Runs : run[r].pc \in {"role", "seat"} => Membership(r) # {<<u, o>>}
    /\ members' = members \cup {<<u, o>>}
    /\ NotAlone({})
    /\ UNCHANGED <<seedVars, orgVars, userVars, main, owners>>

-----------------------------------------------------------------------------
Work(r) ==
    \/ InsertOrg(r)
    \/ ReadTemplates(r)
    \/ ReadLinks(r)
    \/ CommitOrg(r)
    \/ Check(r)
    \/ ReadDefault(r)
    \/ InsertMember(r)
    \/ FindOwnerRole(r)
    \/ CommitMember(r)
    \/ FindOrg(r)
    \/ FindUser(r)
    \/ SaveUser(r)
    \/ Address(r)
    \/ FindMember(r)
    \/ FindLate(r)
    \/ CommitLate(r)
    \/ WipeFind(r)
    \/ WipeAssignments(r)
    \/ WipeMemberships(r)
    \/ WipeRoles(r)
    \/ WipeOrg(r)
    \/ WipeCommit(r)
    \/ WipeUser(r)
    \/ WipeMembers(r)
    \/ DeleteUser(r)

Call(r) ==
    \/ \E s \in Slugs : CallCreate(r, s)
    \/ \E u \in People, o \in OrgRows : CallAssign(r, u, o)
    \/ \E s \in Slugs, e \in Emails, reset \in BOOLEAN : CallCommand(r, s, e, reset)

Next ==
    \/ \E r \in Runs : Call(r) \/ Work(r) \/ RunFails(r)
    \/ SeedOrStaff
    \/ \E o \in Orgs : Keep(o)
    \/ \E u \in Users : Cite(u)
    \/ \E u \in Users, o \in Orgs : AddMember(u, o)

Spec == Init /\ [][Next]_provVars

-----------------------------------------------------------------------------
(* The shape of the state, and its foreign keys. *)
ProvTypeOK ==
    /\ SeedTypeOK
    /\ slug \in [Orgs -> SUBSET Slugs]
    /\ roles \in [Orgs -> SUBSET Codes]
    /\ grants \in [Orgs -> SUBSET (Codes \X Caps)]
    /\ \A o \in Orgs : grants[o] \subseteq roles[o] \X catalog
    /\ kept \subseteq OrgRows
    /\ mail \in [Users -> SUBSET Emails]
    /\ verified \subseteq People
    /\ cited \subseteq People
    /\ members \subseteq People \X OrgRows
    /\ main \subseteq members
    /\ owners \subseteq members
    /\ run \in [Runs -> RunRecords]

T == INSTANCE Tenants

(* However calls, commands, resets and crashes interleave, tenants come    *)
(* and go as a whole: with all the roles, one default membership for a     *)
(* person, and nothing left behind.                                        *)
ImplementsTenants == T!TenantsSpec

(* create_organization clones the templates as they are, in two SELECTs.   *)
(* The organization gets what they grant, and if staff left them alone     *)
(* since the seed, what the default roles list.                            *)
ClonesMatch ==
    [][\A r \in Runs : CommitOrg(r) => \A o \in run[r].org :
         /\ roles'[o] = Codes
         /\ grants'[o] = holds
         /\ edits = 0 => \A c \in Codes : {k \in Caps : <<c, k>> \in grants'[o]} = Defaults[c]
      ]_provVars

(* That is so if nobody writes the templates, or what they grant, between  *)
(* the first SELECT of a clone and its COMMIT: no lock makes it so.        *)
TemplatesStandStill ==
    [][(\E r \in Runs : run[r].pc \in {"links", "found"})
         => UNCHANGED <<templates, holds>>]_provVars

(* seed_dev_tenant promises a demo tenant to sign in to.  A command that   *)
(* ends as it should has left one, unless another has reset it meanwhile.  *)
Complete(s, e) ==
    \E u \in Users, o \in Orgs :
        /\ mail[u] = e /\ u \in verified
        /\ slug[o] = s /\ Owner \in roles[o]
        /\ <<u, o>> \in owners

DoneMeansComplete ==
    [][\A r \in Runs, s \in Slugs, e \in Emails :
         /\ run[r].job = "command" /\ run[r].slug = {s} /\ run[r].mail = {e} /\ run[r].calm
         /\ run'[r].pc = "idle" /\ run'[r].answer = "done"
         => Complete({s}, {e})']_provVars

(* "Idempotent on slug": from whatever an earlier run left behind when it  *)
(* was killed anywhere, a command that has the database to itself goes     *)
(* through.  With --reset it does so while nothing else PROTECTs a tenant  *)
(* or a person.                                                            *)
RerunSucceeds ==
    [][\A r \in Runs :
         /\ run[r].job = "command" /\ run[r].alone
         /\ run[r].reset => kept = {} /\ cited = {}
         => run'[r].answer # "error"]_provVars

=============================================================================
