# MyPipelineHero: verification of the access core

The backend of MyPipelineHero is a Django application for many tenants. What it
implements today is its access core: login on the root domain, the handoff of a
logged-in person to a tenant subdomain, the signing keys behind that handoff,
impersonation by platform admins, provisioning of organizations and their roles,
and tenancy scoping. The business modules that `docs/guide.md` describes are not
written yet. This directory models the access core in TLA+, checks it with TLC on
small instances and proves its main properties with TLAPS for all sizes.

Paths below are relative to `src/backend/`, `accounts/` stands for
`apps/platform/accounts/`, and `guide.md` for `src/docs/guide.md`.

## 1. The system

All state lives in PostgreSQL (READ COMMITTED, `ATOMIC_REQUESTS` off), in Redis,
and in the browsers' session cookies. Requests are served by several workers at
once, so any two services may interleave at their statements.

| Component | State | Operations | Talks to |
|---|---|---|---|
| Handoff signing keys, `accounts/handoff/services/_keys.py` | `HandoffSigningKey` rows: key id, created, promoted, retired | create, promote, retire, emergency rotation | read by every issue and consume; called by the console |
| Handoff tokens, `accounts/handoff/services/` | Redis: a nonce per token with a TTL, an index of a person's nonces with a TTL; the JWT in a browser | `issue_handoff_token`, `consume_handoff_token`, `revoke_all_handoff_tokens_for_user`, `establish_tenant_session` | keys, memberships, organizations; issued by the picker and by impersonation; revoked by the logout signal |
| Impersonation, `accounts/impersonation/` | `ImpersonationSession` rows, one active per admin (partial unique index) | `start_impersonation`, `end_impersonation` | console views start and end, tenant views end, the liveness middleware reads on every tenant request |
| Tenant portal, `apps/web/tenant_portal/` | the tenant session of a browser, per host | consume, landing page, logout, end-impersonation | tokens, impersonation |
| Root login, MFA gate, picker: `accounts/middleware.py`, `accounts/signals.py`, `apps/web/auth_portal/` | the root session: provider code, time of MFA, which events were told | allauth's pages with their signal handlers, the gate, picking an organization, root logout | tokens, provider configuration, memberships |
| Sessions per host, `apps/common/sessions/` | the session row and cookie of a host | classify a host, load, save | every request |
| External identities and registration, `accounts/services/`, `accounts/oauth/` | `User`, `SocialAccount` and provider rows | resolve or link an identity, self-registration, local registration, unlinking | called in an OAuth callback; staff switches people off |
| Provisioning, `apps/platform/organizations/`, `support/` | `Organization`, `User`, `EmailAddress`, `Membership`, `MembershipRole` rows | create an organization, assign its owner, seed a demo tenant, reset it | clones the role templates; memberships are read by everything above |
| Roles, `apps/platform/rbac/` | `Capability`, template `Role`, `RoleCapability` rows | the seed, staff edits | cloned by provisioning |
| Tenancy scoping and locations, `apps/common/tenancy/`, `apps/operations/locations/` | `Region`, `Market`, `Location`, scope assignments | querysets for an organization, for a membership | |
| Audit | a stub: nothing is stored outside tests | `audit_emit` must run in a transaction and knows its event types | called by all |

What is hard here: statements of two requests interleave, reads are used after
somebody changed what was read, Redis commands fail one by one, keys and tokens
run out by two different clocks, a session is saved as a whole from a copy that a
request loaded earlier, commands are killed between their commits, and a browser
keeps sessions of impersonations that have ended. What makes each part correct:

- keys: rows only move forward; only a retirement leaves the platform with no
  key; the overlap is limited to two keys; a rotation leaves one key; those who
  sign and verify see one newest key;
- tokens: used once; what a logout revoked stays dead; a nonce outlives its JWT;
  a session belongs to the token's own host; indexes go away;
- impersonation: one active row per admin; an ended row is final; sessions and
  rows agree; a logout ends what it should; sessions of ended rows are flushed;
- login: nobody gets past the gate against the policy; a token names an MFA that
  did take place; a session that was ended does not come back; whoever is sent to
  enroll can get through;
- hosts: two tenants never share a session, a cookie or a URL table;
- identities: one person per email and per provider subject, whatever races;
  nobody without a password is left without a login; a link to a person who
  existed needs the provider's word for that person's address;
- provisioning: an organization has all of its roles or does not exist; one
  default membership per person; nothing is left behind; the command can be run
  again after it was killed anywhere;
- roles: each seed brings every template back to its list;
- scoping: a member sees what her assignments cover, in her own organization.

`PROJECT.json` lists under `hazards` where in the code each of these could go
wrong and which property would tell.

## 2. Modules

| Module | What it is |
|---|---|
| `SigningKeys` | lifecycle of the signing keys, split at statements |
| `KeyRing` | what the keys promise to those who sign and verify; `SigningKeys` implements it |
| `HandoffTokens` | issue, consume, revoke; Redis and time; its keys change as `KeyRing` allows |
| `OneShot` | what a token promises; `HandoffTokens` implements it |
| `Impersonation` | rows, requests on tenant hosts, browser sessions |
| `Visits` | what impersonation promises; `Impersonation` implements it |
| `LoginFlow` | root session, allauth's pages, MFA gate, picker, the way to a tenant |
| `Identity` | OAuth callbacks and registrations racing on unique indexes |
| `Directory` | what identity resolution promises; `Identity` implements it |
| `RoleSeed` | role templates, the seed, staff edits |
| `RoleCatalog` | the capability registry and the eleven default roles, as data |
| `Provisioning` | organizations, owners, the demo command; extends `RoleSeed` |
| `Tenants` | what provisioning promises; `Provisioning` implements it |
| `HostSessions` | which session, cookie and URL table a host gets |
| `LocationScopes` | scope assignments and what a member sees |
| `MC...` | constants of the TLC instances; `MCReference` runs `RoleSeed`, `HostSessions` and `LocationScopes` side by side |
| `..._proofs` | theorems and their proofs |

The modules fit together through what they promise. `SigningKeys` implements
`KeyRing`, and `HandoffTokens` lets its keys change in every way that `KeyRing`
allows, so what holds there holds with the real key services. `HandoffTokens`
implements `OneShot`, and `Impersonation` and `LoginFlow` use a token as a
one-shot ticket; `Impersonation` in turn implements `Visits`. `Provisioning` clones the very templates that `RoleSeed` keeps
changing under it.

### SigningKeys

Row state: `at` (the rank of each key's `created_at`), `promoted`, `retired`; a
record `op[o]` per operator (an overlapping console request) with its program counter
and what it has read. Promote and retire lock their row in one transaction and
are one action each. `create_handoff_signing_key` is split into its existence
check, its count and its insert, and `emergency_rotate_handoff_signing_key` into
its list of active keys, its existence check, count, the SELECT of the oldest key,
its UPDATE, insert and commit, because under READ COMMITTED others commit in
between. The key that rotation has updated blocks others (`RowLocked`); the keys it
merely read do not, and may be retired before it retires them once more. The secret and its encryption are not state here.

### HandoffTokens

One record per token being issued (`tok`), per consume request (`cons`) and per
logout (`lo`), each stepping through its Redis commands and database reads in
the order of the code; `nonce`, `ttl`, `index`, `ittl` are Redis, `jwt` is the
time left of the token's `exp`. `Tick` is time: nonce, index and JWT age together
and vanish at zero. Each kind of request may fail between any two commands when
`Faults` is true, and `Moving` says what staff may change meanwhile: keys
(through `KeyRing`'s changes), memberships, organizations. `nonce` also remembers
how it went (`taken`, `revoked`): history that no step reads.

### Impersonation

`row` holds the admin, the membership and who ended it; `token` the handoff token
of each row as a one-shot ticket; `sess` the admin's browser session per tenant
host; `req` the requests in flight. Starting is check, insert, mint; the insert
is refused by the partial unique index (`Clash`). A request to a tenant host
first passes `Gate`: the MFA middleware (which runs first, exempts `/accounts/`,
and redirects there whoever has no TOTP), then the liveness middleware, then its
view: consume, page, logout or the end button. Both logouts read the admin's
active row a second time, end it, and then flush, in three steps. Failures other
than the two that the view catches are `RequestFails`.

As `Visits` sees it, a row is a visit (`VisitorOf`, `MemberOf`, `EndedBy`), its
token the pass for it, and the row that a host's session was opened with is the
visit inside (`Inside`), one behind each door, that is, for each admin and
organization.

### LoginFlow

`root[b]` is the session of a browser on the root host with the values the code
keeps in it: the provider code, the time of MFA, the flags of the
`_emit_..._once` helpers, and a person half logged in; `gen` stands for the
session key. allauth's pages (`Password`, `Callback`, `Challenge`, `Enroll`,
`Disable`, `Connect`, `Logout`, `PasswordChange`, ...) are external and one step
each, with the repository's signal receivers as part of the step: what they write
to the session and which events they record. Every other page is a request `req[q]`
that loads a copy of the session (`Ask`, `AskTenant`), passes the gate in two
reads (`GateTotp`, `GateConfig`), goes through its view (`View`, `Issue`) and is
answered (`Answer`), where `process_response` saves the whole copy if it was
changed, unless the page failed or the session's row is gone. `config`, `totp`,
`active` and `keyed` (policy, enrolment, memberships, usable keys) change under
it. `passed` is the history of who satisfied MFA where and when, `barred` that
the policy was against a request from start to end, and `refused` collects events
that the audit service does not know.

A session also carries `hash`, the `_auth_user_hash` of Django: which of the
person's passwords (`password`) was current at the login. With
`ACCOUNT_LOGOUT_ON_PASSWORD_CHANGE` (`config/settings/base.py:244`) a change of
password (`PasswordChange`), like a reset by mail (`PasswordReset`), renews no
session's hash. So all of the person's sessions, the one that made the change
included, are void at once under a key that stays (`Stands`, `SignedIn`), and each
goes when its browser next asks for a page (`Lapse`, on either host).

Receivers that only record an event and leave the session alone (sign-up, email
confirmation, unlinking) are left out. A tenant session is its person,
organization, provider and hash; its once-flags are replaced by recording the
event or not. `Callback` takes it that a transaction is open around the adapter;
`IdentityOutsideTx` shows what happens without.

### Identity

Rows are `mail` (the committed `User` rows and their addresses), `external` and
`inactive` (two flags of theirs) and `links` (`SocialAccount`, an allauth model).
A request in flight (`req`) goes through the statements of
`resolve_external_user` or `register_local_user`: `Lookup` by subject, `Touch`,
`ByEmail`, `CheckConflict`, `InsertLink`, or `NewPerson` and then its link. What
it has inserted (`made`, or a link from step "return" on) is invisible until
`Return` or `RegisterCommit`, and makes an equal `INSERT` wait (`MailPending`,
`SubjectPending`), as unique indexes do under READ COMMITTED. A provider's policy
is read once, in `Callback`. `answer` is how the last request ended, for the
properties only, and so is `asleep`, the people who have been inactive ever
since the request began. allauth's unlinking counts the links (`UnlinkCheck`) and
deletes one later (`UnlinkDelete`), with anything in between.

`CallerAtomic` says whether a transaction is open around `pre_social_login`. The
code opens none, and then its first `audit_emit` raises: that is the run
`IdentityOutsideTx`. All else is checked and proved for both values, but says
something about callbacks only with a transaction around them, as every test of
the adapter has it.

### RoleSeed, RoleCatalog, Provisioning

`RoleSeed` keeps the rows `catalog`, `templates` and `holds`; `Seed` is the whole
seed migration, and staff may edit templates and capabilities in between, within
the foreign keys. `RoleCatalog` is `V1_CAPABILITIES` and `V1_DEFAULT_ROLES` as
sequences of words.

In `Provisioning` a record `run[r]` is a call of `create_organization` or
`assign_owner_membership`, or a `seed_dev_tenant` command that calls both between
commits of its own. The organization transaction is split into the slug check,
the INSERT, the reading of templates and of their links, and the commit; the
owner's into the membership check, the reading of the default, the INSERT, the
owner role and the commit; the command adds its lookups, the user, the address,
and the late paths for what an earlier run left half done; `--reset` has a step
for each of its DELETEs: the assignments, the memberships, the roles, the
organization, and then the person. INSERTs wait for equal uncommitted keys
(`SlugPending`, `MemberPending`), foreign keys are checked when a transaction
commits (`RoleLocks`, `OrgLocks`), and `RunFails` kills a run anywhere. So is a capability that a clone has copied
and staff has deleted since, which no committed role held yet: `severed` is set,
and the COMMIT fails. `Keep`, `Cite` and `AddMember` are what others do: rows that
PROTECT a tenant, rows that PROTECT a person (an invitation, an assignment, a
grant, an authorship), other members.

### HostSessions, LocationScopes

`HostSessions` is the parsing of the host: `resolve_session_scope` with the
template's two ends, Python's slices (a negative bound counts from the end) and
the slug pattern, then the cookie and the URL table. A host is a sequence of
characters because that is what the code cuts up. `LocationScopes` keeps the foreign keys of
locations, markets and regions, which no constraint makes agree on an
organization, and the assignments of a membership with their two CHECK
constraints; `resolve_location_ids_for_scopes` and `for_membership` are
operators named as in the code; `ensure_same_org`, which nothing but its tests
calls yet, is left out.

## 3. Runs

| Run | Instance | What it shows |
|---|---|---|
| `SigningKeysSerial` | 5 key ids, one request at a time | never three active keys; a rotation leaves its new key alone |
| `SigningKeysRace` | 3 key ids, 2 overlapping requests | rows move forward, no race empties the ring, `KeyRing` is implemented |
| `HandoffSafety` | 2 tokens of one person, 2 consumers, a logout, TTL 2, failures | single use, final revocation, no false replay, refinement of `OneShot` |
| `HandoffWorld` | 1 token, 2 keys, 2 organizations, all statuses moving, no failure, fair | a session only at the token's own host for the burned nonce; indexes go away; no deadlock |
| `ImpRace` | 2 admins, 2 rows, 2 requests, failures | one active row per admin, a logout ends its row, refinement of `Visits` |
| `ImpTenants` | 1 admin, 2 organizations, a person of both and one (without TOTP) of the second, 2 requests, fair | sessions and rows agree; no host lets in for a stranger; no dangling row; ended sessions are flushed |
| `IdentityRace` | 2 requests, 1 unlinking at a time, 2 people, 2 addresses, 2 subjects of 1 provider, 5 policies, failures | refinement of `Directory`; a person without password has a link; links are vouched for; the inactive stay out; no two requests wait for each other |
| `IdentityOutsideTx` (violated) | no transaction around the callback | the first audit event crashes it |
| `Provisioning` | 2 runs, 2 organizations and slugs, 1 address re-created under a new id, 2 roles, at most one protecting row, killed anywhere | refinement of `Tenants`; a command that ends well left a tenant to sign in to; it can be run again; no deadlock |
| `Reference` | the real registry and roles with 3 staff edits; all hosts of up to 7 characters; 2 locations, markets, regions and organizations with 2 assignments | seeds converge and agree with the guide's table; hosts are told apart; scopes are exact |
| `LoginFlow` | 2 people (one staff, with TOTP), 1 browser, 1 request beside allauth's pages, 1 change of policy or password, fair | tokens name a true MFA; the gate obeys the policy; a logout and a change of password are final; enrolment opens the door |
| `LoginTrusted` (violated) | the same, nothing changes | who is let in by a trusted provider is sent to enroll on her tenant |

Every property of a passing run has a mutant of the code's model that breaks it
(named `\* A mutant` in the modules).

Bounds, and why they are enough. Races here are between two requests over one
row, one person or one admin, so two of each kind are enough for every
interleaving of a pair; the proofs cover any number. In particular:

- five key ids let a serial rotation meet every overlap and still run twice;
- a TTL of 1 or 2 ticks separates "expires before", "with" and "after" for the
  three clocks;
- two subjects of one provider meet every conflict; a second provider would only
  add pairs that do not conflict;
- in `LoginFlow`, `Limit = 0` makes the next tick the end of the hour that
  `mfa_satisfied_at` is accepted for, `MaxGen = 2` allows a login, a logout and a
  login, and the one request overlaps with any of allauth's pages in the same
  browser, which is where two writers of one session meet;
- in `Provisioning`, two roles stand for eleven, as the code treats them alike
  except for the owner's; an address may come back under a second id; staff leaves
  the templates alone (`Editable = {}`), as their edits would multiply the states
  so that TLC no longer ends in minutes. The theorems allow any edits. A smaller
  instance that is not kept has them (two runs, one organization, slug, person and
  role, `Editable = {k1}`, `MaxEdits = 2`, `MaxKept = 0`): 231,451 states, those
  where a copied capability is deleted included, and `ProvTypeOK` is violated if
  `CommitOrg` does not look at `severed`;
- in `Reference`, seven characters hold a slug of the least length between the
  two ends of the template, and everything that is shorter.

Row ids run out (`BOUND` in the actions): a start is then not asked for, and in
`IdentityRace` there is an id for every address. Symmetry is used only in runs
without liveness.

Fairness. A request that a worker has begun is run to its end (weak fairness of
its steps), and time passes. No fairness says that staff changes anything.
`ImpTenants` also assumes that the admin's browser keeps asking for the page and
follows redirects (strong, because a request that finds all workers busy is
queued): the claim it checks, in `console/views.py:642-644`, is about "the next
tenant request". `EnrolmentOpensTheDoor` in the same way speaks of a person who
does what the page says: she enrolls when she is signed in without TOTP (weak)
and asks for the picker again (strong, as other requests of hers come between).

`CHECK_DEADLOCK` is off where ids, keys or stamps run out and so the model may
stop; `HandoffWorld`, `IdentityRace`, `Provisioning` and `Reference` leave it on.

## 4. Proofs

Every theorem holds for any number of keys, people, tokens, requests, admins,
runs, any lifetime and any bound, under the assumptions named with the constants
and here.

`SigningKeys_proofs`.
- `KeysTyped`; `KeysMoveForward`: no step unpromotes, unretires or rewrites a
  row, not even the save of the row that rotation read without a lock.
- `SerialRequestsKeepLimit`: at most two active keys while requests do not
  overlap. Its invariant remembers, for a request that has counted, that the
  count is still right, which is just what overlapping requests lose.
- `LoneRotationLeavesOneKey`, for a single operator: what a rotation read as
  primary is still the newest when it commits, and of two keys each is the
  newest or the oldest. A second operator who retires the primary between the
  first read and the count already breaks it.
- `RetirementsAloneEmpty` and `KeysImplementRing`, for any overlap. They need
  `StampInv`: a stamp is drawn when a row is inserted, so committed and
  uncommitted rows have different ones. That some active key is the newest needs
  an induction, for which stamps have an upper bound, the last one drawn
  (`Highest`, from the well-foundedness of `<`).
- `RetiredKeysStayOut`: whatever overlaps, a retired key is never again among
  those that verify, nor the one that signs. `RingKeeps` proves it of `KeyRing`
  alone, and `KeysImplementRing` carries it over to the rows.

`HandoffTokens_proofs`.
- `HandoffIsSingleUse`, `HandoffImplementsOneShot`: `SingleUse` is not inductive.
  `BurnInv` adds that a nonce is written once, before anybody holds the token,
  and that every request past GETDEL has itself taken it; two requests with one
  token cannot both have. The refinement maps a nonce to the ticket's state and
  the requests that took it to its redeemer.
- `RevocationIsFinal`: `ListInv` says that a listed nonce has been written (SETEX
  comes before SADD), so what a logout read can only die.
- `NoFalseReplay`: `LifeInv` follows the clocks from the signature on: the JWT
  never has more time left than its nonce, from the SETEX on and while they run.
- `SessionsAreBound`: `BoundInv` carries the claims that a request verified and
  the host check that follows GETDEL to the session. `HandoffTyped` closes the
  types of all requests, Redis and the ring.
- `TokensAreListed` and `LogoutsSeeAll`: when "all outstanding handoff tokens for
  a user" (`_revoke.py:44`) is right. Two conditions are assumed, each against one
  of the gaps of section 5: `ListedApart`, that no token of a person is being
  listed while a logout of theirs is between SMEMBERS and its last DEL, and
  `ListedSwiftly`, that no unit of time passes between SADD and EXPIRE. Failures,
  consumers and the number of logouts are unrestricted. `OnListInv` says that the
  index lives at least as long as each live nonce it has to list, and that during
  a logout it lists nothing which that logout has not read.
- `IndexesRunOut`: the safety side of `IndexCleaned`. An index has a time to live
  unless a call of the same person is `Late`: between its SADD and its EXPIRE, or
  failed. With `~Faults` only the first is left. Without a TTL no clock would ever
  remove the index.
- `SpentKeysShutOut`: no request takes up a token whose key has been retired or
  rotated away. `Verify` is the only step that takes one up, and it asks the
  ring, where trusted and spent keys are disjoint. A request that has verified
  before may still end in a session, as in the code.
- `HandoffStaysOneShot`: one redeemer per nonce, one nonce per request, for good.
  Two lemmas about `OneShot` alone, `TicketsAreOneShot` and `TicketsStayRedeemed`,
  say so of the tickets; the refinement carries them over.

`Impersonation_proofs`: `ImpTyped`, `EndedStays`, `OneActive`, `LogoutEndsIt`,
`SessionsHaveRows`, `NothingDangles` (assuming `~Faults`) and `GateGuards` (a
session names a member of its host's organization, and the row that lets a request
through is for the same person). Two lemmas carry them: `HowRowsChange`, a step inserts one row, ends some or leaves rows
alone, and `HowRequestsChange`, a step moves one request. From the first,
`RowsGoForward`: existing rows keep admin and membership and never come back to
life. `DueInv` is the strengthening for logout: the rows that let a request
through are its admin's, so the row that it reads again covers every one of them
that is still active.

`ImpersonationImplementsVisits` is the refinement, for any number of admins, rows
and requests, with failures or without. `MintInv` says that a row's token is minted
once, by the one request that inserted the row; `EnderInv`, that a request that is
about to end a row does so for one person and one row; `NamesInv`, that a row
names one admin and one membership. With `OneActive` an insert begins a visit that
`Visits` allows, and with `SessionsHaveRows` a session that is flushed or replaced
is a visit that is left. `ImpersonationKeepsVisits` is what it comes to: one open visit per admin, one
behind a door, a row that never changes hands or its end, and no way back in with a
pass that was used. The lemmas `VisitsStandApart` and `VisitsAreOver` say it of
`Visits` alone (`VisitsInv`).

`LogoutsEndTheirOwn`: what a logout is about to end is what let it through, on one
condition, `StartsApart`: no row of the same admin is inserted between the
middleware and the view's read. Without it TLC finds the logout that ends a newer
impersonation (section 5). `FindsInv` says that in between the admin's active rows
can only become fewer.

`LoginFlow_proofs`: `LoginStaysTyped`, `TokensVouchTruly`, `GateObeysPolicy`,
`NoSessionComesBack`, for any number of browsers and overlapping requests. The
invariant `LoginInv` says of every copy in flight that its key is not newer than
the session's, and that with the same key it is the same person's (`CopyLoaded`):
that is why saving it cannot bring a login back, nor one of before a change of
password: a session's person and hash change with its key only (`KeysFollow`) and
passwords only grow, so a void session stays void (`NoneIsRevived`). `SessionGood` and `CopyGood` say
that a time of MFA in a session or in a copy is one at which its person did
satisfy it in this browser. `KeptOut` is the gate's part, step by step, for a
request the policy is against, and `ClaimGood` that of the claims.

`Identity_proofs`: `IdentityTyped`, `ExternalCanLogIn`,
`IdentityImplementsDirectory`, `LinksAreVouchedFor`, `InactiveStayOut`, and
`SerialLinksAgree` (assuming that requests do not overlap). The first of these
theorems about links and the refinement assume `UnlinksApart`, that no two requests
dissolve links of one person at the same time; then `UnlinkInv` holds: whoever has
passed the check leaves the person another link. No table is
well-formed by itself: `IndexInv` says what each request knows at each step
(`ShapeInv`: whom it found is a person, what it inserted is nobody's yet and its
address is free), that two requests which have both inserted differ in address
and subject (`ApartInv`, the effect of waiting), and that the tables then keep
one address per person and one person per subject (`TablesInv`). `VouchInv`,
`AsleepInv` and `CalmInv` add what was read and must still hold later; only
`CalmInv`, that there is no conflicting identity, can be spoilt by another
request, and hence the assumption of `SerialLinksAgree`.

`IdentityStaysWhole` is what that comes to for the committed rows; its lemma
`DirectoryStandsWhole` says it of `Directory` alone. `RequestsNeverLock` is the provable side of
`SomeoneProceeds`, for any number of requests: `Waits` is the negated waiting guard
of the two INSERTs (a waiting request has no step, `WaitersStand`), and some request
in flight does not wait. Whoever has inserted a subject is about to commit, and
whoever has inserted an address can wait only for a subject, so no chain of waits
is longer than two.

`Provisioning_proofs`: `ProvisioningStaysTyped` (the foreign keys hold, that of a
role's capabilities on the catalog too, whatever staff edits: `GrantsStand` and
`Overtaken` are the part of the invariant for it) and
`ProvisioningIsAtomic` (the refinement of `Tenants`). The invariant `ProvInv` has
the shape of the tables (`TablesShape`: unique slugs, addresses and defaults, all
roles of an organization that is there), what each run holds (`RunShape`), what
it knows of the tables (`RunWorld`), and that two runs which wait for one another's
keys never hold equal ones (`Apart`). Uncommitted rows are not in the tables, so
each transaction is one step of `Tenants`, its commit.

`ProvisioningStaysWhole` is what that comes to: what is there is whole
(`TenantsWhole`), which the lemma `TenantsStandWhole` says of `Tenants` alone.
With it go the two properties of a whole command, `DoneIsComplete` and
`RerunsSucceed`. Their invariant `HistInv` follows a command from one transaction
to the next: as long as nothing was deleted, the rows it found are the ones it
asked for (`Undisturbed`); as long as it is alone, nobody else is in flight and
what it has read still stands (`Solitary`, `Ready`), so that no later statement is
refused. It is inductive only together with `ProvInv` and `TenantsWhole`, which say
what the tables look like between two statements. `alone` and `calm`, the history
that the two properties speak of, are read by no step.

`RowWaitsEnd`: of the runs in flight one does not wait for a row that another has
inserted or deleted. `Waits` is the
negated waiting guard of the INSERTs and of the statements that need a role which
another run may have deleted. `EmptyInv` says that deleted rows are held only from
the DELETE to the COMMIT. A run that waits for a slug or a role waits for one that
waits for nobody; one that waits for a membership may wait for a run that waits
for a role, and there the chain ends. The row locks that a COMMIT itself takes are
outside this: the commit of a membership can hold its organization's row and wait
for its role, which a reset has deleted that wants the organization's row next.
PostgreSQL ends such a deadlock by failing one of the two, which is `RunFails`.

`ClonesAreFaithful`: when the organization commits, its roles and their
capabilities are the templates', and the documented ones if staff has edited
nothing since the seed. The condition is `TemplatesStandStill`: templates and their
links are not written between the first SELECT of a clone and its COMMIT. Other runs
are unrestricted. `SnapInv` says that what a clone has read is still so, and
`SeedConverges` goes along for the documented lists. Without the condition TLC finds
the clone made by halves (section 5).

`RoleSeed_proofs`: `SeedIsIdempotent`, for any registry, any roles and any edits.
`Reference_proofs`: `SeededAsDocumented`, for version 1 of the tables (its three
assumptions name them) and any edits and seeds in between: freshly seeded templates
are the eleven roles of the guide with the two additions. It takes
`SeedIsIdempotent` and compares the tables role by role. `MembersSeeTheirScope` for any rows, by `ScopeInv`, that every
assignment names one row at its own level; `HostsAreToldApart` for any template,
root and hosts that `NoOverlap` admits.

What stays with TLC: liveness under fairness and `ENABLED`, which the prover does
not handle. These are `IndexCleaned`, `EndedSessionGoes`, `EnrolmentOpensTheDoor`,
and `SomeoneProceeds`, of which `RequestsNeverLock` proves that waiting is no
circle, not that a request which does not wait has a step. Every other property
of a passing run is stated by a theorem; those with a condition are named above.

## 5. Where code and documents differ

Shown by a run, quoted in `PROJECT.json`: `IdentityOutsideTx`, `LoginTrusted`.

Found with TLC in these modules, by a run that is not kept:

- two overlapping creations, or a creation and a rotation, both count the active
  keys before either inserts, and there are three; `handoff/models.py:44` has "At
  most two non-retired keys at any moment";
- the second `DEL` of a logout drops entries that another request added to the
  index since it was read, and the next logout misses them; `_revoke.py:44`: "all
  outstanding handoff tokens for a user" (`RevokedStaysDead` is about those that
  were read, and `LogoutsSeeAll` says when these are all);
- `console/views.py:525`: only two errors of the token service are caught, any
  other leaves an active row behind, against "so we don't leave a dangling row"
  four lines below; hence `NoDanglingRow` without failures;
- the liveness middleware looks for any active row of the admin, so where one
  person belongs to two organizations, an old session of one is let through by
  an impersonation in the other (`guide.md:1881`: "may not impersonate across
  organizations within a single session"). `GateKnowsThePerson` states what is
  left: the host's organization is one that the impersonated person belongs to;
- `_resolve_external.py:329`: two callbacks of one person with two subjects of one
  provider can both pass `_has_conflicting_external_identity` and both link,
  against rule 4 of B.4.7 (`SerialLinksAgree` is for one at a time);
- allauth checks how many links a person has before it deletes one, in two
  statements: two unlinkings at once, each of another link, both pass, and a person
  with no password is left with none. `ExternalCanLogIn` and the refinement of
  `Directory` are therefore for unlinkings that do not overlap.

Seen while modelling. Keys and tokens:

- `_keys.py:116`: the signing key is the newest one that is not retired, promoted
  or not; `_keys.py:135` says an unpromoted key cannot verify tokens, and the
  console (`console/views.py:203`) calls it pending while it signs.
- `_issue.py:179`: SADD to an index that expires before the EXPIRE that follows
  leaves the new token unlisted, and a logout misses it; a failure between the
  two leaves an index without a TTL (`_consume.py:85` says "Set TTL will clean
  up"; `IndexesRunOut`: without a failure each index gets one).
- `_consume.py:99`: the organization is read for its slug and its status never
  looked at; `guide.md:1714` says "`SUSPENDED`/`DELETED` orgs blocked at
  consumption".

Login and sessions:

- `_issue.py:244` and `views_select_org.py:9`: with exactly one membership the
  picker issues a token at once, and once the session's MFA is older than an hour
  the check raises an error that the view does not expect. It answers 500 until
  the person logs out or authenticates again.
- `views_select_org.py:249`: the provider code is written before the login is
  complete and nothing removes it, so a password login in a browser that has
  abandoned a provider's login passes for that provider's, at the gate as well.
- `views_select_org.py:274`: the fallback of the MFA time to the present is called
  practically unreachable. It is reached by a person who enrolled TOTP in another
  browser while she was signed in here.
- `signals.py:120`: every login records `LOCAL_PASSWORD_LOGIN_SUCCEEDED`, where
  the comment says that one by OAuth will not.
- `config/settings/base.py:244`: a change or a reset of the password signs a person
  out everywhere, but sends no `user_logged_out`, so her handoff tokens are not
  revoked by it and lead to a session under the new password.
- a page that ends in a 5xx does not save its session, so the events of the
  `_emit_..._once` helpers are recorded again by the next one.
- a page whose session was logged out meanwhile and which wants to save answers
  500: the error of the session store is not the one that Django turns into a
  redirect.
- a tenant session without TOTP cannot log out: `/logout/` of a tenant host is
  behind the gate, which redirects to an enrollment page that tenant hosts do
  not route (`accounts/middleware.py:105`). For an impersonation, following the
  redirect flushes the session once it has ended, which `ImpTenants` includes.

Impersonation:

- `tenant_portal/middleware.py:121`: a session left on a host, of an ended
  impersonation of somebody else, makes the middleware answer the POST that
  carries the token of a new one, which is never consumed (`guide.md:1867`: the
  start establishes a tenant-local session).
- `tenant_portal/views.py:198`: a logout records the impersonated person as the
  one who ended the impersonation (`_end.py:44`: the admin or other staff).
- `tenant_portal/views.py:74`: a row that ends between middleware and view gives
  a page without the banner (`guide.md:1869`: every page has one).
- `tenant_portal/views.py:193`: the row is looked up by admin again, so a logout
  that is late enough ends an impersonation started since (`LogoutsEndTheirOwn` says
  when it does not).
- the 2-hour cap of `guide.md:1881` is not implemented; nothing expires a row.

Identities, provisioning, roles, hosts:

- `_resolve_external.py:373`: a new external person "has the verified email from
  claims", but with `require_verified_email` off an unverified one will do.
- `_create.py:197`: templates and their links are read by two statements; what
  staff commits in between is cloned by halves. All roles are there; their
  capabilities may be those of before and after (`ClonesAreFaithful` says when they
  are not).
- `seed_dev_tenant.py:266` and `:286`: `--reset` fails with ProtectedError when a row
  that protects the tenant (`Keep`) or the person (`Cite`) exists, so
  `RerunSucceeds` excludes both.
- the seed gives `sales_staff` and `viewer` capabilities beyond the table of
  `guide.md` B.6.4 (`Beyond` in `MCReference`); a test asks for them.
- `host_resolution.py:110`: a template like `app.{slug}.local` makes `app.local`
  the tenant "loca", as prefix and suffix may overlap; with one that begins with
  `{slug}`, as deployed, this cannot happen (`NoOverlap`).

## 6. Plan, and what is left

The plan of the project is carried out: `SigningKeys` with `KeyRing`,
`HandoffTokens` with `OneShot`, `Impersonation` with `Visits`, `Identity` with `Directory`,
`Provisioning` with `Tenants`, `LoginFlow`, `RoleSeed`, `HostSessions` and
`LocationScopes`, each checked and each proved about. What could follow:

- two requests at one browser in `LoginFlow` for TLC too (the proof covers them);
- tenant export and deletion, capability evaluation and the outbox, once the code
  has them.

## 7. Not modelled

The audit service is a stub that stores nothing, so audit rows are left out, and
with them the events that a failed transaction would keep; that an event type must
be known and that a transaction must be open is in `LoginFlow` and `Identity`.
Email delivery, allauth's own views beyond what `LoginFlow` needs of them, the
shape of OAuth claims, the loading of provider configurations at startup,
templates, the frontend, the admin site (its URLs are not mounted), health probes,
the placeholder outbox, Celery's debug task and the repository's own scripts have
no state that these properties speak of. No code evaluates a capability yet, so
roles are data here. Cryptography is taken at its word: a token verifies with the
key that signed it and with no other.
