------------------------------- MODULE Tenants -------------------------------
(***************************************************************************)
(* What provisioning promises: an organization is there with all its roles *)
(* or not at all, a slug and an address name one row each, a member joins  *)
(* as owner in one step and has at most one default membership, and what   *)
(* an organization has goes when it goes.                                  *)
(***************************************************************************)
CONSTANTS Orgs, Slugs, Users, Emails, Codes

VARIABLES
    slug,       \* slug[o]: the slug of organization o, {}: no row
    roles,      \* roles[o]: the codes of its roles
    mail,       \* mail[u]: the address of person u, {}: no row
    members,    \* memberships, as <<person, organization>>
    main,       \* those with is_default_for_user
    owners      \* those with the Owner role

tenantVars == <<slug, roles, mail, members, main, owners>>

TenantsInit ==
    /\ slug = [o \in Orgs |-> {}]
    /\ roles = [o \in Orgs |-> {}]
    /\ mail = [u \in Users |-> {}]
    /\ members = {}
    /\ main = {}
    /\ owners = {}

Found(o, s) ==
    /\ slug[o] = {}
    /\ \A p \in Orgs : s \notin slug[p]
    /\ slug' = [slug EXCEPT ![o] = {s}]
    /\ roles' = [roles EXCEPT ![o] = Codes]
    /\ UNCHANGED <<mail, members, main, owners>>

\* Everything an organization has goes with it.
Dissolve(o) ==
    /\ slug[o] # {}
    /\ slug' = [slug EXCEPT ![o] = {}]
    /\ roles' = [roles EXCEPT ![o] = {}]
    /\ members' = {m \in members : m[2] # o}
    /\ main' = {m \in main : m[2] # o}
    /\ owners' = {m \in owners : m[2] # o}
    /\ UNCHANGED mail

Join(u, e) ==
    /\ mail[u] = {}
    /\ \A w \in Users : e \notin mail[w]
    /\ mail' = [mail EXCEPT ![u] = {e}]
    /\ UNCHANGED <<slug, roles, members, main, owners>>

Leave(u) ==
    /\ \A m \in members : m[1] # u
    /\ mail' = [mail EXCEPT ![u] = {}]
    /\ UNCHANGED <<slug, roles, members, main, owners>>

\* A person enters an organization, as its owner or with no role.
Enlist(u, o) ==
    /\ mail[u] # {}
    /\ slug[o] # {}
    /\ <<u, o>> \notin members
    /\ members' = members \cup {<<u, o>>}
    /\ \/ main' = main
       \/ /\ \A m \in main : m[1] # u
          /\ main' = main \cup {<<u, o>>}
    /\ owners' \in {owners, owners \cup {<<u, o>>}}
    /\ UNCHANGED <<slug, roles, mail>>

Promote(m) ==
    /\ m \in members
    /\ owners' = owners \cup {m}
    /\ UNCHANGED <<slug, roles, mail, members, main>>

TenantsNext ==
    \/ \E o \in Orgs, s \in Slugs : Found(o, s)
    \/ \E o \in Orgs : Dissolve(o)
    \/ \E u \in Users, e \in Emails : Join(u, e)
    \/ \E u \in Users : Leave(u)
    \/ \E u \in Users, o \in Orgs : Enlist(u, o)
    \/ \E m \in Users \X Orgs : Promote(m)

TenantsSpec == TenantsInit /\ [][TenantsNext]_tenantVars

-----------------------------------------------------------------------------
(* What that comes to: a tenant that is there has every role, and one that *)
(* is not has none; no two share a slug, no two persons an address; only   *)
(* a member is an owner; and nobody has two default memberships.           *)
TenantsWhole ==
    /\ \A o \in Orgs : roles[o] = IF slug[o] = {} THEN {} ELSE Codes
    /\ \A o \in Orgs, p \in Orgs : slug[o] \cap slug[p] # {} => o = p
    /\ \A u \in Users, w \in Users : mail[u] \cap mail[w] # {} => u = w
    /\ \A m \in members : mail[m[1]] # {} /\ slug[m[2]] # {}
    /\ main \subseteq members /\ owners \subseteq members
    /\ \A m \in main, n \in main : m[1] = n[1] => m = n

=============================================================================
