--------------------------- MODULE LocationScopes ---------------------------
(***************************************************************************)
(* What a member sees of the locations: rows of Region, Market and         *)
(* Location with their parents and organizations, and the scope            *)
(* assignments of a membership, which name a row at one of the three       *)
(* levels.                                                                 *)
(***************************************************************************)
EXTENDS Naturals, FiniteSets

CONSTANTS
    Orgs,
    Regions, Markets, Locations,    \* ids
    MaxScopes                       \* BOUND on the assignments of a membership

ASSUME ScopeAssumption ==
    Orgs # {} /\ Regions # {} /\ Markets # {} /\ MaxScopes \in Nat

VARIABLES
    org, market, region,    \* foreign keys: Location.organization and .market,
                            \* Market.region; no constraint makes them agree
    member,                 \* the membership that looks
    scopes                  \* its MembershipScopeAssignment rows

rowVars == <<org, market, region>>
scopeVars == <<rowVars, member, scopes>>

\* At most one value of a nullable foreign key.
Nullable(S) == {{}} \cup {{x} : x \in S}

Columns == [scope_type : {"REGION", "MARKET", "LOCATION"}, region : Nullable(Regions),
            market : Nullable(Markets), location : Nullable(Locations)]

ScopeTypeMatches(a) ==
    \/ a.scope_type = "REGION" /\ a.region # {}
    \/ a.scope_type = "MARKET" /\ a.market # {}
    \/ a.scope_type = "LOCATION" /\ a.location # {}

\* A mutant: only the other CHECK constraint is left.
TypeDecides(a) == TRUE

ExactlyOneTarget(a) ==
    \/ a.region = {} /\ a.market = {} /\ a.location # {}
    \/ a.region = {} /\ a.market # {} /\ a.location = {}
    \/ a.region # {} /\ a.market = {} /\ a.location = {}

\* scoped tells whether one of its roles has is_scoped_role.
Memberships == [org : Orgs, scoped : BOOLEAN]

ScopeInit ==
    /\ org = [l \in Locations |-> CHOOSE o \in Orgs : TRUE]
    /\ market = [l \in Locations |-> CHOOSE m \in Markets : TRUE]
    /\ region = [m \in Markets |-> CHOOSE r \in Regions : TRUE]
    /\ member = [org |-> CHOOSE o \in Orgs : TRUE, scoped |-> FALSE]
    /\ scopes = {}

\* Rows are written through the models alone: their constraints are all
\* that stands between a caller and the tables.
Own(l, o) ==
    /\ org' = [org EXCEPT ![l] = o]
    /\ UNCHANGED <<market, region, member, scopes>>

Place(l, m) ==
    /\ market' = [market EXCEPT ![l] = m]
    /\ UNCHANGED <<org, region, member, scopes>>

File(m, r) ==
    /\ region' = [region EXCEPT ![m] = r]
    /\ UNCHANGED <<org, market, member, scopes>>

Enter(m) ==
    /\ member' = m
    /\ UNCHANGED <<rowVars, scopes>>

Assign(a) ==
    /\ ExactlyOneTarget(a) /\ ScopeTypeMatches(a)
    /\ Cardinality(scopes) < MaxScopes                               \* BOUND
    /\ scopes' = scopes \cup {a}
    /\ UNCHANGED <<rowVars, member>>

Unassign(a) ==
    /\ a \in scopes
    /\ scopes' = scopes \ {a}
    /\ UNCHANGED <<rowVars, member>>

ScopeNext ==
    \/ \E l \in Locations, o \in Orgs : Own(l, o)
    \/ \E l \in Locations, m \in Markets : Place(l, m)
    \/ \E m \in Markets, r \in Regions : File(m, r)
    \/ \E m \in Memberships : Enter(m)
    \/ \E a \in Columns : Assign(a)
    \/ \E a \in scopes : Unassign(a)

ScopeSpec == ScopeInit /\ [][ScopeNext]_scopeVars

-----------------------------------------------------------------------------
(* Each row goes to the bucket of its first target; then one query for     *)
(* markets and one for regions.                                            *)
resolve_location_ids_for_scopes(rows) ==
    LET region_ids == UNION {a.region : a \in rows}
        market_ids == UNION {a.market : a \in {b \in rows : b.region = {}}}
        location_ids ==
            UNION {a.location : a \in {b \in rows : b.region = {} /\ b.market = {}}}
    IN  location_ids
          \cup {l \in Locations : market[l] \in market_ids}
          \cup {l \in Locations : region[market[l]] \in region_ids}

for_org(qs, o) == {l \in qs : org[l] = o}

intersect_with_operating_scope(qs) ==
    IF scopes = {}
    THEN IF member.scoped THEN {} ELSE qs
    ELSE qs \cap resolve_location_ids_for_scopes(scopes)

for_membership == intersect_with_operating_scope(for_org(Locations, member.org))

-----------------------------------------------------------------------------
\* What an assignment covers, told from the location upwards.
Covers(a, l) ==
    \/ a.scope_type = "REGION" /\ region[market[l]] \in a.region
    \/ a.scope_type = "MARKET" /\ market[l] \in a.market
    \/ a.scope_type = "LOCATION" /\ l \in a.location

(* A member sees the locations of her own organization that one of her     *)
(* assignments covers at its own level; with no assignment all of them, or *)
(* none if one of her roles is scoped.  Nobody sees another organization's *)
(* location, wherever its market or region is filed (utils.py:125).        *)
SeesExactlyScope ==
    for_membership =
        {l \in Locations :
            /\ org[l] = member.org
            /\ \/ scopes = {} /\ ~member.scoped
               \/ \E a \in scopes : Covers(a, l)}

=============================================================================
