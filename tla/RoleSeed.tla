------------------------------ MODULE RoleSeed ------------------------------
(***************************************************************************)
(* The platform's role templates: rows of Capability, of Role with no      *)
(* organization, and of RoleCapability between them, as the seed migration *)
(* writes them and as staff may edit them in between.                      *)
(***************************************************************************)
EXTENDS Naturals

CONSTANTS
    Caps,       \* capability codes there may be rows for
    Codes,      \* codes of the default roles
    Registry,   \* V1_CAPABILITIES: the codes that the seed installs
    Defaults,   \* V1_DEFAULT_ROLES: Defaults[c] is the list of role c
    Editable,   \* BOUND: the capabilities that staff edits
    MaxEdits    \* BOUND on how often staff edits between two seeds

\* A listed code with no Capability row would be passed over in silence.
ASSUME SeedAssumption ==
    /\ Registry \subseteq Caps
    /\ Defaults \in [Codes -> SUBSET Registry]
    /\ Editable \subseteq Caps
    /\ MaxEdits \in Nat

VARIABLES
    catalog,    \* codes of the Capability rows
    templates,  \* codes of the Role rows with no organization
    holds,      \* RoleCapability rows of the templates, as <<role, capability>>
    edits       \* how often staff touched them since the last seed

seedVars == <<catalog, templates, holds, edits>>

RoleSeedInit ==
    /\ catalog = {}
    /\ templates = {}
    /\ holds = {}
    /\ edits = 0

Held(c) == {k \in Caps : <<c, k>> \in holds}

\* A mutant: capabilities that left a role's list stay on its template.
SyncedOnlyAdds(c, rows) == Held(c) \cup (Defaults[c] \cap rows)

(* The set-based sync of one role: what is missing is looked up among the  *)
(* Capability rows, and a code with no row is passed over; what is held    *)
(* and not listed is deleted.                                              *)
Synced(c, rows) ==
    LET existing == Held(c)
        desired == Defaults[c]
        toAdd == desired \ existing
        toRemove == existing \ desired
    IN  (existing \cup (toAdd \cap rows)) \ toRemove

\* seed_v1, in the one transaction of its migration.
Seed ==
    /\ catalog' = catalog \cup Registry
    /\ templates' = Codes
    /\ holds' = UNION {{c} \X Synced(c, catalog') : c \in Codes}
    /\ edits' = 0

\* Staff gives a template a capability, or takes it away.
EditTemplate ==
    /\ \E c \in templates, k \in catalog \cap Editable :
         holds' = IF <<c, k>> \in holds THEN holds \ {<<c, k>>} ELSE holds \cup {<<c, k>>}
    /\ UNCHANGED <<catalog, templates>>

\* Staff deletes a template and, with it, its rows (CASCADE).
DeleteTemplate ==
    /\ \E c \in templates :
         /\ templates' = templates \ {c}
         /\ holds' = {p \in holds : p[1] # c}
    /\ UNCHANGED catalog

\* Staff deletes a capability that no template holds and no role of a tenant,
\* whose rows PROTECT the capabilities inUse, or invents one.
EditCatalog(inUse) ==
    /\ \E k \in Editable :
         \/ /\ k \in catalog \ inUse
            /\ \A c \in templates : <<c, k>> \notin holds
            /\ catalog' = catalog \ {k}
         \/ /\ k \notin catalog
            /\ catalog' = catalog \cup {k}
    /\ UNCHANGED <<templates, holds>>

Staff(inUse) ==
    /\ edits < MaxEdits                                              \* BOUND
    /\ edits' = edits + 1
    /\ EditTemplate \/ DeleteTemplate \/ EditCatalog(inUse)

\* With no tenant about; Provisioning has them.
RoleSeedNext == Seed \/ Staff({})

RoleSeedSpec == RoleSeedInit /\ [][RoleSeedNext]_seedVars

-----------------------------------------------------------------------------
(* A link joins rows that exist. *)
SeedTypeOK ==
    /\ catalog \subseteq Caps
    /\ templates \subseteq Codes
    /\ holds \subseteq templates \X catalog
    /\ edits \in 0 .. MaxEdits

(* "Re-running this migration MUST be a no-op": whatever staff did before, *)
(* a seed leaves each default role with its list and nothing else.         *)
SeedConverges ==
    edits = 0 /\ templates # {} =>
        templates = Codes /\ \A c \in Codes : Held(c) = Defaults[c]

=============================================================================
