---------------------------- MODULE MCReference ----------------------------
(****************************************************************************)
(* Three parts that share no state, side by side: RoleSeed with the registry*)
(* and default roles of version 1, HostSessions and LocationScopes.  Each   *)
(* runs while the others are in their initial state.                        *)
(****************************************************************************)
EXTENDS RoleSeed, RoleCatalog, HostSessions, LocationScopes, FiniteSets

\* The template is m-{slug}.m, the root domain m.m, and a host is short. 
SomePrefix == <<"m", "-">>
SomeSuffix == <<".", "m">>
SomeRoot == <<"m", ".", "m">>
SomeChars == {"m", "M", "0", "-", "."}
SomeLower == [c \in SomeChars |-> IF c = "M" THEN "m" ELSE c]
ShortHosts == UNION {[1 .. n -> SomeChars] : n \in 1 .. 7}

Invented == <<"demo", "code">>

SomeEditable == {<<"leads", "view">>, <<"pricing", "approval", "grant">>, Invented}

SomeCaps == AllCapabilities \cup {Invented}

\* The guide's table of default roles (B.6.4), by areas where it says area.
Area(a) == {k \in AllCapabilities : k[1] = a}

GuideList(c) ==
    CASE c = "sales_staff" ->
           Area("leads") \cup Area("tasks") \cup Area("communications")
           \cup {<<"quotes", v>> : v \in {"view", "create", "edit", "send"}}
           \cup {<<"clients", v>> : v \in {"view", "create", "edit"}}
           \cup {<<"orders", "view">>, <<"catalog", "view">>, <<"pricing", "rules", "view">>,
                 <<"pricing", "approval", "request">>}
      [] c = "service_staff" ->
           {<<"workorders", v>> : v \in {"view", "update_status", "complete"}}
           \cup {<<"tasks", "view">>, <<"tasks", "complete">>}
           \cup {<<"communications", "view">>, <<"communications", "log">>}
      [] c = "production_staff" ->
           {<<"build", "view">>, <<"build", "manage">>, <<"build", "labor", "record">>}
           \cup {<<"tasks", "view">>, <<"tasks", "complete">>}
      [] c = "pricing_manager" ->
           Area("pricing") \cup {<<"catalog", "view">>, <<"quotes", "view">>,
             <<"quotes", "edit">>, <<"quotes", "line", "override_price">>,
             <<"quotes", "line", "apply_discount">>}
      [] c = "billing_staff" ->
           Area("billing") \cup {<<"clients", "view">>, <<"orders", "view">>,
             <<"tasks", "view">>, <<"tasks", "create">>}
      [] c = "viewer" -> {k \in AllCapabilities : k[Len(k)] = "view"}
      [] OTHER -> AllCapabilities

\* What the code adds to the table, and a test asks for.
Beyond(c) ==
    CASE c = "sales_staff" -> {<<"clients", "contacts", "manage">>,
                               <<"clients", "locations", "manage">>}
      [] c = "viewer" -> {<<"workorders", "view_all">>}
      [] OTHER -> {}

(* A freshly seeded template holds what the guide's table of default roles *)
(* says and the two additions above, and there are eleven of them.         *)
RolesAsDocumented ==
    edits = 0 /\ templates # {} =>
        /\ Cardinality(templates) = 11
        /\ \A c \in templates : Held(c) = GuideList(c) \cup Beyond(c)

refVars == <<seedVars, hostVars, scopeVars>>

Still(seeding, serving, scoping) ==
    /\ ~seeding => RoleSeedInit /\ UNCHANGED seedVars
    /\ ~serving => HostInit /\ UNCHANGED hostVars
    /\ ~scoping => ScopeInit /\ UNCHANGED scopeVars

RefInit == RoleSeedInit /\ HostInit /\ ScopeInit

RefNext ==
    \/ Still(TRUE, FALSE, FALSE) /\ RoleSeedNext
    \/ Still(FALSE, TRUE, FALSE) /\ HostNext
    \/ Still(FALSE, FALSE, TRUE) /\ ScopeNext

RefSpec == RefInit /\ [][RefNext]_refVars
=============================================================================
