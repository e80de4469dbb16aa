------------------------------- MODULE Visits -------------------------------
(***************************************************************************)
(* What impersonation promises: visits of hosts by admins in the name of   *)
(* a member.  An admin makes one visit at a time.  A visit begins, is      *)
(* ended once and by somebody, and is entered at most once, with the pass  *)
(* that was given for it; whoever has left it does not come back in.       *)
(***************************************************************************)
CONSTANTS
    VisitIds,   \* names for visits
    Visitors,   \* admins
    Members,    \* whom they may visit, and where: records [user, org]
    People      \* whoever may end a visit

VARIABLES
    who,      \* who[v]: the visitor, {} before v begins
    where,    \* where[v]: the member in whose name
    endedBy,  \* endedBy[v]: who ended v, {} as long as it goes on
    pass,     \* pass[v]: the pass for entering: none yet, live or gone
    inside    \* the visits whose visitor is inside

visitVars == <<who, where, endedBy, pass, inside>>

Begun == {v \in VisitIds : who[v] # {}}
Open == {v \in Begun : endedBy[v] = {}}

\* A visitor has one browser session on each organization's host.
Door(v) == <<who[v], {m.org : m \in where[v]}>>

VisitInit ==
    /\ who = [v \in VisitIds |-> {}]
    /\ where = [v \in VisitIds |-> {}]
    /\ endedBy = [v \in VisitIds |-> {}]
    /\ pass = [v \in VisitIds |-> "none"]
    /\ inside = {}

Begin(v, a, m) ==
    /\ v \notin Begun
    /\ \A u \in Open : who[u] # {a}
    /\ who' = [who EXCEPT ![v] = {a}]
    /\ where' = [where EXCEPT ![v] = {m}]
    /\ UNCHANGED <<endedBy, pass, inside>>

End(V, p) ==
    /\ V \subseteq Open
    /\ endedBy' = [v \in VisitIds |-> IF v \in V THEN {p} ELSE endedBy[v]]
    /\ UNCHANGED <<who, where, pass, inside>>

Give(v) ==
    /\ v \in Begun
    /\ pass[v] = "none"
    /\ pass' = [pass EXCEPT ![v] = "live"]
    /\ UNCHANGED <<who, where, endedBy, inside>>

\* The pass runs out, is revoked, or is presented in vain.
Waste(v) ==
    /\ pass[v] = "live"
    /\ pass' = [pass EXCEPT ![v] = "gone"]
    /\ UNCHANGED <<who, where, endedBy, inside>>

\* Going in by a door puts out whatever visit was inside behind it.
Enter(v) ==
    /\ pass[v] = "live"
    /\ pass' = [pass EXCEPT ![v] = "gone"]
    /\ inside' = {v} \cup {u \in inside : Door(u) # Door(v)}
    /\ UNCHANGED <<who, where, endedBy>>

Leave(V) ==
    /\ inside' = inside \ V
    /\ UNCHANGED <<who, where, endedBy, pass>>

VisitNext ==
    \/ \E v \in VisitIds, a \in Visitors, m \in Members : Begin(v, a, m)
    \/ \E V \in SUBSET VisitIds, p \in People : End(V, p)
    \/ \E v \in VisitIds : Give(v) \/ Waste(v) \/ Enter(v)
    \/ \E V \in SUBSET VisitIds : Leave(V)

VisitSpec == VisitInit /\ [][VisitNext]_visitVars

-----------------------------------------------------------------------------
(* What that comes to: a visitor has one open visit, and behind a door     *)
(* there is one visit, which somebody was given the pass for and used up.  *)
OneVisitEach ==
    /\ \A u, v \in Open : who[u] = who[v] => u = v
    /\ \A u, v \in inside : Door(u) = Door(v) => u = v
    /\ \A v \in inside : v \in Begun /\ pass[v] = "gone"

\* A visit stays what it was, ended by whom it was ended, and is not entered
\* a second time.
OverForGood ==
    [][\A v \in VisitIds :
         /\ v \in Begun => who'[v] = who[v] /\ where'[v] = where[v]
         /\ endedBy[v] # {} => endedBy'[v] = endedBy[v]
         /\ pass[v] = "gone" => pass'[v] = "gone"
         /\ pass[v] = "gone" /\ v \notin inside => v \notin inside']_visitVars

=============================================================================
