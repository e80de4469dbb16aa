------------------------------ MODULE OneShot ------------------------------
(***************************************************************************)
(* What a handoff token promises: a ticket that lets at most one request   *)
(* in.  It is issued once, and is then redeemed by one request or voided   *)
(* (it ran out, or a logout revoked it); only the request that redeemed it *)
(* may enter, and redeeming does not oblige it to.                         *)
(***************************************************************************)
CONSTANTS Tickets, Guests

VARIABLES
    state,      \* state[t]: where ticket t is in its life
    redeemer,   \* redeemer[t]: the guests that redeemed t
    inside      \* the guests that were let in

ticketVars == <<state, redeemer, inside>>

TicketInit ==
    /\ state = [t \in Tickets |-> "unissued"]
    /\ redeemer = [t \in Tickets |-> {}]
    /\ inside = {}

Issue(t) ==
    /\ state[t] = "unissued"
    /\ state' = [state EXCEPT ![t] = "outstanding"]
    /\ UNCHANGED <<redeemer, inside>>

Redeem(t, g) ==
    /\ state[t] = "outstanding"
    /\ \A u \in Tickets : g \notin redeemer[u]
    /\ state' = [state EXCEPT ![t] = "redeemed"]
    /\ redeemer' = [redeemer EXCEPT ![t] = {g}]
    /\ UNCHANGED inside

Void(T) ==
    /\ \A t \in T : state[t] = "outstanding"
    /\ state' = [t \in Tickets |-> IF t \in T THEN "void" ELSE state[t]]
    /\ UNCHANGED <<redeemer, inside>>

Enter(g) ==
    /\ \E t \in Tickets : redeemer[t] = {g}
    /\ g \notin inside
    /\ inside' = inside \cup {g}
    /\ UNCHANGED <<state, redeemer>>

TicketNext ==
    \/ \E t \in Tickets : Issue(t)
    \/ \E t \in Tickets, g \in Guests : Redeem(t, g)
    \/ \E T \in SUBSET Tickets : Void(T)
    \/ \E g \in Guests : Enter(g)

TicketSpec == TicketInit /\ [][TicketNext]_ticketVars

-----------------------------------------------------------------------------
(* What that comes to: a ticket is redeemed by one guest, a guest redeems  *)
(* one ticket, and whoever is inside has redeemed one.                     *)
OneGuestEach ==
    /\ \A t \in Tickets : redeemer[t] # {} <=> state[t] = "redeemed"
    /\ \A t \in Tickets : \A g \in redeemer[t], h \in redeemer[t] : g = h
    /\ \A t \in Tickets, u \in Tickets : redeemer[t] \cap redeemer[u] # {} => t = u
    /\ \A g \in inside : \E t \in Tickets : redeemer[t] = {g}

\* Nobody takes over a ticket, and nobody who is inside is put out.
RedeemedForGood ==
    [][/\ \A t \in Tickets : redeemer[t] # {} => redeemer'[t] = redeemer[t]
       /\ inside \subseteq inside']_ticketVars

=============================================================================
