-------------------------- MODULE MCHandoffTokens --------------------------
(* TLC instances of HandoffTokens. *)
EXTENDS HandoffTokens, TLC

CONSTANTS u1, u2, acme, beta, k1, k2

\* One person with one membership; with two; two people in one organization.
OneMember == {[user |-> u1, org |-> acme]}
TwoOrgs == OneMember \cup {[user |-> u1, org |-> beta]}
TwoUsers == OneMember \cup {[user |-> u2, org |-> acme]}

Perms == Permutations(Tids) \cup Permutations(Consumers) \cup Permutations(KeyIds)
=============================================================================
