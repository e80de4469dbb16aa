-------------------------- MODULE MCImpersonation --------------------------
(* TLC instances of Impersonation. *)
EXTENDS Impersonation, TLC

CONSTANTS u1, u2, acme, beta

\* One membership; one person in two organizations; and another in the second.
OneMember == {[user |-> u1, org |-> acme]}
TwoOrgs == OneMember \cup {[user |-> u1, org |-> beta]}
SharedTenants == TwoOrgs \cup {[user |-> u2, org |-> beta]}

Perms == Permutations(Admins) \cup Permutations(Rows) \cup Permutations(Requests)
=============================================================================
