---------------------------- MODULE MCIdentity ----------------------------
(* TLC instances of Identity. *)
EXTENDS Identity, TLC

Policy(on, domains, strict, signup) ==
    [active |-> on, domains |-> domains, strict |-> strict, signup |-> signup]

\* Open to all, to verified addresses, by invitation only, switched off; a
\* list of domains excludes here just the subjects with no address.
SomePolicies ==
    {Policy(TRUE, {}, FALSE, TRUE), Policy(TRUE, {}, TRUE, TRUE),
     Policy(TRUE, Emails, FALSE, TRUE), Policy(TRUE, {}, FALSE, FALSE),
     Policy(FALSE, {}, FALSE, TRUE)}

Perms == Permutations(Ids) \cup Permutations(Emails) \cup Permutations(Uids)
         \cup Permutations(Requests)
=============================================================================
