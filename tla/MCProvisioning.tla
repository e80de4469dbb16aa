--------------------------- MODULE MCProvisioning ---------------------------
(* TLC instances of Provisioning: two roles stand for the eleven. *)
EXTENDS Provisioning, TLC

SomeCodes == {"owner", "viewer"}

SomeDefaults == [c \in SomeCodes |-> Caps]

Perms == Permutations(Orgs) \cup Permutations(Users) \cup Permutations(Runs)
         \cup Permutations(Slugs)
=============================================================================
