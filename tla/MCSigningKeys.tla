--------------------------- MODULE MCSigningKeys ---------------------------
(* TLC instances of SigningKeys. *)
EXTENDS SigningKeys, TLC

Perms == Permutations(KeyIds) \cup Permutations(Operators)
=============================================================================
