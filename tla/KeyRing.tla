------------------------------ MODULE KeyRing ------------------------------
(***************************************************************************)
(* What the signing-key services promise to the code that signs and        *)
(* verifies tokens: which keys verify, which one signs.  A key leaves the  *)
(* ring for good, and as long as one verifies there is exactly one that    *)
(* signs.  SigningKeys implements this; HandoffTokens relies on it.        *)
(***************************************************************************)
CONSTANT KeyIds

VARIABLES
    trusted,   \* the non-retired keys: each of them verifies a token
    spent,     \* the retired keys
    signer     \* {the newest non-retired key}, or {} when there is none

ringVars == <<trusted, spent, signer>>

RingOK ==
    /\ trusted \subseteq KeyIds
    /\ spent \subseteq KeyIds
    /\ trusted \cap spent = {}
    /\ signer \subseteq trusted
    /\ \A a, b \in signer : a = b
    /\ trusted # {} => signer # {}

RingInit ==
    /\ trusted = {}
    /\ spent = {}
    /\ signer = {}

RingChange ==
    /\ trusted' \in SUBSET KeyIds
    /\ spent' \in SUBSET KeyIds
    /\ signer' \in {{}} \cup {{k} : k \in KeyIds}
    /\ RingOK'
    /\ spent \subseteq spent'
    /\ trusted \subseteq trusted' \cup spent'

RingSpec == RingInit /\ [][RingChange]_ringVars

=============================================================================
