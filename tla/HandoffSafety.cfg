SPECIFICATION Spec
CONSTANTS
    u1 = u1  u2 = u2  acme = acme  beta = beta  k1 = k1  k2 = k2
    KeyIds = {k1}
    Members <- OneMember
    Hosts = {acme}
    Tids = {t1, t2}
    Consumers = {c1, c2}
    Logouts = {l1}
    TTL = 2
    Faults = TRUE
    Moving = {}
SYMMETRY Perms
INVARIANTS HandoffTypeOK SingleUse RevokedStaysDead NonceOutlivesJwt
PROPERTIES ImplementsOneShot
CHECK_DEADLOCK FALSE
