SPECIFICATION FairSpec
CONSTANTS
    u1 = u1  u2 = u2  acme = acme  beta = beta
    Admins = {a1}
    Users = {u1, u2}
    Orgs = {acme, beta}
    Memberships <- SharedTenants
    Rows = {r1, r2}
    Requests = {q1, q2}
    Enrolled = {u1}
    Faults = FALSE
INVARIANTS SessionHasItsRow NoDanglingRow
PROPERTIES GateKnowsThePerson EndedSessionGoes
CHECK_DEADLOCK FALSE
