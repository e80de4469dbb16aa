SPECIFICATION Spec
CONSTANTS
    u1 = u1  u2 = u2  acme = acme  beta = beta
    Admins = {a1, a2}
    Users = {u1, u2}
    Orgs = {acme}
    Memberships <- OneMember
    Rows = {r1, r2}
    Requests = {q1, q2}
    Enrolled = {u1, u2}
    Faults = TRUE
SYMMETRY Perms
INVARIANTS ImpTypeOK OneActivePerAdmin LogoutEnds
PROPERTIES ImplementsVisits
CHECK_DEADLOCK FALSE
