SPECIFICATION Spec
CONSTANTS
    q1 = q1
    b1 = b1
    Users = {u1, u2}
    Staff = {u2}
    Enrolled = {u2}
    Providers = {p1}
    Orgs = {o1}
    Browsers = {b1}
    Requests = {q1}
    From <- OneBrowser
    Limit = 0
    MaxTime = 1
    MaxGen = 2
    MaxChanges = 0
INVARIANTS
    TrustedIsLetIn
CHECK_DEADLOCK FALSE
