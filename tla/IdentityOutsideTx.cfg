SPECIFICATION Spec
CONSTANTS
    Ids = {u1, u2}
    Emails = {e1, e2}
    Providers = {p1}
    Uids = {x1, x2}
    Policies <- SomePolicies
    Requests = {q1, q2}
    Unlinkers = {d1}
    CallerAtomic = FALSE
PROPERTIES CallbackIsAnswered
