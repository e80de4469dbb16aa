SPECIFICATION FairSpec
CONSTANTS
    u1 = u1  u2 = u2  acme = acme  beta = beta  k1 = k1  k2 = k2
    KeyIds = {k1, k2}
    Members <- TwoOrgs
    Hosts = {acme, beta}
    Tids = {t1}
    Consumers = {c1}
    Logouts = {l1}
    TTL = 1
    Faults = FALSE
    Moving = {"keys", "members", "orgs"}
INVARIANT SessionIsBound
PROPERTY IndexCleaned
