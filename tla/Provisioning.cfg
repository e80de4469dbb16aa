SPECIFICATION Spec
CONSTANTS
    Caps = {k1}
    Registry = {k1}
    Codes <- SomeCodes
    Defaults <- SomeDefaults
    Editable = {}
    MaxEdits = 0
    Orgs = {o1, o2}
    Slugs = {s1, s2}
    Users = {u1, u2}
    Emails = {e1}
    Owner = "owner"
    Runs = {r1, r2}
    MaxKept = 1
SYMMETRY Perms
INVARIANTS ProvTypeOK
PROPERTIES ImplementsTenants DoneMeansComplete RerunSucceeds
