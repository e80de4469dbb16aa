SPECIFICATION RefSpec
CONSTANTS
    Caps <- SomeCaps
    Codes <- RoleCodes
    Registry <- AllCapabilities
    Defaults <- DefaultRoles
    Editable <- SomeEditable
    MaxEdits = 3
    Chars <- SomeChars
    Letters = {"m"}
    Digits = {"0"}
    LowerOf <- SomeLower
    Root <- SomeRoot
    Prefix <- SomePrefix
    Suffix <- SomeSuffix
    Hosts <- ShortHosts
    Orgs = {o1, o2}
    Regions = {r1, r2}
    Markets = {m1, m2}
    Locations = {l1, l2}
    MaxScopes = 2
INVARIANTS SeedConverges RolesAsDocumented
    HostNamesOneTenant
    SeesExactlyScope
