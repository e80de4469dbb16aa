SPECIFICATION Spec
CONSTANTS
    KeyIds = {k1, k2, k3}
    Operators = {o1, o2}
    MaxStamp = 4
SYMMETRY Perms
INVARIANTS KeyTypeOK
PROPERTIES RowsMoveForward OnlyRetireEmpties ImplementsKeyRing
CHECK_DEADLOCK FALSE
