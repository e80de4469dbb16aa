SPECIFICATION Spec
CONSTANTS
    KeyIds = {k1, k2, k3, k4, k5}
    Operators = {o1}
    MaxStamp = 5
SYMMETRY Perms
INVARIANT AtMostTwoActive
PROPERTIES RotationLeavesOneKey
CHECK_DEADLOCK FALSE
