SPECIFICATION Spec
CONSTANTS
    Start = {c1, c2, c3, c4}
    Old = Old
    None = None
SYMMETRY Symmetry
INVARIANTS
    OneIdForEver
PROPERTIES
    IdentityKept
CHECK_DEADLOCK FALSE
