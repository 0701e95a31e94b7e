SPECIFICATION Spec
CONSTANTS
    Reqs = {r1, r2, r3}
    Failures = TRUE
    None = None
    MaxTime = 3
    MaxVersion = 2
CHECK_DEADLOCK FALSE
SYMMETRY Symmetry
INVARIANTS TypeOK 
PROPERTY NoLostUpdate
