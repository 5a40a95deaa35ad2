SPECIFICATION RemediationSpec
CONSTANTS
    password = password
    x11 = x11
    r1 = r1
    r2 = r2
    r3 = r3
    Directive = {password, x11}
    Run = {r1, r2, r3}
SYMMETRY Symmetry
CHECK_DEADLOCK FALSE
INVARIANTS
    AppliedFixIsReported
