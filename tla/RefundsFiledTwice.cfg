CONSTANTS
    Amount = 2
    Refunds = {r1, r2}
    ProvIds = {i1, i2}
    None = None
    Manual = FALSE
SYMMETRY RefundSymmetry
SPECIFICATION Spec
INVARIANT FiledOnce
CHECK_DEADLOCK FALSE
