CONSTANTS
    Amount = 3
    Refunds = {r1, r2}
    ProvIds = {i1, i2, i3}
    None = None
    Manual = FALSE
    Procs = {1, 2}
    StaleAfter = 1
    Retention = 1
    MaxRows = 2
    MaxClock = 3
SPECIFICATION OfficeSpec
INVARIANTS OwnWithinPayment SucceededMeansGiven RunsAccounted
PROPERTY GivenIsFiled
CHECK_DEADLOCK FALSE
