CONSTANTS
    Scans = {timer}
    None = None
    Dead = Dead
    Stale = Stale
    MaxAttempts = 1
    MaxPayments = 2
    MaxByHand = 1
    MaxCrashes = 1
    Retries = 1
    Provider = "paypal"
    LateRequests = TRUE
SPECIFICATION Spec
INVARIANTS ChargedOnce SucceededMeansTaken
PROPERTY ClosedStaysClosed
CHECK_DEADLOCK FALSE
