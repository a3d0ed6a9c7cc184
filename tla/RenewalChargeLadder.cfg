CONSTANTS
    Scans = {timer}
    None = None
    Dead = Dead
    Stale = Stale
    MaxAttempts = 2
    MaxPayments = 2
    MaxByHand = 1
    MaxCrashes = 0
    Retries = 1
    Provider = "stripe"
    LateRequests = FALSE
SPECIFICATION Spec
INVARIANTS ActiveHasRetries DeclinedMeansUntaken
CHECK_DEADLOCK FALSE
