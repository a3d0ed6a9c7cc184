CONSTANTS
    Scans = {timer}
    None = None
    Dead = Dead
    Stale = Stale
    MaxAttempts = 1
    MaxPayments = 1
    MaxByHand = 1
    MaxCrashes = 1
    Retries = 1
    Provider = "paypal"
    LateRequests = FALSE
SPECIFICATION Spec
INVARIANT MoneyHasPayment
CHECK_DEADLOCK FALSE
