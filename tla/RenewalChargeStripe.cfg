CONSTANTS
    Scans = {timer, run_now}
    None = None
    Dead = Dead
    Stale = Stale
    MaxAttempts = 1
    MaxPayments = 2
    MaxByHand = 1
    MaxCrashes = 1
    Retries = 1
    Provider = "stripe"
    LateRequests = FALSE
SPECIFICATION FairSpec
INVARIANTS OneChargePerAttempt MoneyHasPayment
PROPERTY TakenIsRecorded
CHECK_DEADLOCK FALSE
