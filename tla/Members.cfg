SPECIFICATION MembersSpec
CONSTANTS
    Pays = {1, 2}
    Sellers = {"stripe", "paypal", "mock"}
    References = {"a"}
    LastDay = 3
    TermDays = 2
    NoticeDays = 1
    CatchUpDays = 1
    Retries = 1
    MaxTerms = 3
    MaxActs = 4
    Forever = 99
    Payments = {1, 2}
    Givers = {1, 2}
    MonthLength = 1
    YearLength = 1
    LastDate = 1
    MaxRefunds = 1
    LookupLimit = 2
    CacheTicks = 1
    LastTick = 1
    MaxEdits = 1
    Dumpers = {1, 2}
    Hands = {99}
    Instants = 2
    Fires = {0}
    PruneDays = 1
    GraceTicks = 1
    StaleTicks = 1
    LastInstant = 3
    Bills = {1}
    Others = {11}
    Workers = {1, 2}
    MaxChores = 1
    Holders = {1}
    Places = {1, 2}
    Letters = {1, 2}
    Readers = {1}
    MaxAge = 0
    LastAge = 1
    MaxMoves = 1
INVARIANTS MoneyIsAnnounced OneRenewalPerTerm ScreensAgree StandsOnItsOrder BounceIsOurs
           PassMeansTrusted
PROPERTY ImplementsPurchase
CHECK_DEADLOCK FALSE
