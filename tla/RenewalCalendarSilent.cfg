SPECIFICATION CalendarSpec
CONSTANTS
    LastDay = 5
    TermDays = 3
    NoticeDays = 1
    CatchUpDays = 1
    Retries = 1
    MaxTerms = 3
    MaxActs = 4
    Forever = 99
INVARIANT NoSilentLapse
CHECK_DEADLOCK FALSE
