SPECIFICATION BackupsSpec
CONSTANTS
    Dumpers = {1}
    Hands = {}
    Instants = 2
    Fires = {0}
    PruneDays = 1
    GraceTicks = 1
    StaleTicks = 1
    LastInstant = 2
INVARIANT NoPartialDump
CHECK_DEADLOCK FALSE
