SPECIFICATION Spec
CONSTANTS
    People = {1, 2}
    here = here
    there = there
    AddressBooks <- AddressBook
    Workers = {timer, runNow}
    RunNow = runNow
    MaxRound = 1
    Retries = 1
    MaxIncidents = 2
CHECK_DEADLOCK FALSE
INVARIANTS NoSecondCopy SettledEmail ConfirmedBatch OneLateCopy
PROPERTIES WhatWentStaysGone SendEnds
