SPECIFICATION FairWorker
CONSTANTS
    e1 = e1
    e2 = e2
    e3 = e3
    p = p
    q = q
    Events = {e1, e2, e3}
    NoEvent = NoEvent
    Prints = {p, q}
    NoPrint = NoPrint
    PrintOf <- EachPrint
    Operators = {}
    MaxRequests = 0
    Slots = {c1, c2}
    Channels = {ch}
    MaxTries = 2
    MaxFaults = 1
    Rows = {1, 2}
    Ticks = {t1, t2}
    BatchSize = 1
    MaxAttempts = 2
    MaxCrashes = 1
INVARIANTS EventsBelong OutboxOK OutcomeEarned AttemptsBounded
PROPERTIES EventsAreHandled SettledStaysSettled RowsSettle
CHECK_DEADLOCK FALSE
