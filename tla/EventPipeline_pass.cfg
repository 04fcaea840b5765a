SPECIFICATION Spec
CONSTANTS
    e1 = e1
    e2 = e2
    p = p
    Events = {e1, e2}
    NoEvent = NoEvent
    Prints = {p}
    NoPrint = NoPrint
    PrintOf <- SamePrint
    Operators = {o1, o2}
    MaxRequests = 2
    Slots = {c1, c2}
    Channels = {ch}
    MaxTries = 2
    MaxFaults = 1
SYMMETRY Interchangeable
INVARIANTS TypeOK DuplicatesAreSkipped TimelineExplainsStatus CompletedIsHandledWhenClean
