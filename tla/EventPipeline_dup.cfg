SPECIFICATION Spec
CONSTANTS
    e1 = e1
    e2 = e2
    p = p
    Events = {e1, e2}
    NoEvent = NoEvent
    Prints = {p}
    NoPrint = NoPrint
    PrintOf <- SamePrint
    Operators = {}
    MaxRequests = 0
    Slots = {c1, c2}
    Channels = {ch}
    MaxTries = 2
    MaxFaults = 0
INVARIANT OneOpenPerFingerprint
