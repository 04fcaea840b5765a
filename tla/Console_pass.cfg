SPECIFICATION Spec
CONSTANTS
    Calls = {c1, c2}
    MaxTickets = 2
    MaxLog = 3
    MaxTicketFaults = 1
    Perms = {p1}
    Fetches = {f1}
    Grants = {h1, h2}
    AccessTTL = 2
    RefreshTTL = 3
    MaxNow = 6
    MaxChanges = 2
    Instances = {i1, i2}
    Capacity = 2
    Window = 3
    Slack = 2
    Skew = 1
    Delay = 1
    MaxTime = 6
    MaxRewind = 1
    MaxStoreFaults = 1
    Counters = {n1, n2}
    Minute = 2
    History = 2
    KeyTTL = 6
    ClockSkew = 1
    CallDelay = 1
    MaxClock = 9
    MaxRefusals = 2
    Unit = 4
    DefaultBuckets = 4
    FewestBuckets = 2
    LongBuckets = 7
    BucketCounts = {0, 1, 2, 3, 5}
    MaxSpan = 40
    MaxRows = 24
    Kinds = {"dashboard", "tickets", "incidents", "hosts", "agents", "ticket", "incident", "host"}
    Loads = {l1, l2}
    Posts = {q1, q2}
    MaxVersion = 3
    MaxPageFaults = 2
INVARIANTS
    TypeOK NumbersHaveNoGap TicketStory GoneWithinOneTTL WithinBudget WaitIsEnough
    HistoryIsWhole SeriesIsBounded
PROPERTIES CatchesUp IncidentNeverGoesBack
CHECK_DEADLOCK FALSE
