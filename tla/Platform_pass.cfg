SPECIFICATION Spec
CONSTANTS
    Tokens = {t1, t2}
    Machines = {m1, m2}
    Admins = {p1, p2}
    Slots = {w1, w2}
    MaxPending = 1
    MaxIdFaults = 2
    g1 = g1
    g2 = g2
    Agents = {g1, g2}
    AgentTenant <- AgentTenants
    NameOf <- HostNames
    Rules <- AlertRules
    DefaultRule <- FallbackRule
    Workers = {w1, w2}
    MaxSamples <- SampleCounts
    Values = {0, 1}
    MaxSwitched = 1
    MaxMishaps = 2
    inc = inc
    ag = ag
    far = far
    n1 = n1
    n2 = n2
    c1 = c1
    c2 = c2
    Topics = {inc, ag, far}
    TenantOf <- ChannelTenants
    Producers = {p1, p2}
    Clients = {c1, c2}
    Requests <- StreamRequests
    Conns = {w1, w2}
    RetainedMax = 2
    Window = 2
    MaxEvents <- FrameCounts
    MaxDrops = 2
SYMMETRY Symmetry
INVARIANTS
    TypeOK EnrolledOnce PendingBounded ClaimsAreHeld AgentsAreHeld
    FiresEarned AlarmRaised LinkedOrNameTaken
    NothingHeardIsLost ShownOnceInWindow
PROPERTIES OutStaysOut
CHECK_DEADLOCK FALSE
