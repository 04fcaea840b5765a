SPECIFICATION Spec
CONSTANTS
    Tokens = {t1}
    Machines = {m1}
    Admins = {p1}
    Slots = {w1}
    MaxPending = 1
    MaxIdFaults = 0
    g1 = g1
    g2 = g2
    Agents = {g1, g2}
    AgentTenant <- AgentTenants
    NameOf <- HostNames
    Rules <- AlertRules
    DefaultRule <- FallbackRule
    Workers = {w1}
    MaxSamples <- SampleCounts
    Values = {1}
    MaxSwitched = 0
    MaxMishaps = 0
    inc = inc
    ag = ag
    far = far
    n1 = n1
    n2 = n2
    c1 = c1
    c2 = c2
    Topics = {inc, ag, far}
    TenantOf <- ChannelTenants
    Producers = {p1}
    Clients = {c1, c2}
    Requests <- StreamRequests
    Conns = {w1}
    RetainedMax = 2
    Window = 2
    MaxEvents <- FrameCounts
    MaxDrops = 0
INVARIANT OwnRulesOnly
CHECK_DEADLOCK FALSE
