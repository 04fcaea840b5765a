SPECIFICATION SpecStream
CONSTANTS
    inc = inc
    far = far
    n1 = n1
    n2 = n2
    Topics = {inc, far}
    TenantOf <- ChannelTenants
    Producers = {p1}
    Clients = {c1, c2}
    Requests <- StreamRequests
    Conns = {k1, k2}
    RetainedMax = 1
    Window = 1
    MaxEvents <- FrameCounts
    MaxDrops = 0
INVARIANTS OwnChannelsOnly
CHECK_DEADLOCK FALSE
