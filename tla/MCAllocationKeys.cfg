SPECIFICATION Spec
CONSTANTS
    a1 = a1
    a2 = a2
    b1 = b1
    p1 = p1
    p2 = p2
    h1 = h1
    h2 = h2
    k1 = k1
    Reconciler = Reconciler
    None = None
    Requests = {a1, b1}
    Projects = {p1, p2}
    Hosts = {h1}
    Devices = {}
    Keys = {k1}
    ProjectOf <- MCProjectOf
    KeyOf <- SameKey
    Queues = {a1, b1}
    NeedsDevice = {}
    DevicesOf <- MCDevicesOf
    Serves <- AllServe
    Wants <- AnyHost
    Slots = 1
    Concurrent = 1
    Backlog = 1
    Funds = 2
    HostCap <- MCHostCap
    Quota <- MCQuota
    PendingCap <- MCPendingCap
    Limit <- MCLimit
    Price = 1
    Costs = {0}
    MaxReserved = 2
INVARIANTS
    HostCapHolds
PROPERTIES
    OneRowPerKey
    OnlyLapsedLeasesExpire
