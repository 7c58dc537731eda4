SPECIFICATION FairSpec
CONSTANTS
    a1 = a1
    a2 = a2
    b1 = b1
    p1 = p1
    p2 = p2
    h1 = h1
    h2 = h2
    k1 = k1
    Reconciler = Reconciler
    None = None
    Requests = {a1, a2}
    Projects = {p1}
    Hosts = {h1, h2}
    Devices = {}
    Keys = {}
    ProjectOf <- MCProjectOf
    KeyOf <- NoKeys
    Queues = {a1, a2}
    NeedsDevice = {}
    DevicesOf <- MCDevicesOf
    Serves <- AllServe
    Wants <- NamedOrAny
    Slots = 2
    Concurrent = 2
    Backlog = 2
    Funds = 1
    HostCap <- FirstFull
    Quota <- MCQuota
    PendingCap <- MCPendingCap
    Limit <- MCLimit
    Price = 1
    Costs = {0}
    MaxReserved = 1
PROPERTIES
    ReserveWithinBudget
    QueuedIsResolved
    LapsedIsReclaimed
