SPECIFICATION Spec
CONSTANTS
    a1 = a1
    a2 = a2
    b1 = b1
    p1 = p1
    p2 = p2
    h1 = h1
    h2 = h2
    k1 = k1
    Reconciler = Reconciler
    None = None
    Requests = {a1, a2, b1}
    Projects = {p1, p2}
    Hosts = {h1}
    Devices = {}
    Keys = {}
    ProjectOf <- MCProjectOf
    KeyOf <- NoKeys
    Queues = {a1, a2, b1}
    NeedsDevice = {}
    DevicesOf <- MCDevicesOf
    Serves <- AllServe
    Wants <- AnyHost
    Slots = 0
    Concurrent = 2
    Backlog = 2
    Funds = 2
    HostCap <- MCHostCap
    Quota <- MCQuota
    PendingCap <- MCPendingCap
    Limit <- MCLimit
    Price = 1
    Costs = {0, 2}
    MaxReserved = 1
INVARIANTS
    NeverInvert
