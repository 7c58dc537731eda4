SPECIFICATION Spec
CONSTANTS
    a1 = a1
    a2 = a2
    b1 = b1
    p1 = p1
    p2 = p2
    h1 = h1
    h2 = h2
    k1 = k1
    Reconciler = Reconciler
    None = None
    Requests = {a1, a2, b1}
    Projects = {p1, p2}
    Hosts = {h1}
    Devices = {d1}
    Keys = {}
    ProjectOf <- MCProjectOf
    KeyOf <- NoKeys
    Queues = {a1, a2, b1}
    NeedsDevice = {a1, a2, b1}
    DevicesOf <- MCDevicesOf
    Serves <- AllServe
    Wants <- AnyHost
    Slots = 2
    Concurrent = 2
    Backlog = 1
    Funds = 2
    HostCap <- MCHostCap
    Quota <- MCQuota
    PendingCap <- MCPendingCap
    Limit <- MCLimit
    Price = 1
    Costs = {0}
    MaxReserved = 1
INVARIANTS
    NoSharedDevice
