SPECIFICATION FairSpec
CONSTANTS
    Systems = {s1}
    Workers = {w1}
    None = None
    Digests = {d1}
    Uploads = {}
    Ons = {}
    Offs = {}
    Restarts = {}
    Runs = {}
    MaxAttempts = 2
    MaxSystems = 1
    Cancellable = {}
    MaxFaults = 0
PROPERTY OrphansAreTornDown
CHECK_DEADLOCK FALSE
