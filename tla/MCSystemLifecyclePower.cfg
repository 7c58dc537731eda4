SPECIFICATION Spec
CONSTANTS
    Systems = {s1}
    Workers = {w1, w2}
    None = None
    Digests = {}
    Uploads = {}
    Ons = {}
    Offs = {off}
    Restarts = {}
    Runs = {r1}
    MaxAttempts = 2
    MaxSystems = 1
    Cancellable = {}
    MaxFaults = 1
INVARIANTS ReadyIsRunning
PROPERTIES LiveDomainsAreSpared
SYMMETRY WorkerSymmetry
CHECK_DEADLOCK FALSE
