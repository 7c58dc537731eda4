SPECIFICATION FairSpec
CONSTANTS
    Systems = {s1}
    Workers = {w1, w2}
    None = None
    Digests = {d1}
    Uploads = {s1}
    Ons = {}
    Offs = {}
    Restarts = {}
    Runs = {}
    MaxAttempts = 2
    MaxSystems = 1
    Cancellable = {"provision", "teardown", d1}
    MaxFaults = 1
INVARIANTS TypeOK ReadyIsRunning
PROPERTIES LiveDomainsAreSpared FollowsSystemTable TornDownDomainsVanish OrphansAreHandled
CHECK_DEADLOCK FALSE
