SPECIFICATION FairSpec
CONSTANTS
    Systems = {s1}
    Workers = {w1}
    None = None
    Digests = {}
    Uploads = {}
    Ons = {on}
    Offs = {}
    Restarts = {reset}
    Runs = {r1}
    MaxAttempts = 2
    MaxSystems = 1
    Cancellable = {}
    MaxFaults = 1
PROPERTIES TornDownDomainsVanish
CHECK_DEADLOCK FALSE
