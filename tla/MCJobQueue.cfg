SPECIFICATION FairSpec
CONSTANTS
    j1 = j1
    j2 = j2
    w1 = w1
    w2 = w2
    Jobs = {j1, j2}
    Workers = {w1, w2}
    MaxAttempts = 2
    Unregistered = {j2}
    NoWorker = NoWorker
    NoJob = NoJob
INVARIANTS
    TypeOK
    FenceIdentifiesClaim
    NoStrandedJob
PROPERTIES
    OnlyTheClaimantFinalizes
    FollowsJobTable
    EveryJobEnds
