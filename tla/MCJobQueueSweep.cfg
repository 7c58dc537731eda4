SPECIFICATION Spec
CONSTANTS
    j1 = j1
    j2 = j2
    w1 = w1
    w2 = w2
    Jobs = {j1}
    Workers = {w1, w2}
    MaxAttempts = 2
    Unregistered = {}
    NoWorker = NoWorker
    NoJob = NoJob
PROPERTIES
    SweptOnlyWhenZombie
