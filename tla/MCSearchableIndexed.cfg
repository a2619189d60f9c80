\* An error of one coroutine while the other one publishes.
CONSTANTS
    j1 = j1
    j2 = j2
    a1 = a1
    w1 = w1
    w2 = w2
    s1 = s1
    s2 = s2
    NoJob = NoJob
    NoOwner = NoOwner
    Jobs = {j1}
    Assets = {a1}
    AssetOf <- OneAsset
    Owners = {o1, o2, o3}
    Slots = {s1, s2}
    Workers = {w1}
    WorkerOf <- OneProcess
    Segments = {1}
    NumStages = 2
    LeaseSeconds = 1
    MaxLag = 0
    MaxDelay = 1
    AttemptBound = 2
    MaxAttempts = 1
    RetryBackoff <- Backoffs
    MaxFaults = 1
SPECIFICATION Spec
INVARIANTS
    SearchableJobsAreIndexed
