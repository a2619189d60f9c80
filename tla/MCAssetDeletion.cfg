\* Two requests, two coroutines and one fault; deletion after the upload.
CONSTANTS
    j1 = j1
    a1 = a1
    w1 = w1
    NoJob = NoJob
    NoOwner = NoOwner
    NoCaller = NoCaller
    Jobs = {j1}
    Assets = {a1}
    AssetOf <- OneAsset
    Owners = {o1, o2}
    Slots = {s1, s2}
    Workers = {w1}
    WorkerOf <- OneProcess
    Callers = {c1, c2}
    Segments = {1}
    NumStages = 2
    LeaseSeconds = 1
    MaxLag = 0
    MaxDelay = 1
    AttemptBound = 1
    MaxAttempts = 1
    RetryBackoff <- Backoffs
    MaxFaults = 1
    ClaimSeconds = 1
    EarlyDeletes = FALSE
SPECIFICATION FairDeletionSpec
INVARIANTS
    DeletionIsSound
PROPERTIES
    LiveClaimKept
    DeletionsEnd
