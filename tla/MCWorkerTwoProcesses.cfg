\* Two processes with one coroutine each, clocks that lag behind.
CONSTANTS
    j1 = j1
    j2 = j2
    a1 = a1
    w1 = w1
    w2 = w2
    s1 = s1
    s2 = s2
    NoJob = NoJob
    NoOwner = NoOwner
    Jobs = {j1}
    Assets = {a1}
    AssetOf <- OneAsset
    Owners = {o1, o2, o3}
    Slots = {s1, s2}
    Workers = {w1, w2}
    WorkerOf <- TwoProcesses
    Segments = {1}
    NumStages = 3
    LeaseSeconds = 2
    MaxLag = 1
    MaxDelay = 1
    AttemptBound = 3
    MaxAttempts = 2
    RetryBackoff <- Backoffs
    MaxFaults = 2
SPECIFICATION Spec
SYMMETRY OwnerSymmetry
PROPERTIES
    PublicationIsSafe
    UsesRepository
