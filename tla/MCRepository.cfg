\* One job, stale clocks, two claims that can overlap; beside it an upload session with
\* two requests at a time and two mishaps.
CONSTANTS
    j1 = j1
    j2 = j2
    a1 = a1
    NoJob = NoJob
    NoOwner = NoOwner
    Jobs = {j1}
    Assets = {a1}
    AssetOf <- OneAsset
    Owners = {o1, o2}
    NumStages = 2
    LeaseSeconds = 2
    MaxLag = 1
    MaxDelay = 1
    AttemptBound = 2
    c1 = c1
    c2 = c2
    x1 = x1
    y1 = y1
    x2 = x2
    Clients = {c1, c2}
    Contents = {x1, y1, x2}
    SenderOf <- SessionSenders
    TotalOf <- SessionTotals
    MaxStored = 2
    Calls = {k1, k2}
    MaxMishaps = 2
    Nobody = Nobody
    NoFile = NoFile
SPECIFICATION PartsSpec
INVARIANTS
    TypeOK
    RunningRowsAreReclaimable
    OwnerNamesOneClaim
    TablesAgree
    SessionsAreSound
PROPERTIES
    
    ImplementsLifecycle
    UploadIsQueued
