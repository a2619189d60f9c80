\* Two versions of one asset: each has its job, one of them is current.
CONSTANTS
    j1 = j1
    j2 = j2
    a1 = a1
    NoJob = NoJob
    NoOwner = NoOwner
    Jobs = {j1, j2}
    Assets = {a1}
    AssetOf <- OneAsset
    Owners = {o1, o2}
    NumStages = 1
    LeaseSeconds = 1
    MaxLag = 0
    MaxDelay = 0
    AttemptBound = 2
SPECIFICATION Spec
SYMMETRY OwnerSymmetry
INVARIANTS
    AssetShowsOutcome
PROPERTIES
    SearchReadinessIsStable
