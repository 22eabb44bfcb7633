SPECIFICATION Spec
CONSTANTS
    Replicas = {"r1", "r2"}
    Addresses = {1, 2, 3}
    Keys <- MCKeys
    Depth = 2
    Hash <- MCHash
    MaxGeneration = 4
    MaxBulk = 3
INVARIANTS
    MembersAgree
    IndexMatchesOwner
PROPERTY
    GenerationCountsChanges
CHECK_DEADLOCK FALSE
