SPECIFICATION FairSpec
CONSTANTS
    Keys = {k1, k2, k3}
    Vals = {v1}
    Tombstone = tomb
    Absent = absent
    Torn = torn
    Nothing = nothing
    Missing = missing
    Partial = partial
    LogThreshold = 1
    GrowthNum = 3
    GrowthDen = 2
    Environments <- NoFaults
    MaxVersion = 7
    MaxLog = 3
PROPERTY CompactTerminates
PROPERTY CompactLeavesNothingPending
INVARIANT DropsOnlyIntoLast
