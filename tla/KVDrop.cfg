SPECIFICATION Spec
CONSTANTS
    Keys = {k1}
    Vals = {v1}
    Tombstone = tomb
    Absent = absent
    Torn = torn
    Nothing = nothing
    Missing = missing
    Partial = partial
    LogThreshold = 0
    GrowthNum = 3
    GrowthDen = 2
    Environments <- OpenErrors
    MaxVersion = 9
    MaxLog = 2
INVARIANT DropsOnlyIntoLast
