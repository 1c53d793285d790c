SPECIFICATION Spec
CONSTANTS
    Keys = {k1}
    Vals = {v1, v2}
    Tombstone = tomb
    Absent = absent
    Torn = torn
    Nothing = nothing
    Missing = missing
    Partial = partial
    LogThreshold = 0
    GrowthNum = 3
    GrowthDen = 2
    Environments <- ErrorsOrOpenErrors
    MaxVersion = 4
    MaxLog = 2
INVARIANT RecoverableTables
INVARIANT BuildsUnnamedFile
PROPERTY ImplementsMap
SYMMETRY ValSymmetry
