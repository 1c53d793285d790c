SPECIFICATION Spec
CONSTANTS
    Keys = {k1, k2}
    Vals = {v1}
    Tombstone = tomb
    Absent = absent
    Torn = torn
    Nothing = nothing
    Missing = missing
    Partial = partial
    LogThreshold = 0
    GrowthNum = 3
    GrowthDen = 2
    Environments <- PowerAndTorn
    MaxVersion = 5
    MaxLog = 2
INVARIANT TypeOK
INVARIANT RecoverableTables
INVARIANT BuildsUnnamedFile
PROPERTY ImplementsMap
SYMMETRY KeySymmetry
