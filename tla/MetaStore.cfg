SPECIFICATION MetaSpec
CONSTANTS
    Tables <- ThreeTables
    NoTables <- MCNoTables
    Environments <- PowerOrErrors
    MaxVersion = 3
INVARIANT MetaTypeOK
INVARIANT LiveSurvivesPowerLoss
PROPERTY ImplementsRegister
