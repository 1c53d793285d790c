SPECIFICATION Spec
CONSTANTS
    ByteMax = 5
    IntBytes = 1
    AtSign = 3
    MaxMaybe = 1
    Faults = {"crash", "readerr", "writeerr"}
    NameBytes <- TableNames
    Words <- MCWords
    Numbers <- EngineNumbers
    Strings <- MCStrings
    Canonical <- EngineTexts
    Texts <- EngineTexts
    KeyTuples = {}
    Parsed <- ParseStmt
    Planned <- KeyRange
    Evaluated <- EvalExpr
    ColumnsKnown <- CheckExprCols
INVARIANTS
    EngineTypeOK
    CacheMatchesCatalog
    StatementEffect
    RowsReadable
