SPECIFICATION Spec
CONSTANTS
    ByteMax = 5
    IntBytes = 2
    AtSign = 3
    MaxMaybe = 0
    Faults = {}
    NameBytes <- TableNames
    Words <- MCWords
    Numbers <- QueryNumbers
    Strings <- MCStrings
    Canonical <- QueryCanonical
    Texts <- QueryTexts
    KeyTuples <- QueryKeys
    Parsed <- ParseStmt
    Planned <- KeyRange
    Evaluated <- EvalExpr
    ColumnsKnown <- CheckExprCols
INVARIANTS
    ParsesBack
    AnswersMatch
    KeyOrder
