SPECIFICATION ScanSpec
CONSTANTS
    MinKey = 1
    MaxKey = 3
    NumLevels = 2
INVARIANT ScanTypeOK
INVARIANT MovesToNeighbour
 
INVARIANT ShowsNewest
INVARIANT LevelsAroundFrontier
PROPERTY ImplementsCursor
PROPERTY CallsReturn
