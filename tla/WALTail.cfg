SPECIFICATION HistSpec
CONSTANTS
    Keys = {k1, k2}
    Cells = {v1, tomb}
    Absent = absent
    Torn = torn
    Environments <- PowerAndTorn
    MaxLog = 4
INVARIANT DamageConfinedToTail
