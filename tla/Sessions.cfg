SPECIFICATION Spec
CONSTANTS
    Requests = {r1, r2, r3, r4}
    Max = 2
    Null = Null
SYMMETRY MCSymmetry
INVARIANTS OneSessionPerLine
PROPERTIES EvictsOldest
