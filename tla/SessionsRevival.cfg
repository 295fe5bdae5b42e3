SPECIFICATION Spec
CONSTANTS
    Requests = {r1, r2, r3}
    Max = 2
    Null = Null
SYMMETRY MCSymmetry
PROPERTIES RevokedHasNoHeir
