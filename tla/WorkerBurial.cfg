SPECIFICATION Spec
CONSTANTS
    Jobs = {j1, j2}
    Workers = {w1, w2}
    Attempts = 3
    MaxStops = 1
    Null = Null
SYMMETRY MCSymmetry
INVARIANTS ExhaustedIsBuried
