SPECIFICATION Spec
CONSTANTS
    Attempts = {a1, a2, a3, a4}
    Keys = {k1}
    TTL = 1
    MaxTime = 4
    Null = Null
SYMMETRY MCSymmetry
INVARIANTS AnswersAgree NoSilentDuplicate
