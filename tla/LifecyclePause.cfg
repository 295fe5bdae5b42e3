SPECIFICATION Spec
CONSTANTS
    Tickets = {t1}
    Requests = {r1, r2, r3, r4}
    SeedStatuses = {"IN_PROGRESS"}
    ClientOps = {"status"}
    UpdateInputs <- MCNoUpdates
    StatusInputs <- MCPauseMoves
    Lookahead = 0
    TicksPerSecond = 2
    MaxTime = 4
    Null = Null
SYMMETRY MCSymmetry
INVARIANTS PauseAccounting
