SPECIFICATION Spec
CONSTANTS
    Tickets = {t1}
    Requests = {r1, r2, r3}
    SeedStatuses = {"TRIAGE", "IN_PROGRESS", "RESOLVED"}
    ClientOps <- MCAllOps
    UpdateInputs <- MCUpdates
    StatusInputs <- MCMoves
    Lookahead = 0
    TicksPerSecond = 1
    MaxTime = 0
    Null = Null
SYMMETRY MCSymmetry
INVARIANTS SnapshotCoherent StatusHistory AuditTrail NoLostUpdate
PROPERTIES NotModifiedIsCurrent ConflictIsReal EntryRequirements ImplementsContract
