SPECIFICATION Spec
CONSTANTS
    Requests = {r1, r2, r3}
    Users = {u1, u2}
    Files <- MCFiles
    FileLimit = 2
    MaxSizes = {1, 2}
    MaxTime = 1
    Null = Null
SYMMETRY MCSymmetry
INVARIANTS RowsBacked FilesAccountedFor WholeBelowLimit AnswerIsTrue ReceiptsOnce
