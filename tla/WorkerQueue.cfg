SPECIFICATION FairSpec
CONSTANTS
    Jobs = {j1, j2}
    Workers = {w1, w2}
    Attempts = 3
    MaxStops = 3
    Null = Null
INVARIANTS DeadLetterIsFinal FailuresAccountedFor SingleRun
PROPERTIES ScansGoOn ImplementsContract
