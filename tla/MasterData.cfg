SPECIFICATION Spec
CONSTANTS
    Ids = {1, 2, 3, 4}
    Seeded = {2, 3}
    Requests = {q1, q2, q3}
    Fields = {"name"}
    Limits = {1, 2}
    MaxTime = 1
    Null = Null
SYMMETRY Symmetry
INVARIANTS TypeOK TogglesAddUp PatchesStand QuietWalkIsTheTable MissedOnlyByTornPage
