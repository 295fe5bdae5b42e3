SPECIFICATION FairSpec
CONSTANTS
    Readers = {r1, r2}
    Writers = {w1, w2}
    MaxVersion = 2
    RedisMayFail = TRUE
    Null = Null
PROPERTIES SetsAreOrdered LockIsOwned Converges
