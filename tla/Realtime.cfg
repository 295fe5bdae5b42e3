SPECIFICATION FairSpec
CONSTANTS
    Tabs = {t1, t2}
    Instances = {i1, i2}
    Pool = 4
    MaxEvents = 3
    Null = Null
INVARIANTS RegistryAgrees
PROPERTIES LogoutCloses Settles
CHECK_DEADLOCK FALSE
