CONSTANTS
    Threads = {t1, t2, t3, t4, t5}
    Capacity = 3
    Null = Null
SPECIFICATION FairSpec
INVARIANTS
    PoolIsSound
    NoLostWakeup
PROPERTIES
    ExclusiveSpec
    FreeConnectionIsTaken
