CONSTANTS
    m1 = m1
    m2 = m2
    NoMap = NoMap
    Maps <- TwoMaps
    BagCapacity <- SmallBags
    MaxPlayers = 2
    MaxLoot = 2
    RetirementTime = 2
    Deltas = {1}
    DbMayFail = TRUE
SPECIFICATION FairSpec
INVARIANTS
    LootInOnePlace
    VisibleIffOnFloor
    FloorBoundedByDogs
    RecordIsFinal
PROPERTIES
    StandingDogsGatherNothing
    LedgerSpec
    TickCompletes
    StandingDogRetires
