CONSTANTS
    m1 = m1
    m2 = m2
    NoMap = NoMap
    Maps <- TwoMaps
    BagCapacity <- LargeBags
    MapRank <- ConfigOrder
    MaxPlayers = 2
    MaxLoot = 1
    RetirementTime = 2
    Deltas = {1}
    DbMayFail = FALSE
    SavesInTick = FALSE
SPECIFICATION PersistentSpec
INVARIANTS
    LootInOnePlace
