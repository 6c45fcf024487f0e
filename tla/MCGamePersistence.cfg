CONSTANTS
    m1 = m1
    m2 = m2
    NoMap = NoMap
    Maps <- OneMap
    BagCapacity <- LargeBags
    MapRank <- ConfigOrder
    MaxPlayers = 2
    MaxLoot = 1
    RetirementTime = 1
    Deltas = {1}
    DbMayFail = FALSE
    SavesInTick = TRUE
SPECIFICATION PersistentSpec
INVARIANTS
    TokensFindTheirDogs
    RetiredPlayersRecorded
PROPERTIES
    ShutdownKeepsGame
