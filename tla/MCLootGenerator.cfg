CONSTANTS
    Maps = {m1, m2}
    Deltas <- TickLengths
    KeepNum = 3
    KeepDen = 4
    MaxPlayers = 4
    Longest = 8
SPECIFICATION FairSpec
INVARIANTS
    LootForEveryLooter
PROPERTIES
    ShortageIsMet
