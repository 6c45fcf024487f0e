CONSTANTS
    Main = Main
    Workers = {w1, w2}
    Nobody = Nobody
    CommandLines <- AnyCommandLine
    Period = 1
    SavesMayFail = TRUE
    MaxChanges = 4
    MaxUnsaved = 4
SPECIFICATION FairSpec
INVARIANTS
    DiskIsWhole
    SuccessKeepsGame
PROPERTIES
    FileOnlyAdvances
    StopsWhenTold
