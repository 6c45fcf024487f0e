CONSTANTS
    Main = Main
    Workers = {w1, w2}
    Nobody = Nobody
    CommandLines <- AnyCommandLine
    Period = 1
    SavesMayFail = FALSE
    MaxChanges = 4
    MaxUnsaved = 4
SPECIFICATION FairSpec
PROPERTIES
    SavesPeriodically
