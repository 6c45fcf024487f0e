CONSTANTS
    Blocks = 3
    MaxSaves = 5
SPECIFICATION Spec
INVARIANTS
    LastSaveSurvives
    EndedSaveIsWhole
