CONSTANTS
    Roads <- Town
    Spawns <- Anywhere
    DogSpeed = 30
    Steps <- ShortSteps
    Loot <- TownLoot
    Offices <- TownOffices
    Others <- Neighbour
    Tolerance = 4
SPECIFICATION Spec
INVARIANTS
    AtRoads
    RoadOrderIsIrrelevant
    RunsOrStops
    TicksAddUp
    GathersWhatIsNear
    GatheringAddsUp
    NeighboursInOrder
PROPERTIES
    StopsOnlyAtDeadEnd
