CONSTANTS
    m1 = m1
    m2 = m2
    t1 = t1
    t2 = t2
    t3 = t3
    NoMap = NoMap
    NoToken = NoToken
    Unreadable = Unreadable
    Maps <- TwoMaps
    Tokens <- ThreeTokens
    Moves <- TwoMoves
    MaxPlayers = 3
    TickPeriods = {0, 50}
SYMMETRY MapsAndTokensAreAlike
SPECIFICATION Spec
INVARIANTS
    TokenOfEachPlayer
    AuthorizedIsPlaying
PROPERTIES
    TurnsOnlyOwnDog
    RefusedChangesNothing
