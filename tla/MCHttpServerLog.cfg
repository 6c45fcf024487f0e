CONSTANTS
    c1 = c1
    c2 = c2
    Conns = {c1, c2}
    Ticker = Ticker
    Leaving = Leaving
    Nobody = Nobody
    Threads = 2
    ApiResponses <- TwoApiResponses
    FileResponses <- TwoFileResponses
    ServerError <- Error500
    MaxRequests = 1
    Loads <- OneEach
SPECIFICATION Spec
INVARIANTS
    LogTruthful
