CONSTANTS
    c1 = c1
    c2 = c2
    Conns = {c1, c2}
    Ticker = Ticker
    Leaving = Leaving
    Nobody = Nobody
    Threads = 2
    ApiResponses <- OneApiResponse
    FileResponses <- OneApiResponse
    ServerError <- AnyError
    MaxRequests = 2
    Loads <- OneEachOrTwo
SPECIFICATION FairSpec
INVARIANTS
    OneThingAtATime
    GameTouchedByOne
PROPERTIES
    ExchangeSpec
    RequestIsSettled
