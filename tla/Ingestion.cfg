CONSTANTS
    Workers = {w1}
    Watched = {"portal", "wordpress", "opencanary", "cowrie2"}
    FetchLimit = 1
    PollInterval = 1
    WatchInterval = 2
    MaxCowrie = 1
    MaxLines = 2
    MaxVisits = 2
    MaxKinds = 1
    MaxFaults = 1
SPECIFICATION Spec
INVARIANTS
    EachLifeStoresInOrder
    PassedIsAccountedFor
    SinceDropsOnlyTies
    LoginsAreMapped
PROPERTIES
    EveryLineIsSettled
