SPECIFICATION MovingSpec
CONSTANTS
    TickSecs = 5
    OfflineAfter = 18
    HeartbeatEvery = 6
    PollWait = 5
    HttpTimeout = 9
    PairMax = 30
    ErrorPause = 2
    RetryPause = 1
    MaxBatch = 2
    MaxLost = 1
    None = None
    home = home
    office = office
    tailnet = tailnet
    link = link
    seenHome = seenHome
    seenOffice = seenOffice
    Route <- Moving
    Extra <- Named
    Limit = 3
    Viewer <- Clients
INVARIANTS
    LostCallIsHarmless
    ReachableIsFound
PROPERTIES
    ComesBack
    AddressesCatchUp
