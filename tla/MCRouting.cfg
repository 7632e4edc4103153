SPECIFICATION FairSpec
CONSTANTS
    h1 = h1
    h2 = h2
    r1 = r1
    p1 = p1
    c1 = c1
    paired = paired
    rejected = rejected
    None = None
    Id = {h1, h2}
    Req = {r1}
    Result = {paired, rejected}
    Caller = {c1}
    Poller = {p1}
    Strays = {h2}
    OfflineAfter = 1
    ChallengeTTL = 1
    ResultTTL = 2
    RateWindow = 1
    ChallengesPerMinute = 2
    MaxLongPoll = 1
    MaxClock = 1
INVARIANTS
    RoutedToItsHost
PROPERTIES
    QueuedIsDrained
    AnswerIsFinal
    AnswerIsSeen
