SPECIFICATION Spec
CONSTANTS
    h1 = h1
    r1 = r1
    r2 = r2
    p1 = p1
    c1 = c1
    paired = paired
    rejected = rejected
    None = None
    Id = {h1}
    Req = {r1, r2}
    Result = {paired, rejected}
    Caller = {c1}
    Poller = {p1}
    Strays = {}
    OfflineAfter = 2
    ChallengeTTL = 2
    ResultTTL = 2
    RateWindow = 1
    ChallengesPerMinute = 1
    MaxLongPoll = 1
    MaxClock = 2
SYMMETRY RequestSymmetry
INVARIANTS
    UnusedChallengeKept
    AcceptedSlotKept
    RateLimited
    RequestInOnePlace
    SeenIsTheAnswer
PROPERTIES
    ImplementsExchange
