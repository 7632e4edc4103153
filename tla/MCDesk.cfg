SPECIFICATION FairSpec
CONSTANTS
    p1 = p1
    p2 = p2
    None = None
    Process = {p1, p2}
    MaxToken = 1
    MaxPassword = 2
    MaxStray = 0
    MaxId = 2
INVARIANTS
    OneAgent
    WindowAgentIsCurrent
    SaltIsTheAgents
PROPERTIES
    PasswordNotUndone
    HandoverIsTaken
