\* Two requests at a time, two platforms.  The bounds stop the system.
CONSTANTS
    u1 = u1  boss = boss  t1 = t1  t2 = t2  p1 = p1  p2 = p2
    hub1 = hub1  hub2 = hub2  lab1 = lab1
    kHub1 = kHub1  kHub2 = kHub2  kLab = kLab
    NoToken = NoToken  NoRow = NoRow  None = None
    User <- TwoUsers
    Admin <- OneAdmin
    Team <- TwoTeams
    Repo <- SomeRepos
    Token <- SomeTokens
    Platform <- OnPlatform
    Proc <- TwoRequests
    MaxRequests = 3
    MaxOthers = 1
CHECK_DEADLOCK FALSE
SPECIFICATION Spec
SYMMETRY Symmetric
INVARIANTS TypeOK WritesEntitled AddedStands
PROPERTIES KeepsBook
