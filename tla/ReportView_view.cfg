\* Calls of generateReport that overtake each other, and lists of teams that come late.
CONSTANTS
    c1 = c1  c2 = c2   u1 = u1  t1 = t1  t2 = t2
    None = None
    NoTeam = NoTeam
    Call <- TwoCalls
    User <- OneUser
    Team <- TwoTeams
    Lists <- SomeLists
    MaxMounts = 2
    MaxRefreshes = 1
SPECIFICATION FairSpec
INVARIANTS TypeOK ViewWhole ViewSelected OneLiveCall SignedOut
PROPERTIES ViewSettles
