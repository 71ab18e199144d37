\* One handler after the other; browsers hang up.
CONSTANTS
    u1 = u1  u2 = u2  t1 = t1  t2 = t2  p1 = p1  p2 = p2
    lead = lead  member = member  admin = admin
    None = None
    User <- TwoUsers
    Team <- TwoTeams
    Role <- Roles
    TeamLeader = lead
    Offered <- Askable
    Proc <- OneHandler
    MaxFaults = 0
    HangUps = TRUE
SPECIFICATION Spec
INVARIANTS TypeOK TeamsLed RoleDerived
PROPERTIES KeepsPolicy
