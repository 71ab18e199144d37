\* One handler after the other: a leader whose only role is TEAM_LEADER.
CONSTANTS
    u1 = u1  u2 = u2  t1 = t1  t2 = t2  p1 = p1  p2 = p2
    lead = lead  member = member  admin = admin
    None = None
    User <- TwoUsers
    Team <- OneTeam
    Role <- Roles
    TeamLeader = lead
    Offered <- Leading
    Proc <- OneHandler
    MaxFaults = 0
    HangUps = FALSE
SPECIFICATION Spec
INVARIANTS RoleRemoved
