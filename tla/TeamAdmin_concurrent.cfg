\* Two handlers at a time, one statement failing.
CONSTANTS
    u1 = u1  u2 = u2  t1 = t1  t2 = t2  p1 = p1  p2 = p2
    lead = lead  member = member  admin = admin
    None = None
    User <- TwoUsers
    Team <- OneTeam
    Role <- Roles
    TeamLeader = lead
    Offered <- Various
    Proc <- TwoHandlers
    MaxFaults = 1
    HangUps = FALSE
SPECIFICATION Spec
INVARIANTS DeletedStaysDeleted RolesAsGranted UsersHaveAccounts
SYMMETRY Symmetric
