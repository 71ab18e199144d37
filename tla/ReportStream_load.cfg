\* Who may be reported to whom: every table content and query; one platform has no factory.
CONSTANTS
    u1 = u1  u2 = u2  r1 = r1  r2 = r2
    github = github  other = other
    t1 = t1  t2 = t2
    NoToken = NoToken
    None = None
    User <- TwoUsers
    Repo <- TwoRepos
    Platform <- GithubAndOther
    Registered <- OnlyGithub
    PlatformOf <- Split
    Token <- OneToken
    Owned = {r1}
    ChanCap = 2
    DbFaults = TRUE
SPECIFICATION LoadSpec
INVARIANTS TypeOK StreamShape
PROPERTIES OwnReportOnly KeepsPromise
