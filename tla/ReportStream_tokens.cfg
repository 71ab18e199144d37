\* Discovery meets a repository that has a token.
CONSTANTS
    u1 = u1  u2 = u2  r1 = r1  r2 = r2
    github = github  other = other
    t1 = t1  t2 = t2
    NoToken = NoToken
    None = None
    User <- TwoUsers
    Repo <- TwoRepos
    Platform <- OnlyGithub
    Registered <- OnlyGithub
    PlatformOf <- SameHost
    Token <- TwoTokens
    Owned = {r1}
    ChanCap = 1
    DbFaults = FALSE
SPECIFICATION TeamSpec
PROPERTIES TokensKept
