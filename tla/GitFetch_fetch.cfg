\* One worker on either platform, one change on the server, any request failing.
CONSTANTS
    a = a  b = b  c = c  r1 = r1  r2 = r2  r3 = r3
    None = None
    Item <- ThreeItems
    Repo <- ThreeRepos
    Tracked <- TwoTracked
    PageSize = 1
    MaxChanges = 1
SPECIFICATION FetchSpec
INVARIANTS TypeOK OnlyAsked AllOrNothing NothingMissed CountedOnce
