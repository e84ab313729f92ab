SPECIFICATION FairSpec
CONSTANTS
    None = None
    u1 = u1
    u2 = u2
    u3 = u3
    r1 = r1
    r2 = r2
    n1 = n1
    n2 = n2
    Users = {u1}
    Reqs = {r1, r2}
    Nicknames = {n1, n2}
    Scores = {0, 1}
    Ttl = 2
    PageLimits = {}
    MaxUpdates = 3
    MaxRestarts = 1
INVARIANT TypeOK
INVARIANT UpdatesAreKept
INVARIANT RankingShowsScores
PROPERTY CacheConverges
