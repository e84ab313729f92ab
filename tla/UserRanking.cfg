SPECIFICATION Spec
CONSTANTS
    None = None
    u1 = u1
    u2 = u2
    u3 = u3
    r1 = r1
    r2 = r2
    n1 = n1
    n2 = n2
    Users = {u1, u2, u3}
    Reqs = {r1}
    Nicknames = {n1}
    Scores = {0, 1, 2}
    Ttl = 1
    PageLimits = {1, 2}
    MaxUpdates = 3
    MaxRestarts = 0
SYMMETRY Symmetry
INVARIANT RankingIsSorted
INVARIANT PagesMakeUpRanking
INVARIANT RanksArePositions
