SPECIFICATION Spec
CONSTANTS
    None = None
    u1 = u1
    u2 = u2
    r1 = r1
    r2 = r2
    Users = {u1}
    Reqs = {r1, r2}
    TicksPerSecond = 2
    AccessLife <- LifeOf1
    RefreshLife <- LifeOf2
    BlacklistTtl <- TtlOf1
    RefreshTtl <- TtlOf2
    RemoteCache = FALSE
    MaxTime = 4
    MaxRestarts = 0
INVARIANT FreshTokenNotBlacklisted
