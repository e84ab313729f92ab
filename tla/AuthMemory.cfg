SPECIFICATION FairSpec
CONSTANTS
    None = None
    u1 = u1
    u2 = u2
    r1 = r1
    r2 = r2
    Users = {u1}
    Reqs = {r1, r2}
    TicksPerSecond = 3
    AccessLife <- LifeOf1
    RefreshLife <- LifeOf2
    BlacklistTtl <- TtlOf1
    RefreshTtl <- TtlOf2
    RemoteCache = FALSE
    MaxTime = 6
    MaxRestarts = 1
INVARIANT TypeOK
INVARIANT SignedOutTokenRejected
 
INVARIANT SignedOutUserHasNoRefreshToken
INVARIANT AcceptedTokenIsStillStored
PROPERTY EveryRequestEnds
