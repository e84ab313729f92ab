SPECIFICATION FairSpec
CONSTANTS
    e1 = e1
    e2 = e2
    i1 = i1
    i2 = i2
    i3 = i3
    r1 = r1
    r2 = r2
    None = None
    Emails = {e1, e2}
    Ids = {i1, i2, i3}
    Bodies <- AllBodies
    Reqs = {r1, r2}
    MaxFailures = 1
    MaxRestarts = 1
INVARIANT TypeOK
INVARIANT WelcomedAreRegistered
PROPERTY SignUpIsAtomic
PROPERTY EverySignUpEnds
