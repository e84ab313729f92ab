SPECIFICATION Spec
CONSTANTS
    None = None
    author1 = author1
    admin = admin
    r1 = r1
    r2 = r2
    r3 = r3
    t1 = t1
    t2 = t2
    c1 = c1
    Ids = {1}
    Reqs = {r1, r2, r3}
    Users = {author1, admin}
    Admins = {admin}
    Titles = {t1, t2}
    Contents = {c1}
    Bodies <- MCBodies
    Limits = {1}
    Pages = {1}
SYMMETRY Symmetry
INVARIANT DeletedIsGone
