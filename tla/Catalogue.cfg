SPECIFICATION Spec
CONSTANTS
    None = None
    AllCategories = AllCategories
    Reader = reader
    reader = reader
    r1 = r1
    r2 = r2
    n1 = n1
    Ids = {1, 2, 3, 4}
    Categories = {1, 2}
    Reqs = {r1, r2, reader}
    Names = {n1}
    CategoryBodies <- MCCategoryBodies
    ProductBodies <- MCProductBodies
    Prices = {0, 1, 2}
    Queries <- MCQueries
    Limits = {1, 2}
    Pages = {1, 2}
SYMMETRY Symmetry
CONSTRAINT DisturbsOneRowBeforeReads
INVARIANT TypeOK
INVARIANT AnsweredIsShown
INVARIANT ListingPagesAgree
INVARIANT WalkMissesNothing
INVARIANT WalkRepeatsNothing
PROPERTY DeletedStaysDeleted
