\* Every PDF of at most two pages, two images and one table on each.
SPECIFICATION Spec
CONSTANTS
    MaxPages = 2
    MaxImages = 2
    MaxTables = 1
    MaxChunks = 2
    None = None
INVARIANTS
    TypeOK
    ReadyCoversThePdf
    ImagePathsResolve
    PointsAreOfThePdf
