SPECIFICATION FairSpec
CONSTANTS
    Times = {0, 1, 2, 3}
    Ids = {1, 2, 3, 4}
    Limits <- MCLimits
    defaultLimit = 2
    maxListLimit = 2
    ZeroTime = 0
    LastYear9999 = 2
    None = None
INVARIANTS TypeOK Complete
PROPERTIES OnePass NullMeansLast WalkEnds
