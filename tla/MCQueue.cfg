SPECIFICATION FairSpec
CONSTANTS
    FeedIds = {f1, f2, f3}
    Workers = {w1, w2}
    refreshDueLimit = 2
    refreshNextInterval = 2
    defaultFetchInterval = 3
    Stuck = {f1}
    None = None
INVARIANTS TypeOK OneGoroutinePerFeed
PROPERTIES NeverOvertaken DueRefreshed
