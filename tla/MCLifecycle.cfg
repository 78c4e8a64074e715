SPECIFICATION FairSpec
CONSTANTS
    Requests = {r1, r2}
    Workers = {w1}
    MaxConns = 2
    maxRetries = 2
    None = None
INVARIANTS TypeOK PoolOutlivesJob JobLeavesNothing
PROPERTIES Exits TickServed WaitsEnd
