\* Buckets are evicted while requests hold them; the window is longer than two cleanup intervals.
SPECIFICATION Spec
CONSTANTS
    Clients = {c1, c2}
    Requests = {r1, r2}
    Limit = 2
    Window = 4
    CleanupInterval = 1
    MaxTime = 5
    MaxRequests = 4
INVARIANTS
    LimitIsExact
CHECK_DEADLOCK FALSE
