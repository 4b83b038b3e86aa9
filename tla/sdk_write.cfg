\* Two calls of one account; two attempts, broadcasts and polls at most.
SPECIFICATION FairSpec
CONSTANTS
    Calls = {c1, c2}
    Accounts = {a1}
    Requests <- MCRequests
    MaxAttempts = 2
    MaxBroadcasts = 2
    MaxPolls = 2
    TimeBound = 2
INVARIANTS
    NeverSentTwice
    RivalsShareOneTransaction
PROPERTIES
    KeepsPromise
    EveryCallSettles
