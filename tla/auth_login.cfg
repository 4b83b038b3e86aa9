\* Two requests race for the same challenges; the indexer restarts once.
SPECIFICATION Spec
CONSTANTS
    Clients = {c1, c2}
    Nonces = {n1, n2}
    Requests = {r1, r2}
    TTL = 3
    Second = 2
    MaxTime = 5
    MaxRestarts = 1
INVARIANTS
    OneTokenPerChallenge
    RedeemedByOwnerInTime
    ValidChallengeKept
CHECK_DEADLOCK FALSE
