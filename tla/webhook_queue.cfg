\* Two workers, a batch whose claim runs out before its last attempt ends, crashes, a shutdown and unsaved outcomes.
SPECIFICATION FairSpec
CONSTANTS
    Workers = {w1, w2}
    Subs = {s1}
    Events = {e1, e2}
    BatchSize = 2
    Concurrency = 1
    AttemptTime = 2
    LockDuration = 3
    BackoffBase = 1
    MaxAttempts = 2
    MaxStops = 1
    MaxFaults = 1
INVARIANTS
    NoConcurrentAttempts
    AttemptsAsConfigured
PROPERTIES
    SettledIsFinal
    EverySettled
