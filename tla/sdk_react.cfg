\* One query hook whose inputs change under it and one mutation hook.
SPECIFICATION FairSpec
CONSTANTS
    Varying = {"spender", "signer"}
    MaxRuns = 3
    MaxMutations = 2
INVARIANTS
    SettledIsForInputs
    PendingWhileRunning
PROPERTIES
    NoLateWrite
    LoadingEnds
CHECK_DEADLOCK FALSE
