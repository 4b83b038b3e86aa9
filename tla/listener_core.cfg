\* One listener with the confirmation buffer, reorganisations inside it, one fault
\* and one reorganisation; ledgers close between polls.
SPECIFICATION FairSpec
CONSTANTS
    Invoices = {i1}
    Kinds = {"Create", "List", "Fund", "Ship", "Confirm", "Repay", "Default"}
    Depth = 1
    PageSize = 2
    InitTip = 1
    InitCheckpoint = 1
    StableTip = TRUE
    BackfillRanges <- NoBackfill
    PatchStatuses = {"Listed", "Repaid"}
    ReorgDepth = 1
    MaxLedger = 4
    PerLedger = 3
    MaxReorgs = 1
    MaxFaults = 1
INVARIANTS
    NothingSkipped
    InOrder
    OnlyReplaysIgnored
    LoggedWithDeliveries
    CheckpointBehindWindow
    IndexedIsFinal
    NeverHaltsInWindow
PROPERTIES
    FollowsLifecycle
    EventuallyIndexed
    CheckpointNeverBack
