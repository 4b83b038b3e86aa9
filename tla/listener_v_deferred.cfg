\* A ledger closes between two pages of one poll.
SPECIFICATION Spec
CONSTANTS
    Invoices = {i1}
    Kinds = {"Create", "List"}
    Depth = 1
    PageSize = 2
    InitTip = 1
    InitCheckpoint = 1
    StableTip = FALSE
    BackfillRanges <- NoBackfill
    PatchStatuses = {}
    ReorgDepth = 0
    MaxLedger = 4
    PerLedger = 2
    MaxReorgs = 0
    MaxFaults = 0
INVARIANTS NothingSkipped
