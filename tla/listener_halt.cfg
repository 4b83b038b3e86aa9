\* Reorganisations deeper than the window, skipped verifications, events the
\* dispatcher refuses, and a backfill beside the listener; pages of one event.
SPECIFICATION FairSpec
CONSTANTS
    Invoices = {i1}
    Kinds = {"Create", "Attest"}
    Depth = 1
    PageSize = 1
    InitTip = 2
    InitCheckpoint = 1
    StableTip = TRUE
    BackfillRanges <- Backfills
    PatchStatuses = {}
    ReorgDepth = 2
    MaxLedger = 4
    PerLedger = 2
    MaxReorgs = 1
    MaxFaults = 1
PROPERTIES
    RewriteHalts
    WedgeIsVisible
CHECK_DEADLOCK FALSE
