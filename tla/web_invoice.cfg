\* Three invoices, pages of two or three rows, two to compare.
SPECIFICATION FairSpec
CONSTANTS
    a1 = a1
    a2 = a2
    Accounts = {a1, a2}
    Issuer <- MCIssuer
    Face <- MCFace
    Deposits = {2}
    Start <- MCStart
    Limits = {2, 3}
    Cap = 2
    MaxWrites = 2
    MaxTurns = 3
INVARIANTS
    ConsoleFitsView
    AllowanceCovers
PROPERTIES
    SelectionSurvives
    ListCatchesUp
CHECK_DEADLOCK FALSE
