\* Pages of two transactions and of two invoices.
SPECIFICATION Spec
CONSTANTS
    a1 = a1
    a2 = a2
    Accounts = {a1, a2}
    Ours <- MCOurs
    MaxTx = 4
    TxLimit = 2
    MaxTurns = 2
    MaxInvoices = 5
    PageSize = 2
    MaxPages = 3
INVARIANTS
    PageIsWhole
    TotalsAreComplete
