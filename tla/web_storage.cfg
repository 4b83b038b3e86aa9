\* Two tabs, two accounts, and a feed of one event.
SPECIFICATION Spec
CONSTANTS
    a1 = a1
    a2 = a2
    Accounts = {a1, a2}
    None = None
    Tabs = {t1, t2}
    Concerns <- MCConcerns
    FeedSize = 1
    MaxPresets = 1
SYMMETRY AnyTab
INVARIANTS
    WalletScoped
PROPERTIES
    DamagedIsKept
    ReadStaysRead
