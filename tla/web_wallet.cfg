\* Two accounts, the navigation bar and one page, one change in Freighter.
SPECIFICATION FairSpec
CONSTANTS
    Accounts = {a1, a2}
    None = None
    Panels = {nav, page}
    NavPanel = nav
    MaxChanges = 1
PROPERTIES
    SessionFollowsFreighter
    OnlyConnectOpensSession
