\* One client that waits for each action to take effect.
SPECIFICATION Spec
CONSTANTS
    Calls = {c1, c2, c3}
    QrCalls = {c3}
    Accounts = {a, b}
    NoLogin = NoLogin
    NoAccount = NoAccount
    Headless = FALSE
    Overlap = FALSE
    MaxLogouts = 1
    MaxRestarts = 1
SYMMETRY Symmetry
INVARIANTS
    TypeOK
    IInv
    OneBrowser
    EveryBrowserOwned
    ConnectedIsBacked
    AccountMatches
PROPERTIES
    LogoutWipes
    OpenFindsItsLogin
    ImplementsService
CHECK_DEADLOCK FALSE
