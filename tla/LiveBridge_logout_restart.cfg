\* Logout after a restart.
SPECIFICATION Spec
CONSTANTS
    Calls = {c1}
    QrCalls = {}
    Accounts = {a}
    NoLogin = NoLogin
    NoAccount = NoAccount
    Headless = FALSE
    Overlap = FALSE
    MaxLogouts = 1
    MaxRestarts = 1
PROPERTIES
    EveryLogoutWipes
CHECK_DEADLOCK FALSE
