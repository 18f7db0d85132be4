\* Two connect() calls at once.
SPECIFICATION Spec
CONSTANTS
    Calls = {c1, c2}
    QrCalls = {}
    Accounts = {a}
    NoLogin = NoLogin
    NoAccount = NoAccount
    Headless = FALSE
    Overlap = TRUE
    MaxLogouts = 0
    MaxRestarts = 0
INVARIANTS
    OneBrowser
CHECK_DEADLOCK FALSE
