\* The session expires before the first sync.
SPECIFICATION Spec
CONSTANTS
    Calls = {c1, c2}
    QrCalls = {}
    Accounts = {a}
    NoLogin = NoLogin
    NoAccount = NoAccount
    Headless = FALSE
    Overlap = FALSE
    MaxLogouts = 0
    MaxRestarts = 0
PROPERTIES
    NeedsUserUntilLogin
CHECK_DEADLOCK FALSE
