\* Clients that overlap freely, under the fairness of the threads.
SPECIFICATION LiveSpec
CONSTANTS
    Calls = {c1, c2}
    QrCalls = {c2}
    Accounts = {a}
    NoLogin = NoLogin
    NoAccount = NoAccount
    Headless = FALSE
    Overlap = TRUE
    MaxLogouts = 1
    MaxRestarts = 0
INVARIANT
    RowAgrees
PROPERTIES
    OpeningEnds
    WindowIsWatched
    LogoutEnds
CHECK_DEADLOCK FALSE
