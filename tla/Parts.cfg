\* The parts beside the login, one at a time.
SPECIFICATION PartsSpec
CONSTANTS
    Accounts = {a}
    NoAccount = NoAccount
    Overlap = TRUE
    MaxConnects = 1
    MaxErrors = 1
    Threads = {s, t}
    NoThread = NoThread
    Newest = 2
    MaxStored = 4
    Whole = {t}
    Stored = {2}
    Limit = 2
    OlderPage = 1
    MaxGets = 2
    MaxOlder = 1
    MaxLost = 1
    Steps = {r1, r2}
    Deletes = {d1}
    NoRecord = NoRecord
    Messages = {m1}
    MaxCrashes = 1
    Interval = 2
    MaxBackoff = 7
    MaxRetries = 2
    MaxWait = 1
    MaxLimited = 4
    Procs = {p1, p2}
    MaxKeys = 3
    Sends = {s1, s2, s3}
    Cmids = {i1}
INVARIANTS
    CanAlwaysAct
    ConnectSettles
    NoEventLost
    BoundedRetry
    NeverSpins
    BackoffFollowsLimits
    HoldsTheStoredKey
    SessionReadable
    NotSentAgain
    SkippedIsShown
    CodecNested
    CodecRoundTrip
    CodecDelivers
    EventNeverBlank
    EventTextShown
    EventTextIsNoMedia
    CaptureIsPseudonymous
PROPERTIES
    LateLoginShown
    PaneSettles
CHECK_DEADLOCK FALSE
