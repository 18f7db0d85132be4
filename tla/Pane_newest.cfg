\* Four messages in a thread, two rows in an answer.
SPECIFICATION PaneSpec
CONSTANTS
    Threads = {s}
    NoThread = NoThread
    Newest = 4
    MaxStored = 4
    Whole = {}
    Stored = {3}
    Limit = 2
    OlderPage = 1
    MaxGets = 1
    MaxOlder = 1
    MaxLost = 0
PROPERTY NewestIsShown
CHECK_DEADLOCK FALSE
