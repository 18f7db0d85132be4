\* One step that connects the login, one DELETE that ends it.
SPECIFICATION RuntimeSpec
CONSTANTS
    Steps = {r1}
    Deletes = {d1}
    NoRecord = NoRecord
    Messages = {m1}
    MaxCrashes = 0
INVARIANT DeletedIsGone
CHECK_DEADLOCK FALSE
