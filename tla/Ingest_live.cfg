\* The same system under fairness; the socket may stay closed or deaf.
SPECIFICATION LiveSpec
CONSTANTS
    Convs = {x, y}
    Groups = {y}
    MaxSent = 2
    Page = 1
    ConvPage = 2
    MaxLogins = 1
    MaxDrops = 0
PROPERTIES
    EveryMessageStored
    ThreadCatchesUp
    HistoryReachesStart
CHECK_DEADLOCK FALSE
