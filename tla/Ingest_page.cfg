\* More conversations than the first page of the list holds.
SPECIFICATION LiveSpec
CONSTANTS
    Convs = {x, y}
    Groups = {y}
    MaxSent = 2
    Page = 1
    ConvPage = 1
    MaxLogins = 1
    MaxDrops = 0
PROPERTIES
    EveryMessageStored
CHECK_DEADLOCK FALSE
