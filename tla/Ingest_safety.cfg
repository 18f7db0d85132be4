\* Three messages, a second login, a lost socket.
SPECIFICATION Spec
CONSTANTS
    Convs = {x, y}
    Groups = {y}
    MaxSent = 3
    Page = 1
    ConvPage = 2
    MaxLogins = 2
    MaxDrops = 1
INVARIANTS
    TypeOK
    CursorCovers
    SeenIsStored
CHECK_DEADLOCK FALSE
