\* The socket the page opens while the login is being established.
SPECIFICATION Spec
CONSTANTS
    Convs = {x, y}
    Groups = {y}
    MaxSent = 1
    Page = 1
    ConvPage = 2
    MaxLogins = 1
    MaxDrops = 0
INVARIANTS
    ConnectedIsTapped
CHECK_DEADLOCK FALSE
