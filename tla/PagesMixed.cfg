SPECIFICATION Spec
CONSTANTS
    FirstPages = {}
    LaterPages = {c1}
    Shells = {c2}
    MaxPublishes = 2
    MaxDeploys = 1
PROPERTIES
    ConfirmedIsCurrent
CHECK_DEADLOCK FALSE
