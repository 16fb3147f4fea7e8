SPECIFICATION FairSpec
CONSTANTS
    FirstPages = {}
    LaterPages = {c1}
    Shells = {c2}
    MaxPublishes = 2
    MaxDeploys = 1
PROPERTIES
    ConfirmationHonest
    PublishReachesClients
CHECK_DEADLOCK FALSE
