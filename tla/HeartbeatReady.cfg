SPECIFICATION FairSpec
CONSTANTS
    a = a
    b = b
    Host <- TwoHosts
    MaxLoss = 0
PROPERTIES ReadyAfterAllAlive
CHECK_DEADLOCK FALSE
