SPECIFICATION FairSpec
CONSTANTS
    a = a
    b = b
    Host <- TwoHosts
    MaxLoss = 2
INVARIANTS TypeOK ReadySound NoNullSender
PROPERTIES SomeReady ClosedBecomesReady
CHECK_DEADLOCK FALSE
