SPECIFICATION FairSpec
CONSTANTS
    a = a
    b = b
    c = c
    Hosts <- ThreeHosts
    Initiator = a
    Messages <- TwoMessages
INVARIANTS TypeOK SnapshotOnce NotCountedTwice AtMostOneMissed OpenUntilMarker
PROPERTIES RecordedInWindow Terminates
CHECK_DEADLOCK FALSE
