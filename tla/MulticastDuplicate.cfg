SPECIFICATION Spec
CONSTANTS
    N = 3
    Senders <- OneSender
    MsgCount = 1
    Fifo = FALSE
    Duplicates = TRUE
    MaxLoss = 0
    MaxSeq = 2
INVARIANTS AtMostOnce
CHECK_DEADLOCK FALSE
