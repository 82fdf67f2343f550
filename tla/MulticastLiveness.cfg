SPECIFICATION FairSpec
CONSTANTS
    N = 3
    Senders <- OneSender
    MsgCount = 1
    Fifo = TRUE
    Duplicates = FALSE
    MaxLoss = 1
    MaxSeq = 4
PROPERTIES AllDelivered SendersDrain
CHECK_DEADLOCK FALSE
