SPECIFICATION Spec
CONSTANTS
    N = 3
    Senders <- TwoSenders
    MsgCount = 1
    Fifo = FALSE
    Duplicates = TRUE
    MaxLoss = 0
    MaxSeq = 2
INVARIANTS HeldByAll OneFinalSeq
CHECK_DEADLOCK FALSE
