SPECIFICATION Spec
CONSTANTS
    N = 3
    Senders <- TwoSenders
    MsgCount = 1
    Fifo = TRUE
    Duplicates = TRUE
    MaxLoss = 0
    MaxSeq = 4
INVARIANTS TypeOK PrefixAgreement AtMostOnce NoCrash QueueBelowLatest
PROPERTIES ImplementsBroadcast
