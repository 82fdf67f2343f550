SPECIFICATION FairSpec
CONSTANTS
    r1 = r1
    r2 = r2
    MaxMsgs = 2
    Recipients <- TwoRecipients
    MaxInterval = 4000
INVARIANTS TypeOK NoLostWakeup
PROPERTIES Retransmitted ImplementsRetransmission
