SPECIFICATION FairSpec
CONSTANTS
    p1 = p1
    p2 = p2
    p3 = p3
    Nobody = Nobody
    Aborted = Aborted
    Peer <- ThreePeers
    Timely = TRUE
    MaxInFlight = 1
    MaxLoss = 1
    MaxReports = 2
    MaxCount = 4
INVARIANTS TypeOK DetectionBounded Accurate ReportedOnce
PROPERTIES TwoIntervalsMissed LongestSilentFirst CrashDetected
CHECK_DEADLOCK FALSE
