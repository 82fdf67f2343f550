SPECIFICATION FairSpec
CONSTANTS
    N = 3
    MaxCrash = 1
    MaxRestart = 0
    LeaderMayCrash = {"ADD"}
    leaderFailureDemo = {}
PROPERTIES PendingCompleted
CHECK_DEADLOCK FALSE
