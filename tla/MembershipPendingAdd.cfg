SPECIFICATION Spec
CONSTANTS
    N = 4
    MaxCrash = 1
    MaxRestart = 0
    LeaderMayCrash = {"ADD"}
    leaderFailureDemo = {}
INVARIANTS NoAbort
CHECK_DEADLOCK FALSE
