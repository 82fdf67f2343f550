SPECIFICATION FairSpec
CONSTANTS
    N = 4
    MaxCrash = 2
    MaxRestart = 1
    LeaderMayCrash = {"idle", "DEL"}
    leaderFailureDemo = {1}
INVARIANTS TypeOK NoAbort OneLeader AgreementWhenSettled ViewsAgree
PROPERTIES ViewIdMonotone Settles
CHECK_DEADLOCK FALSE
