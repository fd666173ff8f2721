CONSTANTS
    Calls = {c1}
    MAX_RECONNECT_ATTEMPTS = 2
    MaxSockets = 6
    MaxDrops = 2
    MaxRefreshes = 2
SPECIFICATION FairSpec
INVARIANTS TypeOK NobodyWaitsOnClosed OneSocket ReadyUntilRefreshed GivenUpRejects
PROPERTIES Recovers
CHECK_DEADLOCK FALSE
