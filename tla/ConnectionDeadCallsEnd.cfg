CONSTANTS
    Calls = {c1}
    MAX_RECONNECT_ATTEMPTS = 2
    MaxSockets = 2
    MaxDrops = 1
    MaxRefreshes = 0
SPECIFICATION FairSpec
PROPERTIES DeadCallsEnd
CHECK_DEADLOCK FALSE
