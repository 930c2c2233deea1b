CONSTANTS
    BadConfigs = {}
    MaxConfig = 2
    MaxUsers = 2
    MaxCrashes = 1
    MaxAsks = 1
    LatePolls = TRUE
SPECIFICATION Spec
INVARIANTS TypeOK NothingMissedAtRest CacheReadable CacheIsServed
