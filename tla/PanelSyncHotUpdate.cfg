CONSTANTS
    BadConfigs = {}
    MaxConfig = 1
    MaxUsers = 2
    MaxCrashes = 0
    MaxAsks = 0
    LatePolls = FALSE
SPECIFICATION FairSpec
PROPERTIES HotUpdate
