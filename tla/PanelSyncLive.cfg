CONSTANTS
    BadConfigs <- MCBadConfigs
    MaxConfig = 3
    MaxUsers = 2
    MaxCrashes = 0
    MaxAsks = 1
    LatePolls = FALSE
SPECIFICATION FairSpec
PROPERTIES EventuallyCurrent
