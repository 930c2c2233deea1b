CONSTANTS
    Monitor = Monitor
    Reporter = Reporter
    stderr = stderr
    h1 = h1
    Consumers = {stderr}
    Handlers = {h1}
    NoOne = NoOne
    MaxOnline = 1
SPECIFICATION FairSpec
INVARIANTS TypeOK OnlineMapGuarded OnlyOnlineReportDeadlocks
PROPERTY OperationsEnd
