CONSTANTS
    u1 = u1
    u2 = u2
    Uuids = {u1, u2}
    Streams = {stderr}
    stderr = stderr
    IdOf <- MCIdOf
    Threshold = 0
    Chunks <- MCChunks
    RetryCount = 1
    MaxMetered = 2
    MaxUnanswered = 1
SPECIFICATION FairSpec
INVARIANTS TypeOK NoUnderbilling NoDoubleBilling UidAttribution StableUsersLoseNothing
PROPERTIES LedgerSpec EventuallyBooked
