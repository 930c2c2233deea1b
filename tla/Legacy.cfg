CONSTANTS
    u1 = u1
    u2 = u2
    Uuids = {u1, u2}
    Streams = {request}
    request = request
    IdOf <- MCIdOf
    Threshold = 0
    Chunks <- MCChunks
    RetryCount = 0
    MaxMetered = 2
    MaxUnanswered = 1
    c1 = c1
    c2 = c2
    i1 = i1
    i2 = i2
    Users = {u1, u2}
    Ips = {i1, i2}
    Callers = {c1, c2}
    Loads <- MCLoads
    Limits = {0, 1}
    Speeds = {0, 1}
    Maps = {m1, m2, m3}
    None = None
SPECIFICATION MCSpec
INVARIANTS
    LegacyTypeOK StableUsersBilled
    LimiterTypeOK NoGhosts ReportComplete BucketCurrent
PROPERTY LimitKept
