CONSTANTS
    u1 = u1
    u2 = u2
    Uuids = {u1, u2}
    Streams = {stderr}
    stderr = stderr
    IdOf <- MCIdOf
    Threshold = 0
    Chunks <- MCChunksOrNone
    RetryCount = 1
    MaxMetered = 2
    MaxUnanswered = 2
SPECIFICATION Spec
INVARIANT NoByteDropped
