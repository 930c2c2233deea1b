CONSTANTS
    Chunks = {1, 2}
    MaxTotal = 4
    Tunnels = {t1, t2}
    Metered = t1
    t1 = t1
    Rates = {0, 1, 2}
    Sizes = {1, 2}
    Objects = {o1, o2, o3}
    NoObject = NoObject
    Buckets = {b1, b2, b3, b4}
    NoBucket = NoBucket
    Byte = 3
    NumFirstPaddings = 2
    PaddingSizes = {0, 2}
    FrameSizes = {0, 1, 5}
    MaxPlain = 6
SPECIFICATION MCSpec
INVARIANTS
    TypeOK EachByteOnce ClosedIsComplete OneBucketPerUser
    PaddingTransparent
PROPERTIES EventuallyEmitted
CHECK_DEADLOCK FALSE
