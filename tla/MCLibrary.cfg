CONSTANTS ByteBits = 3
    Bytes = 3
    PageSize = 3
    ZonePages = 6
    MaxAddr = 30
    MaxRanges = 2
    Threads = {t1, t2, t3}
    Spins = 1
    MaxSeq = 2
SPECIFICATION Spec
SYMMETRY Symmetry
INVARIANTS BitsExact ZonesExact SleeperRemembered
CHECK_DEADLOCK FALSE
