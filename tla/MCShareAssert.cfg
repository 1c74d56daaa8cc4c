CONSTANTS Parts = {"fault"}
    Tasks = {t1, t2, t3}
    Zones <- TwoZones
    ByteBits = 4
    Lower = 1
    Upper = 5
    MaxSize = 3
    Kinds = {"file", "heap"}
    Offsets = {0}
    Prots = {{"r"}, {"r", "w"}}
    AnyRange = FALSE
    Spaces = {1, 2}
    Threads = {1, 2}
    SpaceOf <- OneSpace
    Addrs = {1}
    Frames = {1, 2, 3, 4, 5}
SPECIFICATION MemSpec
INVARIANT ShareAssertHolds
CHECK_DEADLOCK FALSE
