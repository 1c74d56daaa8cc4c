CONSTANTS
    Tasks = {t1, t2, t3}
    Addrs = {a1}
    Null = Null
    TickLen = 2
    Timeouts = {0, 1, 2}
    Counts <- WakesOnly
SPECIFICATION Spec
SYMMETRY Symmetry
INVARIANT RemovedFromItsList
