CONSTANTS
    Tasks = {t1, t2, t3}
    Addrs = {a1}
    Null = Null
    TickLen = 2
    Timeouts = {2}
    Counts <- WakesOnly
SPECIFICATION FairSpec
PROPERTIES ReadyRuns TimedWaitEnds
