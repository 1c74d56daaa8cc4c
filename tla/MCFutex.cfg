CONSTANTS
    Tasks = {t1, t2, t3}
    Addrs = {a1, a2}
    Null = Null
    TickLen = 2
    Timeouts = {0, 1}
    Counts <- WakesAndMoves
SPECIFICATION Spec
SYMMETRY Symmetry
INVARIANTS TypeOK QueueMatchesStatus FutexAlive SleepersFound NoSleeperMissed TimersFound
           ClockAssertsHold
