CONSTANTS Threads = {t1, t2}
    Spins = 2
    MaxSeq = 1
SPECIFICATION Spec
INVARIANT MutexExcludes
