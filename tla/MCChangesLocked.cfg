CONSTANTS Parts = {"fnodes"}
    Writers = {w1, w2}
    Readers = {r1}
    Size = 2
    MaxSize = 4
    Asks <- SomeAsks
    None = None
    Threads = {t1, t2}
    Calls <- OpenAndUnlink
    MaxLeaks = 1
    Dirs <- OneDir
    Files <- OneFile
    Inos = {1, 2, 3, 4}
    Names = {"a", "b", "c"}
    Root = 1
SPECIFICATION Spec
PROPERTY ChangesLocked
CHECK_DEADLOCK FALSE
