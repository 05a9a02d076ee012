SPECIFICATION Spec
CONSTANTS
    t1 = t1
    t2 = t2
    t3 = t3
    Task = {t1, t2, t3}
    Cpu = {0, 1}
    Idle = Idle
    Rank <- MCRank
    Movable = {t2, t3}
    RankPicks = 2
    Batch = 1
    MaxTicks = 2
    Watched = t3
INVARIANTS BoundedBypass NoSleepOverWork
