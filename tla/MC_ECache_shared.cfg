CONSTANTS
    t1 = t1
    t2 = t2
    d = d
    f = f
    e = e
    g = g
    Threads <- MCThreads2
    K = 2
    Files <- MCFiles1
    Dirs <- MCDirs
    DirOf <- MCDirOf1
    Paths <- MCPaths1
    RootF = RootF
    DotDot = DotDot
    MaxRef = 4
    NoEnt = NoEnt
    NoFile = NoFile
    NoThread = NoThread
SPECIFICATION Spec
INVARIANTS
    TypeOK
    RefCovers
    RefNoLeak
    NoSleepUnderSpinlock
    CachedUnique
