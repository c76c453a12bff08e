\* Two threads open and close /d/f: both may take the last reference of f
\* at once, and the unlocked re-read of ref in eput decides who puts d.
CONSTANTS
    t1 = t1
    t2 = t2
    d = d
    f = f
    e = e
    g = g
    Threads <- MCThreads2
    K = 3
    Files <- MCFiles2
    Dirs <- MCDirs2
    DirOf <- MCDirOf2
    Paths <- MCPaths2
    RootF = RootF
    DotDot = DotDot
    MaxRef = 4
    NoEnt = NoEnt
    NoFile = NoFile
    NoThread = NoThread
SPECIFICATION Spec
INVARIANT
    RefExact
