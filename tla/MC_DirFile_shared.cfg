\* p1 opens D and forks: p1 and p2 share the file and both call dirnext
\* on it, while either may create and unlink entries.
CONSTANTS
    p1 = p1
    p2 = p2
    a = a
    b = b
    c = c
    d = d
    Procs <- MCProcs
    Readers = {p1, p2}
    Files = {1, 2}
    Names <- MCNames
    Lfns <- MCLfns
    ShortOrd <- MCShortOrd
    InitNames <- MCInit
    DirCap = 8
    D = D
    E = E
    CopyOk = {TRUE}
    None = None
    Nul = Nul
SPECIFICATION Spec
INVARIANTS
    DirListing
