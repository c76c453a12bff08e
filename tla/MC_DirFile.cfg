\* Two processes, two ftable slots, one reader of D; D starts with a and b,
\* may gain d and lose any of them; its chain holds 8 slots.
CONSTANTS
    p1 = p1
    p2 = p2
    a = a
    b = b
    c = c
    d = d
    Procs <- MCProcs
    Readers = {p1}
    Files = {1, 2}
    Names <- MCNames
    Lfns <- MCLfns
    ShortOrd <- MCShortOrd
    InitNames <- MCInit
    DirCap = 8
    D = D
    E = E
    CopyOk = {TRUE}
    None = None
    Nul = Nul
SPECIFICATION Spec
INVARIANTS
    TypeOK
    FileRefsExact
    LookupExact
    DirListing
