\* A FAT of 3 sectors of 2 entries whose data area has a cluster for every
\* entry from 2 on: clusters 2..5, the root directory in 2.
CONSTANTS
    t1 = t1
    t2 = t2
    Threads <- MCThreads
    EntPerSec = 2
    FatSz = 3
    DataClus = 4
    RootClus = 2
    B = 2
    MaxSize = 4
    NoThread = NoThread
SPECIFICATION Spec
SYMMETRY ThreadSymmetry
INVARIANTS
    TypeOK
    ChainsDisjoint
    NoLostCluster
    
    IOOnOwnCluster
