\* Three threads, two buffers, three sectors and pins on up to one buffer:
\* a third sector forces a buffer to be recycled while another is held, and
\* with every buffer referenced bget panics, which stops the kernel.
CONSTANTS
  t1 = t1
  t2 = t2
  t3 = t3
  s1 = s1
  s2 = s2
  s3 = s3
  Threads <- MCThreads3
  Secs <- MCSecs
  NBUF = 2
  Values = {0, 1}
  InitValue = 0
  MaxPins = 1
  NoSec = NoSec
  NoBuf = NoBuf
  NoThread = NoThread
SPECIFICATION Spec
INVARIANTS
  TypeOK
  UniqueSector
  RefcntCounts
PROPERTIES
  BufCacheRefines
