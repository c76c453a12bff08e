\* Two slots and processes of up to two pages; memory sizes from 13 pages
\* (nothing left after userinit) up to 28 (a child of two pages fits), so
\* every kalloc of allocproc, uvmcopy and uvmalloc fails in some behaviour.
CONSTANTS
  MemSizes <- MCMemSizes
  MaxPg = 2
  NPROC = 2
  MaxCalls = 6
SPECIFICATION Spec
INVARIANTS
  TypeOK
  PagesConserved
  KptMirrorsUpt
  UnusedOwnsNothing
