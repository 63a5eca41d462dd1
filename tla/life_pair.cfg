CONSTANTS
  Threads = {t1, t2}
  Names = {n1, n2}
  Inodes = {i1, i2}
  Handles = {h1}
  None = None
  Ops <- AllOps
  Faults <- AllFaults
  MaxLeaks = 1
SPECIFICATION FairSpec
ACTION_CONSTRAINT Alone
INVARIANTS RefCountCovers LinkCountExact NoUseAfterFree
PROPERTIES CallsReturn UnlinkedReclaimed
