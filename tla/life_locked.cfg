CONSTANTS
  Threads = {t1, t2, t3}
  Names = {n1, n2}
  Inodes = {i1, i2, i3}
  Handles = {h1}
  None = None
  Ops <- LockedOps
  Faults <- CallbackFaults
  MaxLeaks = 2
SPECIFICATION Spec
SYMMETRY Symm
INVARIANTS TypeOK RefCountExact LinkCountExact NoUseAfterFree DestroyAlone CallbackPinned IdleHoldsNothing NoCircularWait
PROPERTIES GarbageUnreachable ImplementsEntryLife
