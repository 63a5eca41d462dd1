CONSTANTS
  Threads = {t1, t2}
  Names = {n1, n2}
  Inodes = {i1}
  Handles = {h1}
  None = None
  Ops = {"creat", "open", "link"}
  Faults = {}
  MaxLeaks = 2
SPECIFICATION Spec
INVARIANT NoCircularWait
