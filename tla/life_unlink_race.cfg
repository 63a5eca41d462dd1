CONSTANTS
  Threads = {t1, t2}
  Names = {n1}
  Inodes = {i1}
  Handles = {h1}
  None = None
  Ops = {"creat", "close", "unlink"}
  Faults = {}
  MaxLeaks = 2
SPECIFICATION Spec
INVARIANT DetachedInaccessible
