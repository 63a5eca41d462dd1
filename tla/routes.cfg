CONSTANTS
  Threads = {t1, t2}
  Paths = {p}
  None = None
  MaxEntries = 2
  MaxRoutes = 2
  MaxDepth = 2
  Mixes <- Rows
SPECIFICATION Spec
CHECK_DEADLOCK FALSE
INVARIANTS TypeOK RunsFirstMatch Serialized NoCircularWait
PROPERTY CallsReturn
