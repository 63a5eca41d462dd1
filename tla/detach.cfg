CONSTANTS
  Dirs = {Top, a, b}
  Top = Top
  Files = {f, g}
  Spare = {g}
  None = None
  Faults = {"tag", "queue", "callback"}
  MaxFaults = 1
  RetryWith = "null"
SPECIFICATION FairSpec
INVARIANTS TypeOK EachLinkDetachedOnce QueueAlive GarbageEmpty NothingLeft
PROPERTY Terminates
CHECK_DEADLOCK FALSE
