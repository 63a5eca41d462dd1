CONSTANTS
  Dirs = {Top, a, b}
  Top = Top
  Files = {f, g}
  Spare = {g}
  None = None
  Faults = {"tag"}
  MaxFaults = 1
  RetryWith = "same"
SPECIFICATION FairSpec
CHECK_DEADLOCK FALSE
INVARIANT EachLinkDetachedOnce
