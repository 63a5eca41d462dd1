CONSTANTS
  MaxName = 4
  Dots = {2}
  Requests = {1, 2}
SPECIFICATION Spec
INVARIANTS TypeOK NothingTwice NothingMissed
PROPERTY ReadingEnds
