CONSTANTS
  Threads = {t1, t2}
  MaxEnd = 2
  Wrap = 2
  MaxSize = 3
SPECIFICATION Spec
INVARIANTS TypeOK SizeCoversData NoOvershoot

CONSTRAINT SizeBounded
