CONSTANTS
  MaxName = 3
  Dots = {1}
  Requests = {1}
SPECIFICATION Spec
PROPERTY SeekReturns
