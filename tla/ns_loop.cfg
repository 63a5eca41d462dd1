CONSTANTS
  Root = Root
  Entries = {Root, a, b, c}
  Names = {n1, n2}
  None = None
  MaxOpens = 1
  MaxSlip = 1
  Hazardous = {"subtree"}
SPECIFICATION Spec
SYMMETRY Symm
INVARIANT TreeShape
