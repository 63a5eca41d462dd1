CONSTANTS
  Root = Root
  Entries = {Root, a, b, c}
  Names = {n1, n2}
  None = None
  MaxOpens = 1
  MaxSlip = 1
  Hazardous = {}
SPECIFICATION Spec
SYMMETRY Symm
INVARIANTS TypeOK LinkCountExact TreeShape NothingLost NeverOvercounted
PROPERTIES FullDirectoriesStay ImplementsFileTree
