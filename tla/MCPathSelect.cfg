CONSTANTS
  Nodes = {n1, n2, n3}
  NoNode = NoNode
  UseEntryGuards = FALSE
  GuardStore = {n1}
SPECIFICATION Spec
SYMMETRY MCSymmetry
INVARIANTS TypeOK PathFamiliesDistinct
