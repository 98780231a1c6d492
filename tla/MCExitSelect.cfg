CONSTANTS
  Nodes = {n1, n2, n3}
  Ports = {p80, p443}
  Streams = {s1, s2}
  NoNode = NoNode
  NoPort = NoPort
  LongLivedPorts = {p443}
SPECIFICATION Spec
SYMMETRY MCSymmetry
INVARIANTS ExitServesMost ExitFoundWhenAnyUsable
