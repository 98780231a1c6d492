CONSTANTS
  Circs = {c1, c2}
  Relays = {r1, r2, r3}
  ZeroId = ZeroId
  None = None
  ServerMode = TRUE
  ExtendAllowPrivateAddresses = FALSE
  MaxExtends = 4
SPECIFICATION Spec
INVARIANT ForwardOnce
PROPERTIES NextHopStable ExtendResolves
