CONSTANTS
  Path <- MCPath
  Modes = {"client", "bridge", "public"}
  DIGEST_LEN = 2
  CIPHER_KEY_LEN = 1
  KeyMaterial <- MCKeyMaterial
SPECIFICATION Spec
INVARIANT HandshakeAsSpecified
\* A circuit's construction ends: it opens, is closed, or fails.
CHECK_DEADLOCK FALSE
