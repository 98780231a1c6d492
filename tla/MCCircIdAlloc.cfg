CONSTANTS
  Width = 2
  IdType = "higher"
  Slots = {s1, s2, s3, s4}
SPECIFICATION Spec
INVARIANTS TypeOK NoIdCollision
PROPERTIES AllocMatchesReference
