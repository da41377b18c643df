SPECIFICATION Spec
CONSTANTS
  Process = {p1, p2, p3, p4}
  NoProcess = nobody
  Inode = {1, 2}
INVARIANTS
  OneOperation
  OwnerHonest
  OwnJobNotRefused
SYMMETRY Symmetry
CHECK_DEADLOCK FALSE
