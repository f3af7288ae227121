\* Clients leave for good and ids run out.
CHECK_DEADLOCK FALSE
SPECIFICATION Spec
CONSTANTS
  h1 = h1
  h2 = h2
  b1 = b1
  Hosts = {h1, h2}
  Ids = {b1, b2, b3}
  Clients = {m1, m2}
  Tasks = {t1}
  Config <- MCConfig
SYMMETRY ClientSymmetry
INVARIANTS AssertHolds RightHeader HeldReleased
