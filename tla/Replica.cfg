CONSTANTS
  Nodes = {n1, n2, n3, h}
  Hostile = {h}
  Clients = {c1, c2}
  Ids = {i1}
  Contents = {v1, v2}
  quorum = 3
  Absent = absent
  Waiting = waiting
  Failed = failed
SPECIFICATION Spec
SYMMETRY Symmetry
INVARIANTS AckedIsHeld
PROPERTIES ImplementsWriteOnce
