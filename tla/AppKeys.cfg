CONSTANTS
  Threads = {t1, t2}
  Keys = {k1, k2}
  Passphrases = {p1, p2}
  Legacy = legacyKey
  None = none
  Torn = torn
SPECIFICATION Spec
SYMMETRY Symmetry
INVARIANTS ReliedOnIsKept OneKey
PROPERTIES LockHolds
