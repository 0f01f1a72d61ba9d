CONSTANTS
  RecordIds = {r1, r2}
  Ciphertexts = {c1, c2}
  Faults = {"crash", "torn", "power", "record", "append", "publish"}
  MaxRecords = 2
SPECIFICATION Spec
SYMMETRY Symmetry
INVARIANTS NoEquivocation AckedStay ReadersAreServed
PROPERTIES ImplementsKeep
CHECK_DEADLOCK FALSE
