CONSTANTS
  t1 = t1
  t2 = t2
  Threads = {t1, t2}
  Classes = {"personal", "secret"}
  Secret = "secret"
  TopTier = 2
  DefaultPolicy <- MCDefault
  ReadsLimit = 1
  CatalogueLimit = 2
  Edits <- MCEdits
  MaxRecords = 2
  MaxTokens = 3
  MaxReads = 2
SYMMETRY Symmetry
SPECIFICATION ASpec
INVARIANTS OnlyClearedCross RevokedTokenIsDead ReadsAreRecorded
