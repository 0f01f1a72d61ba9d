CONSTANTS
  Clients = {d1, d2}
  Leaf = {leaf}
  Keys = {key}
  NodeKey = key
  NoKey = nokey
  PinFiles = {pinFile}
  FileOf <- OneFile
  HonestNode = TRUE
  MaxSize = 3
  Gossips = {c1, c2}
  Files = {a, b}
  KeyTexts = {"n", "m"}
  Roots = {"q", "r", "R "}
  Signer <- TwoNodes
  Bytes <- TwoRoots
  Honest = {"honest"}
  MostSigned = 1
  MaxCommands = 3
SYMMETRY Symmetry
SPECIFICATION ASpec
INVARIANTS NoSlander HeardIsKept
PROPERTIES OnlyAnOldHeadAccuses
CHECK_DEADLOCK FALSE
