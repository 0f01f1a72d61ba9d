CONSTANTS
  Clients = {c1}
  Leaf = {a, b}
  Keys = {k1, k2}
  NodeKey = k1
  NoKey = nokey
  PinFiles = {c1}
  FileOf <- OwnFile
  HonestNode = FALSE
  MaxSize = 2
SPECIFICATION Spec
INVARIANTS ReceiptsHold
PROPERTIES PinNeverGoesBack
