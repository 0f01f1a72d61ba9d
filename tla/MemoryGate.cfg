CONSTANTS
  Gates = {g1, g2}
  Chatters = {g1}
  Facts = {f1}
  Declared = {}
  Policy <- DefaultPolicy
  Attempts = 2
  IndexLimit = 1
  InUse = {1, 3}
  Recalls = {0, 1}
  MaxKeep = 2
SPECIFICATION Spec
INVARIANTS OnlyClearedCross DelegateSeesNothingPrivate RememberedIsListed
