CONSTANTS
  s1 = s1
  s2 = s2
  Sessions = {s1, s2}
  Facts = {"name", "pin"}
  Memories <- MCMemories
  Messages <- MCMessages
  Abstractions <- MCAbstractions
  Epsilons = {0, 1, 2, 3}
  AppEpsilon = 3
  EpsilonBudgets = {5}
  SpecificityBudget = 2
  MaxSpecificity = 2
  DpCandidates = 2
  Attempts = 1
  Grain = 3
  InUse <- MCInUse
  MaxPaid = 1
SYMMETRY Symmetry
SPECIFICATION Spec

PROPERTY ImplementsAccount
INVARIANTS NothingKnownLeaves LedgerCovers
