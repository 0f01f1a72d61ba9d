CONSTANTS
  Data = {"a", "b"}
  MaxSize = 8
  MaxOther = 4
  MaxForged = 4
  MaxAge = 300
  GroupOrder = 7
  Challenges = 4
  LocalHosts = {"localhost", "10.0.0.1"}
  Buckets = {4, 8}
  Frame = 1
  MaxIndex = 1
  Hosts = {"n", "m", "inner"}
  MaxPeers = 2
  Vocabulary <- MCVocabulary
  Lower <- LowerOf
  Structured <- MCStructured
  Evidence <- MCEvidence
  ProofClaims <- MCClaims
  Questions <- MCQuestions
  Calls <- MCCalls
  NodeLists <- MCNodeLists
  Conversations <- MCConversations
SPECIFICATION AllSpec
INVARIANTS
  LogIsSound AcceptedIsEarned KeyComesBackWhole
  ProofsAreSound TextComesBack ReceiptIsTrue WordsAreTrue NodesAreJudgedFairly
CHECK_DEADLOCK FALSE
