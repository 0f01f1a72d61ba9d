CONSTANTS
  Callers = {c1, c2}
  Tokens = {t1, t2}
  Spellings = {lower, upper}
  Decoded <- OfOneToken
  Keys = {k1, k2}
  None = none
  Torn = torn
  Questions = {q1, q2}
  TokenOf <- OneToken
  Headers = {"ours", "edited"}
  OurHeader = "ours"
  NoReply = noReply
  MaxStarts = 2
SPECIFICATION GSpec
INVARIANTS OneCallPerSpelling RelayIsHarmless
PROPERTIES EveryCallEnds
CHECK_DEADLOCK FALSE
