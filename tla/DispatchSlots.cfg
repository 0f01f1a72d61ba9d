CONSTANTS
  Questions <- MCQuestions
  Ngrams <- MCNgrams
  Bucket <- MCBucket
  Buckets = 2
  Tokens = {t1, t2}
  NoToken = noToken
  Interval = 2
  MaxGap = 2
  MaxLate = 1
  MaxAsked = 3
SPECIFICATION Spec
INVARIANTS FirstInFirstOut Unlinkable
PROPERTIES ImplementsClock EveryQuestionEnds
