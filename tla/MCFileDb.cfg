SPECIFICATION FairSpec
CONSTANTS
  a = a
  b = b
  sub = sub
  File <- MCFile
  Top <- MCTop
  Reader = {r1}
  None = None
  MaxTime = 3
  Changes = 2
INVARIANTS TypeOK TouchNeedsChange UpToDate AnswersComplete
PROPERTIES LaterChangesListed
CHECK_DEADLOCK FALSE
