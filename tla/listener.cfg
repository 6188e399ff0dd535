SPECIFICATION FairSpec
CONSTANTS
  Char = {a, b}
  MaxLen = 2
  MaxEdits = 3
  MaxNotices = 1
INVARIANTS TypeOK TextIsTrue
PROPERTIES KeepsPast IsAnswered CatchesUp
CHECK_DEADLOCK FALSE
