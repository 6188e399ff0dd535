SPECIFICATION FairSpec
CONSTANTS
  SpeechId = {line1, line2}
  Waiter = {w1, w2}
  MaxGenerate = 2
  MaxFaults = 2
  Reuse = FALSE
  None = None
INVARIANTS TypeOK NoPanic ExpiredIsTrue LifetimesAreLimited
PROPERTY EveryoneIsAnswered
CHECK_DEADLOCK FALSE
