SPECIFICATION FairSpec
CONSTANTS
  r1 = r1
  w1 = w1  w2 = w2
  Rows = {r1}
  Workers = {w1, w2}
  Attempts = 2
  MaxRetries = 2
  MaxFails = 1
CHECK_DEADLOCK FALSE
INVARIANTS
  
  ProcessedMeansPaid
  OneWorkerPerRow
PROPERTIES
  ProcessedIsFinal
  HeldIsAttempted
