SPECIFICATION FairSpec
CONSTANTS
  q1 = q1  q2 = q2
  a = a  b = b
  Questions = {q1}
  Choices = {a, b}
  Blank = Blank
  Calls = {1, 2}
  MaxEdits = 2
  MaxFails = 2
CHECK_DEADLOCK FALSE
INVARIANTS
  CrashRestoresChoice
  ScoreIsOfASubmit
PROPERTIES
  TimedAttemptEnds
  QueueDrains
