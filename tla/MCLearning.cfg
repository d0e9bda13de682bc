SPECIFICATION LearningSpec
CONSTANTS
  None = None
  p = p  q = q  g1 = g1
  tab = tab  copy = copy  unmonitored = unmonitored  fast = fast
  l1 = l1  l2 = l2  l3 = l3  creator = creator  nobody = nobody
  lesson = lesson  w1 = w1  w2 = w2
  MaxTries = 2
  Spacing = 1
  Lockout = 3
  Limit = 1
  Manual = TRUE
  Requests = {p, q}
  Graders = {g1}
  MaxAttempts = 3
  MaxTime = 5
  MaxReviews = 1
  MaxFails = 1
  Events = {tab, copy}
  Switches = {tab}
  Exits = {}
  Unmonitored = unmonitored
  FastAnswer = fast
  Snapshots = {}
  SwitchLimit = 2
  MaxBatch = 1
  Calls = {p, q}
  Learners = {l1, l2, l3}
  Authors = {l1}
  Creator = creator
  Nobody = nobody
  Slots = {p, q}
  Required = 2
  MaxAssigned = 3
  MaxRows = 2
  MaxGrades = 1
  Lessons = {lesson}
  Handlers = {p, q}
  FREEZE_MILESTONE = 2
  MAX_FREEZES = 1
  LessonBadges = {1}
  StreakBadges = {2}
  MaxMoves = 1
  Kinds = {"digest", "kickoff", "coach"}
  Reviews = {w1, w2}
  REVIEW_INTERVALS <- TwoRungs
  DIGEST_MAX_REVIEWS = 1
  KICKOFF_CATCHUP_DAYS = 2
  Starts = 1
  Week = 3
  Sweeps = {p, q}
  MaxDay = 4
SYMMETRY Symmetry
CONSTRAINT OverlapsAreShort
CHECK_DEADLOCK FALSE
INVARIANTS
  TypesOK
  RetriesWithinPolicy
  GradeStands
  UnmonitoredIsKnown
  EventsKept
  PeersGradeOnEnough
  StreakCountsDays
  EarnedBadgesHeld
  NoticesOnce
PROPERTY
  LadderClimbs
