SPECIFICATION Spec
CONSTANTS
  a = a  b = b
  w1 = w1  w2 = w2
  l1 = l1  l2 = l2
  Orders = {a}
  Resolvers = {w1, w2}
  Learners = {l1, l2}
  Bases = {0, 1, 25}
  Share = 90
  Instants = {0, 5, 7, 104, 105, 107}
  UnitsPerDay = 2
  Windows = {1, 2, 3}
  Take = 1
  None = None
  MaxFails = 1
SYMMETRY Symmetry
CHECK_DEADLOCK FALSE
INVARIANTS
  ResolvedOnce
  ForfeitMatchesRow
  RefundIsEarned
PROPERTIES
  DeadlineLocked
  ImplementsEscrow
