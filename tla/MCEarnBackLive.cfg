SPECIFICATION FairSpec
CONSTANTS
  a = a  b = b
  w1 = w1  w2 = w2
  l1 = l1  l2 = l2
  Orders = {a, b}
  Resolvers = {w1, w2}
  Learners = {}
  Bases = {25}
  Share = 90
  Instants = {0, 8, 105}
  UnitsPerDay = 2
  Windows = {2}
  Take = 1
  None = None
  MaxFails = 0
CHECK_DEADLOCK FALSE
PROPERTIES
  EscrowResolved
  OutcomeDelivered
