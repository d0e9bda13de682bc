SPECIFICATION FairSpec
CONSTANTS
  o1 = o1  o2 = o2
  s1 = s1  s2 = s2
  r1 = r1  r2 = r2
  cheap = cheap  dear = dear
  Orders = {o1}
  Sessions = {s1, s2}
  Requests = {r1, r2}
  Terms = {cheap, dear}
  DueTerms = {cheap}
  EscrowTerms = {dear}
  Free = Free
  None = None
  MaxEdits = 1
  MaxAborts = 0
CHECK_DEADLOCK FALSE
INVARIANT
  NothingWithoutCharge
PROPERTY
  PaidIsDelivered
