SPECIFICATION Spec
CONSTANTS
  o1 = o1  o2 = o2
  s1 = s1  s2 = s2
  r1 = r1  r2 = r2
  cheap = cheap  dear = dear
  Orders = {o1, o2}
  Sessions = {s1, s2}
  Requests = {r1, r2}
  Terms = {dear}
  DueTerms = {dear}
  EscrowTerms = {dear}
  Free = Free
  None = None
  MaxEdits = 1
  MaxAborts = 1
SYMMETRY Symmetry
CHECK_DEADLOCK FALSE
INVARIANTS
  SalePayoutOnce
  OneJobLostPerAbort
PROPERTY
  ImplementsLifecycle
