SPECIFICATION Spec
CONSTANTS
  None = None
  p1 = p1
  p2 = p2
  r1 = r1
  r2 = r2
  u1 = u1
  u2 = u2
  b1 = b1
  b2 = b2
  s1 = s1
  s2 = s2
  w1 = w1
  Payments = {p1}
  Rooms = {r1, r2}
  Users = {u1, u2}
  Amounts = {1}
  Buyers = {b1, b2}
  Submits = {s1, s2}
  Webhooks = {w1}
  MaxFailures = 1
  MaxCrashes = 1
SYMMETRY Symmetry
INVARIANTS
  CreditedAtMostOnce
  CreditIsBacked
  AcceptedIsSettled
PROPERTIES
  SettledRowIsFinal
  PipelineSpec
CHECK_DEADLOCK FALSE
