SPECIFICATION Spec
CONSTANTS
  None = None
  c1 = c1
  c2 = c2
  c3 = c3
  r1 = r1
  r2 = r2
  p1 = p1
  Calls = {c1, c2, c3}
  Rooms = {r1}
  Payments = {p1}
  ReserveAmount = 1
  DailyCap = 3
  MonthlyCap = 3
  ChargeAmounts = {3}
  CreditAmounts = {30}
  DayLength = 1
  MonthLength = 2
  MaxTime = 1
  MaxConcurrent = 2
  MaxRefunds = 0
  MaxPowerLosses = 1
SYMMETRY Symmetry
INVARIANTS
  SettlementFollowsHold
  CapOvershootBounded
CHECK_DEADLOCK FALSE
