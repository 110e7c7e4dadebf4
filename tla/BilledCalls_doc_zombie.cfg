SPECIFICATION Spec
CONSTANTS
  None = None
  c1 = c1
  c2 = c2
  c3 = c3
  r1 = r1
  r2 = r2
  p1 = p1
  Calls = {c1}
  Rooms = {r1}
  Payments = {p1}
  ReserveAmount = 3
  DailyCap = 100
  MonthlyCap = 100
  ChargeAmounts = {5}
  CreditAmounts = {5}
  DayLength = 1
  MonthLength = 2
  MaxTime = 0
  MaxConcurrent = 2
  MaxRefunds = 0
  MaxPowerLosses = 0
INVARIANTS
  SettleFailureStaysAsZombie
CHECK_DEADLOCK FALSE
