SPECIFICATION FairSpec
CONSTANTS
  None = None
  c1 = c1
  c2 = c2
  c3 = c3
  r1 = r1
  r2 = r2
  p1 = p1
  Calls = {c1, c2}
  Rooms = {r1, r2}
  Payments = {p1}
  ReserveAmount = 3
  DailyCap = 6
  MonthlyCap = 9
  ChargeAmounts = {0, 5}
  CreditAmounts = {5}
  DayLength = 1
  MonthLength = 2
  MaxTime = 0
  MaxConcurrent = 2
  MaxRefunds = 1
  MaxPowerLosses = 0
INVARIANTS
  OneRowPerKind
  OutcomeMatchesLedger
  BalanceConservation
  OverdraftBounded
PROPERTIES
  EveryCallEnds
  AccountsSpec
CHECK_DEADLOCK FALSE
