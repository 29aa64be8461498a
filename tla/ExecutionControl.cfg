SPECIFICATION Spec
CONSTANTS
  LimitChoices <- MCControlled
  SizeMax = 4
  DepthBound = 3
  TryBound = 1
  WarnBound = 1
  Payloads = {0, 2}
  ClockBound = 1
INVARIANTS
  TypeOK CallsBalance BudgetOverrun DispatchWithinBudgets
  UncatchableStop LateLineDropped
PROPERTIES FirstReasonWins
