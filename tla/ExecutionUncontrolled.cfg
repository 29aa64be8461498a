SPECIFICATION Spec
CONSTANTS
  LimitChoices <- MCUncontrolled
  SizeMax = 2
  DepthBound = 2
  TryBound = 1
  WarnBound = 0
  Payloads = {0}
  ClockBound = 0
INVARIANT StoppedRunsNothing
