SPECIFICATION FairSpec
CONSTANTS
  LimitChoices <- MCLive
  SizeMax = 2
  DepthBound = 2
  TryBound = 1
  WarnBound = 0
  Payloads = {0}
  ClockBound = 2
PROPERTIES CancellationStops DeadlineStops
