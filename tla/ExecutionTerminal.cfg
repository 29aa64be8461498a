SPECIFICATION Spec
CONSTANTS
  LimitChoices <- MCCancellable
  SizeMax = 2
  DepthBound = 2
  TryBound = 0
  WarnBound = 0
  Payloads = {0}
  ClockBound = 0
INVARIANT OneTerminalDiagnostic
