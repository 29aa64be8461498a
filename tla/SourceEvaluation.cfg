SPECIFICATION EvaluationSpec
CONSTANTS
  AnonymousDelegates = TRUE
  MaxEvaluations = 2
  MaxStatements = 2
  MaxNesting = 3
PROPERTIES
  FramesKeptAcrossCalls
CHECK_DEADLOCK FALSE
