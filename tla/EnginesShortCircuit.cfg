SPECIFICATION EnginesSpec
CONSTANTS
  Programs <- ShortCircuitPrograms
  Sources <- ShortCircuitSources
  MaxIterations = 2
  MaxAnswers = 5
  Raising <- MCShortCircuitRaising
  Comparable <- MCShortCircuitRaising
  MayStop = FALSE
INVARIANTS
  EnginesAgree
