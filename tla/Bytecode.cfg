SPECIFICATION BytecodeSpec
CONSTANTS
  Programs <- MCPrograms
  Sources <- MCSources
  MaxIterations = 2
  MaxAnswers = 5
  Raising <- MCRaising
  Comparable <- MCComparable
  MayStop = TRUE
  MaxDepth = 3
  Statements = 2
INVARIANTS
  GrownIsAccepted
  RunsAsVerified
  ComparedEnginesAgree
PROPERTIES
  StopIsNotCaught
