SPECIFICATION GraphicsSpec
CONSTANTS
  UserName = 1
  MaxNodes = 7
  MaxGraphicsCalls = 4
INVARIANTS
  GeneratedNamesRetained
CHECK_DEADLOCK FALSE
