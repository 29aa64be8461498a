SPECIFICATION JournalSpec
CONSTANTS
  ErrorHandlers = TRUE
  MaxFrames = 4
  MaxJournalCalls = 3
  MaxTexts = 1
  MaxErrors = 2
INVARIANTS
  UnhandledIsReturned
CHECK_DEADLOCK FALSE
