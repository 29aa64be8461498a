SPECIFICATION ServicesSpec
CONSTANTS
  Contents <- MCContents
  Texts <- MCTexts
  Modes <- MCModes
  MaxIdentifier = 5
  MaximumOpenFiles = 2
  MaximumReadBytes = 4
  MaxSize = 5
  AnonymousDelegates = FALSE
  MaxEvaluations = 2
  MaxStatements = 2
  MaxNesting = 3
  ErrorHandlers = FALSE
  MaxFrames = 4
  MaxJournalCalls = 3
  MaxTexts = 2
  MaxErrors = 2
  WarningIds = {"a:b", "c:d"}
  MaxWarningSteps = 5
  Sources = {s}
  Destructors = 1
  MaxListeners = 2
  MaxHandlers = 5
  MaxDispatches = 5
  CollectedSources = {s1, s2}
  Listeners = {l1, l2}
  Callbacks = {h1, h2}
  MaxCollections = 4
  UserName = 1
  MaxNodes = 7
  MaxGraphicsCalls = 4
  SetQuestions <- MCSetQuestions
  Arrays <- MCArrays
  SubscriptTuples <- MCSubscripts
  AssignedValues <- MCValues
  MaxIndexings = 2
  ArrayCalls <- MCArrayCalls
  NumericCalls <- MCNumericCalls
  ClassNames <- MCNames
  Declarations <- MCDeclarations
INVARIANTS
  FilesConsistent
  TemporaryHandlesStay
  JournalIsTrue
  SettingsComeBack
  ListenersAreTracked
  GraphIsSound
  SetsMeanWhatTheySay
  ArraysMeanWhatTheySay
  ReductionsMeanWhatTheySay
  ClassesKeepPromises
PROPERTIES
  TransfersWhereTold
  FramesKeptAcrossCalls
  CollectsExactly
  UserNamesSurvive
  IndexingIsExact
\* Every part stops at its bound.
CHECK_DEADLOCK FALSE
