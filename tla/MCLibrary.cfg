SPECIFICATION Spec
CONSTANTS
  Callbacks = {"a"}
  Promises = {1}
  MaxEmits = 2
  MaxListeners = 3
  Signals = {1, 2}
  Followers = {3}
  Handlers = {"f"}
  MaxRecords = 3
  MaxDispatches = 2
  Doms = {1, 2}
  MaxCalls = 3
  MaxErrors = 2
  MaxTimers = 1
  MaxMoves = 1
  Subscribers = {"f", "g"}
  MaxPublishes = 2
  MaxText = 5
  MaxRequests = 2
  Values = {1, 2}
  MaxList = 3
  MaxAsks = 3
  MaxOthers = 2
  MaxFd = 2
  MaxOpens = 3
  MaxIo = 1
  FileLength = 3
  Components = {"", ".", "..", "a", "b"}
  MaxComponents = 3
  cwd <- Working
  MaxNodes = 2
  MaxHooks = 2
  MaxAsserts = 1
CHECK_DEADLOCK FALSE
INVARIANTS
  ListenersHeard
  SequencesWhole
  FilesReached
  TestsJudged
PROPERTIES
  ErrorsFindHandlers
  TreesHandled
