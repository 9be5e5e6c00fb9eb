SPECIFICATION Spec
INVARIANTS LibraryTypeOK WindowBound LevelExact TwiceTheLimit ExpiredEntriesGo TotalsAgree
           CountsTrackOpen ChoiceIsLeastButForRaces RotationIsEven RingFollowsNodes WordsComeBack
PROPERTIES SlidingLogSpec CacheIsRegister OnlyItsKeysMove StopEnds TrafficFollowsHealth
CHECK_DEADLOCK FALSE
CONSTANTS
  o1 = o1 o2 = o2 o3 = o3
  MaxTime = 7
  MaxRequests = 2
  WindowSize = 3
  Batches <- MCBatches
  Capacity = 2
  RefillRate = 1
  Amounts = {0, 1, 3}
  Keys = {"k", "l"}
  Limit = 1
  Window = 3
  MaxLag = 1
  CacheKeys = {"k", "l"}
  Bodies = {"x", "y"}
  TTLs = {0, 2}
  CleanupInterval = 3
  CleanupLag = 1
  NoEntry = NoEntry
  Callers = {1, 2, 3}
  Backends = {o1, o2}
  BackendLists <- MCBackendLists
  NoBackend = NoBackend
  MaxInt = 7
  ListLengths = {1, 2, 3}
  MaxSelections = 18
  Nodes = {o1, o2, o3}
  Hashes = {0, 1, 2, 3, 4, 5, 6}
  HashesOf <- MCHashesOf
  MaxOccurrences = 3
  NodeLists <- MCNodeLists
  NoNode = NoNode
  StatusCodes = {200, 400}
  Latencies = {0, 2}
  MeteredOrigins = {"o", "p"}
  MaxRecorded = 2
  Loops = {1, 2}
  Probed = {o1, o2, o3}
  NoPath = {o3}
  ProbeLists <- MCProbeLists
  Letters = {"x"}
  NonASCII = {"e"}
  OfBytes <- MCOfBytes
  MaxLength = 3
  MaxElements = 2
  NoArray = NoArray
