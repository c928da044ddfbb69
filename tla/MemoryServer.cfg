\* A mock task of two steps and an agent task whose save may raise share one
\* slot, each may be cancelled, one client watches, with a queue of two.
SPECIFICATION ProcessSpec
CONSTANTS
  m1 = m1  a1 = a1  c1 = c1  s1 = s1  k1 = k1
  NoSession = NoSession
  NoTask = NoTask
  Tasks = {m1, a1}
  Clients = {c1}
  Keys = {k1}
  QueueMax = 2
  MaxFrom = 2
  Sessions = {s1}
  Mode <- MCMode
  Session <- MCSession
  Key <- MCKey
  Steps = 2
  MaxConcurrent = 1
  Keyed = {a1}
  SetupMayFail = FALSE
  SaveMayFail = TRUE
  ReaderMayFail = FALSE
  AgentKinds = {"agent"}
  MaxChunks = 1
  MaxCancels = 1
INVARIANTS
  FeedTypeOK
  SeenInOrder
  LossAccounted
  ListenersExact
  StreamTellsStatus
  NothingLost
PROPERTIES
  StreamEnds
  WatcherInformed
