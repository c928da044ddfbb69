\* One task of any mode, over two workers of which one has no API key, and a client.
SPECIFICATION FeedSpec
CONSTANTS
  t1 = t1  t2 = t2  c1 = c1  s1 = s1  w1 = w1  w2 = w2  r1 = r1  r2 = r2
  NoTask = NoTask
  NoWorker = NoWorker
  Tasks = {t1}
  Clients = {c1}
  Sessions = {s1}
  Workers = {w1, w2}
  Keyed = {w1}
  Modes <- AnyMode
  CancelModes = {"mock"}
  Session <- OneSession
  Steps = 1
  MaxConcurrent <- TwoOrOneSlots
  Readers = {r1}
  ToolKinds = {"stdout"}
  MaxChunks = 0
  MaxLines = 1
  MaxFaults = 1
  MaxFrom = 0
INVARIANTS
  RedisTypeOK
  NumbersAccounted
  StatusFollowsLog
  SilentAfterVerdict
  SentInTwoOrders
  LossAccounted
PROPERTIES
  VerdictRevisedOnce
  VerdictBecomesStatus
  WatcherInformed
