\* Two agent tasks of one session, over a worker with two slots and one with a
\* single slot and no API key.
SPECIFICATION FeedSpec
CONSTANTS
  t1 = t1  t2 = t2  c1 = c1  s1 = s1  w1 = w1  w2 = w2  r1 = r1  r2 = r2
  NoTask = NoTask
  NoWorker = NoWorker
  Tasks = {t1, t2}
  Clients = {}
  Sessions = {s1}
  Workers = {w1, w2}
  Keyed = {w1}
  Modes <- AgentMode
  CancelModes = {}
  Session <- OneSession
  Steps = 1
  MaxConcurrent <- TwoOrOneSlots
  Readers = {}
  ToolKinds = {"stdout"}
  MaxChunks = 0
  MaxLines = 1
  MaxFaults = 1
  MaxFrom = 0
INVARIANTS
  DeliveredOnce
  IsolatedOnOneWorker
PROPERTIES
  Delivery
  
