\* Two agent tasks of one session, on two workers.
SPECIFICATION FeedSpec
CONSTANTS
  t1 = t1  t2 = t2  c1 = c1  s1 = s1  w1 = w1  w2 = w2  r1 = r1  r2 = r2
  NoTask = NoTask
  NoWorker = NoWorker
  Tasks = {t1, t2}
  Clients = {}
  Sessions = {s1}
  Workers = {w1, w2}
  Keyed = {w1, w2}
  Modes <- AgentMode
  CancelModes = {}
  Session <- OneSession
  Steps = 1
  MaxConcurrent <- TwoOrOneSlots
  Readers = {}
  ToolKinds = {"stdout"}
  MaxChunks = 0
  MaxLines = 1
  MaxFaults = 0
  MaxFrom = 0
PROPERTIES
  SessionKeepsTurns
