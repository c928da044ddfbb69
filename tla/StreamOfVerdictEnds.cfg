\* A verdict logged between the snapshot and the registration of the listener.
SPECIFICATION ProcessSpec
CONSTANTS
  m1 = m1  a1 = a1  c1 = c1  s1 = s1  k1 = k1
  NoSession = NoSession
  NoTask = NoTask
  Tasks = {m1}
  Clients = {c1}
  Keys = {k1}
  QueueMax = 8
  MaxFrom = 0
  Sessions = {s1}
  Mode <- MCMode
  Session <- MCSession
  Key <- MCKey
  Steps = 1
  MaxConcurrent = 1
  Keyed = {}
  SetupMayFail = FALSE
  SaveMayFail = FALSE
  ReaderMayFail = FALSE
  AgentKinds = {"agent"}
  MaxChunks = 0
  MaxCancels = 0
PROPERTIES
  StreamOfVerdictEnds
