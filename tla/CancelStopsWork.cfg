\* A cancel request for a task in its agent.
SPECIFICATION ServerSpec
CONSTANTS
  m1 = m1  a1 = a1  a2 = a2  a3 = a3  b1 = b1  n1 = n1  x1 = x1
  s1 = s1  k1 = k1  k2 = k2
  NoSession = NoSession
  Tasks = {a1}
  Clients = {}
  Keys = {k1, k2}
  QueueMax = 2
  Sessions = {s1}
  Mode <- MCMode
  Session <- MCSession
  Key <- MCKey
  Steps = 3
  MaxConcurrent = 1
  Keyed = {a1}
  SetupMayFail = FALSE
  SaveMayFail = FALSE
  ReaderMayFail = FALSE
  AgentKinds = {"agent"}
  MaxChunks = 2
  MaxCancels = 1
INVARIANTS
  CancelStopsWork
