\* A cancel request for a task that is over.
SPECIFICATION ServerSpec
CONSTANTS
  m1 = m1  a1 = a1  a2 = a2  a3 = a3  b1 = b1  n1 = n1  x1 = x1
  s1 = s1  k1 = k1  k2 = k2
  NoSession = NoSession
  Tasks = {m1}
  Clients = {}
  Keys = {k1, k2}
  QueueMax = 2
  Sessions = {s1}
  Mode <- MCMode
  Session <- MCSession
  Key <- MCKey
  Steps = 3
  MaxConcurrent = 1
  Keyed = {}
  SetupMayFail = FALSE
  SaveMayFail = FALSE
  ReaderMayFail = FALSE
  AgentKinds = {"agent"}
  MaxChunks = 0
  MaxCancels = 1
INVARIANTS
  VerdictEndsLog
