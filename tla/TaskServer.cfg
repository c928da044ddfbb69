\* One mock task, two agent tasks of one session, two slots, one cancel each,
\* with every fault of the environment.
SPECIFICATION ServerSpec
CONSTANTS
  m1 = m1  a1 = a1  a2 = a2  a3 = a3  b1 = b1  n1 = n1  x1 = x1
  s1 = s1  k1 = k1  k2 = k2
  NoSession = NoSession
  Tasks = {m1, a1, a2}
  Clients = {}
  Keys = {k1}
  QueueMax = 2
  Sessions = {s1}
  Mode <- MCMode
  Session <- MCSession
  Key <- MCKey
  Steps = 3
  MaxConcurrent = 2
  Keyed = {a1, a2}
  SetupMayFail = TRUE
  SaveMayFail = TRUE
  ReaderMayFail = TRUE
  AgentKinds = {"agent"}
  MaxChunks = 1
  MaxCancels = 1
INVARIANTS
  ServerTypeOK
  SlotsConserved
  OneOwner
  SeqContiguous
  VerdictMatchesLog
  SilentAfterVerdict
  CancelStopsMock
  SessionIsolated
  MemoryHoldsSuccesses
PROPERTIES
  MemoryGrows
  Lifecycle
  EveryRunEnds
