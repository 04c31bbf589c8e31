SPECIFICATION Spec
CONSTANTS
  Parts = {"dispatch"}
  s1 = s1
  s2 = s2
  s3 = s3
  k1 = k1
  Streams = {s1, s2, s3}
  Transferred = {s1}
  Completers = {k1}
  MaxInFlight = 1
  MaxAttempts <- MCMaxAttempts
  MaxSetups = 2
  MaxRequests = 2
  Buffer = 1
  MaxEvents <- MCMaxEvents
  MaxMutations = 1
  Providers = {"openai", "qwen", "claude", "gemini"}
  n1 = n1
  n2 = n2
  Names = {n1, n2}
  NoId = noid
  Responses <- MCResponses
  N = 3
  Limits <- MCLimits
  Tasks = {t1, t2, t3}
  NoTask = none
  AgentNames = {n1, n2}
  g1 = g1
  g2 = g2
  Tags = {g1, g2}
  TagLists <- MCTagLists
  TagCallers = {k1}
  NoAgent = none
  MaxRegistrations = 3
  Policies <- MCPolicies
  Sizes = {1, 3}
  MaxTurnsTaken = 3
  MaxExchanges = 1
  MaxTransfers = 0
  Recent = 2
INVARIANTS
  DispatchesCompleted
CHECK_DEADLOCK FALSE
