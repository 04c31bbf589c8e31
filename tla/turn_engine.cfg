SPECIFICATION FairSpec
CONSTANTS
  root = root
  specialist = specialist
  None = None
  Agents <- MCAgents
  Root <- root
  Subagents <- MCSubagents
  Resolvable <- MCResolvable
  MaxTokens <- MCMaxTokens
  MaxSteps = 3
  MaxHistory = 1
  ContextLimit = 6
  Filters = {"none", "tools", "recent"}
  Recent = 1
  Usages <- MCUsages
  MaxCalls = 2
  MaxTurns = 2
  MaxCrashes = 1
INVARIANTS
  TypeOK
  RequestWellFormed
  OwnerCoherent
  PromptCoherent
  UsageConserved
  OvershootBounded
  SessionHasConversation
  SuccessIsDurable
PROPERTIES
  ContractSpec
  TurnFinishes
CHECK_DEADLOCK FALSE
