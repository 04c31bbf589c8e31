SPECIFICATION Spec
CONSTANTS
  root = root
  specialist = specialist
  None = None
  Agents <- MCAgents
  Root <- root
  Subagents <- MCSubagents
  Resolvable <- MCResolvable
  MaxTokens <- MCMaxTokens
  MaxSteps = 3
  MaxHistory = 2
  ContextLimit = 6
  Filters = {"none"}
  Recent = 1
  Usages <- MCUsages
  MaxCalls = 2
  MaxTurns = 2
  MaxCrashes = 0
INVARIANT
  StepWithinBudget
CHECK_DEADLOCK FALSE
