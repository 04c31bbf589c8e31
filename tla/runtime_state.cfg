SPECIFICATION Spec
CONSTANTS
  p1 = p1
  p2 = p2
  root = root
  specialist = specialist
  s1 = s1
  s2 = s2
  None = None
  Procs <- MCProcs
  Agents <- MCAgents
  Root <- root
  SessionIds <- MCSessionIds
  First <- s1
  MaxGen = 2
  MaxOps = 2
SYMMETRY Callers
INVARIANTS
  TypeOK
  CopiesUpToDate
  IsolatedUnlessTorn
PROPERTIES
  RetainsMutations
CHECK_DEADLOCK FALSE
