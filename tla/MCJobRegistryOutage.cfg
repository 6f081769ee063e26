CONSTANTS
  l1 = l1
  l2 = l2
  s1 = s1
  s2 = s2
  n1 = n1
  n2 = n2
  Jobs = {s1, s2}
  KindOf <- MCSlurm
  Nodes = {n1, n2}
  NoNode = NoNode
  NoJob = NoJob
  MaxAttempts = 2
  MaxCrashes = 0
  CrashDuring = {}
  Outages = TRUE
  Unreadable = FALSE
  PromptResumes = FALSE
SPECIFICATION Spec
INVARIANTS
  OneAttemptAtATime
CHECK_DEADLOCK FALSE
