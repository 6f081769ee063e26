CONSTANTS
  l1 = l1
  l2 = l2
  s1 = s1
  s2 = s2
  n1 = n1
  n2 = n2
  Jobs = {l1, l2, s1}
  KindOf <- MCMixed
  Nodes = {n1}
  NoNode = NoNode
  NoJob = NoJob
  MaxAttempts = 1
  MaxCrashes = 2
  CrashDuring = {"quiet", "claimed", "saving"}
  Outages = FALSE
  Unreadable = TRUE
  PromptResumes = FALSE
SPECIFICATION FairSpec
INVARIANTS
  RunnerIffRunning
  AtMostOneLocalTraining
CHECK_DEADLOCK FALSE
