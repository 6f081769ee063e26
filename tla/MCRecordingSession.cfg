CONSTANTS
  r1 = r1
  r2 = r2
  NumEpisodes = 2
  Requests = {r1, r2}
  MaxPresses = 2
  MaxSessions = 2
SPECIFICATION FairSpec
INVARIANTS
  NothingLeftOpen
  ReportCountsKept
PROPERTIES
  StopEndsRecording
  StopHonoured
  ImplementsService
CHECK_DEADLOCK FALSE
