CONSTANTS
  r1 = r1
  r2 = r2
  NumEpisodes = 1
  Requests = {r1}
  MaxPresses = 1
  MaxSessions = 1
SPECIFICATION FairSpec
PROPERTIES
  EndIsReported
CHECK_DEADLOCK FALSE
