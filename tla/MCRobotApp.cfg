SPECIFICATION FairSpec
CONSTANTS
  Robots = {arm}
  NoRobot = NoRobot
  NumEpisodes = 1
  LateStops = FALSE
  MaxStarts = 2
  MaxCalls = 2
  Patient = TRUE
  Overtaking = FALSE
  WaitEnough = TRUE
INVARIANTS ListMatchesServer StreamsOwned UploadsOwn
PROPERTIES CamerasHandedOver NotBounced EndLeadsOn TeleopStops
