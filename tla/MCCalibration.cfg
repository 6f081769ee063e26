CONSTANTS
  MaxRuns = 2
  MaxDevices = 2
  Bounds <- ArmsOrCams
  MaxPolls = 1
  Patient = TRUE
  OneClick = TRUE
  Overtaking = FALSE
  SlowDevices = FALSE
SPECIFICATION FairSpec
INVARIANTS
  CamerasKept
  CalibratesOwnArm
  DeviceReleased
PROPERTIES
  LeavingStops
  ViewCatchesUp
CHECK_DEADLOCK FALSE
