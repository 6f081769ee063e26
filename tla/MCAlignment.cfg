CONSTANTS
  top = top
  leftArm = leftArm
  rightArm = rightArm
  gripper = gripper
  Cameras = {top}
  AnchorCamera = top
  Arms = {leftArm, rightArm}
  Effectors = {gripper}
  Recordings <- MCRecordings
  Configs <- MCConfigs
  Period = 2
  ImageTolerance = 2
  StateTolerance = 2
  ActionTolerance = 1
  PairTolerance = 1
  EffectorTolerance = 2
  MaxDeviation = 10
  MaxHoldPercent = 80
  MaxHoldRun = 3
SPECIFICATION AlignSpec
INVARIANTS
  TicksInsideStreams
  ObservationsPrecedeTick
  TimeNeverRunsBack
  HoldIsZeroOrder
CHECK_DEADLOCK FALSE
