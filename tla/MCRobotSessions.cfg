CONSTANTS
  tab = tab
  script = script
  Clients = {tab, script}
  NoClient = NoClient
  MaxSessions = 3
  Groups <- OneOrTwo
  SlowWorkers = FALSE
SPECIFICATION FairSpec
INVARIANTS
  BusExclusive
  FlagCoversBus
  OneRecordingAtATime
PROPERTIES
  SlotFreed
  StopHonoured
CHECK_DEADLOCK FALSE
