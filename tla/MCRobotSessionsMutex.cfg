CONSTANTS
  tab = tab
  script = script
  Clients = {tab, script}
  NoClient = NoClient
  MaxSessions = 2
  Groups <- TwoClients
  SlowWorkers = FALSE
SPECIFICATION Spec
INVARIANTS
  MutexAcrossModes
CHECK_DEADLOCK FALSE
