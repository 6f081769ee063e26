CONSTANTS
  j1 = j1
  j2 = j2
  j3 = j3
  d1 = d1
  d2 = d2
  Jobs <- MCJobs
  Datasets <- MCDatasets
  NoJob = NoJob
  NoDataset = NoDataset
  Capacity = 3
  MinFree = 0
  MaxVersion <- MCMaxVersion
  Tearable <- MCTearable
SPECIFICATION TwoOnOneSpec
INVARIANTS
  LocalCopyComplete
  LocalCopyFresh
PROPERTIES
  CopyStableWhileRead
  EveryJobTrains
CHECK_DEADLOCK FALSE
