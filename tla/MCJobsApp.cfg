SPECIFICATION FairSpec
CONSTANTS
  Local = Local
  Slurm = Slurm
  HfCloud = HfCloud
  Imported = Imported
  Nowhere = Nowhere
  MaxCalls = 2
  Overtaking = FALSE
  Bounds <- SmallBounds
  Patient = TRUE
INVARIANTS  GateTruthful
PROPERTIES ListCatchesUp InferenceReturns
