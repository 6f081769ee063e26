------------------------------ MODULE MCJobsApp ------------------------------
(* The pages about jobs on small instances: one with a log and a training    *)
(* that is resumed, one with a rollout, one with an imported model of two    *)
(* checkpoints, one with a socket that drops, and one for every package that *)
(* may be missing.                                                           *)
EXTENDS JobsApp

SmallBounds ==
  {[targets |-> {Slurm}, saved |-> 1, lines |-> 2,
    work |-> 2, runs |-> 0, drops |-> 0, missing |-> "none"],
   [targets |-> {Local}, saved |-> 1, lines |-> 0,
    work |-> 1, runs |-> 1, drops |-> 0, missing |-> "none"],
   [targets |-> {}, saved |-> 2, lines |-> 0,
    work |-> 1, runs |-> 1, drops |-> 0, missing |-> "none"],
   [targets |-> {HfCloud, Local}, saved |-> 1, lines |-> 0,
    work |-> 1, runs |-> 0, drops |-> 1, missing |-> "none"]}
  \cup
  {[targets |-> IF m = "wandb" THEN {} ELSE {Local}, saved |-> 0, lines |-> 0,
    work |-> 1, runs |-> 0, drops |-> 0, missing |-> m] : m \in Extras}

=============================================================================
