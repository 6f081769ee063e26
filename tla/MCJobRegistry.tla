---------------------------- MODULE MCJobRegistry ----------------------------
(* TLC instances of JobRegistry.                                             *)
EXTENDS JobRegistry, TLC

CONSTANTS l1, l2, s1, s2, n1, n2

MCMixed == (l1 :> "local" @@ l2 :> "local" @@ s1 :> "slurm")
MCSlurm == (s1 :> "slurm" @@ s2 :> "slurm")

=============================================================================
