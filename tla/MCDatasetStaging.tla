-------------------------- MODULE MCDatasetStaging --------------------------
(* TLC instances of DatasetStaging.                                          *)
EXTENDS DatasetStaging, TLC

CONSTANTS j1, j2, j3, d1, d2

MCJobs == {j1, j2, j3}
MCDatasets == {d1, d2}
MCTearable == {d2}
MCMaxVersion == (d1 :> 1 @@ d2 :> 0)

(* Two jobs share a dataset and a third stages another one: enough for a     *)
(* reader, a job waiting for the same lock, and a sweep that wants the copy. *)
TwoOnOneInit ==
  /\ Init
  /\ want = (j1 :> d1 @@ j2 :> d1 @@ j3 :> d2)
  /\ copy[d1] # "partial" /\ copy[d2] = "partial"

TwoOnOneSpec == TwoOnOneInit /\ [][Next]_vars /\ Fairness

=============================================================================
