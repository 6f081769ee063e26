----------------------------- MODULE InstallGate -----------------------------
(***************************************************************************)
(* What the training form shows when a Python package is missing: instead  *)
(* of the form (TrainingExtraGate.tsx), or in a dialog over it             *)
(* (PolicyExtraDialog.tsx, WandbInstallDialog.tsx), the button that        *)
(* installs it and the progress (hooks/useInstallExtra.ts,                 *)
(* InstallProgress.tsx).  page.gate is the package whose gate is shown,    *)
(* page.install the gate's own idea of the installation.                   *)
(***************************************************************************)
EXTENDS InferencePages

OnConfig == page.at = "config"
GateShown == OnConfig /\ page.gate # "none"

(* Mutant: a gate begins with its own idea.                                  *)
SeedsNot(cs) == cs

(* A gate that is shown asks first how far an installation is.               *)
Seeds(cs) == Append(cs, Call("seed", 0, mount))

(* The dialog about wandb stays mounted while it is closed, with its idea.   *)
ShowsGate(extra, p) ==
  [p EXCEPT !.gate = extra,
            !.install = IF extra = "wandb" THEN @ ELSE "idle"]

SeedArrives(i) ==
  /\ Arrives(i, "seed")
  /\ calls' = Rest(i)
  /\ page' = IF ForThisMount(i) /\ GateShown
             THEN [page EXCEPT !.install = calls[i].seen.pip] ELSE page
  /\ UNCHANGED <<job, alive, log, rollout, wire, counts, mount>>

(* "Install Now" and "Try again".                                            *)
InstallOffered == GateShown /\ page.install = "idle"
RetryOffered == GateShown /\ page.install = "error"

ClickInstall ==
  /\ InstallOffered /\ Settled
  /\ Sends("install", 0)
  /\ page' = [page EXCEPT !.install = "installing"]
  /\ UNCHANGED <<job, alive, log, rollout, wire, counts, mount>>

(* "Already in progress" is as good as a start.                              *)
InstallArrives(i) ==
  /\ Arrives(i, "install")
  /\ calls' = Rest(i)
  /\ UNCHANGED <<job, alive, log, rollout, wire, counts, tab>>

ClickRetry ==
  /\ RetryOffered
  /\ page' = [page EXCEPT !.install = "idle"]
  /\ UNCHANGED <<job, alive, log, rollout, wire, counts, calls, mount>>

(* Every 1.5 seconds while the gate thinks that it installs.                 *)
PollInstall ==
  /\ OnConfig /\ page.install = "installing" /\ ~Pending("progress")
  /\ calls' = Sent("progress", 0)
  /\ UNCHANGED <<job, alive, log, rollout, wire, counts, tab>>

(* What ends an installation ends the polling; nothing else is taken over.   *)
ProgressArrives(i) ==
  LET seen == calls[i].seen.pip IN
  /\ Arrives(i, "progress")
  /\ calls' = Rest(i)
  /\ page' = IF ForThisMount(i) /\ OnConfig /\ seen # "installing"
             THEN [page EXCEPT !.install = seen] ELSE page
  /\ UNCHANGED <<job, alive, log, rollout, wire, counts, mount>>

(* Answers to a gate that is gone change nothing; the answer to the seed is  *)
(* dropped whenever a dialog is closed.  The training's gate has no close.   *)
CloseGate ==
  LET unheard == IF page.gate = "wandb" THEN {"seed"}
                 ELSE {"seed", "progress"} IN
  /\ GateShown /\ page.gate # "training"
  /\ page' = [page EXCEPT !.gate = "none",
                !.install = IF page.gate = "wandb" THEN @ ELSE "idle"]
  /\ calls' = Subsequence(calls, {i \in DOMAIN calls :
                                    calls[i].op \notin unheard})
  /\ UNCHANGED <<job, alive, log, rollout, wire, counts, mount>>

-----------------------------------------------------------------------------
GateUser == ClickInstall \/ ClickRetry \/ CloseGate
GateCallback(i) == SeedArrives(i) \/ InstallArrives(i) \/ ProgressArrives(i)

=============================================================================
