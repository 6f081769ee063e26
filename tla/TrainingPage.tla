---------------------------- MODULE TrainingPage ----------------------------
(***************************************************************************)
(* The training pages (frontend/src/pages/Training.tsx): the form that     *)
(* starts a job (ConfigurationMode) and the page that follows one          *)
(* (MonitoringMode).                                                       *)
(***************************************************************************)
EXTENDS InstallGate

-----------------------------------------------------------------------------
(* ConfigurationMode.                                                        *)

(* A local target without the training extra: the gate takes the place of    *)
(* the form.                                                                 *)
Gated(p, cs) ==
  IF p.target = Local /\ p.extra = "no" /\ p.gate = "none"
  THEN page' = ShowsGate("training", p) /\ calls' = Seeds(cs)
  ELSE page' = p /\ calls' = cs

ExtraArrives(i) ==
  /\ Arrives(i, "training")
  /\ IF ForThisMount(i)
     THEN Gated([page EXCEPT !.extra = IF calls[i].ok THEN "yes" ELSE "no"],
                Rest(i))
     ELSE calls' = Rest(i) /\ UNCHANGED page
  /\ UNCHANGED <<job, alive, log, rollout, wire, counts, mount>>

(* A local training that runs; a node that is free.                          *)
BusyArrives(i) ==
  /\ Arrives(i, "busy")
  /\ calls' = Rest(i)
  /\ page' = IF ForThisMount(i) THEN [page EXCEPT !.blocked = calls[i].ok]
             ELSE page
  /\ UNCHANGED <<job, alive, log, rollout, wire, counts, mount>>

ClusterArrives(i) ==
  /\ Arrives(i, "cluster")
  /\ calls' = Rest(i)
  /\ page' = IF ForThisMount(i) THEN [page EXCEPT !.cluster = calls[i].ok]
             ELSE page
  /\ UNCHANGED <<job, alive, log, rollout, wire, counts, mount>>

(* Every ten seconds.                                                        *)
PollCluster ==
  /\ OnConfig /\ ~Pending("cluster")
  /\ calls' = Sent("cluster", 0)
  /\ UNCHANGED <<job, alive, log, rollout, wire, counts, tab>>

(* Without the training extra a local target leaves no form, and no way back *)
(* but the header's.                                                         *)
FormShown ==
  /\ OnConfig /\ page.gate = "none"
  /\ page.target = Local => page.extra = "yes"

(* TargetCard.tsx.  The cloud's flavors are offered to whoever is logged in. *)
PickTarget(target) ==
  /\ FormShown /\ target # page.target
  /\ Gated([page EXCEPT !.target = target], calls)
  /\ UNCHANGED <<job, alive, log, rollout, wire, counts, mount>>

(* EssentialsCard.tsx.  A dataset can be exchanged, not taken away.          *)
ChooseDataset ==
  /\ FormShown /\ ~page.filled
  /\ page' = [page EXCEPT !.filled = TRUE]
  /\ UNCHANGED <<job, alive, log, rollout, wire, counts, calls, mount>>

(* Weights & Biases are switched on if they are there: nothing to see, and   *)
(* tried only in behaviours where they are missing.                          *)
ToggleWandb ==
  /\ FormShown /\ Settled /\ max.missing = "wandb"
  /\ Sends("wandb", 0)
  /\ UNCHANGED <<job, alive, log, rollout, wire, counts, tab>>

WandbArrives(i) ==
  /\ Arrives(i, "wandb")
  /\ IF ForThisMount(i) /\ ~calls[i].ok
     THEN page' = ShowsGate("wandb", page) /\ calls' = Seeds(Rest(i))
     ELSE calls' = Rest(i) /\ UNCHANGED page
  /\ UNCHANGED <<job, alive, log, rollout, wire, counts, mount>>

StartDisabled ==
  \/ page.busy \/ ~page.filled
  \/ page.target = Local /\ page.blocked
  \/ page.target = Slurm /\ ~page.cluster

StartShown == FormShown /\ ~StartDisabled

(* A local training first asks for the policy's package.                     *)
ClickStart ==
  /\ StartShown /\ Settled /\ page.target \in max.targets
  /\ Works
  /\ IF page.target = Local
     THEN Sends("policy", Local) /\ UNCHANGED page
     ELSE /\ Sends("start", page.target)
          /\ page' = [page EXCEPT !.busy = TRUE]
  /\ UNCHANGED <<job, alive, log, rollout, wire, mount>>

(* Missing: the dialog that installs it.                                     *)
PackageArrives(i) ==
  /\ Arrives(i, "policy")
  /\ IF calls[i].ok
     THEN /\ calls' = Append(Rest(i), Call("start", calls[i].arg,
                                           calls[i].mount))
          /\ page' = IF ForThisMount(i) THEN [page EXCEPT !.busy = TRUE]
                     ELSE page
     ELSE IF ForThisMount(i)
     THEN page' = ShowsGate("policy", page) /\ calls' = Seeds(Rest(i))
     ELSE calls' = Rest(i) /\ UNCHANGED page
  /\ UNCHANGED <<job, alive, log, rollout, wire, counts, mount>>

(* Success leads to the job's page from wherever the tab is; a refusal asks  *)
(* again for local trainings.                                                *)
StartArrives(i) ==
  /\ Arrives(i, "start")
  /\ IF calls[i].ok THEN GoesTo(Monitor, Rest(i))
     ELSE /\ calls' = Append(Rest(i), Call("busy", 0, calls[i].mount))
          /\ page' = IF ForThisMount(i) THEN [page EXCEPT !.busy = FALSE]
                     ELSE page
          /\ UNCHANGED <<mount, wire>>
  /\ UNCHANGED <<job, alive, log, rollout, counts>>

LeaveConfig ==
  /\ OnConfig /\ page.gate \in {"none", "training"} /\ Settled
  /\ Opens(JobsList, calls)
  /\ UNCHANGED <<job, alive, log, rollout, counts>>

-----------------------------------------------------------------------------
(* MonitoringMode.                                                           *)

OnMonitor == page.at = "monitor"
Loaded == OnMonitor /\ page.job # NoJob
LoadFailed == OnMonitor /\ page.gone /\ ~Loaded
(* The dialog that runs a checkpoint covers the page.                        *)
AtHand == Loaded /\ ~page.dialog.open

(* The history seeds the log.                                                *)
LogFileArrives(i) ==
  LET lines == calls[i].seen.lines IN
  /\ Arrives(i, "log-file")
  /\ calls' = Rest(i)
  /\ page' = IF ForThisMount(i) /\ calls[i].ok /\ lines # <<>>
             THEN [page EXCEPT !.log = lines] ELSE page
  /\ UNCHANGED <<job, alive, log, rollout, wire, counts, mount>>

(* The dialog is mounted with the first record.                              *)
ShowsJob(j) ==
  [page EXCEPT !.job = j,
     !.dialog = IF @.mounted THEN @
                ELSE [@ EXCEPT !.mounted = TRUE, !.step = page.picked]]

(* A tick: the record, then the log while it runs.                           *)
JobArrives(i) ==
  LET j == calls[i].seen.job IN
  /\ Arrives(i, "job")
  /\ CASE ~ForThisMount(i) -> calls' = Rest(i) /\ UNCHANGED page
       [] ForThisMount(i) /\ ~calls[i].ok ->
            calls' = Rest(i) /\ page' = [page EXCEPT !.gone = TRUE]
       [] OTHER ->
            /\ page' = ShowsJob(j)
            /\ calls' = IF j.state = "running"
                        THEN Append(Rest(i), Call("logs", 0, mount))
                        ELSE Rest(i)
  /\ UNCHANGED <<job, alive, log, rollout, wire, counts, mount>>

LogsArrive(i) ==
  /\ Arrives(i, "logs")
  /\ calls' = Rest(i)
  /\ page' = IF ForThisMount(i) /\ calls[i].ok
             THEN [page EXCEPT !.log = @ \o calls[i].seen.lines] ELSE page
  /\ UNCHANGED <<job, alive, log, rollout, wire, counts, mount>>

CheckpointsArrive(i) ==
  LET n == calls[i].seen.job.saved IN
  /\ ~(page.at = "jobs") /\ Arrives(i, "steps")
  /\ calls' = Rest(i)
  /\ page' = IF ForThisMount(i)
             THEN [page EXCEPT !.steps = n,
                     !.picked = IF @ \in 1..n THEN @ ELSE n]
             ELSE page
  /\ UNCHANGED <<job, alive, log, rollout, wire, counts, mount>>

(* Every second the record, every five the checkpoints, while the job runs   *)
(* or is not known.                                                          *)
PollJob ==
  /\ OnMonitor /\ page.job.state \in {"none", "running"}
  /\ Idle
  /\ calls' = Sent("job", 0)
  /\ UNCHANGED <<job, alive, log, rollout, wire, counts, tab>>
PollSteps ==
  /\ OnMonitor /\ page.job.state \in {"none", "running"} /\ Idle
  /\ calls' = Sent("steps", 0)
  /\ UNCHANGED <<job, alive, log, rollout, wire, counts, tab>>

(* The buttons in the header.                                                *)
Buttons ==
  IF page.job.state = "running" THEN {"stop"}
  ELSE {"delete"} \cup IF page.job.runner = Slurm /\ page.job.saved > 0
                       THEN {"resume"} ELSE {}

ClickStopRun ==
  /\ AtHand /\ Settled /\ "stop" \in Buttons
  /\ Sends("stop", 0)
  /\ UNCHANGED <<job, alive, log, rollout, wire, counts, tab>>

ClickResume ==
  /\ AtHand /\ Settled /\ "resume" \in Buttons
  /\ Works
  /\ Sends("resume", 0)
  /\ UNCHANGED <<job, alive, log, rollout, wire, tab>>

ClickDeleteRun ==
  /\ AtHand /\ Settled /\ "delete" \in Buttons
  /\ Sends("delete", 0)
  /\ UNCHANGED <<job, alive, log, rollout, wire, counts, tab>>

(* The record of a stop or a resumption is shown; what was deleted leads     *)
(* home from wherever the tab is.                                            *)
RecordShown(i) ==
  /\ calls' = Rest(i)
  /\ page' = IF ForThisMount(i) /\ calls[i].ok
             THEN [page EXCEPT !.job = calls[i].seen.job] ELSE page
  /\ UNCHANGED <<job, alive, log, rollout, wire, counts, mount>>
StopRunArrives(i) == Arrives(i, "stop") /\ RecordShown(i)
ResumeArrives(i) == Arrives(i, "resume") /\ RecordShown(i)
DeletionArrives(i) ==
  /\ Arrives(i, "delete")
  /\ IF calls[i].ok THEN GoesTo(JobsList, Rest(i))
     ELSE calls' = Rest(i) /\ UNCHANGED <<mount, page, wire>>
  /\ UNCHANGED <<job, alive, log, rollout, counts>>

PickRun(k) ==
  /\ AtHand /\ k \in 1..page.steps
  /\ page' = [page EXCEPT !.picked = k]
  /\ UNCHANGED <<job, alive, log, rollout, wire, counts, calls, mount>>

(* "Run on robot": the dialog keeps the step it was mounted with.            *)
RunOffered == AtHand /\ page.steps > 0 /\ page.picked # 0

OpenRun ==
  /\ RunOffered /\ Settled
  /\ runs < max.runs
  /\ page' = [page EXCEPT !.dialog = Opened(@)]
  /\ calls' = OpeningCalls(page.dialog, calls)
  /\ UNCHANGED <<job, alive, log, rollout, wire, counts, mount>>

(* "Jobs", or "Back to Jobs" under the error.                                *)
LeaveMonitor ==
  /\ OnMonitor /\ Settled
  /\ AtHand \/ LoadFailed
  /\ Opens(JobsList, calls)
  /\ UNCHANGED <<job, alive, log, rollout, counts>>

-----------------------------------------------------------------------------
TrainingUser ==
  \/ \E t \in max.targets : PickTarget(t)
  \/ ChooseDataset \/ ToggleWandb \/ GateUser
  \/ ClickStart \/ LeaveConfig
  \/ ClickStopRun \/ ClickResume \/ ClickDeleteRun
  \/ (\E k \in 1..max.saved : PickRun(k)) \/ OpenRun \/ LeaveMonitor

TrainingCallback(i) ==
  \/ ExtraArrives(i) \/ BusyArrives(i) \/ ClusterArrives(i)
  \/ WandbArrives(i) \/ GateCallback(i)
  \/ PackageArrives(i) \/ StartArrives(i)
  \/ LogFileArrives(i) \/ JobArrives(i) \/ LogsArrive(i)
  \/ CheckpointsArrive(i) \/ StopRunArrives(i) \/ ResumeArrives(i)
  \/ DeletionArrives(i)

=============================================================================
