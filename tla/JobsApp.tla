------------------------------- MODULE JobsApp -------------------------------
(***************************************************************************)
(* Training a policy and running it from the browser: the list of jobs,    *)
(* the training pages and the inference page over the server they share    *)
(* (JobDesk), as one user in one tab meets them.                           *)
(***************************************************************************)
EXTENDS JobsListPage, TrainingPage

Init ==
  /\ job = NoJob /\ alive = FALSE
  /\ file = 0 /\ put = 0 /\ drained = 0 /\ lost = {}
  /\ rollout = "off"
  /\ socket = "connecting" /\ events = <<>> /\ missed = FALSE /\ drops = 0
  /\ work = 0 /\ runs = 0 /\ max \in Bounds /\ pip = "idle"
  /\ mount = 1 /\ page = JobsList
  /\ calls = <<Call("list", 0, 1)>>

User == JobsUser \/ TrainingUser \/ InferenceUser

Callback(i) == JobsCallback(i) \/ TrainingCallback(i) \/ InferenceCallback(i)

Browser ==
  \/ Socket \/ MessageArrives
  \/ PollJob \/ PollSteps \/ PollCluster \/ PollRollout \/ PollInstall

Next ==
  \/ User \/ Browser
  \/ \E i \in DOMAIN calls : Callback(i) \/ Serves(i)
  \/ Watchdog \/ Process \/ RolloutGoesOn \/ InstallEnds \/ SocketDrops

Spec == Init /\ [][Next]_vars

(* The browser runs callbacks, timers and messages, the server answers and   *)
(* its watchdog ticks.  Neither the user nor a training nor a rollout owes   *)
(* anything.                                                                 *)
FairSpec ==
  /\ Spec
  /\ WF_vars(\E i \in DOMAIN calls : Serves(i))
  /\ WF_vars(\E i \in DOMAIN calls : Callback(i))
  /\ WF_vars(Socket) /\ WF_vars(MessageArrives) /\ WF_vars(PollRollout)
  /\ WF_vars(Finalise) /\ WF_vars(ReportProgress)

-----------------------------------------------------------------------------
TypeOK ==
  /\ job.state \in {"none", "running", "done", "failed"}
  /\ job.saved \in 0..max.saved /\ alive \in BOOLEAN
  /\ drained \in 0..put /\ put \in 0..file /\ file \in 0..max.lines
  /\ lost \subseteq 1..max.lines
  /\ rollout \in {"off", "setup", "rolling", "overdue", "exited"}
  /\ socket \in {"closed", "connecting", "open", "down"}
  /\ Len(events) <= 2 /\ missed \in BOOLEAN
  /\ work \in 0..max.work /\ runs \in 0..max.runs /\ drops \in 0..max.drops
  /\ page.at \in {"jobs", "config", "monitor", "inference"}
  /\ pip \in {"idle", "installing", "done", "error"}
  /\ \A i \in DOMAIN calls :
       calls[i].at \in {"sent", "reading", "waiting", "answered"}

(* The log of a training's page never runs back.  One line may be there      *)
(* twice in a row, where the file ends and the queue goes on: the one that   *)
(* was written but not yet put into the queue when the file was read.  Of    *)
(* the lines up to the last the page lacks only those that a run's end took  *)
(* with its queue, or that were printed between the reading of the file and  *)
(* the draining of the queue (server.py, get_job_log_file; Training.tsx      *)
(* seeds the log from the file and goes on from the queue).                  *)
LogInOrder ==
  (OnMonitor /\ job # NoJob) =>
    LET shown == page.log IN
    /\ \E n \in 0..Len(shown) : \A a, b \in DOMAIN shown : a < b =>
         \/ shown[a] < shown[b]
         \/ shown[a] = shown[b] /\ a = n /\ b = n + 1
    /\ \A a \in DOMAIN shown : \A k \in 1..shown[a] :
         k \in lost \/ \E b \in DOMAIN shown : shown[b] = k

(* No line is there twice: the queue is drained when the file is read, "so   *)
(* we don't double-display lines that were buffered when we landed"          *)
(* (Training.tsx), "so the next /logs poll returns only lines that arrived   *)
(* after this call" (server.py).                                             *)
NoLineTwice ==
  OnMonitor => \A a, b \in DOMAIN page.log :
                 a # b => page.log[a] # page.log[b]

(* The list shows in the end what the registry has, unless it was not told   *)
(* (JobsSection.tsx never polls; server.py pushes jobs_changed and           *)
(* job_progress).                                                            *)
ListCatchesUp ==
  (OnJobs /\ page.job # job /\ ~missed)
    ~> (~OnJobs \/ page.job = job \/ missed)

(* A gate knows of the installation: it shows one while it runs, and offers  *)
(* none then; it says "complete" of nothing else (useInstallExtra.ts: seed   *)
(* and polling against the optimistic state of handleInstall).               *)
GateTruthful ==
  (/\ GateShown
   /\ \A i \in DOMAIN calls :
        calls[i].op \notin {"seed", "progress", "install"})
  => /\ pip = "installing" => page.install = "installing"
     /\ page.install = "installing" => pip # "idle"
     /\ page.install = "done" => pip = "done"

(* The inference page is left when the run is over, and a run that hangs is  *)
(* stopped and left too (Inference.tsx, the safety net: "would block the     *)
(* natural completion path").                                                *)
InferenceReturns ==
  (OnInference /\ rollout \in {"off", "overdue", "exited"}) ~> ~OnInference

=============================================================================
