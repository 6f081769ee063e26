------------------------------- MODULE JobDesk -------------------------------
(***************************************************************************)
(* The browser tab of someone who trains a policy and runs it: what the    *)
(* list of jobs, the training pages and the inference page share, and the  *)
(* server as they see it: one job of the registry (JobRegistry has what is *)
(* behind it), its log, the rollout (RobotSessions) and the websocket that *)
(* tells the list of changes.  Checkpoint k is the k-th one saved.         *)
(***************************************************************************)
EXTENDS Requests

CONSTANTS
  Local, Slurm, HfCloud, Imported, Nowhere,  \* runners
  Bounds,    \* records of bounds, of which a behaviour has one
  Patient    \* the user lets requests end before going on

Runners == {Local, Slurm, HfCloud}

(* Python packages: what every training needs, what the policy needs, wandb. *)
Extras == {"training", "policy", "wandb"}

ASSUME JobDeskAssumption ==
  /\ Cardinality(Runners \cup {Imported, Nowhere}) = 5
  /\ Bounds \subseteq [targets : SUBSET Runners,
                        saved : Nat, lines : Nat, work : Nat, runs : Nat,
                        drops : Nat, missing : Extras \cup {"none"}]
  /\ Patient \in BOOLEAN

VARIABLES
  job,      \* the job's record
  alive,    \* whether its process runs
  file,     \* lines in the log file
  put,      \* lines that were put into the runner's queue
  drained,  \* lines that have left it
  lost,     \* history: lines that left a queue with its run, or to make
            \* room for a text of the file that did not have them
  rollout,  \* the inference process
  socket,   \* "closed", "connecting", "open" or "down"
  events,   \* messages on their way through it
  missed,   \* history: a change that this tab was not told
  pip,      \* the state of the missing package's InstallManager
  work, runs, drops,
  max,      \* the bounds of this behaviour: where trainings run, checkpoints
            \* of a job, lines of its log, trainings started, imported or
            \* resumed, rollouts, drops of the socket; the missing package
  page      \* the mounted page and its state

log == <<file, put, drained, lost>>
wire == <<socket, events, missed, drops>>
tab == <<mount, page>>
counts == <<work, runs, max, pip>>
vars == <<job, alive, log, rollout, wire, counts, calls, tab>>

(* One more training, import or resumption; one more rollout.                *)
Works == work < max.work /\ work' = work + 1 /\ UNCHANGED <<runs, max, pip>>
Runs == runs < max.runs /\ runs' = runs + 1 /\ UNCHANGED <<work, max, pip>>

NoJob == [state |-> "none", runner |-> Nowhere, saved |-> 0]
Reply == [job |-> NoJob, lines |-> <<>>, rollout |-> "off", pip |-> "idle"]
Record == [Reply EXCEPT !.job = job]
Changed == [type |-> "changed", job |-> NoJob]
Lines(a, b) == [k \in 1..(b - a) |-> a + k]

(* A patient user clicks between two polls, or while what a poll has found   *)
(* is fetched.                                                               *)
Settled == Patient => \A i \in DOMAIN calls :
                        calls[i].op \in {"logs", "rollout"}

(* The timers find the network idle: a round of polls takes less than a      *)
(* second.                                                                   *)
Idle == \A i \in DOMAIN calls :
          calls[i].op \notin {"log-file", "job", "logs", "steps"}

-----------------------------------------------------------------------------
(* Pages.                                                                    *)

(* InferenceModal.tsx.  Step 0 is none; `config` is the step whose policy    *)
(* configuration is shown.                                                   *)
NoDialog == [open |-> FALSE, mounted |-> FALSE, step |-> 0, steps |-> 0,
             config |-> 0, bound |-> FALSE, busy |-> FALSE]
JobsList == [at |-> "jobs", job |-> NoJob, steps |-> 0, picked |-> 0,
             dialog |-> NoDialog, importing |-> "no"]
Config == [at |-> "config", target |-> Slurm, filled |-> FALSE,
           extra |-> "unknown", blocked |-> FALSE, cluster |-> FALSE,
           busy |-> FALSE, gate |-> "none", install |-> "idle"]
Monitor == [at |-> "monitor", job |-> NoJob, gone |-> FALSE, log |-> <<>>,
            steps |-> 0, picked |-> 0, dialog |-> NoDialog]
Inference == [at |-> "inference", shown |-> "nothing", asked |-> FALSE,
              left |-> FALSE, confirm |-> FALSE]

(* The requests of a page's effects when it is mounted.                      *)
FirstCalls(p, m) ==
  CASE p.at = "jobs" -> <<Call("list", 0, m)>>
    [] p.at = "config" ->
         <<Call("training", 0, m), Call("busy", 0, m), Call("cluster", 0, m)>>
    [] p.at = "monitor" ->
         <<Call("log-file", 0, m), Call("steps", 0, m), Call("job", 0, m)>>
    [] OTHER -> <<>>

(* Only the list listens.                                                    *)
Opens(p, cs) ==
  LET m == FreshMount(cs) IN
  /\ mount' = m /\ page' = p
  /\ calls' = cs \o FirstCalls(p, m)
  /\ socket' = IF p.at = "jobs" THEN "connecting" ELSE "closed"
  /\ events' = <<>> /\ missed' = FALSE
  /\ UNCHANGED drops

(* navigate() to the page that is mounted already changes nothing.           *)
GoesTo(p, cs) ==
  IF page.at = p.at THEN calls' = cs /\ UNCHANGED <<mount, page, wire>>
  ELSE Opens(p, cs)

-----------------------------------------------------------------------------
(* useJobsChangedSignal.ts and the server's end of the socket.               *)

(* _notify_change.  A second one in a row would say nothing new.             *)
Notifies ==
  /\ events' = IF socket = "open" /\ \A k \in DOMAIN events :
                                        events[k] # Changed
               THEN Append(events, Changed) ELSE events
  /\ missed' = (missed \/ socket \in {"connecting", "down"})
  /\ UNCHANGED <<socket, drops>>

SocketOpens ==
  /\ socket = "connecting" /\ socket' = "open"
  /\ UNCHANGED <<job, alive, log, rollout, events, missed, drops, counts,
                 calls, tab>>

SocketDrops ==
  /\ socket = "open" /\ drops < max.drops /\ drops' = drops + 1
  /\ socket' = "down" /\ events' = <<>>
  /\ missed' = (missed \/ \E k \in DOMAIN events : events[k] = Changed)
  /\ UNCHANGED <<job, alive, log, rollout, counts, calls, tab>>

(* Three seconds later.                                                      *)
SocketReconnects ==
  /\ socket = "down" /\ socket' = "connecting"
  /\ UNCHANGED <<job, alive, log, rollout, events, missed, drops, counts,
                 calls, tab>>

-----------------------------------------------------------------------------
(* The job's process and the watchdog.                                       *)

Running == job.state = "running"

(* _consume_lines writes a line to the file, then puts it into the queue.    *)
WriteLine ==
  /\ Running /\ file = put /\ file < max.lines
  /\ file' = file + 1
  /\ UNCHANGED <<job, alive, put, drained, lost, rollout, wire, counts, calls,
                 tab>>
QueueLine ==
  /\ Running /\ put < file /\ put' = put + 1
  /\ UNCHANGED <<job, alive, file, drained, lost, rollout, wire, counts, calls,
                 tab>>

SaveCheckpoint ==
  /\ alive /\ job.saved < max.saved
  /\ job' = [job EXCEPT !.saved = @ + 1]
  /\ UNCHANGED <<alive, log, rollout, wire, counts, calls, tab>>

ProcessExits ==
  /\ alive /\ alive' = FALSE
  /\ UNCHANGED <<job, log, rollout, wire, counts, calls, tab>>

(* The runner goes, and its queue with it.                                   *)
Finalise ==
  /\ Running /\ ~alive
  /\ \E s \in {"done", "failed"} : job' = [job EXCEPT !.state = s]
  /\ put' = file /\ drained' = file
  /\ lost' = lost \cup ((drained + 1)..file)
  /\ Notifies
  /\ UNCHANGED <<alive, file, rollout, counts, calls, tab>>

(* job_progress, about once a second: the browser keeps up with it.          *)
ReportProgress ==
  /\ Running /\ alive /\ socket = "open" /\ events = <<>>
  /\ events' = <<[type |-> "progress", job |-> job]>>
  /\ UNCHANGED <<job, alive, log, rollout, socket, missed, drops, counts,
                 calls, tab>>

-----------------------------------------------------------------------------
(* The handlers of requests about jobs.                                      *)

(* What was missed is in the list; the record of one job; "busy" is whether  *)
(* a local training runs, this one or another.                               *)
ListsJobs(i) ==
  /\ Begins(i, "list")
  /\ Answers(i, TRUE, Record)
  /\ missed' = (missed /\ ~ForThisMount(i))
  /\ UNCHANGED <<job, alive, log, rollout, socket, events, drops, counts, tab>>

(* Whether another local training runs, whether a node is free.              *)
Looks(i) ==
  /\ \E op \in {"busy", "cluster"} : Begins(i, op)
  /\ \E yes \in BOOLEAN :
       Answers(i, yes \/ (calls[i].op = "busy" /\ Running
                            /\ job.runner = Local), Reply)
  /\ UNCHANGED <<job, alive, log, rollout, wire, counts, tab>>

(* Whether a package can be imported: that of the policy is looked for, the  *)
(* others were when the server was started.                                  *)
LooksForExtra(i) ==
  /\ \E op \in Extras : Begins(i, op)
  /\ \E yes \in BOOLEAN :
       /\ yes => calls[i].op = "policy" /\ pip = "done"
       /\ Answers(i, calls[i].op # max.missing \/ yes, Reply)
  /\ UNCHANGED <<job, alive, log, rollout, wire, counts, tab>>

(* Refused (another local training, a bad template) or failed: a record of   *)
(* a failed job that nobody is told of.                                      *)
StartsJob(i) ==
  /\ Begins(i, "start")
  /\ \/ /\ Answers(i, TRUE, Reply)
        /\ job' = [state |-> "running", runner |-> calls[i].arg, saved |-> 0]
        /\ alive' = TRUE /\ Notifies
     \/ /\ Answers(i, FALSE, Reply)
        /\ job' = [state |-> "failed", runner |-> calls[i].arg, saved |-> 0]
        /\ UNCHANGED <<alive, wire>>
     \/ Answers(i, FALSE, Reply) /\ UNCHANGED <<job, alive, wire>>
  /\ UNCHANGED <<log, rollout, counts, tab>>

ImportsModel(i) ==
  /\ Begins(i, "import")
  /\ \/ /\ Answers(i, TRUE, Reply)
        /\ \E n \in 1..max.saved :
             job' = [state |-> "done", runner |-> Imported, saved |-> n]
        /\ Notifies
     \/ Answers(i, FALSE, Reply) /\ UNCHANGED <<job, wire>>
  /\ UNCHANGED <<alive, log, rollout, counts, tab>>

(* The runner is stopped; the answer waits up to two seconds for the         *)
(* watchdog and carries the record as it is then.                            *)
StopsJob(i) ==
  /\ Begins(i, "stop") \/ Begins(i, "stop-card")
  /\ IF Running
     THEN /\ alive' = FALSE
          /\ calls' = [calls EXCEPT ![i].at = "waiting"]
     ELSE Answers(i, FALSE, Reply) /\ UNCHANGED alive
  /\ UNCHANGED <<job, log, rollout, wire, counts, tab>>
StopAnswers(i) ==
  /\ calls[i].op \in {"stop", "stop-card"} /\ calls[i].at = "waiting"
  /\ Answers(i, TRUE, Record)
  /\ UNCHANGED <<job, alive, log, rollout, wire, counts, tab>>

(* A resumption that cannot start its runner leaves a failed job.            *)
ResumesJob(i) ==
  /\ Begins(i, "resume")
  /\ LET ok == job.state \in {"done", "failed"} /\ job.runner = Slurm
                 /\ job.saved > 0 IN
       \/ /\ ok /\ job' = [job EXCEPT !.state = "running"] /\ alive' = TRUE
          /\ Answers(i, TRUE, [Record EXCEPT !.job.state = "running"])
          /\ Notifies
       \/ /\ ok /\ job' = [job EXCEPT !.state = "failed"]
          /\ Answers(i, FALSE, Reply) /\ UNCHANGED <<alive, wire>>
       \/ /\ ~ok /\ Answers(i, FALSE, Reply)
          /\ UNCHANGED <<job, alive, wire>>
  /\ UNCHANGED <<log, rollout, counts, tab>>

DeletesJob(i) ==
  LET ok == job.state \in {"done", "failed"} IN
  /\ Begins(i, "delete") \/ Begins(i, "delete-card")
  /\ Answers(i, ok, Reply)
  /\ IF ok
     THEN /\ job' = NoJob /\ Notifies
          /\ file' = 0 /\ put' = 0 /\ drained' = 0 /\ lost' = {}
     ELSE UNCHANGED <<job, log, wire>>
  /\ UNCHANGED <<alive, rollout, counts, tab>>

ReportsJob(i) ==
  /\ \E op \in {"job", "steps", "dialog-steps", "config"} : Begins(i, op)
  /\ Answers(i, job # NoJob, Record)
  /\ UNCHANGED <<job, alive, log, rollout, wire, counts, tab>>

DrainsLogs(i) ==
  /\ Begins(i, "logs")
  /\ Answers(i, job # NoJob,
             [Reply EXCEPT !.lines = Lines(drained, put)])
  /\ drained' = put
  /\ UNCHANGED <<job, alive, file, put, lost, rollout, wire, counts, tab>>

(* Mutant: the queue keeps what the file has shown.                          *)
FileReadOnly(i) ==
  /\ calls[i].at = "reading"
  /\ calls' = Append(RemoveAt(calls, i), [calls[i] EXCEPT !.at = "answered"])
  /\ UNCHANGED <<job, alive, log, rollout, wire, counts, tab>>

(* The log file is read, then the queue is drained into nothing, with what   *)
(* was printed in between.                                                   *)
ReadsFile(i) ==
  /\ Begins(i, "log-file")
  /\ calls' = [calls EXCEPT ![i].at = "reading", ![i].ok = job # NoJob,
                 ![i].seen = [Reply EXCEPT !.lines = Lines(0, file)]]
  /\ UNCHANGED <<job, alive, log, rollout, wire, counts, tab>>
FileRead(i) ==
  /\ calls[i].at = "reading"
  /\ calls' = Append(RemoveAt(calls, i), [calls[i] EXCEPT !.at = "answered"])
  /\ drained' = put
  /\ lost' = lost \cup ((Len(calls[i].seen.lines) + 1)..put)
  /\ UNCHANGED <<job, alive, file, put, rollout, wire, counts, tab>>

-----------------------------------------------------------------------------
(* The rollout (rollout.py).  It is active until a status request has found  *)
(* it exited, or it is stopped.                                              *)

StartsRollout(i) ==
  /\ Begins(i, "infer")
  /\ \/ rollout = "off" /\ rollout' = "setup" /\ Answers(i, TRUE, Reply)
     \/ UNCHANGED rollout /\ Answers(i, FALSE, Reply)
  /\ UNCHANGED <<job, alive, log, wire, counts, tab>>

(* The policy is loaded; its time is up and ten seconds more; it exits.      *)
RolloutGoesOn ==
  /\ \/ rollout = "setup" /\ rollout' = "rolling"
     \/ rollout = "rolling" /\ rollout' = "overdue"
     \/ rollout \in {"setup", "rolling", "overdue"} /\ rollout' = "exited"
  /\ UNCHANGED <<job, alive, log, wire, counts, calls, tab>>

ReportsRollout(i) ==
  /\ Begins(i, "rollout")
  /\ Answers(i, TRUE, [Reply EXCEPT !.rollout = rollout])
  /\ rollout' = IF rollout = "exited" THEN "off" ELSE rollout
  /\ UNCHANGED <<job, alive, log, wire, counts, tab>>

(* The process is terminated, or killed after five seconds.                  *)
StopsRollout(i) ==
  /\ Begins(i, "halt")
  /\ Answers(i, rollout # "off", Reply)
  /\ rollout' = "off"
  /\ UNCHANGED <<job, alive, log, wire, counts, tab>>

-----------------------------------------------------------------------------
(* InstallManager (utils/system.py): one installation at a time.             *)

InstallsExtra(i) ==
  /\ Begins(i, "install")
  /\ pip' = "installing"
  /\ Answers(i, pip # "installing", Reply)
  /\ UNCHANGED <<job, alive, log, rollout, wire, work, runs, max, tab>>

ReportsInstall(i) ==
  /\ Begins(i, "seed") \/ Begins(i, "progress")
  /\ Answers(i, TRUE, [Reply EXCEPT !.pip = pip])
  /\ UNCHANGED <<job, alive, log, rollout, wire, counts, tab>>

(* pip ends, or could not be started.                                        *)
InstallEnds ==
  /\ pip = "installing" /\ pip' \in {"done", "error"}
  /\ UNCHANGED <<job, alive, log, rollout, wire, work, runs, max, calls, tab>>

-----------------------------------------------------------------------------
Serves(i) ==
  \/ ListsJobs(i) \/ Looks(i) \/ LooksForExtra(i)
  \/ InstallsExtra(i) \/ ReportsInstall(i)
  \/ StartsJob(i) \/ ImportsModel(i)
  \/ StopsJob(i) \/ StopAnswers(i) \/ ResumesJob(i) \/ DeletesJob(i)
  \/ ReportsJob(i) \/ DrainsLogs(i) \/ ReadsFile(i) \/ FileRead(i)
  \/ StartsRollout(i) \/ ReportsRollout(i) \/ StopsRollout(i)

Watchdog == Finalise \/ ReportProgress
Process == WriteLine \/ QueueLine \/ SaveCheckpoint \/ ProcessExits
Socket == SocketOpens \/ SocketReconnects

=============================================================================
