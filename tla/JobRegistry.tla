----------------------------- MODULE JobRegistry -----------------------------
(***************************************************************************)
(* The registry of training jobs, lelab/jobs.py: what it keeps in memory,  *)
(* what it persists in each job.json, and the processes and Slurm jobs it  *)
(* follows.  Request handlers run in the server's thread pool beside one   *)
(* watchdog thread; the registry's lock covers start and resume as a whole *)
(* but neither the watchdog's writes nor the removal of a job's directory. *)
(*                                                                         *)
(* An attempt of a job is one local process or one Slurm job; its number   *)
(* stands for the pid or the Slurm id.  A job that is resumed has several. *)
(***************************************************************************)
EXTENDS Integers, FiniteSets

CONSTANTS
  Jobs,         \* job ids
  KindOf,       \* KindOf[j]: target.runner, "local" or "slurm"
  Nodes, NoNode,
  NoJob,
  MaxAttempts,  \* bound: attempts of one job
  MaxCrashes,   \* bound: restarts of the server
  CrashDuring,  \* the moments at which the server may be killed
  Outages,      \* whether a query may hit a restarting Slurm controller
  Unreadable,   \* whether sbatch may print no id that can be read
  PromptResumes \* whether a resume may come before the watchdog has saved the
                \* end of the job's last attempt

ASSUME RegistryAssumption ==
  /\ KindOf \in [Jobs -> {"local", "slurm"}]
  /\ NoNode \notin Nodes
  /\ NoJob \notin Jobs
  /\ MaxAttempts \in Nat \ {0}
  /\ MaxCrashes \in Nat
  /\ CrashDuring \subseteq {"quiet", "claimed", "spawned", "saving"}
  /\ Outages \in BOOLEAN /\ Unreadable \in BOOLEAN
  /\ PromptResumes \in BOOLEAN

VARIABLES
  state,    \* state[j]: JobRecord.state in _records, or "absent"
  ref,      \* ref[j]: process_pid / slurm_job_id, the attempt it names or 0
  node,     \* node[j]: node_name
  runner,   \* runner[j]: what _runners holds: "none", "own", or "tail"
  disk,     \* disk[j]: the record in job.json, or Missing
  proc,     \* proc[j][a]: "none", "alive", "ok" or "bad" (nonzero exit)
  call,     \* the start or resume in progress, with the lock held
  watchdog, \* the job the watchdog is finalising, and how far it is
  removing, \* jobs popped by delete whose directory still is to be removed
  deleted,  \* jobs whose delete has returned (history)
  unread,   \* attempts whose id could not be read at the launch (history)
  crashes   \* restarts so far

vars == <<state, ref, node, runner, disk, proc, call, watchdog, removing,
          deleted, unread, crashes>>

memory == <<state, ref, node, runner>>

Attempts == 1..MaxAttempts
Terminal == {"done", "failed", "interrupted"}
States == Terminal \cup {"absent", "running"}

(* The fields of job.json that a restart reads back.                         *)
Meta == [state : States, ref : 0..MaxAttempts, node : Nodes \cup {NoNode}]
Missing == [state |-> "absent", ref |-> 0, node |-> NoNode]
MetaOf(j) == [state |-> state[j], ref |-> ref[j], node |-> node[j]]

NoCall == [op |-> "none", job |-> NoJob, at |-> "none", attempt |-> 0,
           node |-> NoNode]
Claimed(op, j) == [op |-> op, job |-> j, at |-> "claimed", attempt |-> 0,
                   node |-> NoNode]
Idle == [at |-> "idle", job |-> NoJob, meta |-> Missing]

Call == [op : {"none", "start", "resume"}, job : Jobs \cup {NoJob},
         at : {"none", "claimed", "spawned"}, attempt : 0..MaxAttempts,
         node : Nodes \cup {NoNode}]
Watch == [at : {"idle", "exited", "final", "saving"},
          job : Jobs \cup {NoJob}, meta : Meta]

Init ==
  /\ state = [j \in Jobs |-> "absent"]
  /\ ref = [j \in Jobs |-> 0]
  /\ node = [j \in Jobs |-> NoNode]
  /\ runner = [j \in Jobs |-> "none"]
  /\ disk = [j \in Jobs |-> Missing]
  /\ proc = [j \in Jobs |-> [a \in Attempts |-> "none"]]
  /\ call = NoCall
  /\ watchdog = Idle
  /\ removing = {}
  /\ deleted = {}
  /\ unread = {}
  /\ crashes = 0

LockFree == call = NoCall

(* A generated job id is used once.                                          *)
Fresh(j) ==
  /\ state[j] = "absent" /\ disk[j] = Missing
  /\ j \notin removing \cup deleted
  /\ \A a \in Attempts : proc[j][a] = "none"

(* The attempt that is launched next.                                        *)
Unused(j, a) ==
  /\ proc[j][a] = "none"
  /\ \A b \in 1..(a - 1) : proc[j][b] # "none"

(* Mutant: the nodes of the other running jobs are not passed on.            *)
ReservedNone(j) == {}

(* reserved_nodes: the nodes of the other running Slurm jobs.                *)
Reserved(j) ==
  {node[i] : i \in {k \in Jobs \ {j} : KindOf[k] = "slurm"
                                       /\ state[k] = "running"}}

-----------------------------------------------------------------------------
(* start.  The lock is held from StartClaims to StartCommits or StartFails.  *)

(* At most one local training: a running local record refuses another one.   *)
StartClaims(j) ==
  /\ LockFree
  /\ Fresh(j)
  /\ KindOf[j] = "local" =>
       ~\E i \in Jobs : KindOf[i] = "local" /\ state[i] = "running"
  /\ state' = [state EXCEPT ![j] = "running"]
  /\ ref' = [ref EXCEPT ![j] = 0]
  /\ node' = [node EXCEPT ![j] = NoNode]
  /\ disk' = [disk EXCEPT ![j] = [Missing EXCEPT !.state = "running"]]
  /\ call' = Claimed("start", j)
  /\ UNCHANGED <<runner, proc, watchdog, removing, deleted, unread, crashes>>

(* runner.start: Popen, or a node is selected and sbatch is run.             *)
Spawns(j) ==
  /\ call.job = j /\ call.at = "claimed"
  /\ \E a \in Attempts, n \in Nodes \cup {NoNode} :
       /\ Unused(j, a)
       /\ IF KindOf[j] = "slurm" THEN n \in Nodes \ Reserved(j) ELSE n = NoNode
       /\ proc' = [proc EXCEPT ![j][a] = "alive"]
       /\ call' = [call EXCEPT !.at = "spawned", !.attempt = a, !.node = n]
  /\ UNCHANGED <<memory, disk, watchdog, removing, deleted, unread, crashes>>

(* Mutant: a failed start removes the directory of the job.                  *)
SpawnFailsForgetting(j) ==
  /\ call.job = j /\ call.at = "claimed"
  /\ state' = [state EXCEPT ![j] = "failed"]
  /\ runner' = [runner EXCEPT ![j] = "none"]
  /\ disk' = [disk EXCEPT ![j] = Missing]
  /\ call' = NoCall
  /\ UNCHANGED <<ref, node, proc, watchdog, removing, deleted, unread,
                 crashes>>

(* Mutant: a failed resume leaves its runner registered.                     *)
SpawnFailsKeepingRunner(j) ==
  /\ call.job = j /\ call.at = "claimed"
  /\ state' = [state EXCEPT ![j] = "failed"]
  /\ disk' = [disk EXCEPT ![j] = [MetaOf(j) EXCEPT !.state = "failed"]]
  /\ call' = NoCall
  /\ UNCHANGED <<ref, node, runner, proc, watchdog, removing, deleted,
                 unread, crashes>>

(* runner.start has raised: the record fails, and no runner is kept.         *)
RecordsFailure(j) ==
  /\ call.job = j /\ call.at = "claimed"
  /\ state' = [state EXCEPT ![j] = "failed"]
  /\ runner' = [runner EXCEPT ![j] = "none"]
  /\ disk' = [disk EXCEPT ![j] = [MetaOf(j) EXCEPT !.state = "failed"]]
  /\ call' = NoCall
  /\ UNCHANGED <<ref, node, watchdog, removing, deleted, crashes>>

(* Nothing was launched: no idle node, sbatch refuses, no such program.      *)
SpawnFails(j) == RecordsFailure(j) /\ UNCHANGED <<proc, unread>>

(* sbatch has accepted the job and printed something that is no job id: the  *)
(* Slurm job lives, on a node that no record names, and is nobody's.         *)
SubmitUnread(j) ==
  /\ Unreadable
  /\ KindOf[j] = "slurm"
  /\ Nodes \ Reserved(j) # {}
  /\ RecordsFailure(j)
  /\ \E a \in Attempts :
       /\ Unused(j, a)
       /\ proc' = [proc EXCEPT ![j][a] = "alive"]
       /\ unread' = unread \cup {<<j, a>>}

(* Mutant: start forgets to register the runner.                             *)
CommitsWithoutRunner(j) ==
  /\ call.job = j /\ call.at = "spawned"
  /\ ref' = [ref EXCEPT ![j] = call.attempt]
  /\ node' = [node EXCEPT ![j] = call.node]
  /\ disk' = [disk EXCEPT ![j] =
                [MetaOf(j) EXCEPT !.ref = call.attempt, !.node = call.node]]
  /\ call' = NoCall
  /\ UNCHANGED <<state, runner, proc, watchdog, removing, deleted, unread,
                 crashes>>

(* The identifiers go into the record and to disk, the runner into the map.  *)
Commits(j) ==
  /\ call.job = j /\ call.at = "spawned"
  /\ ref' = [ref EXCEPT ![j] = call.attempt]
  /\ node' = [node EXCEPT ![j] = call.node]
  /\ disk' = [disk EXCEPT ![j] =
                [MetaOf(j) EXCEPT !.ref = call.attempt, !.node = call.node]]
  /\ runner' = [runner EXCEPT ![j] = "own"]
  /\ call' = NoCall
  /\ UNCHANGED <<state, proc, watchdog, removing, deleted, unread, crashes>>

(* Mutant: a running job can be resumed.                                     *)
ResumeClaimsRunning(j) ==
  /\ LockFree
  /\ KindOf[j] = "slurm"
  /\ state[j] # "absent"
  /\ \E a \in Attempts : proc[j][a] = "none"
  /\ watchdog.job = j => PromptResumes
  /\ state' = [state EXCEPT ![j] = "running"]
  /\ ref' = [ref EXCEPT ![j] = 0]
  /\ node' = [node EXCEPT ![j] = NoNode]
  /\ runner' = [runner EXCEPT ![j] = "own"]
  /\ disk' = [disk EXCEPT ![j] = [Missing EXCEPT !.state = "running"]]
  /\ call' = Claimed("resume", j)
  /\ UNCHANGED <<proc, watchdog, removing, deleted, unread, crashes>>

(* resume: a Slurm job that is not running and has a complete checkpoint;    *)
(* here the runner is registered before it is started.                       *)
ResumeClaims(j) ==
  /\ LockFree
  /\ KindOf[j] = "slurm"
  /\ state[j] \in Terminal
  /\ \E a \in Attempts : proc[j][a] = "none"
  /\ watchdog.job = j => PromptResumes
  /\ state' = [state EXCEPT ![j] = "running"]
  /\ ref' = [ref EXCEPT ![j] = 0]
  /\ node' = [node EXCEPT ![j] = NoNode]
  /\ runner' = [runner EXCEPT ![j] = "own"]
  /\ disk' = [disk EXCEPT ![j] = [Missing EXCEPT !.state = "running"]]
  /\ call' = Claimed("resume", j)
  /\ UNCHANGED <<proc, watchdog, removing, deleted, unread, crashes>>

-----------------------------------------------------------------------------
(* stop, delete.                                                             *)

(* terminate and kill, SIGTERM to a re-attached pid, or scancel: the attempt *)
(* ends with an error, or ignores it.  The record is left to the watchdog.   *)
Stop(j) ==
  /\ LockFree
  /\ state[j] = "running" /\ runner[j] # "none"
  /\ proc[j][ref[j]] = "alive"
  /\ proc' = [proc EXCEPT ![j][ref[j]] = "bad"]
  /\ UNCHANGED <<memory, disk, call, watchdog, removing, deleted, unread,
                 crashes>>

(* The watchdog may still hold the record that is popped.                    *)
DeletePops(j) ==
  /\ LockFree
  /\ state[j] \in Terminal
  /\ state' = [state EXCEPT ![j] = "absent"]
  /\ ref' = [ref EXCEPT ![j] = 0]
  /\ node' = [node EXCEPT ![j] = NoNode]
  /\ runner' = [runner EXCEPT ![j] = "none"]
  /\ removing' = removing \cup {j}
  /\ watchdog' = IF watchdog.at = "final" /\ watchdog.job = j
                 THEN [watchdog EXCEPT !.meta = MetaOf(j)] ELSE watchdog
  /\ UNCHANGED <<disk, proc, call, deleted, unread, crashes>>

(* rmtree, after the lock is released.                                       *)
DeleteReturns(j) ==
  /\ j \in removing
  /\ disk' = [disk EXCEPT ![j] = Missing]
  /\ removing' = removing \ {j}
  /\ deleted' = deleted \cup {j}
  /\ UNCHANGED <<memory, proc, call, watchdog, unread, crashes>>

-----------------------------------------------------------------------------
(* The watchdog, _tick.                                                      *)

(* What runner.is_running and runner.returncode may answer about the attempt *)
(* a record names.  A re-attached local runner knows no exit code and says   *)
(* 0; a Slurm runner that finds the controller away says FAILED.             *)
SeenAlive(j) == proc[j][ref[j]] = "alive"
SeenEnded(j) ==
  \/ proc[j][ref[j]] # "alive"
  \/ Outages /\ KindOf[j] = "slurm"
Outcomes(j) ==
  (IF runner[j] = "tail" \/ proc[j][ref[j]] = "ok" THEN {"done"}
   ELSE {"failed"})
  \cup (IF Outages /\ KindOf[j] = "slurm" THEN {"failed"} ELSE {})

Followed(j) == LockFree /\ state[j] = "running" /\ runner[j] # "none"

(* Still running: the record is saved again, now and then.                   *)
WatchRunning(j) ==
  /\ watchdog = Idle
  /\ Followed(j)
  /\ SeenAlive(j)
  /\ disk' = [disk EXCEPT ![j] = MetaOf(j)]
  /\ UNCHANGED <<memory, proc, call, watchdog, removing, deleted, unread,
                 crashes>>

(* is_running says no; the code asks for the exit code before it locks.      *)
NoticeExit(j) ==
  /\ watchdog = Idle
  /\ Followed(j)
  /\ SeenEnded(j)
  /\ watchdog' = [Idle EXCEPT !.at = "exited", !.job = j]
  /\ UNCHANGED <<memory, disk, proc, call, removing, deleted, unread, crashes>>

Finalise(j) ==
  /\ watchdog.at = "exited" /\ watchdog.job = j
  /\ LockFree
  /\ \E s \in Outcomes(j) :
       /\ state' = [state EXCEPT ![j] = s]
       /\ watchdog' = [at |-> "final", job |-> j,
                       meta |-> [MetaOf(j) EXCEPT !.state = s]]
  /\ runner' = [runner EXCEPT ![j] = "none"]
  /\ UNCHANGED <<ref, node, disk, proc, call, removing, deleted, unread,
                 crashes>>

(* _persist, without the lock: the record as it is by now is serialised ...  *)
Serialise(j) ==
  /\ watchdog.at = "final" /\ watchdog.job = j
  /\ watchdog' = [watchdog EXCEPT !.at = "saving",
                    !.meta = IF state[j] = "absent" THEN @ ELSE MetaOf(j)]
  /\ UNCHANGED <<memory, disk, proc, call, removing, deleted, unread, crashes>>

(* ... and replaces job.json, whose directory is made if it is not there.    *)
Save(j) ==
  /\ watchdog.at = "saving" /\ watchdog.job = j
  /\ disk' = [disk EXCEPT ![j] = watchdog.meta]
  /\ watchdog' = Idle
  /\ UNCHANGED <<memory, proc, call, removing, deleted, unread, crashes>>

-----------------------------------------------------------------------------
(* The world, and restarts.                                                  *)

AttemptEnds(j) ==
  /\ \E a \in Attempts, r \in {"ok", "bad"} :
       /\ proc[j][a] = "alive"
       /\ proc' = [proc EXCEPT ![j][a] = r]
  /\ UNCHANGED <<memory, disk, call, watchdog, removing, deleted, unread,
                 crashes>>

(* The moment a crash happens at.                                            *)
Moment ==
  IF call.at # "none" THEN call.at
  ELSE IF watchdog.at # "idle" THEN "saving"
  ELSE "quiet"

(* Mutant: local processes are given up on a restart.                        *)
ReattachedRemotes(j) ==
  disk[j].state = "running" /\ disk[j].ref # 0 /\ KindOf[j] # "local"

(* _load_from_disk: a running record is followed again if it names a local   *)
(* process that is alive or a Slurm job; any other is interrupted.           *)
Reattached(j) ==
  /\ disk[j].state = "running" /\ disk[j].ref # 0
  /\ KindOf[j] = "local" => proc[j][disk[j].ref] = "alive"

Loaded(j) ==
  IF disk[j].state = "running" /\ ~Reattached(j) THEN "interrupted"
  ELSE disk[j].state

(* The server dies and a new one reads the job directories.                  *)
Restart ==
  /\ crashes < MaxCrashes
  /\ Moment \in CrashDuring
  /\ crashes' = crashes + 1
  /\ state' = [j \in Jobs |-> Loaded(j)]
  /\ ref' = [j \in Jobs |-> disk[j].ref]
  /\ node' = [j \in Jobs |-> disk[j].node]
  /\ runner' = [j \in Jobs |-> IF ~Reattached(j) THEN "none"
                               ELSE IF KindOf[j] = "local" THEN "tail"
                               ELSE "own"]
  /\ disk' = [j \in Jobs |-> [disk[j] EXCEPT !.state = Loaded(j)]]
  /\ call' = NoCall
  /\ watchdog' = Idle
  /\ removing' = {}
  /\ UNCHANGED <<proc, deleted, unread>>

Handler(j) ==
  \/ StartClaims(j) \/ ResumeClaims(j) \/ Stop(j) \/ DeletePops(j)

Server(j) ==
  \/ Spawns(j) \/ SpawnFails(j) \/ SubmitUnread(j)
  \/ Commits(j) \/ DeleteReturns(j)

Watchdog(j) ==
  \/ WatchRunning(j) \/ NoticeExit(j) \/ Finalise(j) \/ Serialise(j) \/ Save(j)

Next ==
  \/ \E j \in Jobs : Handler(j) \/ Server(j) \/ Watchdog(j) \/ AttemptEnds(j)
  \/ Restart

Spec == Init /\ [][Next]_vars

(* A request that holds the lock goes on, and the watchdog's loop catches    *)
(* every exception and visits every running job once a second.  The lock is  *)
(* free again and again, so whoever waits for it gets it.                    *)
FairSpec ==
  /\ Spec
  /\ \A j \in Jobs :
       /\ WF_vars(Server(j))
       /\ SF_vars(NoticeExit(j))
       /\ SF_vars(Finalise(j)) /\ WF_vars(Serialise(j)) /\ WF_vars(Save(j))

-----------------------------------------------------------------------------
(* The types: a job.json holds what _load_from_disk accepts (jobs.py:46,     *)
(* 1286-1291), whichever thread writes it.                                   *)
TypeOK ==
  /\ state \in [Jobs -> States]
  /\ ref \in [Jobs -> 0..MaxAttempts]
  /\ node \in [Jobs -> Nodes \cup {NoNode}]
  /\ runner \in [Jobs -> {"none", "own", "tail"}]
  /\ disk \in [Jobs -> Meta]
  /\ proc \in [Jobs -> [Attempts -> {"none", "alive", "ok", "bad"}]]
  /\ call \in Call
  /\ watchdog \in Watch
  /\ removing \subseteq Jobs
  /\ deleted \subseteq Jobs
  /\ unread \subseteq Jobs \X Attempts
  /\ crashes \in 0..MaxCrashes

(* Between requests a job is marked running exactly when a runner follows an *)
(* attempt for it, also after restarts, failed starts and failed resumes: a  *)
(* running record without a runner could neither be stopped nor deleted      *)
(* (jobs.py:1014, 1266) and would block every local start.                   *)
RunnerIffRunning ==
  LockFree => \A j \in Jobs :
    /\ state[j] = "running" <=> runner[j] # "none"
    /\ runner[j] # "none" => ref[j] # 0

(* The attempt the registry is about to record.                              *)
InHand(j, a) == call.job = j /\ call.at = "spawned" /\ call.attempt = a

(* Whatever runs on a GPU for a job is what the job's record names, and the  *)
(* record says running: nothing trains unseen (jobs.py:940-947, 1281-1356),  *)
(* but a Slurm job whose id could not be read when it was submitted: its     *)
(* record has failed and nothing ever looks for it (slurm.py:363-365).       *)
LiveAttemptOwned ==
  \A j \in Jobs, a \in Attempts : proc[j][a] = "alive" =>
    \/ InHand(j, a)
    \/ state[j] = "running" /\ ref[j] = a
    \/ KindOf[j] = "slurm" /\ <<j, a>> \in unread

(* Local trainings share this machine's GPU, "so at most one runs at a time" *)
(* (jobs.py:882-888), also when the server dies and another one takes over.  *)
AtMostOneLocalTraining ==
  \A i, j \in Jobs, a, b \in Attempts :
    ( /\ KindOf[i] = "local" /\ proc[i][a] = "alive"
      /\ KindOf[j] = "local" /\ proc[j][b] = "alive" ) => i = j /\ a = b

(* Two Slurm jobs whose records name an attempt that is alive were sent to   *)
(* different nodes, also after one of them was resumed or the server         *)
(* restarted: reserved_nodes is read under the lock, before the probe can    *)
(* see the other job's GPU memory (jobs.py:916-923, 1061-1069).              *)
OneJobPerNode ==
  \A i, j \in Jobs :
    ( /\ i # j /\ node[i] = node[j]
      /\ ref[i] # 0 /\ proc[i][ref[i]] = "alive"
      /\ ref[j] # 0 /\ proc[j][ref[j]] = "alive" ) => node[i] = NoNode

(* A job that ends is seen to end: its record leaves "running" even if the   *)
(* server restarts meanwhile.                                                *)
EndIsNoticed ==
  \A j \in Jobs :
    (state[j] = "running" /\ ref[j] # 0 /\ proc[j][ref[j]] # "alive")
      ~> state[j] # "running"

(* A job whose start has returned stays listed, across restarts, until it is *)
(* deleted: job.json is written before the reply and replaced atomically     *)
(* (jobs.py:946, 1455-1462).                                                 *)
JobsStayListed ==
  [][\A j \in Jobs : (LockFree /\ state[j] # "absent")
       => state'[j] # "absent" \/ j \in removing']_vars

(* jobs.py:1027: "Resume a failed/interrupted Slurm job", that is, one that  *)
(* has ended: no attempt of the job is alive when another one is launched.   *)
OneAttemptAtATime ==
  \A j \in Jobs : Cardinality({a \in Attempts : proc[j][a] = "alive"}) <= 1

=============================================================================
