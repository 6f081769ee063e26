# Formal models of robot_data_platform

This directory holds TLA+ models of the platform in `src/`, the TLC
configurations that check them on small instances, and theorems about them that
the TLA+ proof system (TLAPS) checks for every value of the constants. It is
meant to be read beside the code: every definition that stands for code is
listed in `PROJECT.json` under `map` with the lines it translates.

Paths below are relative to `src/`; `lelab/` is short for
`apps/lelab/lelab/`.

## 1. The system

The platform records demonstrations with a teleoperated robot, converts and
aligns the raw recordings, trains policies on this machine or on a Slurm
cluster, and plays policies back on the robot. Three groups of programs share
the work:

* **LeLab** (`apps/lelab`): a FastAPI server that drives the robot and the
  trainings, and a React front end. Request handlers are plain functions, so
  FastAPI runs each in a thread of its pool. They share module globals with
  worker threads, a watchdog thread and child processes. This is where the
  concurrency is.
* **Conversion tools** (`tool`): sequential command-line programs that align
  ROS bags with the control rate, write LeRobot datasets, check and upload them.
* **Deployment** (`scripts`, `deploy`, `config`) and offline **experiments**
  (`test_lerobot`, `test_raw_jpeg`, `alignment_compare`).

### 1.1 Components

| Component | State it keeps | Operations | Talks to | What is hard |
|---|---|---|---|---|
| Node-local dataset cache (`lelab/runners/slurm.py`, `_STAGING_SHELL`) | lock files, dataset directories and stamp files on a node's disk | stage (lock, test space, sweep, rsync, stamp, downgrade, test again), evict | all Slurm jobs of a node, only through `flock` and the file system; the NAS | non-atomic lock downgrade; sweeps that hold two locks; kills at any moment; a half-removed copy |
| Training job registry (`lelab/jobs.py`) | `_records`, `_runners`, one `job.json` per job | start, resume, stop, delete, watchdog tick, reload after a restart | local processes, Slurm, HF jobs, the front end | the watchdog saves outside the lock; server crash between launch and save; a controller outage |
| Slurm runner (`lelab/runners/slurm.py`) | Slurm id, last seen state | start (probe, select node, sbatch), poll, scancel, re-attach | registry, cluster, Slurm | a failed query taken for an end |
| HF cloud runner (`lelab/runners/hf_cloud.py`) | HF job id | start, poll, cancel, tail | registry, HF | the id arrives seconds after the start |
| Robot sessions (`lelab/teleoperate.py`, `record.py`, `rollout.py`) | an active flag, a lock and a worker each | start, stop, status of three modes | the serial bus, LeRobot, each other's flags | three locks for one resource; stop and status outside them |
| Recording session (`lelab/record.py`) | dict of events, phase, counters, report | worker loop; stop, exit early, re-record handlers | LeRobot's `record_loop`, dataset, page | unsynchronised flags with four writers |
| Calibration (`lelab/calibrate.py`) | status, two request flags, device, thread, the robot's record | start, complete step, stop, status; worker | serial bus, records, page | attributes shared by threads without a lock; outside the three-way exclusion |
| Calibration page (`pages/Calibration.tsx`, `CameraConfiguration.tsx`, `PortDetectionModal.tsx`) | shown status, polling, form, dialog, cameras | start, step, cancel, leave, detect a port, choose cameras | calibration, records | answers to an earlier visit or side; a debounced save; cameras renumbered by a cable |
| Landing page (`pages/Landing.tsx`, `useRobots.ts`, `useCameraStream.ts`) | robots, selection, dialog, camera streams | create, select, delete, hand the cameras over | robots' records, recording | a list kept up to date without fetching it; a stream granted after its preview is gone |
| Teleoperation page (`pages/Teleoperation.tsx`) | whether a stop was sent | start, leave in four ways | teleoperation | every way out has to stop the arm |
| Recording page (`pages/Recording.tsx`) | last status, hoped phase, dialog | poll, buttons, leave at the end | recording handlers | what it promises races with the worker; the status of an earlier session |
| Upload page (`pages/Upload.tsx`) | dataset, requests under way | load, upload, skip, delete | datasets | the dataset it is about |
| Job list (`components/jobs`) | records, checkpoints, socket | refresh, merge progress, stop, delete, import | registry, websocket | never polls: what the socket does not tell it does not see |
| Training pages (`pages/Training.tsx`, installer gates) | configuration, probes, log | start, follow, resume, install a package | registry, installers | a log read from a file and from a queue; optimistic state of an installation |
| Inference (`InferenceModal.tsx`, `pages/Inference.tsx`) | chosen checkpoint, status | start, follow, stop, return | rollout | a hanging run; a page that is left meanwhile |
| Single-tab guard (`components/SingleTabGuard.tsx`) | which tab is primary | heartbeats | other tabs | timeouts of throttled tabs |
| Web server and broadcast (`lelab/server.py`) | list of websockets, queue, worker thread | connect, disconnect, broadcast | every component's log and joint data | worker started and stopped from two sides |
| Cluster probe and templates (`lelab/cluster.py`) | cached policy probe | probe, select node | Slurm runner | decisions on an old probe |
| Datasets and repair (`lelab/datasets.py`, `dataset_repair.py`) | files of a dataset | list, repair, delete, merge | recording, training | several files rewritten one after the other |
| Robot records, ports, calibration files (`lelab/utils/config.py`) | JSON files | read-merge-write | start handlers, calibration | unlocked read-merge-write |
| Installers and self-update (`lelab/utils/system.py`) | one install per extra | start, status, restart | pip | check-then-act |
| Training commands, HF auth, launcher | none worth modelling | | | |
| Alignment of ROS bags (`tool/robot_data/align`) | none (pure functions) | window, nearest/previous/next, command selection, hold mask | bag reader, writers | boundaries of streams with different rates |
| Writers, profiles, quality checks, recipes, ROS reader (`tool/robot_data`) | files of one conversion | write, validate | alignment | order of files |
| Kinematics, uploads, batches (`tool/*.py`, `tool/scripts`) | a batch's progress | convert, upload, resume | HF hub | resume after a partial batch |

`PROJECT.json` lists all of them with their status; its `hazards` list names,
line by line, what a test would hardly reach in them.

### 1.2 What makes each of them correct

* **Dataset cache.** A job never reads an incomplete, stale or changing copy,
  whatever other jobs stage, evict or leave behind when they are killed; staging
  never keeps a job from training.
* **Job registry.** Nothing trains unseen: what is alive is named by a record
  that says running. One local training at a time; running Slurm jobs on
  different nodes; a job stays listed until it is deleted; an end is noticed;
  a restart loses none of this.
* **Robot sessions.** One user of the serial bus; it can always be seen from a
  flag; the robot is given back after every failure.
* **Recording session.** However a session ends the devices are released, the
  report tells what was kept, a stop stops, and what the page promised happens.
* **Calibration.** The device is free when the manager is idle; an arm is
  calibrated through its own port; leaving the page stops the arm; no choice of
  a camera is lost and each camera has the index by which it is found now.
* **Pages.** What a page shows is what the server has once nothing is under
  way; it is about the session, job or installation the user began; a page is
  left when what it follows is over and never before; no arm and no camera
  stream is left behind by a page that is gone; a log runs in order.
* **Installers, robot records.** One installation per package; no lost update.
* **Alignment.** Ticks lie inside all streams a row is made from; an observation
  is never newer than its tick (in `lerobot-loop` mode); held commands are the last
  ones issued; nothing in an episode runs back in time.

## 2. The modules

Written and checked:

| Module | Models | Instances | Proofs |
|---|---|---|---|
| `DatasetStaging` | the staging shell of all jobs of one node | `MCDatasetStaging` | `DatasetProofs` |
| `JobRegistry` | registry, watchdog, `job.json`, local and Slurm attempts, restarts | `MCJobRegistry` | `JobRegistryProofs` |
| `RobotSessions` | start, stop and status of the three modes, their flags, locks and workers | `MCRobotSessions` | `RobotSessionsProofs` |
| `RecordingService` | what a recording session promises: flag, phase, episodes kept | through `RecordingSession` | |
| `RecordingSession` | the recording worker, take by take, and its handlers; implements `RecordingService` | `MCRecordingSession` | `RecordingSessionProofs` |
| `CalibrationManager` | the calibration handlers and workers, the robot's record | through `Calibration` | `CalibrationProofs` |
| `AttachedCameras` | the cameras of a robot: enumeration, remapping, debounced save | through `Calibration` | `CalibrationProofs` |
| `Calibration` | the calibration page with the two above | `MCCalibration` | `CalibrationProofs` |
| `Subsequences` | the elements of a sequence at some positions, for requests whose answers nobody hears any more | through the modules that use it | `SubsequencesProofs` |
| `Requests` | requests of a tab, their answers and the mounts they belong to | through the next two groups | |
| `RobotDesk` | the tab and the server as the pages about the robot see them | through `RobotApp` | |
| `CameraPreview`, `LandingPage`, `TeleopPage`, `RecordingPage`, `UploadPage` | a camera stream and the four pages | through `RobotApp` | |
| `RobotApp` | these pages together, for one user in one tab | `MCRobotApp` | `RobotAppProofs` |
| `JobDesk` | one job, its log, the rollout, the socket, an installer, as the pages about jobs see them | through `JobsApp` | |
| `InferencePages`, `InstallGate`, `JobsListPage`, `TrainingPage` | the pages and dialogs about jobs | through `JobsApp` | |
| `JobsApp` | these pages together, for one user in one tab | `MCJobsApp` | `JobsAppProofs` |
| `Indexing` | the lookups on sorted timestamps | with `Alignment` | `DatasetProofs` |
| `Alignment` | window, grid, rows and refusals of the bag alignment | `MCAlignment` | `DatasetProofs` |

The models of the server meet at three seams. `RecordingSession` looks into the one step that
`RobotSessions` calls "driving" for a recording, and the latter's `Opens`,
`Disconnects` and `ClearsFlag` are the former's `ConnectDevices`, `Disconnect`
and `ClearActive`. `DatasetStaging` looks into what `JobRegistry` calls an
attempt that is alive: every Slurm attempt runs the staging shell first.
`RecordingService` is the seam to the pages: `RobotApp` puts them on top of it,
and the run `recording` shows that `RecordingSession` implements it. `JobDesk`
states in the same way, but without a refinement that is checked, what
`JobRegistry` and `RobotSessions` do for the pages about jobs.

A definition headed *Mutant* is a plausible mistake in the definition below it;
`PROJECT.json` names the property that notices it. It is no part of the model.

### 2.1 DatasetStaging

`pc[j]` is where the shell of Slurm job `j` stands in `lelab_stage_dataset`
(`lelab/runners/slurm.py`, lines 84 to 198); the head of the module lists the
positions. `writer` and `readers` are the kernel's `flock` state of each
dataset's lock file, `copy`, `stamp` and `version` what its directory holds.

* *Locks.* `LockExclusive` is `flock -x 9`; `SweepClaims`/`SweepSkips` are
  `flock -n -x 8` on a victim; the downgrade `flock -s 9` is the two steps
  `ReleaseExclusive` and `LockShared`, because Linux converts a lock by
  releasing it first. A process that ends drops its locks (`DropLocks`).
* *Copies.* `absent`, `partial` (first rsync not finished), `dirty` (a complete
  copy some of whose files have been changed or removed) or `complete`. File
  contents are not modelled; `version` is which extension of the dataset on the
  NAS they were read from. While rsync runs the NAS may change: a finished
  rsync has some version between its start and its end.
* *Space.* Sizes are halves of a dataset, all datasets are equally large;
  `Free` is what `df` reports. `Need` is 0 for a stamped copy, as in the shell.
* *Removal.* `rm -rf` starts in `SweepClaims`, which may or may not have met the
  stamp already, and ends in `SweepReclaims`. For the datasets in `Tearable` it
  may end early (`SweepCutShort`, or the sweeping job is killed).
* *Trouble.* Every `|| return 1` of the shell, a full disk, failing `du`, and a
  kill at any moment (`Kill`).

### 2.2 JobRegistry

`state`, `ref` and `node` are the fields of a `JobRecord` the code decides by,
`runner` says whether `_runners` has an entry (`own`, or `tail` for a
re-attached local process), `disk[j]` is `job.json`, `proc[j][a]` the process or
Slurm job of the `a`-th attempt. `call` is the start or resume that holds the
registry's lock (`jobs.py`, 862 to 950 and 1025 to 1118): claimed, spawned, then
committed or failed. `watchdog` is the position of `_tick` (1384 to 1430):
it notices an exit, finalises the record under the lock, and then serialises and
saves it *without* the lock. `Restart` is a kill of the server followed by
`_load_from_disk` (1281 to 1356); local processes and Slurm jobs survive it.

`StartClaims`, `Stop` and `DeletePops` take and release the lock in one step,
`Spawns`, `SpawnFails` and `Commits` run with it held, and
`DeleteReturns`, `Serialise` and `Save` run without it. `Outcomes` is what
`is_running` and `returncode` may answer: a re-attached local process always
counts as `done` because its exit code is lost, and with `Outages` a Slurm
query may find the controller away and answer FAILED.

A launch fails in two ways. In `SpawnFails` nothing was launched; in `SubmitUnread`
(`Unreadable`) sbatch has accepted the job and printed something that holds no id:
`start` raises (`slurm.py`, 363), the record fails, and the Slurm job lives. Nothing
looks for it afterwards; `unread` is the history of such attempts, and
`LiveAttemptOwned` names them as its only exception.

### 2.3 RobotSessions

`flag[m]`, `guard[m]` are the active flag and the `_state_lock` of a mode,
`req[c]` the position of the request thread of client `c`, `life[s]` how far
session `s` is; `thread`, `proc` and `events` are the globals through which the
stop handlers find a session. A start reads the three flags in the order of its
module, one read a step (`ReadFlag`), claims (`Claim`), and launches: the
teleoperation handler opens the bus itself (`ConnectArms`), the recording worker
and the rollout process do so later (`Opens`). Stop clears the flag first and
joins (teleoperation), sets events (recording), or kills the process and resets
the globals (rollout). `PollRollout` is the status handler that reaps an exited
process, whoever asks; nothing else does. `watching` says whether an inference page
is open: it may be opened and left at any moment, and only while it is open does
somebody keep asking (`PagePolls`). What a worker does with the robot is one
position, `driving`.

### 2.4 RecordingSession

`worker` is the position of `recording_worker` and `record_with_web_events`
(`record.py`, 262 to 345 and 622 to 915). `events` are the four flags the
handlers and the worker share, `req[r]` a handler between two of its writes.
`record_loop` of LeRobot is external: it adds frames until `exit_early`, which
it clears, or until its time limit. `Decide`, `DiscardTake`, `KeepTake`,
`SaveEpisode`, `CountEpisode`, `BeginReset`, `ResetEnds` and `AfterReset` are the
body of the episode loop; an exception from a device, encoder or disk
(`TakeFails`) leads to the `finally` blocks (`Finalize`, `Disconnect`), the
report (`NoteFailure`) and the reset of the globals (`ClearActive`).

The page is part of the model where it restricts the handlers: it offers a
re-record only while the phase is `recording`.

`RecordingService` keeps the three things a page reads: `recording_active`, the
phase, and the number of episodes in the dataset. `ImplementsService` is
`Service!ServiceSpec` with the worker's own variables of these names. It says in
which order phases follow each other, that the flag falls only after
`completed` or `error`, and that nothing is kept outside a session. `LateStops`
is the behaviour `recording_end` finds: a stop handler that writes the phase
after the end. The refinement needs it (`LateStops <- TRUE`); the pages are
checked without it, since with it the recording page waits for ever.

### 2.5 Indexing and Alignment

`align_rosbag` is one sequential program; what is hard about it is the data, so
its inputs, `rec` (the bag) and `cfg` (the policies), are chosen in `Init` and
the stages `Scan`, `ChooseWindow`, `LayGrid`, `SelectRows`, `KeepRows`, `Finish`
follow the sections of `tool/robot_data/align/aligner.py`. Each may raise
(`rejected`). A sample is its timestamp; a row is the record of the samples it
is made of, which is what the code keeps for its audit (lines 399 to 413).

`Indexing` defines numpy's `searchsorted` by counting and the lookups of
`indexing.py` from it, with positions counted from 1. Streams are sequences; a
silent topic is `<<>>`, which makes `missing_topics` a matter of the data.
The specification is named `AlignSpec`, with `AlignInit` and `AlignNext`, because
`DatasetProofs` extends both this module and `DatasetStaging`.
`RowAt(t)` gathers what lines 157 to 292 select for tick `t`. The grid of a fixed
rate has `Period` nanoseconds between ticks; the rounding of `1e9/fps` is
abstracted. Whether an action array equals its observations or a frame decodes is
not a matter of timestamps: `RefuseContents` may always refuse.

### 2.6 Calibration

`CalibrationManager` follows the attributes of `calibrate.py`'s manager, which
handlers (threads of the server's pool) and workers share without a lock that
spans more than one write: `active`, `status`, `stopAsked`, `stepDone`,
`device`, `thread`. `pc[r]` is the position of the worker of run `r`; `calls`
the requests under way, each a small record that carries what the handler has
read so far. The robot's record on disk is read, merged and replaced by two
writers, the save of the page's form and the write-back of a finished run. A
serial port is named by the arm that is plugged into it.

`AttachedCameras` is the card below the form. OpenCV opens a camera by its rank
among those plugged in (`Index`), the browser knows it by a lasting id, and a
camera of the form carries both. An enumeration (`ListsCameras`) answers with any
part of the cameras plugged in: the server lists those that OpenCV can open, not one
that a preview or another program holds, and none when it or the request fails.
`CamerasListed` is the effect that re-resolves the indices afterwards; a camera that
is not on the list keeps its index. `SavesCameras` is the timer of the debounced
save, `DeviceChanges` a cable.

`Calibration` adds the page: visits (mounts), the poll, the buttons, the form's
side and port, and the port detection dialog. An answer to an earlier visit
changes nothing (`AnswerIsLate`).

`Subsequence`, the requests left once whoever waited for the others is gone
(`Without`), is written without recursion, so that it can be reasoned about; it
agrees with `SelectSeq`.

### 2.7 The pages about the robot

`Requests` is the transport: a request or a timer is an element of `calls` from
the moment it is sent until its callback has run, it is served in one step
(`Begins`, `Answers`), and its callback (`Arrives`) knows the mount that sent it.
`page` is the state of the one mounted page; `Opens` unmounts it, runs its
cleanup, mounts the next one and sends its first requests.

`RobotDesk` has the server's handlers on top of `RecordingService`, and
`localStorage` and `sessionStorage`. `LandingPage` keeps the list of robots as
`useRobots.ts` does, by applying the answers of its own requests, and hands the
camera over to a recording; `CameraPreview` is one preview's `getUserMedia`,
whose cleanup may come before the grant. `TeleopPage` has the ways out of a
teleoperation: button, route, reload, close. `RecordingPage` polls, shows the
phase it hopes for until the poll confirms it, and chooses the page that
follows; `UploadPage` is about the dataset it was given.

An answer's `ok` is what its page tests. Most pages test `success` in the body; the
recording page tests the HTTP status, which is 200 also for a start that the server
refuses (`record.py`, 223) or that fails after it has claimed the service (352). So
`StartsRecording` has three outcomes, all of them `ok`, told apart by the number of
the session in the answer, 0 for "success: false"; the page does not look at it
(`RecordArrives`), and `own` remembers it as history. A page whose start was refused
polls and follows the session that is there, or uploads the one that was; one whose
start failed polls "preparing" until the user leaves. Only a request that never
reaches its handler sends the page home (`ConnectionFails`).

The enumeration of the dialog (`ListsCameras` of `LandingPage`) has the robot's
camera or not, as in 2.6; `listed` is the history of whether the
newest one had it, kept until the session starts.

The half-second pause between the click on "Start Recording" and the recording page
is a timer (`"wait"`, at `"waiting"`): it is no request, so it holds up none, and it
fires even when the page has been left meanwhile (`Landing.tsx` awaits a promise,
not an effect). A patient user who has clicked twice may be on the recording page, or
be led on to an upload page, before the second timer fires; he does nothing there
until then (`Settled`, `Rested`), and is thrown into a second recording.

### 2.8 The pages about jobs

`JobDesk` is one job of the registry with its process, its log (`file` lines in
the file, `put` and `drained` lines of the runner's queue), the rollout, the
websocket (`socket`, `events`) and the installer of one missing package (`pip`).
`JobsListPage` fetches when it is mounted and when the socket says
`jobs_changed`, and merges `job_progress`. `TrainingPage` is the form with its
probes and gates, and the page that follows a job: it seeds its log from the
file and goes on from the queue. `InstallGate` is what is shown while a package is
missing. `InferencePages` is the dialog that starts a checkpoint on the robot, and
the page that follows the run, polls, and stops a run that hangs.

The 300 ms between "Start" in the inference dialog and its request are a timer as in
2.7 (`"pause"`, at `"waiting"`), which holds up no request.

The page's log is read in two steps: `ReadsFile` reads the file, `FileRead` empties
the queue into nothing (`server.py`, 623-628), and the runner's thread writes a line
to the file (`WriteLine`) and then puts it into the queue (`QueueLine`) at any moment
before, between and after. What is printed and queued between the two is gone for
this page.

`missed` and `lost` are history: a change that this tab was not told because its
socket was down, and lines that were in a queue when its run ended or that
`FileRead` removed though the text read from the file did not have them.

## 3. What is checked

| Run | Instance and bounds | Shows |
|---|---|---|
| `staging` | three jobs, two on one dataset, two datasets, disk for one and a half, one extension on the NAS | a job on the cache reads a complete, fresh and stable copy; every job gets to train |
| `registry_slurm` | two Slurm jobs, two attempts each, two nodes, one restart; sbatch may print no id | nothing else runs unowned, jobs have nodes of their own and stay listed, every end is noticed |
| `registry_local` | two local jobs, one Slurm job, two restarts | running means followed; one local training at a time, across restarts |
| `registry_outage` (violation) | two Slurm jobs, outages | a running job is finalised as failed during an outage of the controller; a resume then launches a second attempt beside the first |
| `sessions` | one client that awaits replies with three sessions of any mode, or two clients whose requests overlap at every step with two sessions; an inference page that is opened and left at any moment | with one client the bus is never used twice and its user is visible in a flag; recordings exclude each other; slots are given back, that of a rollout unless its page was left; a stop ends what it stopped |
| `sessions_mutex` (violation) | two overlapping clients | two modes with the bus open at once: a lock per mode does not protect a check of three flags |
| `recording` | two sessions of up to two episodes, two requests in flight, two presses | devices released, report right, an answered stop lets no further take have frames and ends the session; the whole implements `RecordingService` |
| `recording_end` (violation) | one session of one episode | a stop handler overtaken by the end of the worker leaves the phase at `stopping`; the page waits for ever |
| `alignment` | 2,160 bags of seven instants, one camera, two arms, one gripper, 48 combinations of policies | ticks inside all streams, observations not newer than their tick, no row older than the one before it, a held command is the last one issued |
| `calibration` | two calibrations in one visit, or four instances in which the user chooses cameras and enumerations miss any of them | leaving stops the arm, the page catches up, each arm through its own port, the device is free when idle, no choice of a camera is lost |
| `robot_app` | one robot with one camera that moves between two indices and may not be listed, two starts of a recording of one episode, each of which may be refused or fail | the list of robots is right, no stream outlives its preview, the right index is recorded if it was listed, nobody is sent home from a session, the upload page of an accepted start is about its session, a session's end is followed, an arm left driving is stopped |
| `jobs_app` | seven instances with one job each: see 3.1 | the log never runs back and repeats at most the line at its seam, the list catches up, a gate tells the truth about the installer, the inference page is left when its run is over |

The runs marked *violation* state what a comment, a text of the page or a
docstring says; `PROJECT.json` `findings` quotes it beside what the code does.

### 3.1 Why the bounds are enough

* **Staging.** The hazards involve at most three roles: a reader or waiter of a
  copy, a second job on the same dataset, and a sweeper that wants the room.
  The disk holds one and a half datasets, so every second staging sweeps.
  One extension of the NAS distinguishes fresh from stale. `TwoOnOneSpec` fixes
  the wishes.
* **Registry.** Two Slurm jobs and two nodes make `reserved_nodes` matter; two
  attempts are one resume; a restart may fall before the claim, after it, or
  into the watchdog's save. The local instance has the third, foreign job to
  show that it does not block the local ones.
* **Sessions.** Two overlapping requests are what a check-then-act needs; three
  sessions in a row let each mode follow each other one, and meet what the one
  before that left behind, in the sequential run.
* **Recording.** Two episodes have a first, a last and a reset between them; two
  presses overlap each other and every step of the worker; the second session
  meets what a late handler of the first one leaves behind.
* **Calibration.** Two runs in one visit let a late worker, a stop and a status
  answer of the first meet the second, on either side of the robot. Cameras
  are edited with the arms idle: one edit while one cable moves, two edits in a
  row (the second restarts the timer) with two lists asked for, the cameras off
  and on again, and two visits. Each enumeration misses any of the cameras. One
  poll in flight is enough as answers come in order
  (`Overtaking = FALSE`).
* **Robot pages.** Two starts show what the status of the first session does to
  the page of the second, which may also be refused beside it; two calls under way
  are a poll and what the user asked for. One camera with two indices shows an index
  that moved since it was saved.
* **Pages about jobs.** Each instance has what one hazard needs: two log
  lines and a resume; a rollout of a local job; an imported model of two
  checkpoints; a socket that drops once, with a local or a cloud target; and each of
  the three packages missing.
* **Alignment.** What distinguishes bags is the order of their timestamps around
  a tick: streams that begin late, end early, miss a frame, are sparse or silent
  are all there, with one arm's commands running through every set of up to
  three of four instants while the other arm is silent, regular or late. Two
  arms are what pairs, unions and intersections of command spans need. The
  period is two instants, so ticks fall on samples and between them.

`MaxVersion`, `MaxAttempts`, `MaxCrashes`, `MaxSessions`, `MaxPresses`,
`MaxRuns`, `MaxPolls`, `MaxDevices`, `MaxStarts`, `MaxCalls` and the fields of
`Bounds` are bounds of the model, not of the code, and are named as such in the
modules. A constant set of bounds (`Bounds`, one member per behaviour) lets one
run check several instances.

### 3.2 Preconditions named in the constants

Some properties hold only outside circumstances the code does not handle. Each
such circumstance is a constant, so that a run or a theorem has to name it:

* `Tearable`: datasets whose removal may end half-way. In `staging` one of the
  two is, and the properties of copies speak about the other one. For a torn
  directory they do not hold: `rm -rf` may leave the stamp and miss other files,
  and the second test (`slurm.py`, 186) looks at the stamp only.
* `CrashDuring`: `"spawned"` is left out of the passing runs: a server killed
  between `Popen`/`sbatch` and the save of the identifier leaves a training
  nobody follows. This is inherent in the order of those two calls.
* `PromptResumes`: a resume between the watchdog's finalisation of a job and
  its unlocked save (milliseconds) may be overwritten on disk by the old record.
* `Outages`: see `registry_outage`. `Unreadable` (2.2) is no precondition: it is TRUE
  in the passing runs, and the theorems hold for either value.
* `SlowWorkers`: a teleoperation worker that outlasts the five-second join of
  stop is still on the bus when stop has replied. `SlowDevices` is the same for a
  calibration.
* `Overtaking`: requests and answers of one tab that overtake each other. HTTP
  does not exclude it; the pages do not number their requests. With it
  `ListMatchesServer` and `CamerasKept` fail: an older list or an older save comes
  last.
* `Patient`: the user waits for what was begun before going on. Without it a
  click on "Install Now" may be overtaken by the answer `idle` to the gate's first
  question (`useInstallExtra.ts`), which ends the polling, and `GateTruthful`
  fails.
* `OneClick`: a second click on "Start" before the first is answered makes the
  page forget that a calibration runs (`Calibration.tsx`, 261); then leaving does
  not stop it.
* `WaitEnough`: the wait between releasing the previews and starting to record
  is long enough for the browser (`Landing.tsx`).
* `LateStops`: see 2.4.
* `InTurn` (`CalibrationProofs`): `CamerasKept` holds if no arm is calibrated while
  cameras are edited (`MayEditCameras`) or cables move. A cable that moves changes
  an index, the page saves the list, and a calibration that has read the record
  before (`calibrate.py`, 505) writes the old list back; TLC finds this in an
  instance with both, and none without the cable. An edit in the last half second
  before the page is left is lost: the timer is cleared and nothing is saved
  (`Calibration.tsx`, 163).

### 3.3 Fairness

* **Staging:** weak fairness of each job's own steps: the node's scheduler runs
  every shell, `rsync` and `rm` return, trainings end. Lock requests need no
  more: in the instance of the run nothing re-acquires a lock for ever, since a
  job stages once.
* **Registry:** weak fairness for a request that has begun and for the
  watchdog's unlocked steps; strong fairness for its steps that need the lock,
  which is free again and again (`threading.Lock` has no starvation in practice
  and the watchdog blocks in `acquire`, it does not poll). `_tick` catches every
  exception, so the loop goes on. Neither requests, ends of attempts nor crashes
  are fair.
* **Sessions:** weak fairness for request threads and workers, strong for what
  waits for a lock and for the status poll of an inference page (`PagePolls`), which
  a page that stays open sends every second and one that is left does not. Nobody
  has to open or to keep a page, and nobody else to poll; `SlotFreed` says so for the
  slot of a rollout. New requests, and failures, need not happen.
* **Recording:** weak fairness for the worker, split into its phases, and for a
  handler between its writes; `record_loop` has a time limit in both of its
  uses. Presses are not fair, failures neither, except that `save_episode` on an
  empty buffer does raise.
* **Calibration:** weak fairness of the interval timer, of status requests and of
  all others, and of the workers' steps (not of their failures). The user and
  the cables are not fair.
* **Robot pages:** weak fairness of the server's answers, of callbacks, and of the
  browser's timers and camera grants. The user, cables and the session's worker
  owe nothing; the properties speak about what follows once a session is over. After
  a start that failed none is: `EndLeadsOn` does not make the page leave then.
* **Pages about jobs:** weak fairness of answers, callbacks, the socket and its
  messages, the poll of the inference page, and of the watchdog's two duties
  (`Finalise`, `ReportProgress`). Trainings, installations and rollouts need not
  end.

## 4. What is proved

`tlapm` checks the eight proof modules to the last leaf. The only assumptions are
`StagingAssumption`, `RegistryAssumption`, `SessionsAssumption`,
`RecordingAssumption`, `ManagerAssumption`, `CamerasAssumption`, `PageAssumption`,
`ServiceAssumption`, `RequestsAssumption`, `DeskAssumption`, `JobDeskAssumption` and
`AlignmentAssumption`, which say that the constants have the types the code
gives them; TLC evaluates each in the runs of its module. A theorem that needs
one of the preconditions of 3.2 states it as a hypothesis.

**DatasetProofs**, first about `DatasetStaging`, for any number of jobs and datasets and any capacity:

* `TypeCorrect`, which includes that no stamp lies in the future.
* `LocksCorrect`: `LockInv` says which locks a job holds at each position, and
  that an exclusive lock excludes all others. It is inductive given the types.
* `LocalCopiesComplete`: `LocalCopyComplete` says nothing about the positions
  before `local`, so it is not inductive. `StampInv` adds what those need: a
  stamped copy that is not being staged or swept is complete, the directory is
  unstamped during rsync, and complete once rsync has succeeded. The second
  test of the stamp, under the shared lock, closes the gap of the downgrade.
* `LocalCopiesFresh`: `VersionInv` carries "at least as recent as when I
  started" from `StartSync` to `local`. In the gap of the downgrade another job
  may replace the copy, but only with one that was read later.
* `CopiesStable`, an action property: whoever changes a directory holds its lock
  exclusively, and the reader holds it shared.

**JobRegistryProofs**, for any jobs, nodes, attempts and restarts:

* `TypeCorrect`: whichever thread writes `job.json`, a restart accepts it.
* `RunningJobsFollowed`: needs `CallInv` (what a start or resume in progress has
  already written) and `RunInv` (the same for all other jobs).
* `LiveAttemptsOwned`, under `Calm`, that is, no outages, no prompt resumes and
  no crash in the moment `"spawned"`. Submissions whose id cannot be read are
  part of it: `UnreadInv` says that such an attempt is a Slurm job's and that no
  record, `job.json` or request ever names it. The invariant `IInv` adds `WatchInv` (a job
  the watchdog is finalising has no live attempt and what it will save says so),
  `DeleteInv` (a directory that is being removed belongs to no listed job), and
  `OwnedInv`, the property for the record *and* for `job.json`: a restart decides
  by the latter.
* `LocalTrainingsExclusive`, under `Calm`, from `OneLocalInv`: a live local
  attempt is a running local record, and there is at most one of those.
* `NodesExclusive`, under `Calm`: needs that `job.json` agrees with a running
  record (`DiskInv`), and that the node a launch has chosen stays free until its
  record names it (`CallNodeInv`), which holds because the lock is held.
* `JobsNotLost`, an action property, *without* `Calm`: `ListedInv` says that the
  `job.json` of a listed job holds a state that a restart loads, and so does what
  the watchdog is about to save. The unlocked save may be old, but it never makes
  a listed job vanish; that a removed directory belongs to no listed job
  (`DeleteInv`) closes the race of a delete and a resume.

The circumstances excluded by `Calm` are those of 3.2: `registry_outage` shows
what an outage does to the exclusion of attempts; for the other two the order of
the writes described there is the reason.

**RobotSessionsProofs**, for any number of clients whose requests overlap at every
read and write, and any number of sessions:

* `TypeCorrect` includes that the lock of a mode is held by exactly the start that
  is between its test and its claim.
* `RecordingsExclusive`: `OneRecordingAtATime` does not say why a second start fails.
  `OwnerInv` adds that a start owns its session until it hands it to a worker, and
  that only rollouts which were launched are polled or killed; `RecordInv` that
  the flag is up while a recording exists, and that a start which has read it down
  under the lock may rely on it: a worker clears the flag without the lock, but
  only the holder of the lock sets it. The same is not provable of two modes, whose
  locks differ: `sessions_mutex` shows the interleaving.
* `BusIsExclusive` and `FlagCovers`, from `~SlowWorkers`: a client that awaits each
  reply gets what the locks do not give two. `SoleInv` is the invariant behind both.
  It says that there is at most one live session; that a flag names it, or the
  client's own stop is waiting for it; that a start in the middle of its three reads
  has every raised flag still ahead of it; and that the globals a stop reads
  (`thread`, `proc`) name this very session, since a stop that took another for it
  would clear the flag of a robot in use. A rollout ends in two places, the stop and
  the status poll, which needs that nothing is live between `kill` and `reset`.

**RecordingSessionProofs**, for any number of episodes, requests, presses and
sessions, with an exception at every step where the code can meet one:

* `TypeCorrect`, `DevicesReleased` and `ReportsCountKept` prove the types and the two
  invariants of the run. Neither is inductive: `OpenInv` says at which positions of
  the worker the bus and the dataset may be open, `CountInv` that the counter is one
  behind between the save and its count and that nothing is reported before the
  worker has ended.
* `StopsEndRecording`, an action property: `StopInv` says that a stop which has
  written `stop_recording` is seen by the episode loop, and one that has written
  `exit_early` as well reaches any take that has begun, since the worker, which
  clears `exit_early`, does not turn back to a take once `stop_recording` is up.
* `ServiceImplemented`: initial states of `RecordingSession` are initial states of
  `RecordingService`, and each step (`ServiceStep`) is one of its steps or a stutter.
  `PhaseInv` is what it needs: the phase belongs to the position of the worker, or
  a stop has written `stopping` over it.

**SubsequencesProofs** is what the next three modules know of sequences of requests.
`Derived(t, s, kept, new)` says that `t` has the elements of `s` at the positions
`kept`, in their order, and then perhaps a new one. It holds of `RemoveAt`
(`RemoveAtDerived`), of `Subsequence` (`SubsequenceDerived`, by counting the kept
positions below one) and of what is appended to either (`AppendDerived`).

**CalibrationProofs**, about `Calibration` with its two components, for any number
of calibrations, visits, polls, cameras, cables, edits and requests under way.
Every action changes `calls` in one of a few ways (`UserSends`, `PollSends`,
`BecomesOK`, `ServerEffects` and their like state them through `Derived`), and the
invariants are carried over from one sequence of requests to the next by these.

* `TypesCorrect` proves the types, for which it needs that a worker, or a start
  about to make one, is preceded by its claim (`ClaimedInv`).
* `DeviceIsReleased`, from `~Overtaking`, `~SlowDevices` and `OneClick`.
  `DeviceReleased` speaks about an idle manager and follows from `DeviceInv`: while
  a start has not been answered no worker is left and no stop is waiting; every
  worker is the one `thread` names, and it is active until its `finally`. The three
  hypotheses are needed: a stop that overtakes the start of its run is forgotten
  (`calibrate.py`, 162 and 180), a stop that gives up its join lets the next start
  meet the old worker, and so does a second start.
* `OwnArmIsCalibrated`, from `Patient` only, so with requests and answers
  overtaking each other. `PortInv` says that every port under way or stored belongs
  to its side (`OwnInv`), which an answer that comes after the user has changed the
  side would break: the invariant has that the dialog's detection belongs to the
  side shown (`DialogInv`), and that the form has no robot before its record has
  arrived (`LoadInv`).
* `CamerasAreKept`, from `InTurn`: no overtaking, `Patient`, `OneClick`, and no
  instance in which both calibrations run and cables move. `CamerasKept` speaks about
  the moment when nothing is under way, so the invariant has to say how the list
  gets there. `ListInv`: the newest list is on its way to the record, in the timer of
  the debounced save or in the last of the saves, or it is there already; the answer
  that brings the record to a new visit comes after the saves of the visit before.
  `IndexInv`: the last enumeration under way sees every cable as it is, what it
  found is part of what OpenCV would find, and when none is under way the cameras
  on the page's list have the right indices in the form. `WriteInv`: who writes
  the record has read what is in it, or
  brings the new list. `SerialInv` keeps the write-back of a calibration apart from
  the saves of cameras. The last hypothesis excludes what no line of the code
  prevents: a cable that moves during a calibration leads to a save of the cameras,
  which the write-back may overwrite with the list it read before.

**RobotAppProofs**, about `RobotApp` with its four pages, for any robots, number of
clicks and of requests under way, and whatever `Patient`, `Overtaking`, `WaitEnough`
and `LateStops` are, except where a hypothesis is named:

* `TypesCorrect` proves the types of the page, of the server and of the requests.
  A page reads its own fields in the answers to its own requests, so the invariant
  has to know that an answer to the mount on screen is to a request that such a
  page sends (`Heard`). Mount numbers are reused; that a new page never takes up a
  number with a request under way is `FreshMountOK`, which takes a counting argument.
* `StreamsAreOwned`: a stream may be granted after its preview is gone, and then
  another preview may already be waiting for its own. `StreamInv` says that a
  preview's number is in force only while the preview is on screen, and that what it
  waits for, will ask for again, has failed to get or has is one of these four:
  a second stream could otherwise be asked for while the first one runs.
* `UploadsAreOwn`, from `~Overtaking` alone; the user may be impatient. The recording
  page takes the dataset's name from the status it polls, and the server goes on to
  its next session without telling anyone; pages whose start was refused or failed
  poll as well. `SessionInv` says why a page with a session of its own never hears of
  another: its status requests are about the newest session, no start that waits
  is ahead of them in line (`StatusInv`), the start that the mounted page has asked
  for is the last one in line, and if it is accepted its session is the newest
  (`RecordInv`), and while such a page is on screen its session is the newest and no
  start waits (`OwnInv`). Requests end anywhere in the line, so each step needs that
  the others keep their order (`KeptOrder`, from `SubsequencesProofs`). With
  overtaking a request that was left behind could begin a session under a page that
  has started, so the proof does not go through. Whether the property fails then is
  open: TLC found no counterexample within the time a run has, without covering all
  states.

The last three need to know more about the line of requests than that it keeps its
order. `Move` says what any step may do to it: the page stays and sends a request of
its own, hears the first answer or a timer, the server answers the first request
that waits, or another page is mounted (`StepMove`: every step is one of these).
`LineInOrder`, from `~Overtaking`, is what follows for a page that fetches something
when it is mounted: until that is answered, whatever is sent after it is its own, and
once it is answered nothing of an earlier page is left but timers (`FlushInv`).

* `ListMatches`, from `~Overtaking`. `useRobots.ts` never fetches the list again but
  applies the answers of its own edits to its copy. `ListInv` says why the copy is
  right: while the list is being fetched no edit of this mount is under way and
  the answer is what the server still has (`Fetching`: edits by earlier mounts come
  before it in line); afterwards each robot is shown as the server has it, or the
  last successful edit whose answer is on its way brings that (`Shows`). Edits of
  several robots, several edits of one and an impatient user are included.
* `NobodyIsBounced`, from `~Overtaking`, an action property, for pages whose start was
  accepted, refused or failed. `PolledInv`: only a page whose start was answered polls.
  `FreshInv`: what the page on screen has heard is about the newest session, its own
  or not. `EndedInv`: a status on its way that says "not active" of the newest session
  is still true when it arrives, since no session becomes active again
  (`ServiceStep`), and the number of episodes it tells is too, unless a start that
  failed has reset it since.
* `CamerasAreHandedOver`, from `~Overtaking` and `Patient`, an action property of
  the page, the timer, the request and the server together. `HandInv` follows the
  index of the camera while the dialog's newest enumeration has it (`listed`): an open
  dialog knows it or is about to hear it (`DialogInv`), the pause remembers it
  (`SeenInv`) and nobody does anything that sends a request meanwhile but the page
  that opens (`PauseInv`), and the request for a session is the recording page's own,
  the only one, and has the index (`AskedInv`). That the browser holds no camera then
  is `StreamInv`: the recording page shows no preview.

**JobsAppProofs**, about `JobsApp` with its pages and dialogs, for any bounds (targets,
checkpoints, lines, runs, socket drops, a missing package) and number of requests:

* `TypesCorrect` proves the types, with the same `Heard` as above.
* `GateIsTruthful`, from `~Overtaking` and `Patient`, the hypotheses named in 3.2. A
  gate sets "installing" before the server has heard of it and learns everything
  else from answers, so `GateTruthful` speaks only of a gate that waits for none.
  `GateInv` says how it gets there: an answer on its way about the installer is
  true when it arrives, although an installation may end meanwhile; an install
  request is ahead of every question asked after the click; a gate that has had
  its first answer agrees with the installer, or shows "installing" while its
  request is on its way.
* `LogIsInOrder`, from `~Overtaking` and `Patient`, with lines printed at any moment,
  also between the reading of the file and the emptying of the queue. The page
  takes lines from
  two places, the file once and the queue ever after, and each read of the queue
  empties it, also one whose answer nobody hears. `OrderInv` is the order that makes
  this come out: the file is read before the first record arrives and so before
  the page asks for the queue; every request that empties the queue and is not the
  page's own is served before the file is read. `LinesInv` accounts for the lines:
  the page with what is on its way runs forward and may repeat one line (`Seam`), what
  is still in the queue can follow it (`GoesOn`: the file had at most one line more
  than had been put), and each line that has left the queue is on the page, on its way
  to it, or lost (`Covered`).
* Both need to know that the job of a page is not replaced under it. `AloneInv`: a
  patient user has at most one request under way that changes something or leads
  away, and stays on its page until its callback has run. `AliveInv`: a process runs
  only for a job whose record says so, and nobody is about to put another job
  in its place.

Of the many steps of the pages few touch the gate or the log. `Keeps`, `Light` and
`Moves` say what the others leave alone, once for all of them: the requests of the
kinds an invariant speaks about are the same ones in the same order, but for
some that have ended and new ones behind them.

The attempt to prove `LogInOrder` and `CamerasHandedOver` showed a mistake in the
models: the pauses of the two dialogs had been requests, so that with `~Overtaking`
they and the other requests held each other up. They are timers now.

**DatasetProofs** again, its second part, about `Indexing`, for every sorted array and every tick:
the insertion points
of `searchsorted` split the array (`SearchLeftPoint`, `SearchRightPoint`),
`previous_indices` and `next_indices` return the newest entry not after and the
oldest not before the tick (`PreviousIsNewest`, `NextIsOldest`), and both are
monotonic (`LookupsMonotonic`). All of it rests on `InitialSegment`: a
downward closed set of positions is `1..n` for its size `n`.

And about `Alignment`, for all bags, policies, tolerances and rates, from
`AlignmentAssumption` (streams sorted, which `scan_bag` enforces; finitely many
arms; policies that `AlignmentConfig` accepts):

* `TicksInside`, `ObservationsCausal`, `EpisodesOrdered` and `HoldsZeroOrder` prove
  the four invariants of the run. None of them is inductive, since each speaks of
  what a late stage ends with. `AlignmentInv` says what every stage hands to the
  next: `WindowInv` the overlap of the streams, `GridInv` that the ticks are
  ascending and inside the window, `RowsInv` the properties of all rows,
  kept or not, and `KeptInv` that only valid rows are kept.
* The heart of `EpisodesOrdered` is `CommandsMonotonic`: a real command lies up to
  `ActionTolerance` after its tick, so a held one at a later tick might be an
  earlier sample; it is not, because the real one would be real there as well.
  `ReferenceMonotonic` carries this to the effector actions; the greatest of
  finitely many values exists by well-founded induction over subsets
  (`SomeLatest`).

Only proved, not part of a run: the type invariants of `DatasetStaging`,
`JobRegistry`, `RobotSessions`, `RecordingSession`, `Calibration`, `RobotApp` and
`JobsApp`, and `StampMeansComplete`, which `LocalCopiesComplete` includes in its
invariant. Only model-checked: the liveness properties, which are outside what this
prover decides. Every invariant and every action property of a passing run is a
theorem.

## 5. What is not modelled

* Text, logs, metrics, wording and layout; file formats; the batch script; the
  three-dimensional view of the robot (`UrdfContext.tsx`); the tips and the Hub's
  banner; sounds and countdowns.
* LeRobot, Slurm, the kernel's locks, the browser's camera interface, pip and the
  HF hub are external: they appear as the answers the code distinguishes.
* In the registry: HF cloud jobs (the pages have them as a kind of target only), the
  migration of old job directories, checkpoint discovery (a resume takes "has a
  checkpoint" as given), the parsing of metrics.
* In recording: dataset information. Upload and deletion are in `RobotDesk`. Only new
  datasets are recorded, which is all the page asks for; a resumed one
  (`record.py`, 630 and 644) may raise when it is open already, and nothing finalizes
  it then.
* On the robot pages: answers that are lost after the handler has run
  (`ConnectionFails` is a request that does not reach it); the second fetch of the
  robots when `navigate("/")` is called on the landing page itself
  (`useRobots.ts`, 46-73): it cancels the first one and brings the list that the page
  maintains, which makes a difference only if answers overtake each other.
* The broadcast of joint positions and the restarts of its thread; the self-update,
  which replaces the running program; the single-tab guard, an election by
  heartbeats whose timers a browser throttles in the background, so that
  two tabs may both think themselves primary.
* In the alignment: decoding, the values of samples, velocities, the audit report.
  The age of a gripper command is measured against the time of the selected arm
  command (`aligner.py`, 286), so a carried gripper action may be arbitrarily old
  at its tick while the arms are silent; `tool/CONVERSION.md`, 288, describes the
  check as independent of the gap policy. The model has it; no property of
  a run is about it.
* Kinematics (floating point), installation scripts, experiments and reports.
* Two threads that save one record share a temporary file (`jobs.py`, 1460);
  the second rename fails and is logged. The model saves atomically.

The models contain some behaviour that no run speaks about, because the code lets
it happen and promises nothing else:

* A job that comes while another trains from the copy waits in `flock -x` until
  that training ends, although the lock was downgraded for readers
  (`ReadersAdmitReaders` in `DatasetStaging` fails).
* A re-record asked for while the episode is being saved is applied to the next
  take (`RerecordHonoured` in `RecordingSession` fails).
* A teleoperation page whose stop request failed does not send another.
* A camera that the enumeration does not list keeps the index it was saved with, which
  may be another camera's by now (`CameraConfiguration.tsx`, 85).
* A recording page whose start was refused stays with the session it did not begin
  and uploads that dataset, or the one before; one whose start failed polls
  "preparing" for ever. `Recording.tsx`, 115, says that a second start "returns 409
  and bounces the user home" (`RefusedGoHome` in `RobotApp` fails).
* The log of a training lacks what was printed between the reading of the
  file and the emptying of the queue, until the page is mounted again; a line that
  is in the file then and reaches the queue only after it was emptied is shown
  twice, although `server.py`, 620, and `Training.tsx`, 452, say that it is not
  (`NoLineTwice` in `JobsApp` fails).
* A job whose id could not be read from what sbatch printed may be resumed while its
  first attempt lives (`OneAttemptAtATime` in `JobRegistry` fails also without an
  outage, if `Unreadable` is TRUE).
* An exited rollout whose page was left keeps its slot until somebody asks.
* The upload page does not disable the deletion while it uploads.
* Closing the inference dialog does not cancel the start it has sent, and an
  inference page that is left while the rollout runs leaves it running.

## 6. Plan

In this order; each module comes with its instance, properties and mutants.

1. `Broadcast`: the connection manager's worker, its start and stop from two
   sides, and the messages a client gets.
2. `JobRegistry` extended by cloud jobs and imported models; an abstract life
   cycle of a job (queued, running, ended; restarts invisible) that the registry
   is shown to implement and `JobDesk` is put on.
3. `Calibration` composed with `RobotSessions`, to show what the missing exclusion
   between them allows.
4. The writers and quality checks on top of `Alignment`: the order of files, and
   a run for the age of gripper actions.
5. `DatasetRepair` and the batch tools: sequences of file writes under failure
   and resume.
6. `SingleTabGuard` of the front end: two tabs, lost and reordered messages.
