--------------------------- MODULE DatasetStaging ---------------------------
(***************************************************************************)
(* The node-local dataset cache.  Every Slurm training job runs the shell  *)
(* block _STAGING_SHELL of lelab/runners/slurm.py before it execs the      *)
(* training command: it copies its dataset from the NAS into a directory   *)
(* shared by all jobs of the node, evicting other copies when the disk is  *)
(* short, and then trains from the copy, or from the NAS when anything     *)
(* goes wrong.  The jobs have only flock(2) and a stamp file to agree on.  *)
(*                                                                         *)
(* pc[j] is the position of job j's shell:                                 *)
(*   start      before the block            downgrade  stamp written       *)
(*   lock       blocked in flock -x 9       shared     blocked in flock -s *)
(*   check      first free-space test       recheck    holds the lock, -s  *)
(*   sweep      evicting                    local      trains on the copy  *)
(*   prepare    room was found              nas        trains on the NAS   *)
(*   syncing    rsync runs                  done       training has exited *)
(*   stamping   rsync has succeeded         killed     scancel, OOM, ...   *)
(***************************************************************************)
EXTENDS Integers, FiniteSets

CONSTANTS
  Jobs,        \* the training jobs Slurm starts on one node
  Datasets,    \* the datasets on the NAS
  NoJob, NoDataset,
  Capacity,    \* size of the cache's filesystem, in halves of a dataset
  MinFree,     \* LELAB_DATASET_CACHE_MIN_FREE_GB, in the same unit
  MaxVersion,  \* bound: MaxVersion[d] extensions of dataset d on the NAS
  Tearable     \* the datasets whose removal may end with only some files gone

ASSUME StagingAssumption ==
  /\ NoJob \notin Jobs
  /\ NoDataset \notin Datasets
  /\ Capacity \in Nat
  /\ MinFree \in Nat
  /\ MaxVersion \in [Datasets -> Nat]
  /\ Tearable \subseteq Datasets

VARIABLES
  pc,       \* pc[j]: where the shell of job j is
  want,     \* want[j]: the dataset job j trains on (stage_src)
  todo,     \* todo[j]: the cache entries j's sweep has still to visit, with
            \* the stamp each had when lelab_cache_entries listed them
  victim,   \* victim[j]: the entry j is removing, or NoDataset
  writer,   \* writer[d]: the job holding d's lock file exclusively, or NoJob
  readers,  \* readers[d]: the jobs holding d's lock file shared
  copy,     \* copy[d]: what is in the cache directory of d
  stamp,    \* stamp[d]: 0, or the time of the stamp file of d
  version,  \* version[d]: what the files of the copy were read from
  nas,      \* nas[d]: how often d has been extended on the NAS
  began,    \* began[j]: nas[want[j]] when j started staging (history)
  clock     \* time of the last stamp

vars == <<pc, want, todo, victim, writer, readers, copy, stamp, version,
          nas, began, clock>>

disk == <<copy, stamp, version>>
locks == <<writer, readers>>

Location == {"start", "lock", "check", "sweep", "prepare", "syncing",
             "stamping", "downgrade", "shared", "recheck", "local", "nas",
             "done", "killed"}

(* absent; a first copy not finished; a whole-size copy with files changed   *)
(* or missing; exactly the files of one version of the dataset.              *)
CopyState == {"absent", "partial", "dirty", "complete"}

(* A directory whose files are being rewritten or removed.                   *)
Damaged(c) == IF c = "complete" THEN "dirty" ELSE c

Init ==
  /\ pc = [j \in Jobs |-> "start"]
  /\ want \in [Jobs -> Datasets]
  /\ todo = [j \in Jobs |-> <<>>]
  /\ victim = [j \in Jobs |-> NoDataset]
  /\ writer = [d \in Datasets |-> NoJob]
  /\ readers = [d \in Datasets |-> {}]
  /\ copy \in [Datasets -> {"absent", "partial", "complete"}]
  /\ stamp = [d \in Datasets |-> IF copy[d] = "complete" THEN 1 ELSE 0]
  /\ version = [d \in Datasets |-> 0]
  /\ nas = [d \in Datasets |-> 0]
  /\ began = [j \in Jobs |-> 0]
  /\ clock = 1

-----------------------------------------------------------------------------
(* Free space.                                                               *)

(* What df reports: a partial copy takes one unit, a whole one two.          *)
Free ==
  Capacity - Cardinality({d \in Datasets : copy[d] # "absent"})
           - Cardinality({d \in Datasets : copy[d] \in {"dirty", "complete"}})

(* need_kb: a stamped copy is only refreshed, so it asks for nothing more.   *)
Need(j) == IF stamp[want[j]] # 0 THEN 0 ELSE 2

(* lelab_space_ok                                                            *)
SpaceOK(j) == Free >= Need(j) + MinFree

(* lelab_cache_entries: every directory of the cache with its stamp's time,  *)
(* 0 if it has none.                                                         *)
CacheEntries == [d \in {d \in Datasets : copy[d] # "absent"} |-> stamp[d]]

(* The sweep visits the listed entries oldest stamp first.                   *)
IsNext(j, v) ==
  /\ v \in DOMAIN todo[j]
  /\ \A d \in DOMAIN todo[j] : todo[j][v] <= todo[j][d]

Without(f, v) == [d \in DOMAIN f \ {v} |-> f[d]]

-----------------------------------------------------------------------------
(* flock(2): the kernel grants, refuses and releases.                        *)

Unlocked(d) == writer[d] = NoJob /\ readers[d] = {}

(* A process that ends closes its descriptors and so drops all its locks,    *)
(* also the one on a directory it was removing.                              *)
DropLocks(j) ==
  /\ writer' = [d \in Datasets |-> IF writer[d] = j THEN NoJob ELSE writer[d]]
  /\ readers' = [d \in Datasets |-> readers[d] \ {j}]

Goto(j, from, to) == pc[j] = from /\ pc' = [pc EXCEPT ![j] = to]

-----------------------------------------------------------------------------
(* The steps of lelab_stage_dataset.                                         *)

(* The cache is off, rsync or flock is missing, or the lock file cannot be   *)
(* opened: the job trains from the NAS and holds no lock.                    *)
SkipStaging(j) ==
  /\ Goto(j, "start", "nas")
  /\ UNCHANGED <<want, todo, victim, locks, disk, nas, began, clock>>

OpenLockFile(j) ==
  /\ Goto(j, "start", "lock")
  /\ began' = [began EXCEPT ![j] = nas[want[j]]]
  /\ UNCHANGED <<want, todo, victim, locks, disk, nas, clock>>

LockExclusive(j) ==
  /\ Goto(j, "lock", "check")
  /\ Unlocked(want[j])
  /\ writer' = [writer EXCEPT ![want[j]] = j]
  /\ UNCHANGED <<want, todo, victim, readers, disk, nas, began, clock>>

LockFails(j) ==
  /\ Goto(j, "lock", "nas")
  /\ UNCHANGED <<want, todo, victim, locks, disk, nas, began, clock>>

(* Mutant: a stamped copy is taken as it is, without an rsync.               *)
RoomFoundKeepingHit(j) ==
  /\ Goto(j, "check", IF stamp[want[j]] # 0 THEN "downgrade" ELSE "prepare")
  /\ SpaceOK(j)
  /\ UNCHANGED <<want, todo, victim, locks, disk, nas, began, clock>>

RoomFound(j) ==
  /\ Goto(j, "check", "prepare")
  /\ SpaceOK(j)
  /\ UNCHANGED <<want, todo, victim, locks, disk, nas, began, clock>>

BeginSweep(j) ==
  /\ Goto(j, "check", "sweep")
  /\ ~SpaceOK(j)
  /\ todo' = [todo EXCEPT ![j] = CacheEntries]
  /\ UNCHANGED <<want, victim, locks, disk, nas, began, clock>>

(* du of the source fails.                                                   *)
SizeUnknown(j) ==
  /\ Goto(j, "check", "nas")
  /\ stamp[want[j]] = 0
  /\ UNCHANGED <<want, todo, victim, locks, disk, nas, began, clock>>

(* lelab_evict_until_free ends: with room, or with nothing left to visit.    *)
SweepEnds(j) ==
  /\ Goto(j, "sweep", IF SpaceOK(j) THEN "prepare" ELSE "nas")
  /\ victim[j] = NoDataset
  /\ SpaceOK(j) \/ todo[j] = <<>>
  /\ todo' = [todo EXCEPT ![j] = <<>>]
  /\ UNCHANGED <<want, victim, locks, disk, nas, began, clock>>

(* Mutant: flock without -n waits for a victim that is locked.               *)
SweepSkipsOwnOnly(j) ==
  /\ pc[j] = "sweep"
  /\ victim[j] = NoDataset
  /\ ~SpaceOK(j)
  /\ \E v \in Datasets :
       /\ IsNext(j, v)
       /\ v = want[j]
       /\ todo' = [todo EXCEPT ![j] = Without(@, v)]
  /\ UNCHANGED <<pc, want, victim, locks, disk, nas, began, clock>>

(* The entry is the job's own, or flock -n finds its lock taken.             *)
SweepSkips(j) ==
  /\ pc[j] = "sweep"
  /\ victim[j] = NoDataset
  /\ ~SpaceOK(j)
  /\ \E v \in Datasets :
       /\ IsNext(j, v)
       /\ v = want[j] \/ ~Unlocked(v)
       /\ todo' = [todo EXCEPT ![j] = Without(@, v)]
  /\ UNCHANGED <<pc, want, victim, locks, disk, nas, began, clock>>

(* Mutant: the victim is removed although jobs hold its lock shared.         *)
SweepClaimsFromReaders(j) ==
  /\ pc[j] = "sweep"
  /\ victim[j] = NoDataset
  /\ ~SpaceOK(j)
  /\ \E v \in Datasets :
       /\ IsNext(j, v)
       /\ v # want[j] /\ writer[v] = NoJob
       /\ victim' = [victim EXCEPT ![j] = v]
       /\ writer' = [writer EXCEPT ![v] = j]
       /\ todo' = [todo EXCEPT ![j] = Without(@, v)]
       /\ copy' = [copy EXCEPT ![v] = Damaged(@)]
       /\ \E t \in {0, stamp[v]} : stamp' = [stamp EXCEPT ![v] = t]
  /\ UNCHANGED <<pc, want, readers, version, nas, began, clock>>

(* flock -n -x gets the lock and rm -rf starts; it meets the stamp file      *)
(* sooner or later.                                                          *)
SweepClaims(j) ==
  /\ pc[j] = "sweep"
  /\ victim[j] = NoDataset
  /\ ~SpaceOK(j)
  /\ \E v \in Datasets :
       /\ IsNext(j, v)
       /\ v # want[j] /\ Unlocked(v)
       /\ victim' = [victim EXCEPT ![j] = v]
       /\ writer' = [writer EXCEPT ![v] = j]
       /\ todo' = [todo EXCEPT ![j] = Without(@, v)]
       /\ copy' = [copy EXCEPT ![v] = Damaged(@)]
       /\ \E t \in {0, stamp[v]} : stamp' = [stamp EXCEPT ![v] = t]
  /\ UNCHANGED <<pc, want, readers, version, nas, began, clock>>

SweepReclaims(j) ==
  /\ pc[j] = "sweep"
  /\ victim[j] # NoDataset
  /\ copy' = [copy EXCEPT ![victim[j]] = "absent"]
  /\ stamp' = [stamp EXCEPT ![victim[j]] = 0]
  /\ writer' = [writer EXCEPT ![victim[j]] = NoJob]
  /\ victim' = [victim EXCEPT ![j] = NoDataset]
  /\ UNCHANGED <<pc, want, todo, readers, version, nas, began, clock>>

(* rm -rf reports an error with some files left; the sweep goes on.          *)
SweepCutShort(j) ==
  /\ pc[j] = "sweep"
  /\ victim[j] \in Tearable
  /\ writer' = [writer EXCEPT ![victim[j]] = NoJob]
  /\ victim' = [victim EXCEPT ![j] = NoDataset]
  /\ UNCHANGED <<pc, want, todo, readers, disk, nas, began, clock>>

(* mkdir -p, rm of the stamp, and rsync starts to change the directory.      *)
StartSync(j) ==
  LET d == want[j] IN
  /\ Goto(j, "prepare", "syncing")
  /\ copy' = [copy EXCEPT ![d] =
                 IF @ = "absent" THEN "partial" ELSE Damaged(@)]
  /\ stamp' = [stamp EXCEPT ![d] = 0]
  /\ version' = [version EXCEPT ![d] = nas[d]]
  /\ UNCHANGED <<want, todo, victim, locks, nas, began, clock>>

(* rsync succeeds: the copy is the dataset as it was at some moment of it.   *)
SyncSucceeds(j) ==
  LET d == want[j] IN
  /\ Goto(j, "syncing", "stamping")
  /\ copy[d] = "partial" => Free > 0
  /\ copy' = [copy EXCEPT ![d] = "complete"]
  /\ \E v \in version[d]..nas[d] : version' = [version EXCEPT ![d] = v]
  /\ UNCHANGED <<want, todo, victim, locks, stamp, nas, began, clock>>

(* mkdir or rsync fails: no space left, the NAS is unreachable, ...          *)
SyncFails(j) ==
  /\ Goto(j, "syncing", "nas")
  /\ UNCHANGED <<want, todo, victim, locks, disk, nas, began, clock>>

WriteStamp(j) ==
  /\ Goto(j, "stamping", "downgrade")
  /\ clock' = clock + 1
  /\ stamp' = [stamp EXCEPT ![want[j]] = clock + 1]
  /\ UNCHANGED <<want, todo, victim, locks, copy, version, nas, began>>

(* The shell cannot create the stamp file, or date cannot write into it.     *)
StampFails(j) ==
  /\ Goto(j, "stamping", "nas")
  /\ clock' = clock + 1
  /\ \E t \in {0, clock + 1} : stamp' = [stamp EXCEPT ![want[j]] = t]
  /\ UNCHANGED <<want, todo, victim, locks, copy, version, nas, began>>

(* flock -s on a descriptor locked exclusively: the kernel drops the old     *)
(* lock and then asks for the new one.                                       *)
ReleaseExclusive(j) ==
  /\ Goto(j, "downgrade", "shared")
  /\ writer' = [writer EXCEPT ![want[j]] = NoJob]
  /\ UNCHANGED <<want, todo, victim, readers, disk, nas, began, clock>>

LockShared(j) ==
  /\ Goto(j, "shared", "recheck")
  /\ writer[want[j]] = NoJob
  /\ readers' = [readers EXCEPT ![want[j]] = @ \cup {j}]
  /\ UNCHANGED <<want, todo, victim, writer, disk, nas, began, clock>>

DowngradeFails(j) ==
  /\ Goto(j, "shared", "nas")
  /\ UNCHANGED <<want, todo, victim, locks, disk, nas, began, clock>>

(* Mutant: the copy is used without a second look at its stamp.              *)
NoRecheck(j) ==
  /\ Goto(j, "recheck", "local")
  /\ UNCHANGED <<want, todo, victim, locks, disk, nas, began, clock>>

(* The stamp is tested once more, now under the shared lock.                 *)
Recheck(j) ==
  /\ Goto(j, "recheck", IF stamp[want[j]] # 0 THEN "local" ELSE "nas")
  /\ UNCHANGED <<want, todo, victim, locks, disk, nas, began, clock>>

(* The training command ends.  It has inherited fd 9, and with it whatever   *)
(* lock the shell held when it was exec'd.                                   *)
TrainingEnds(j) ==
  /\ pc[j] \in {"local", "nas"}
  /\ pc' = [pc EXCEPT ![j] = "done"]
  /\ DropLocks(j)
  /\ UNCHANGED <<want, todo, victim, disk, nas, began, clock>>

(* scancel, the cgroup's OOM killer or a time limit, at any moment.          *)
Kill(j) ==
  /\ pc[j] \notin {"start", "done", "killed"}
  /\ victim[j] # NoDataset => victim[j] \in Tearable
  /\ pc' = [pc EXCEPT ![j] = "killed"]
  /\ victim' = [victim EXCEPT ![j] = NoDataset]
  /\ todo' = [todo EXCEPT ![j] = <<>>]
  /\ DropLocks(j)
  /\ UNCHANGED <<want, disk, nas, began, clock>>

(* A recording or a repair extends the dataset on the NAS.                   *)
ExtendDataset(d) ==
  /\ nas[d] < MaxVersion[d]
  /\ nas' = [nas EXCEPT ![d] = @ + 1]
  /\ UNCHANGED <<pc, want, todo, victim, locks, disk, began, clock>>

-----------------------------------------------------------------------------
(* What a job does when nothing goes wrong outside it.                       *)
Progress(j) ==
  \/ OpenLockFile(j) \/ LockExclusive(j)
  \/ RoomFound(j) \/ BeginSweep(j)
  \/ SweepEnds(j) \/ SweepSkips(j) \/ SweepClaims(j) \/ SweepReclaims(j)
  \/ StartSync(j) \/ SyncSucceeds(j) \/ SyncFails(j) \/ WriteStamp(j)
  \/ ReleaseExclusive(j) \/ LockShared(j) \/ Recheck(j)
  \/ TrainingEnds(j)

(* What the environment may do to it.                                        *)
Trouble(j) ==
  \/ SkipStaging(j) \/ LockFails(j) \/ SizeUnknown(j) \/ SweepCutShort(j)
  \/ StampFails(j) \/ DowngradeFails(j) \/ Kill(j)

Next ==
  \/ \E j \in Jobs : Progress(j) \/ Trouble(j)
  \/ \E d \in Datasets : ExtendDataset(d)

Spec == Init /\ [][Next]_vars

(* The node runs every shell, rsync and rm return, and trainings end.        *)
Fairness == \A j \in Jobs : WF_vars(Progress(j))

FairSpec == Spec /\ Fairness

-----------------------------------------------------------------------------
(* The types; a stamp is never later than the clock, so the order in which   *)
(* sweeps visit the entries is the order in which they were staged.          *)
TypeOK ==
  /\ pc \in [Jobs -> Location]
  /\ want \in [Jobs -> Datasets]
  /\ \A j \in Jobs : DOMAIN todo[j] \subseteq Datasets
  /\ victim \in [Jobs -> Datasets \cup {NoDataset}]
  /\ writer \in [Datasets -> Jobs \cup {NoJob}]
  /\ readers \in [Datasets -> SUBSET Jobs]
  /\ copy \in [Datasets -> CopyState]
  /\ stamp \in [Datasets -> Nat]
  /\ \A d \in Datasets : stamp[d] <= clock
  /\ version \in [Datasets -> Nat]
  /\ nas \in [Datasets -> Nat]
  /\ began \in [Jobs -> Nat]
  /\ clock \in Nat \ {0}

(* A job that trains from the cache reads a complete copy of its dataset,    *)
(* whatever the other jobs stage and evict meanwhile (slurm.py:174-191: the  *)
(* stamp is dropped before rsync and tested again after the downgrade),      *)
(* provided that whoever starts to remove such a copy removes all of it.     *)
LocalCopyComplete ==
  \A j \in Jobs : (pc[j] = "local" /\ want[j] \notin Tearable)
                    => copy[want[j]] = "complete"

(* While no job holds the lock of a dataset exclusively, its stamp vouches   *)
(* for a complete copy, also after crashes (slurm.py:84, "its absence marks  *)
(* a copy that was interrupted").                                            *)
StampMeansComplete ==
  \A d \in Datasets \ Tearable :
    (stamp[d] # 0 /\ writer[d] = NoJob) => copy[d] = "complete"

(* A copy is at least as recent as the dataset was when the job that trains  *)
(* from it asked for the lock: a cache hit is refreshed (slurm.py:177), and  *)
(* nothing older takes its place between the downgrade and the second test.  *)
LocalCopyFresh ==
  \A j \in Jobs : pc[j] = "local" => version[want[j]] >= began[j]

(* No sweep, rsync or stamp of another job touches a copy while a job trains *)
(* from it (slurm.py:135-137: a dataset in use is skipped by the sweep).     *)
CopyStableWhileRead ==
  [][\A j \in Jobs : (pc[j] = "local" /\ pc'[j] = "local")
       => UNCHANGED <<copy[want[j]], version[want[j]], stamp[want[j]]>>]_vars

(* Staging never keeps a job from training: it gets the lock, finds or makes *)
(* room or gives up, and reaches the exec, unless it is killed (slurm.py     *)
(* 194-198).  A sweep holds two locks: this is also freedom from deadlock.   *)
EveryJobTrains ==
  \A j \in Jobs : pc[j] = "lock" ~> pc[j] \in {"local", "nas", "killed"}

(* A job that starts while a copy is only being read can read it too:        *)
(* slurm.py:181, "Downgrade so other jobs can read the same copy             *)
(* concurrently."                                                            *)
ReadersAdmitReaders ==
  \A i, j \in Jobs :
    (pc[i] = "local" /\ pc[j] = "lock" /\ want[j] = want[i])
      => ENABLED LockExclusive(j)

=============================================================================
