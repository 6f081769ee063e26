---------------------------- MODULE DatasetProofs ----------------------------
(***************************************************************************)
(* Theorems about datasets, before and after they are written.             *)
(*                                                                         *)
(* DatasetStaging, for every set of jobs and datasets: a job holds the     *)
(* lock of its dataset in the mode its position requires, and that of its  *)
(* victim (LockInv); only a holder of the exclusive lock changes a         *)
(* directory, so a stamp outside a sweep vouches for the files (StampInv)  *)
(* and the version only grows (VersionInv).                                *)
(*                                                                         *)
(* Alignment: the rows of an aligned episode, for every recording, every   *)
(* policy and every tolerance.                                             *)
(***************************************************************************)
EXTENDS DatasetStaging, Alignment, FiniteSetTheorems, TLAPS

(* Positions at which the job's own lock is held exclusively.                *)
Staging == {"check", "sweep", "prepare", "syncing", "stamping", "downgrade"}

(* Positions from the start of the job's own rsync on.                       *)
Copied == {"syncing", "stamping", "downgrade", "shared", "recheck", "local"}

(* Who holds which lock, by position.                                        *)
LockInv ==
  /\ \A j \in Jobs : pc[j] \in Staging => writer[want[j]] = j
  /\ \A j \in Jobs : pc[j] \in {"recheck", "local"} => j \in readers[want[j]]
  /\ \A d \in Datasets : writer[d] # NoJob => readers[d] = {}
  /\ \A j \in Jobs : victim[j] # NoDataset =>
       pc[j] = "sweep" /\ writer[victim[j]] = j /\ victim[j] # want[j]

(* What a stamp says of its copy.                                            *)
StampInv ==
  /\ \A d \in Datasets \ Tearable : stamp[d] # 0 =>
       copy[d] = "complete" \/ \E j \in Jobs : victim[j] = d
  /\ \A j \in Jobs : pc[j] \in {"stamping", "downgrade"}
                       => copy[want[j]] = "complete"
  /\ \A j \in Jobs : pc[j] = "local" => stamp[want[j]] # 0

(* How old copies can be.                                                    *)
VersionInv ==
  /\ \A d \in Datasets : version[d] <= nas[d]
  /\ \A j \in Jobs : began[j] <= nas[want[j]]
  /\ \A j \in Jobs : pc[j] \in Copied => began[j] <= version[want[j]]

-----------------------------------------------------------------------------
(* Types and locks.                                                          *)

(* The cache as the first job finds it has the types.                        *)
LEMMA InitTypeOK == Init => TypeOK
BY StagingAssumption DEF Init, TypeOK, Location, CopyState

(* No step of a job or of the environment leaves the types.                  *)
LEMMA NextTypeOK == TypeOK /\ [Next]_vars => TypeOK'
<1> SUFFICES ASSUME TypeOK, [Next]_vars PROVE TypeOK'
  OBVIOUS
<1> USE StagingAssumption DEF TypeOK, Location, CopyState, Goto, disk, locks
<1>1. ASSUME NEW j \in Jobs, SkipStaging(j) PROVE TypeOK'
  BY <1>1 DEF SkipStaging
<1>2. ASSUME NEW j \in Jobs, OpenLockFile(j) PROVE TypeOK'
  BY <1>2 DEF OpenLockFile
<1>3. ASSUME NEW j \in Jobs, LockExclusive(j) PROVE TypeOK'
  BY <1>3 DEF LockExclusive
<1>4. ASSUME NEW j \in Jobs, LockFails(j) \/ SizeUnknown(j) \/ RoomFound(j)
      PROVE TypeOK'
  BY <1>4 DEF LockFails, SizeUnknown, RoomFound
<1>5. ASSUME NEW j \in Jobs, BeginSweep(j) PROVE TypeOK'
  BY <1>5 DEF BeginSweep, CacheEntries
<1>6. ASSUME NEW j \in Jobs, SweepEnds(j) PROVE TypeOK'
  BY <1>6 DEF SweepEnds
<1>7. ASSUME NEW j \in Jobs, SweepSkips(j) PROVE TypeOK'
  BY <1>7 DEF SweepSkips, Without, IsNext
<1>8. ASSUME NEW j \in Jobs, SweepClaims(j) PROVE TypeOK'
  BY <1>8 DEF SweepClaims, Without, IsNext, Damaged
<1>9. ASSUME NEW j \in Jobs, SweepReclaims(j) PROVE TypeOK'
  BY <1>9 DEF SweepReclaims
<1>10. ASSUME NEW j \in Jobs, SweepCutShort(j) PROVE TypeOK'
  BY <1>10 DEF SweepCutShort
<1>11. ASSUME NEW j \in Jobs, StartSync(j) PROVE TypeOK'
  BY <1>11 DEF StartSync, Damaged
<1>12. ASSUME NEW j \in Jobs, SyncSucceeds(j) PROVE TypeOK'
  BY <1>12 DEF SyncSucceeds
<1>13. ASSUME NEW j \in Jobs, SyncFails(j) \/ DowngradeFails(j) \/ Recheck(j)
       PROVE TypeOK'
  BY <1>13 DEF SyncFails, DowngradeFails, Recheck
<1>14. ASSUME NEW j \in Jobs, WriteStamp(j) PROVE TypeOK'
  BY <1>14 DEF WriteStamp
<1>15. ASSUME NEW j \in Jobs, StampFails(j) PROVE TypeOK'
  BY <1>15 DEF StampFails
<1>16. ASSUME NEW j \in Jobs, ReleaseExclusive(j) PROVE TypeOK'
  BY <1>16 DEF ReleaseExclusive
<1>17. ASSUME NEW j \in Jobs, LockShared(j) PROVE TypeOK'
  BY <1>17 DEF LockShared
<1>18. ASSUME NEW j \in Jobs, TrainingEnds(j) PROVE TypeOK'
  BY <1>18 DEF TrainingEnds, DropLocks
<1>19. ASSUME NEW j \in Jobs, Kill(j) PROVE TypeOK'
  BY <1>19 DEF Kill, DropLocks
<1>20. ASSUME NEW d \in Datasets, ExtendDataset(d) PROVE TypeOK'
  BY <1>20 DEF ExtendDataset
<1>21. CASE UNCHANGED vars
  BY <1>21 DEF vars
<1>22. QED
  BY <1>1, <1>2, <1>3, <1>4, <1>5, <1>6, <1>7, <1>8, <1>9, <1>10, <1>11,
     <1>12, <1>13, <1>14, <1>15, <1>16, <1>17, <1>18, <1>19, <1>20, <1>21
     DEF Next, Progress, Trouble

(* Every variable keeps its type, for any number of jobs and datasets.       *)
THEOREM TypeCorrect == Spec => []TypeOK
<1>1. QED BY InitTypeOK, NextTypeOK, PTL DEF Spec

(* At first nobody holds a lock.                                             *)
LEMMA InitLockInv == Init => LockInv
BY StagingAssumption DEF Init, LockInv, Staging

(* flock grants no exclusive lock beside another one, and a job moves on     *)
(* only with the lock its position needs.                                    *)
LEMMA NextLockInv == TypeOK /\ LockInv /\ [Next]_vars => LockInv'
<1> SUFFICES ASSUME TypeOK, LockInv, [Next]_vars PROVE LockInv'
  OBVIOUS
<1> USE StagingAssumption
    DEF TypeOK, LockInv, Staging, Goto, disk, locks
<1>1. ASSUME NEW i \in Jobs, SkipStaging(i) \/ OpenLockFile(i) \/ LockFails(i)
             \/ RoomFound(i) \/ SizeUnknown(i) \/ SyncFails(i) \/
             DowngradeFails(i)
      PROVE LockInv'
  BY <1>1 DEF SkipStaging, OpenLockFile, LockFails, RoomFound, SizeUnknown,
     SyncFails, DowngradeFails
<1>2. ASSUME NEW i \in Jobs, BeginSweep(i) \/ SweepEnds(i)
      PROVE LockInv'
  BY <1>2 DEF BeginSweep, CacheEntries, SweepEnds
<1>3. ASSUME NEW i \in Jobs, SweepSkips(i)
      PROVE LockInv'
  BY <1>3 DEF SweepSkips
<1>4. ASSUME NEW i \in Jobs, SyncSucceeds(i) \/ WriteStamp(i) \/ StampFails(i)
      PROVE LockInv'
  BY <1>4 DEF SyncSucceeds, WriteStamp, StampFails
<1>5. ASSUME NEW i \in Jobs, StartSync(i)
      PROVE LockInv'
  BY <1>5 DEF StartSync, Damaged
<1>6. ASSUME NEW i \in Jobs, Recheck(i)
      PROVE LockInv'
  BY <1>6 DEF Recheck
<1>7. ASSUME NEW i \in Jobs, LockExclusive(i)
      PROVE LockInv'
  BY <1>7 DEF LockExclusive, Unlocked
<1>8. ASSUME NEW i \in Jobs, SweepClaims(i)
      PROVE LockInv'
  BY <1>8 DEF SweepClaims, Unlocked, Damaged
<1>9. ASSUME NEW i \in Jobs, SweepReclaims(i) \/ SweepCutShort(i)
      PROVE LockInv'
  BY <1>9 DEF SweepReclaims, SweepCutShort
<1>10. ASSUME NEW i \in Jobs, ReleaseExclusive(i)
      PROVE LockInv'
  BY <1>10 DEF ReleaseExclusive
<1>11. ASSUME NEW i \in Jobs, LockShared(i)
      PROVE LockInv'
  BY <1>11 DEF LockShared
<1>12. ASSUME NEW i \in Jobs, TrainingEnds(i)
      PROVE LockInv'
  BY <1>12 DEF TrainingEnds, DropLocks
<1>13. ASSUME NEW i \in Jobs, Kill(i)
      PROVE LockInv'
  BY <1>13 DEF Kill, DropLocks
<1>14. ASSUME NEW e \in Datasets, ExtendDataset(e) PROVE LockInv'
  BY <1>14 DEF ExtendDataset
<1>15. CASE UNCHANGED vars
  BY <1>15 DEF vars
<1>16. QED
  BY <1>1, <1>2, <1>3, <1>4, <1>5, <1>6, <1>7, <1>8, <1>9, <1>10, <1>11, <1>12,
     <1>13, <1>14, <1>15
     DEF Next, Progress, Trouble

(* A directory being rewritten or removed is locked exclusively, and a copy  *)
(* being read is locked shared.                                              *)
THEOREM LocksCorrect == Spec => []LockInv
<1>1. QED
  BY InitTypeOK, NextTypeOK, InitLockInv, NextLockInv, PTL DEF Spec

-----------------------------------------------------------------------------
(* Stamps.                                                                   *)

(* At first every stamped copy is complete.                                  *)
LEMMA InitStampInv == Init => StampInv
BY DEF Init, StampInv

(* Stamps are written after, and dropped before, the files change.           *)
LEMMA NextStampInv ==
  TypeOK /\ LockInv /\ StampInv /\ [Next]_vars => StampInv'
<1> SUFFICES ASSUME TypeOK, LockInv, StampInv, [Next]_vars PROVE StampInv'
  OBVIOUS
<1> USE StagingAssumption
    DEF TypeOK, LockInv, StampInv, Staging, Goto, disk, locks
<1>1. ASSUME NEW i \in Jobs, SkipStaging(i) \/ OpenLockFile(i) \/ LockFails(i)
             \/ RoomFound(i) \/ SizeUnknown(i) \/ SyncFails(i) \/
             DowngradeFails(i)
      PROVE StampInv'
  BY <1>1 DEF SkipStaging, OpenLockFile, LockFails, RoomFound, SizeUnknown,
     SyncFails, DowngradeFails
<1>2. ASSUME NEW i \in Jobs, BeginSweep(i) \/ SweepEnds(i)
      PROVE StampInv'
  BY <1>2 DEF BeginSweep, CacheEntries, SweepEnds
<1>3. ASSUME NEW i \in Jobs, SweepSkips(i)
      PROVE StampInv'
  BY <1>3 DEF SweepSkips
<1>4. ASSUME NEW i \in Jobs, LockExclusive(i) \/ ReleaseExclusive(i) \/
             LockShared(i)
      PROVE StampInv'
  BY <1>4 DEF LockExclusive, Unlocked, ReleaseExclusive, LockShared
<1>5. ASSUME NEW i \in Jobs, SweepClaims(i)
      PROVE StampInv'
  BY <1>5 DEF SweepClaims, Unlocked, Damaged
<1>6. ASSUME NEW i \in Jobs, SweepReclaims(i)
      PROVE StampInv'
  BY <1>6 DEF SweepReclaims
<1>7. ASSUME NEW i \in Jobs, SweepCutShort(i)
      PROVE StampInv'
  BY <1>7 DEF SweepCutShort
<1>8. ASSUME NEW i \in Jobs, StartSync(i)
      PROVE StampInv'
  BY <1>8 DEF StartSync, Damaged
<1>9. ASSUME NEW i \in Jobs, SyncSucceeds(i)
      PROVE StampInv'
  BY <1>9 DEF SyncSucceeds
<1>10. ASSUME NEW i \in Jobs, WriteStamp(i)
      PROVE StampInv'
  BY <1>10 DEF WriteStamp
<1>11. ASSUME NEW i \in Jobs, StampFails(i)
      PROVE StampInv'
  BY <1>11 DEF StampFails
<1>12. ASSUME NEW i \in Jobs, Recheck(i)
      PROVE StampInv'
  BY <1>12 DEF Recheck
<1>13. ASSUME NEW i \in Jobs, TrainingEnds(i)
      PROVE StampInv'
  BY <1>13 DEF TrainingEnds, DropLocks
<1>14. ASSUME NEW i \in Jobs, Kill(i)
      PROVE StampInv'
  BY <1>14 DEF Kill, DropLocks
<1>15. ASSUME NEW e \in Datasets, ExtendDataset(e) PROVE StampInv'
  BY <1>15 DEF ExtendDataset
<1>16. CASE UNCHANGED vars
  BY <1>16 DEF vars
<1>17. QED
  BY <1>1, <1>2, <1>3, <1>4, <1>5, <1>6, <1>7, <1>8, <1>9, <1>10, <1>11, <1>12,
     <1>13, <1>14, <1>15, <1>16
     DEF Next, Progress, Trouble

(* Stamps that vouch for complete copies are what LocalCopyComplete and      *)
(* StampMeansComplete need.                                                  *)
LEMMA StampInvImplies ==
  TypeOK /\ LockInv /\ StampInv => LocalCopyComplete /\ StampMeansComplete
<1> SUFFICES ASSUME TypeOK, LockInv, StampInv
             PROVE  LocalCopyComplete /\ StampMeansComplete
  OBVIOUS
<1> USE StagingAssumption DEF TypeOK
<1>1. StampMeansComplete
  BY DEF LockInv, StampInv, StampMeansComplete
<1>2. ASSUME NEW j \in Jobs, pc[j] = "local", want[j] \notin Tearable
      PROVE  copy[want[j]] = "complete"
  <2>1. writer[want[j]] = NoJob
    BY <1>2 DEF LockInv
  <2>2. stamp[want[j]] # 0
    BY <1>2 DEF StampInv
  <2>3. QED
    BY <1>1, <1>2, <2>1, <2>2 DEF StampMeansComplete
<1>3. QED
  BY <1>1, <1>2 DEF LocalCopyComplete

(* A job that trains from the cache reads a complete copy, and a stamp whose *)
(* dataset no job has locked vouches for the copy, of every dataset whose    *)
(* removal, once begun, runs to its end.                                     *)
THEOREM LocalCopiesComplete ==
  Spec => [](LocalCopyComplete /\ StampMeansComplete)
<1>1. Init => TypeOK /\ LockInv /\ StampInv
  BY InitTypeOK, InitLockInv, InitStampInv
<1>2. TypeOK /\ LockInv /\ StampInv /\ [Next]_vars
        => (TypeOK /\ LockInv /\ StampInv)'
  BY NextTypeOK, NextLockInv, NextStampInv
<1>3. QED
  BY <1>1, <1>2, StampInvImplies, PTL DEF Spec

-----------------------------------------------------------------------------
(* Versions.                                                                 *)

(* At first no dataset has been extended.                                    *)
LEMMA InitVersionInv == Init => VersionInv
BY DEF Init, VersionInv, Copied

(* An rsync leaves a version no older than the one it started from.          *)
LEMMA NextVersionInv ==
  TypeOK /\ LockInv /\ VersionInv /\ [Next]_vars => VersionInv'
<1> SUFFICES ASSUME TypeOK, LockInv, VersionInv, [Next]_vars
             PROVE  VersionInv'
  OBVIOUS
<1> USE DEF TypeOK, VersionInv, Copied, Goto, disk, locks
<1>1. ASSUME NEW i \in Jobs, SkipStaging(i) \/ LockFails(i) \/ RoomFound(i) \/
             SizeUnknown(i) \/ SyncFails(i) \/ DowngradeFails(i)
      PROVE VersionInv'
  BY <1>1 DEF SkipStaging, LockFails, RoomFound, SizeUnknown, SyncFails,
     DowngradeFails
<1>2. ASSUME NEW i \in Jobs, OpenLockFile(i)
      PROVE VersionInv'
  BY <1>2 DEF OpenLockFile
<1>3. ASSUME NEW i \in Jobs, BeginSweep(i) \/ SweepEnds(i)
      PROVE VersionInv'
  BY <1>3 DEF BeginSweep, CacheEntries, SweepEnds
<1>4. ASSUME NEW i \in Jobs, SweepSkips(i)
      PROVE VersionInv'
  BY <1>4 DEF SweepSkips
<1>5. ASSUME NEW i \in Jobs, LockExclusive(i) \/ ReleaseExclusive(i) \/
             LockShared(i)
      PROVE VersionInv'
  BY <1>5 DEF LockExclusive, Unlocked, ReleaseExclusive, LockShared
<1>6. ASSUME NEW i \in Jobs, SweepClaims(i)
      PROVE VersionInv'
  BY <1>6 DEF SweepClaims, Unlocked, Damaged
<1>7. ASSUME NEW i \in Jobs, SweepReclaims(i) \/ SweepCutShort(i)
      PROVE VersionInv'
  BY <1>7 DEF SweepReclaims, SweepCutShort
<1>8. ASSUME NEW i \in Jobs, StartSync(i)
      PROVE VersionInv'
  BY <1>8 DEF StartSync, Damaged
<1>9. ASSUME NEW i \in Jobs, SyncSucceeds(i)
      PROVE VersionInv'
  BY <1>9 DEF SyncSucceeds
<1>10. ASSUME NEW i \in Jobs, WriteStamp(i) \/ StampFails(i)
      PROVE VersionInv'
  BY <1>10 DEF WriteStamp, StampFails
<1>11. ASSUME NEW i \in Jobs, Recheck(i)
      PROVE VersionInv'
  BY <1>11 DEF Recheck
<1>12. ASSUME NEW i \in Jobs, TrainingEnds(i)
      PROVE VersionInv'
  BY <1>12 DEF TrainingEnds, DropLocks
<1>13. ASSUME NEW i \in Jobs, Kill(i)
      PROVE VersionInv'
  BY <1>13 DEF Kill, DropLocks
<1>14. ASSUME NEW e \in Datasets, ExtendDataset(e) PROVE VersionInv'
  BY <1>14 DEF ExtendDataset
<1>15. CASE UNCHANGED vars
  BY <1>15 DEF vars
<1>16. QED
  BY <1>1, <1>2, <1>3, <1>4, <1>5, <1>6, <1>7, <1>8, <1>9, <1>10, <1>11, <1>12,
     <1>13, <1>14, <1>15
     DEF Next, Progress, Trouble

(* A job that trains from the cache never reads an older version of its      *)
(* dataset than the NAS had when it asked for the lock.                      *)
THEOREM LocalCopiesFresh == Spec => []LocalCopyFresh
<1>1. Init => TypeOK /\ LockInv /\ VersionInv
  BY InitTypeOK, InitLockInv, InitVersionInv
<1>2. TypeOK /\ LockInv /\ VersionInv /\ [Next]_vars
        => (TypeOK /\ LockInv /\ VersionInv)'
  BY NextTypeOK, NextLockInv, NextVersionInv
<1>3. TypeOK /\ VersionInv => LocalCopyFresh
  BY DEF TypeOK, VersionInv, Copied, LocalCopyFresh
<1>4. QED
  BY <1>1, <1>2, <1>3, PTL DEF Spec

-----------------------------------------------------------------------------
(* Readers.                                                                  *)

(* A step that changes a copy is taken under its exclusive lock, which its   *)
(* readers exclude.                                                          *)
LEMMA StepKeepsReadCopies ==
  TypeOK /\ LockInv /\ [Next]_vars
    => [\A j \in Jobs : (pc[j] = "local" /\ pc'[j] = "local")
          => UNCHANGED <<copy[want[j]], version[want[j]],
             stamp[want[j]]>>]_vars
<1> SUFFICES ASSUME TypeOK, LockInv, [Next]_vars,
                    NEW j \in Jobs, pc[j] = "local", pc'[j] = "local"
             PROVE  UNCHANGED <<copy[want[j]], version[want[j]],
             stamp[want[j]]>>
  OBVIOUS
<1> DEFINE Kept == UNCHANGED <<copy[want[j]], version[want[j]],
             stamp[want[j]]>>
<1> USE StagingAssumption DEF TypeOK, LockInv, Staging, Goto, disk, locks
<1>1. ASSUME NEW i \in Jobs, SkipStaging(i) \/ OpenLockFile(i) \/ LockFails(i)
             \/ RoomFound(i) \/ SizeUnknown(i) \/ SyncFails(i) \/
             DowngradeFails(i)
      PROVE Kept
  BY <1>1 DEF SkipStaging, OpenLockFile, LockFails, RoomFound, SizeUnknown,
     SyncFails, DowngradeFails
<1>2. ASSUME NEW i \in Jobs, BeginSweep(i) \/ SweepEnds(i)
      PROVE Kept
  BY <1>2 DEF BeginSweep, CacheEntries, SweepEnds
<1>3. ASSUME NEW i \in Jobs, SweepSkips(i)
      PROVE Kept
  BY <1>3 DEF SweepSkips
<1>4. ASSUME NEW i \in Jobs, LockExclusive(i) \/ ReleaseExclusive(i) \/
             LockShared(i) \/ Recheck(i)
      PROVE Kept
  BY <1>4 DEF LockExclusive, Unlocked, ReleaseExclusive, LockShared, Recheck
<1>5. ASSUME NEW i \in Jobs, SweepClaims(i)
      PROVE Kept
  BY <1>5 DEF SweepClaims, Unlocked, Damaged
<1>6. ASSUME NEW i \in Jobs, SweepReclaims(i) \/ SweepCutShort(i)
      PROVE Kept
  BY <1>6 DEF SweepReclaims, SweepCutShort
<1>7. ASSUME NEW i \in Jobs, StartSync(i)
      PROVE Kept
  BY <1>7 DEF StartSync, Damaged
<1>8. ASSUME NEW i \in Jobs, SyncSucceeds(i)
      PROVE Kept
  BY <1>8 DEF SyncSucceeds
<1>9. ASSUME NEW i \in Jobs, WriteStamp(i) \/ StampFails(i)
      PROVE Kept
  BY <1>9 DEF WriteStamp, StampFails
<1>10. ASSUME NEW i \in Jobs, TrainingEnds(i) \/ Kill(i)
      PROVE Kept
  BY <1>10 DEF TrainingEnds, DropLocks, Kill
<1>11. ASSUME NEW e \in Datasets, ExtendDataset(e) PROVE Kept
  BY <1>11 DEF ExtendDataset
<1>12. CASE UNCHANGED vars
  BY <1>12 DEF vars
<1>13. QED
  BY <1>1, <1>2, <1>3, <1>4, <1>5, <1>6, <1>7, <1>8, <1>9, <1>10, <1>11, <1>12
     DEF Next, Progress, Trouble

(* No step of any job changes a copy while another job trains from it.       *)
THEOREM CopiesStable == Spec => CopyStableWhileRead
<1>1. Init => TypeOK /\ LockInv
  BY InitTypeOK, InitLockInv
<1>2. TypeOK /\ LockInv /\ [Next]_vars => (TypeOK /\ LockInv)'
  BY NextTypeOK, NextLockInv
<1>3. QED
  BY <1>1, <1>2, StepKeepsReadCopies, PTL DEF Spec, CopyStableWhileRead

-----------------------------------------------------------------------------
(* What the lookups of Indexing return, for every sorted array and every     *)
(* tick.  The positions left of a tick form an initial segment; its length   *)
(* is the insertion point that numpy documents for searchsorted.             *)

(* A set of positions that with a position holds all earlier ones is 1..n,   *)
(* where n is its size.                                                      *)
LEMMA InitialSegment ==
  ASSUME NEW n \in Nat, NEW A \in SUBSET (1..n),
         \A i, j \in 1..n : i <= j /\ j \in A => i \in A
  PROVE  Cardinality(A) \in 0..n /\ A = 1..Cardinality(A)
<1> DEFINE c == Cardinality(A)
<1>1. IsFiniteSet(1..n) /\ Cardinality(1..n) = n
  BY FS_Interval
<1>2. IsFiniteSet(A) /\ c <= n /\ c \in Nat
  BY <1>1, FS_Subset, FS_CardinalityType
<1>3. ASSUME NEW k \in 1..n, k \in A PROVE k <= c
  <2>1. 1..k \in SUBSET A
    BY <1>3
  <2>2. Cardinality(1..k) = k
    BY FS_Interval
  <2>3. QED BY <1>2, <2>1, <2>2, FS_Subset
<1>4. ASSUME NEW k \in 1..n, k <= c PROVE k \in A
  <2>1. SUFFICES ASSUME k \notin A PROVE FALSE
    OBVIOUS
  <2>2. A \in SUBSET (1..(k - 1))
    <3>1. ASSUME NEW j \in A PROVE j <= k - 1
      BY <1>4, <2>1
    <3>2. QED BY <3>1
  <2>3. IsFiniteSet(1..(k - 1)) /\ Cardinality(1..(k - 1)) = k - 1
    BY FS_Interval
  <2>4. c <= k - 1
    BY <2>2, <2>3, FS_Subset
  <2>5. QED BY <1>2, <1>4, <2>4
<1>5. A = 1..c
  <2>1. A \subseteq 1..c
    BY <1>2, <1>3
  <2>2. 1..c \subseteq A
    BY <1>2, <1>4
  <2>3. QED BY <2>1, <2>2
<1>6. QED BY <1>2, <1>5

(* searchsorted(side = "left"): entries before the point are earlier than t, *)
(* the others are not.                                                       *)
THEOREM SearchLeftPoint ==
  ASSUME NEW s \in Seq(Int), Sorted(s), NEW t \in Int
  PROVE  /\ SearchLeft(s, t) \in 0..Len(s)
         /\ \A i \in 1..Len(s) : s[i] < t <=> i <= SearchLeft(s, t)
<1> DEFINE A == {i \in DOMAIN s : s[i] < t}
<1>1. DOMAIN s = 1..Len(s) /\ Len(s) \in Nat /\ \A i \in 1..Len(s) : s[i] \in Int
  OBVIOUS
<1>2. \A i, j \in 1..Len(s) : i <= j /\ j \in A => i \in A
  BY <1>1 DEF Sorted
<1>3. Cardinality(A) \in 0..Len(s) /\ A = 1..Cardinality(A)
  BY <1>1, <1>2, InitialSegment
<1>4. \A i \in 1..Len(s) : s[i] < t <=> i \in A
  BY <1>1
<1> HIDE DEF A
<1>5. \A i \in 1..Len(s) : s[i] < t <=> i <= Cardinality(A)
  BY <1>1, <1>3, <1>4
<1>6. QED BY <1>3, <1>5 DEF A, SearchLeft

(* searchsorted(side = "right").                                             *)
THEOREM SearchRightPoint ==
  ASSUME NEW s \in Seq(Int), Sorted(s), NEW t \in Int
  PROVE  /\ SearchRight(s, t) \in 0..Len(s)
         /\ \A i \in 1..Len(s) : s[i] <= t <=> i <= SearchRight(s, t)
<1> DEFINE A == {i \in DOMAIN s : s[i] <= t}
<1>1. DOMAIN s = 1..Len(s) /\ Len(s) \in Nat /\ \A i \in 1..Len(s) : s[i] \in Int
  OBVIOUS
<1>2. \A i, j \in 1..Len(s) : i <= j /\ j \in A => i \in A
  BY <1>1 DEF Sorted
<1>3. Cardinality(A) \in 0..Len(s) /\ A = 1..Cardinality(A)
  BY <1>1, <1>2, InitialSegment
<1>4. \A i \in 1..Len(s) : s[i] <= t <=> i \in A
  BY <1>1
<1> HIDE DEF A
<1>5. \A i \in 1..Len(s) : s[i] <= t <=> i <= Cardinality(A)
  BY <1>1, <1>3, <1>4
<1>6. QED BY <1>3, <1>5 DEF A, SearchRight

(* previous_indices: the newest entry not after t; with nothing before t the *)
(* first entry, and then valid is false.                                     *)
THEOREM PreviousIsNewest ==
  ASSUME NEW s \in Seq(Int), Sorted(s), s # <<>>, NEW t \in Int
  PROVE  /\ PreviousAt(s, t) \in 1..Len(s)
         /\ HasPrevious(s, t) <=> s[1] <= t
         /\ HasPrevious(s, t) =>
              /\ s[PreviousAt(s, t)] <= t
              /\ \A i \in 1..Len(s) : s[i] <= t => s[i] <= s[PreviousAt(s, t)]
         /\ ~HasPrevious(s, t) => PreviousAt(s, t) = 1
<1> DEFINE r == SearchRight(s, t)
<1>1. r \in 0..Len(s) /\ \A i \in 1..Len(s) : s[i] <= t <=> i <= r
  BY SearchRightPoint
<1>2. Len(s) \in Nat /\ Len(s) >= 1 /\ DOMAIN s = 1..Len(s)
  OBVIOUS
<1> HIDE DEF r
<1>3. PreviousAt(s, t) = IF r < 1 THEN 1 ELSE r
  BY <1>1, <1>2 DEF PreviousAt, Clip, r
<1>4. HasPrevious(s, t) <=> r >= 1
  BY DEF HasPrevious, r
<1>5. \A i \in 1..Len(s) : i <= r => s[i] <= s[r]
  BY <1>1, <1>2 DEF Sorted
<1>6. QED BY <1>1, <1>2, <1>3, <1>4, <1>5

(* next_indices: the oldest entry not before t; with nothing after t the     *)
(* last entry, and then valid is false.                                      *)
THEOREM NextIsOldest ==
  ASSUME NEW s \in Seq(Int), Sorted(s), s # <<>>, NEW t \in Int
  PROVE  /\ NextAt(s, t) \in 1..Len(s)
         /\ HasNext(s, t) <=> s[Len(s)] >= t
         /\ HasNext(s, t) =>
              /\ s[NextAt(s, t)] >= t
              /\ \A i \in 1..Len(s) : s[i] >= t => s[i] >= s[NextAt(s, t)]
         /\ ~HasNext(s, t) => NextAt(s, t) = Len(s)
<1> DEFINE l == SearchLeft(s, t)
<1>1. l \in 0..Len(s) /\ \A i \in 1..Len(s) : s[i] < t <=> i <= l
  BY SearchLeftPoint
<1>2. /\ Len(s) \in Nat /\ Len(s) >= 1 /\ DOMAIN s = 1..Len(s)
      /\ \A i \in 1..Len(s) : s[i] \in Int
  OBVIOUS
<1> HIDE DEF l
<1>3. NextAt(s, t) = IF l + 1 > Len(s) THEN Len(s) ELSE l + 1
  BY <1>1, <1>2 DEF NextAt, Clip, l
<1>4. HasNext(s, t) <=> l < Len(s)
  BY DEF HasNext, l
<1>5. \A i \in 1..Len(s) : s[i] >= t <=> i >= l + 1
  BY <1>1, <1>2
<1>6. \A i \in 1..Len(s) : l < Len(s) /\ i >= l + 1 => s[i] >= s[l + 1]
  BY <1>1, <1>2 DEF Sorted
<1>7. HasNext(s, t) <=> s[Len(s)] >= t
  BY <1>1, <1>2, <1>4, <1>5
<1>8. ASSUME HasNext(s, t)
      PROVE  /\ s[NextAt(s, t)] >= t
             /\ \A i \in 1..Len(s) : s[i] >= t => s[i] >= s[NextAt(s, t)]
  <2>1. l < Len(s) /\ NextAt(s, t) = l + 1 /\ l + 1 \in 1..Len(s)
    BY <1>1, <1>2, <1>3, <1>4, <1>8
  <2>2. QED BY <1>2, <1>5, <1>6, <2>1
<1>9. NextAt(s, t) \in 1..Len(s)
  BY <1>1, <1>2, <1>3
<1>10. ASSUME ~HasNext(s, t) PROVE NextAt(s, t) = Len(s)
  <2>1. ~(l < Len(s))
    BY <1>10 DEF HasNext, l
  <2>2. l + 1 > Len(s)
    BY <1>1, <1>2, <2>1
  <2>3. QED BY <1>3, <2>2
<1>11. QED BY <1>7, <1>8, <1>9, <1>10

(* A later tick never gets an earlier entry.                                 *)
THEOREM LookupsMonotonic ==
  ASSUME NEW s \in Seq(Int), Sorted(s), s # <<>>,
         NEW t \in Int, NEW u \in Int, t <= u
  PROVE  /\ s[PreviousAt(s, t)] <= s[PreviousAt(s, u)]
         /\ s[NextAt(s, t)] <= s[NextAt(s, u)]
         /\ HasNext(s, t) /\ HasPrevious(s, u) /\ s[NextAt(s, t)] <= u
              => s[NextAt(s, t)] <= s[PreviousAt(s, u)]
<1>1. /\ Len(s) \in Nat /\ Len(s) >= 1 /\ DOMAIN s = 1..Len(s)
      /\ \A i \in 1..Len(s) : s[i] \in Int
  OBVIOUS
<1>2. \A i \in 1..Len(s) : s[1] <= s[i] /\ s[i] <= s[Len(s)]
  BY <1>1 DEF Sorted
<1>3. /\ PreviousAt(s, t) \in 1..Len(s) /\ PreviousAt(s, u) \in 1..Len(s)
      /\ HasPrevious(s, t) <=> s[1] <= t
      /\ HasPrevious(s, u) <=> s[1] <= u
      /\ HasPrevious(s, t) => s[PreviousAt(s, t)] <= t
      /\ HasPrevious(s, u) => \A i \in 1..Len(s) :
                                s[i] <= u => s[i] <= s[PreviousAt(s, u)]
      /\ ~HasPrevious(s, t) => PreviousAt(s, t) = 1
  BY PreviousIsNewest
<1>4. /\ NextAt(s, t) \in 1..Len(s) /\ NextAt(s, u) \in 1..Len(s)
      /\ HasNext(s, t) <=> s[Len(s)] >= t
      /\ HasNext(s, u) <=> s[Len(s)] >= u
      /\ HasNext(s, u) => s[NextAt(s, u)] >= u
      /\ HasNext(s, t) => \A i \in 1..Len(s) :
                            s[i] >= t => s[i] >= s[NextAt(s, t)]
      /\ ~HasNext(s, u) => NextAt(s, u) = Len(s)
  BY NextIsOldest
<1>5. s[PreviousAt(s, t)] <= s[PreviousAt(s, u)]
  <2>1. CASE ~HasPrevious(s, t)
    BY <1>1, <1>2, <1>3, <2>1
  <2>2. CASE HasPrevious(s, t)
    <3>1. HasPrevious(s, u) /\ s[PreviousAt(s, t)] <= u
      BY <1>1, <1>3, <2>2
    <3>2. QED BY <1>3, <3>1
  <2>3. QED BY <2>1, <2>2
<1>6. s[NextAt(s, t)] <= s[NextAt(s, u)]
  <2>1. CASE ~HasNext(s, u)
    BY <1>1, <1>2, <1>4, <2>1
  <2>2. CASE HasNext(s, u)
    <3>1. HasNext(s, t) /\ s[NextAt(s, u)] >= t
      BY <1>1, <1>4, <2>2
    <3>2. QED BY <1>4, <3>1
  <2>3. QED BY <2>1, <2>2
<1>7. ASSUME HasNext(s, t), HasPrevious(s, u), s[NextAt(s, t)] <= u
      PROVE  s[NextAt(s, t)] <= s[PreviousAt(s, u)]
  BY <1>3, <1>4, <1>7
<1>8. QED BY <1>5, <1>6, <1>7

-----------------------------------------------------------------------------
(* The rows.                                                                 *)

(* Some element of a finite set has the greatest value.                      *)
LEMMA SomeLatest ==
  ASSUME NEW S, IsFiniteSet(S), S # {}, NEW f \in [S -> Int]
  PROVE  \E a \in S : \A b \in S : f[b] <= f[a]
<1> DEFINE Tops(T) == {a \in T : \A b \in T : f[b] <= f[a]}
           Bad == {T \in SUBSET S : T # {} /\ Tops(T) = {}}
<1>1. SUFFICES ASSUME S \in Bad PROVE FALSE
  OBVIOUS
<1>2. IsWellFoundedOn(StrictSubsetOrdering(S), SUBSET S)
  BY FS_StrictSubsetOrderingWellFounded, FS_FiniteSubsetsOfFinite
<1>3. PICK T \in Bad :
        \A U \in Bad : ~(<<U, T>> \in StrictSubsetOrdering(S))
  BY <1>1, <1>2, WFMin
<1>4. PICK a \in T : TRUE
  BY <1>3
<1> DEFINE U == T \ {a}
<1>5. <<U, T>> \in StrictSubsetOrdering(S)
  BY <1>3, <1>4 DEF StrictSubsetOrdering
<1>6. U = {} \/ Tops(U) # {}
  BY <1>3, <1>5
<1>7. CASE U = {}
  BY <1>3, <1>4, <1>7
<1>8. CASE Tops(U) # {}
  <2>1. PICK m \in U : \A b \in U : f[b] <= f[m]
    BY <1>8
  <2>2. T = U \cup {a} /\ T \subseteq S
    BY <1>3, <1>4
  <2>3. CASE f[m] <= f[a]
    <3>1. a \in Tops(T)
      BY <1>4, <2>1, <2>2, <2>3
    <3>2. QED BY <1>3, <3>1
  <2>4. CASE f[a] <= f[m]
    <3>1. m \in Tops(T)
      BY <2>1, <2>2, <2>4
    <3>2. QED BY <1>3, <3>1
  <2>5. QED BY <1>4, <2>1, <2>2, <2>3, <2>4
<1>9. QED BY <1>6, <1>7, <1>8

-----------------------------------------------------------------------------
(* What scan_bag lets through.                                               *)
LEMMA ScannedStreams ==
  ASSUME rec \in Recordings, cfg \in Configs, ~ScanRejects
  PROVE  /\ rec.joints \in Seq(Int) /\ Sorted(rec.joints)
         /\ rec.joints # <<>>
         /\ \A c \in Cameras : /\ rec.image[c] \in Seq(Int)
                               /\ Sorted(rec.image[c])
                               /\ rec.image[c] # <<>>
         /\ \A a \in LiveArms : /\ rec.command[a] \in Seq(Int)
                                /\ Sorted(rec.command[a])
                                /\ rec.command[a] # <<>>
         /\ \A e \in Effectors : /\ Observing(e) \in Seq(Int)
                                 /\ Sorted(Observing(e))
                                 /\ rec.effector[e] \in Seq(Int)
                                 /\ Sorted(rec.effector[e])
         /\ LiveArms # {} /\ IsFiniteSet(LiveArms) /\ LiveArms \subseteq Arms
         /\ ~Filling => LiveArms = Arms
<1>1. IsRecording(rec) /\ IsFiniteSet(Arms) /\ cfg \in Config /\ Accepted(cfg)
  BY AlignmentAssumption
<1>2. LiveArms \subseteq Arms /\ IsFiniteSet(LiveArms)
  BY <1>1, FS_Subset DEF LiveArms
<1>3. ~Filling => LiveArms = Arms
  BY <1>1 DEF Accepted, Config, Filling, ScanRejects
<1>4. /\ LiveArms # {} /\ rec.joints # <<>>
      /\ \A c \in Cameras : rec.image[c] # <<>>
      /\ \A a \in LiveArms : rec.command[a] # <<>>
  BY DEF ScanRejects, LiveArms
<1>5. QED BY <1>1, <1>2, <1>3, <1>4 DEF IsRecording, Observing

(* nearest_indices is monotonic too.                                         *)
LEMMA NearestMonotonic ==
  ASSUME NEW s \in Seq(Int), Sorted(s), s # <<>>,
         NEW t \in Int, NEW u \in Int, t <= u
  PROVE  s[NearestAt(s, t)] \in Int /\ s[NearestAt(s, t)] <= s[NearestAt(s, u)]
<1>1. /\ Len(s) \in Nat /\ Len(s) >= 1 /\ DOMAIN s = 1..Len(s)
      /\ \A i \in 1..Len(s) : s[i] \in Int
  OBVIOUS
<1>2. \A i, j \in 1..Len(s) : i <= j => s[i] <= s[j]
  BY <1>1 DEF Sorted
<1> DEFINE l == SearchLeft(s, t)
           m == SearchLeft(s, u)
<1>3. l \in 0..Len(s) /\ \A i \in 1..Len(s) : s[i] < t <=> i <= l
  BY SearchLeftPoint
<1>4. m \in 0..Len(s) /\ \A i \in 1..Len(s) : s[i] < u <=> i <= m
  BY SearchLeftPoint
<1> HIDE DEF l, m
<1> DEFINE right(n) == IF n + 1 > Len(s) THEN Len(s) ELSE n + 1
           left(n) == IF right(n) - 1 < 1 THEN 1 ELSE right(n) - 1
           Best(n, v) == IF Distance(s[right(n)], v) < Distance(s[left(n)], v)
                         THEN right(n) ELSE left(n)
<1>5. NearestAt(s, t) = Best(l, t) /\ NearestAt(s, u) = Best(m, u)
  BY <1>1, <1>3, <1>4 DEF NearestAt, Clip, l, m
<1>6. l <= m
  <2>1. CASE l = 0
    BY <1>4, <2>1
  <2>2. CASE l # 0
    <3>1. s[l] < u /\ l \in 1..Len(s)
      BY <1>1, <1>3, <2>2
    <3>2. QED BY <1>4, <3>1
  <2>3. QED BY <2>1, <2>2
<1>7. /\ left(l) \in 1..Len(s) /\ right(l) \in 1..Len(s)
      /\ left(m) \in 1..Len(s) /\ right(m) \in 1..Len(s)
      /\ left(l) <= right(l) /\ left(m) <= right(m)
      /\ l < m => right(l) <= left(m) \/ right(l) = right(m)
      /\ l <= m => left(l) <= left(m) /\ right(l) <= right(m)
  BY <1>1, <1>3, <1>4
<1>8. s[Best(l, t)] \in Int
  BY <1>1, <1>7
<1>9. s[Best(l, t)] <= s[Best(m, u)]
  <2>1. CASE right(l) <= left(m)
    <3>1. Best(l, t) \in 1..Len(s) /\ Best(l, t) <= right(l)
      BY <1>1, <1>7
    <3>2. Best(m, u) \in 1..Len(s) /\ left(m) <= Best(m, u)
      BY <1>1, <1>7
    <3> HIDE DEF Best, left, right
    <3>3. Best(l, t) <= Best(m, u)
      <4>1. left(m) \in Int /\ right(l) \in Int
        BY <1>7
      <4>2. Best(l, t) \in Int /\ Best(m, u) \in Int
        BY <3>1, <3>2
      <4>3. QED BY <2>1, <3>1, <3>2, <4>1, <4>2
    <3>4. QED BY <1>2, <3>1, <3>2, <3>3
  <2>2. CASE left(l) = left(m) /\ right(l) = right(m)
    <3>1. s[left(l)] <= s[right(l)] /\ s[left(l)] \in Int /\ s[right(l)] \in Int
      BY <1>1, <1>2, <1>7
    <3> HIDE DEF left, right
    <3>2. Distance(s[right(l)], t) < Distance(s[left(l)], t)
            => Distance(s[right(l)], u) < Distance(s[left(l)], u)
      BY <3>1 DEF Distance
    <3>3. QED BY <2>2, <3>1, <3>2
  <2>3. right(l) <= left(m) \/ (left(l) = left(m) /\ right(l) = right(m))
    BY <1>1, <1>3, <1>4, <1>6
  <2>4. QED BY <2>1, <2>2, <2>3
<1>10. QED BY <1>5, <1>8, <1>9

-----------------------------------------------------------------------------
(* The command of a later tick is not an earlier one.  A real command lies   *)
(* after its tick; that it does not pass the one held at a later tick is     *)
(* because it would be real there too.                                       *)
LEMMA CommandsMonotonic ==
  ASSUME rec \in Recordings, cfg \in Configs, ~ScanRejects,
         NEW a \in LiveArms, NEW t \in Int, NEW u \in Int, t <= u
  PROVE  CommandAt(a, t) \in Int /\ CommandAt(a, t) <= CommandAt(a, u)
<1> DEFINE s == rec.command[a]
<1>1. s \in Seq(Int) /\ Sorted(s) /\ s # <<>>
  BY ScannedStreams
<1>2. ActionTolerance \in Nat
  BY AlignmentAssumption
<1>3. /\ Real(a, t) <=> HasNext(s, t) /\ s[NextAt(s, t)] - t <= ActionTolerance
      /\ Real(a, u) <=> HasNext(s, u) /\ s[NextAt(s, u)] - u <= ActionTolerance
  BY DEF Real
<1> HIDE DEF s
<1>4. /\ Len(s) \in Nat /\ Len(s) >= 1 /\ DOMAIN s = 1..Len(s)
      /\ \A i \in 1..Len(s) : s[i] \in Int
      /\ \A i, j \in 1..Len(s) : i <= j => s[i] <= s[j]
  BY <1>1 DEF Sorted
<1>5. /\ PreviousAt(s, t) \in 1..Len(s) /\ PreviousAt(s, u) \in 1..Len(s)
      /\ HasPrevious(s, u) <=> s[1] <= u
      /\ HasPrevious(s, t) => s[PreviousAt(s, t)] <= t
      /\ ~HasPrevious(s, t) => PreviousAt(s, t) = 1
      /\ HasPrevious(s, u) => \A i \in 1..Len(s) :
                                s[i] <= u => s[i] <= s[PreviousAt(s, u)]
  BY <1>1, PreviousIsNewest
<1>6. /\ NextAt(s, t) \in 1..Len(s) /\ NextAt(s, u) \in 1..Len(s)
      /\ HasNext(s, u) <=> s[Len(s)] >= u
      /\ HasNext(s, u) => s[NextAt(s, u)] >= u
      /\ HasNext(s, t) => s[NextAt(s, t)] >= t
      /\ HasNext(s, u) => \A i \in 1..Len(s) :
                            s[i] >= u => s[i] >= s[NextAt(s, u)]
  BY <1>1, NextIsOldest
<1>7. /\ s[PreviousAt(s, t)] <= s[PreviousAt(s, u)]
      /\ s[NextAt(s, t)] <= s[NextAt(s, u)]
  BY <1>1, LookupsMonotonic
<1> DEFINE Ahead(v) == cfg.gap = "fail" \/ Real(a, v)
<1>8. \A v : CommandAt(a, v) = IF Ahead(v) THEN s[NextAt(s, v)]
                                           ELSE s[PreviousAt(s, v)]
  BY DEF CommandAt, s
<1>9. CASE Ahead(t) /\ Ahead(u)
  BY <1>4, <1>6, <1>7, <1>8, <1>9
<1>10. CASE ~Ahead(t) /\ ~Ahead(u)
  BY <1>4, <1>5, <1>7, <1>8, <1>10
<1>11. CASE Ahead(t) /\ ~Ahead(u)
  <2>1. HasNext(s, t) /\ s[NextAt(s, t)] - t <= ActionTolerance
    BY <1>3, <1>11
  <2>2. s[NextAt(s, t)] <= u
    <3>1. SUFFICES ASSUME s[NextAt(s, t)] > u PROVE FALSE
      BY <1>4, <1>6
    <3>2. s[Len(s)] >= u
      BY <1>4, <1>6, <3>1
    <3>3. HasNext(s, u) /\ s[NextAt(s, u)] <= s[NextAt(s, t)]
      BY <1>4, <1>6, <3>1, <3>2
    <3>4. s[NextAt(s, u)] - u <= ActionTolerance
      BY <1>2, <1>4, <1>6, <2>1, <3>3
    <3>5. QED BY <1>3, <1>11, <3>3, <3>4
  <2>3. HasPrevious(s, u)
    BY <1>4, <1>5, <1>6, <2>2
  <2>4. s[NextAt(s, t)] <= s[PreviousAt(s, u)]
    BY <1>5, <1>6, <2>2, <2>3
  <2>5. QED BY <1>4, <1>6, <1>8, <1>11, <2>4
<1>12. CASE ~Ahead(t) /\ Ahead(u)
  <2>1. s[PreviousAt(s, t)] <= s[NextAt(s, u)]
    <3>1. CASE ~HasPrevious(s, t)
      BY <1>4, <1>5, <1>6, <3>1
    <3>2. CASE HasPrevious(s, t)
      <4>1. CASE HasNext(s, u)
        BY <1>4, <1>5, <1>6, <3>2, <4>1
      <4>2. CASE ~HasNext(s, u)
        BY <1>1, <1>4, <1>5, <4>2, NextIsOldest
      <4>3. QED BY <4>1, <4>2
    <3>3. QED BY <3>1, <3>2
  <2>2. QED BY <1>4, <1>5, <1>8, <1>12, <2>1
<1>13. QED BY <1>9, <1>10, <1>11, <1>12

(* reference_time is the greatest of the selected times and grows with them. *)
LEMMA ReferenceMonotonic ==
  ASSUME rec \in Recordings, cfg \in Configs, ~ScanRejects,
         NEW t \in Int, NEW u \in Int, t <= u
  PROVE  Reference(t) \in Int /\ Reference(t) <= Reference(u)
<1>1. LiveArms # {} /\ IsFiniteSet(LiveArms)
  BY ScannedStreams
<1>2. \A a \in LiveArms : /\ CommandAt(a, t) \in Int
                          /\ CommandAt(a, u) \in Int
                          /\ CommandAt(a, t) <= CommandAt(a, u)
  BY CommandsMonotonic
<1>3. ASSUME NEW v \in {t, u}
      PROVE  /\ Reference(v) \in {CommandAt(a, v) : a \in LiveArms}
             /\ \A a \in LiveArms : CommandAt(a, v) <= Reference(v)
  <2> DEFINE f == [a \in LiveArms |-> CommandAt(a, v)]
             Times == {CommandAt(a, v) : a \in LiveArms}
  <2>1. f \in [LiveArms -> Int]
    BY <1>2
  <2>2. PICK b \in LiveArms : \A a \in LiveArms : f[a] <= f[b]
    BY <1>1, <2>1, SomeLatest
  <2>3. \E r \in Times : \A a \in LiveArms : CommandAt(a, v) <= r
    BY <2>2
  <2>4. QED BY <2>3 DEF Reference
<1>4. PICK a \in LiveArms : Reference(t) = CommandAt(a, t)
  BY <1>3
<1>5. PICK b \in LiveArms : Reference(u) = CommandAt(b, u)
  BY <1>3
<1>6. CommandAt(a, u) <= Reference(u)
  BY <1>3
<1>7. QED BY <1>2, <1>4, <1>5, <1>6

-----------------------------------------------------------------------------
(* Every effector is observed.                                               *)
AllObserved == \A e \in Effectors : Observing(e) # <<>>

(* The rows of two ticks are in their order.                                 *)
LEMMA RowsMonotonic ==
  ASSUME rec \in Recordings, cfg \in Configs, ~ScanRejects, AllObserved,
         NEW t \in Int, NEW u \in Int, t <= u
  PROVE  NowhereEarlier(RowAt(t), RowAt(u))
<1>1. ASSUME NEW c \in Cameras PROVE ImageAt(c, t) <= ImageAt(c, u)
  <2>1. /\ rec.image[c] \in Seq(Int) /\ Sorted(rec.image[c])
        /\ rec.image[c] # <<>>
    BY ScannedStreams
  <2>2. QED BY <2>1, NearestMonotonic, LookupsMonotonic DEF ImageAt, Newest
<1>2. JointsAt(t) <= JointsAt(u)
  <2>1. rec.joints \in Seq(Int) /\ Sorted(rec.joints) /\ rec.joints # <<>>
    BY ScannedStreams
  <2>2. QED BY <2>1, LookupsMonotonic DEF JointsAt, Newest
<1>3. \A a \in LiveArms : CommandAt(a, t) <= CommandAt(a, u)
  BY CommandsMonotonic
<1>4. ASSUME NEW e \in Effectors PROVE EffectorAt(e, t) <= EffectorAt(e, u)
  <2>1. /\ Observing(e) \in Seq(Int) /\ Sorted(Observing(e))
        /\ Observing(e) # <<>>
    BY ScannedStreams DEF AllObserved
  <2>2. QED BY <2>1, LookupsMonotonic DEF EffectorAt, Newest
<1>5. ASSUME NEW e \in Effectors
      PROVE  EffectorActionAt(e, t) <= EffectorActionAt(e, u)
  <2>1. CASE rec.effector[e] = <<>>
    BY <1>4, <2>1 DEF EffectorActionAt
  <2>2. CASE rec.effector[e] # <<>>
    <3>1. rec.effector[e] \in Seq(Int) /\ Sorted(rec.effector[e])
      BY ScannedStreams
    <3>2. /\ Reference(t) \in Int /\ Reference(u) \in Int
          /\ Reference(t) <= Reference(u)
      BY ReferenceMonotonic
    <3>3. Newest(rec.effector[e], Reference(t))
            <= Newest(rec.effector[e], Reference(u))
      BY <2>2, <3>1, <3>2, LookupsMonotonic DEF Newest
    <3>4. QED BY <2>2, <3>3 DEF EffectorActionAt
  <2>3. QED BY <2>1, <2>2
<1>6. QED BY <1>1, <1>2, <1>3, <1>4, <1>5 DEF NowhereEarlier, RowAt

(* A valid row of lerobot-loop mode is made of what was there at its tick.   *)
LEMMA ValidRowsKnown ==
  ASSUME rec \in Recordings, cfg \in Configs, ~ScanRejects, AllObserved,
         ~Capturing, NEW t \in Int, Valid(t)
  PROVE  KnownAtTick(RowAt(t))
<1>1. ASSUME NEW c \in Cameras PROVE ImageAt(c, t) <= t
  <2>1. /\ rec.image[c] \in Seq(Int) /\ Sorted(rec.image[c])
        /\ rec.image[c] # <<>>
    BY ScannedStreams
  <2>2. HasPrevious(rec.image[c], t)
    BY DEF Valid, ImageValid, Fresh
  <2>3. QED BY <2>1, <2>2, PreviousIsNewest DEF ImageAt, Newest
<1>2. JointsAt(t) <= t
  <2>1. rec.joints \in Seq(Int) /\ Sorted(rec.joints) /\ rec.joints # <<>>
    BY ScannedStreams
  <2>2. HasPrevious(rec.joints, t)
    BY DEF Valid, JointsValid, Fresh
  <2>3. QED BY <2>1, <2>2, PreviousIsNewest DEF JointsAt, Newest
<1>3. ASSUME NEW e \in Effectors PROVE EffectorAt(e, t) <= t
  <2>1. /\ Observing(e) \in Seq(Int) /\ Sorted(Observing(e))
        /\ Observing(e) # <<>>
    BY ScannedStreams DEF AllObserved
  <2>2. HasPrevious(Observing(e), t)
    BY DEF Valid, Fresh
  <2>3. QED BY <2>1, <2>2, PreviousIsNewest DEF EffectorAt, Newest
<1>4. QED BY <1>1, <1>2, <1>3 DEF KnownAtTick, RowAt

(* What is not real under hold-last-command is held.                         *)
LEMMA RowsHoldLast ==
  ASSUME rec \in Recordings, cfg \in Configs, ~ScanRejects,
         cfg.gap = "hold-last-command", NEW t \in Int
  PROVE  HoldsLast(RowAt(t))
<1>1. SUFFICES ASSUME NEW a \in LiveArms, ~Real(a, t),
                      NEW i \in DOMAIN rec.command[a], rec.command[a][i] <= t
               PROVE  /\ rec.command[a][i] <= CommandAt(a, t)
                      /\ CommandAt(a, t) <= t
  <2>1. LiveArms \subseteq Arms
    BY DEF LiveArms
  <2>2. QED BY <2>1 DEF HoldsLast, RowAt
<1> DEFINE s == rec.command[a]
<1>2. s \in Seq(Int) /\ Sorted(s) /\ s # <<>>
  BY ScannedStreams
<1>3. CommandAt(a, t) = s[PreviousAt(s, t)]
  BY <1>1 DEF CommandAt
<1>4. i \in DOMAIN s /\ s[i] <= t
  BY <1>1
<1> HIDE DEF s
<1>5. /\ DOMAIN s = 1..Len(s) /\ Len(s) \in Nat
      /\ \A j \in 1..Len(s) : s[j] \in Int
  BY <1>2
<1>6. s[1] <= t
  BY <1>2, <1>4, <1>5 DEF Sorted
<1>7. HasPrevious(s, t)
  BY <1>2, <1>6, PreviousIsNewest
<1>8. /\ s[PreviousAt(s, t)] <= t
      /\ \A j \in 1..Len(s) : s[j] <= t => s[j] <= s[PreviousAt(s, t)]
  BY <1>2, <1>7, PreviousIsNewest
<1>9. QED BY <1>3, <1>4, <1>5, <1>8 DEF s

-----------------------------------------------------------------------------
(* The inductive invariant: what each stage adds for the ones after it.      *)

WindowInv ==
  /\ window.start \in Int /\ window.end \in Int
  /\ \A s \in Observed : s[1] <= window.start /\ window.end <= s[Len(s)]
  /\ ~Filling =>
       \A a \in Arms : window.end <= rec.command[a][Len(rec.command[a])]

GridInv ==
  /\ grid \in Seq(Int) /\ Sorted(grid)
  /\ \A k \in DOMAIN grid : window.start <= grid[k] /\ grid[k] <= window.end

RowsInv ==
  /\ DOMAIN rows = DOMAIN grid
  /\ ~Capturing =>
       \A k \in DOMAIN rows : rows[k].valid => KnownAtTick(rows[k])
  /\ \A j, k \in DOMAIN rows : j <= k => NowhereEarlier(rows[j], rows[k])
  /\ cfg.gap = "hold-last-command" => \A k \in DOMAIN rows : HoldsLast(rows[k])

KeptInv == kept \subseteq DOMAIN rows /\ \A k \in kept : rows[k].valid

AlignmentInv ==
  /\ rec \in Recordings /\ cfg \in Configs
  /\ stage \notin {"scan", "rejected"} => ~ScanRejects
  /\ stage \in {"grid", "rows", "assemble", "checks", "done"} => WindowInv
  /\ stage \in {"rows", "assemble", "checks", "done"} => GridInv
  /\ stage \in {"assemble", "checks", "done"} => RowsInv
  /\ stage \in {"checks", "done"} => KeptInv

(* The bag and the policies stay what they are, and so does all that depends *)
(* on them alone.                                                            *)
LEMMA InputsKept ==
  ASSUME UNCHANGED <<rec, cfg>>
  PROVE  /\ ScanRejects' = ScanRejects
         /\ UNCHANGED window => (WindowInv => WindowInv')
         /\ UNCHANGED <<window, grid>> => (GridInv => GridInv')
         /\ UNCHANGED <<grid, rows>> => (RowsInv => RowsInv')
<1>1. ScanRejects' = ScanRejects
  BY DEF ScanRejects, LiveArms
<1>2. ASSUME UNCHANGED window, WindowInv PROVE WindowInv'
  BY <1>2 DEF WindowInv, Observed, Observing, Filling
<1>3. ASSUME UNCHANGED <<window, grid>>, GridInv PROVE GridInv'
  BY <1>3 DEF GridInv, Sorted
<1>4. ASSUME UNCHANGED <<grid, rows>>, RowsInv PROVE RowsInv'
  BY <1>4 DEF RowsInv, Capturing, KnownAtTick, NowhereEarlier, HoldsLast,
              LiveArms
<1>5. QED BY <1>1, <1>2, <1>3, <1>4

(* compute_window                                                            *)
LEMMA WindowChosen ==
  ASSUME AlignmentInv, ChooseWindow, stage' # "rejected"
  PROVE  stage' = "grid" /\ WindowInv'
<1>1. PICK from \in Firsts(Commands), to \in Lasts(Commands) :
        /\ CommandSpan(from, to)
        /\ \E start \in {AnchorOf(from)} \cup Firsts(Observed),
              end \in {to} \cup Lasts(Observed) :
             /\ IsLatest(start, {AnchorOf(from)} \cup Firsts(Observed))
             /\ IsEarliest(end, {to} \cup Lasts(Observed))
             /\ window' = [start |-> start, end |-> end]
             /\ stage' = IF to <= from \/ end <= start
                         THEN "rejected" ELSE "grid"
  BY DEF ChooseWindow
<1>2. PICK start \in {AnchorOf(from)} \cup Firsts(Observed),
           end \in {to} \cup Lasts(Observed) :
        /\ IsLatest(start, {AnchorOf(from)} \cup Firsts(Observed))
        /\ IsEarliest(end, {to} \cup Lasts(Observed))
        /\ window' = [start |-> start, end |-> end]
        /\ stage' = IF to <= from \/ end <= start THEN "rejected" ELSE "grid"
  BY <1>1
<1>3. rec \in Recordings /\ cfg \in Configs /\ ~ScanRejects
  BY DEF AlignmentInv, ChooseWindow
<1>4. \A s \in Observed \cup Commands :
        s[1] \in Int /\ s[Len(s)] \in Int
  <2>1. ASSUME NEW s \in Observed \cup Commands PROVE s \in Seq(Int) /\ s # <<>>
    BY <1>3, ScannedStreams DEF Observed, Commands
  <2>2. QED BY <2>1
<1>5. from \in Int /\ to \in Int
  BY <1>4 DEF Firsts, Lasts
<1>6. AnchorOf(from) \in Int
  <2> DEFINE s == rec.image[AnchorCamera]
  <2>1. s \in Seq(Int) /\ Sorted(s) /\ s # <<>>
    BY <1>3, ScannedStreams, AlignmentAssumption
  <2>2. s[PreviousAt(s, from)] \in Int
    BY <1>5, <2>1, PreviousIsNewest
  <2>3. QED BY <1>5, <2>2 DEF AnchorOf
<1>7. start \in Int /\ end \in Int
  BY <1>4, <1>5, <1>6 DEF Firsts, Lasts
<1>8. \A s \in Observed : s[1] <= start /\ end <= s[Len(s)]
  BY <1>2 DEF IsLatest, IsEarliest, Firsts, Lasts
<1>9. ASSUME ~Filling, NEW a \in Arms
      PROVE  end <= rec.command[a][Len(rec.command[a])]
  <2>1. rec.command[a] \in Commands
    BY <1>3, <1>9, ScannedStreams DEF Commands
  <2>2. to <= rec.command[a][Len(rec.command[a])]
    BY <1>1, <1>9, <2>1 DEF CommandSpan, IsEarliest, Lasts
  <2>3. end <= to
    BY <1>2 DEF IsEarliest
  <2>4. QED BY <1>4, <1>5, <1>7, <2>1, <2>2, <2>3
<1>10. UNCHANGED <<rec, cfg>> /\ window'.start = start /\ window'.end = end
  BY <1>2 DEF ChooseWindow
<1>11. WindowInv'
  <2>1. Observed' = Observed /\ Filling' = Filling
    BY <1>10 DEF Observed, Observing, Filling
  <2>2. QED BY <1>7, <1>8, <1>9, <1>10, <2>1 DEF WindowInv
<1>12. QED BY <1>2, <1>11

(* The grid, of either kind, lies in the window.                             *)
LEMMA GridLaid ==
  ASSUME AlignmentInv, LayGrid
  PROVE  GridInv'
<1>1. /\ rec \in Recordings /\ cfg \in Configs /\ ~ScanRejects
      /\ window.start \in Int /\ window.end \in Int
  BY DEF AlignmentInv, WindowInv, LayGrid
<1>2. UNCHANGED <<rec, cfg, window>> /\ grid' = Ticks
  BY DEF LayGrid
<1>3. Period \in Nat \ {0}
  BY AlignmentAssumption
<1> DEFINE s == rec.image[AnchorCamera]
           l == SearchLeft(s, window.start)
           r == SearchRight(s, window.end)
           n == (window.end - window.start) \div Period + 1
<1>4. s \in Seq(Int) /\ Sorted(s)
  BY <1>1, ScannedStreams, AlignmentAssumption
<1>5. /\ l \in 0..Len(s) /\ \A i \in 1..Len(s) : s[i] < window.start <=> i <= l
      /\ r \in 0..Len(s) /\ \A i \in 1..Len(s) : s[i] <= window.end <=> i <= r
  BY <1>1, <1>4, SearchLeftPoint, SearchRightPoint
<1>6. CASE cfg.anchor = "anchor-camera-ticks"
  <2>1. grid' = SubSeq(s, l + 1, r)
    BY <1>2, <1>6 DEF Ticks
  <2> HIDE DEF s, l, r
  <2>2. /\ Len(s) \in Nat /\ DOMAIN s = 1..Len(s)
        /\ \A i \in 1..Len(s) : s[i] \in Int
    BY <1>4
  <2>3. CASE r >= l + 1
    <3>1. /\ grid' \in Seq(Int) /\ DOMAIN grid' = 1..(r - l)
          /\ \A k \in 1..(r - l) : grid'[k] = s[l + k] /\ l + k \in 1..Len(s)
      BY <1>4, <1>5, <2>1, <2>2, <2>3
    <3>2. \A j, k \in DOMAIN grid' : j <= k => grid'[j] <= grid'[k]
      <4>1. SUFFICES ASSUME NEW j \in 1..(r - l), NEW k \in 1..(r - l), j <= k
                     PROVE  s[l + j] <= s[l + k]
        BY <3>1
      <4>2. l + j \in DOMAIN s /\ l + k \in DOMAIN s /\ l + j <= l + k
        BY <1>5, <2>2, <3>1, <4>1
      <4>3. QED BY <1>4, <4>2 DEF Sorted
    <3>3. \A k \in DOMAIN grid' :
            window.start <= grid'[k] /\ grid'[k] <= window.end
      BY <1>1, <1>5, <2>2, <3>1
    <3>4. QED BY <1>2, <3>1, <3>2, <3>3 DEF GridInv, Sorted
  <2>4. CASE r < l + 1
    <3>1. grid' = <<>>
      BY <1>4, <1>5, <2>1, <2>4
    <3>2. QED BY <1>2, <3>1 DEF GridInv, Sorted
  <2>5. QED BY <1>5, <2>2, <2>3, <2>4
<1>7. CASE cfg.anchor # "anchor-camera-ticks"
  <2>1. grid' = [k \in 1..n |-> window.start + (k - 1) * Period]
    BY <1>2, <1>7 DEF Ticks
  <2>2. n \in Int
    BY <1>1, <1>3
  <2>3. ASSUME NEW k \in 1..n
        PROVE  (k - 1) * Period \in Nat /\ (k - 1) * Period
                 <= window.end - window.start
    <3> DEFINE q == (window.end - window.start) \div Period
    <3>1. q \in Int /\ k - 1 \in Nat /\ k - 1 <= q
      BY <1>1, <1>3, <2>2, <2>3
    <3>2. q * Period <= window.end - window.start
      BY <1>1, <1>3
    <3> HIDE DEF q
    <3>3. (k - 1) * Period <= q * Period
      BY <1>3, <3>1
    <3>4. QED BY <1>1, <1>3, <3>1, <3>2, <3>3
  <2>4. ASSUME NEW j \in 1..n, NEW k \in 1..n, j <= k
        PROVE  (j - 1) * Period <= (k - 1) * Period
    BY <1>3, <2>2, <2>4
  <2> HIDE DEF n
  <2>5. DOMAIN grid' = 1..n /\ \A k \in 1..n :
          grid'[k] = window.start + (k - 1) * Period
    BY <2>1
  <2>6. \A k \in 1..n : grid'[k] \in Int
    BY <1>1, <2>3, <2>5
  <2>7. grid' \in Seq(Int)
    <3>1. CASE n >= 0
      BY <2>1, <2>2, <2>5, <2>6, <3>1
    <3>2. CASE n < 0
      <4>1. 1..n = 1..0
        BY <2>2, <3>2
      <4>2. grid' = [k \in 1..0 |-> window.start + (k - 1) * Period]
        BY <2>1, <4>1
      <4>3. QED BY <4>2
    <3>3. QED BY <2>2, <3>1, <3>2
  <2>8. \A k \in 1..n : window.start <= grid'[k] /\ grid'[k] <= window.end
    BY <1>1, <2>3, <2>5
  <2>9. \A j, k \in 1..n : j <= k => grid'[j] <= grid'[k]
    BY <1>1, <2>3, <2>4, <2>5
  <2>10. QED BY <1>2, <2>5, <2>7, <2>8, <2>9 DEF GridInv, Sorted
<1>8. QED BY <1>6, <1>7

(* The row of every tick has what the episode promises.                      *)
LEMMA RowsSelected ==
  ASSUME AlignmentInv, SelectRows, stage' # "rejected"
  PROVE  RowsInv'
<1>1. /\ rec \in Recordings /\ cfg \in Configs /\ ~ScanRejects
      /\ grid \in Seq(Int) /\ Sorted(grid)
  BY DEF AlignmentInv, GridInv, SelectRows
<1>2. /\ AllObserved /\ UNCHANGED <<rec, cfg, grid>>
      /\ rows' = [k \in DOMAIN grid |-> RowAt(grid[k])]
  BY DEF SelectRows, AllObserved
<1>3. \A k \in DOMAIN grid : grid[k] \in Int
  BY <1>1
<1>4. /\ DOMAIN rows' = DOMAIN grid
      /\ \A k \in DOMAIN grid : rows'[k] = RowAt(grid[k])
  BY <1>2
<1>5. ASSUME ~Capturing, NEW k \in DOMAIN grid, rows'[k].valid
      PROVE  KnownAtTick(rows'[k])
  <2>1. Valid(grid[k])
    BY <1>4, <1>5 DEF RowAt
  <2>2. QED BY <1>1, <1>2, <1>3, <1>4, <1>5, <2>1, ValidRowsKnown
<1>6. \A j, k \in DOMAIN grid : j <= k => NowhereEarlier(rows'[j], rows'[k])
  BY <1>1, <1>2, <1>3, <1>4, RowsMonotonic DEF Sorted
<1>7. ASSUME cfg.gap = "hold-last-command", NEW k \in DOMAIN grid
      PROVE  HoldsLast(rows'[k])
  BY <1>1, <1>3, <1>4, <1>7, RowsHoldLast
<1>8. QED
  BY <1>2, <1>4, <1>5, <1>6, <1>7
     DEF RowsInv, Capturing, KnownAtTick, NowhereEarlier, HoldsLast, LiveArms

-----------------------------------------------------------------------------
(* A conversion starts with a bag and policies, and nothing chosen.          *)
LEMMA InitInv == AlignInit => AlignmentInv
  BY DEF AlignInit, AlignmentInv

(* Each stage keeps what the earlier ones established and adds its own part. *)
LEMMA NextInv == AlignmentInv /\ [AlignNext]_alignVars => AlignmentInv'
<1>1. SUFFICES ASSUME AlignmentInv, [AlignNext]_alignVars PROVE AlignmentInv'
  OBVIOUS
<1>2. UNCHANGED <<rec, cfg>>
  BY <1>1 DEF AlignNext, alignVars, Scan, ChooseWindow, LayGrid, SelectRows, KeepRows,
              Finish, RefuseContents
<1>3. rec' \in Recordings /\ cfg' \in Configs
  BY <1>1, <1>2 DEF AlignmentInv
<1>4. CASE Scan
  BY <1>1, <1>2, <1>3, <1>4, InputsKept DEF AlignmentInv, Scan
<1>5. CASE ChooseWindow
  <2>1. CASE stage' = "rejected"
    BY <1>3, <2>1 DEF AlignmentInv
  <2>2. CASE stage' # "rejected"
    <3>1. stage' = "grid" /\ WindowInv'
      BY <1>1, <1>5, <2>2, WindowChosen
    <3>2. ~ScanRejects'
      BY <1>1, <1>2, <1>5, InputsKept DEF AlignmentInv, ChooseWindow
    <3>3. QED BY <1>3, <3>1, <3>2 DEF AlignmentInv
  <2>3. QED BY <2>1, <2>2
<1>6. CASE LayGrid
  <2>1. /\ UNCHANGED window /\ stage' \in {"rejected", "rows"}
        /\ stage = "grid"
    BY <1>6 DEF LayGrid
  <2>2. GridInv'
    BY <1>1, <1>6, GridLaid
  <2>3. ~ScanRejects' /\ WindowInv'
    BY <1>1, <1>2, <2>1, InputsKept DEF AlignmentInv
  <2>4. QED BY <1>3, <2>1, <2>2, <2>3 DEF AlignmentInv
<1>7. CASE SelectRows
  <2>1. /\ UNCHANGED <<window, grid>> /\ stage' \in {"rejected", "assemble"}
        /\ stage = "rows"
    BY <1>7 DEF SelectRows
  <2>2. ~ScanRejects' /\ WindowInv' /\ GridInv'
    BY <1>1, <1>2, <2>1, InputsKept DEF AlignmentInv
  <2>3. stage' # "rejected" => RowsInv'
    BY <1>1, <1>7, RowsSelected
  <2>4. QED BY <1>3, <2>1, <2>2, <2>3 DEF AlignmentInv
<1>8. CASE KeepRows
  <2>1. /\ UNCHANGED <<window, grid, rows>>
        /\ stage' \in {"rejected", "checks"} /\ stage = "assemble"
        /\ stage' # "rejected" => kept' = {k \in DOMAIN rows : rows[k].valid}
    BY <1>8 DEF KeepRows
  <2>2. ~ScanRejects' /\ WindowInv' /\ GridInv' /\ RowsInv'
    BY <1>1, <1>2, <2>1, InputsKept DEF AlignmentInv
  <2>3. stage' # "rejected" => KeptInv'
    BY <2>1 DEF KeptInv
  <2>4. QED BY <1>3, <2>1, <2>2, <2>3 DEF AlignmentInv
<1>9. CASE Finish \/ RefuseContents
  <2>1. /\ UNCHANGED <<window, grid, rows, kept>>
        /\ stage' \in {"rejected", "done"} /\ stage = "checks"
    BY <1>9 DEF Finish, RefuseContents
  <2>2. ~ScanRejects' /\ WindowInv' /\ GridInv' /\ RowsInv'
    BY <1>1, <1>2, <2>1, InputsKept DEF AlignmentInv
  <2>3. KeptInv'
    BY <1>1, <2>1 DEF AlignmentInv, KeptInv
  <2>4. QED BY <1>3, <2>1, <2>2, <2>3 DEF AlignmentInv
<1>10. CASE UNCHANGED alignVars
  BY <1>1, <1>2, <1>3, <1>10, InputsKept DEF AlignmentInv, KeptInv, alignVars
<1>11. QED BY <1>1, <1>4, <1>5, <1>6, <1>7, <1>8, <1>9, <1>10 DEF AlignNext

(* So the invariant holds throughout every conversion.                       *)
LEMMA SpecInv == AlignSpec => []AlignmentInv
  BY InitInv, NextInv, PTL DEF AlignSpec

-----------------------------------------------------------------------------
(* No tick lies outside the streams its row is made from.                    *)
THEOREM TicksInside == AlignSpec => []TicksInsideStreams
<1>1. AlignmentInv => TicksInsideStreams
  <2>1. SUFFICES ASSUME AlignmentInv,
                        stage \in {"rows", "assemble", "checks", "done"},
                        NEW k \in DOMAIN grid
                 PROVE  /\ \A s \in Observed :
                             s[1] <= grid[k] /\ grid[k] <= s[Len(s)]
                        /\ ~Filling =>
                             \A a \in Arms : HasNext(rec.command[a], grid[k])
    BY DEF TicksInsideStreams
  <2>2. /\ rec \in Recordings /\ cfg \in Configs /\ ~ScanRejects
        /\ WindowInv /\ GridInv
    BY <2>1 DEF AlignmentInv
  <2>3. /\ grid[k] \in Int /\ window.start \in Int /\ window.end \in Int
        /\ window.start <= grid[k] /\ grid[k] <= window.end
    BY <2>1, <2>2 DEF GridInv, WindowInv
  <2>4. ASSUME NEW s \in Observed
        PROVE  s[1] <= grid[k] /\ grid[k] <= s[Len(s)]
    <3>1. s \in Seq(Int) /\ s # <<>>
      BY <2>2, ScannedStreams DEF Observed
    <3>2. s[1] \in Int /\ s[Len(s)] \in Int
      BY <3>1
    <3>3. s[1] <= window.start /\ window.end <= s[Len(s)]
      BY <2>2 DEF WindowInv
    <3>4. QED BY <2>3, <3>2, <3>3
  <2>5. ASSUME ~Filling, NEW a \in Arms
        PROVE  HasNext(rec.command[a], grid[k])
    <3> DEFINE s == rec.command[a]
    <3>1. s \in Seq(Int) /\ Sorted(s) /\ s # <<>>
      BY <2>2, <2>5, ScannedStreams
    <3>2. window.end <= s[Len(s)] /\ s[Len(s)] \in Int
      BY <2>2, <2>5, <3>1 DEF WindowInv
    <3>3. s[Len(s)] >= grid[k]
      BY <2>3, <3>2
    <3>4. QED BY <2>3, <3>1, <3>3, NextIsOldest
  <2>6. QED BY <2>4, <2>5
<1>2. QED BY <1>1, SpecInv, PTL

(* In lerobot-loop mode an observation is never newer than its tick.         *)
THEOREM ObservationsCausal == AlignSpec => []ObservationsPrecedeTick
<1>1. AlignmentInv => ObservationsPrecedeTick
  BY DEF AlignmentInv, ObservationsPrecedeTick, RowsInv, KeptInv
<1>2. QED BY <1>1, SpecInv, PTL

(* Nothing in an episode runs back in time.                                  *)
THEOREM EpisodesOrdered == AlignSpec => []TimeNeverRunsBack
<1>1. AlignmentInv => TimeNeverRunsBack
  BY DEF AlignmentInv, TimeNeverRunsBack, RowsInv, KeptInv
<1>2. QED BY <1>1, SpecInv, PTL

(* A held command is the last one that was issued.                           *)
THEOREM HoldsZeroOrder == AlignSpec => []HoldIsZeroOrder
<1>1. AlignmentInv => HoldIsZeroOrder
  BY DEF AlignmentInv, HoldIsZeroOrder, RowsInv, KeptInv
<1>2. QED BY <1>1, SpecInv, PTL

=============================================================================
