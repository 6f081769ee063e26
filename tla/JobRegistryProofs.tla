-------------------------- MODULE JobRegistryProofs --------------------------
(***************************************************************************)
(* Theorems about JobRegistry, for any jobs, nodes and number of restarts. *)
(* The argument for LiveAttemptOwned: while a request holds the lock its   *)
(* job is marked running and names no attempt (CallInv); a job the         *)
(* watchdog is finalising has no live attempt (WatchInv) and cannot be     *)
(* resumed meanwhile; so what is alive is named by the record and by       *)
(* job.json alike (OwnedInv), and a restart finds it again.  What sbatch   *)
(* launched without a readable id is named by neither, nor will it ever be *)
(* (UnreadInv).  Exclusive nodes also need that job.json agrees with a     *)
(* running record (DiskInv) and that the node a launch has chosen stays    *)
(* free (CallNodeInv).                                                     *)
(***************************************************************************)
EXTENDS JobRegistry, TLAPS

(* What a record is made of.                                                 *)
LEMMA Records ==
  /\ Missing \in Meta /\ NoCall \in Call /\ Idle \in Watch
  /\ \A m \in Meta, s \in States : [m EXCEPT !.state = s] \in Meta
  /\ \A m \in Meta, a \in 0..MaxAttempts, n \in Nodes \cup {NoNode} :
       [m EXCEPT !.ref = a, !.node = n] \in Meta
<1>1. Missing \in Meta
  BY RegistryAssumption DEF Missing, Meta, States, Terminal
<1>2. NoCall \in Call
  BY RegistryAssumption DEF NoCall, Call
<1>3. Idle \in Watch
  BY <1>1 DEF Idle, Watch
<1>4. ASSUME NEW m \in Meta, NEW s \in States
      PROVE [m EXCEPT !.state = s] \in Meta
  BY DEF Meta
<1>5. ASSUME NEW m \in Meta, NEW a \in 0..MaxAttempts,
             NEW n \in Nodes \cup {NoNode}
      PROVE [m EXCEPT !.ref = a, !.node = n] \in Meta
  BY DEF Meta
<1>6. QED BY <1>1, <1>2, <1>3, <1>4, <1>5

(* The record of a job is what job.json may hold.                            *)
LEMMA MetaOfType ==
  ASSUME TypeOK, NEW j \in Jobs PROVE MetaOf(j) \in Meta
BY DEF TypeOK, MetaOf, Meta

(* The empty registry has the types.                                         *)
LEMMA InitTypeOK == Init => TypeOK
<1> SUFFICES ASSUME Init PROVE TypeOK
  OBVIOUS
<1>1. /\ call \in Call /\ watchdog \in Watch /\ disk \in [Jobs -> Meta]
  BY Records DEF Init
<1>2. /\ state \in [Jobs -> States]
      /\ node \in [Jobs -> Nodes \cup {NoNode}]
      /\ proc \in [Jobs -> [Attempts -> {"none", "alive", "ok", "bad"}]]
      /\ runner \in [Jobs -> {"none", "own", "tail"}]
  BY DEF Init, States
<1>3. ref \in [Jobs -> 0..MaxAttempts] /\ crashes \in 0..MaxCrashes
  BY RegistryAssumption DEF Init
<1>4. QED BY <1>1, <1>2, <1>3 DEF Init, TypeOK

(* No handler, watchdog step or restart leaves the types.                    *)
LEMMA NextTypeOK == TypeOK /\ [Next]_vars => TypeOK'
<1> SUFFICES ASSUME TypeOK, [Next]_vars PROVE TypeOK'
  OBVIOUS
<1> USE DEF TypeOK, memory
<1>0. Terminal \subseteq States /\ {"absent", "running"} \subseteq States
  BY DEF States, Terminal
<1>1. ASSUME NEW j \in Jobs, StartClaims(j) PROVE TypeOK'
  <2>1. Claimed("start", j) \in Call
    BY RegistryAssumption DEF Claimed, Call
  <2>2. [Missing EXCEPT !.state = "running"] \in Meta
    BY <1>0, Records
  <2>3. 0 \in 0..MaxAttempts
    BY RegistryAssumption
  <2>4. QED BY <1>0, <1>1, <2>1, <2>2, <2>3 DEF StartClaims
<1>2. ASSUME NEW j \in Jobs, ResumeClaims(j) PROVE TypeOK'
  <2>1. Claimed("resume", j) \in Call
    BY RegistryAssumption DEF Claimed, Call
  <2>2. [Missing EXCEPT !.state = "running"] \in Meta
    BY <1>0, Records
  <2>3. 0 \in 0..MaxAttempts
    BY RegistryAssumption
  <2>4. QED BY <1>0, <1>2, <2>1, <2>2, <2>3 DEF ResumeClaims
<1>3. ASSUME NEW j \in Jobs, Stop(j) PROVE TypeOK'
  BY <1>3 DEF Stop
<1>4. ASSUME NEW j \in Jobs, DeletePops(j) PROVE TypeOK'
  <2>1. watchdog' \in Watch
    BY <1>4, MetaOfType DEF DeletePops, Watch
  <2>2. 0 \in 0..MaxAttempts
    BY RegistryAssumption
  <2>3. QED BY <1>0, <1>4, <2>1, <2>2 DEF DeletePops
<1>5. ASSUME NEW j \in Jobs, Spawns(j) PROVE TypeOK'
  <2>1. PICK a \in Attempts, n \in Nodes \cup {NoNode} :
          /\ proc' = [proc EXCEPT ![j][a] = "alive"]
          /\ call' = [call EXCEPT !.at = "spawned", !.attempt = a, !.node = n]
    BY <1>5 DEF Spawns
  <2>2. a \in 0..MaxAttempts
    BY RegistryAssumption DEF Attempts
  <2>3. call' \in Call
    BY <2>1, <2>2 DEF Call
  <2>4. proc' \in [Jobs -> [Attempts -> {"none", "alive", "ok", "bad"}]]
    BY <2>1
  <2>5. QED BY <1>5, <2>3, <2>4 DEF Spawns
<1>6. ASSUME NEW j \in Jobs, SpawnFails(j) \/ SubmitUnread(j) PROVE TypeOK'
  <2>1. "failed" \in States /\ [MetaOf(j) EXCEPT !.state = "failed"] \in Meta
    BY <1>0, Records, MetaOfType DEF Terminal
  <2>2. RecordsFailure(j)
    BY <1>6 DEF SpawnFails, SubmitUnread
  <2>3. /\ proc' \in [Jobs -> [Attempts -> {"none", "alive", "ok", "bad"}]]
        /\ unread' \subseteq Jobs \X Attempts
    <3>1. CASE SpawnFails(j)
      BY <3>1 DEF SpawnFails
    <3>2. CASE SubmitUnread(j)
      <4>1. PICK a \in Attempts :
              /\ proc' = [proc EXCEPT ![j][a] = "alive"]
              /\ unread' = unread \cup {<<j, a>>}
        BY <3>2 DEF SubmitUnread
      <4> QED  BY <4>1
    <3> QED  BY <1>6, <3>1, <3>2
  <2>4. QED BY <2>1, <2>2, <2>3, Records DEF RecordsFailure
<1>7. ASSUME NEW j \in Jobs, Commits(j) PROVE TypeOK'
  <2>1. call.attempt \in 0..MaxAttempts /\ call.node \in Nodes \cup {NoNode}
    BY DEF Call
  <2>2. [MetaOf(j) EXCEPT !.ref = call.attempt, !.node = call.node] \in Meta
    BY <2>1, Records, MetaOfType
  <2>3. QED BY <1>7, <2>1, <2>2, Records DEF Commits
<1>8. ASSUME NEW j \in Jobs, DeleteReturns(j) PROVE TypeOK'
  BY <1>8, Records DEF DeleteReturns
<1>9. ASSUME NEW j \in Jobs, WatchRunning(j) PROVE TypeOK'
  BY <1>9, MetaOfType DEF WatchRunning
<1>10. ASSUME NEW j \in Jobs, NoticeExit(j) PROVE TypeOK'
  <2>1. watchdog' \in Watch
    BY <1>10, Records DEF NoticeExit, Watch, Idle
  <2>2. QED BY <1>10, <2>1 DEF NoticeExit
<1>11. ASSUME NEW j \in Jobs, Finalise(j) PROVE TypeOK'
  <2>1. PICK s \in Outcomes(j) :
          /\ state' = [state EXCEPT ![j] = s]
          /\ watchdog' = [at |-> "final", job |-> j,
                          meta |-> [MetaOf(j) EXCEPT !.state = s]]
    BY <1>11 DEF Finalise
  <2>2. s \in States
    BY DEF Outcomes, States, Terminal
  <2>3. [MetaOf(j) EXCEPT !.state = s] \in Meta
    BY <2>2, Records, MetaOfType
  <2>4. watchdog' \in Watch
    BY <2>1, <2>3 DEF Watch
  <2>5. QED BY <1>11, <2>1, <2>2, <2>4 DEF Finalise
<1>12. ASSUME NEW j \in Jobs, Serialise(j) PROVE TypeOK'
  <2>1. watchdog' \in Watch
    BY <1>12, MetaOfType DEF Serialise, Watch
  <2>2. QED BY <1>12, <2>1 DEF Serialise
<1>13. ASSUME NEW j \in Jobs, Save(j) PROVE TypeOK'
  <2>1. watchdog.meta \in Meta
    BY DEF Watch
  <2>2. QED BY <1>13, <2>1, Records DEF Save
<1>14. ASSUME NEW j \in Jobs, AttemptEnds(j) PROVE TypeOK'
  BY <1>14 DEF AttemptEnds
<1>15. ASSUME Restart PROVE TypeOK'
  <2>1. \A j \in Jobs : Loaded(j) \in States
    BY DEF Loaded, Meta, States, Terminal
  <2>2. \A j \in Jobs : [disk[j] EXCEPT !.state = Loaded(j)] \in Meta
    BY <2>1, Records
  <2>3. disk' \in [Jobs -> Meta] /\ state' \in [Jobs -> States]
    BY <1>15, <2>1, <2>2 DEF Restart
  <2>4. /\ ref' \in [Jobs -> 0..MaxAttempts]
        /\ node' \in [Jobs -> Nodes \cup {NoNode}]
    BY <1>15 DEF Restart, Meta
  <2>5. /\ runner' \in [Jobs -> {"none", "own", "tail"}]
        /\ crashes' \in 0..MaxCrashes
    BY <1>15, RegistryAssumption DEF Restart
  <2>6. call' \in Call /\ watchdog' \in Watch
    BY <1>15, Records DEF Restart
  <2>7. QED BY <1>15, <2>3, <2>4, <2>5, <2>6 DEF Restart
<1>16. CASE UNCHANGED vars
  BY <1>16 DEF vars
<1>17. QED
  BY <1>1, <1>2, <1>3, <1>4, <1>5, <1>6, <1>7, <1>8, <1>9, <1>10, <1>11,
     <1>12, <1>13, <1>14, <1>15, <1>16 DEF Next, Handler, Server, Watchdog

(* Every variable keeps its type, for any jobs, attempts and restarts.       *)
THEOREM TypeCorrect == Spec => []TypeOK
<1>1. QED BY InitTypeOK, NextTypeOK, PTL DEF Spec

-----------------------------------------------------------------------------
(* Who owns what is alive.                                                   *)

(* The job of the request that holds the lock.                               *)
CallInv ==
  /\ call.at = "none" => call = NoCall
  /\ call.at # "none" => /\ call.job \in Jobs
                         /\ state[call.job] = "running"
                         /\ ref[call.job] = 0
  /\ call.at = "spawned" => call.attempt \in Attempts

(* The other jobs: RunnerIffRunning without the condition on the lock.       *)
RunInv ==
  \A j \in Jobs : j # call.job =>
    /\ state[j] = "running" <=> runner[j] # "none"
    /\ runner[j] # "none" => ref[j] # 0

(* The jobs whose directories are being removed.                             *)
DeleteInv == \A j \in removing : state[j] = "absent"

(* While the lock is free no job is in the hands of a start or resume.       *)
LEMMA CallFacts ==
  ASSUME TypeOK, CallInv
  PROVE  /\ LockFree => call.at = "none" /\ call.job = NoJob
         /\ \A j \in Jobs : LockFree => call.job # j
BY RegistryAssumption DEF LockFree, NoCall

(* The request that holds the lock keeps its job running and nameless.       *)
LEMMA NextCallInv == TypeOK /\ CallInv /\ [Next]_vars => CallInv'
<1> SUFFICES ASSUME TypeOK, CallInv, [Next]_vars PROVE CallInv'
  OBVIOUS
<1> USE DEF CallInv, memory
<1>1. ASSUME NEW j \in Jobs, StartClaims(j) \/ ResumeClaims(j) PROVE CallInv'
  BY <1>1 DEF StartClaims, ResumeClaims, Claimed, TypeOK
<1>2. ASSUME NEW j \in Jobs, DeletePops(j) \/ Finalise(j) PROVE CallInv'
  BY <1>2, CallFacts DEF DeletePops, Finalise, TypeOK
<1>3. ASSUME NEW j \in Jobs, Spawns(j) PROVE CallInv'
  BY <1>3 DEF Spawns, TypeOK, Call
<1>4. ASSUME NEW j \in Jobs, RecordsFailure(j) \/ Commits(j) PROVE CallInv'
  BY <1>4 DEF RecordsFailure, Commits, NoCall
<1>5. ASSUME NEW j \in Jobs,
             Stop(j) \/ DeleteReturns(j) \/ WatchRunning(j) \/ NoticeExit(j)
             \/ Serialise(j) \/ Save(j) \/ AttemptEnds(j)
      PROVE CallInv'
  BY <1>5 DEF Stop, DeleteReturns, WatchRunning, NoticeExit, Serialise, Save,
     AttemptEnds
<1>6. ASSUME Restart PROVE CallInv'
  BY <1>6 DEF Restart, NoCall
<1>7. CASE UNCHANGED vars
  BY <1>7 DEF vars
<1>8. QED
  BY <1>1, <1>2, <1>3, <1>4, <1>5, <1>6, <1>7
     DEF Next, Handler, Server, Watchdog, SpawnFails,
         SubmitUnread

(* State and runner change together, for every job but the one in hand.      *)
LEMMA NextRunInv ==
  TypeOK /\ CallInv /\ RunInv /\ [Next]_vars => RunInv'
<1> SUFFICES ASSUME TypeOK, CallInv, RunInv, [Next]_vars PROVE RunInv'
  OBVIOUS
<1> USE DEF RunInv, memory
<1>1. ASSUME NEW j \in Jobs, StartClaims(j) \/ ResumeClaims(j) PROVE RunInv'
  BY <1>1, CallFacts DEF StartClaims, ResumeClaims, Claimed, TypeOK
<1>2. ASSUME NEW j \in Jobs, DeletePops(j) PROVE RunInv'
  BY <1>2, CallFacts DEF DeletePops, TypeOK
<1>3. ASSUME NEW j \in Jobs, Finalise(j) PROVE RunInv'
  <2>1. \A s \in Outcomes(j) : s # "running"
    BY DEF Outcomes
  <2>2. QED BY <1>3, <2>1, CallFacts DEF Finalise, TypeOK
<1>4. ASSUME NEW j \in Jobs, Spawns(j) PROVE RunInv'
  BY <1>4 DEF Spawns, TypeOK, Call
<1>5. ASSUME NEW j \in Jobs, RecordsFailure(j) PROVE RunInv'
  BY <1>5 DEF RecordsFailure, TypeOK
<1>6. ASSUME NEW j \in Jobs, Commits(j) PROVE RunInv'
  <2>1. call.attempt # 0 /\ state[j] = "running"
    BY <1>6, RegistryAssumption DEF Commits, CallInv, Attempts
  <2>2. QED BY <1>6, <2>1 DEF Commits, TypeOK
<1>7. ASSUME NEW j \in Jobs,
             Stop(j) \/ DeleteReturns(j) \/ WatchRunning(j) \/ NoticeExit(j)
             \/ Serialise(j) \/ Save(j) \/ AttemptEnds(j)
      PROVE RunInv'
  BY <1>7 DEF Stop, DeleteReturns, WatchRunning, NoticeExit, Serialise, Save,
     AttemptEnds
<1>8. ASSUME Restart PROVE RunInv'
  BY <1>8 DEF Restart, Loaded, Reattached
<1>9. CASE UNCHANGED vars
  BY <1>9 DEF vars
<1>10. QED
  BY <1>1, <1>2, <1>3, <1>4, <1>5, <1>6, <1>7, <1>8, <1>9
     DEF Next, Handler, Server, Watchdog, SpawnFails,
         SubmitUnread

(* A job is marked running exactly when a runner follows an attempt for it,  *)
(* whenever the registry's lock is free.                                     *)
THEOREM RunningJobsFollowed == Spec => []RunnerIffRunning
<1>1. Init => CallInv /\ RunInv
  BY DEF Init, CallInv, RunInv, NoCall
<1>2. TypeOK /\ CallInv /\ RunInv => RunnerIffRunning
  BY CallFacts DEF RunInv, RunnerIffRunning
<1>3. QED
  BY <1>1, <1>2, InitTypeOK, NextTypeOK, NextCallInv, NextRunInv, PTL DEF Spec

-----------------------------------------------------------------------------
(* What holds while Slurm answers, a resume waits for the watchdog to have   *)
(* saved the end of the last attempt, and no server dies between a launch    *)
(* and the write of its identifier.                                          *)

Calm == ~Outages /\ ~PromptResumes /\ "spawned" \notin CrashDuring

(* The job whose exit has been noticed is running until it is finalised.     *)
ExitInv ==
  watchdog.at = "exited" =>
    /\ watchdog.job \in Jobs
    /\ watchdog.job # call.job
    /\ state[watchdog.job] = "running"

(* The job being finalised has no live attempt.                              *)
WatchInv ==
  /\ watchdog.at = "exited" =>
       /\ watchdog.job \in Jobs
       /\ watchdog.job # call.job
       /\ state[watchdog.job] = "running"
       /\ \A a \in Attempts : proc[watchdog.job][a] = "alive" =>
                               <<watchdog.job, a>> \in unread
  /\ watchdog.at \in {"final", "saving"} =>
       /\ watchdog.job \in Jobs
       /\ state[watchdog.job] # "running"
       /\ state[watchdog.job] = "absent" =>
            watchdog.job \in removing \cup deleted

(* What is alive is in hand, or named by the record and by job.json.         *)
Named(j, a) ==
  /\ state[j] = "running" /\ ref[j] = a
  /\ disk[j].state = "running" /\ disk[j].ref = a
OwnedInv ==
  \A j \in Jobs, a \in Attempts :
    proc[j][a] = "alive" /\ <<j, a>> \notin unread
      => InHand(j, a) \/ Named(j, a)

(* What the watchdog is about to write of job j.                             *)
SavedRef(j) ==
  IF watchdog.at \in {"final", "saving"} /\ watchdog.job = j
  THEN watchdog.meta.ref ELSE 0

(* Attempt a is named by the record, by job.json, by what is about to be     *)
(* written there, or by the request in progress.                             *)
Names(j, a) ==
  ref[j] = a \/ disk[j].ref = a \/ SavedRef(j) = a \/ InHand(j, a)

(* What is named was launched, and a Slurm job with no readable id is named  *)
(* nowhere.                                                                  *)
UnreadInv ==
  \A j \in Jobs, a \in Attempts :
    /\ Names(j, a) => proc[j][a] # "none" /\ <<j, a>> \notin unread
    /\ <<j, a>> \in unread => proc[j][a] # "none" /\ KindOf[j] = "slurm"

(* A stop or an exit makes no attempt alive.                                 *)
LEMMA NothingRevives ==
  ASSUME TypeOK, NEW j \in Jobs, Stop(j) \/ AttemptEnds(j),
         NEW i \in Jobs, NEW a \in Attempts, proc'[i][a] = "alive"
  PROVE  proc[i][a] = "alive"
<1>1. \E c, q : q # "alive" /\ proc' = [proc EXCEPT ![j][c] = q]
  <2>1. CASE Stop(j)
    BY <2>1 DEF Stop
  <2>2. CASE AttemptEnds(j)
    BY <2>2 DEF AttemptEnds
  <2>3. QED BY <2>1, <2>2
<1>5. PICK b, r : r # "alive" /\ proc' = [proc EXCEPT ![j][b] = r]
  BY <1>1
<1>2. proc[i] \in [Attempts -> {"none", "alive", "ok", "bad"}]
  BY DEF TypeOK
<1>3. proc'[i] = IF i = j THEN [proc[i] EXCEPT ![b] = r] ELSE proc[i]
  BY <1>5 DEF TypeOK
<1>4. QED BY <1>5, <1>2, <1>3

(* The job whose exit the watchdog has noticed stays running, in nobody      *)
(* else's hands: its record is not terminal yet, so no request takes it up.  *)
LEMMA NextExitInv ==
  TypeOK /\ CallInv /\ ExitInv /\ [Next]_vars => ExitInv'
<1> SUFFICES ASSUME TypeOK, CallInv, ExitInv, [Next]_vars PROVE ExitInv'
  OBVIOUS
<1> USE DEF ExitInv, memory
<1>1. ASSUME NEW j \in Jobs, StartClaims(j) \/ ResumeClaims(j) PROVE ExitInv'
  BY <1>1 DEF StartClaims, ResumeClaims, Fresh, Terminal, Claimed, TypeOK
<1>2. ASSUME NEW j \in Jobs, DeletePops(j) PROVE ExitInv'
  BY <1>2 DEF DeletePops, Terminal, TypeOK
<1>3. ASSUME NEW j \in Jobs, NoticeExit(j) PROVE ExitInv'
  BY <1>3, CallFacts DEF NoticeExit, Followed, Idle
<1>4. ASSUME NEW j \in Jobs, Finalise(j) PROVE ExitInv'
  BY <1>4 DEF Finalise
<1>5. ASSUME NEW j \in Jobs, Serialise(j) \/ Save(j) PROVE ExitInv'
  <2>1. watchdog'.at # "exited"
    <3>1. CASE Serialise(j)
      BY <3>1 DEF Serialise, TypeOK, Watch
    <3>2. CASE Save(j)
      BY <3>2 DEF Save, Idle
    <3> QED  BY <1>5, <3>1, <3>2
  <2> QED  BY <2>1
<1>6. ASSUME NEW j \in Jobs, Spawns(j) PROVE ExitInv'
  BY <1>6 DEF Spawns, TypeOK, Call
<1>7. ASSUME NEW j \in Jobs, RecordsFailure(j) \/ Commits(j) PROVE ExitInv'
  BY <1>7, RegistryAssumption DEF RecordsFailure, Commits, NoCall, TypeOK
<1>8. ASSUME NEW j \in Jobs,
             Stop(j) \/ DeleteReturns(j) \/ WatchRunning(j) \/ AttemptEnds(j)
      PROVE ExitInv'
  BY <1>8 DEF Stop, DeleteReturns, WatchRunning, AttemptEnds
<1>9. ASSUME Restart PROVE ExitInv'
  BY <1>9 DEF Restart, Idle
<1>10. CASE UNCHANGED vars
  BY <1>10 DEF vars
<1> QED
  BY <1>1, <1>2, <1>3, <1>4, <1>5, <1>6, <1>7, <1>8, <1>9, <1>10
     DEF Next, Handler, Server, Watchdog, SpawnFails,
         SubmitUnread

(* A job whose directory is being removed does not come back: its id is not  *)
(* fresh, and a restart forgets the removal.                                 *)
LEMMA NextDeleteInv ==
  TypeOK /\ CallInv /\ ExitInv /\ DeleteInv /\ [Next]_vars => DeleteInv'
<1> SUFFICES ASSUME TypeOK, CallInv, ExitInv, DeleteInv, [Next]_vars
             PROVE DeleteInv'
  OBVIOUS
<1> USE DEF DeleteInv, memory
<1>1. ASSUME NEW j \in Jobs, StartClaims(j) \/ ResumeClaims(j)
      PROVE DeleteInv'
  BY <1>1 DEF StartClaims, ResumeClaims, Fresh, Terminal, TypeOK
<1>2. ASSUME NEW j \in Jobs, DeletePops(j) PROVE DeleteInv'
  <2>1. /\ state' = [state EXCEPT ![j] = "absent"]
        /\ removing' = removing \cup {j}
    BY <1>2 DEF DeletePops
  <2>2. QED BY <2>1 DEF TypeOK
<1>9. ASSUME NEW j \in Jobs, DeleteReturns(j) PROVE DeleteInv'
  <2>1. state' = state /\ removing' = removing \ {j}
    BY <1>9 DEF DeleteReturns
  <2>2. QED BY <2>1
<1>3. ASSUME NEW j \in Jobs, RecordsFailure(j) PROVE DeleteInv'
  BY <1>3 DEF RecordsFailure, CallInv, TypeOK
<1>4. ASSUME NEW j \in Jobs, Finalise(j) PROVE DeleteInv'
  BY <1>4 DEF Finalise, ExitInv, TypeOK
<1>5. ASSUME NEW j \in Jobs,
             Spawns(j) \/ Commits(j) \/ Stop(j) \/ WatchRunning(j)
             \/ NoticeExit(j) \/ Serialise(j) \/ Save(j) \/ AttemptEnds(j)
      PROVE DeleteInv'
  BY <1>5 DEF Spawns, Commits, Stop, WatchRunning, NoticeExit, Serialise,
     Save, AttemptEnds
<1>6. ASSUME Restart PROVE DeleteInv'
  BY <1>6 DEF Restart
<1>7. CASE UNCHANGED vars
  BY <1>7 DEF vars
<1>8. QED
  BY <1>1, <1>2, <1>3, <1>4, <1>5, <1>6, <1>7, <1>9
     DEF Next, Handler, Server, Watchdog, SpawnFails,
         SubmitUnread

(* Under Calm nothing is launched for the job the watchdog finalises.        *)
LEMMA NextWatchInv ==
  ASSUME Calm
  PROVE  TypeOK /\ CallInv /\ RunInv /\ OwnedInv /\ WatchInv /\ [Next]_vars
           => WatchInv'
<1> SUFFICES ASSUME TypeOK, CallInv, RunInv, OwnedInv, WatchInv, [Next]_vars
             PROVE WatchInv'
  OBVIOUS
<1> USE DEF WatchInv, memory
<1>1. ASSUME NEW j \in Jobs, StartClaims(j) PROVE WatchInv'
  BY <1>1 DEF StartClaims, Fresh, Claimed, TypeOK
<1>2. ASSUME NEW j \in Jobs, ResumeClaims(j) PROVE WatchInv'
  BY <1>2 DEF ResumeClaims, Claimed, Calm, Terminal, TypeOK
<1>3. ASSUME NEW j \in Jobs, DeletePops(j) PROVE WatchInv'
  BY <1>3 DEF DeletePops, Terminal, TypeOK, Watch
<1>4. ASSUME NEW j \in Jobs, DeleteReturns(j) PROVE WatchInv'
  BY <1>4 DEF DeleteReturns
<1>5. ASSUME NEW j \in Jobs, Spawns(j) PROVE WatchInv'
  BY <1>5 DEF Spawns, TypeOK, Call
<1>6. ASSUME NEW j \in Jobs, SpawnFails(j) \/ Commits(j) PROVE WatchInv'
  BY <1>6, RegistryAssumption
     DEF SpawnFails, RecordsFailure, Commits, NoCall, TypeOK
<1>15. ASSUME NEW j \in Jobs, SubmitUnread(j) PROVE WatchInv'
  <2>1. PICK a \in Attempts : /\ proc' = [proc EXCEPT ![j][a] = "alive"]
                              /\ unread' = unread \cup {<<j, a>>}
    BY <1>15 DEF SubmitUnread
  <2>2. RecordsFailure(j)
    BY <1>15 DEF SubmitUnread
  <2>3. watchdog.at = "exited" => watchdog.job # j
    BY <2>2 DEF RecordsFailure
  <2> QED
    BY <2>1, <2>2, <2>3, RegistryAssumption
       DEF RecordsFailure, NoCall, TypeOK
<1>7. ASSUME NEW j \in Jobs, Stop(j) \/ AttemptEnds(j) PROVE WatchInv'
  <2>1. UNCHANGED <<state, call, watchdog, removing, deleted, unread>>
    BY <1>7 DEF Stop, AttemptEnds
  <2>2. QED BY <1>7, <2>1, NothingRevives
<1>8. ASSUME NEW j \in Jobs, WatchRunning(j) PROVE WatchInv'
  BY <1>8 DEF WatchRunning
<1>9. ASSUME NEW j \in Jobs, NoticeExit(j) PROVE WatchInv'
  <2>1. call.job # j /\ call.at = "none" /\ state[j] = "running"
    BY <1>9, CallFacts DEF NoticeExit, Followed
  <2>2. proc[j][ref[j]] # "alive"
    BY <1>9 DEF NoticeExit, SeenEnded, Calm
  <2>3. \A a \in Attempts : proc[j][a] = "alive" => <<j, a>> \in unread
    BY <2>1, <2>2 DEF OwnedInv, InHand, Named
  <2>4. watchdog'.at = "exited" /\ watchdog'.job = j
    BY <1>9 DEF NoticeExit, Idle
  <2>5. QED BY <1>9, <2>1, <2>3, <2>4 DEF NoticeExit
<1>10. ASSUME NEW j \in Jobs, Finalise(j) PROVE WatchInv'
  <2>1. \A s \in Outcomes(j) : s \notin {"running", "absent"}
    BY DEF Outcomes
  <2>2. QED BY <1>10, <2>1 DEF Finalise, TypeOK
<1>11. ASSUME NEW j \in Jobs, Serialise(j) \/ Save(j) PROVE WatchInv'
  <2>1. UNCHANGED <<state, proc, call, removing, deleted, unread>>
    BY <1>11 DEF Serialise, Save
  <2>2. CASE Save(j)
    <3>1. watchdog'.at = "idle"
      BY <2>2 DEF Save, Idle
    <3>2. QED BY <2>1, <3>1
  <2>3. CASE Serialise(j)
    <3>1. watchdog'.at = "saving" /\ watchdog'.job = j
      BY <2>3 DEF Serialise, TypeOK, Watch
    <3>2. watchdog.at = "final" /\ watchdog.job = j
      BY <2>3 DEF Serialise
    <3>3. QED BY <2>1, <3>1, <3>2
  <2>4. QED BY <1>11, <2>2, <2>3
<1>12. ASSUME Restart PROVE WatchInv'
  BY <1>12 DEF Restart, Idle
<1>13. CASE UNCHANGED vars
  BY <1>13 DEF vars
<1>14. QED
  BY <1>1, <1>2, <1>3, <1>4, <1>5, <1>6, <1>7, <1>8, <1>9, <1>10, <1>11,
     <1>12, <1>13, <1>15 DEF Next, Handler, Server, Watchdog

(* Under Calm each step that launches, ends or forgets an attempt keeps it   *)
(* named in memory and on disk.                                              *)
LEMMA NextOwnedInv ==
  ASSUME Calm
  PROVE  TypeOK /\ CallInv /\ DeleteInv /\ WatchInv /\ OwnedInv /\ [Next]_vars
           => OwnedInv'
<1> SUFFICES ASSUME TypeOK, CallInv, DeleteInv, WatchInv, OwnedInv,
                    [Next]_vars
             PROVE OwnedInv'
  OBVIOUS
<1> USE DEF OwnedInv, InHand, Named, memory
<1>1. ASSUME NEW j \in Jobs, StartClaims(j) PROVE OwnedInv'
  BY <1>1, CallFacts DEF StartClaims, Fresh, TypeOK
<1>2. ASSUME NEW j \in Jobs, ResumeClaims(j) PROVE OwnedInv'
  BY <1>2, CallFacts DEF ResumeClaims, Terminal, TypeOK
<1>3. ASSUME NEW j \in Jobs, DeletePops(j) PROVE OwnedInv'
  BY <1>3, CallFacts DEF DeletePops, Terminal, TypeOK
<1>4. ASSUME NEW j \in Jobs, DeleteReturns(j) PROVE OwnedInv'
  BY <1>4 DEF DeleteReturns, DeleteInv, CallInv, TypeOK
<1>5. ASSUME NEW j \in Jobs, Spawns(j) PROVE OwnedInv'
  <2>1. \A a \in Attempts : proc[j][a] = "alive" => <<j, a>> \in unread
    BY <1>5, RegistryAssumption DEF Spawns, CallInv, Attempts
  <2>2. PICK a \in Attempts, n \in Nodes \cup {NoNode} :
          /\ proc' = [proc EXCEPT ![j][a] = "alive"]
          /\ call' = [call EXCEPT !.at = "spawned", !.attempt = a, !.node = n]
    BY <1>5 DEF Spawns
  <2>3. call'.job = j /\ call'.at = "spawned" /\ call'.attempt = a
    BY <1>5, <2>2 DEF Spawns, TypeOK, Call
  <2>4. ASSUME NEW i \in Jobs, NEW b \in Attempts, proc'[i][b] = "alive",
               <<i, b>> \notin unread
        PROVE (i = j /\ b = a) \/ (i # j /\ proc[i][b] = "alive")
    BY <2>1, <2>2, <2>4 DEF TypeOK
  <2>5. QED BY <1>5, <2>3, <2>4 DEF Spawns
<1>6. ASSUME NEW j \in Jobs, SpawnFails(j) \/ SubmitUnread(j)
      PROVE OwnedInv'
  <2>1. RecordsFailure(j)
    BY <1>6 DEF SpawnFails, SubmitUnread
  <2>2. ASSUME NEW i \in Jobs, NEW a \in Attempts, proc'[i][a] = "alive",
               <<i, a>> \notin unread'
        PROVE proc[i][a] = "alive" /\ <<i, a>> \notin unread
    <3>1. CASE SpawnFails(j)
      BY <2>2, <3>1 DEF SpawnFails
    <3>2. CASE SubmitUnread(j)
      <4>1. PICK b \in Attempts : /\ proc' = [proc EXCEPT ![j][b] = "alive"]
                                  /\ unread' = unread \cup {<<j, b>>}
        BY <3>2 DEF SubmitUnread
      <4> QED  BY <2>2, <4>1 DEF TypeOK
    <3> QED  BY <1>6, <3>1, <3>2
  <2> QED
    BY <2>1, <2>2, RegistryAssumption
       DEF RecordsFailure, CallInv, Attempts, TypeOK
<1>7. ASSUME NEW j \in Jobs, Commits(j) PROVE OwnedInv'
  <2>1. /\ state[j] = "running"
        /\ \A a \in Attempts : proc[j][a] = "alive" =>
             a = call.attempt \/ <<j, a>> \in unread
    BY <1>7, RegistryAssumption DEF Commits, CallInv, Attempts
  <2>2. disk'[j].state = "running" /\ disk'[j].ref = call.attempt
    BY <1>7, <2>1 DEF Commits, MetaOf, TypeOK
  <2>3. QED BY <1>7, <2>1, <2>2 DEF Commits, TypeOK
<1>8. ASSUME NEW j \in Jobs, WatchRunning(j) PROVE OwnedInv'
  BY <1>8, CallFacts DEF WatchRunning, Followed, MetaOf, TypeOK
<1>9. ASSUME NEW j \in Jobs, Finalise(j) PROVE OwnedInv'
  BY <1>9 DEF Finalise, WatchInv, TypeOK
<1>10. ASSUME NEW j \in Jobs, Save(j) PROVE OwnedInv'
  BY <1>10 DEF Save, WatchInv, CallInv, TypeOK
<1>11. ASSUME NEW j \in Jobs, Stop(j) \/ AttemptEnds(j) PROVE OwnedInv'
  <2>1. UNCHANGED <<state, ref, disk, call, unread>>
    BY <1>11 DEF Stop, AttemptEnds
  <2>2. QED BY <1>11, <2>1, NothingRevives
<1>12. ASSUME NEW j \in Jobs, NoticeExit(j) \/ Serialise(j) PROVE OwnedInv'
  BY <1>12 DEF NoticeExit, Serialise
<1>13. ASSUME Restart PROVE OwnedInv'
  <2>1. call.at # "spawned"
    <3>1. Moment # "spawned"
      BY <1>13 DEF Restart, Calm
    <3>2. call.at = "spawned" => Moment = "spawned"
      BY DEF Moment
    <3>3. QED BY <3>1, <3>2
  <2>2. ASSUME NEW j \in Jobs, NEW a \in Attempts, proc[j][a] = "alive",
               <<j, a>> \notin unread
        PROVE Reattached(j) /\ disk[j].ref = a
    BY <2>1, <2>2, RegistryAssumption DEF Reattached, Attempts
  <2>3. QED BY <1>13, <2>2 DEF Restart, Loaded, Reattached, TypeOK, Meta
<1>14. CASE UNCHANGED vars
  BY <1>14 DEF vars
<1>15. QED
  BY <1>1, <1>2, <1>3, <1>4, <1>5, <1>6, <1>7, <1>8, <1>9, <1>10, <1>11,
     <1>12, <1>13, <1>14 DEF Next, Handler, Server, Watchdog

(* A step that names nothing new.                                            *)
LEMMA NamesKept ==
  ASSUME UnreadInv, unread' = unread,
         \A j \in Jobs, a \in Attempts : Names(j, a)' => Names(j, a),
         \A j \in Jobs, a \in Attempts :
           proc[j][a] # "none" => proc'[j][a] # "none"
  PROVE  UnreadInv'
BY DEF UnreadInv

(* A launch whose id could not be read leaves no trace in any record, and no *)
(* later launch takes its place.                                             *)
LEMMA NextUnreadInv ==
  TypeOK /\ CallInv /\ UnreadInv /\ [Next]_vars => UnreadInv'
<1> SUFFICES ASSUME TypeOK, CallInv, UnreadInv, [Next]_vars
             PROVE  UnreadInv'
  OBVIOUS
<1> USE DEF Names, SavedRef, InHand, memory
<1>0. 0 \notin Attempts
  BY RegistryAssumption DEF Attempts
<1>1. ASSUME NEW j \in Jobs, StartClaims(j) \/ ResumeClaims(j)
      PROVE  UnreadInv'
  <2>1. [Missing EXCEPT !.state = "running"].ref = 0
    BY DEF Missing
  <2>2. /\ ref' = [ref EXCEPT ![j] = 0] /\ call'.at = "claimed"
        /\ disk' = [disk EXCEPT ![j] = [Missing EXCEPT !.state = "running"]]
        /\ UNCHANGED <<proc, watchdog, unread>>
    BY <1>1 DEF StartClaims, ResumeClaims, Claimed
  <2>3. \A i \in Jobs : ref'[i] \in {0, ref[i]}
                       /\ disk'[i].ref \in {0, disk[i].ref}
    BY <2>1, <2>2 DEF TypeOK
  <2> QED  BY <1>0, <2>2, <2>3, NamesKept
<1>2. ASSUME NEW j \in Jobs, DeletePops(j) PROVE UnreadInv'
  <2>1. SavedRef(j)' \in {SavedRef(j), ref[j]}
    BY <1>2 DEF DeletePops, MetaOf, TypeOK, Watch
  <2>2. \A i \in Jobs : i # j => SavedRef(i)' = SavedRef(i)
    BY <1>2 DEF DeletePops, TypeOK, Watch
  <2>3. /\ \A i \in Jobs : ref'[i] \in {0, ref[i]}
        /\ UNCHANGED <<disk, proc, call, unread>>
    BY <1>2 DEF DeletePops, TypeOK
  <2> QED
    BY <1>0, <2>1, <2>2, <2>3, NamesKept
<1>3. ASSUME NEW j \in Jobs, Spawns(j) PROVE UnreadInv'
  <2>1. PICK a \in Attempts, n \in Nodes \cup {NoNode} :
          /\ Unused(j, a)
          /\ proc' = [proc EXCEPT ![j][a] = "alive"]
          /\ call' = [call EXCEPT !.at = "spawned", !.attempt = a, !.node = n]
    BY <1>3 DEF Spawns
  <2>2. <<j, a>> \notin unread
    BY <2>1 DEF Unused, UnreadInv
  <2>3. call'.job = j /\ call'.attempt = a
    BY <1>3, <2>1 DEF Spawns, TypeOK, Call
  <2>4. /\ proc'[j][a] = "alive"
        /\ \A i \in Jobs, b \in Attempts :
             proc'[i][b] = proc[i][b] \/ proc'[i][b] = "alive"
    BY <2>1 DEF TypeOK
  <2>5. UNCHANGED <<ref, disk, watchdog, unread>>
    BY <1>3 DEF Spawns
  <2> QED  BY <2>2, <2>3, <2>4, <2>5 DEF UnreadInv
<1>4. ASSUME NEW j \in Jobs, SpawnFails(j) \/ SubmitUnread(j)
      PROVE  UnreadInv'
  <2>1. RecordsFailure(j)
    BY <1>4 DEF SpawnFails, SubmitUnread
  <2>2. ref[j] = 0 /\ [MetaOf(j) EXCEPT !.state = "failed"].ref = ref[j]
    BY <2>1 DEF RecordsFailure, CallInv, MetaOf
  <2>3. /\ UNCHANGED <<ref, watchdog>> /\ call'.at = "none"
        /\ disk' = [disk EXCEPT ![j] = [MetaOf(j) EXCEPT !.state = "failed"]]
    BY <2>1 DEF RecordsFailure, NoCall
  <2>4. \A i \in Jobs : disk'[i].ref \in {0, disk[i].ref}
    BY <2>2, <2>3 DEF TypeOK
  <2>5. CASE SpawnFails(j)
    BY <1>0, <2>3, <2>4, <2>5, NamesKept DEF SpawnFails
  <2>6. CASE SubmitUnread(j)
    <3>1. PICK a \in Attempts : /\ Unused(j, a) /\ KindOf[j] = "slurm"
                                /\ proc' = [proc EXCEPT ![j][a] = "alive"]
                                /\ unread' = unread \cup {<<j, a>>}
      BY <2>6 DEF SubmitUnread
    <3>2. /\ proc'[j][a] = "alive"
          /\ \A i \in Jobs, b \in Attempts :
               proc'[i][b] = proc[i][b] \/ proc'[i][b] = "alive"
      BY <3>1 DEF TypeOK
    <3>3. \A i \in Jobs, b \in Attempts : Names(i, b)' => Names(i, b)
      BY <1>0, <2>3, <2>4
    <3>4. ~Names(j, a)'
      BY <3>1, <3>3 DEF Unused, UnreadInv
    <3>5. ASSUME NEW i \in Jobs, NEW b \in Attempts
          PROVE  /\ Names(i, b)' => /\ proc'[i][b] # "none"
                                    /\ <<i, b>> \notin unread'
                 /\ <<i, b>> \in unread' =>
                      proc'[i][b] # "none" /\ KindOf[i] = "slurm"
      <4> HIDE DEF Names
      <4>1. CASE <<i, b>> = <<j, a>>
        BY <3>1, <3>2, <3>4, <4>1
      <4>2. CASE <<i, b>> # <<j, a>>
        BY <3>1, <3>2, <3>3, <4>2 DEF UnreadInv
      <4> QED  BY <4>1, <4>2
    <3> QED
      <4> HIDE DEF Names
      <4> QED  BY <3>5 DEF UnreadInv
  <2> QED  BY <1>4, <2>5, <2>6
<1>5. ASSUME NEW j \in Jobs, Commits(j) PROVE UnreadInv'
  <2>1. InHand(j, call.attempt)
    BY <1>5 DEF Commits
  <2>2. \A m \in Meta :
          [m EXCEPT !.ref = call.attempt, !.node = call.node].ref
            = call.attempt
    BY DEF Meta
  <2>3. disk'[j].ref = call.attempt /\ ref'[j] = call.attempt
    BY <1>5, <2>2, MetaOfType DEF Commits, TypeOK
  <2>4. /\ \A i \in Jobs : i # j => disk'[i] = disk[i] /\ ref'[i] = ref[i]
        /\ call'.at = "none" /\ UNCHANGED <<proc, watchdog, unread>>
    BY <1>5 DEF Commits, NoCall, TypeOK
  <2> QED  BY <2>1, <2>3, <2>4, NamesKept
<1>6. ASSUME NEW j \in Jobs, WatchRunning(j) PROVE UnreadInv'
  <2>1. /\ \A i \in Jobs : disk'[i].ref \in {ref[i], disk[i].ref}
        /\ UNCHANGED <<ref, proc, call, watchdog, unread>>
    BY <1>6 DEF WatchRunning, MetaOf, TypeOK
  <2> QED  BY <2>1, NamesKept
<1>7. ASSUME NEW j \in Jobs, DeleteReturns(j) PROVE UnreadInv'
  <2>1. /\ \A i \in Jobs : disk'[i].ref \in {0, disk[i].ref}
        /\ UNCHANGED <<ref, proc, call, watchdog, unread>>
    BY <1>7 DEF DeleteReturns, Missing, TypeOK
  <2> QED  BY <1>0, <2>1, NamesKept
<1>8. ASSUME NEW j \in Jobs, Finalise(j) PROVE UnreadInv'
  <2>1. PICK s \in Outcomes(j) :
          watchdog' = [at |-> "final", job |-> j,
                       meta |-> [MetaOf(j) EXCEPT !.state = s]]
    BY <1>8 DEF Finalise
  <2>2. [MetaOf(j) EXCEPT !.state = s].ref = ref[j]
    BY DEF MetaOf
  <2>3. \A i \in Jobs : SavedRef(i)' \in {0, ref[i]}
    BY <2>1, <2>2
  <2>4. UNCHANGED <<ref, disk, proc, call, unread>>
    BY <1>8 DEF Finalise
  <2>5. \A i \in Jobs, a \in Attempts : Names(i, a)' => Names(i, a)
    <3> HIDE DEF SavedRef
    <3> QED  BY <1>0, <2>3, <2>4
  <2> QED  BY <2>4, <2>5, NamesKept
<1>9. ASSUME NEW j \in Jobs, Serialise(j) PROVE UnreadInv'
  <2>1. SavedRef(j)' \in {SavedRef(j), ref[j]}
    BY <1>9 DEF Serialise, MetaOf, TypeOK, Watch
  <2>2. \A i \in Jobs : i # j => SavedRef(i)' = 0
    BY <1>9 DEF Serialise, TypeOK, Watch
  <2>3. UNCHANGED <<ref, disk, proc, call, unread>>
    BY <1>9 DEF Serialise
  <2> QED  BY <1>0, <2>1, <2>2, <2>3, NamesKept
<1>10. ASSUME NEW j \in Jobs, Save(j) PROVE UnreadInv'
  <2>1. /\ \A i \in Jobs : disk'[i].ref \in {SavedRef(i), disk[i].ref}
        /\ \A i \in Jobs : SavedRef(i)' = 0
        /\ UNCHANGED <<ref, proc, call, unread>>
    BY <1>10 DEF Save, Idle, TypeOK
  <2> QED  BY <1>0, <2>1, NamesKept
<1>11. ASSUME NEW j \in Jobs, Stop(j) \/ AttemptEnds(j) PROVE UnreadInv'
  <2>1. UNCHANGED <<ref, disk, call, watchdog, unread>>
    BY <1>11 DEF Stop, AttemptEnds
  <2>2. \A i \in Jobs, a \in Attempts :
          proc[i][a] # "none" => proc'[i][a] # "none"
    BY <1>11 DEF Stop, AttemptEnds, TypeOK
  <2> QED  BY <2>1, <2>2, NamesKept
<1>12. ASSUME NEW j \in Jobs, NoticeExit(j) PROVE UnreadInv'
  <2>1. /\ \A i \in Jobs : SavedRef(i)' = 0
        /\ UNCHANGED <<ref, disk, proc, call, unread>>
    BY <1>12 DEF NoticeExit, Idle
  <2> QED  BY <1>0, <2>1, NamesKept
<1>13. ASSUME Restart PROVE UnreadInv'
  <2>1. \A j \in Jobs : ref'[j] = disk[j].ref /\ disk'[j].ref = disk[j].ref
    BY <1>13 DEF Restart, TypeOK, Meta
  <2>2. /\ \A j \in Jobs : SavedRef(j)' = 0
        /\ call'.at = "none" /\ UNCHANGED <<proc, unread>>
    BY <1>13 DEF Restart, Idle, NoCall
  <2> QED  BY <1>0, <2>1, <2>2, NamesKept
<1>14. CASE UNCHANGED vars
  BY <1>14, NamesKept DEF vars
<1> QED
  BY <1>1, <1>2, <1>3, <1>4, <1>5, <1>6, <1>7, <1>8, <1>9, <1>10, <1>11,
     <1>12, <1>13, <1>14 DEF Next, Handler, Server, Watchdog

IInv == /\ TypeOK /\ CallInv /\ RunInv /\ DeleteInv
        /\ WatchInv /\ OwnedInv /\ UnreadInv

(* The inductive invariant holds under Calm.                                 *)
LEMMA IInvHolds == ASSUME Calm PROVE Spec => []IInv
<1>1. Init => IInv
  BY InitTypeOK DEF Init, IInv, CallInv, RunInv, DeleteInv, WatchInv,
     OwnedInv, UnreadInv, Names, SavedRef, InHand, Missing, Attempts, NoCall,
     Idle
<1>2. IInv /\ [Next]_vars => IInv'
  BY NextTypeOK, NextCallInv, NextRunInv, NextDeleteInv, NextWatchInv,
     NextOwnedInv, NextUnreadInv DEF IInv, WatchInv, ExitInv
<1>3. QED BY <1>1, <1>2, PTL DEF Spec

(* Nothing trains unseen: whatever is alive is named by a running record, or *)
(* is a Slurm job whose id could not be read when it was submitted.          *)
THEOREM LiveAttemptsOwned == ASSUME Calm PROVE Spec => []LiveAttemptOwned
<1>1. IInv => LiveAttemptOwned
  BY DEF IInv, OwnedInv, UnreadInv, Named, LiveAttemptOwned
<1>2. QED BY <1>1, IInvHolds, PTL

-----------------------------------------------------------------------------
(* At most one running record is local: start looks at the records under the *)
(* lock, and what a restart takes up again was running before (OwnedInv).    *)
OneLocalInv ==
  \A i, j \in Jobs :
    ( /\ KindOf[i] = "local" /\ state[i] = "running"
      /\ KindOf[j] = "local" /\ state[j] = "running" ) => i = j

(* Whatever is alive at a restart is named by a running job.json, if a local *)
(* job's or a record's.                                                      *)
LEMMA RestartFindsRunning ==
  ASSUME Calm, IInv, Restart, NEW j \in Jobs, NEW a \in Attempts,
         proc[j][a] = "alive", KindOf[j] = "local" \/ disk[j].ref = a
  PROVE  Named(j, a)
<1>1. call.at # "spawned"
  <2>1. Moment # "spawned"
    BY DEF Restart, Calm
  <2>2. call.at = "spawned" => Moment = "spawned"
    BY DEF Moment
  <2>3. QED BY <2>1, <2>2
<1>2. <<j, a>> \notin unread
  BY DEF IInv, UnreadInv, Names
<1>3. QED BY <1>1, <1>2 DEF IInv, OwnedInv, InHand

(* Neither a start nor a restart makes a second local job running.           *)
LEMMA NextOneLocalInv ==
  ASSUME Calm PROVE IInv /\ OneLocalInv /\ [Next]_vars => OneLocalInv'
<1> SUFFICES ASSUME IInv, OneLocalInv, [Next]_vars PROVE OneLocalInv'
  OBVIOUS
<1> USE DEF OneLocalInv, memory
<1>0. TypeOK /\ CallInv
  BY DEF IInv
<1>1. ASSUME NEW j \in Jobs, StartClaims(j) PROVE OneLocalInv'
  BY <1>0, <1>1 DEF StartClaims, TypeOK
<1>2. ASSUME NEW j \in Jobs, ResumeClaims(j) PROVE OneLocalInv'
  BY <1>0, <1>2 DEF ResumeClaims, TypeOK
<1>3. ASSUME NEW j \in Jobs, DeletePops(j) \/ RecordsFailure(j)
      PROVE OneLocalInv'
  BY <1>0, <1>3 DEF DeletePops, RecordsFailure, TypeOK
<1>4. ASSUME NEW j \in Jobs, Finalise(j) PROVE OneLocalInv'
  BY <1>0, <1>4 DEF Finalise, Outcomes, TypeOK
<1>5. ASSUME NEW j \in Jobs,
             Spawns(j) \/ Commits(j) \/ Stop(j) \/ DeleteReturns(j)
             \/ WatchRunning(j) \/ NoticeExit(j) \/ Serialise(j) \/ Save(j)
             \/ AttemptEnds(j)
      PROVE OneLocalInv'
  BY <1>5 DEF Spawns, Commits, Stop, DeleteReturns, WatchRunning, NoticeExit,
     Serialise, Save, AttemptEnds
<1>6. ASSUME Restart PROVE OneLocalInv'
  <2>1. ASSUME NEW j \in Jobs, KindOf[j] = "local", state'[j] = "running"
        PROVE state[j] = "running"
    <3>1. Reattached(j)
      BY <1>6, <2>1 DEF Restart, Loaded
    <3>2. /\ disk[j].ref \in Attempts
          /\ proc[j][disk[j].ref] = "alive"
      BY <1>0, <2>1, <3>1, RegistryAssumption
         DEF Reattached, Attempts, TypeOK, Meta
    <3>3. QED BY <1>6, <3>2, RestartFindsRunning DEF Named
  <2>2. QED BY <2>1
<1>7. CASE UNCHANGED vars
  BY <1>7 DEF vars
<1>8. QED
  BY <1>1, <1>2, <1>3, <1>4, <1>5, <1>6, <1>7
     DEF Next, Handler, Server, Watchdog, SpawnFails,
         SubmitUnread

(* Never two local trainings at a time, over any number of restarts.         *)
THEOREM LocalTrainingsExclusive ==
  ASSUME Calm PROVE Spec => []AtMostOneLocalTraining
<1>1. Init => OneLocalInv
  BY DEF Init, OneLocalInv
<1>2. IInv /\ OneLocalInv => AtMostOneLocalTraining
  <2> SUFFICES ASSUME IInv, OneLocalInv PROVE AtMostOneLocalTraining
    OBVIOUS
  <2>0. ASSUME NEW j \in Jobs, NEW a \in Attempts, KindOf[j] = "local"
        PROVE <<j, a>> \notin unread
    BY <2>0 DEF IInv, UnreadInv
  <2>1. ASSUME NEW j \in Jobs, NEW a \in Attempts, KindOf[j] = "local",
               proc[j][a] = "alive"
        PROVE state[j] = "running"
    BY <2>0, <2>1 DEF IInv, OwnedInv, CallInv, InHand, Named
  <2>2. ASSUME NEW j \in Jobs, NEW a \in Attempts, NEW b \in Attempts,
               KindOf[j] = "local", proc[j][a] = "alive", proc[j][b] = "alive"
        PROVE a = b
    <3>1. InHand(j, a) /\ Named(j, b) => FALSE
      BY RegistryAssumption DEF IInv, CallInv, InHand, Named, Attempts
    <3>2. InHand(j, b) /\ Named(j, a) => FALSE
      BY RegistryAssumption DEF IInv, CallInv, InHand, Named, Attempts
    <3>3. QED BY <2>0, <2>2, <3>1, <3>2 DEF IInv, OwnedInv, InHand, Named
  <2>3. QED BY <2>1, <2>2 DEF AtMostOneLocalTraining, OneLocalInv
<1>3. QED BY <1>1, <1>2, NextOneLocalInv, IInvHolds, PTL DEF Spec

-----------------------------------------------------------------------------
(* Slurm jobs that are alive have nodes of their own: the node a launch has  *)
(* chosen is none of the running jobs' (CallNodeInv), and job.json agrees    *)
(* with the record of a running job, whichever thread wrote it last.         *)
DiskInv == \A j \in Jobs : state[j] = "running" => disk[j] = MetaOf(j)

CallNodeInv ==
  call.at = "spawned" =>
    \/ call.node = NoNode
    \/ \A i \in Jobs : i # call.job /\ state[i] = "running" =>
         node[i] # call.node

LocalNodeInv ==
  /\ \A j \in Jobs : KindOf[j] = "local" /\ state[j] = "running" =>
       node[j] = NoNode
  /\ call.at = "spawned" /\ KindOf[call.job] = "local" => call.node = NoNode

(* Whichever thread writes job.json last, it agrees with a running record.   *)
LEMMA NextDiskInv == IInv /\ DiskInv /\ [Next]_vars => DiskInv'
<1> SUFFICES ASSUME IInv, DiskInv, [Next]_vars PROVE DiskInv'
  OBVIOUS
<1> USE DEF DiskInv, MetaOf, memory
<1>0. TypeOK /\ CallInv /\ WatchInv /\ DeleteInv
  BY DEF IInv
<1>1. ASSUME NEW j \in Jobs, StartClaims(j) \/ ResumeClaims(j) PROVE DiskInv'
  <2>1. /\ node' = [node EXCEPT ![j] = NoNode]
        /\ ref' = [ref EXCEPT ![j] = 0]
        /\ state' = [state EXCEPT ![j] = "running"]
        /\ disk' = [disk EXCEPT ![j] = [Missing EXCEPT !.state = "running"]]
    BY <1>1 DEF StartClaims, ResumeClaims
  <2> QED  BY <1>0, <2>1 DEF TypeOK, Missing
<1>2. ASSUME NEW j \in Jobs, DeletePops(j) \/ RecordsFailure(j) PROVE DiskInv'
  BY <1>0, <1>2 DEF DeletePops, RecordsFailure, TypeOK
<1>3. ASSUME NEW j \in Jobs, Finalise(j) PROVE DiskInv'
  BY <1>0, <1>3 DEF Finalise, Outcomes, TypeOK
<1>4. ASSUME NEW j \in Jobs, Commits(j) PROVE DiskInv'
  <2>1. disk'[j] = [state |-> state[j], ref |-> call.attempt,
                    node |-> call.node]
    BY <1>0, <1>4 DEF Commits, TypeOK
  <2>2. QED BY <1>0, <1>4, <2>1 DEF Commits, TypeOK
<1>5. ASSUME NEW j \in Jobs, WatchRunning(j) PROVE DiskInv'
  BY <1>0, <1>5 DEF WatchRunning, TypeOK
<1>6. ASSUME NEW j \in Jobs, DeleteReturns(j) PROVE DiskInv'
  BY <1>0, <1>6 DEF DeleteReturns, DeleteInv, TypeOK
<1>7. ASSUME NEW j \in Jobs, Save(j) PROVE DiskInv'
  BY <1>0, <1>7 DEF Save, WatchInv, TypeOK
<1>8. ASSUME NEW j \in Jobs,
             Spawns(j) \/ Stop(j) \/ NoticeExit(j) \/ Serialise(j)
             \/ AttemptEnds(j)
      PROVE DiskInv'
  BY <1>8 DEF Spawns, Stop, NoticeExit, Serialise, AttemptEnds
<1>9. ASSUME Restart PROVE DiskInv'
  BY <1>0, <1>9 DEF Restart, TypeOK, Meta
<1>10. CASE UNCHANGED vars
  BY <1>10 DEF vars
<1>11. QED
  BY <1>1, <1>2, <1>3, <1>4, <1>5, <1>6, <1>7, <1>8, <1>9, <1>10
     DEF Next, Handler, Server, Watchdog, SpawnFails,
         SubmitUnread

(* No other job becomes running on the node a launch has chosen.             *)
LEMMA NextNodeInv ==
  ASSUME Calm
  PROVE  IInv /\ DiskInv /\ CallNodeInv /\ LocalNodeInv /\ [Next]_vars
           => CallNodeInv' /\ LocalNodeInv'
<1> SUFFICES ASSUME IInv, DiskInv, CallNodeInv, LocalNodeInv, [Next]_vars
             PROVE CallNodeInv' /\ LocalNodeInv'
  OBVIOUS
<1> USE DEF CallNodeInv, LocalNodeInv, memory
<1>0. TypeOK /\ CallInv
  BY DEF IInv
<1>1. ASSUME NEW j \in Jobs, StartClaims(j) \/ ResumeClaims(j)
      PROVE CallNodeInv' /\ LocalNodeInv'
  <2>1. /\ node' = [node EXCEPT ![j] = NoNode]
        /\ state' = [state EXCEPT ![j] = "running"]
        /\ call'.at = "claimed"
    BY <1>1 DEF StartClaims, ResumeClaims, Claimed
  <2> QED  BY <1>0, <2>1 DEF TypeOK
<1>2. ASSUME NEW j \in Jobs, DeletePops(j) \/ Finalise(j)
      PROVE CallNodeInv' /\ LocalNodeInv'
  <2>1. /\ call' = call /\ call.at = "none"
        /\ \A i \in Jobs : state'[i] = "running" =>
             state[i] = "running" /\ node'[i] = node[i]
    BY <1>0, <1>2, CallFacts DEF DeletePops, Finalise, Outcomes, TypeOK
  <2>2. QED BY <2>1
<1>3. ASSUME NEW j \in Jobs, Spawns(j) PROVE CallNodeInv' /\ LocalNodeInv'
  <2>1. PICK a \in Attempts, n \in Nodes \cup {NoNode} :
          /\ IF KindOf[j] = "slurm" THEN n \in Nodes \ Reserved(j)
             ELSE n = NoNode
          /\ call' = [call EXCEPT !.at = "spawned", !.attempt = a, !.node = n]
    BY <1>3 DEF Spawns
  <2>2. call'.job = j /\ call'.node = n
    BY <1>0, <1>3, <2>1 DEF Spawns, TypeOK, Call
  <2>3. KindOf[j] \in {"local", "slurm"}
    BY RegistryAssumption
  <2>4. state' = state /\ node' = node
    BY <1>3 DEF Spawns
  <2>5. LocalNodeInv'
    BY <2>1, <2>2, <2>4
  <2>6. CASE KindOf[j] = "slurm"
    <3>1. n \in Nodes /\ n \notin Reserved(j)
      BY <2>1, <2>6
    <3>2. ASSUME NEW i \in Jobs, i # j, state[i] = "running"
          PROVE node[i] # n
      <4>1. CASE KindOf[i] = "slurm"
        BY <3>1, <3>2, <4>1 DEF Reserved
      <4>2. CASE KindOf[i] = "local"
        BY <3>1, <3>2, <4>2, RegistryAssumption
      <4>3. QED BY <4>1, <4>2, RegistryAssumption
    <3>3. QED BY <2>2, <2>4, <2>5, <3>2
  <2>7. CASE KindOf[j] = "local"
    BY <2>1, <2>2, <2>5, <2>7
  <2>8. QED BY <2>3, <2>6, <2>7
<1>4. ASSUME NEW j \in Jobs, RecordsFailure(j)
      PROVE CallNodeInv' /\ LocalNodeInv'
  BY <1>0, <1>4 DEF RecordsFailure, NoCall, TypeOK
<1>5. ASSUME NEW j \in Jobs, Commits(j) PROVE CallNodeInv' /\ LocalNodeInv'
  BY <1>0, <1>5 DEF Commits, NoCall, TypeOK
<1>6. ASSUME NEW j \in Jobs,
             Stop(j) \/ DeleteReturns(j) \/ WatchRunning(j) \/ NoticeExit(j)
             \/ Serialise(j) \/ Save(j) \/ AttemptEnds(j)
      PROVE CallNodeInv' /\ LocalNodeInv'
  BY <1>6 DEF Stop, DeleteReturns, WatchRunning, NoticeExit, Serialise, Save,
     AttemptEnds
<1>7. ASSUME Restart PROVE CallNodeInv' /\ LocalNodeInv'
  <2>1. ASSUME NEW j \in Jobs, KindOf[j] = "local", state'[j] = "running"
        PROVE node'[j] = NoNode
    <3>1. Reattached(j)
      BY <1>7, <2>1 DEF Restart, Loaded
    <3>2. /\ disk[j].ref \in Attempts
          /\ proc[j][disk[j].ref] = "alive"
      BY <1>0, <2>1, <3>1, RegistryAssumption
         DEF Reattached, Attempts, TypeOK, Meta
    <3>3. state[j] = "running"
      BY <1>7, <3>2, RestartFindsRunning DEF Named
    <3>4. disk[j].node = node[j]
      <4>1. disk[j] = MetaOf(j)
        BY <3>3 DEF DiskInv
      <4>2. MetaOf(j).node = node[j]
        BY DEF MetaOf
      <4>3. QED BY <4>1, <4>2
    <3>5. QED BY <1>7, <2>1, <3>3, <3>4 DEF Restart
  <2>2. call'.at = "none"
    BY <1>7 DEF Restart, NoCall
  <2>3. QED BY <2>1, <2>2
<1>8. CASE UNCHANGED vars
  BY <1>8 DEF vars
<1>9. QED
  BY <1>1, <1>2, <1>3, <1>4, <1>5, <1>6, <1>7, <1>8
     DEF Next, Handler, Server, Watchdog, SpawnFails,
         SubmitUnread

NInv == IInv /\ DiskInv /\ CallNodeInv /\ LocalNodeInv /\ OneJobPerNode

(* A job that is alive by its record, and where it was sent.                 *)
LiveOn(j, n) ==
  ref[j] # 0 /\ proc[j][ref[j]] = "alive" /\ node[j] = n

(* A job that is alive by its record is running by it.                       *)
LEMMA LiveJobsRun ==
  ASSUME IInv, NEW j \in Jobs, NEW n, LiveOn(j, n)
  PROVE  state[j] = "running" /\ ref[j] \in Attempts
<1>1. ref[j] \in Attempts
  BY RegistryAssumption DEF LiveOn, Attempts, IInv, TypeOK
<1>2. ~InHand(j, ref[j])
  BY DEF LiveOn, InHand, IInv, CallInv
<1>3. <<j, ref[j]>> \notin unread
  BY <1>1 DEF IInv, UnreadInv, Names
<1>4. QED BY <1>1, <1>2, <1>3 DEF LiveOn, IInv, OwnedInv, Named

(* A step that makes no job live on a node it was not live on.               *)
LEMMA NodesKept ==
  ASSUME OneJobPerNode,
         \A j \in Jobs : LiveOn(j, node[j])' => LiveOn(j, node'[j])
  PROVE  OneJobPerNode'
BY DEF OneJobPerNode, LiveOn

(* No step puts two live jobs on one node.                                   *)
LEMMA NextOneJobPerNode ==
  ASSUME Calm PROVE NInv /\ [Next]_vars => OneJobPerNode'
<1> SUFFICES ASSUME NInv, [Next]_vars PROVE OneJobPerNode'
  OBVIOUS
<1> USE DEF LiveOn, memory
<1>0. TypeOK /\ CallInv /\ IInv /\ DiskInv /\ OneJobPerNode
  BY DEF NInv, IInv
<1>1. ASSUME NEW j \in Jobs,
             StartClaims(j) \/ ResumeClaims(j) \/ DeletePops(j)
      PROVE OneJobPerNode'
  BY <1>0, <1>1, NodesKept DEF StartClaims, ResumeClaims, DeletePops, TypeOK
<1>2. ASSUME NEW j \in Jobs, Spawns(j) PROVE OneJobPerNode'
  <2>1. PICK a \in Attempts : proc' = [proc EXCEPT ![j][a] = "alive"]
    BY <1>2 DEF Spawns
  <2>2. ref[j] = 0 /\ ref' = ref /\ node' = node
    BY <1>0, <1>2 DEF Spawns, CallInv
  <2>3. \A i \in Jobs : i # j => proc'[i] = proc[i]
    BY <1>0, <2>1 DEF TypeOK
  <2>4. QED BY <1>0, <2>2, <2>3, NodesKept
<1>3. ASSUME NEW j \in Jobs, Commits(j) PROVE OneJobPerNode'
  <2>1. /\ proc' = proc
        /\ \A i \in Jobs : i # j => ref'[i] = ref[i] /\ node'[i] = node[i]
        /\ node'[j] = call.node /\ call.job = j /\ call.at = "spawned"
    BY <1>0, <1>3 DEF Commits, TypeOK
  <2>2. ASSUME NEW i \in Jobs, i # j, LiveOn(i, node[i])
        PROVE node[i] # call.node \/ call.node = NoNode
    BY <1>0, <2>1, <2>2, LiveJobsRun DEF NInv, CallNodeInv
  <2>3. QED BY <1>0, <2>1, <2>2 DEF OneJobPerNode
<1>4. ASSUME NEW j \in Jobs, Stop(j) \/ AttemptEnds(j) PROVE OneJobPerNode'
  <2>1. ref' = ref /\ node' = node
    BY <1>4 DEF Stop, AttemptEnds
  <2>2. \A i \in Jobs : ref[i] # 0 => ref[i] \in Attempts
    BY <1>0, RegistryAssumption DEF TypeOK, Attempts
  <2>3. QED BY <1>0, <1>4, <2>1, <2>2, NothingRevives, NodesKept
<1>5. ASSUME NEW j \in Jobs,
             SpawnFails(j) \/ DeleteReturns(j) \/ WatchRunning(j)
             \/ NoticeExit(j) \/ Finalise(j) \/ Serialise(j) \/ Save(j)
      PROVE OneJobPerNode'
  <2>1. UNCHANGED <<ref, node, proc>>
    BY <1>5 DEF SpawnFails, RecordsFailure, DeleteReturns, WatchRunning,
       NoticeExit, Finalise, Serialise, Save
  <2>2. QED BY <1>0, <2>1, NodesKept
<1>8. ASSUME NEW j \in Jobs, SubmitUnread(j) PROVE OneJobPerNode'
  <2>1. PICK a \in Attempts : proc' = [proc EXCEPT ![j][a] = "alive"]
    BY <1>8 DEF SubmitUnread
  <2>2. ref[j] = 0 /\ ref' = ref /\ node' = node
    BY <1>0, <1>8 DEF SubmitUnread, RecordsFailure, CallInv
  <2>3. \A i \in Jobs : i # j => proc'[i] = proc[i]
    BY <1>0, <2>1 DEF TypeOK
  <2>4. QED BY <1>0, <2>2, <2>3, NodesKept
<1>6. ASSUME Restart PROVE OneJobPerNode'
  <2>1. ASSUME NEW j \in Jobs, LiveOn(j, node[j])'
        PROVE LiveOn(j, node'[j])
    <3>1. /\ ref'[j] = disk[j].ref /\ node'[j] = disk[j].node
          /\ proc' = proc
      BY <1>6 DEF Restart
    <3>2. ref'[j] \in Attempts /\ proc[j][ref'[j]] = "alive"
      BY <1>0, <2>1, <3>1, RegistryAssumption DEF TypeOK, Meta, Attempts
    <3>3. state[j] = "running" /\ ref[j] = ref'[j]
      BY <1>0, <1>6, <3>1, <3>2, RestartFindsRunning DEF Named
    <3>4. disk[j] = MetaOf(j)
      BY <1>0, <3>3 DEF DiskInv
    <3>5. MetaOf(j).node = node[j]
      BY DEF MetaOf
    <3>6. QED BY <2>1, <3>1, <3>2, <3>3, <3>4, <3>5
  <2>2. QED BY <1>0, <2>1, NodesKept
<1>7. CASE UNCHANGED vars
  BY <1>0, <1>7, NodesKept DEF vars
<1>9. QED
  BY <1>1, <1>2, <1>3, <1>4, <1>5, <1>6, <1>7, <1>8
     DEF Next, Handler, Server, Watchdog

(* Slurm jobs that are alive at the same time were sent to different nodes.  *)
THEOREM NodesExclusive == ASSUME Calm PROVE Spec => []OneJobPerNode
<1>1. Init => DiskInv /\ CallNodeInv /\ LocalNodeInv /\ OneJobPerNode
  BY DEF Init, DiskInv, CallNodeInv, LocalNodeInv, OneJobPerNode, NoCall
<1>2. NInv /\ [Next]_vars => DiskInv' /\ CallNodeInv' /\ LocalNodeInv'
  BY NextDiskInv, NextNodeInv DEF NInv
<1>3. NInv /\ [Next]_vars => OneJobPerNode'
  BY NextOneJobPerNode
<1>4. Spec => []IInv
  BY IInvHolds
<1>5. QED BY <1>1, <1>2, <1>3, <1>4, PTL DEF Spec, NInv

-----------------------------------------------------------------------------
(* No listed job is lost, with outages and prompt resumes as well.           *)

(* What a restart would read of a listed job is a record, and so is whatever *)
(* the watchdog is about to save.                                            *)
ListedInv ==
  /\ \A j \in Jobs : state[j] # "absent" => disk[j].state # "absent"
  /\ watchdog.at \in {"final", "saving"} => watchdog.meta.state # "absent"

(* Each writer of job.json writes a record of the state the job has by then, *)
(* and only a job that is not listed loses its directory.                    *)
LEMMA NextListedInv ==
  TypeOK /\ ExitInv /\ DeleteInv /\ ListedInv /\ [Next]_vars => ListedInv'
<1> SUFFICES ASSUME TypeOK, ExitInv, DeleteInv, ListedInv, [Next]_vars
             PROVE  ListedInv'
  OBVIOUS
<1> USE DEF ListedInv, memory
<1>1. ASSUME NEW j \in Jobs, StartClaims(j) \/ ResumeClaims(j)
      PROVE ListedInv'
  <2>1. [Missing EXCEPT !.state = "running"].state = "running"
    BY DEF Missing
  <2> QED  BY <1>1, <2>1 DEF StartClaims, ResumeClaims, TypeOK
<1>2. ASSUME NEW j \in Jobs, RecordsFailure(j) PROVE ListedInv'
  <2>1. [MetaOf(j) EXCEPT !.state = "failed"].state = "failed"
    BY DEF MetaOf
  <2> QED  BY <1>2, <2>1 DEF RecordsFailure, TypeOK
<1>3. ASSUME NEW j \in Jobs, Commits(j) PROVE ListedInv'
  <2>1. [MetaOf(j) EXCEPT !.ref = call.attempt, !.node = call.node].state
          = state[j]
    BY DEF MetaOf
  <2> QED  BY <1>3, <2>1 DEF Commits, TypeOK
<1>4. ASSUME NEW j \in Jobs, DeletePops(j) PROVE ListedInv'
  <2>1. MetaOf(j).state \in Terminal
    BY <1>4 DEF DeletePops, MetaOf
  <2>2. watchdog'.at \in {"final", "saving"} => watchdog'.meta.state # "absent"
    BY <1>4, <2>1 DEF DeletePops, Terminal, TypeOK, Watch
  <2> QED  BY <1>4, <2>2 DEF DeletePops, TypeOK
<1>5. ASSUME NEW j \in Jobs, DeleteReturns(j) PROVE ListedInv'
  BY <1>5 DEF DeleteReturns, DeleteInv, TypeOK
<1>6. ASSUME NEW j \in Jobs, WatchRunning(j) PROVE ListedInv'
  BY <1>6 DEF WatchRunning, MetaOf, TypeOK
<1>7. ASSUME NEW j \in Jobs, NoticeExit(j) PROVE ListedInv'
  BY <1>7 DEF NoticeExit, Idle
<1>8. ASSUME NEW j \in Jobs, Finalise(j) PROVE ListedInv'
  <2>1. PICK s \in Outcomes(j) :
          /\ state' = [state EXCEPT ![j] = s]
          /\ watchdog' = [at |-> "final", job |-> j,
                          meta |-> [MetaOf(j) EXCEPT !.state = s]]
    BY <1>8 DEF Finalise
  <2>2. s # "absent" /\ [MetaOf(j) EXCEPT !.state = s].state = s
    BY DEF Outcomes, MetaOf
  <2>3. disk[j].state # "absent"
    BY <1>8 DEF Finalise, ExitInv
  <2> QED  BY <1>8, <2>1, <2>2, <2>3 DEF Finalise, TypeOK
<1>9. ASSUME NEW j \in Jobs, Serialise(j) PROVE ListedInv'
  BY <1>9 DEF Serialise, MetaOf, TypeOK, Watch
<1>10. ASSUME NEW j \in Jobs, Save(j) PROVE ListedInv'
  BY <1>10 DEF Save, Idle, TypeOK
<1>11. ASSUME NEW j \in Jobs, Spawns(j) \/ Stop(j) \/ AttemptEnds(j)
       PROVE ListedInv'
  BY <1>11 DEF Spawns, Stop, AttemptEnds
<1>12. ASSUME Restart PROVE ListedInv'
  <2>1. \A j \in Jobs : disk'[j].state = Loaded(j) /\ state'[j] = Loaded(j)
    BY <1>12 DEF Restart, TypeOK, Meta
  <2> QED  BY <1>12, <2>1 DEF Restart, Idle
<1>13. CASE UNCHANGED vars
  BY <1>13 DEF vars
<1> QED
  BY <1>1, <1>2, <1>3, <1>4, <1>5, <1>6, <1>7, <1>8, <1>9, <1>10, <1>11,
     <1>12, <1>13 DEF Next, Handler, Server, Watchdog, SpawnFails,
     SubmitUnread

(* A listed job leaves the list only through a deletion: every handler keeps *)
(* its record, and a restart finds it again.                                 *)
LEMMA NoStepForgets ==
  TypeOK /\ ListedInv /\ [Next]_vars
    => [\A j \in Jobs : (LockFree /\ state[j] # "absent")
          => state'[j] # "absent" \/ j \in removing']_vars
<1> SUFFICES ASSUME TypeOK, ListedInv, Next, NEW j \in Jobs,
                    state[j] # "absent"
             PROVE  state'[j] # "absent" \/ j \in removing'
  OBVIOUS
<1> USE DEF TypeOK, memory
<1>1. ASSUME NEW i \in Jobs,
             \/ StartClaims(i) \/ ResumeClaims(i) \/ RecordsFailure(i)
             \/ DeletePops(i)
      PROVE  state'[j] # "absent" \/ j \in removing'
  BY <1>1 DEF StartClaims, ResumeClaims, RecordsFailure, DeletePops
<1>2. ASSUME NEW i \in Jobs, Finalise(i)
      PROVE  state'[j] # "absent"
  BY <1>2 DEF Finalise, Outcomes
<1>3. ASSUME NEW i \in Jobs,
             \/ Spawns(i) \/ Commits(i) \/ Stop(i) \/ DeleteReturns(i)
             \/ WatchRunning(i) \/ NoticeExit(i) \/ Serialise(i) \/ Save(i)
             \/ AttemptEnds(i)
      PROVE  state' = state
  BY <1>3 DEF Spawns, Commits, Stop, DeleteReturns, WatchRunning, NoticeExit,
     Serialise, Save, AttemptEnds
<1>4. ASSUME Restart PROVE state'[j] # "absent"
  BY <1>4 DEF Restart, ListedInv, Loaded
<1> QED
  BY <1>1, <1>2, <1>3, <1>4 DEF Next, Handler, Server, Watchdog, SpawnFails,
         SubmitUnread

(* A job whose start has returned stays listed until it is deleted, whatever *)
(* outages, restarts, resumes and failures come.                             *)
THEOREM JobsNotLost == Spec => JobsStayListed
<1>1. Init => CallInv /\ ExitInv /\ DeleteInv /\ ListedInv
  BY DEF Init, CallInv, ExitInv, DeleteInv, ListedInv, NoCall, Idle
<1>2. TypeOK /\ CallInv /\ ExitInv /\ DeleteInv /\ ListedInv /\ [Next]_vars
        => CallInv' /\ ExitInv' /\ DeleteInv' /\ ListedInv'
  BY NextCallInv, NextExitInv, NextDeleteInv, NextListedInv
<1> QED
  BY <1>1, <1>2, TypeCorrect, NoStepForgets, PTL DEF Spec, JobsStayListed

=============================================================================
