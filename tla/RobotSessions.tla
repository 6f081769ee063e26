---------------------------- MODULE RobotSessions ----------------------------
(***************************************************************************)
(* Who drives the robot: teleoperation (lelab/teleoperate.py), recording   *)
(* (lelab/record.py) and rollout (lelab/rollout.py).  Each is a module with*)
(* an active flag, a lock of its own around the start path, and one worker *)
(* thread or subprocess; the start handlers look at each other's flags.    *)
(* All of them open the serial bus of the follower arm.                    *)
(*                                                                         *)
(* A client is a browser tab or script with at most one request in flight; *)
(* the server runs every request in a thread of its pool, so req[c] is     *)
(* also the position of that thread.  A session is one claimed start.      *)
(***************************************************************************)
EXTENDS Integers, Sequences, FiniteSets

CONSTANTS
  Clients, NoClient,
  MaxSessions,  \* bound: sessions claimed altogether
  Groups,       \* who takes part, with a bound on the sessions they claim
  SlowWorkers   \* whether a teleoperation worker may outlast the join of stop

ASSUME SessionsAssumption ==
  /\ IsFiniteSet(Clients) /\ NoClient \notin Clients
  /\ MaxSessions \in Nat \ {0}
  /\ Groups \subseteq [clients : SUBSET Clients, sessions : 0..MaxSessions]
  /\ SlowWorkers \in BOOLEAN

VARIABLES
  flag,      \* teleoperation_active, recording_active, inference_active
  guard,     \* guard[m]: the client whose start holds m's _state_lock
  req,       \* req[c]: the request of c in progress
  kind,      \* kind[s]: the mode of session s
  life,      \* life[s]: how far session s is
  thread,    \* teleoperation_thread: its session, or 0 for None
  proc,      \* _inference_proc: its session, or 0 for None
  events,    \* recording_events: the session it was made for, or 0 for None
  stopAsked, \* the sessions whose events say stop_recording
  watching,  \* whether an inference page is open
  group      \* who takes part in this behaviour

server == <<flag, guard, req, kind, life, thread, proc, events, stopAsked>>
vars == <<server, watching, group>>

Modes == {"teleop", "record", "rollout"}
Sessions == 1..MaxSessions

(* unused, starting (claimed, nothing opened), open (the request thread has  *)
(* opened the bus), preparing (worker or process runs, bus not opened yet),  *)
(* driving, closing (still open), closed (bus released, flag not cleared     *)
(* yet), gone.                                                               *)
Life == {"unused", "starting", "open", "preparing", "driving", "closing",
         "closed", "gone"}
OnBus == {s \in Sessions : life[s] \in {"open", "driving", "closing"}}

NoRequest == [op |-> "none", mode |-> "teleop", at |-> "idle",
              unread |-> <<>>, of |-> 0]

(* The order in which the start handler of a mode reads the three flags.     *)
ReadOrder == [teleop  |-> <<"teleop", "record", "rollout">>,
              record  |-> <<"record", "teleop", "rollout">>,
              rollout |-> <<"teleop", "record", "rollout">>]

Init ==
  /\ flag = [m \in Modes |-> FALSE]
  /\ guard = [m \in Modes |-> NoClient]
  /\ req = [c \in Clients |-> NoRequest]
  /\ kind = [s \in Sessions |-> "teleop"]
  /\ life = [s \in Sessions |-> "unused"]
  /\ thread = 0 /\ proc = 0 /\ events = 0
  /\ stopAsked = {}
  /\ watching = FALSE
  /\ group \in Groups

Idle(c) == req[c] = NoRequest
At(c, op, mode, at) ==
  req[c].op = op /\ req[c].mode = mode /\ req[c].at = at
GoesTo(c, at) == req' = [req EXCEPT ![c].at = at]
Replies(c) == req' = [req EXCEPT ![c] = NoRequest]
Becomes(s, l) == life' = [life EXCEPT ![s] = l]

-----------------------------------------------------------------------------
(* The start handlers: under the lock of the mode, three flags are read one  *)
(* after the other, then the mode's own is set.                              *)

StartRequest(c) ==
  /\ Idle(c)
  /\ \E m \in Modes :
       req' = [req EXCEPT ![c] = [NoRequest EXCEPT
                 !.op = "start", !.mode = m, !.at = "lock"]]
  /\ UNCHANGED <<flag, guard, kind, life, thread, proc, events, stopAsked>>

(* Mutant: the flags are read without the lock.                              *)
TakeLockAnyway(c) ==
  LET m == req[c].mode IN
  /\ req[c].op = "start" /\ req[c].at = "lock"
  /\ guard' = [guard EXCEPT ![m] = c]
  /\ req' = [req EXCEPT ![c].at = "check", ![c].unread = ReadOrder[m]]
  /\ UNCHANGED <<flag, kind, life, thread, proc, events, stopAsked>>

TakeLock(c) ==
  LET m == req[c].mode IN
  /\ req[c].op = "start" /\ req[c].at = "lock"
  /\ guard[m] = NoClient
  /\ guard' = [guard EXCEPT ![m] = c]
  /\ req' = [req EXCEPT ![c].at = "check", ![c].unread = ReadOrder[m]]
  /\ UNCHANGED <<flag, kind, life, thread, proc, events, stopAsked>>

ReadFlag(c) ==
  /\ req[c].at = "check" /\ req[c].unread # <<>>
  /\ ~flag[Head(req[c].unread)]
  /\ req' = [req EXCEPT ![c].unread = Tail(@)]
  /\ UNCHANGED <<flag, guard, kind, life, thread, proc, events, stopAsked>>

(* "... is currently active. Stop it first."                                 *)
Refuse(c) ==
  /\ req[c].at = "check" /\ req[c].unread # <<>>
  /\ flag[Head(req[c].unread)]
  /\ Replies(c)
  /\ guard' = [guard EXCEPT ![req[c].mode] = NoClient]
  /\ UNCHANGED <<flag, kind, life, thread, proc, events, stopAsked>>

(* The flag is set and the lock released; a recording also resets its state. *)
Claim(c) ==
  LET m == req[c].mode IN
  /\ req[c].at = "check" /\ req[c].unread = <<>>
  /\ flag' = [flag EXCEPT ![m] = TRUE]
  /\ guard' = [guard EXCEPT ![m] = NoClient]
  /\ \E s \in 1..group.sessions :
       /\ life[s] = "unused"
       /\ \A r \in 1..(s - 1) : life[r] # "unused"
       /\ Becomes(s, "starting")
       /\ kind' = [kind EXCEPT ![s] = m]
       /\ req' = [req EXCEPT ![c].at = "launch", ![c].of = s]
  /\ events' = IF m = "record" THEN 0 ELSE events
  /\ UNCHANGED <<thread, proc, stopAsked>>

(* Mutant: a start that fails leaves the flag set.                           *)
StartFailsFlagged(c) ==
  LET m == req[c].mode IN
  /\ req[c].op = "start" /\ req[c].at \in {"launch", "spawn"}
  /\ m = "rollout" => guard["rollout"] = NoClient
  /\ Becomes(req[c].of, "gone")
  /\ Replies(c)
  /\ UNCHANGED <<flag, guard, kind, thread, proc, events, stopAsked>>

(* An exception before the worker or the process runs: what was opened is    *)
(* closed again and the flag is cleared.                                     *)
StartFails(c) ==
  LET m == req[c].mode IN
  /\ req[c].op = "start" /\ req[c].at \in {"launch", "spawn"}
  /\ m = "rollout" => guard["rollout"] = NoClient
  /\ Becomes(req[c].of, "gone")
  /\ flag' = [flag EXCEPT ![m] = FALSE]
  /\ Replies(c)
  /\ UNCHANGED <<guard, kind, thread, proc, events, stopAsked>>

(* teleoperate: both arms are connected by the request thread ...            *)
ConnectArms(c) ==
  /\ At(c, "start", "teleop", "launch")
  /\ Becomes(req[c].of, "open")
  /\ GoesTo(c, "spawn")
  /\ UNCHANGED <<flag, guard, kind, thread, proc, events, stopAsked>>

(* ... and handed to the worker.                                             *)
SpawnTeleop(c) ==
  /\ At(c, "start", "teleop", "spawn")
  /\ Becomes(req[c].of, "driving")
  /\ thread' = req[c].of
  /\ Replies(c)
  /\ UNCHANGED <<flag, guard, kind, proc, events, stopAsked>>

(* record: the worker connects later.                                        *)
SpawnRecorder(c) ==
  /\ At(c, "start", "record", "launch")
  /\ Becomes(req[c].of, "preparing")
  /\ events' = req[c].of
  /\ Replies(c)
  /\ UNCHANGED <<flag, guard, kind, thread, proc, stopAsked>>

(* rollout: Popen, and then, under the lock again, the globals.              *)
SpawnRollout(c) ==
  /\ At(c, "start", "rollout", "launch")
  /\ Becomes(req[c].of, "preparing")
  /\ GoesTo(c, "publish")
  /\ UNCHANGED <<flag, guard, kind, thread, proc, events, stopAsked>>

PublishRollout(c) ==
  /\ At(c, "start", "rollout", "publish")
  /\ guard["rollout"] = NoClient
  /\ proc' = req[c].of
  /\ Replies(c)
  /\ UNCHANGED <<flag, guard, kind, life, thread, events, stopAsked>>

-----------------------------------------------------------------------------
(* The stop handlers.                                                        *)

Stops(c, m, at, s) ==
  /\ Idle(c)
  /\ flag[m]
  /\ req' = [req EXCEPT ![c] = [NoRequest EXCEPT
               !.op = "stop", !.mode = m, !.at = at, !.of = s]]

(* teleoperate: the flag is cleared first, without the lock, and then the    *)
(* worker of the moment is joined for five seconds.                          *)
StopTeleop(c) ==
  /\ Stops(c, "teleop", "join", thread)
  /\ flag' = [flag EXCEPT !["teleop"] = FALSE]
  /\ UNCHANGED <<guard, kind, life, thread, proc, events, stopAsked>>

(* Mutant: stop replies without joining the worker.                          *)
NoJoin(c) ==
  /\ At(c, "stop", "teleop", "join")
  /\ thread' = 0
  /\ Replies(c)
  /\ UNCHANGED <<flag, guard, kind, life, proc, events, stopAsked>>

JoinEnds(c) ==
  /\ At(c, "stop", "teleop", "join")
  /\ req[c].of # 0 => life[req[c].of] = "gone" \/ SlowWorkers
  /\ thread' = 0
  /\ Replies(c)
  /\ UNCHANGED <<flag, guard, kind, life, proc, events, stopAsked>>

(* record: the events are checked and then set; nobody waits.                *)
StopRecording(c) ==
  /\ Stops(c, "record", "ask", 0)
  /\ events # 0
  /\ UNCHANGED <<flag, guard, kind, life, thread, proc, events, stopAsked>>

AskRecorder(c) ==
  /\ At(c, "stop", "record", "ask")
  /\ stopAsked' = stopAsked \cup ({events} \ {0})
  /\ Replies(c)
  /\ UNCHANGED <<flag, guard, kind, life, thread, proc, events>>

(* rollout: the process is read under the lock, ended without it, and the    *)
(* globals are reset under the lock again.                                   *)
StopRollout(c) ==
  /\ guard["rollout"] = NoClient
  /\ proc # 0
  /\ Stops(c, "rollout", "kill", proc)
  /\ UNCHANGED <<flag, guard, kind, life, thread, proc, events, stopAsked>>

KillRollout(c) ==
  /\ At(c, "stop", "rollout", "kill")
  /\ Becomes(req[c].of, "gone")
  /\ GoesTo(c, "reset")
  /\ UNCHANGED <<flag, guard, kind, thread, proc, events, stopAsked>>

ResetRollout(c) ==
  /\ At(c, "stop", "rollout", "reset")
  /\ guard["rollout"] = NoClient
  /\ flag' = [flag EXCEPT !["rollout"] = FALSE]
  /\ proc' = 0
  /\ Replies(c)
  /\ UNCHANGED <<guard, kind, life, thread, events, stopAsked>>

(* A status request of anybody's: a process that has exited is reaped, and   *)
(* not before somebody asks.                                                 *)
PollRollout ==
  /\ guard["rollout"] = NoClient
  /\ proc # 0 /\ life[proc] = "gone"
  /\ flag' = [flag EXCEPT !["rollout"] = FALSE]
  /\ proc' = 0
  /\ UNCHANGED <<guard, req, kind, life, thread, events, stopAsked>>

(* The inference page asks every second, from its mount to its unmount.      *)
PageOpens == ~watching /\ watching' = TRUE
PageLeaves == watching /\ watching' = FALSE
PagePolls == watching /\ PollRollout

-----------------------------------------------------------------------------
(* The workers and the rollout process.                                      *)

Opens(s) ==
  /\ life[s] = "preparing"
  /\ Becomes(s, "driving")
  /\ UNCHANGED <<flag, guard, req, kind, thread, proc, events, stopAsked>>

(* Mutant: the recorder looks for a stop only between episodes it keeps.     *)
TeleopOnlyTold(s) ==
  /\ life[s] = "driving"
  /\ kind[s] = "teleop" /\ ~flag["teleop"]
  /\ Becomes(s, "closing")
  /\ UNCHANGED <<flag, guard, req, kind, thread, proc, events, stopAsked>>

(* The teleoperation loop reads its flag, the recorder its events.           *)
LeavesWhenTold(s) ==
  /\ life[s] = "driving"
  /\ \/ kind[s] = "teleop" /\ ~flag["teleop"]
     \/ kind[s] = "record" /\ s \in stopAsked
  /\ Becomes(s, "closing")
  /\ UNCHANGED <<flag, guard, req, kind, thread, proc, events, stopAsked>>

(* Mutant: the flag is cleared before the arms are disconnected.             *)
LeavesUnflagged(s) ==
  /\ kind[s] # "rollout"
  /\ \/ life[s] = "driving" /\ Becomes(s, "closing")
     \/ life[s] = "preparing" /\ Becomes(s, "closing")
  /\ flag' = [flag EXCEPT ![kind[s]] = FALSE]
  /\ UNCHANGED <<guard, req, kind, thread, proc, events, stopAsked>>

(* An error in the loop or in the recorder's setup, or the last episode.     *)
Leaves(s) ==
  /\ kind[s] # "rollout"
  /\ \/ life[s] = "driving" /\ Becomes(s, "closing")
     \/ life[s] = "preparing" /\ Becomes(s, "closing")
  /\ UNCHANGED <<flag, guard, req, kind, thread, proc, events, stopAsked>>

Disconnects(s) ==
  /\ life[s] = "closing"
  /\ Becomes(s, "closed")
  /\ UNCHANGED <<flag, guard, req, kind, thread, proc, events, stopAsked>>

(* The last thing a worker does.                                             *)
ClearsFlag(s) ==
  /\ life[s] = "closed"
  /\ Becomes(s, "gone")
  /\ flag' = [flag EXCEPT ![kind[s]] = FALSE]
  /\ UNCHANGED <<guard, req, kind, thread, proc, events, stopAsked>>

RolloutExits(s) ==
  /\ kind[s] = "rollout" /\ life[s] \in {"preparing", "driving"}
  /\ Becomes(s, "gone")
  /\ UNCHANGED <<flag, guard, req, kind, thread, proc, events, stopAsked>>

-----------------------------------------------------------------------------
NewRequest(c) ==
  \/ StartRequest(c) \/ StopTeleop(c) \/ StopRecording(c) \/ StopRollout(c)

(* The rest of a request, except for what waits for a lock.                  *)
Continues(c) ==
  \/ ReadFlag(c) \/ Refuse(c) \/ Claim(c) \/ StartFails(c)
  \/ ConnectArms(c) \/ SpawnTeleop(c) \/ SpawnRecorder(c) \/ SpawnRollout(c)
  \/ JoinEnds(c) \/ AskRecorder(c) \/ KillRollout(c)

Locks(c) == TakeLock(c) \/ PublishRollout(c) \/ ResetRollout(c)

Works(s) ==
  \/ Opens(s) \/ LeavesWhenTold(s) \/ Disconnects(s) \/ ClearsFlag(s)
  \/ RolloutExits(s)

ServerStep ==
  \/ \E c \in group.clients : NewRequest(c)
  \/ \E c \in Clients : Continues(c) \/ Locks(c)
  \/ PollRollout
  \/ \E s \in Sessions : Works(s) \/ Leaves(s)

Next ==
  /\ \/ ServerStep /\ UNCHANGED watching
     \/ (PageOpens \/ PageLeaves) /\ UNCHANGED server
  /\ UNCHANGED group

Spec == Init /\ [][Next]_vars

(* Threads run, a lock that is released is granted, a rollout has a duration *)
(* and an inference page that stays open goes on polling; nobody else has to *)
(* ask for the status of a rollout.                                          *)
FairSpec ==
  /\ Spec
  /\ \A c \in Clients : WF_server(Continues(c)) /\ SF_server(Locks(c))
  /\ SF_server(PagePolls)
  /\ \A s \in Sessions : WF_server(Works(s))

-----------------------------------------------------------------------------
(* The types; and a lock is held by a start that is reading the flags, so a  *)
(* refused or finished request never leaves it taken.                        *)
TypeOK ==
  /\ flag \in [Modes -> BOOLEAN]
  /\ guard \in [Modes -> Clients \cup {NoClient}]
  /\ req \in [Clients -> [op : {"none", "start", "stop"}, mode : Modes,
                at : {"idle", "lock", "check", "launch", "spawn", "publish",
                      "join", "ask", "kill", "reset"},
                unread : Seq(Modes), of : 0..MaxSessions]]
  /\ kind \in [Sessions -> Modes]
  /\ life \in [Sessions -> Life]
  /\ thread \in 0..MaxSessions
  /\ proc \in 0..MaxSessions
  /\ events \in 0..MaxSessions
  /\ stopAsked \subseteq Sessions
  /\ watching \in BOOLEAN
  /\ group \in Groups
  /\ \A m \in Modes, c \in Clients :
       guard[m] = c <=> req[c].mode = m /\ req[c].at = "check"

Alone == Cardinality(group.clients) = 1

(* Never two sessions on the bus, given a client that awaits every reply:    *)
(* stop of teleoperation joins the worker (teleoperate.py:303-308), the      *)
(* recorder and the rollout keep their flag up until the bus is released.    *)
BusExclusive == Alone => Cardinality(OnBus) <= 1

(* Whoever is on the bus is visible to the next start: the flag of its mode  *)
(* is up, or the stop that took it down has not replied yet.                 *)
FlagCoversBus ==
  Alone => \A s \in OnBus :
    \/ flag[kind[s]]
    \/ \E c \in Clients : req[c].op = "stop" /\ req[c].of = s

(* A recording excludes a second one whatever requests overlap: the flag is  *)
(* tested and set under one lock (record.py:54-56, 222-228) and cleared last.*)
OneRecordingAtATime ==
  Cardinality({s \in Sessions :
                 kind[s] = "record" /\ life[s] \notin {"unused", "gone"}}) <= 1

(* Someone is there to clear the flag of a mode.                             *)
Busy(m) ==
  \/ \E s \in Sessions : kind[s] = m /\ life[s] \notin {"unused", "gone"}
  \/ \E c \in Clients : req[c].mode = m /\ req[c].at = "publish"

(* A flag does not outlive its session: failed starts and crashed workers    *)
(* free the robot for the next start by themselves, an exited rollout does   *)
(* so when the inference page polls it (rollout.py:375-392), unless that     *)
(* page is left first; then the slot stays taken until somebody asks.        *)
SlotFreed ==
  \A m \in Modes :
    (Alone /\ flag[m] /\ ~Busy(m))
      ~> (~flag[m] \/ Busy(m) \/ (m = "rollout" /\ ~watching))

(* A recording that was told to stop ends and lets go of the robot.          *)
StopHonoured ==
  \A s \in Sessions : s \in stopAsked ~> life[s] = "gone"

(* rollout.py:244, "Mutex with teleop and recording: all three drive the     *)
(* same serial bus."                                                         *)
MutexAcrossModes ==
  \A s, t \in OnBus : kind[s] = kind[t]

=============================================================================
