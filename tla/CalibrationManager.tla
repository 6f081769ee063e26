-------------------------- MODULE CalibrationManager --------------------------
(***************************************************************************)
(* The calibration manager of the server (lelab/calibrate.py) and the      *)
(* threads that run in it.  A request is handled by a thread of the        *)
(* server's pool, a run is a worker thread; both read and write the        *)
(* manager's attributes without a common lock (_status_lock only covers    *)
(* single writes).  Calibration.tla adds the page that sends the requests. *)
(*                                                                         *)
(* A serial port is named by the arm that is plugged into it.              *)
(***************************************************************************)
EXTENDS Subsequences, SequencesExt, TLC

CONSTANTS
  MaxRuns,     \* bound: runs claimed altogether
  Overtaking,  \* whether requests and answers overlap; otherwise only the
               \* wait of a stop request for the worker does
  SlowDevices  \* whether a worker may outlast the five-second join of stop

ASSUME ManagerAssumption ==
  MaxRuns \in Nat \ {0} /\ Overtaking \in BOOLEAN /\ SlowDevices \in BOOLEAN

Runs == 1..MaxRuns
Sides == {"teleop", "robot"}
NoPort == "none"
Ports == Sides \cup {NoPort}
EmptyRecord ==
  [port |-> [s \in Sides |-> NoPort], config |-> {}, cams |-> <<>>]

VARIABLES
  active,    \* status.calibration_active
  status,    \* status.status
  stopAsked, \* stop_calibration
  stepDone,  \* _step_complete
  device,    \* self.device: the run that made it, or 0 for None
  run,       \* the newest run claimed; its request is _current_request
  request,   \* request[r]: the side and the port of run r
  thread,    \* calibration_thread: the run of the newest one, or 0
  pc,        \* pc[r]: where the worker of run r is
  copy,      \* copy[r]: the record as the write-back of run r has read it
  record,    \* the robot's record on disk
  calls      \* the requests under way

manager == <<active, status, stopAsked, stepDone, device, run, request,
             thread, pc, copy>>

(* Requests are appended when they are sent and moved to the end when they   *)
(* are answered, so calls holds the unsent ones in order of sending and the  *)
(* answered ones in order of answering.                                      *)
Call(op, visit, s, p) ==
  [op |-> op, at |-> "sent", visit |-> visit, side |-> s, port |-> p,
   ok |-> FALSE, seen |-> [status |-> "idle", active |-> FALSE],
   copy |-> EmptyRecord, cams |-> <<>>, devices |-> {}, found |-> {}]

Begins(i, op) ==
  /\ calls[i].op = op /\ calls[i].at = "sent"
  /\ Overtaking \/ \A j \in 1..(i - 1) : calls[j].at \in {"join", "answered"}
(* An answer is taken in its turn.                                           *)
Arrived(i) ==
  /\ calls[i].at = "answered"
  /\ Overtaking \/ \A j \in 1..(i - 1) : calls[j].at # "answered"
Answered(i, c) == Append(RemoveAt(calls, i), [c EXCEPT !.at = "answered"])
Answers(i, ok) == calls' = Answered(i, [calls[i] EXCEPT !.ok = ok])
(* The answers to stop and complete only make the page show a message.       *)
Replies(i) == calls' = RemoveAt(calls, i)
Proceeds(i, at) == calls' = [calls EXCEPT ![i].at = at]
(* The requests left once whoever waited for these is gone.                 *)
Without(ops) ==
  Subsequence(calls, {i \in DOMAIN calls : calls[i].op \notin ops})

Workers == {r \in Runs : pc[r] \notin {"unused", "gone"}}

ManagerInit ==
  /\ active = FALSE /\ status = "idle"
  /\ stopAsked = FALSE /\ stepDone = FALSE
  /\ device = 0 /\ run = 0 /\ thread = 0
  /\ request = [r \in Runs |-> [side |-> "teleop", port |-> NoPort]]
  /\ pc = [r \in Runs |-> "unused"]
  /\ copy = [r \in Runs |-> EmptyRecord]
  /\ calls = <<>>

-----------------------------------------------------------------------------
(* Requests.                                                                 *)

(* start: the flag is read ...                                               *)
StartChecks(i) ==
  /\ Begins(i, "start")
  /\ IF active THEN Answers(i, FALSE) ELSE Proceeds(i, "claim")
  /\ UNCHANGED <<manager, record>>

(* ... and set without a lock, with the rest of the status ...               *)
StartClaims(i) ==
  /\ calls[i].op = "start" /\ calls[i].at = "claim"
  /\ run < MaxRuns
  /\ active' = TRUE /\ status' = "connecting"
  /\ run' = run + 1
  /\ request' = [request EXCEPT ![run + 1] =
                   [side |-> calls[i].side, port |-> calls[i].port]]
  /\ Proceeds(i, "spawn")
  /\ UNCHANGED <<stopAsked, stepDone, device, thread, pc, copy, record>>

(* ... and only then the signals of the last run are reset.                  *)
StartSpawns(i) ==
  /\ calls[i].op = "start" /\ calls[i].at = "spawn"
  /\ thread' = run
  /\ stopAsked' = FALSE /\ stepDone' = FALSE
  /\ pc' = [pc EXCEPT ![run] = "connect"]
  /\ Answers(i, TRUE)
  /\ UNCHANGED <<active, status, device, run, request, copy, record>>

StepCompletes(i) ==
  /\ Begins(i, "complete")
  /\ LET ok == active /\ status = "recording" IN
       /\ stepDone' = (stepDone \/ ok)
       /\ Replies(i)
  /\ UNCHANGED <<active, status, stopAsked, device, run, request, thread, pc,
                 copy, record>>

StopRefused(i) ==
  /\ Begins(i, "stop") /\ ~active
  /\ Replies(i)
  /\ UNCHANGED <<manager, record>>

StopAsks(i) ==
  /\ Begins(i, "stop") /\ active
  /\ stopAsked' = TRUE /\ stepDone' = TRUE
  /\ status' = "stopping"
  /\ Proceeds(i, "join")
  /\ UNCHANGED <<active, device, run, request, thread, pc, copy, record>>

(* Mutant: stop finishes without waiting for the worker.                     *)
StopForgetsJoin(i) ==
  /\ calls[i].op = "stop" /\ calls[i].at = "join"
  /\ device' = 0
  /\ active' = FALSE /\ status' = "idle"
  /\ Replies(i)
  /\ UNCHANGED <<stopAsked, stepDone, run, request, thread, pc, copy, record>>

(* After the join, stop cleans up once more, whoever is active by then.      *)
StopFinishes(i) ==
  /\ calls[i].op = "stop" /\ calls[i].at = "join"
  /\ thread # 0 => pc[thread] = "gone" \/ SlowDevices
  /\ device' = 0
  /\ active' = FALSE /\ status' = "idle"
  /\ Replies(i)
  /\ UNCHANGED <<stopAsked, stepDone, run, request, thread, pc, copy, record>>

(* get_status answers with the status of the moment.                         *)
ReportsStatus(i) ==
  /\ Begins(i, "status")
  /\ calls' = Answered(i, [calls[i] EXCEPT !.seen =
       [status |-> status, active |-> active]])
  /\ UNCHANGED <<manager, record>>

(* GET /robots/{name}.                                                       *)
ReportsRecord(i) ==
  /\ \E op \in {"load", "robot"} : Begins(i, op)
  /\ calls' = Answered(i, [calls[i] EXCEPT !.copy = record])
  /\ UNCHANGED <<manager, record>>

(* POST /robots/{name}: save_robot_record reads the file, merges the field   *)
(* into what it has read ...                                                 *)
ReadsRecord(i) ==
  /\ \E op \in {"save", "cams"} : Begins(i, op)
  /\ calls' = [calls EXCEPT ![i].at = "write", ![i].copy =
       IF calls[i].op = "cams" THEN [record EXCEPT !.cams = calls[i].cams]
       ELSE [record EXCEPT !.port[calls[i].side] = calls[i].port]]
  /\ UNCHANGED <<manager, record>>

(* ... and replaces the file, which is also the answer; the page looks at it *)
(* when it has saved a port.                                                 *)
SavesRecord(i) ==
  /\ calls[i].at = "write"
  /\ record' = calls[i].copy
  /\ IF calls[i].op = "save" THEN Answers(i, TRUE) ELSE Replies(i)
  /\ UNCHANGED manager

-----------------------------------------------------------------------------
(* The worker of a run.                                                      *)

Moves(r, from, to) == pc[r] = from /\ pc' = [pc EXCEPT ![r] = to]

(* _cleanup_and_finish.                                                      *)
CleansUp(s) == device' = 0 /\ active' = FALSE /\ status' = s

(* Every step looks for a stop request when it is over.                      *)
Onward(r, from, to) ==
  Moves(r, from, IF stopAsked THEN "cancel" ELSE to)

Connects(r) ==
  /\ Onward(r, "connect", "homing")
  /\ device' = r
  /\ status' = "connecting"
  /\ UNCHANGED <<active, stopAsked, stepDone, run, request, thread, copy,
                 record, calls>>

(* self.device is the shared attribute: None raises.                         *)
Homes(r) ==
  /\ device # 0
  /\ Onward(r, "homing", "ranges")
  /\ UNCHANGED <<active, status, stopAsked, stepDone, device, run, request,
                 thread, copy, record, calls>>

StartsRanges(r) ==
  /\ device # 0
  /\ Moves(r, "ranges", "moving")
  /\ status' = "recording"
  /\ UNCHANGED <<active, stopAsked, stepDone, device, run, request, thread,
                 copy, record, calls>>

(* The loop ends on either signal; only an uncancelled end clears the event. *)
EndsRanges(r) ==
  /\ stepDone \/ stopAsked
  /\ Onward(r, "moving", "write")
  /\ stepDone' = (stepDone /\ stopAsked)
  /\ UNCHANGED <<active, status, stopAsked, device, run, request, thread,
                 copy, record, calls>>

(* Unplugged, a bad reading, a discontinuity, a motor that has not moved, or *)
(* self.device taken away.                                                   *)
Fails(r) ==
  /\ pc[r] \in {"connect", "homing", "ranges", "moving", "write"}
  /\ pc' = [pc EXCEPT ![r] = "failed"]
  /\ UNCHANGED <<active, status, stopAsked, stepDone, device, run, request,
                 thread, copy, record, calls>>

WritesCalibration(r) ==
  /\ device # 0
  /\ Moves(r, "write", "record")
  /\ UNCHANGED <<active, status, stopAsked, stepDone, device, run, request,
                 thread, copy, record, calls>>

(* The write-back does the same with port and config of the newest request.  *)
ReadsForWriteBack(r) ==
  LET of == request[run] IN
  /\ Moves(r, "record", "merge")
  /\ copy' = [copy EXCEPT ![r] =
       [record EXCEPT !.port[of.side] = of.port,
                      !.config = @ \cup {of.side}]]
  /\ UNCHANGED <<active, status, stopAsked, stepDone, device, run, request,
                 thread, record, calls>>

WritesBack(r) ==
  /\ Moves(r, "merge", "done")
  /\ record' = copy[r]
  /\ copy' = [copy EXCEPT ![r] = EmptyRecord]
  /\ UNCHANGED <<active, status, stopAsked, stepDone, device, run, request,
                 thread, calls>>

(* A cancelled run is finished with the default status, "completed".         *)
Finishes(r) ==
  /\ \/ Moves(r, "done", "finally") /\ CleansUp("completed")
     \/ Moves(r, "cancel", "finally") /\ CleansUp("completed")
     \/ Moves(r, "failed", "finally") /\ CleansUp("error")
  /\ UNCHANGED <<stopAsked, stepDone, run, request, thread, copy, record, calls>>

(* The finally clause takes an active flag for its own.                      *)
Ends(r) ==
  /\ Moves(r, "finally", "gone")
  /\ IF active THEN CleansUp("idle") ELSE UNCHANGED <<device, active, status>>
  /\ UNCHANGED <<stopAsked, stepDone, run, request, thread, copy, record, calls>>

-----------------------------------------------------------------------------
Handles(i) ==
  \/ StartChecks(i) \/ StartClaims(i) \/ StartSpawns(i) \/ StepCompletes(i)
  \/ StopRefused(i) \/ StopAsks(i) \/ StopFinishes(i) \/ ReportsStatus(i)
  \/ ReportsRecord(i) \/ ReadsRecord(i) \/ SavesRecord(i)

(* A worker that nobody signals stays in the range recording for good.       *)
Advances(r) ==
  \/ Connects(r) \/ Homes(r) \/ StartsRanges(r) \/ EndsRanges(r)
  \/ WritesCalibration(r) \/ ReadsForWriteBack(r) \/ WritesBack(r)
  \/ Finishes(r) \/ Ends(r)
  \/ device = 0 /\ Fails(r)

Works(r) == Advances(r) \/ Fails(r)

=============================================================================
