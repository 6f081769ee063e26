----------------------------- MODULE Calibration -----------------------------
(***************************************************************************)
(* Calibrating an arm: the page (frontend/src/pages/Calibration.tsx) with  *)
(* its port detection dialog (components/ui/PortDetectionModal.tsx), and   *)
(* the manager it talks to (CalibrationManager).  A visit of the page is a *)
(* mount of the component: its state starts anew, and answers to an        *)
(* earlier visit change nothing any more.                                  *)
(***************************************************************************)
EXTENDS AttachedCameras

CONSTANTS
  MaxPolls,  \* bound: status requests in flight
  Patient,   \* the user lets what was begun end before editing the form
  OneClick   \* and clicks on start only once for a calibration

ASSUME PageAssumption ==
  /\ MaxPolls \in Nat \ {0}
  /\ Patient \in BOOLEAN /\ OneClick \in BOOLEAN

VARIABLES
  visits,    \* visits so far
  visit,     \* the visit going on, or 0
  shown,     \* calibrationStatus
  polling,   \* isPolling
  activeRef, \* calibrationActiveRef
  side,      \* deviceType
  port,      \* port
  robot,     \* the page's copies of the record: none, or one
  dialog     \* the port detection dialog

page == <<visits, visit, shown, polling, activeRef>>
form == <<side, port, robot, dialog>>
vars == <<manager, record, calls, card, page, form>>

Nothing == [status |-> "idle", active |-> FALSE]
NoDialog == [step |-> "closed", cancelled |-> TRUE, side |-> "teleop"]

FreshForm ==
  side' = "teleop" /\ port' = NoPort /\ robot' = {} /\ dialog' = NoDialog

(* A robot without cameras, or one whose camera had an index that may not be *)
(* the one it has now.                                                       *)
Init ==
  /\ ManagerInit
  /\ max \in Bounds /\ moves = 0 /\ cam = NoCard
  /\ plugged \in IF max.scans = 0 THEN {{}} ELSE SUBSET Devices
  /\ record \in {EmptyRecord} \cup
       {[EmptyRecord EXCEPT !.cams =
           <<[device |-> d, index |-> k, options |-> 0]>>] :
          d \in plugged, k \in 0..(MaxDevices - 1)}
  /\ visits = 0 /\ visit = 0 /\ shown = Nothing
  /\ polling = FALSE /\ activeRef = FALSE
  /\ side = "teleop" /\ port = NoPort /\ robot = {} /\ dialog = NoDialog

Sends(op, s, p) == calls' = Append(calls, Call(op, visit, s, p))
Pending(op) == Cardinality({i \in DOMAIN calls : calls[i].op = op})

(* What a patient user waits for.                                            *)
Settled == calls = <<>> /\ Workers = {} /\ ~polling /\ cam.due = {}
Uncovered == visit # 0 /\ dialog.step = "closed"
MayEdit == max.arms /\ Uncovered /\ (Patient => Settled)
MayEditCameras ==
  /\ Uncovered
  /\ Patient => /\ Workers = {} /\ ~polling
                /\ \A i \in DOMAIN calls : calls[i].op \in {"cams", "cameras"}

-----------------------------------------------------------------------------
(* The visit.                                                                *)

Mount ==
  /\ visit = 0 /\ visits < max.visits
  /\ visits' = visits + 1 /\ visit' = visits + 1
  /\ calls' = Append(calls, Call("load", visits + 1, "teleop", NoPort))
  /\ UNCHANGED <<manager, card, record, shown, polling, activeRef, form>>

(* The cleanups: the interval and the timers are cleared, a detection is     *)
(* aborted, and a calibration that may be active is stopped.                 *)
LeavesPage(stop) ==
  /\ visit # 0
  /\ visit' = 0 /\ shown' = Nothing /\ polling' = FALSE /\ activeRef' = FALSE
  /\ FreshForm
  /\ cam' = [NoCard EXCEPT !.scans = cam.scans, !.edits = cam.edits]
  /\ LET kept == Without({"detect", "cameras"}) IN
       calls' = IF stop THEN Append(kept, Call("stop", 0, "teleop", NoPort))
                ELSE kept
  /\ UNCHANGED <<manager, max, plugged, moves, record, visits>>

(* Mutant: the cleanup asks what the page shows instead of the ref.          *)
LeaveByView == LeavesPage(shown.active)

Leave == LeavesPage(activeRef)

Poll ==
  /\ polling /\ Pending("status") < MaxPolls
  /\ Sends("status", "teleop", NoPort)
  /\ UNCHANGED <<manager, card, record, page, form>>

-----------------------------------------------------------------------------
(* What the user does.  A dialog covers the rest of the page.                *)

(* One button or the other, by what the page has seen of the run.            *)
StartOffered == Uncovered /\ ~shown.active /\ port # NoPort
CancelOffered == Uncovered /\ shown.active
SaveOffered == Uncovered /\ shown.status = "recording" /\ shown.active

ClickStart ==
  /\ StartOffered
  /\ OneClick => Settled
  /\ run + Pending("start") < max.runs
  /\ activeRef' = TRUE
  /\ Sends("start", side, port)
  /\ UNCHANGED <<manager, card, record, visits, visit, shown, polling, form>>

ClickCancel ==
  /\ CancelOffered
  /\ Pending("stop") = 0
  /\ Sends("stop", "teleop", NoPort)
  /\ UNCHANGED <<manager, card, record, page, form>>

ClickSave ==
  /\ SaveOffered
  /\ Pending("complete") = 0
  /\ Sends("complete", "teleop", NoPort)
  /\ UNCHANGED <<manager, card, record, page, form>>

(* handleDeviceTypeChange.                                                   *)
PickSide(s) ==
  /\ MayEdit
  /\ side' = s
  /\ port' = IF robot = {} THEN port
             ELSE (CHOOSE r \in robot : TRUE).port[s]
  /\ UNCHANGED <<manager, card, record, calls, page, robot, dialog>>

(* persistPort: a port that the page's copy has already is not sent.         *)
Persists(s, p) ==
  IF \E r \in robot : r.port[s] = p THEN UNCHANGED calls
  ELSE Sends("save", s, p)

(* The port of the arm in question is typed, and saved when the field loses  *)
(* the focus.                                                                *)
TypePort ==
  /\ MayEdit
  /\ port' = side
  /\ Persists(side, side)
  /\ UNCHANGED <<manager, card, record, page, side, robot, dialog>>

-----------------------------------------------------------------------------
(* The port detection dialog.  cancelledRef is one per page: opening the     *)
(* dialog again resets it for what an earlier opening left behind.           *)

OpenDialog ==
  /\ MayEdit
  /\ dialog' = [step |-> "detecting", cancelled |-> FALSE, side |-> side]
  /\ Sends("detect", side, NoPort)
  /\ UNCHANGED <<manager, card, record, page, side, port, robot>>

(* Closing aborts the detection, but not the request that saves its result.  *)
CloseDialog ==
  /\ dialog.step # "closed"
  /\ dialog' = NoDialog
  /\ calls' = Without({"detect"})
  /\ UNCHANGED <<manager, card, record, page, side, port, robot>>

RetryOffered == dialog.step = "error"

RetryDetection ==
  /\ RetryOffered
  /\ dialog' = [dialog EXCEPT !.step = "detecting", !.cancelled = FALSE]
  /\ Sends("detect", dialog.side, NoPort)
  /\ UNCHANGED <<manager, card, record, page, side, port, robot>>

(* The server has seen the arm go: the result is saved under its side.       *)
PortDetected(i) ==
  /\ Begins(i, "detect") /\ ~dialog.cancelled
  /\ calls' = [calls EXCEPT ![i].op = "keep", ![i].port = calls[i].side]
  /\ UNCHANGED <<manager, card, record, page, form>>

(* Fifteen seconds without an unplug, or two ports gone: the server says 408 *)
(* with a detail, the dialog looks for a message and shows an error.         *)
DetectionFails(i) ==
  /\ Begins(i, "detect") /\ ~dialog.cancelled
  /\ calls' = RemoveAt(calls, i)
  /\ dialog' = [dialog EXCEPT !.step = "error"]
  /\ UNCHANGED <<manager, card, record, page, side, port, robot>>

(* POST /save-robot-port has been answered: the result is shown ...          *)
PortKept(i) ==
  /\ calls[i].op = "keep"
  /\ IF dialog.cancelled THEN calls' = RemoveAt(calls, i) /\ UNCHANGED form
     ELSE /\ dialog' = [dialog EXCEPT !.step = "success"]
          /\ calls' = [calls EXCEPT ![i].op = "hold"]
          /\ UNCHANGED <<side, port, robot>>
  /\ UNCHANGED <<manager, card, record, page>>

(* ... and two seconds later handed to the page, which saves it under the    *)
(* side it had when the dialog was opened.                                   *)
HandsPortOver(i) ==
  LET c == calls[i]
      others == Subsequence(calls, {j \in DOMAIN calls \ {i} :
                                      calls[j].op # "detect"})
  IN
  /\ c.op = "hold"
  /\ IF dialog.cancelled THEN calls' = RemoveAt(calls, i) /\ UNCHANGED form
     ELSE /\ port' = c.port /\ dialog' = NoDialog
          /\ calls' = IF \E r \in robot : r.port[c.side] = c.port THEN others
                      ELSE Append(others, Call("save", visit, c.side, c.port))
          /\ UNCHANGED <<side, robot>>
  /\ UNCHANGED <<manager, card, record, page>>

-----------------------------------------------------------------------------
(* Answers.                                                                  *)

Arrives(i, op) == calls[i].op = op /\ Arrived(i)
ForThisVisit(i) == visit # 0 /\ calls[i].visit = visit

(* The requests of a page that is gone are answered to nobody.               *)
AnswerIsLate(i) ==
  /\ \E op \in {"start", "status", "load", "robot", "save"} : Arrives(i, op)
  /\ ~ForThisVisit(i)
  /\ calls' = RemoveAt(calls, i)
  /\ UNCHANGED <<manager, card, record, page, form>>

StartAnswered(i) ==
  /\ Arrives(i, "start") /\ ForThisVisit(i)
  /\ IF calls[i].ok THEN polling' = TRUE /\ UNCHANGED activeRef
     ELSE activeRef' = FALSE /\ UNCHANGED polling
  /\ calls' = RemoveAt(calls, i)
  /\ UNCHANGED <<manager, card, record, visits, visit, shown, form>>

Terminal(seen) ==
  ~seen.active /\ seen.status \in {"completed", "error", "idle"}

(* Mutant: polling goes on only until the next answer.                       *)
StatusStopsPolling(i) ==
  LET seen == calls[i].seen IN
  /\ Arrives(i, "status") /\ ForThisVisit(i)
  /\ shown' = seen
  /\ polling' = (polling /\ ~Terminal(seen) /\ seen.status # "stopping")
  /\ activeRef' = IF seen.active # shown.active THEN seen.active ELSE activeRef
  /\ calls' = IF seen.status = "completed" /\ shown.status # "completed"
              THEN Append(RemoveAt(calls, i),
                          Call("robot", visit, "teleop", NoPort))
              ELSE RemoveAt(calls, i)
  /\ UNCHANGED <<manager, card, record, visits, visit, form>>

(* pollStatus; the effects mirror a changed flag into the ref and fetch the  *)
(* record again when the status becomes "completed".                         *)
StatusAnswered(i) ==
  LET seen == calls[i].seen IN
  /\ Arrives(i, "status") /\ ForThisVisit(i)
  /\ shown' = seen
  /\ polling' = (polling /\ ~Terminal(seen))
  /\ activeRef' = IF seen.active # shown.active THEN seen.active ELSE activeRef
  /\ calls' = IF seen.status = "completed" /\ shown.status # "completed"
              THEN Append(RemoveAt(calls, i),
                          Call("robot", visit, "teleop", NoPort))
              ELSE RemoveAt(calls, i)
  /\ UNCHANGED <<manager, card, record, visits, visit, form>>

(* The first side that is not calibrated yet.                                *)
NextSide(r) ==
  IF "teleop" \in r.config /\ "robot" \notin r.config THEN "robot"
  ELSE "teleop"

(* The record arrives; only the first one of a visit brings the cameras.     *)
RecordArrives(i) ==
  /\ \E op \in {"load", "robot"} : Arrives(i, op)
  /\ ForThisVisit(i)
  /\ robot' = {calls[i].copy} /\ side' = NextSide(calls[i].copy)
  /\ cam' = IF calls[i].op = "load"
            THEN [cam EXCEPT !.list = calls[i].copy.cams] ELSE cam
  /\ calls' = RemoveAt(calls, i)
  /\ UNCHANGED <<manager, max, plugged, moves, record, page, dialog>>

(* Mutant: the side is advanced, its port is not.                            *)
RecordKeepsPort(i) ==
  LET r == calls[i].copy IN
  RecordArrives(i) /\ port' = IF port = NoPort THEN r.port[NextSide(r)] ELSE port

(* On arrival and after a completed run: the form moves on to that side.     *)
RecordAnswered(i) ==
  LET r == calls[i].copy IN RecordArrives(i) /\ port' = r.port[NextSide(r)]

SaveAnswered(i) ==
  /\ Arrives(i, "save") /\ ForThisVisit(i)
  /\ robot' = {calls[i].copy}
  /\ calls' = RemoveAt(calls, i)
  /\ UNCHANGED <<manager, card, record, page, side, port, dialog>>

-----------------------------------------------------------------------------
Server(i) == Handles(i) /\ UNCHANGED <<card, page, form>>
Worker(r) == Works(r) /\ UNCHANGED <<card, page, form>>

Answer(i) ==
  \/ AnswerIsLate(i) \/ StartAnswered(i) \/ StatusAnswered(i)
  \/ RecordAnswered(i) \/ SaveAnswered(i)

CamerasCome(i) == CamerasListed(i) /\ UNCHANGED <<manager, record, page, form>>
CamerasAsked(i) == ListsCameras(i) /\ UNCHANGED <<manager, record, page, form>>

Detects(i) ==
  \/ PortDetected(i) \/ DetectionFails(i) \/ PortKept(i) \/ HandsPortOver(i)

Handled(i) ==
  Server(i) \/ Answer(i) \/ Detects(i) \/ CamerasAsked(i) \/ CamerasCome(i)

(* The card below the form: its user, its timer and the cables.              *)
Card ==
  /\ \/ MayEditCameras /\ CardUser
     \/ SavesCameras
     \/ \E d \in Devices : DeviceChanges(d)
  /\ UNCHANGED <<manager, record, page, form>>

User ==
  \/ Mount \/ Leave \/ ClickStart \/ ClickCancel \/ ClickSave \/ TypePort
  \/ \E s \in Sides : PickSide(s)
  \/ OpenDialog \/ CloseDialog \/ RetryDetection

Next ==
  \/ User
  \/ Poll \/ Card
  \/ \E i \in DOMAIN calls : Handled(i)
  \/ \E r \in Runs : Worker(r)

Spec == Init /\ [][Next]_vars

(* The interval ticks, threads run, answers arrive.  The user is not fair,   *)
(* and nothing has to fail.                                                  *)
FairSpec ==
  /\ Spec
  /\ WF_vars(Poll)
  /\ WF_vars(\E i \in DOMAIN calls : calls[i].op = "status" /\ Handled(i))
  /\ WF_vars(\E i \in DOMAIN calls : calls[i].op # "status" /\ Handled(i))
  /\ WF_vars(\E r \in Runs : Advances(r) /\ UNCHANGED <<card, page, form>>)

-----------------------------------------------------------------------------
(* A calibration without a page is stopped (Calibration.tsx:191-210, "Stop   *)
(* it on unmount as a catch-all"): whoever leaves in the middle of a start,  *)
(* of a run or of an answer does not leave a run behind that only a stop     *)
(* request could end.                                                        *)
LeavingStops ==
  (visit = 0 /\ active) ~> (~active \/ visit # 0)

(* The page catches up: when the run has ended, by itself, by a stop or by a *)
(* failure, the page that showed it stops showing it (pollStatus, lines      *)
(* 212-231, and the interval, lines 372-383).                                *)
ViewCatchesUp ==
  (visit # 0 /\ shown.active /\ ~active) ~> (~shown.active \/ active)

(* What the user chose is what the robot's record has, as soon as nothing is *)
(* under way: no edit and no remapped index is lost between the timer, the   *)
(* enumerations and the saves; and while the cameras are on, every camera    *)
(* that the page has on its list has the index by which OpenCV finds it now, *)
(* whatever cables moved before (CameraConfiguration.tsx:79-101, "otherwise  *)
(* the recorder opens the wrong physical device").  One that the enumeration *)
(* did not list keeps the index it had.                                      *)
CamerasKept ==
  (/\ visit # 0 /\ cam.due = {}
   /\ \A i \in DOMAIN calls : calls[i].op \notin {"load", "cams", "cameras"})
  => /\ record.cams = cam.list
     /\ cam.on => \A c \in ToSet(cam.list), f \in cam.avail :
                    f.device = c.device => c.index = Index(c.device)

(* An arm is calibrated through its own port, whatever answers, detections   *)
(* and changes of the side came before (Calibration.tsx:121-138, 412-440).   *)
CalibratesOwnArm ==
  \A r \in 1..run : request[r].port = request[r].side

(* The device is never held by a manager that says it is idle, so the next   *)
(* calibration, teleoperation or recording finds the port free.              *)
DeviceReleased == device # 0 => active

=============================================================================
