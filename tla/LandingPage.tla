----------------------------- MODULE LandingPage -----------------------------
(***************************************************************************)
(* The landing page: the list of robots (hooks/useRobots.ts), the robot's  *)
(* tile, and the recording dialog with its camera previews                 *)
(* (CameraConfiguration.tsx, useAvailableCameras.ts).  Every robot has one  *)
(* camera; its record was saved when the camera had the cv2 index 0.       *)
(***************************************************************************)
EXTENDS CameraPreview

OnLanding == page.at = "landing"
(* A dialog covers the page.                                                 *)
Uncovered == OnLanding /\ page.dialog = "closed"

(* selectedRecord: the record of the selected name, if the list has it.      *)
Known == OnLanding /\ page.selected # NoRobot
               /\ page.robots[page.selected] # "none"
Clean == Known /\ page.robots[page.selected] = "clean"

-----------------------------------------------------------------------------
(* useRobots.                                                                *)

(* A selection that is not in the list is dropped, and the choice persisted. *)
ListArrives(i) ==
  LET list == calls[i].seen.robots
      keeps == page.selected # NoRobot /\ list[page.selected] # "none" IN
  /\ Arrives(i, "list")
  /\ calls' = Rest(i)
  /\ IF ForThisMount(i)
     THEN /\ page' = [page EXCEPT !.robots = list,
                        !.selected = IF keeps THEN @ ELSE NoRobot]
          /\ stored' = page'.selected
     ELSE UNCHANGED <<page, stored>>
  /\ UNCHANGED <<server, mount, notice, clicks, cameras>>

(* RobotSelector.tsx: names of the list are selected, others created; there  *)
(* is nothing to choose while the list is fetched.                           *)
Chooses == Uncovered /\ ~Pending("list")
MaySelect(r) == Chooses /\ page.robots[r] # "none"
MayCreate(r) == Chooses /\ page.robots[r] = "none"

SelectRobot(r) ==
  /\ MaySelect(r)
  /\ page' = [page EXCEPT !.selected = r] /\ stored' = r
  /\ UNCHANGED <<server, calls, mount, notice, clicks, cameras>>

CreateRobot(r) ==
  /\ MayCreate(r) /\ Settled
  /\ Sends("create", r)
  /\ UNCHANGED <<server, tab, cameras>>

CreateArrives(i) ==
  /\ Arrives(i, "create")
  /\ calls' = Rest(i)
  /\ IF ForThisMount(i) /\ calls[i].ok
     THEN /\ page' = [page EXCEPT !.robots[calls[i].arg] = "new",
                                  !.selected = calls[i].arg]
          /\ stored' = calls[i].arg
     ELSE UNCHANGED <<page, stored>>
  /\ UNCHANGED <<server, mount, notice, clicks, cameras>>

(* The tile's button and its question.                                       *)
DeleteOffered == Uncovered /\ Known

DeleteRobot ==
  /\ DeleteOffered /\ Settled
  /\ Sends("delete", page.selected)
  /\ UNCHANGED <<server, tab, cameras>>

(* Mutant: the deleted robot stays selected.                                 *)
DeleteKeepsSelection(i) ==
  /\ Arrives(i, "delete")
  /\ calls' = Rest(i)
  /\ page' = IF ForThisMount(i) /\ calls[i].ok
             THEN [page EXCEPT !.robots[calls[i].arg] = "none"] ELSE page
  /\ UNCHANGED <<server, mount, stored, notice, clicks, cameras>>

DeleteArrives(i) ==
  /\ Arrives(i, "delete")
  /\ calls' = Rest(i)
  /\ IF ForThisMount(i) /\ calls[i].ok
     THEN /\ page' = [page EXCEPT !.robots[calls[i].arg] = "none",
                        !.selected = IF @ = calls[i].arg THEN NoRobot ELSE @]
          /\ stored' = page'.selected
     ELSE UNCHANGED <<page, stored>>
  /\ UNCHANGED <<server, mount, notice, clicks, cameras>>

-----------------------------------------------------------------------------
(* The tile and the ways off the page.                                       *)

TeleopOffered == Uncovered /\ Clean

ClickTeleop ==
  /\ TeleopOffered /\ Settled
  /\ Sends("move-arm", page.selected)
  /\ UNCHANGED <<server, tab, cameras>>

(* Whatever page the tab is on by now, it goes to teleoperation.             *)
TeleopStarted(i) ==
  /\ Arrives(i, "move-arm")
  /\ IF calls[i].ok /\ page.at # "teleop" THEN Opens(Teleop, Rest(i))
     ELSE calls' = Rest(i) /\ UNCHANGED <<mount, page, streams>>
  /\ UNCHANGED <<server, stored, notice, clicks, index, listed>>

GoElsewhere ==
  /\ Uncovered /\ Settled
  /\ Opens(Elsewhere, calls)
  /\ UNCHANGED <<server, stored, notice, clicks, index, listed>>

(* To the robot's calibration, to a training.                                *)
Configure == Known /\ GoElsewhere
OpenTraining == GoElsewhere

(* The calibration page makes a robot clean.                                 *)
Calibrate(r) ==
  /\ page.at = "elsewhere" /\ robots[r] = "new"
  /\ robots' = [robots EXCEPT ![r] = "clean"]
  /\ UNCHANGED <<service, driving, session, disk, calls, tab,
                 cameras>>

(* The picker lists what is on disk, and whether it is on the Hub too.       *)
Pickable(d) == Uncovered /\ d \in disk

PickDataset(d, onHub) ==
  /\ Pickable(d) /\ Settled
  /\ Opens(Upload(d, d, onHub), calls)
  /\ UNCHANGED <<server, stored, notice, clicks, index, listed>>

-----------------------------------------------------------------------------
(* The cameras.                                                              *)

(* A camera is plugged in or out: devicechange.  A failed preview tries      *)
(* again, the dialog asks for the cameras again.  A patient user does not    *)
(* plug between the click on start and the session.                          *)
DeviceChanges(k) ==
  /\ index' = k
  /\ page.at \in {"landing", "teleop"}
  /\ Patient => ~Pending("wait") /\ ~Pending("cameras")
  /\ IF OnLanding /\ page.dialog # "closed"
     THEN Sends("cameras", 0) ELSE UNCHANGED calls
  /\ IF streams.failed THEN Asks(streams) ELSE UNCHANGED streams
  /\ UNCHANGED <<server, tab, listed>>

(* The server lists the cameras that OpenCV can open: not one that a preview *)
(* holds, and none when the enumeration fails or takes too long.             *)
ListsCameras(i) ==
  /\ Begins(i, "cameras")
  /\ \E found \in BOOLEAN :
       calls' = Append(Rest(i), [calls[i] EXCEPT !.at = "answered",
                                   !.ok = found,
                                   !.arg = IF found THEN index ELSE @])
  /\ UNCHANGED <<server, tab, cameras>>

(* Mutant: the saved index is kept.                                          *)
IndexKept(i) ==
  /\ Arrives(i, "cameras")
  /\ calls' = Rest(i)
  /\ listed' = IF ForThisMount(i) THEN calls[i].ok ELSE listed
  /\ UNCHANGED <<server, tab, index, streams>>

(* The effect that gives each camera the index its device has now.  One that *)
(* is not listed keeps the index it has.                                     *)
CamerasArrive(i) ==
  /\ Arrives(i, "cameras")
  /\ calls' = Rest(i)
  /\ IF ForThisMount(i) /\ page.dialog # "closed"
     THEN /\ page' = [page EXCEPT !.index = IF calls[i].ok THEN calls[i].arg
                                            ELSE @]
          /\ listed' = calls[i].ok
     ELSE UNCHANGED <<page, listed>>
  /\ UNCHANGED <<server, mount, stored, notice, clicks, index, streams>>

-----------------------------------------------------------------------------
(* The recording dialog.                                                     *)

(* handleCreateDataset: the cameras are those of the record, if there is one *)
OpenDialog ==
  /\ Uncovered /\ Settled
  /\ page' = [page EXCEPT !.dialog = "open", !.index = 0]
  /\ Sends("cameras", 0)
  /\ IF Known THEN Asks(streams) ELSE UNCHANGED streams
  /\ listed' = FALSE
  /\ UNCHANGED <<server, mount, stored, notice, clicks, index>>

CloseDialog ==
  /\ OnLanding /\ page.dialog # "closed"
  /\ Patient => ~Pending("cameras")
  /\ page' = [page EXCEPT !.dialog = "closed"]
  /\ streams' = Dropped
  /\ UNCHANGED <<server, calls, mount, stored, notice, clicks, index,
                 listed>>

(* The fields of the form, which stay when the dialog is closed.             *)
FillRecording ==
  /\ OnLanding /\ page.dialog # "closed" /\ ~page.filled
  /\ page' = [page EXCEPT !.filled = TRUE]
  /\ UNCHANGED <<server, calls, mount, stored, notice, clicks, cameras>>

CanRecord == OnLanding /\ page.dialog # "closed" /\ Clean

(* Half a second.  The session is the newest one at the click.               *)
Pause ==
  [Call("wait", page.index, mount) EXCEPT
     !.at = "waiting", !.seen = [NoStatus EXCEPT !.session = session]]

(* handleStartRecording up to the pause: the previews let go of the camera.  *)
(* A patient user starts when the list of cameras has come.  The button      *)
(* stays enabled during the pause.                                           *)
ClickRecord ==
  /\ CanRecord /\ page.filled
  /\ clicks < MaxStarts
  /\ Patient => ~Pending("cameras")
  /\ clicks' = clicks + 1
  /\ page' = [page EXCEPT !.dialog = "paused"]
  /\ streams' = Dropped
  /\ Len(calls) < MaxCalls /\ calls' = Append(calls, Pause)
  /\ UNCHANGED <<server, mount, stored, notice, index, listed>>

TimerRuns(i) ==
  /\ calls[i].op = "wait"
  /\ Overtaking \/ \A j \in 1..(i - 1) : calls[j].op # "wait"
  /\ WaitEnough => streams.asked = {}

(* ... and after it.  If the recording page is there already (two clicks),   *)
(* its start effect has run (startInitiatedRef).                             *)
WaitOver(i) ==
  /\ TimerRuns(i)
  /\ IF page.at = "recording"
     THEN calls' = Rest(i) /\ UNCHANGED <<mount, page, streams>>
     ELSE Opens(Recording(calls[i].arg), Rest(i))
  /\ UNCHANGED <<server, stored, notice, clicks, index, listed>>

-----------------------------------------------------------------------------
LandingUser ==
  \/ \E r \in Robots : SelectRobot(r) \/ CreateRobot(r) \/ Calibrate(r)
  \/ \E d \in disk, onHub \in BOOLEAN : PickDataset(d, onHub)
  \/ DeleteRobot \/ ClickTeleop \/ Configure \/ OpenTraining
  \/ OpenDialog \/ CloseDialog \/ FillRecording \/ ClickRecord

LandingCallback(i) ==
  \/ ListArrives(i) \/ CreateArrives(i) \/ DeleteArrives(i)
  \/ TeleopStarted(i) \/ CamerasArrive(i) \/ WaitOver(i)

=============================================================================
