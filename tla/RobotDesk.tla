------------------------------ MODULE RobotDesk ------------------------------
(***************************************************************************)
(* The browser tab of someone who drives the robot: the state that the     *)
(* landing page, teleoperation, recording and upload share, the requests   *)
(* between the tab and the server, and the server as these pages see it.   *)
(*                                                                         *)
(* The state of the mounted page is `page`.                                *)
(***************************************************************************)
EXTENDS RecordingService, Requests

CONSTANTS
  Robots,     \* names of robots
  NoRobot,
  MaxStarts,  \* bound: clicks on "Start Recording"
  Patient,    \* the user lets requests end before going on
  WaitEnough  \* whether the wait for the cameras is always long enough

ASSUME DeskAssumption ==
  /\ NoRobot \notin Robots
  /\ MaxStarts \in Nat \ {0}
  /\ Patient \in BOOLEAN /\ WaitEnough \in BOOLEAN

VARIABLES
  driving,  \* teleoperation_active
  session,  \* the number of the newest recording session
  robots,   \* robots[r] on the server: "none", "new" or "clean"
  disk,     \* the sessions whose dataset is on disk
  page,     \* the mounted page and its state
  stored,   \* localStorage: the selected robot
  notice,   \* sessionStorage: lelab:teleop-stopped
  clicks,   \* clicks on "Start Recording"
  index,    \* the cv2 index of the robot's camera
  streams,  \* the browser's streams of it
  listed    \* history, up to the start: the dialog's newest list has the camera

server == <<service, driving, session, robots, disk>>
tab == <<mount, page, stored, notice, clicks>>
cameras == <<index, streams, listed>>
vars == <<server, calls, tab, cameras>>

Sessions == 1..(MaxStarts + 1)

NoStatus == [active |-> FALSE, phase |-> "none", kept |-> 0, session |-> 0,
             robots |-> [r \in Robots |-> "none"]]

(* What a patient user waits for before the next click.  The effects of a    *)
(* load come before any click.                                               *)
Settled ==
  /\ ~notice
  /\ Patient => /\ \A i \in DOMAIN calls : calls[i].op = "status"
                /\ streams.asked = {}
(* A patient user does nothing on a page that opens for the half second of   *)
(* the landing page's pause (LandingPage).                                   *)
Rested == Patient => ~Pending("wait")

-----------------------------------------------------------------------------
(* Pages.  What they show depends on their fields.  `own` is history: the    *)
(* session that the recording page began, or the dataset that was picked.    *)

Landing ==
  [at |-> "landing", robots |-> NoStatus.robots, selected |-> stored,
   dialog |-> "closed", filled |-> FALSE, index |-> 0]
Teleop == [at |-> "teleop", stopped |-> FALSE, feeds |-> FALSE]
Recording(k) ==
  [at |-> "recording", index |-> k, started |-> FALSE, own |-> 0,
   shown |-> NoStatus, hoped |-> "none", confirm |-> FALSE]
Upload(d, own, onHub) ==
  [at |-> "upload", dataset |-> d, own |-> own, onHub |-> onHub,
   loaded |-> FALSE, busy |-> {}, uploaded |-> FALSE, confirm |-> FALSE]
Elsewhere == [at |-> "elsewhere"]

(* The requests a page sends when it is mounted.                             *)
FirstCalls(p, m) ==
  CASE p.at = "landing" -> <<Call("list", NoRobot, m)>>
    [] p.at = "recording" -> <<Call("record", p.index, m)>>
    [] p.at = "upload" -> <<Call("info", p.dataset, m)>>
    [] OTHER -> <<>>

(* Mutant: only the back button stops the arm.                               *)
UnmountedDriving(cs) == cs

(* Teleoperation.tsx stops the arm when it is unmounted, once.               *)
Unmounted(cs) ==
  IF page.at = "teleop" /\ ~page.stopped
  THEN Append(cs, Call("stop-teleop", "leave", mount)) ELSE cs

NoStreams == [mine |-> 0, asked |-> {}, live |-> {}, retry |-> FALSE,
              failed |-> FALSE]
(* The cleanup of a preview's effect.                                        *)
Dropped == [streams EXCEPT !.mine = 0, !.live = @ \ {streams.mine},
                           !.retry = FALSE, !.failed = FALSE]

(* navigate(): the old page is unmounted, p is mounted; cs are the calls     *)
(* that stay under way.                                                      *)
Opens(p, cs) ==
  LET m == FreshMount(Unmounted(cs)) IN
  /\ mount' = m /\ page' = p
  /\ calls' = Unmounted(cs) \o FirstCalls(p, m)
  /\ streams' = Dropped

(* navigate("/").  The landing page itself stays.  It fetches its list anew  *)
(* (useRobots: location.key), which is left out: the answers come in order   *)
(* and the new list is the one that was maintained.                          *)
GoesHome(cs) ==
  IF page.at = "landing"
  THEN calls' = cs /\ UNCHANGED <<mount, page, streams>>
  ELSE Opens(Landing, cs)

-----------------------------------------------------------------------------
(* The server.  RobotSessions and RecordingSession have what is behind it.   *)
(* An answer's `ok` is what its page tests: `success` in the body, but for   *)
(* the recording page the HTTP status, which is 200 for a refusal too.       *)

ListsRobots(i) ==
  /\ Begins(i, "list")
  /\ Answers(i, TRUE, [NoStatus EXCEPT !.robots = robots])
  /\ UNCHANGED <<server, tab, cameras>>

CreatesRobot(i) ==
  LET ok == robots[calls[i].arg] = "none" IN
  /\ Begins(i, "create")
  /\ Answers(i, ok, NoStatus)
  /\ robots' = IF ok THEN [robots EXCEPT ![calls[i].arg] = "new"] ELSE robots
  /\ UNCHANGED <<service, driving, session, disk, tab, cameras>>

DeletesRobot(i) ==
  LET ok == robots[calls[i].arg] # "none" IN
  /\ Begins(i, "delete")
  /\ Answers(i, ok, NoStatus)
  /\ robots' = [robots EXCEPT ![calls[i].arg] = "none"]
  /\ UNCHANGED <<service, driving, session, disk, tab, cameras>>

(* The start handlers refuse while another mode drives the arms.             *)
StartsTeleop(i) ==
  LET ok == ~driving /\ ~active IN
  /\ Begins(i, "move-arm")
  /\ Answers(i, ok, NoStatus)
  /\ driving' = (driving \/ ok)
  /\ UNCHANGED <<service, session, robots, disk, mount, page,
                 stored, notice, clicks, cameras>>

(* A cable comes loose: the worker ends by itself.                           *)
TeleopBreaks ==
  /\ driving /\ driving' = FALSE
  /\ UNCHANGED <<service, session, robots, disk, calls, tab,
                 cameras>>

StopsTeleop(i) ==
  /\ Begins(i, "stop-teleop")
  /\ Answers(i, driving, NoStatus)
  /\ driving' = FALSE
  /\ UNCHANGED <<service, session, robots, disk, tab, cameras>>

(* A start that fails when it has claimed the service gives it back, in the  *)
(* same request: nothing is active, but the state has been reset.            *)
StartFails ==
  /\ ~active /\ active' = FALSE
  /\ phase' = "preparing" /\ kept' = 0

(* The number 0 in the answer stands for "success: False".                   *)
StartsRecording(i) ==
  LET free == ~driving /\ ~active IN
  /\ Begins(i, "record")
  /\ \/ /\ free /\ BeginSession
        /\ session' = session + 1
        /\ Answers(i, TRUE, [NoStatus EXCEPT !.session = session'])
     \/ /\ free /\ StartFails
        /\ Answers(i, TRUE, NoStatus)
        /\ UNCHANGED session
     \/ /\ ~free
        /\ Answers(i, TRUE, NoStatus)
        /\ UNCHANGED <<service, session>>
  /\ listed' = (listed /\ Pending("wait"))
  /\ UNCHANGED <<driving, robots, disk, tab, index, streams>>

(* Mutant: the worker's end clears recording_config.                         *)
ReportsNoName(i) ==
  /\ Begins(i, "status")
  /\ Answers(i, TRUE, [NoStatus EXCEPT !.active = active, !.phase = phase,
                         !.kept = kept,
                         !.session = IF active THEN session ELSE 0])
  /\ UNCHANGED <<server, tab, cameras>>

ReportsStatus(i) ==
  /\ Begins(i, "status")
  /\ Answers(i, TRUE, [NoStatus EXCEPT !.active = active, !.phase = phase,
                         !.kept = kept, !.session = session])
  /\ UNCHANGED <<server, tab, cameras>>

(* exit-early and re-record only raise events: the phase changes when the    *)
(* worker has seen them.                                                     *)
TakesEvent(i) ==
  /\ Begins(i, "exit") \/ Begins(i, "rerecord")
  /\ Answers(i, TRUE, NoStatus)
  /\ UNCHANGED <<server, tab, cameras>>

StopsRecording(i) ==
  /\ Begins(i, "stop")
  /\ Answers(i, TRUE, NoStatus)
  /\ IF active THEN ChangePhase("stopping") ELSE UNCHANGED service
  /\ UNCHANGED <<driving, session, robots, disk, tab, cameras>>

ReadsInfo(i) ==
  /\ Begins(i, "info")
  /\ Answers(i, calls[i].arg \in disk, NoStatus)
  /\ UNCHANGED <<server, tab, cameras>>

UploadsDataset(i) ==
  /\ Begins(i, "upload")
  /\ \E ok \in {TRUE, FALSE} :
       /\ ok => calls[i].arg \in disk
       /\ Answers(i, ok, NoStatus)
  /\ UNCHANGED <<server, tab, cameras>>

DeletesDataset(i) ==
  /\ Begins(i, "discard")
  /\ Answers(i, calls[i].arg \in disk, NoStatus)
  /\ disk' = disk \ {calls[i].arg}
  /\ UNCHANGED <<service, driving, session, robots, tab, cameras>>

(* The session's worker, abstractly.                                         *)
SessionGoesOn ==
  /\ \/ \E to \in {"recording", "resetting", "completed", "error"} :
          phase # to /\ ChangePhase(to)
     \/ KeepEpisode \/ EndSession
  /\ disk' = IF kept' > 0 THEN disk \cup {session} ELSE disk
  /\ UNCHANGED <<driving, session, robots, calls, tab, cameras>>

(* A request of the recording page does not reach its handler: no connection *)
(* or a body that FastAPI refuses.                                           *)
ConnectionFails(i) ==
  /\ Begins(i, "record") \/ Begins(i, "exit")
  /\ Answers(i, FALSE, NoStatus)
  /\ UNCHANGED <<server, tab, cameras>>

Serves(i) ==
  \/ ListsRobots(i) \/ CreatesRobot(i) \/ DeletesRobot(i)
  \/ StartsTeleop(i) \/ StopsTeleop(i)
  \/ StartsRecording(i) \/ ReportsStatus(i) \/ TakesEvent(i)
  \/ StopsRecording(i)
  \/ ReadsInfo(i) \/ UploadsDataset(i) \/ DeletesDataset(i)

=============================================================================
