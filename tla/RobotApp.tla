------------------------------- MODULE RobotApp -------------------------------
(***************************************************************************)
(* Driving the robot from the browser: the landing page, teleoperation,    *)
(* recording and upload over the server they share (RobotDesk), as one     *)
(* user in one tab meets them.                                             *)
(***************************************************************************)
EXTENDS LandingPage, TeleopPage, RecordingPage, UploadPage

Init ==
  /\ ServiceInit
  /\ driving = FALSE /\ session = 0
  /\ robots \in [Robots -> {"none", "clean"}]
  /\ disk = {}
  /\ stored = NoRobot /\ notice = FALSE /\ clicks = 0
  /\ mount = 1
  /\ page = [at |-> "landing", robots |-> NoStatus.robots,
             selected |-> NoRobot, dialog |-> "closed", filled |-> FALSE,
             index |-> 0]
  /\ calls = <<Call("list", NoRobot, 1)>>
  /\ index = 0 /\ streams = NoStreams /\ listed = FALSE

ComeBack ==
  /\ page.at = "elsewhere"
  /\ Opens(Landing, calls)
  /\ UNCHANGED <<server, stored, notice, clicks, index, listed>>

User ==
  \/ LandingUser \/ TeleopUser \/ RecordingUser \/ UploadUser \/ ComeBack
  \/ \E k \in {0, 1} : DeviceChanges(k)

Callback(i) ==
  \/ LandingCallback(i) \/ TeleopCallback(i)
  \/ RecordingCallback(i) \/ UploadCallback(i)

Browser == Streams \/ NoticeShows \/ Poll

Server ==
  \/ \E i \in DOMAIN calls : Serves(i) \/ ListsCameras(i)
  \/ \E i \in DOMAIN calls : ConnectionFails(i)
  \/ SessionGoesOn \/ TeleopBreaks

Next == User \/ (\E i \in DOMAIN calls : Callback(i)) \/ Browser \/ Server

Spec == Init /\ [][Next]_vars

(* The server answers, the browser runs callbacks and timers, a camera is    *)
(* granted or refused.  The user owes nothing, nor does a cable.             *)
FairSpec ==
  /\ Spec
  /\ WF_vars(\E i \in DOMAIN calls : Serves(i) \/ ListsCameras(i))
  /\ WF_vars(\E i \in DOMAIN calls : Callback(i))
  /\ WF_vars(Browser)

-----------------------------------------------------------------------------
TypeOK ==
  /\ active \in BOOLEAN /\ phase \in Phases /\ kept \in 0..NumEpisodes
  /\ driving \in BOOLEAN /\ session \in 0..MaxStarts
  /\ robots \in [Robots -> {"none", "new", "clean"}]
  /\ disk \subseteq Sessions
  /\ stored \in Robots \cup {NoRobot} /\ notice \in BOOLEAN
  /\ clicks \in 0..MaxStarts /\ index \in {0, 1} /\ listed \in BOOLEAN
  /\ page.at \in {"landing", "teleop", "recording", "upload", "elsewhere"}
  /\ \A i \in DOMAIN calls : calls[i].at \in {"sent", "waiting", "answered"}
  /\ streams.asked \cup streams.live \subseteq StreamIds

(* When no request about robots is under way, the landing page shows the     *)
(* robots the server has, and the selected one is among them (useRobots.ts   *)
(* keeps its copy up to date without fetching the list again).               *)
ListMatchesServer ==
  (/\ OnLanding
   /\ \A i \in DOMAIN calls : calls[i].op \notin {"list", "create", "delete"})
  => /\ page.robots = robots
     /\ page.selected # NoRobot => robots[page.selected] # "none"

(* A stream nobody shows any more is stopped, one that is granted after its  *)
(* preview is gone included: otherwise the camera stays busy                 *)
(* (useCameraStream.ts: cancelledRef, stopTracks).                           *)
StreamsOwned == streams.live \subseteq {streams.mine} \ {0}

(* When a session begins, the browser holds no camera, and the session opens *)
(* the index that the robot's camera has now, if the dialog's newest list    *)
(* had that camera (Landing.tsx, handleStartRecording;                       *)
(* CameraConfiguration.tsx, the remapping effect).                           *)
CamerasHandedOver ==
  [][session' # session =>
       /\ streams.live = {}
       /\ listed => \A i \in DOMAIN calls :
                      calls[i].op = "record" => calls[i].arg = index]_vars

(* Nobody is sent home from a recording under way, nor from one that saved   *)
(* an episode (Recording.tsx: "only go home when nothing survived it").      *)
NotBounced ==
  [][page.at = "recording" /\ page.started /\ OnLanding' /\ ~LeaveRecording
       => ~active /\ kept = 0]_vars

(* A recording page whose start was accepted leads to the upload of that     *)
(* session, and a dataset that was picked to its own upload: not an earlier  *)
(* session's, whose status the server goes on reporting.  (A page whose      *)
(* start was refused, own = 0, follows whatever session there is.)           *)
UploadsOwn ==
  page.at = "upload" /\ page.own # 0 => page.dataset = page.own

(* Recording.tsx says of a start while a session is under way that it        *)
(* "returns 409 and bounces the user home": the page does not stay with a    *)
(* session that it did not begin.                                            *)
RefusedGoHome ==
  page.at = "recording" /\ page.started /\ active => page.own # 0

(* The recording page is left once the session that it follows is over,      *)
(* however it ended, and also when it is one that the page did not begin.    *)
(* (A start that failed is no session: its phase stays "preparing", and the  *)
(* page stays until the user leaves.)                                        *)
EndLeadsOn ==
  (page.at = "recording" /\ page.started /\ ~active
     /\ phase \in {"completed", "error"}) ~> (page.at # "recording")

(* An arm that was left driving is stopped (Teleoperation.tsx: "Cover every  *)
(* exit path so a session can't keep running").                              *)
TeleopStops == (driving /\ ~OnTeleop) ~> (~driving \/ OnTeleop)

=============================================================================
