------------------------------ MODULE TeleopPage ------------------------------
(***************************************************************************)
(* The teleoperation page (frontend/src/pages/Teleoperation.tsx), its      *)
(* camera feeds (TeleopCameraPanel.tsx) and the notice on the next load    *)
(* (TeleopStopNotice.tsx).                                                 *)
(***************************************************************************)
EXTENDS CameraPreview

OnTeleop == page.at = "teleop"

(* handleGoBack waits for the stop; a second click finds stoppedRef set.     *)
ClickBack ==
  /\ OnTeleop /\ Settled
  /\ IF page.stopped
     THEN Opens(Landing, calls)
     ELSE /\ Sends("stop-teleop", "back")
          /\ page' = [page EXCEPT !.stopped = TRUE]
          /\ UNCHANGED <<mount, streams>>
  /\ UNCHANGED <<server, stored, notice, clicks, index, listed>>

(* The browser's Back, or a link: the cleanup stops the arm (Unmounted).     *)
LeaveTeleop ==
  /\ OnTeleop /\ Settled
  /\ Opens(Landing, calls)
  /\ UNCHANGED <<server, stored, notice, clicks, index, listed>>

StopArrives(i) ==
  /\ Arrives(i, "stop-teleop")
  /\ IF calls[i].arg = "back" THEN GoesHome(Rest(i))
     ELSE calls' = Rest(i) /\ UNCHANGED <<mount, page, streams>>
  /\ UNCHANGED <<server, stored, notice, clicks, index, listed>>

(* Requests the server has not read yet outlive the document, their answers  *)
(* and the timers do not.                                                    *)
Outliving ==
  LET unread == Subsequence(calls, {i \in DOMAIN calls :
                                      calls[i].at = "sent"}) IN
  [k \in DOMAIN unread |-> [unread[k] EXCEPT !.mount = 0]]

(* The tab is reloaded, or sent to the landing page by its URL: pagehide     *)
(* stops the arm with keepalive and leaves a flag.  A patient user does so   *)
(* only while the arm is driven.                                             *)
Reload(p) ==
  /\ OnTeleop /\ Settled
  /\ Patient => driving
  /\ mount' = FreshMount(calls) /\ page' = p
  /\ calls' = Append(Outliving, Call("stop-teleop", "hide", 0))
                \o FirstCalls(p, mount')
  /\ notice' = TRUE
  /\ streams' = NoStreams
  /\ UNCHANGED <<server, stored, clicks, index, listed>>

AnswerLost(i) ==
  /\ calls[i].at = "answered" /\ calls[i].mount = 0
  /\ calls' = Rest(i)
  /\ UNCHANGED <<server, tab, cameras>>

(* The toast about the stopped arm, once.                                    *)
NoticeShows ==
  /\ notice /\ notice' = FALSE
  /\ UNCHANGED <<server, calls, mount, page, stored, clicks, cameras>>

(* The switch of the camera panel, and its retry button.                     *)
SwitchFeeds(on) ==
  /\ OnTeleop /\ page.feeds # on
  /\ page' = [page EXCEPT !.feeds = on]
  /\ IF on THEN Asks(streams) ELSE streams' = Dropped
  /\ UNCHANGED <<server, calls, mount, stored, notice, clicks, index,
                 listed>>

Feeding == OnTeleop /\ page.feeds

RetryFeeds ==
  /\ Feeding
  /\ Asks(Dropped)
  /\ UNCHANGED <<server, calls, tab, index, listed>>

-----------------------------------------------------------------------------
TeleopUser ==
  \/ ClickBack \/ LeaveTeleop
  \/ Reload(Teleop) \/ Reload(Landing)
  \/ \E on \in BOOLEAN : SwitchFeeds(on)
  \/ RetryFeeds

TeleopCallback(i) == StopArrives(i) \/ AnswerLost(i)

=============================================================================
