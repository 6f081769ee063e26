---------------------------- MODULE RecordingPage ----------------------------
(***************************************************************************)
(* The recording page (frontend/src/pages/Recording.tsx).  It starts the   *)
(* session when it is mounted (FirstCalls) and follows it by polling.      *)
(***************************************************************************)
EXTENDS RobotDesk

OnRecording == page.at = "recording"
Connected == OnRecording /\ page.shown # NoStatus

(* An HTTP error or none leads home, from whatever page the tab is on by     *)
(* now; any other answer counts as a start.  (The index has been sent: it is *)
(* not kept, which saves states.)                                            *)
RecordArrives(i) ==
  /\ Arrives(i, "record")
  /\ IF ~calls[i].ok THEN GoesHome(Rest(i))
     ELSE /\ calls' = Rest(i)
          /\ page' = IF ForThisMount(i)
                     THEN [page EXCEPT !.started = TRUE, !.index = 0,
                                       !.own = calls[i].seen.session]
                     ELSE page
          /\ UNCHANGED <<mount, streams>>
  /\ UNCHANGED <<server, stored, notice, clicks, index, listed>>

(* Once a second.  An answer takes less (it may come after the page is left) *)
Poll ==
  /\ OnRecording /\ page.started /\ ~Pending("status")
  /\ calls' = Sent("status", page.own)
  /\ UNCHANGED <<server, tab, cameras>>

(* navigate("/upload").                                                      *)
GoesToUpload(d, own, cs) ==
  IF page.at = "upload"
  THEN /\ page' = [page EXCEPT !.dataset = d, !.own = own]
       /\ calls' = Append(cs, Call("info", d, mount))
       /\ UNCHANGED <<mount, streams>>
  ELSE Opens(Upload(d, own, FALSE), cs)

SessionEnded(s) == ~s.active /\ s.phase \in {"completed", "error"}
NothingSaved(s) == s.phase = "error" /\ s.kept = 0

(* What a poll's answer does, by what counts as ended and as worth a visit   *)
(* of the upload page.  The interval is cleared when the page goes; the      *)
(* answers under way are not.                                                *)
FollowsStatus(i, ended, nothing) ==
  LET s == calls[i].seen IN
  /\ Arrives(i, "status")
  /\ CASE ~ended ->
            /\ calls' = Rest(i)
            /\ page' = IF ~ForThisMount(i) THEN page
                       ELSE [page EXCEPT !.shown = s,
                               !.hoped = IF @ = s.phase THEN "none" ELSE @]
            /\ UNCHANGED <<mount, streams>>
       [] ended /\ nothing -> GoesHome(Rest(i))
       [] OTHER -> GoesToUpload(s.session, calls[i].arg, Rest(i))
  /\ UNCHANGED <<server, stored, notice, clicks, index, listed>>

(* Mutant: a session that failed leads home, whatever it has saved.          *)
StatusDropsTakes(i) ==
  FollowsStatus(i, SessionEnded(calls[i].seen),
                calls[i].seen.phase = "error")

(* Mutant: a failed session does not count as ended.                         *)
StatusWaitsForSuccess(i) ==
  FollowsStatus(i, SessionEnded(calls[i].seen)
                     /\ calls[i].seen.phase = "completed",
                NothingSaved(calls[i].seen))

StatusArrives(i) ==
  FollowsStatus(i, SessionEnded(calls[i].seen), NothingSaved(calls[i].seen))

-----------------------------------------------------------------------------
(* The controls: buttons and keys.                                           *)

(* A patient user answers the open question first.                           *)
Free == Connected /\ Settled /\ ~page.confirm

After(p) == IF p = "recording" THEN "resetting" ELSE "recording"

(* What the page takes for the phase: the one it hopes for, if there is one. *)
CurrentPhase == IF page.hoped = "none" THEN page.shown.phase ELSE page.hoped

AdvanceOffered ==
  /\ page.shown.active /\ page.hoped = "none"
  /\ CurrentPhase \in {"recording", "resetting"}

ClickAdvance ==
  /\ Free /\ AdvanceOffered
  /\ Sends("exit", 0)
  /\ page' = [page EXCEPT !.hoped = After(CurrentPhase)]
  /\ UNCHANGED <<server, mount, stored, notice, clicks, cameras>>

ExitArrives(i) ==
  /\ Arrives(i, "exit")
  /\ calls' = Rest(i)
  /\ page' = IF ForThisMount(i) /\ ~calls[i].ok
             THEN [page EXCEPT !.hoped = "none"] ELSE page
  /\ UNCHANGED <<server, mount, stored, notice, clicks, cameras>>

(* available_controls.                                                       *)
MenuOffers(item) ==
  /\ page.shown.active
  /\ item = "rerecord" => page.shown.phase = "recording"

ClickRerecord ==
  /\ Free /\ MenuOffers("rerecord")
  /\ Sends("rerecord", 0)
  /\ UNCHANGED <<server, tab, cameras>>

AskStop ==
  /\ Free /\ MenuOffers("stop")
  /\ page' = [page EXCEPT !.confirm = TRUE]
  /\ UNCHANGED <<server, calls, mount, stored, notice, clicks, cameras>>

(* The session may have ended while the question was open.                   *)
Asking == OnRecording /\ page.confirm

AnswerStop(yes) ==
  /\ Asking
  /\ page' = [page EXCEPT !.confirm = FALSE]
  /\ IF yes /\ page.shown.active THEN Sends("stop", 0) ELSE UNCHANGED calls
  /\ UNCHANGED <<server, mount, stored, notice, clicks, cameras>>

(* A toast, whatever the answer.                                             *)
ToastArrives(i) ==
  /\ Arrives(i, "rerecord") \/ Arrives(i, "stop")
  /\ calls' = Rest(i)
  /\ UNCHANGED <<server, tab, cameras>>

(* The session goes on without the page.                                     *)
LeaveRecording ==
  /\ Free
  /\ Opens(Landing, calls)
  /\ UNCHANGED <<server, stored, notice, clicks, index, listed>>

-----------------------------------------------------------------------------
RecordingUser ==
  \/ ClickAdvance \/ ClickRerecord \/ AskStop \/ LeaveRecording
  \/ \E yes \in BOOLEAN : AnswerStop(yes)

RecordingCallback(i) ==
  \/ RecordArrives(i) \/ StatusArrives(i) \/ ExitArrives(i)
  \/ ToastArrives(i)

=============================================================================
